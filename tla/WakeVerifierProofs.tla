------------------------- MODULE WakeVerifierProofs --------------------------
(***************************************************************************)
(* Proofs about WakeVerifier, for any number of wakes and any limit on the *)
(* requests outstanding.                                                   *)
(***************************************************************************)
EXTENDS WakeVerifier, FiniteSetTheorems, WellFoundedInduction, TLAPS

\* The audio thread has one wake at a time, and the loop has run the callback
\* of one before the next is detected.
OneAtATime ==
  /\ callback # NoCallback => thread = Idle
  /\ thread # Idle => thread.at \in {"gate", "post"} /\ thread.wake = heard /\ heard > 0
                        /\ thread.mode \in {"observe", "enforce"}
  /\ thread.at = "gate" => thread.mode = "enforce"
  /\ callback # NoCallback => callback.wake = heard /\ heard > 0
                                /\ callback.mode \in {"observe", "enforce"}

InTransit == thread # Idle \/ callback # NoCallback

\* Every request was made for a wake, and few since the awaited one.
Counted ==
  /\ InTransit => generation < heard
  /\ pendingId # None =>
       /\ generation + (IF InTransit THEN 1 ELSE 0) <= pendingId + young
       /\ connected /\ ringReady

\* No enforced wake is detected while one is awaited.
NotBoth ==
  pendingId # None =>
    ~(thread # Idle /\ thread.mode = "enforce") /\ ~(callback # NoCallback /\ callback.mode = "enforce")

\* While connected, an enforced wake travels behind a closed gate.
ClosedOnTheWay == connected /\ InFlight => gate

\* The wakes held are those on their way and the one awaited.
Held == (IF thread # Idle /\ thread.mode = "enforce" THEN {thread.wake} ELSE {})
          \cup (IF callback # NoCallback /\ callback.mode = "enforce" THEN {callback.wake} ELSE {})
          \cup ({pendingWord} \ {None})

HistoryMatches ==
  /\ \A w \in Wakes : outcome[w] = "held" <=> w \in Held
  /\ \A w \in Wakes : w > heard => outcome[w] = "unheard"
  /\ thread # Idle /\ thread.mode = "observe" => outcome[thread.wake] = "unheard"

Inv == /\ TypeOK /\ GateHasOwner /\ AwaitedIsKept
       /\ OneAtATime /\ Counted /\ NotBoth /\ ClosedOnTheWay /\ HistoryMatches
       /\ pendingWord # None => pendingId # None

-----------------------------------------------------------------------------

\* A table of request ids is finite, and its oldest id is one of them.
LEMMA OldestExists ==
  ASSUME NEW S \in SUBSET Nat, S # {}
  PROVE  Min(S) \in S /\ \A r \in S : Min(S) <= r
<1>1. \E x \in S : \A y \in S : ~(<<y, x>> \in OpToRel(<, Nat))
  BY NatLessThanWellFounded, WFMin
<1>2. PICK x \in S : \A y \in S : ~(<<y, x>> \in OpToRel(<, Nat))
  BY <1>1
<1>3. \A y \in S : x <= y
  <2>. TAKE y \in S
  <2>1. x \in Nat /\ y \in Nat
    OBVIOUS
  <2>2. ~(y < x)
    BY <1>2, <2>1 DEF OpToRel
  <2>. QED
    BY <2>1, <2>2
<1>. QED
  BY <1>3 DEF Min

\* Making room drops at most the oldest request: never the awaited one, and
\* the table has room for one more.
LEMMA RoomIsMade ==
  ASSUME Inv
  PROVE  /\ Kept \subseteq requests
         /\ \A id : Cardinality(Kept \cup {id}) <= MaxOutstanding
         /\ Cardinality(Kept) <= MaxOutstanding
         /\ pendingId # None /\ callback # NoCallback => pendingId \in Kept
<1>0. /\ requests \in SUBSET Nat /\ generation \in Nat /\ pendingId \in Nat
      /\ MaxOutstanding \in Nat \ {0} /\ heard \in Nat
      /\ requests \in SUBSET (1..generation) /\ Cardinality(requests) <= MaxOutstanding
  BY WakeVerifierAssumption DEF Inv, TypeOK
<1>1. IsFiniteSet(requests) /\ Cardinality(requests) \in Nat
  <2>1. IsFiniteSet(1..generation)
    BY <1>0, FS_Interval
  <2>2. IsFiniteSet(requests)
    BY <1>0, <2>1, FS_Subset
  <2>. QED
    BY <2>2, FS_CardinalityType
<1>2. CASE Cardinality(requests) < MaxOutstanding
  <2>1. Kept = requests
    BY <1>2 DEF Kept
  <2>2. \A id : Cardinality(requests \cup {id}) <= MaxOutstanding
    <3>. TAKE id
    <3>1. Cardinality(requests \cup {id}) = IF id \in requests THEN Cardinality(requests)
                                                              ELSE Cardinality(requests) + 1
      BY <1>1, FS_AddElement
    <3>. QED
      BY <3>1, <1>0, <1>1, <1>2
  <2>3. pendingId # None => pendingId \in requests
    BY DEF Inv, AwaitedIsKept, TypeOK
  <2>. QED
    BY <2>1, <2>2, <2>3, <1>0
<1>3. CASE ~(Cardinality(requests) < MaxOutstanding)
  <2>1. requests # {} /\ Kept = requests \ {Min(requests)}
    <3>1. requests # {}
      BY <1>0, <1>3, FS_EmptySet
    <3>. QED
      BY <3>1, <1>3 DEF Kept
  <2>2. Min(requests) \in requests /\ \A r \in requests : Min(requests) <= r
    BY <1>0, <2>1, OldestExists
  <2>3. IsFiniteSet(Kept) /\ Cardinality(Kept) = Cardinality(requests) - 1
    BY <1>1, <2>1, <2>2, FS_RemoveElement
  <2>4. \A id : Cardinality(Kept \cup {id}) <= MaxOutstanding
    <3>. TAKE id
    <3>1. Cardinality(Kept \cup {id}) = IF id \in Kept THEN Cardinality(Kept)
                                                      ELSE Cardinality(Kept) + 1
      BY <2>3, FS_AddElement
    <3>. QED
      BY <3>1, <2>3, <1>0, <1>1
  <2>5. ASSUME pendingId # None, callback # NoCallback PROVE pendingId \in Kept
    <3>1. pendingId \in requests
      BY <2>5 DEF Inv, AwaitedIsKept, TypeOK
    <3>2. SUFFICES ASSUME Min(requests) = pendingId PROVE FALSE
      BY <3>1, <2>1
    <3>3. requests \in SUBSET (pendingId..generation)
      BY <2>2, <3>2, <1>0
    <3>4. Cardinality(requests) <= generation - pendingId + 1
      <4>1. Cardinality(pendingId..generation) = generation - pendingId + 1
              /\ IsFiniteSet(pendingId..generation)
        BY <1>0, <3>1, FS_Interval
      <4>. QED
        BY <4>1, <3>3, FS_Subset
    <3>5. generation + 1 <= pendingId + young /\ young <= WakesPerTimeout
      BY <2>5 DEF Inv, TypeOK, Counted, InTransit
    <3>6. young \in Nat /\ WakesPerTimeout \in Nat /\ WakesPerTimeout < MaxOutstanding
      BY WakeVerifierAssumption DEF Inv, TypeOK
    <3>. QED
      BY <1>0, <1>1, <1>3, <3>4, <3>5, <3>6
  <2>. QED
    BY <2>1, <2>3, <2>4, <2>5, <1>0, <1>1
<1>. QED
  BY <1>2, <1>3

-----------------------------------------------------------------------------

\* Nothing is asked or held when the client starts, and the gate is open.
THEOREM InitInv == Init => Inv
<1>. SUFFICES ASSUME Init PROVE Inv
  OBVIOUS
<1>1. TypeOK
  <2>1. Cardinality(requests) <= MaxOutstanding
    BY FS_EmptySet, WakeVerifierAssumption DEF Init
  <2>2. thread \in [at : {"idle", "gate", "post"}, wake : Wakes \cup {None}, mode : Modes]
          /\ callback \in [wake : Wakes \cup {None}, mode : Modes] /\ mode \in Modes
    BY DEF Init, Idle, NoCallback, Modes
  <2>3. Abstract!TypeOK
    BY DEF Init, Abstract!TypeOK, Abstract!Outcomes
  <2>4. MaxWakes \in Nat /\ WakesPerTimeout \in Nat
    BY WakeVerifierAssumption
  <2>5. heard \in 0..MaxWakes /\ generation \in 0..heard /\ pendingId \in 0..generation
          /\ pendingWord \in 0..heard /\ timeout \in 0..generation /\ young \in 0..WakesPerTimeout
    BY <2>4 DEF Init, None
  <2>6. requests \subseteq 1..generation /\ enforced \subseteq requests /\ armed \subseteq 1..generation
          /\ connected \in BOOLEAN /\ ringReady \in BOOLEAN /\ gate \in BOOLEAN
    BY DEF Init
  <2>. QED
    BY <2>1, <2>2, <2>3, <2>5, <2>6 DEF TypeOK
<1>2. GateHasOwner /\ AwaitedIsKept /\ OneAtATime /\ Counted /\ NotBoth /\ ClosedOnTheWay
  BY DEF Init, GateHasOwner, AwaitedIsKept, OneAtATime, Counted, NotBoth, ClosedOnTheWay, InFlight, InTransit, None,
         Idle, NoCallback
<1>3. HistoryMatches
  BY DEF Init, HistoryMatches, Held, None, Idle, NoCallback
<1>. QED
  BY <1>1, <1>2, <1>3 DEF Inv, Init, None

-----------------------------------------------------------------------------

\* A detected wake goes through, is dropped at a closed gate, or is held.
LEMMA DetectInv == Inv /\ Detect => Inv'
<1>. SUFFICES ASSUME Inv, Detect PROVE Inv'
  OBVIOUS
<1>. USE WakeVerifierAssumption DEF Inv
<1>1. heard \in Nat /\ heard' = heard + 1 /\ heard' \in Wakes /\ young' \in Nat
  BY DEF Detect, TypeOK, Wakes
<1>2. \/ /\ thread' = Idle
         /\ outcome' \in {[outcome EXCEPT ![heard'] = o] : o \in {"woken", "dropped"}}
      \/ /\ thread' = [at |-> "post", wake |-> heard', mode |-> "observe"]
         /\ outcome' = outcome
      \/ /\ thread' = [at |-> "gate", wake |-> heard', mode |-> "enforce"]
         /\ outcome' = [outcome EXCEPT ![heard'] = "held"]
         /\ ~gate
  BY DEF Detect, Decide, GateOpen
<1>3. thread = Idle /\ callback = NoCallback /\ callback' = NoCallback /\ gate' = gate
        /\ UNCHANGED <<mode, connected, ringReady, generation, requests, enforced, pendingId,
                       pendingWord, timeout, armed>>
  BY DEF Detect, loopVars
<1>4. TypeOK'
  <2>1. thread' \in [at : {"idle", "gate", "post"}, wake : Wakes \cup {None}, mode : Modes]
    BY <1>1, <1>2 DEF Idle, Modes
  <2>2. Abstract!TypeOK'
    BY <1>2 DEF TypeOK, Abstract!TypeOK, Abstract!Outcomes
  <2>3. heard' \in 0..MaxWakes /\ young' \in 0..WakesPerTimeout
    BY <1>1 DEF TypeOK, Wakes, Detect, None
  <2>4. generation' \in 0..heard' /\ pendingWord' \in 0..heard'
    BY <1>1, <1>3 DEF TypeOK
  <2>. QED
    BY <2>1, <2>2, <2>3, <2>4, <1>3 DEF TypeOK
<1>5. GateHasOwner'
  BY <1>2, <1>3 DEF GateHasOwner, InFlight, Idle, NoCallback
<1>6. AwaitedIsKept'
  BY <1>3 DEF AwaitedIsKept
<1>7. OneAtATime'
  BY <1>1, <1>2, <1>3 DEF OneAtATime, Idle, NoCallback
<1>8. Counted'
  BY <1>1, <1>2, <1>3 DEF Counted, InTransit, Detect, Idle, TypeOK, None
<1>9. NotBoth' /\ ClosedOnTheWay'
  BY <1>2, <1>3 DEF NotBoth, ClosedOnTheWay, InFlight, Idle, AwaitedIsKept
<1>10. HistoryMatches'
  <2>1. Held = {pendingWord} \ {None} /\ heard' \notin Held /\ outcome[heard'] = "unheard"
    BY <1>1, <1>3 DEF Held, HistoryMatches, TypeOK
  <2>2. CASE thread' = Idle
    <3>1. Held' = Held
      BY <2>1, <2>2, <1>3 DEF Held
    <3>2. PICK o \in {"woken", "dropped"} : outcome' = [outcome EXCEPT ![heard'] = o]
      BY <2>2, <1>2 DEF Idle
    <3>3. \A w \in Wakes : outcome'[w] = IF w = heard' THEN o ELSE outcome[w]
      BY <3>2 DEF TypeOK, Abstract!TypeOK
    <3>4. \A w \in Wakes : outcome'[w] = "held" <=> w \in Held'
      BY <3>1, <3>3, <2>1 DEF HistoryMatches
    <3>5. \A w \in Wakes : w > heard' => outcome'[w] = "unheard"
      BY <3>3, <1>1 DEF HistoryMatches, Wakes
    <3>. QED
      BY <3>4, <3>5, <2>2 DEF HistoryMatches
  <2>3. CASE thread' = [at |-> "post", wake |-> heard', mode |-> "observe"] /\ outcome' = outcome
    <3>1. Held' = Held
      BY <2>1, <2>3, <1>3 DEF Held
    <3>. QED
      BY <3>1, <2>1, <2>3, <1>1 DEF HistoryMatches, TypeOK
  <2>4. CASE /\ thread' = [at |-> "gate", wake |-> heard', mode |-> "enforce"]
             /\ outcome' = [outcome EXCEPT ![heard'] = "held"]
    <3>1. Held' = Held \cup {heard'}
      BY <2>1, <2>4, <1>3 DEF Held, Idle
    <3>. QED
      BY <3>1, <2>1, <2>4, <1>1 DEF HistoryMatches, TypeOK, Abstract!TypeOK
  <2>. QED
    BY <2>2, <2>3, <2>4, <1>2
<1>. QED
  BY <1>3, <1>4, <1>5, <1>6, <1>7, <1>8, <1>9, <1>10

(* The audio thread closes the gate: its wake, on the way, will open it.    *)
LEMMA CloseGateInv == Inv /\ CloseGate => Inv'
<1>. SUFFICES ASSUME Inv, CloseGate PROVE Inv'
  OBVIOUS
<1>. USE DEF Inv
<1>1. thread' = [at |-> "post", wake |-> thread.wake, mode |-> thread.mode]
  BY DEF CloseGate, TypeOK
<1>2. TypeOK'
  BY <1>1 DEF TypeOK, CloseGate, loopVars, Abstract!TypeOK
<1>3. GateHasOwner' /\ AwaitedIsKept' /\ OneAtATime' /\ NotBoth' /\ ClosedOnTheWay'
  BY <1>1 DEF GateHasOwner, AwaitedIsKept, OneAtATime, NotBoth, ClosedOnTheWay, InFlight, CloseGate, Idle, loopVars, TypeOK
<1>4. Counted' /\ HistoryMatches'
  BY <1>1 DEF Counted, HistoryMatches, Held, InTransit, CloseGate, Idle, loopVars, OneAtATime
<1>. QED
  BY <1>2, <1>3, <1>4 DEF CloseGate, loopVars

(* The wake moves from the audio thread to the callback, its gate with it.  *)
LEMMA PostInv == Inv /\ Post => Inv'
<1>. SUFFICES ASSUME Inv, Post PROVE Inv'
  OBVIOUS
<1>. USE DEF Inv
<1>1. thread # Idle /\ callback = NoCallback /\ thread.mode \in {"observe", "enforce"}
        /\ thread.wake = heard /\ heard > 0 /\ heard \in Wakes
        /\ callback' = [wake |-> thread.wake, mode |-> thread.mode] /\ callback' # NoCallback
        /\ callback'.mode = thread.mode /\ callback'.wake = heard
  BY DEF Post, OneAtATime, Idle, NoCallback, TypeOK, Wakes, None
<1>2. TypeOK'
  BY <1>1 DEF TypeOK, Post, Decide, Idle, Modes, loopVars, None, Abstract!TypeOK, Abstract!Outcomes
<1>3. GateHasOwner' /\ AwaitedIsKept' /\ OneAtATime' /\ NotBoth' /\ ClosedOnTheWay'
  BY <1>1 DEF GateHasOwner, AwaitedIsKept, OneAtATime, NotBoth, ClosedOnTheWay, InFlight, Post, Idle, loopVars
<1>4. Counted'
  BY <1>1 DEF Counted, InTransit, Post, loopVars
<1>5. HistoryMatches'
  BY <1>1 DEF HistoryMatches, Held, Post, Decide, Idle, loopVars, TypeOK, Abstract!TypeOK
<1>. QED
  BY <1>2, <1>3, <1>4, <1>5 DEF Post, loopVars

(* Captured audio and new settings touch neither gate nor requests.         *)
LEMMA CaptureInv == Inv /\ (CaptureEnough \/ \E m \in Modes : ApplySettings(m)) => Inv'
<1>. SUFFICES ASSUME Inv, CaptureEnough \/ \E m \in Modes : ApplySettings(m) PROVE Inv'
  OBVIOUS
<1>1. /\ mode' \in Modes /\ ringReady' \in BOOLEAN /\ (ringReady => ringReady')
      /\ UNCHANGED <<connected, heard, thread, gate, callback, generation, requests, enforced,
                     pendingId, pendingWord, timeout, armed, young, outcome>>
  BY DEF CaptureEnough, ApplySettings, loopVars, Inv, TypeOK
<1>2. TypeOK'
  BY <1>1 DEF Inv, TypeOK, Abstract!TypeOK
<1>3. GateHasOwner' /\ AwaitedIsKept' /\ OneAtATime' /\ NotBoth' /\ ClosedOnTheWay' /\ Counted'
  BY <1>1 DEF Inv, GateHasOwner, AwaitedIsKept, OneAtATime, NotBoth, ClosedOnTheWay, Counted, InTransit, InFlight
<1>4. HistoryMatches'
  BY <1>1 DEF Inv, HistoryMatches, Held
<1>. QED
  BY <1>1, <1>2, <1>3, <1>4 DEF Inv

(* A connection is only made when no wake is on its way.                    *)
LEMMA ConnectInv == Inv /\ Connect => Inv'
<1>. SUFFICES ASSUME Inv, Connect PROVE Inv'
  OBVIOUS
<1>. USE DEF Inv, Connect, loopVars
<1>1. TypeOK'
  BY DEF TypeOK, Abstract!TypeOK
<1>2. GateHasOwner' /\ AwaitedIsKept' /\ OneAtATime' /\ NotBoth' /\ ClosedOnTheWay' /\ Counted'
  BY DEF GateHasOwner, AwaitedIsKept, OneAtATime, NotBoth, ClosedOnTheWay, Counted, InTransit, InFlight, Idle
<1>3. HistoryMatches'
  BY DEF HistoryMatches, Held
<1>. QED
  BY <1>1, <1>2, <1>3

\* A lost connection forgets the awaited wake and leaves the gate open.
LEMMA DisconnectInv == Inv /\ Disconnect => Inv'
<1>. SUFFICES ASSUME Inv, Disconnect PROVE Inv'
  OBVIOUS
<1>. USE DEF Inv
<1>1. /\ connected' = FALSE /\ timeout' = None /\ armed' = {} /\ requests' = {} /\ enforced' = {}
      /\ pendingId' = None /\ pendingWord' = None /\ gate' = FALSE
      /\ UNCHANGED <<mode, ringReady, heard, thread, callback, generation, young>>
  BY DEF Disconnect, NothingPending, AwaitedIsKept
<1>2. /\ pendingWord = None => outcome' = outcome
      /\ pendingWord # None => outcome' = [outcome EXCEPT ![pendingWord] = "dropped"]
  BY DEF Disconnect, Decide
<1>3. TypeOK'
  <2>1. Cardinality(requests') <= MaxOutstanding
    BY <1>1, FS_EmptySet, WakeVerifierAssumption
  <2>2. Abstract!TypeOK'
    BY <1>2 DEF TypeOK, Abstract!TypeOK, Abstract!Outcomes
  <2>3. 0 \in 0..generation /\ 0 \in 0..heard
    BY WakeVerifierAssumption DEF TypeOK
  <2>. QED
    BY <1>1, <2>1, <2>2, <2>3 DEF TypeOK, None
<1>4. GateHasOwner' /\ AwaitedIsKept' /\ OneAtATime' /\ NotBoth' /\ ClosedOnTheWay'
  BY <1>1 DEF GateHasOwner, AwaitedIsKept, OneAtATime, NotBoth, ClosedOnTheWay
<1>5. Counted'
  BY <1>1 DEF Counted, InTransit
<1>6. HistoryMatches'
  <2>1. pendingWord # None => Held = {pendingWord} /\ pendingWord \in Wakes /\ pendingWord <= heard
    BY WakeVerifierAssumption DEF Held, NotBoth, TypeOK, None, Wakes
  <2>2. pendingWord # None => Held' = {}
    BY <1>1 DEF Held, NotBoth
  <2>3. pendingWord = None => Held' = Held
    BY <1>1 DEF Held
  <2>4. CASE pendingWord = None
    BY <1>1, <1>2, <2>3, <2>4 DEF HistoryMatches
  <2>5. CASE pendingWord # None
    <3>1. \A w \in Wakes : outcome'[w] = IF w = pendingWord THEN "dropped" ELSE outcome[w]
      BY <1>2, <2>5 DEF TypeOK, Abstract!TypeOK
    <3>2. \A w \in Wakes : outcome'[w] = "held" <=> w \in Held'
      BY <3>1, <2>1, <2>2, <2>5 DEF HistoryMatches
    <3>3. \A w \in Wakes : w > heard' => outcome'[w] = "unheard"
      BY <3>1, <2>1, <2>5, <1>1 DEF HistoryMatches, TypeOK, Wakes
    <3>4. thread' # Idle /\ thread'.mode = "observe" => outcome'[thread'.wake] = "unheard"
      <4>1. thread # Idle => thread.wake \in Wakes
        BY WakeVerifierAssumption DEF OneAtATime, TypeOK, Wakes
      <4>2. outcome[pendingWord] = "held"
        BY <2>1, <2>5 DEF HistoryMatches
      <4>. QED
        BY <4>1, <4>2, <3>1, <1>1 DEF HistoryMatches
    <3>. QED
      BY <3>2, <3>3, <3>4 DEF HistoryMatches
  <2>. QED
    BY <2>4, <2>5
<1>. QED
  BY <1>1, <1>3, <1>4, <1>5, <1>6

\* A verdict, a timeout or a stale answer completes the request it names.
LEMMA CompleteInv ==
  ASSUME Inv, NEW id \in 1..generation, NEW accepted \in BOOLEAN, NEW available \in BOOLEAN,
         NEW fired \in SUBSET {id}, fired \subseteq armed, Complete(id, accepted, available, fired)
  PROVE  Inv'
<1>. USE DEF Inv
<1>1. UNCHANGED <<mode, connected, ringReady, heard, thread, callback, generation, young>>
        /\ requests' = requests \ {id} /\ enforced' = enforced \ {id}
  BY DEF Complete
<1>2. Cardinality(requests') <= MaxOutstanding
  <2>1. IsFiniteSet(1..generation)
    BY FS_Interval, WakeVerifierAssumption DEF TypeOK
  <2>2. IsFiniteSet(requests)
    BY <2>1, FS_Subset DEF TypeOK
  <2>3. Cardinality(requests') = (IF id \in requests THEN Cardinality(requests) - 1
                                                     ELSE Cardinality(requests))
          /\ Cardinality(requests) \in Nat
    BY <2>2, <1>1, FS_RemoveElement, FS_CardinalityType
  <2>. QED
    BY <2>3, WakeVerifierAssumption DEF TypeOK
<1>3. CASE pendingId = None \/ id # pendingId
  <2>1. fired = {}
    BY <1>3 DEF AwaitedIsKept
  <2>2. UNCHANGED <<pendingId, pendingWord, timeout, gate, armed, outcome>>
    BY <1>3, <2>1 DEF Complete, None, TypeOK
  <2>3. enforced' = enforced
    BY <1>1, <1>3 DEF AwaitedIsKept
  <2>4. TypeOK'
    BY <1>1, <1>2, <1>3, <2>2, <2>3 DEF TypeOK, AwaitedIsKept, Abstract!TypeOK
  <2>5. GateHasOwner' /\ AwaitedIsKept' /\ OneAtATime' /\ NotBoth' /\ ClosedOnTheWay' /\ Counted'
    BY <1>1, <2>2, <2>3 DEF GateHasOwner, AwaitedIsKept, OneAtATime, NotBoth, ClosedOnTheWay, Counted, InTransit, InFlight
  <2>6. HistoryMatches'
    BY <1>1, <2>2 DEF HistoryMatches, Held
  <2>. QED
    BY <2>2, <2>4, <2>5, <2>6
<1>4. CASE pendingId # None /\ id = pendingId
  <2>1. Known(id) /\ id \in enforced
    BY <1>4 DEF AwaitedIsKept, Known, TypeOK
  <2>2. pendingId' = None /\ pendingWord' = None /\ gate' = FALSE /\ timeout' = None
          /\ armed' = {} /\ enforced' = {}
    BY <1>1, <1>4, <2>1 DEF Complete, NothingPending, AwaitedIsKept
  <2>3. PICK o \in {"woken", "rejected"} : outcome' = [outcome EXCEPT ![pendingWord] = o]
    BY <1>4, <2>1 DEF Complete, Decide
  <2>4. pendingWord \in Wakes /\ pendingWord <= heard /\ Held = {pendingWord} /\ Held' = {}
    BY <1>1, <1>4, <2>2, WakeVerifierAssumption
    DEF AwaitedIsKept, NotBoth, Held, TypeOK, None, Wakes
  <2>5. TypeOK'
    <3>1. Abstract!TypeOK'
      BY <2>3 DEF TypeOK, Abstract!TypeOK, Abstract!Outcomes
    <3>2. 0 \in 0..generation /\ 0 \in 0..heard
      BY WakeVerifierAssumption DEF TypeOK
    <3>. QED
      BY <1>1, <1>2, <2>2, <3>1, <3>2 DEF TypeOK, None
  <2>6. GateHasOwner' /\ AwaitedIsKept' /\ OneAtATime' /\ NotBoth' /\ ClosedOnTheWay' /\ Counted'
    BY <1>1, <1>4, <2>2
    DEF GateHasOwner, AwaitedIsKept, OneAtATime, NotBoth, ClosedOnTheWay, InFlight, Idle, Counted, InTransit
  <2>7. HistoryMatches'
    <3>1. \A w \in Wakes : outcome'[w] = IF w = pendingWord THEN o ELSE outcome[w]
      BY <2>3 DEF TypeOK, Abstract!TypeOK
    <3>2. \A w \in Wakes : outcome'[w] = "held" <=> w \in Held'
      BY <3>1, <2>4 DEF HistoryMatches
    <3>3. \A w \in Wakes : w > heard' => outcome'[w] = "unheard"
      BY <3>1, <2>4, <1>1 DEF HistoryMatches, TypeOK, Wakes
    <3>4. thread' # Idle /\ thread'.mode = "observe" => outcome'[thread'.wake] = "unheard"
      <4>1. thread # Idle => thread.wake \in Wakes
        BY WakeVerifierAssumption DEF OneAtATime, TypeOK, Wakes
      <4>2. outcome[pendingWord] = "held"
        BY <2>4 DEF HistoryMatches
      <4>. QED
        BY <4>1, <4>2, <3>1, <1>1 DEF HistoryMatches
    <3>. QED
      BY <3>2, <3>3, <3>4 DEF HistoryMatches
  <2>. QED
    BY <2>2, <2>5, <2>6, <2>7
<1>. QED
  BY <1>3, <1>4

\* What the loop knows of the wake it was called for.
LEMMA CalledFor ==
  ASSUME Inv, RunCallback
  PROVE  /\ thread = Idle /\ callback' = NoCallback /\ callback.wake = heard /\ heard \in Wakes
         /\ heard \in Nat /\ generation \in Nat /\ generation < heard
         /\ callback.mode \in {"observe", "enforce"}
         /\ UNCHANGED <<mode, connected, ringReady, heard, thread>>
         /\ callback.mode = "enforce" => pendingId = None /\ pendingWord = None /\ Held = {heard}
         /\ callback.mode = "observe" => Held = {pendingWord} \ {None}
         /\ callback' \in [wake : Wakes \cup {None}, mode : Modes]
<1>1. /\ callback # NoCallback /\ callback' = NoCallback
      /\ UNCHANGED <<mode, connected, ringReady, heard, thread>>
  BY DEF RunCallback
<1>2. /\ thread = Idle /\ callback.wake = heard /\ heard > 0
      /\ callback.mode \in {"observe", "enforce"} /\ generation < heard
  BY <1>1 DEF Inv, OneAtATime, Counted, InTransit
<1>3. heard \in Nat /\ heard \in Wakes /\ generation \in Nat
  BY <1>2, WakeVerifierAssumption DEF Inv, TypeOK, Wakes
<1>4. callback.mode = "enforce" => pendingId = None /\ pendingWord = None
  BY <1>1 DEF Inv, NotBoth
<1>5. callback.mode = "enforce" => Held = {heard}
  BY <1>1, <1>2, <1>4 DEF Held
<1>6. callback.mode = "observe" => Held = {pendingWord} \ {None}
  BY <1>1, <1>2 DEF Held
<1>7. callback' \in [wake : Wakes \cup {None}, mode : Modes]
  BY <1>1 DEF NoCallback, Modes
<1>. QED
  BY <1>1, <1>2, <1>3, <1>4, <1>5, <1>6, <1>7

\* The history after a callback that lets an enforced wake through.
LEMMA ThroughHistory ==
  ASSUME Inv, RunCallback, UNCHANGED pendingWord,
         IF callback.mode = "enforce" THEN Decide(callback.wake, "woken") ELSE UNCHANGED outcome
  PROVE  HistoryMatches' /\ Abstract!TypeOK'
<1>. USE CalledFor
<1>1. Held' = {pendingWord} \ {None}
  BY DEF Held
<1>2. CASE callback.mode = "observe"
  <2>1. outcome' = outcome
    BY <1>2
  <2>2. Held' = Held
    BY <1>1, <1>2
  <2>. QED
    BY <2>1, <2>2 DEF Inv, TypeOK, HistoryMatches, Abstract!TypeOK
<1>3. CASE callback.mode = "enforce"
  <2>1. outcome' = [outcome EXCEPT ![heard] = "woken"]
    BY <1>3 DEF Decide
  <2>2. \A w \in Wakes : outcome'[w] = IF w = heard THEN "woken" ELSE outcome[w]
    BY <2>1 DEF Inv, TypeOK, Abstract!TypeOK
  <2>3. Held' = {} /\ Held = {heard}
    BY <1>1, <1>3
  <2>4. \A w \in Wakes : outcome'[w] = "held" <=> w \in Held'
    BY <2>2, <2>3 DEF Inv, HistoryMatches
  <2>5. \A w \in Wakes : w > heard' => outcome'[w] = "unheard"
    BY <2>2 DEF Inv, HistoryMatches, Wakes
  <2>6. Abstract!TypeOK'
    BY <2>1 DEF Inv, TypeOK, Abstract!TypeOK, Abstract!Outcomes
  <2>. QED
    BY <2>4, <2>5, <2>6 DEF HistoryMatches
<1>. QED
  BY <1>2, <1>3

\* A callback that cannot verify opens the gate, which no awaited wake needs.
LEMMA FailOpenInv == Inv /\ RunCallback /\ (~connected \/ ~ringReady) => Inv'
<1>. SUFFICES ASSUME Inv, RunCallback, ~connected \/ ~ringReady PROVE Inv'
  OBVIOUS
<1>. USE CalledFor DEF Inv
<1>1. gate' = FALSE
        /\ UNCHANGED <<generation, requests, enforced, pendingId, pendingWord, timeout, armed, young>>
        /\ IF callback.mode = "enforce" THEN Decide(callback.wake, "woken") ELSE UNCHANGED outcome
  BY DEF RunCallback, FailOpen, loopVars
<1>2. pendingId = None
  BY DEF Counted
<1>3. HistoryMatches' /\ Abstract!TypeOK'
  BY <1>1, ThroughHistory
<1>4. TypeOK'
  BY <1>1, <1>3 DEF TypeOK
<1>5. GateHasOwner' /\ AwaitedIsKept' /\ OneAtATime' /\ NotBoth' /\ ClosedOnTheWay' /\ Counted'
  BY <1>1, <1>2 DEF GateHasOwner, AwaitedIsKept, OneAtATime, NotBoth, ClosedOnTheWay, InFlight, Idle, Counted, InTransit
<1>. QED
  BY <1>1, <1>3, <1>4, <1>5

\* The request table after a callback that made a request.
LEMMA AskedTypes ==
  ASSUME Inv, RunCallback, generation' = generation + 1,
         requests' = Kept \cup {generation'} \/ requests' = Kept
  PROVE  /\ Cardinality(requests') <= MaxOutstanding
         /\ requests' \subseteq 1..generation'
         /\ generation' \in 0..heard' /\ 0 \in 0..generation'
         /\ generation' \in 1..generation'
         /\ \A n \in 0..generation : n \in 0..generation'
<1>1. Kept \subseteq requests /\ requests \subseteq 1..generation
  BY RoomIsMade DEF Inv, TypeOK
<1>2. Cardinality(requests') <= MaxOutstanding
  BY RoomIsMade
<1>3. generation' \in Nat /\ generation' <= heard' /\ heard' \in Nat
  BY CalledFor
<1>4. requests' \subseteq 1..generation'
  <2>1. \A n \in 1..generation : n \in 1..generation'
    BY <1>3, CalledFor
  <2>2. generation' \in 1..generation'
    BY <1>3, CalledFor
  <2>. QED
    BY <1>1, <2>1, <2>2
<1>. QED
  BY <1>2, <1>3, <1>4, CalledFor

(* A full queue: the request is settled where it was made, the gate opens.  *)
LEMMA AskInVainInv ==
  ASSUME Inv, RunCallback, connected, ringReady, generation' = generation + 1, AskInVain
  PROVE  Inv'
<1>. USE DEF Inv
<1>0. /\ thread = Idle /\ callback # NoCallback /\ callback' = NoCallback /\ callback.wake = heard
      /\ heard \in Wakes /\ heard \in Nat /\ generation \in Nat /\ generation < heard
      /\ callback.mode \in {"observe", "enforce"}
      /\ UNCHANGED <<mode, connected, ringReady, heard, thread>>
      /\ callback.mode = "enforce" => pendingId = None /\ pendingWord = None /\ Held = {heard}
      /\ callback.mode = "observe" => Held = {pendingWord} \ {None}
      /\ callback' \in [wake : Wakes \cup {None}, mode : Modes]
  BY CalledFor DEF RunCallback
<1>1. /\ UNCHANGED <<pendingId, pendingWord, timeout, young>>
      /\ armed' = armed
      /\ gate' = IF callback.mode = "enforce" THEN FALSE ELSE gate
      /\ IF callback.mode = "enforce" THEN Decide(callback.wake, "woken") ELSE UNCHANGED outcome
      /\ requests' = Kept /\ enforced' = enforced \cap Kept
  BY <1>0 DEF AskInVain, NothingPending, AwaitedIsKept
<1>2. enforced' = enforced
  BY <1>0, <1>1, RoomIsMade DEF AwaitedIsKept, RunCallback
<1>3. HistoryMatches' /\ Abstract!TypeOK'
  BY <1>0, <1>1, ThroughHistory
<1>4. TypeOK'
  <2>1. pendingId' \in 0..generation' /\ timeout' \in 0..generation' /\ armed' \subseteq 1..generation'
    BY <1>0, <1>1 DEF TypeOK
  <2>2. enforced' \subseteq requests'
    BY <1>0, <1>1
  <2>3. /\ Cardinality(requests') <= MaxOutstanding /\ requests' \subseteq 1..generation'
        /\ generation' \in 0..heard'
    BY <1>0, <1>1, AskedTypes
  <2>4. gate' \in BOOLEAN
    BY <1>0, <1>1 DEF TypeOK
  <2>. QED
    BY <1>0, <1>1, <1>3, <2>1, <2>2, <2>3, <2>4 DEF TypeOK
<1>5. GateHasOwner' /\ AwaitedIsKept' /\ OneAtATime' /\ NotBoth' /\ ClosedOnTheWay'
  <2>1. CASE callback.mode = "enforce"
    BY <1>0, <1>1, <1>2, <2>1
    DEF GateHasOwner, AwaitedIsKept, OneAtATime, NotBoth, ClosedOnTheWay, InFlight, Idle
  <2>2. CASE callback.mode = "observe"
    BY <1>0, <1>1, <1>2, <2>2
    DEF GateHasOwner, AwaitedIsKept, OneAtATime, NotBoth, ClosedOnTheWay, InFlight, Idle
  <2>. QED
    BY <1>0, <2>1, <2>2
<1>6. Counted'
  BY <1>0, <1>1 DEF Counted, InTransit, RunCallback, TypeOK
<1>. QED
  BY <1>0, <1>1, <1>3, <1>4, <1>5, <1>6

(* A request is made: the enforced one becomes the gate's owner, with a     *)
(* timer of its own, and outlives the trimming of the table.                *)
LEMMA AskInv ==
  ASSUME Inv, RunCallback, connected, ringReady, generation' = generation + 1, Ask(generation')
  PROVE  Inv'
<1>. USE DEF Inv
<1>0. /\ thread = Idle /\ callback # NoCallback /\ callback' = NoCallback /\ callback.wake = heard
      /\ heard \in Wakes /\ heard \in Nat /\ generation \in Nat /\ generation < heard
      /\ callback.mode \in {"observe", "enforce"}
      /\ UNCHANGED <<mode, connected, ringReady, heard, thread>>
      /\ callback.mode = "enforce" => pendingId = None /\ pendingWord = None /\ Held = {heard}
      /\ callback.mode = "observe" => Held = {pendingWord} \ {None}
      /\ callback' \in [wake : Wakes \cup {None}, mode : Modes]
  BY CalledFor DEF RunCallback
<1>1. UNCHANGED <<gate, outcome>> /\ requests' = Kept \cup {generation'}
  BY <1>0 DEF Ask
<1>2. /\ Cardinality(requests') <= MaxOutstanding /\ requests' \subseteq 1..generation'
      /\ generation' \in 0..heard' /\ generation' \in 1..generation' /\ 0 \in 0..generation'
      /\ \A n \in 0..generation : n \in 0..generation'
  BY <1>0, <1>1, AskedTypes
<1>3. Abstract!TypeOK'
  BY <1>0, <1>1 DEF TypeOK, Abstract!TypeOK
<1>4. CASE callback.mode = "observe"
  <2>1. UNCHANGED <<pendingId, pendingWord, timeout, armed, young>> /\ enforced' = enforced \cap Kept
    BY <1>0, <1>4 DEF Ask
  <2>2. enforced' = enforced
    BY <1>0, <2>1, RoomIsMade DEF AwaitedIsKept, RunCallback
  <2>3. pendingId' \in 0..generation' /\ timeout' \in 0..generation' /\ armed' \subseteq 1..generation'
    BY <1>0, <1>2, <2>1 DEF TypeOK
  <2>4. TypeOK'
    BY <1>0, <1>1, <1>2, <1>3, <2>1, <2>3 DEF TypeOK
  <2>5. GateHasOwner' /\ AwaitedIsKept' /\ OneAtATime' /\ NotBoth' /\ ClosedOnTheWay'
    BY <1>0, <1>1, <1>4, <2>1, <2>2
    DEF GateHasOwner, AwaitedIsKept, OneAtATime, NotBoth, ClosedOnTheWay, InFlight, Idle, RunCallback
  <2>6. Counted'
    BY <1>0, <2>1 DEF Counted, InTransit, RunCallback, TypeOK
  <2>7. HistoryMatches'
    <3>1. Held' = Held
      BY <1>0, <1>4, <2>1 DEF Held
    <3>. QED
      BY <1>0, <3>1, <1>1 DEF HistoryMatches
  <2>. QED
    BY <1>0, <2>1, <2>4, <2>5, <2>6, <2>7
<1>5. CASE callback.mode = "enforce"
  <2>1. /\ enforced' = (enforced \cap Kept) \cup {generation'} /\ pendingId' = generation'
        /\ pendingWord' = heard /\ timeout' = generation' /\ armed' = armed \cup {generation'}
        /\ young' = 0
    BY <1>0, <1>5 DEF Ask
  <2>2. enforced = {} /\ armed = {}
    BY <1>0, <1>5 DEF AwaitedIsKept
  <2>3. generation' # None /\ heard # None
    BY <1>0 DEF None
  <2>4. TypeOK'
    <3>1. pendingWord' \in 0..heard' /\ young' \in 0..WakesPerTimeout /\ timeout' \in 0..generation'
      BY <1>0, <1>2, <2>1, WakeVerifierAssumption
    <3>2. enforced' \subseteq requests' /\ armed' \subseteq 1..generation' /\ pendingId' \in 0..generation'
      BY <1>0, <1>1, <1>2, <2>1, <2>2
    <3>. QED
      BY <1>0, <1>1, <1>2, <1>3, <3>1, <3>2 DEF TypeOK
  <2>5. gate
    BY <1>0, <1>5 DEF RunCallback, ClosedOnTheWay, InFlight
  <2>6. GateHasOwner' /\ AwaitedIsKept' /\ OneAtATime' /\ NotBoth' /\ ClosedOnTheWay'
    BY <1>0, <1>1, <2>1, <2>2, <2>3, <2>5 DEF GateHasOwner, AwaitedIsKept, OneAtATime, NotBoth, ClosedOnTheWay, InFlight, Idle
  <2>7. Counted'
    BY <1>0, <2>1 DEF Counted, InTransit
  <2>8. HistoryMatches'
    <3>1. Held' = Held
      BY <1>0, <1>5, <2>1, <2>3 DEF Held
    <3>. QED
      BY <1>0, <3>1, <1>1 DEF HistoryMatches
  <2>. QED
    BY <1>0, <2>1, <2>3, <2>4, <2>6, <2>7, <2>8
<1>. QED
  BY <1>0, <1>4, <1>5

\* No step of either actor breaks the invariant.
THEOREM StepInv == Inv /\ [Next]_vars => Inv'
<1>. SUFFICES ASSUME Inv, [Next]_vars PROVE Inv'
  OBVIOUS
<1>1. CASE AudioThread
  BY <1>1, DetectInv, CloseGateInv, PostInv DEF AudioThread
<1>2. CASE CaptureEnough \/ \E m \in Modes : ApplySettings(m)
  BY <1>2, CaptureInv
<1>3. CASE RunCallback
  <2>1. CASE ~connected \/ ~ringReady
    BY <1>3, <2>1, FailOpenInv
  <2>2. CASE connected /\ ringReady
    <3>1. generation' = generation + 1 /\ (Ask(generation') \/ AskInVain)
      BY <1>3, <2>2 DEF RunCallback
    <3>. QED
      BY <1>3, <2>2, <3>1, AskInv, AskInVainInv
  <2>. QED
    BY <2>1, <2>2
<1>4. ASSUME NEW id \in armed, TimedOut(id) PROVE Inv'
  <2>1. id \in 1..generation
    BY DEF Inv, TypeOK
  <2>2. {id} \in SUBSET {id} /\ {id} \subseteq armed /\ Complete(id, TRUE, FALSE, {id})
    BY <1>4 DEF TimedOut
  <2>. QED
    BY <2>1, <2>2, CompleteInv
<1>5. ASSUME NEW id \in 1..generation, NEW accepted \in BOOLEAN, NEW available \in BOOLEAN,
             Result(id, accepted, available)
      PROVE  Inv'
  <2>1. {} \in SUBSET {id} /\ {} \subseteq armed /\ Complete(id, accepted, available, {})
    BY <1>5 DEF Result
  <2>. QED
    BY <2>1, CompleteInv
<1>6. CASE Connect
  BY <1>6, ConnectInv
<1>7. CASE Disconnect
  BY <1>7, DisconnectInv
<1>8. CASE UNCHANGED vars
  <2>1. UNCHANGED <<mode, connected, ringReady, heard, thread, gate, callback, generation, requests,
                    enforced, pendingId, pendingWord, timeout, armed, young, outcome>>
    BY <1>8 DEF vars, loopVars
  <2>2. TypeOK' /\ HistoryMatches'
    BY <2>1 DEF Inv, TypeOK, HistoryMatches, Held, Abstract!TypeOK
  <2>3. GateHasOwner' /\ AwaitedIsKept' /\ OneAtATime' /\ NotBoth' /\ ClosedOnTheWay' /\ Counted'
    BY <2>1 DEF Inv, GateHasOwner, AwaitedIsKept, OneAtATime, NotBoth, ClosedOnTheWay, Counted,
                InTransit, InFlight
  <2>. QED
    BY <2>1, <2>2, <2>3 DEF Inv
<1>. QED
  BY <1>1, <1>2, <1>3, <1>4, <1>5, <1>6, <1>7, <1>8 DEF Next

\* The invariant holds in every reachable state of both actors.
THEOREM InvAlways == Spec => []Inv
BY InitInv, StepInv, PTL DEF Spec

\* Every variable keeps its type, and the request table its limit
\* (WAKE_VERIFIER_MAX_OUTSTANDING), however long the server stays silent.
THEOREM TypesAlways == Spec => []TypeOK
<1>1. Inv => TypeOK
  BY DEF Inv
<1>. QED
  BY <1>1, InvAlways, PTL

\* A closed gate always has someone who will open it (GateHasOwner).
THEOREM GateAlwaysHasOwner == Spec => []GateHasOwner
<1>1. Inv => GateHasOwner
  BY DEF Inv
<1>. QED
  BY <1>1, InvAlways, PTL

\* The awaited request is never dropped to make room for another (AwaitedIsKept).
THEOREM AwaitedAlwaysKept == Spec => []AwaitedIsKept
<1>1. Inv => AwaitedIsKept
  BY DEF Inv
<1>. QED
  BY <1>1, InvAlways, PTL

-----------------------------------------------------------------------------

\* A settled wake was the held one; every other change is a wake passed or held.
LEMMA StepRefines == Inv /\ [Next]_vars => [Abstract!Next]_outcome
<1>. SUFFICES ASSUME Inv, [Next]_vars, outcome' # outcome PROVE Abstract!Next
  OBVIOUS
<1>1. ASSUME NEW w \in Wakes, NEW o \in Abstract!Settled, outcome[w] = "held",
             outcome' = [outcome EXCEPT ![w] = o]
      PROVE  Abstract!Next
  BY <1>1 DEF Abstract!Next, Abstract!Settle
<1>2. ASSUME NEW w \in Wakes, NEW o \in {"woken", "dropped"}, outcome[w] = "unheard",
             outcome' = [outcome EXCEPT ![w] = o]
      PROVE  Abstract!Next
  BY <1>2 DEF Abstract!Next, Abstract!Pass
<1>3. pendingWord # None => pendingWord \in Wakes /\ outcome[pendingWord] = "held"
  <2>1. pendingWord # None => pendingWord \in Wakes /\ pendingWord \in Held
    BY WakeVerifierAssumption DEF Inv, TypeOK, Held, Wakes, None
  <2>. QED
    BY <2>1 DEF Inv, HistoryMatches
<1>4. CASE Detect
  <2>1. heard \in Nat /\ heard' = heard + 1 /\ heard' \in Wakes /\ outcome[heard'] = "unheard"
    BY <1>4, WakeVerifierAssumption DEF Inv, HistoryMatches, Detect, TypeOK, Wakes
  <2>2. CASE \E o \in {"woken", "dropped"} : outcome' = [outcome EXCEPT ![heard'] = o]
    BY <2>1, <2>2, <1>2
  <2>3. CASE outcome' = [outcome EXCEPT ![heard'] = "held"] /\ ~gate
    <3>1. Held = {}
      BY <1>4, <2>3 DEF Held, Inv, AwaitedIsKept, Detect
    <3>2. Abstract!NoneHeld
      BY <3>1 DEF Abstract!NoneHeld, Inv, HistoryMatches
    <3>. QED
      BY <2>1, <2>3, <3>2 DEF Abstract!Next, Abstract!Hold
  <2>. QED
    BY <1>4, <2>2, <2>3 DEF Detect, Decide, GateOpen
<1>5. CASE Post
  <2>1. thread # Idle /\ thread.mode = "observe" /\ thread.wake \in Wakes
          /\ outcome' = [outcome EXCEPT ![thread.wake] = "woken"]
    BY <1>5, WakeVerifierAssumption DEF Post, Decide, Idle, Inv, OneAtATime, TypeOK, Wakes
  <2>2. outcome[thread.wake] = "unheard"
    BY <2>1 DEF Inv, HistoryMatches
  <2>. QED
    BY <2>1, <2>2, <1>2
<1>6. CASE RunCallback
  <2>1. outcome' = [outcome EXCEPT ![callback.wake] = "woken"] /\ callback.mode = "enforce"
    BY <1>6 DEF RunCallback, FailOpen, Ask, AskInVain, Decide
  <2>2. callback.wake \in Wakes /\ callback.wake \in Held
    BY <1>6, <2>1, CalledFor
  <2>3. outcome[callback.wake] = "held"
    BY <2>2 DEF Inv, HistoryMatches
  <2>. QED
    BY <2>1, <2>2, <2>3, <1>1 DEF Abstract!Settled
<1>7. ASSUME NEW id \in 1..generation, NEW accepted \in BOOLEAN, NEW available \in BOOLEAN,
             NEW fired, Complete(id, accepted, available, fired)
      PROVE  Abstract!Next
  <2>1. id \in enforced /\ id = pendingId
          /\ \E o \in {"woken", "rejected"} : outcome' = [outcome EXCEPT ![pendingWord] = o]
    BY <1>7 DEF Complete, Decide
  <2>2. pendingWord # None
    BY <2>1, WakeVerifierAssumption DEF Inv, TypeOK, AwaitedIsKept, None
  <2>. QED
    BY <2>1, <2>2, <1>1, <1>3 DEF Abstract!Settled
<1>8. CASE Disconnect
  <2>1. pendingWord # None /\ outcome' = [outcome EXCEPT ![pendingWord] = "dropped"]
    BY <1>8 DEF Disconnect, Decide
  <2>. QED
    BY <2>1, <1>1, <1>3 DEF Abstract!Settled
<1>9. ASSUME NEW id \in armed, TimedOut(id) PROVE Abstract!Next
  <2>1. id \in 1..generation /\ Complete(id, TRUE, FALSE, {id})
    BY <1>9 DEF TimedOut, Inv, TypeOK
  <2>. QED
    BY <2>1, <1>7
<1>10. ASSUME NEW id \in 1..generation, NEW accepted \in BOOLEAN, NEW available \in BOOLEAN,
              Result(id, accepted, available)
       PROVE  Abstract!Next
  BY <1>7, <1>10 DEF Result
<1>11. CASE CloseGate \/ CaptureEnough \/ Connect \/ \E m \in Modes : ApplySettings(m)
  BY <1>11 DEF CloseGate, CaptureEnough, Connect, ApplySettings
<1>12. CASE UNCHANGED vars
  BY <1>12 DEF vars
<1>. QED
  BY <1>4, <1>5, <1>6, <1>8, <1>9, <1>10, <1>11, <1>12 DEF Next, AudioThread

\* Whatever verdicts, timeouts, full queues and lost connections come in which
\* order, a wake is held alone and settled once, as WakeGate says.
THEOREM WakeGateImplemented == Spec => ImplementsWakeGate
<1>1. Init => Abstract!Init
  BY DEF Init, Abstract!Init
<1>. QED
  BY <1>1, InvAlways, StepRefines, PTL DEF Spec, ImplementsWakeGate, Abstract!Spec

=============================================================================
