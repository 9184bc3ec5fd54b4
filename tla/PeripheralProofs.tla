--------------------------- MODULE PeripheralProofs ---------------------------
(***************************************************************************)
(* Proofs about both ends of the peripheral API.                           *)
(*                                                                         *)
(* One board and its satellite (BoardLink.tla), for any number of events,  *)
(* changes, lost connections and presses.  The board need not know the     *)
(* truth while news is on its way; what holds at every step is that it     *)
(* will know it once it has read what is on the wire (EndsWell): the last  *)
(* message that bears on the matter is right, or there is none and the     *)
(* board is right already.  For a connection to begin so, the last state   *)
(* event, which is replayed after the snapshot, must not be an old "muted" *)
(* (CurrentHolds).  That the LEDs of a ring are those of the board's state *)
(* (RingShown) does the rest.                                              *)
(*                                                                         *)
(* The server and its clients (PeripheralApi.tla), for any number of       *)
(* events and commands.  Of two broadcasts under way the older is ahead of *)
(* the younger one, or waits before it for the same client, and has nobody *)
(* left to tell whom the younger one has not (Convoy).  So every client is *)
(* told the oldest event first, and again it will be right once it was     *)
(* told what it is owed (WillBeTold).                                      *)
(***************************************************************************)
EXTENDS BoardLink, PeripheralApi, SequenceTheorems, TLAPS

\* Of the messages of a sequence the last that is right or wrong is right; if there
\* is none, what was known before is.
EndsWell(w, right, wrong, known) ==
  \/ \E i \in DOMAIN w : w[i] \in right /\ \A j \in DOMAIN w : j > i => w[j] \notin wrong
  \/ known /\ \A i \in DOMAIN w : w[i] \notin wrong

\* The boards that read what a "muted" says, and what a board makes of one.
Exact == {"satellite1", "twomic"}

Bearing == {m \in Messages : m.event \in {"snapshot", "muted"}}

Heard(m) == IF kind \in Exact THEN m.muted ELSE m.muted \/ m.event = "muted"

MuteAgrees(muted) == IF kind \in Exact THEN muted = sat.muted ELSE sat.muted => muted

MuteRight == {m \in Bearing : MuteAgrees(Heard(m))}

MuteWrong == {m \in Bearing : ~MuteAgrees(Heard(m))}

\* What says that Home Assistant is there, and what does not.
Present(m) == m.event = "zeroconf" \/ (m.event = "snapshot" /\ m.ha)

Absent(m) == m.event = "disconnected" \/ (m.event = "snapshot" /\ ~m.ha)

HomeRight == {m \in Messages : Absent(m) \/ (Present(m) /\ sat.connected)}

HomeWrong == {m \in Messages : Present(m) /\ ~sat.connected}

WillKnow ==
  link = "up" /\ peer = "open" =>
    /\ EndsWell(wire, MuteRight, MuteWrong, MuteAgrees(board.muted))
    /\ EndsWell(wire, HomeRight, HomeWrong, board.ha => sat.connected)

CurrentHolds ==
  current # <<>> =>
    /\ Len(current) = 1
    /\ current[1].event \in StateEvents
    /\ current[1].event = "muted" => current[1].muted = sat.muted

RingShown ==
  /\ kind = "satellite1" => leds = Satellite1Ring(board)
  /\ kind \in {"fourmic", "usb"} => leds = FourMicRing(board)
  /\ recv = "asleep" => kind = "twomic"

\* The timer that _press_timer refers to as running is one that runs.
Held(p) == p.ref \in {"long", "multi"} => p.running[p.ref] > 0

TimerHeld == Held(press)

IInv == TypeOK /\ WillKnow /\ CurrentHolds /\ RingShown /\ TimerHeld

-----------------------------------------------------------------------------
\* What is added to a sequence that ends well and is not wrong leaves it so.
LEMMA NothingWrongAdded ==
  ASSUME NEW S, NEW w \in Seq(S), NEW ms \in Seq(S), NEW right, NEW wrong, NEW known \in BOOLEAN,
         EndsWell(w, right, wrong, known),
         \A i \in DOMAIN ms : ms[i] \notin wrong
  PROVE  EndsWell(w \o ms, right, wrong, known)
<1> DEFINE both == w \o ms
<1>1. /\ DOMAIN w = 1 .. Len(w) /\ DOMAIN ms = 1 .. Len(ms) /\ DOMAIN both = 1 .. Len(w) + Len(ms)
      /\ Len(w) \in Nat /\ Len(ms) \in Nat
  BY ConcatProperties, LenProperties
<1>2. \A i \in 1 .. Len(w) : both[i] = w[i]
  BY ConcatProperties, <1>1
<1>3. \A i \in 1 .. Len(w) + Len(ms) : i > Len(w) => i - Len(w) \in 1 .. Len(ms) /\ both[i] = ms[i - Len(w)]
  BY ConcatProperties, <1>1
<1>4. \A i \in 1 .. Len(w) + Len(ms) : i > Len(w) => both[i] \notin wrong
  BY <1>1, <1>3
<1> HIDE DEF both
<1>5. CASE \E i \in DOMAIN w : w[i] \in right /\ \A j \in DOMAIN w : j > i => w[j] \notin wrong
  <2>1. PICK i \in DOMAIN w : w[i] \in right /\ \A j \in DOMAIN w : j > i => w[j] \notin wrong
    BY <1>5
  <2>2. i \in DOMAIN both /\ both[i] \in right
    BY <2>1, <1>1, <1>2
  <2>3. ASSUME NEW j \in DOMAIN both, j > i
        PROVE  both[j] \notin wrong
    <3>1. CASE j <= Len(w)
      BY <2>1, <2>3, <3>1, <1>1, <1>2
    <3>2. CASE ~(j <= Len(w))
      BY <2>3, <3>2, <1>1, <1>4
    <3> QED
      BY <3>1, <3>2
  <2> QED
    BY <2>2, <2>3 DEF EndsWell, both
<1>6. CASE known /\ \A i \in DOMAIN w : w[i] \notin wrong
  <2>1. ASSUME NEW j \in DOMAIN both
        PROVE  both[j] \notin wrong
    <3>1. CASE j <= Len(w)
      BY <1>6, <2>1, <3>1, <1>1, <1>2
    <3>2. CASE ~(j <= Len(w))
      BY <2>1, <3>2, <1>1, <1>4
    <3> QED
      BY <3>1, <3>2
  <2> QED
    BY <1>6, <2>1 DEF EndsWell, both
<1> QED
  BY <1>5, <1>6 DEF EndsWell

\* What is added to a sequence and ends right makes it end well, whatever was
\* before.
LEMMA RightAdded ==
  ASSUME NEW S, NEW w \in Seq(S), NEW ms \in Seq(S), NEW right, NEW wrong, NEW known \in BOOLEAN,
         NEW k \in DOMAIN ms, ms[k] \in right,
         \A j \in DOMAIN ms : j > k => ms[j] \notin wrong
  PROVE  EndsWell(w \o ms, right, wrong, known)
<1> DEFINE both == w \o ms
<1>1. /\ DOMAIN ms = 1 .. Len(ms) /\ DOMAIN both = 1 .. Len(w) + Len(ms)
      /\ Len(w) \in Nat /\ Len(ms) \in Nat
  BY ConcatProperties, LenProperties
<1>2. \A i \in 1 .. Len(w) + Len(ms) : i > Len(w) => i - Len(w) \in 1 .. Len(ms) /\ both[i] = ms[i - Len(w)]
  BY ConcatProperties, <1>1
<1> HIDE DEF both
<1>3. Len(w) + k \in DOMAIN both /\ both[Len(w) + k] \in right
  BY <1>1, <1>2
<1>4. ASSUME NEW j \in DOMAIN both, j > Len(w) + k
      PROVE  both[j] \notin wrong
  <2>1. j > Len(w) /\ j - Len(w) > k
    BY <1>1, <1>4
  <2> QED
    BY <2>1, <1>1, <1>2
<1> QED
  BY <1>3, <1>4 DEF EndsWell, both

\* A sequence that ends well still does when its head was read and understood.
LEMMA HeadRead ==
  ASSUME NEW S, NEW w \in Seq(S), w # <<>>, NEW right, NEW wrong, NEW known \in BOOLEAN, NEW after \in BOOLEAN,
         EndsWell(w, right, wrong, known),
         Head(w) \in right => after,
         known /\ Head(w) \notin wrong => after
  PROVE  EndsWell(Tail(w), right, wrong, after)
<1> DEFINE rest == Tail(w)
<1>1. /\ DOMAIN w = 1 .. Len(w) /\ DOMAIN rest = 1 .. Len(w) - 1
      /\ Len(w) \in Nat /\ Len(w) > 0 /\ Head(w) = w[1]
  BY HeadTailProperties, LenProperties, EmptySeq
<1>2. \A i \in 1 .. Len(w) - 1 : i + 1 \in 1 .. Len(w) /\ rest[i] = w[i + 1]
  BY HeadTailProperties, <1>1
<1> HIDE DEF rest
<1>3. CASE \E i \in DOMAIN w : w[i] \in right /\ \A j \in DOMAIN w : j > i => w[j] \notin wrong
  <2>1. PICK i \in DOMAIN w : w[i] \in right /\ \A j \in DOMAIN w : j > i => w[j] \notin wrong
    BY <1>3
  <2>2. CASE i = 1
    <3>1. \A j \in DOMAIN rest : rest[j] \notin wrong
      BY <2>1, <2>2, <1>1, <1>2
    <3>2. after
      BY <2>1, <2>2, <1>1
    <3> QED
      BY <3>1, <3>2 DEF EndsWell, rest
  <2>3. CASE i # 1
    <3>1. i - 1 \in DOMAIN rest /\ rest[i - 1] = w[i]
      BY <2>1, <2>3, <1>1, <1>2
    <3>2. \A j \in DOMAIN rest : j > i - 1 => rest[j] \notin wrong
      BY <2>1, <1>1, <1>2
    <3> QED
      BY <2>1, <3>1, <3>2 DEF EndsWell, rest
  <2> QED
    BY <2>2, <2>3
<1>4. CASE known /\ \A i \in DOMAIN w : w[i] \notin wrong
  <2>1. \A j \in DOMAIN rest : rest[j] \notin wrong
    BY <1>4, <1>1, <1>2
  <2>2. after
    BY <1>4, <1>1
  <2> QED
    BY <2>1, <2>2 DEF EndsWell, rest
<1> QED
  BY <1>3, <1>4 DEF EndsWell

-----------------------------------------------------------------------------
\* Messages.
LEMMA EventIsMessage ==
  ASSUME NEW name \in Names
  PROVE  Event(name) \in Messages /\ Event(name).event = name
  BY DEF Event, Messages

LEMMA PipelineIsNames == Pipeline \union Passing \subseteq Names
  BY DEF Names

\* The last event of a state is kept, whatever came after it.
LEMMA LastStateKept ==
  ASSUME NEW ms \in Seq(Messages), Len(ms) \in {1, 2, 3}
  PROVE  \/ /\ LastState(ms) = current
            /\ \A i \in DOMAIN ms : ms[i].event \notin StateEvents
         \/ \E i \in DOMAIN ms :
              /\ LastState(ms) = <<ms[i]>> /\ ms[i].event \in StateEvents
              /\ \A j \in DOMAIN ms : j > i => ms[j].event \notin StateEvents
<1> DEFINE states == {i \in DOMAIN ms : ms[i].event \in StateEvents}
           last == CHOOSE i \in states : \A j \in states : j <= i
<1>1. DOMAIN ms = 1 .. Len(ms)
  BY LenProperties
<1>2. LastState(ms) = IF states = {} THEN current ELSE <<ms[last]>>
  BY DEF LastState
<1>3. CASE states = {}
  BY <1>2, <1>3
<1>4. CASE states # {}
  <2>1. states \subseteq {1, 2, 3}
    BY <1>1
  <2>2. \E i \in states : \A j \in states : j <= i
    <3> HIDE DEF states
    <3>1. CASE 3 \in states
      BY <2>1, <3>1
    <3>2. CASE 3 \notin states /\ 2 \in states
      BY <2>1, <3>2
    <3>3. CASE 3 \notin states /\ 2 \notin states
      <4>1. PICK i : i \in states
        BY <1>4
      <4>2. i = 1 /\ \A j \in states : j = 1
        BY <2>1, <3>3, <4>1
      <4> QED
        BY <4>1, <4>2
    <3> QED
      BY <3>1, <3>2, <3>3
  <2>3. last \in states /\ \A j \in states : j <= last
    <3> HIDE DEF states
    <3> QED
      BY <2>2
  <2> HIDE DEF last
  <2>4. \A j \in DOMAIN ms : j > last => ms[j].event \notin StateEvents
    BY <2>1, <2>3, <1>1
  <2> QED
    BY <2>3, <2>4, <1>2, <1>4
<1> QED
  BY <1>3, <1>4

LEMMA EmitTypes ==
  ASSUME TypeOK, NEW ms \in Seq(Messages), Len(ms) \in {1, 2, 3}, Emit(ms)
  PROVE  current' \in Seq(Messages) /\ wire' \in Seq(Messages)
<1>1. wire \in Seq(Messages) /\ current \in Seq(Messages)
  BY DEF TypeOK
<1>2. wire' \in Seq(Messages)
  BY <1>1, ConcatProperties DEF Emit
<1>3. \A i \in DOMAIN ms : <<ms[i]>> \in Seq(Messages)
  BY ElementOfSeq, LenProperties
<1> QED
  BY <1>1, <1>2, <1>3, LastStateKept DEF Emit

\* What _set_muted() says comes first, and what it ends is of no other matter.
Rest == {Event("tts_finished"), Event("idle"), Event("listening")}

Says(muted) == [Event("muted") EXCEPT !.muted = muted]

MutedBy(ms, muted) ==
  /\ Len(ms) \in {1, 2, 3}
  /\ ms[1] = Says(muted)
  /\ \A i \in DOMAIN ms : i > 1 => ms[i] \in Rest
  /\ Emit(ms)

LEMMA RestIsMessages == Rest \subseteq Messages /\ \A m \in Rest : m.event \in {"tts_finished", "idle", "listening"}
  BY DEF Rest, Event, Messages, Names, Pipeline, Direct

LEMMA SaysIsMessage ==
  ASSUME NEW muted \in BOOLEAN
  PROVE  Says(muted) \in Messages /\ Says(muted).event = "muted" /\ Says(muted).muted = muted
  BY DEF Says, Event, Messages, Names

LEMMA MutedSays ==
  ASSUME NEW muted \in BOOLEAN, Muted(muted)
  PROVE  sat' = [sat EXCEPT !.muted = muted] /\ \E ms \in Seq(Messages) : MutedBy(ms, muted)
<1> DEFINE one == <<Says(muted)>>
<1>1. one \in Seq(Messages) /\ Len(one) = 1 /\ one[1] = Says(muted)
  BY SaysIsMessage
<1>2. ASSUME NEW a \in Rest, Emit(one \o <<a>>)
      PROVE  \E ms \in Seq(Messages) : MutedBy(ms, muted)
  <2> DEFINE two == <<a>>
             ms == one \o two
  <2>1. two \in Seq(Messages) /\ Len(two) = 1 /\ two[1] = a
    BY RestIsMessages
  <2> HIDE DEF one, two
  <2>2. ms \in Seq(Messages) /\ Len(ms) = 2 /\ ms[1] = one[1] /\ ms[2] = two[1]
    BY <1>1, <2>1, ConcatProperties
  <2>3. Emit(ms)
    BY <1>2 DEF two
  <2> HIDE DEF ms
  <2>4. \A i \in DOMAIN ms : i > 1 => i = 2
    BY <2>2, LenProperties
  <2>5. MutedBy(ms, muted)
    BY <1>1, <2>1, <2>2, <2>3, <2>4 DEF MutedBy
  <2> QED
    BY <2>2, <2>5
<1>3. ASSUME NEW a \in Rest, NEW b \in Rest, Emit(one \o <<a, b>>)
      PROVE  \E ms \in Seq(Messages) : MutedBy(ms, muted)
  <2> DEFINE two == <<a, b>>
             ms == one \o two
  <2>1. two \in Seq(Messages) /\ Len(two) = 2 /\ two[1] = a /\ two[2] = b
    BY RestIsMessages
  <2> HIDE DEF one, two
  <2>2. ms \in Seq(Messages) /\ Len(ms) = 3 /\ ms[1] = one[1] /\ ms[2] = two[1] /\ ms[3] = two[2]
    <3>1. ms \in Seq(Messages) /\ Len(ms) = 3
      BY <1>1, <2>1, ConcatProperties
    <3>2. \A i \in 1 .. Len(one) + Len(two) : ms[i] = IF i <= Len(one) THEN one[i] ELSE two[i - Len(one)]
      BY <1>1, <2>1, ConcatProperties, Zenon
    <3>3. ms[1] = one[1] /\ ms[2] = two[2 - 1] /\ ms[3] = two[3 - 1]
      <4> HIDE DEF ms
      <4> QED
        BY <1>1, <2>1, <3>2
    <3> QED
      BY <3>1, <3>3
  <2>3. Emit(ms)
    BY <1>3 DEF two
  <2> HIDE DEF ms
  <2>4. \A i \in DOMAIN ms : i > 1 => i \in {2, 3}
    BY <2>2, LenProperties
  <2>5. MutedBy(ms, muted)
    BY <1>1, <2>1, <2>2, <2>3, <2>4 DEF MutedBy
  <2> QED
    BY <2>2, <2>5
<1>4. ASSUME Emit(one \o <<>>)
      PROVE  \E ms \in Seq(Messages) : MutedBy(ms, muted)
  <2>1. one \o <<>> = one
    BY <1>1, ConcatEmptySeq
  <2>2. Emit(one)
    BY <1>4, <2>1
  <2> HIDE DEF one
  <2>3. \A i \in DOMAIN one : i = 1
    BY <1>1, LenProperties
  <2>4. MutedBy(one, muted)
    BY <1>1, <2>2, <2>3 DEF MutedBy
  <2> QED
    BY <1>1, <2>4
<1>5. sat' = [sat EXCEPT !.muted = muted]
  BY DEF Muted
<1>6. CASE muted
  <2>1. \/ Emit(one \o <<>>)
        \/ Emit(one \o <<Event("tts_finished"), Event("idle")>>)
        \/ Emit(one \o <<Event("tts_finished"), Event("listening")>>)
    BY <1>6 DEF Muted, Says
  <2>2. Event("tts_finished") \in Rest /\ Event("idle") \in Rest /\ Event("listening") \in Rest
    BY DEF Rest
  <2> HIDE DEF one
  <2> QED
    BY <2>1, <2>2, <1>3, <1>4, <1>5
<1>7. CASE ~muted
  <2>1. Emit(one \o <<Event("idle")>>)
    BY <1>7 DEF Muted, Says
  <2>2. Event("idle") \in Rest
    BY DEF Rest
  <2> HIDE DEF one
  <2> QED
    BY <2>1, <2>2, <1>2, <1>5
<1> QED
  BY <1>6, <1>7

-----------------------------------------------------------------------------
\* What a board makes of a message, as far as the microphone and Home Assistant go.
Understood(b, m, c) ==
  /\ c \in BoardStates
  /\ c.muted = IF m \in Bearing THEN Heard(m) ELSE b.muted
  /\ c.ha = IF Present(m) THEN TRUE ELSE IF Absent(m) THEN FALSE ELSE b.ha

\* The same for a board that reads what a "muted" says.
UnderstoodExactly(b, m, c) ==
  /\ c \in BoardStates
  /\ c.muted = IF m.event \in {"snapshot", "muted"} THEN m.muted ELSE b.muted
  /\ c.ha = IF Present(m) THEN TRUE ELSE IF Absent(m) THEN FALSE ELSE b.ha

LEMMA StatesAre ==
  /\ Direct \subseteq States /\ {"not_ready", "idle", "error", "muted"} \subseteq States
  /\ "snapshot" \notin Direct /\ "muted" \notin Direct /\ "disconnected" \notin Direct /\ "zeroconf" \notin Direct
  BY DEF States, Direct

LEMMA PutIn ==
  ASSUME NEW b \in BoardStates, NEW state \in States
  PROVE  In(b, state) \in BoardStates /\ In(b, state).muted = b.muted /\ In(b, state).ha = b.ha
  BY DEF In, BoardStates

LEMMA MutedPut ==
  ASSUME NEW b \in BoardStates, NEW muted \in BOOLEAN
  PROVE  /\ MutedTo(b, muted) \in BoardStates /\ MutedTo(b, muted).muted = muted /\ MutedTo(b, muted).ha = b.ha
         /\ LET c == [In(b, "muted") EXCEPT !.muted = TRUE]
            IN  c \in BoardStates /\ c.muted = TRUE /\ c.ha = b.ha
  BY StatesAre DEF MutedTo, In, BoardStates

LEMMA MadeUnreachable ==
  ASSUME NEW b \in BoardStates
  PROVE  Unreachable(b) \in BoardStates /\ Unreachable(b).muted = b.muted /\ Unreachable(b).ha = FALSE
  BY StatesAre DEF Unreachable, In, BoardStates

LEMMA KindsOfMessages ==
  ASSUME NEW m \in Messages
  PROVE  /\ m.muted \in BOOLEAN /\ m.ha \in BOOLEAN
         /\ \/ m.event \in Direct
            \/ m.event \in {"tts_finished", "idle", "pipeline_error", "snapshot", "muted", "disconnected", "zeroconf"}
            \/ m.event \in Passing
  BY DEF Messages, Names, Pipeline

LEMMA ByExactBoards ==
  ASSUME NEW b \in BoardStates, NEW m \in Messages
  PROVE  UnderstoodExactly(b, m, Satellite1(b, m))
<1> DEFINE c == Satellite1(b, m)
<1>. USE DEF Present, Absent, UnderstoodExactly
<1>1. m.muted \in BOOLEAN /\ m.ha \in BOOLEAN
  BY KindsOfMessages
<1>2. CASE m.event = "snapshot"
  <2>1. c = [b EXCEPT !.muted = m.muted, !.ha = m.ha]
    BY <1>2, StatesAre DEF Satellite1, Passing
  <2> QED
    BY <2>1, <1>1, <1>2 DEF BoardStates
<1>3. CASE m.event \in Direct
  <2>1. c = In(b, m.event) /\ m.event \notin {"snapshot", "muted", "disconnected", "zeroconf"}
    BY <1>3 DEF Satellite1, Passing, Direct
  <2>2. m.event \in States
    BY <1>3, StatesAre
  <2>3. In(b, m.event) \in BoardStates /\ In(b, m.event).muted = b.muted /\ In(b, m.event).ha = b.ha
    BY <2>2, PutIn, Zenon
  <2> QED
    BY <2>1, <2>3
<1>4. CASE m.event \in {"tts_finished", "idle"}
  <2>1. c = In(b, "idle")
    BY <1>4 DEF Satellite1, Passing, Direct
  <2>2. In(b, "idle") \in BoardStates /\ In(b, "idle").muted = b.muted /\ In(b, "idle").ha = b.ha
    BY PutIn, StatesAre, Zenon
  <2> QED
    BY <2>1, <2>2, <1>4
<1>5. CASE m.event = "muted"
  <2>1. c = MutedTo(b, m.muted)
    BY <1>5 DEF Satellite1, Passing, Direct
  <2>2. /\ MutedTo(b, m.muted) \in BoardStates
        /\ MutedTo(b, m.muted).muted = m.muted /\ MutedTo(b, m.muted).ha = b.ha
    BY <1>1, MutedPut, Zenon
  <2> QED
    BY <2>1, <2>2, <1>5
<1>6. CASE m.event = "pipeline_error"
  <2>1. c = In(b, "error")
    BY <1>6 DEF Satellite1, Passing, Direct
  <2>2. In(b, "error") \in BoardStates /\ In(b, "error").muted = b.muted /\ In(b, "error").ha = b.ha
    BY PutIn, StatesAre, Zenon
  <2> QED
    BY <2>1, <2>2, <1>6
<1>7. CASE m.event = "disconnected"
  <2>1. c = Unreachable(b)
    BY <1>7 DEF Satellite1, Passing, Direct
  <2> QED
    BY <2>1, <1>7, MadeUnreachable
<1>8. CASE m.event = "zeroconf"
  <2>1. c = [b EXCEPT !.ha = TRUE]
    BY <1>8 DEF Satellite1, Passing, Direct
  <2> QED
    BY <2>1, <1>8 DEF BoardStates
<1>9. CASE m.event \in Passing
  <2>1. c = b /\ m.event \notin {"snapshot", "muted", "disconnected", "zeroconf"}
    BY <1>9 DEF Satellite1, Passing, Direct
  <2> QED
    BY <2>1
<1> QED
  BY <1>2, <1>3, <1>4, <1>5, <1>6, <1>7, <1>8, <1>9, KindsOfMessages

LEMMA ByTwoMic ==
  ASSUME NEW b \in BoardStates, NEW m \in Messages
  PROVE  UnderstoodExactly(b, m, TwoMic(b, m))
<1> DEFINE c == TwoMic(b, m)
<1>1. TwoMicRest(b) \in States
  BY DEF TwoMicRest, States, Direct
<1>2. CASE m.event \in {"tts_finished", "idle"}
  <2>1. c = In(b, TwoMicRest(b))
    BY <1>2 DEF TwoMic
  <2> QED
    BY <2>1, <1>1, <1>2, PutIn DEF Present, Absent, UnderstoodExactly
<1>3. CASE m.event = "zeroconf"
  <2> DEFINE d == IF b.assist # "not_ready" THEN b ELSE In(b, IF b.muted THEN "muted" ELSE "idle")
  <2>1. c = [d EXCEPT !.ha = TRUE]
    BY <1>3 DEF TwoMic
  <2>2. d \in BoardStates /\ d.muted = b.muted
    BY PutIn, StatesAre
  <2> HIDE DEF d
  <2> QED
    BY <2>1, <2>2, <1>3 DEF Present, Absent, UnderstoodExactly, BoardStates
<1>4. CASE m.event \in {"timer_ticking", "timer_ringing"}
  <2>1. PICK counting \in BOOLEAN : c = [In(b, m.event) EXCEPT !.counting = counting]
    BY <1>4 DEF TwoMic
  <2>2. m.event \in States
    BY <1>4 DEF States, Direct
  <2>3. In(b, m.event) \in BoardStates /\ In(b, m.event).muted = b.muted /\ In(b, m.event).ha = b.ha
    BY <2>2, PutIn
  <2> QED
    BY <2>1, <2>3, <1>4 DEF Present, Absent, UnderstoodExactly, BoardStates
<1>5. CASE m.event = "timer_updated"
  <2>1. c = [b EXCEPT !.counting = TRUE]
    BY <1>5 DEF TwoMic
  <2> QED
    BY <2>1, <1>5 DEF Present, Absent, UnderstoodExactly, BoardStates
<1>6. CASE m.event \notin {"tts_finished", "idle", "zeroconf", "timer_ticking", "timer_updated", "timer_ringing"}
  <2>1. c = Satellite1(b, m)
    BY <1>6 DEF TwoMic
  <2> QED
    BY <2>1, ByExactBoards
<1> QED
  BY <1>2, <1>3, <1>4, <1>5, <1>6

LEMMA Handled ==
  ASSUME kind \in Boards, NEW b \in BoardStates, NEW m \in Messages
  PROVE  Understood(b, m, Handle(kind, b, m))
<1>1. m \in Bearing <=> m.event \in {"snapshot", "muted"}
  BY DEF Bearing
<1>2. ASSUME NEW c, UnderstoodExactly(b, m, c), Heard(m) = m.muted
      PROVE  Understood(b, m, c)
  BY <1>1, <1>2 DEF Understood, UnderstoodExactly
<1>3. CASE kind = "satellite1"
  <2>1. Handle(kind, b, m) = Satellite1(b, m) /\ Heard(m) = m.muted
    BY <1>3 DEF Handle, Heard, Exact
  <2> QED
    BY <2>1, <1>2, ByExactBoards, Zenon
<1>4. CASE kind = "twomic"
  <2>1. Handle(kind, b, m) = TwoMic(b, m) /\ Heard(m) = m.muted
    BY <1>4 DEF Handle, Heard, Exact
  <2> QED
    BY <2>1, <1>2, ByTwoMic, Zenon
<1>5. CASE kind \in {"fourmic", "usb"}
  <2>1. Handle(kind, b, m) = FourMic(b, m) /\ Heard(m) = (m.muted \/ m.event = "muted")
    BY <1>5 DEF Handle, Usb, Heard, Exact
  <2>2. CASE m.event = "muted"
    <3>1. FourMic(b, m) = [In(b, "muted") EXCEPT !.muted = TRUE] /\ Heard(m) = TRUE
      BY <2>1, <2>2 DEF FourMic
    <3>2. LET c == FourMic(b, m) IN c \in BoardStates /\ c.muted = TRUE /\ c.ha = b.ha
      BY <3>1, MutedPut, Zenon
    <3>3. ~Present(m) /\ ~Absent(m) /\ m \in Bearing
      BY <2>2, <1>1 DEF Present, Absent
    <3> QED
      BY <3>1, <3>2, <3>3, <2>1 DEF Understood
  <2>3. CASE m.event # "muted"
    <3>1. FourMic(b, m) = Satellite1(b, m)
      BY <2>3 DEF FourMic
    <3>2. Heard(m) = m.muted
      BY <2>1, <2>3, KindsOfMessages
    <3> QED
      BY <3>1, <3>2, <2>1, <1>2, ByExactBoards, Zenon
  <2> QED
    BY <2>2, <2>3
<1> QED
  BY <1>3, <1>4, <1>5 DEF Boards

\* What the LEDs show is a state, the red twinkle, or nothing.
Shown == States \union {"twinkle", "off"}

LEMMA RingShows ==
  ASSUME NEW b \in BoardStates
  PROVE  Satellite1Ring(b) \in Shown /\ FourMicRing(b) \in Shown
  BY DEF Satellite1Ring, FourMicRing, Ring, Shown, States, Direct, BoardStates

LEMMA LedsShow ==
  ASSUME kind \in Boards, NEW b \in BoardStates, NEW m \in Messages
  PROVE  /\ Leds(kind, b, m) \in Shown
         /\ kind = "satellite1" => Leds(kind, b, m) = Satellite1Ring(b)
         /\ kind \in {"fourmic", "usb"} => Leds(kind, b, m) = FourMicRing(b)
<1>1. TwoMicLeds(b, m) \in Shown
  BY DEF TwoMicLeds, Shown, States, Direct, BoardStates
<1> QED
  BY <1>1, RingShows DEF Leds, UsbRing, Boards

-----------------------------------------------------------------------------
\* The buttons.
Counts == [{"long", "multi"} -> Nat]

Presses == [held : BOOLEAN, count : Nat, running : Counts, due : Counts, ref : {"none", "over", "long", "multi"}]

LEMMA TimerStarted ==
  ASSUME NEW p \in Presses, Held(p), NEW timer \in {"long", "multi"}
  PROVE  StartTimer(p, timer) \in Presses /\ Held(StartTimer(p, timer))
<1> DEFINE running == Cancelled(p)
<1>1. running \in Counts
  <2>1. DOMAIN NoTimers = {"long", "multi"}
    BY DEF NoTimers
  <2>2. CASE p.ref \in {"long", "multi"}
    <3>1. running = [p.running EXCEPT ![p.ref] = @ - 1] /\ p.running \in Counts
      BY <2>1, <2>2 DEF Cancelled, Presses
    <3>2. p.running[p.ref] \in Nat /\ p.running[p.ref] > 0
      BY <2>2, <3>1 DEF Held, Counts
    <3>3. p.running[p.ref] - 1 \in Nat
      BY <3>2
    <3> QED
      BY <3>1, <3>3 DEF Counts
  <2>3. CASE p.ref \notin {"long", "multi"}
    BY <2>1, <2>3 DEF Cancelled, Presses
  <2> QED
    BY <2>2, <2>3
<1> DEFINE more == [running EXCEPT ![timer] = @ + 1]
<1>2. more \in Counts /\ more[timer] > 0
  <2> HIDE DEF running
  <2> QED
    BY <1>1 DEF Counts
<1>3. StartTimer(p, timer) = [p EXCEPT !.running = more, !.ref = timer]
  BY DEF StartTimer
<1> HIDE DEF more
<1> QED
  BY <1>2, <1>3 DEF Presses, Held

LEMMA CommandQueued ==
  ASSUME NEW q \in Seq(Commands), NEW c \in Commands
  PROVE  Append(q, c) \in Seq(Commands)
  BY AppendProperties

LEMMA ActionIsCommand == Action \in Commands
  BY DEF Action, Commands

LEMMA PressKeeps ==
  ASSUME press \in Presses, TimerHeld, Press
  PROVE  press' \in Presses /\ TimerHeld'
<1> DEFINE p == [press EXCEPT !.count = @ + 1]
           q == StartTimer(p, IF press.count = 0 THEN "long" ELSE "multi")
<1>1. p \in Presses /\ Held(p)
  BY DEF Presses, Held, TimerHeld
<1>2. q \in Presses /\ Held(q)
  BY <1>1, TimerStarted
<1>3. press' = [q EXCEPT !.held = TRUE]
  BY DEF Press, Pressed
<1> HIDE DEF q
<1> QED
  BY <1>2, <1>3 DEF Presses, Held, TimerHeld

LEMMA ReleaseKeeps ==
  ASSUME press \in Presses, TimerHeld, Release
  PROVE  press' \in Presses /\ TimerHeld'
<1>1. Released(press) \in Presses /\ Held(Released(press))
  BY TimerStarted DEF Released, TimerHeld
<1>2. press' = [Released(press) EXCEPT !.held = FALSE]
  BY DEF Release
<1> QED
  BY <1>1, <1>2 DEF Presses, Held, TimerHeld

LEMMA TimerDueKeeps ==
  ASSUME press \in Presses, TimerHeld, NEW timer \in {"long", "multi"}, TimerDue(timer)
  PROVE  press' \in Presses /\ TimerHeld'
<1> DEFINE running == [press.running EXCEPT ![timer] = @ - 1]
           due == [press.due EXCEPT ![timer] = @ + 1]
           ref == IF press.ref = timer THEN "over" ELSE press.ref
<1>1. press.running \in Counts /\ press.due \in Counts /\ press.running[timer] > 0
  BY DEF Presses, TimerDue
<1>2. press.running[timer] \in Nat /\ press.running[timer] - 1 \in Nat
  BY <1>1 DEF Counts
<1>3. running \in Counts /\ due \in Counts /\ \A t \in {"long", "multi"} : t # timer => running[t] = press.running[t]
  BY <1>1, <1>2 DEF Counts
<1>4. press' = [press EXCEPT !.running = running, !.due = due, !.ref = ref]
  BY DEF TimerDue
<1>5. ref \in {"none", "over", "long", "multi"} /\ (ref \in {"long", "multi"} => ref = press.ref /\ ref # timer)
  BY DEF Presses
<1>6. Held(press)
  BY DEF TimerHeld
<1> HIDE DEF running, due, ref
<1>7. press' \in Presses /\ press'.running = running /\ press'.ref = ref
  BY <1>3, <1>4, <1>5 DEF Presses
<1> QED
  BY <1>3, <1>5, <1>6, <1>7 DEF Held, TimerHeld

LEMMA ResolveKeeps ==
  ASSUME press \in Presses, TimerHeld, queue \in Seq(Commands), Resolve
  PROVE  press' \in Presses /\ TimerHeld' /\ queue' \in Seq(Commands)
<1> DEFINE due == [press.due EXCEPT !.multi = @ - 1]
<1>1. press.due \in Counts /\ press.due.multi > 0 /\ press.count \in Nat
  BY DEF Presses, Resolve
<1>2. due \in Counts
  BY <1>1 DEF Counts
<1>3. press' = [press EXCEPT !.due = due, !.count = 0, !.ref = "none"]
  BY DEF Resolve
<1> HIDE DEF due
<1>4. press' \in Presses /\ TimerHeld'
  BY <1>2, <1>3 DEF Presses, Held, TimerHeld
<1>5. {"button_double_press", "button_triple_press"} \subseteq Commands
  BY DEF Commands
<1>6. \/ queue' = queue \/ queue' = Append(queue, Action)
      \/ queue' = Append(queue, "button_double_press") \/ queue' = Append(queue, "button_triple_press")
  <2>1. press.count = 0 \/ press.count = 1 \/ press.count = 2 \/ press.count > 2
    BY <1>1
  <2> QED
    BY <2>1, <1>1 DEF Resolve
<1> QED
  BY <1>4, <1>5, <1>6, CommandQueued, ActionIsCommand

LEMMA LongPressKeeps ==
  ASSUME press \in Presses, TimerHeld, queue \in Seq(Commands), LongPress
  PROVE  press' \in Presses /\ TimerHeld' /\ queue' \in Seq(Commands)
<1> DEFINE due == [press.due EXCEPT !.long = @ - 1]
<1>1. press.due \in Counts /\ press.due.long > 0
  BY DEF Presses, LongPress
<1>2. due \in Counts
  BY <1>1 DEF Counts
<1>3. "button_long_press" \in Commands
  BY DEF Commands
<1>4. CASE press.count = 1
  <2>1. press' = [press EXCEPT !.due = due, !.count = 0] /\ queue' = Append(queue, "button_long_press")
    BY <1>4 DEF LongPress
  <2> HIDE DEF due
  <2> QED
    BY <2>1, <1>2, <1>3, CommandQueued DEF Presses, Held, TimerHeld
<1>5. CASE press.count # 1
  <2>1. press' = [press EXCEPT !.due = due] /\ queue' = queue
    BY <1>5 DEF LongPress
  <2> HIDE DEF due
  <2> QED
    BY <2>1, <1>2 DEF Presses, Held, TimerHeld
<1> QED
  BY <1>4, <1>5

LEMMA PressSatellite1Keeps ==
  ASSUME queue \in Seq(Commands), PressSatellite1
  PROVE  queue' \in Seq(Commands)
<1>1. {"unmute_mic", "mute_mic", "volume_up"} \subseteq Commands
  BY DEF Commands
<1>2. \E c \in Commands : queue' = Append(queue, c)
  BY <1>1, ActionIsCommand DEF PressSatellite1
<1> QED
  BY <1>2, CommandQueued

-----------------------------------------------------------------------------
\* Types.
LinkType ==
  /\ link \in {"down", "up"} /\ peer \in {"open", "closed", "broken"}
  /\ recv \in {"running", "asleep", "ended"}

MessageType == current \in Seq(Messages) /\ wire \in Seq(Messages)

SatType == sat \in [muted : BOOLEAN, connected : BOOLEAN]

BoundType == events \in Nat /\ changes \in Nat /\ losses \in Nat /\ presses \in Nat

\* TypeOK in parts.
Types ==
  /\ kind \in Boards /\ SatType /\ MessageType /\ LinkType
  /\ board \in BoardStates /\ leds \in Shown
  /\ queue \in Seq(Commands) /\ press \in Presses /\ BoundType

LEMMA TypesAre == (TypeOK <=> Types) /\ (TypeOK' <=> Types')
  BY DEF TypeOK, Types, SatType, MessageType, LinkType, BoundType, Shown, Presses, Counts

LEMMA MutedTypes ==
  ASSUME TypeOK, NEW muted \in BOOLEAN, Muted(muted)
  PROVE  SatType' /\ MessageType'
<1>1. PICK ms \in Seq(Messages) : MutedBy(ms, muted)
  BY MutedSays
<1>2. MessageType'
  BY <1>1, EmitTypes DEF MutedBy, MessageType
<1>3. sat' = [sat EXCEPT !.muted = muted] /\ sat \in [muted : BOOLEAN, connected : BOOLEAN]
  BY MutedSays DEF TypeOK
<1> QED
  BY <1>2, <1>3 DEF SatType

LEMMA OneMessage ==
  ASSUME NEW name \in Names
  PROVE  <<Event(name)>> \in Seq(Messages) /\ Len(<<Event(name)>>) = 1 /\ <<Event(name)>>[1] = Event(name)
         /\ DOMAIN <<Event(name)>> = {1}
  BY EventIsMessage

LEMMA SnapshotIsMessage ==
  ASSUME SatType
  PROVE  Snapshot \in Messages /\ <<Snapshot>> \in Seq(Messages)
<1>1. Snapshot \in Messages
  BY DEF Snapshot, SatType, Messages, Names
<1> QED
  BY <1>1

LEMMA DownTypes ==
  ASSUME board \in BoardStates, Down
  PROVE  wire' \in Seq(Messages) /\ LinkType' /\ board' \in BoardStates /\ leds' \in Shown
<1>1. wire' = <<>> /\ LinkType' /\ board' = Unreachable(board) /\ leds' = NotReady
  BY DEF Down, LinkType
<1>2. NotReady \in Shown
  BY DEF NotReady, Shown, States
<1>3. <<>> \in Seq(Messages) /\ Unreachable(board) \in BoardStates
  BY MadeUnreachable, EmptySeq
<1> QED
  BY <1>1, <1>2, <1>3, Zenon

LEMMA StepTypes ==
  ASSUME TypeOK, TimerHeld, [Next]_vars
  PROVE  TypeOK' /\ TimerHeld'
<1>. USE DEF satellite, connection, shown, button
<1>1. Types
  BY TypesAre
<1>2. /\ kind \in Boards /\ SatType /\ MessageType /\ LinkType
      /\ board \in BoardStates /\ leds \in Shown
      /\ queue \in Seq(Commands) /\ press \in Presses /\ BoundType
  BY <1>1 DEF Types
<1>3. SUFFICES Types' /\ TimerHeld'
  BY TypesAre
<1>4. CASE Reports
  <2>1. PICK name \in Reported : Emit(<<Event(name)>>)
    BY <1>4 DEF Reports
  <2>2. name \in Names
    BY <2>1, BoardLinkAssumption, PipelineIsNames
  <2>3. MessageType'
    BY <2>1, <2>2, OneMessage, EmitTypes DEF MessageType
  <2> QED
    BY <2>3, <1>2, <1>4 DEF Reports, Types, SatType, LinkType, BoundType, TimerHeld
<1>5. CASE SetMuted
  <2>1. (~sat.muted) \in BOOLEAN
    BY <1>2 DEF SatType
  <2>2. SatType' /\ MessageType'
    BY <2>1, <1>5, MutedTypes DEF SetMuted
  <2> QED
    BY <2>2, <1>2, <1>5 DEF SetMuted, MayChange, Types, LinkType, BoundType, TimerHeld
<1>6. CASE HomeConnects \/ HomeLost
  <2>1. PICK name \in {"zeroconf", "disconnected"}, there \in BOOLEAN :
             Emit(<<Event(name)>>) /\ sat' = [sat EXCEPT !.connected = there]
    BY <1>6 DEF HomeConnects, HomeLost
  <2>2. name \in Names
    BY DEF Names
  <2>3. MessageType'
    BY <2>1, <2>2, OneMessage, EmitTypes DEF MessageType
  <2>4. SatType'
    BY <2>1, <1>2 DEF SatType
  <2> QED
    BY <2>3, <2>4, <1>2, <1>6 DEF HomeConnects, HomeLost, MayChange, Types, LinkType, BoundType, TimerHeld
<1>7. CASE Restarts
  <2>1. peer' \in {"open", "closed", "broken"}
    BY <1>2, <1>7 DEF Restarts, LinkType
  <2>2. SatType' /\ current' \in Seq(Messages)
    BY <1>7 DEF Restarts, SatType
  <2> QED
    BY <2>1, <2>2, <1>2, <1>7 DEF Restarts, MayChange, Types, MessageType, LinkType, BoundType, TimerHeld
<1>8. CASE Breaks
  BY <1>2, <1>8 DEF Breaks, Types, SatType, MessageType, LinkType, BoundType, TimerHeld
<1>9. CASE Connect
  <2>1. <<Snapshot>> \o current \in Seq(Messages)
    BY <1>2, SnapshotIsMessage, ConcatProperties, Zenon DEF MessageType
  <2> QED
    BY <2>1, <1>2, <1>9 DEF Connect, Types, SatType, MessageType, LinkType, BoundType, TimerHeld
<1>10. CASE Receive
  <2>1. wire \in Seq(Messages) /\ wire # <<>>
    BY <1>2, <1>10 DEF Receive, MessageType
  <2>2. Head(wire) \in Messages /\ Tail(wire) \in Seq(Messages)
    BY <2>1, HeadTailProperties
  <2>3. board' = Handle(kind, board, Head(wire)) /\ wire' = Tail(wire)
    BY <1>10 DEF Receive
  <2>4. board' \in BoardStates
    BY <2>2, <2>3, <1>2, Handled DEF Understood
  <2>5. leds' \in Shown /\ recv' \in {"running", "asleep", "ended"}
    <3>1. Leds(kind, board', Head(wire)) \in Shown
      BY <2>2, <2>4, <1>2, LedsShow
    <3>2. leds' = leds \/ leds' = Leds(kind, board', Head(wire))
      BY <1>10 DEF Receive
    <3>3. recv' = "asleep" \/ recv' = recv
      BY <1>10 DEF Receive
    <3> QED
      BY <3>1, <3>2, <3>3, <1>2 DEF LinkType
  <2> QED
    BY <2>2, <2>3, <2>4, <2>5, <1>2, <1>10 DEF Receive, Types, SatType, MessageType, LinkType, BoundType, TimerHeld
<1>11. CASE ErrorShown
  <2>1. board' \in BoardStates
    BY <1>2, <1>11, PutIn, StatesAre DEF ErrorShown, TwoMicErrorOver
  <2>2. leds' \in Shown
    BY <2>1, <1>11 DEF ErrorShown, Shown, BoardStates
  <2> QED
    BY <2>1, <2>2, <1>2, <1>11 DEF ErrorShown, Types, SatType, MessageType, LinkType, BoundType, TimerHeld
<1>12. CASE Elapse
  <2>1. board' \in BoardStates
    BY <1>2, <1>12 DEF Elapse, BoardStates
  <2> QED
    BY <2>1, <1>2, <1>12 DEF Elapse, Types, SatType, MessageType, LinkType, BoundType, TimerHeld
<1>13. CASE ReceiveRaises
  BY <1>2, <1>13, DownTypes DEF ReceiveRaises, Types, SatType, MessageType, BoundType, TimerHeld
<1>14. CASE ReceiveEnds
  BY <1>2, <1>14 DEF ReceiveEnds, Types, SatType, MessageType, LinkType, BoundType, TimerHeld
<1>15. CASE SendFails
  <2>1. queue # <<>> /\ queue' = PutBack /\ Down
    BY <1>15 DEF SendFails
  <2>2. PutBack \in Seq(Commands)
    BY <2>1, <1>2, HeadTailProperties, AppendProperties DEF PutBack
  <2> QED
    BY <2>1, <2>2, <1>2, <1>15, DownTypes DEF SendFails, Types, SatType, MessageType, BoundType, TimerHeld
<1>16. CASE Send
  <2>1. queue # <<>> /\ queue' = Tail(queue)
    BY <1>16 DEF Send
  <2>2. queue' \in Seq(Commands)
    BY <2>1, <1>2, HeadTailProperties
  <2>3. SatType' /\ MessageType'
    <3>1. CASE Muted(~sat.muted)
      BY <3>1, MutedTypes
    <3>2. CASE UNCHANGED <<sat, current, wire>>
      BY <3>2, <1>2 DEF SatType, MessageType
    <3> QED
      BY <3>1, <3>2, <1>16 DEF Send
  <2> QED
    BY <2>2, <2>3, <1>2, <1>16 DEF Send, Types, LinkType, BoundType, TimerHeld
<1>17. CASE PressSatellite1
  <2>1. queue' \in Seq(Commands)
    BY <1>2, <1>17, PressSatellite1Keeps
  <2> QED
    BY <2>1, <1>2, <1>17 DEF PressSatellite1, MayPress, Types, SatType, MessageType, LinkType, BoundType, TimerHeld
<1>18. CASE Press
  <2>1. press' \in Presses /\ TimerHeld'
    BY <1>2, <1>18, PressKeeps
  <2> QED
    BY <2>1, <1>2, <1>18 DEF Press, MayPress, Types, SatType, MessageType, LinkType, BoundType
<1>19. CASE Release
  <2>1. press' \in Presses /\ TimerHeld'
    BY <1>2, <1>19, ReleaseKeeps
  <2> QED
    BY <2>1, <1>2, <1>19 DEF Release, Types, SatType, MessageType, LinkType, BoundType
<1>20. CASE \E timer \in DOMAIN NoTimers : TimerDue(timer)
  <2>1. PICK timer \in {"long", "multi"} : TimerDue(timer)
    BY <1>20 DEF NoTimers
  <2>2. press' \in Presses /\ TimerHeld'
    BY <2>1, <1>2, TimerDueKeeps
  <2> QED
    BY <2>1, <2>2, <1>2 DEF TimerDue, Types, SatType, MessageType, LinkType, BoundType
<1>21. CASE Resolve
  <2>1. press' \in Presses /\ TimerHeld' /\ queue' \in Seq(Commands)
    BY <1>2, <1>21, ResolveKeeps
  <2> QED
    BY <2>1, <1>2, <1>21 DEF Resolve, Types, SatType, MessageType, LinkType, BoundType
<1>22. CASE LongPress
  <2>1. press' \in Presses /\ TimerHeld' /\ queue' \in Seq(Commands)
    BY <1>2, <1>22, LongPressKeeps
  <2> QED
    BY <2>1, <1>2, <1>22 DEF LongPress, Types, SatType, MessageType, LinkType, BoundType
<1>23. CASE UNCHANGED vars
  BY <1>2, <1>23 DEF vars, Types, SatType, MessageType, LinkType, BoundType, TimerHeld
<1> QED
  BY <1>4, <1>5, <1>6, <1>7, <1>8, <1>9, <1>10, <1>11, <1>12, <1>13, <1>14, <1>15, <1>16, <1>17,
     <1>18, <1>19, <1>20, <1>21, <1>22, <1>23 DEF Next

-----------------------------------------------------------------------------
\* What the board will know.
MuteEndsWell == EndsWell(wire, MuteRight, MuteWrong, MuteAgrees(board.muted))

HomeEndsWell == EndsWell(wire, HomeRight, HomeWrong, board.ha => sat.connected)

Linked == link = "up" /\ peer = "open"

\* The board as far as the microphone and Home Assistant go.
SameNews == kind' = kind /\ board'.muted = board.muted /\ board'.ha = board.ha

LEMMA KnownIsBoolean == MuteAgrees(board.muted) \in BOOLEAN /\ MuteAgrees(board.muted)' \in BOOLEAN
  BY DEF MuteAgrees

\* What is right and wrong depends on the satellite only.
LEMMA SameMatters ==
  ASSUME kind' = kind
  PROVE  /\ sat'.muted = sat.muted => MuteRight' = MuteRight /\ MuteWrong' = MuteWrong
         /\ sat'.connected = sat.connected => HomeRight' = HomeRight /\ HomeWrong' = HomeWrong
  BY DEF MuteRight, MuteWrong, MuteAgrees, Heard, HomeRight, HomeWrong

LEMMA NothingNew ==
  ASSUME SameNews, wire' = wire, sat' = sat, link' = link, peer' = peer, WillKnow
  PROVE  WillKnow'
<1>1. MuteRight' = MuteRight /\ MuteWrong' = MuteWrong /\ HomeRight' = HomeRight /\ HomeWrong' = HomeWrong
  BY SameMatters DEF SameNews
<1>2. MuteAgrees(board.muted)' = MuteAgrees(board.muted) /\ (board.ha => sat.connected)' = (board.ha => sat.connected)
  BY DEF SameNews, MuteAgrees
<1> QED
  BY <1>1, <1>2 DEF WillKnow

LEMMA WireWhenLinked ==
  ASSUME NEW ms, Emit(ms), Linked
  PROVE  wire' = wire \o ms
  BY DEF Emit, Linked

\* Messages of which none is wrong on the microphone.
LEMMA NoMuteAdded ==
  ASSUME TypeOK, Linked, SameNews, sat'.muted = sat.muted, MuteEndsWell,
         NEW ms \in Seq(Messages), Emit(ms), \A i \in DOMAIN ms : ms[i] \notin MuteWrong
  PROVE  MuteEndsWell'
<1>1. wire' = wire \o ms /\ wire \in Seq(Messages)
  BY WireWhenLinked DEF TypeOK
<1>2. EndsWell(wire \o ms, MuteRight, MuteWrong, MuteAgrees(board.muted))
  BY <1>1, NothingWrongAdded, KnownIsBoolean DEF MuteEndsWell
<1>3. MuteRight' = MuteRight /\ MuteWrong' = MuteWrong /\ MuteAgrees(board.muted)' = MuteAgrees(board.muted)
  BY SameMatters DEF SameNews, MuteAgrees
<1> QED
  BY <1>1, <1>2, <1>3 DEF MuteEndsWell

LEMMA NoHomeAdded ==
  ASSUME TypeOK, Linked, SameNews, sat'.connected = sat.connected, HomeEndsWell,
         NEW ms \in Seq(Messages), Emit(ms), \A i \in DOMAIN ms : ms[i] \notin HomeWrong
  PROVE  HomeEndsWell'
<1> DEFINE known == board.ha => sat.connected
<1>1. wire' = wire \o ms /\ wire \in Seq(Messages)
  BY WireWhenLinked DEF TypeOK
<1>2. known \in BOOLEAN /\ known' = known
  BY DEF SameNews
<1>3. EndsWell(wire, HomeRight, HomeWrong, known)
  BY DEF HomeEndsWell
<1>4. HomeRight' = HomeRight /\ HomeWrong' = HomeWrong
  BY SameMatters DEF SameNews
<1>5. HomeEndsWell' = EndsWell(wire', HomeRight', HomeWrong', known')
  BY DEF HomeEndsWell
<1> HIDE DEF known
<1>6. EndsWell(wire \o ms, HomeRight, HomeWrong, known)
  BY <1>1, <1>2, <1>3, NothingWrongAdded
<1> QED
  BY <1>1, <1>2, <1>4, <1>5, <1>6

\* Messages that end right on the matter.
LEMMA MuteAdded ==
  ASSUME TypeOK, Linked, NEW ms \in Seq(Messages), Emit(ms), NEW k \in DOMAIN ms,
         ms[k] \in MuteRight', \A j \in DOMAIN ms : j > k => ms[j] \notin MuteWrong'
  PROVE  MuteEndsWell'
<1>1. wire' = wire \o ms /\ wire \in Seq(Messages)
  BY WireWhenLinked DEF TypeOK
<1>2. EndsWell(wire \o ms, MuteRight', MuteWrong', MuteAgrees(board.muted)')
  BY <1>1, RightAdded, KnownIsBoolean
<1> QED
  BY <1>1, <1>2 DEF MuteEndsWell

LEMMA HomeAdded ==
  ASSUME TypeOK, Linked, NEW ms \in Seq(Messages), Emit(ms), NEW k \in DOMAIN ms,
         ms[k] \in HomeRight', \A j \in DOMAIN ms : j > k => ms[j] \notin HomeWrong'
  PROVE  HomeEndsWell'
<1> DEFINE known == board'.ha => sat'.connected
<1>1. wire' = wire \o ms /\ wire \in Seq(Messages)
  BY WireWhenLinked DEF TypeOK
<1>2. known \in BOOLEAN
  OBVIOUS
<1>3. HomeEndsWell' = EndsWell(wire', HomeRight', HomeWrong', known)
  BY DEF HomeEndsWell
<1> HIDE DEF known
<1>4. EndsWell(wire \o ms, HomeRight', HomeWrong', known)
  BY <1>1, <1>2, RightAdded
<1> QED
  BY <1>1, <1>3, <1>4

\* What most events say of the two.
LEMMA OfNoMatter ==
  ASSUME NEW m \in Messages
  PROVE  /\ m.event \notin {"snapshot", "muted"} => m \notin Bearing
         /\ m.event \notin {"snapshot", "zeroconf"} => m \notin HomeWrong /\ m \notin HomeWrong'
         /\ MuteRight \subseteq Bearing /\ MuteWrong \subseteq Bearing
         /\ MuteRight' \subseteq Bearing /\ MuteWrong' \subseteq Bearing
  BY DEF Bearing, HomeWrong, Present, MuteRight, MuteWrong

WhileLinked == Linked => MuteEndsWell /\ HomeEndsWell

LEMMA WillKnowIs == (WillKnow <=> WhileLinked) /\ (WillKnow' <=> WhileLinked')
  BY DEF WillKnow, WhileLinked, Linked, MuteEndsWell, HomeEndsWell

\* Events, reported by the satellite.
LEMMA ReportsKnown ==
  ASSUME TypeOK, WillKnow, CurrentHolds, Reports
  PROVE  WillKnow' /\ CurrentHolds'
<1>1. PICK name \in Reported : Emit(<<Event(name)>>)
  BY DEF Reports
<1> DEFINE ms == <<Event(name)>>
<1>2. name \in Pipeline \union Passing /\ name \in Names
  BY BoardLinkAssumption, PipelineIsNames
<1>3. ms \in Seq(Messages) /\ DOMAIN ms = {1} /\ Len(ms) = 1 /\ ms[1] \in Messages /\ ms[1].event = name
  BY <1>2, OneMessage, EventIsMessage
<1>4. name \notin {"snapshot", "muted", "zeroconf", "disconnected"}
  BY <1>2 DEF Pipeline, Passing, Direct
<1>5. Emit(ms)
  BY <1>1
<1> HIDE DEF ms
<1>6. SameNews /\ sat' = sat /\ (Linked' <=> Linked)
  BY DEF Reports, SameNews, Linked, shown
<1>7. \A i \in DOMAIN ms : ms[i] \notin MuteWrong /\ ms[i] \notin HomeWrong
  BY <1>3, <1>4, OfNoMatter
<1>8. WhileLinked'
  BY <1>3, <1>5, <1>6, <1>7, NoMuteAdded, NoHomeAdded, WillKnowIs DEF WhileLinked
<1>9. CurrentHolds'
  <2>1. CASE current' = current
    BY <2>1, <1>6 DEF CurrentHolds
  <2>2. CASE \E i \in DOMAIN ms : current' = <<ms[i]>> /\ ms[i].event \in StateEvents
    BY <2>2, <1>3, <1>4 DEF CurrentHolds
  <2> QED
    BY <2>1, <2>2, <1>3, <1>5, LastStateKept DEF Emit
<1> QED
  BY <1>8, <1>9, WillKnowIs

\* The microphone is muted or unmuted, by Home Assistant or the board.
LEMMA MutedKnown ==
  ASSUME TypeOK, WillKnow, CurrentHolds, NEW muted \in BOOLEAN, Muted(muted),
         SameNews, link' = link, peer' = peer
  PROVE  WillKnow' /\ CurrentHolds'
<1>1. PICK ms \in Seq(Messages) : MutedBy(ms, muted)
  BY MutedSays
<1>2. sat' = [sat EXCEPT !.muted = muted] /\ sat'.muted = muted /\ sat'.connected = sat.connected
  BY MutedSays DEF TypeOK
<1>3. /\ Len(ms) \in {1, 2, 3} /\ 1 \in DOMAIN ms /\ ms[1] = Says(muted) /\ Emit(ms)
      /\ \A i \in DOMAIN ms : i = 1 \/ (i > 1 /\ ms[i] \in Rest)
  BY <1>1, LenProperties DEF MutedBy
<1>4. \A i \in DOMAIN ms : ms[i] \in Messages
  BY ElementOfSeq, LenProperties
<1>5. Says(muted) \in Bearing /\ Says(muted).event = "muted" /\ Says(muted).muted = muted
  BY SaysIsMessage DEF Bearing
<1>6. Says(muted) \in MuteRight'
  BY <1>2, <1>5 DEF MuteRight, MuteAgrees, Heard, SameNews
<1>7. \A i \in DOMAIN ms : i > 1 => ms[i] \notin MuteWrong'
  BY <1>3, <1>4, OfNoMatter, RestIsMessages
<1>8. \A i \in DOMAIN ms : ms[i] \notin HomeWrong
  BY <1>3, <1>4, <1>5, OfNoMatter, RestIsMessages
<1>9. WhileLinked'
  <2>1. ASSUME Linked PROVE MuteEndsWell'
    BY <2>1, <1>3, <1>6, <1>7, MuteAdded
  <2>2. ASSUME Linked PROVE HomeEndsWell'
    BY <2>2, <1>2, <1>3, <1>8, NoHomeAdded, WillKnowIs DEF WhileLinked
  <2> QED
    BY <2>1, <2>2 DEF WhileLinked, Linked
<1>10. CurrentHolds'
  <2>1. "muted" \in StateEvents /\ {"tts_finished", "idle", "listening"} \subseteq StateEvents
    BY DEF StateEvents, Pipeline, Direct
  <2>2. PICK i \in DOMAIN ms : current' = <<ms[i]>> /\ ms[i].event \in StateEvents
    BY <2>1, <1>3, <1>5, LastStateKept DEF Emit
  <2>3. CASE i = 1
    BY <2>2, <2>3, <1>2, <1>3, <1>5 DEF CurrentHolds
  <2>4. CASE ms[i] \in Rest
    BY <2>2, <2>4, RestIsMessages DEF CurrentHolds
  <2> QED
    BY <2>3, <2>4, <1>3
<1> QED
  BY <1>9, <1>10, WillKnowIs

\* Home Assistant comes and goes.
LEMMA HomeKnown ==
  ASSUME TypeOK, WillKnow, CurrentHolds, HomeConnects \/ HomeLost
  PROVE  WillKnow' /\ CurrentHolds'
<1>1. PICK name \in {"zeroconf", "disconnected"} :
         Emit(<<Event(name)>>) /\ sat' = [sat EXCEPT !.connected = (name = "zeroconf")]
  BY DEF HomeConnects, HomeLost
<1> DEFINE ms == <<Event(name)>>
<1>2. name \in Names
  BY DEF Names
<1>3. ms \in Seq(Messages) /\ DOMAIN ms = {1} /\ Len(ms) = 1 /\ ms[1] \in Messages /\ ms[1].event = name
  BY <1>2, OneMessage, EventIsMessage
<1>4. Emit(ms) /\ sat'.connected = (name = "zeroconf") /\ sat'.muted = sat.muted
  BY <1>1 DEF TypeOK
<1> HIDE DEF ms
<1>5. SameNews /\ (Linked' <=> Linked)
  BY DEF HomeConnects, HomeLost, SameNews, Linked, shown
<1>6. \A i \in DOMAIN ms : ms[i] \notin MuteWrong
  BY <1>3, OfNoMatter
<1>7. ms[1] \in HomeRight'
  BY <1>3, <1>4 DEF HomeRight, Present, Absent
<1>8. \A j \in DOMAIN ms : ~(j > 1)
  BY <1>3
<1>9. WhileLinked'
  <2>1. ASSUME Linked PROVE MuteEndsWell'
    BY <2>1, <1>3, <1>4, <1>5, <1>6, NoMuteAdded, WillKnowIs DEF WhileLinked
  <2>2. ASSUME Linked PROVE HomeEndsWell'
    BY <2>2, <1>3, <1>4, <1>7, <1>8, HomeAdded
  <2> QED
    BY <2>1, <2>2, <1>5 DEF WhileLinked
<1>10. CurrentHolds'
  <2>1. CASE current' = current
    BY <2>1, <1>4 DEF CurrentHolds
  <2>2. CASE \E i \in DOMAIN ms : current' = <<ms[i]>> /\ ms[i].event \in StateEvents
    BY <2>2, <1>3 DEF CurrentHolds
  <2> QED
    BY <2>1, <2>2, <1>3, <1>4, LastStateKept DEF Emit
<1> QED
  BY <1>9, <1>10, WillKnowIs

\* A connection begins with the truth, and the state that is replayed is true.
LEMMA ConnectKnown ==
  ASSUME TypeOK, CurrentHolds, Connect
  PROVE  WillKnow' /\ CurrentHolds'
<1> DEFINE one == <<Snapshot>>
<1>1. current \in Seq(Messages) /\ SatType
  BY DEF TypeOK, SatType
<1>2. one \in Seq(Messages) /\ Snapshot \in Messages /\ DOMAIN one = {1} /\ one[1] = Snapshot
  BY <1>1, SnapshotIsMessage
<1>3. kind' = kind /\ sat' = sat /\ wire' = one \o current /\ current' = current /\ board' = board
  BY DEF Connect, satellite, shown
<1>4. Snapshot \in MuteRight /\ Snapshot \in HomeRight
  BY <1>1, <1>2 DEF Snapshot, MuteRight, Bearing, Heard, MuteAgrees, HomeRight, Present, Absent, SatType
<1>5. \A i \in DOMAIN current : current[i] \notin MuteWrong /\ current[i] \notin HomeWrong
  <2>1. ASSUME NEW i \in DOMAIN current
        PROVE  current[i] \notin MuteWrong /\ current[i] \notin HomeWrong
    <3>1. i = 1 /\ current[1] \in Messages /\ current[1].event \in StateEvents
          /\ (current[1].event = "muted" => current[1].muted = sat.muted)
      BY <1>1, ElementOfSeq, LenProperties DEF CurrentHolds
    <3>2. current[1].event \notin {"snapshot", "zeroconf"}
      BY <3>1 DEF StateEvents, Pipeline, Direct
    <3>3. current[1] \notin MuteWrong
      BY <3>1, <3>2 DEF MuteWrong, Bearing, Heard, MuteAgrees
    <3> QED
      BY <3>1, <3>2, <3>3, OfNoMatter
  <2> QED
    BY <2>1
<1> HIDE DEF one
<1>6. /\ EndsWell(one, MuteRight, MuteWrong, MuteAgrees(board.muted))
      /\ EndsWell(one, HomeRight, HomeWrong, board.ha => sat.connected)
  BY <1>2, <1>4 DEF EndsWell
<1>7. EndsWell(one \o current, MuteRight, MuteWrong, MuteAgrees(board.muted))
  BY <1>1, <1>2, <1>5, <1>6, NothingWrongAdded, KnownIsBoolean
<1>8. EndsWell(one \o current, HomeRight, HomeWrong, board.ha => sat.connected)
  <2> DEFINE known == board.ha => sat.connected
  <2>1. known \in BOOLEAN /\ EndsWell(one, HomeRight, HomeWrong, known)
    BY <1>6
  <2> HIDE DEF known
  <2>2. EndsWell(one \o current, HomeRight, HomeWrong, known)
    BY <2>1, <1>1, <1>2, <1>5, NothingWrongAdded
  <2> QED
    BY <2>2 DEF known
<1>9. MuteEndsWell' /\ HomeEndsWell'
  <2>1. MuteRight' = MuteRight /\ MuteWrong' = MuteWrong /\ HomeRight' = HomeRight /\ HomeWrong' = HomeWrong
        /\ MuteAgrees(board.muted)' = MuteAgrees(board.muted)
    BY <1>3, SameMatters DEF MuteAgrees
  <2> QED
    BY <2>1, <1>3, <1>7, <1>8 DEF MuteEndsWell, HomeEndsWell
<1> QED
  BY <1>3, <1>9, WillKnowIs DEF WhileLinked, CurrentHolds

\* What is read is understood.
LEMMA ReceiveKnown ==
  ASSUME TypeOK, WillKnow, CurrentHolds, Receive
  PROVE  WillKnow' /\ CurrentHolds'
<1> DEFINE m == Head(wire)
           known == board.ha => sat.connected
           after == board'.ha => sat.connected
<1>1. /\ wire \in Seq(Messages) /\ wire # <<>> /\ kind \in Boards /\ board \in BoardStates
      /\ wire' = Tail(wire) /\ board' = Handle(kind, board, m)
      /\ sat \in [muted : BOOLEAN, connected : BOOLEAN]
  BY DEF TypeOK, Receive
<1>2. kind' = kind /\ sat' = sat /\ current' = current /\ (Linked' <=> Linked)
  BY DEF Receive, satellite, Linked
<1>3. m \in Messages
  BY <1>1, HeadTailProperties
<1>4. Understood(board, m, board')
  BY <1>1, <1>3, Handled
<1> HIDE DEF m
<1>5. MuteAgrees(board'.muted) \in BOOLEAN /\ known \in BOOLEAN /\ after \in BOOLEAN
  BY DEF MuteAgrees
<1>6. m \in MuteRight => MuteAgrees(board'.muted)
  BY <1>4 DEF MuteRight, Understood
<1>7. MuteAgrees(board.muted) /\ m \notin MuteWrong => MuteAgrees(board'.muted)
  BY <1>4 DEF MuteWrong, Understood
<1>8. m \in HomeRight => after
  BY <1>4 DEF HomeRight, Understood, Present, Absent
<1>9. known /\ m \notin HomeWrong => after
  BY <1>3, <1>4 DEF HomeWrong, Understood
<1>10. ASSUME Linked PROVE MuteEndsWell'
  <2>1. EndsWell(Tail(wire), MuteRight, MuteWrong, MuteAgrees(board'.muted))
    BY <1>10, <1>1, <1>5, <1>6, <1>7, HeadRead, KnownIsBoolean, WillKnowIs DEF m, WhileLinked, MuteEndsWell
  <2>2. MuteRight' = MuteRight /\ MuteWrong' = MuteWrong /\ MuteAgrees(board.muted)' = MuteAgrees(board'.muted)
    BY <1>2, SameMatters DEF MuteAgrees
  <2> QED
    BY <2>1, <2>2, <1>1 DEF MuteEndsWell
<1>11. ASSUME Linked PROVE HomeEndsWell'
  <2>1. EndsWell(wire, HomeRight, HomeWrong, known)
    BY <1>11, WillKnowIs DEF WhileLinked, HomeEndsWell
  <2>2. HomeRight' = HomeRight /\ HomeWrong' = HomeWrong
    BY <1>2, SameMatters
  <2>3. HomeEndsWell' = EndsWell(Tail(wire), HomeRight, HomeWrong, after)
    BY <2>2, <1>1, <1>2 DEF HomeEndsWell
  <2> HIDE DEF known, after
  <2> QED
    BY <2>1, <2>3, <1>1, <1>5, <1>8, <1>9, HeadRead DEF m
<1> QED
  BY <1>2, <1>10, <1>11, WillKnowIs DEF WhileLinked, CurrentHolds

-----------------------------------------------------------------------------
LEMMA StepKnown ==
  ASSUME TypeOK, WillKnow, CurrentHolds, [Next]_vars
  PROVE  WillKnow' /\ CurrentHolds'
<1>. USE DEF satellite, connection, shown, button
<1>1. CASE Reports
  BY <1>1, ReportsKnown
<1>2. CASE SetMuted \/ (Send /\ Muted(~sat.muted))
  <2>1. (~sat.muted) \in BOOLEAN
    BY DEF TypeOK
  <2>2. SameNews /\ link' = link /\ peer' = peer /\ Muted(~sat.muted)
    BY <1>2 DEF SetMuted, Send, SameNews
  <2> QED
    BY <2>1, <2>2, MutedKnown
<1>3. CASE HomeConnects \/ HomeLost
  BY <1>3, HomeKnown
<1>4. CASE Restarts
  <2>1. peer' # "open" /\ current' = <<>>
    BY <1>4 DEF Restarts
  <2> QED
    BY <2>1 DEF WillKnow, CurrentHolds
<1>5. CASE Breaks
  BY <1>5 DEF Breaks, WillKnow, CurrentHolds
<1>6. CASE Connect
  BY <1>6, ConnectKnown
<1>7. CASE Receive
  BY <1>7, ReceiveKnown
<1>8. CASE ErrorShown \/ Elapse
  <2>1. SameNews
    BY <1>8 DEF ErrorShown, Elapse, SameNews, TwoMicErrorOver, In, TypeOK, BoardStates
  <2> QED
    BY <2>1, <1>8, NothingNew DEF ErrorShown, Elapse, CurrentHolds
<1>9. CASE ReceiveRaises \/ SendFails
  BY <1>9 DEF ReceiveRaises, SendFails, Down, WillKnow, CurrentHolds
<1>10. CASE ReceiveEnds \/ (Send /\ UNCHANGED <<sat, current, wire>>)
  BY <1>10, NothingNew DEF ReceiveEnds, Send, SameNews, CurrentHolds
<1>11. CASE PressSatellite1 \/ Press \/ Release \/ (\E timer \in DOMAIN NoTimers : TimerDue(timer)) \/ Resolve \/ LongPress
  <2>1. UNCHANGED <<kind, sat, current, link, peer, wire, board>>
    BY <1>11 DEF PressSatellite1, Press, Release, TimerDue, Resolve, LongPress
  <2> QED
    BY <2>1, NothingNew DEF SameNews, CurrentHolds
<1>12. CASE UNCHANGED vars
  BY <1>12, NothingNew DEF vars, SameNews, CurrentHolds
<1>13. Send => Muted(~sat.muted) \/ UNCHANGED <<sat, current, wire>>
  BY DEF Send
<1> QED
  BY <1>1, <1>2, <1>3, <1>4, <1>5, <1>6, <1>7, <1>8, <1>9, <1>10, <1>11, <1>12, <1>13 DEF Next

\* A ring shows what the state of its board asks for.
LEMMA StepShown ==
  ASSUME TypeOK, RingShown, [Next]_vars
  PROVE  RingShown'
<1>. USE DEF satellite, connection, shown, button
<1>1. CASE Receive
  <2> DEFINE m == Head(wire)
  <2>1. /\ wire \in Seq(Messages) /\ wire # <<>> /\ kind \in Boards /\ board \in BoardStates
        /\ board' = Handle(kind, board, m) /\ kind' = kind /\ recv = "running"
    BY <1>1 DEF TypeOK, Receive
  <2>2. m \in Messages
    BY <2>1, HeadTailProperties
  <2>3. board' \in BoardStates
    BY <2>1, <2>2, Handled DEF Understood
  <2>4. /\ kind = "twomic" \/ leds' = Leds(kind, board', m)
        /\ kind = "twomic" \/ recv' = recv
    BY <1>1 DEF Receive
  <2> HIDE DEF m
  <2> QED
    BY <2>1, <2>2, <2>3, <2>4, LedsShow DEF RingShown
<1>2. CASE ErrorShown
  <2>1. kind = "twomic" /\ kind' = kind
    BY <1>2 DEF ErrorShown, RingShown
  <2> QED
    BY <2>1 DEF RingShown
<1>3. CASE Elapse
  <2>1. /\ board \in BoardStates /\ board' = [board EXCEPT !.counting = FALSE]
        /\ kind' = kind /\ leds' = leds /\ recv' = recv
    BY <1>3 DEF Elapse, TypeOK
  <2>2. board'.assist = board.assist /\ board'.ha = board.ha /\ board'.muted = board.muted
    BY <2>1 DEF BoardStates
  <2>3. Satellite1Ring(board') = Satellite1Ring(board) /\ FourMicRing(board') = FourMicRing(board)
    BY <2>2 DEF Satellite1Ring, FourMicRing, Ring
  <2> QED
    BY <2>1, <2>3 DEF RingShown
<1>4. CASE ReceiveRaises \/ SendFails
  <2>1. kind' = kind /\ board' = Unreachable(board) /\ leds' = NotReady /\ recv' = "ended" /\ board \in BoardStates
    BY <1>4 DEF ReceiveRaises, SendFails, Down, TypeOK
  <2>2. board'.ha = FALSE
    BY <2>1, MadeUnreachable
  <2>3. Satellite1Ring(board') = "twinkle" /\ FourMicRing(board') = "twinkle"
    BY <2>2 DEF Satellite1Ring, FourMicRing, Ring
  <2> QED
    BY <2>1, <2>3 DEF RingShown, NotReady
<1>5. CASE Connect \/ ReceiveEnds
  BY <1>5 DEF Connect, ReceiveEnds, RingShown
<1>6. CASE UNCHANGED <<kind, board, leds, recv>>
  BY <1>6 DEF RingShown
<1>7. CASE Reports \/ SetMuted \/ HomeConnects \/ HomeLost \/ Restarts \/ Breaks \/ Send
  BY <1>6, <1>7 DEF Reports, SetMuted, HomeConnects, HomeLost, Restarts, Breaks, Send
<1>8. CASE PressSatellite1 \/ Press \/ Release \/ (\E timer \in DOMAIN NoTimers : TimerDue(timer)) \/ Resolve \/ LongPress
  BY <1>6, <1>8 DEF PressSatellite1, Press, Release, TimerDue, Resolve, LongPress
<1>9. CASE UNCHANGED vars
  BY <1>6, <1>9 DEF vars
<1> QED
  BY <1>1, <1>2, <1>3, <1>4, <1>5, <1>7, <1>8, <1>9 DEF Next

LEMMA InitHolds == Init => IInv
<1> SUFFICES ASSUME Init PROVE IInv
  OBVIOUS
<1>1. kind \in Boards /\ sat \in [muted : {FALSE}, connected : BOOLEAN] /\ NoPress \in Presses
  BY BoardLinkAssumption DEF Init, Presses, Counts, NoPress, NoTimers
<1>2. FirstState \in BoardStates /\ NotReady \in Shown
  BY DEF FirstState, BoardStates, NotReady, Shown, States
<1>3. Types
  <2>1. <<>> \in Seq(Messages) /\ <<>> \in Seq(Commands)
    BY EmptySeq
  <2>2. SatType /\ BoundType /\ MessageType /\ LinkType
    BY <1>1, <2>1 DEF Init, SatType, BoundType, MessageType, LinkType
  <2> QED
    BY <1>1, <1>2, <2>1, <2>2 DEF Init, Types
<1>4. WillKnow /\ CurrentHolds
  BY DEF Init, WillKnow, CurrentHolds
<1>5. TimerHeld
  BY DEF Init, TimerHeld, Held, NoPress
<1>6. RingShown
  <2>1. FirstState.ha = FALSE
    BY DEF FirstState
  <2>2. Satellite1Ring(FirstState) = "twinkle" /\ FourMicRing(FirstState) = "twinkle"
    BY <2>1 DEF Satellite1Ring, FourMicRing, Ring
  <2> QED
    BY <2>2 DEF Init, RingShown, NotReady
<1> QED
  BY <1>3, <1>4, <1>5, <1>6, TypesAre DEF IInv

LEMMA NextKeeps == IInv /\ [Next]_vars => IInv'
  BY StepTypes, StepKnown, StepShown DEF IInv

LEMMA InvAlways == Spec => []IInv
  BY InitHolds, NextKeeps, PTL DEF Spec

\* Board, satellite, messages and commands keep their types; in particular no
\* count of timers falls below zero, however late they are cancelled.
THEOREM TypesAlways == Spec => []TypeOK
  BY InvAlways, PTL DEF IInv

\* What a board that is told everything knows.
LEMMA SettledKnows ==
  ASSUME IInv, Settled
  PROVE  MuteAgrees(board.muted) /\ (board.ha => sat.connected)
<1>1. MuteEndsWell /\ HomeEndsWell /\ wire = <<>>
  BY WillKnowIs DEF IInv, Settled, WhileLinked, Linked
<1>2. DOMAIN wire = {}
  BY <1>1
<1> QED
  BY <1>1, <1>2 DEF MuteEndsWell, HomeEndsWell, EndsWell

\* A board that has read what was sent knows whether the microphone is muted
\* (_handle_event(), _recv_loop() and the snapshot of the peripheral API); the 4-mic
\* board and the USB array at least do not take a muted one for open.
THEOREM MuteAlwaysKnown == Spec => []MuteKnown
<1>1. IInv => MuteKnown
  BY SettledKnows DEF MuteKnown, MuteAgrees, Exact
<1> QED
  BY <1>1, InvAlways, PTL

\* A ring looks ready only when the satellite hears and Home Assistant is there
\* (control_leds(), _handle_event()).
THEOREM NeverLooksReadyInVain == Spec => []NeverReadyInVain
<1>1. ASSUME IInv, Settled, kind # "twomic"
      PROVE  (leds = "idle" => ~sat.muted) /\ (leds # "twinkle" => sat.connected)
  <2>1. MuteAgrees(board.muted) /\ (board.ha => sat.connected) /\ kind \in Boards
        /\ sat \in [muted : BOOLEAN, connected : BOOLEAN] /\ board \in BoardStates
    BY <1>1, SettledKnows DEF IInv, TypeOK
  <2>2. leds \in {Satellite1Ring(board), FourMicRing(board)}
    BY <1>1, <2>1 DEF IInv, RingShown, Boards
  <2>3. leds = "idle" => ~board.muted
    BY <2>2 DEF Satellite1Ring, FourMicRing, Ring, Urgent
  <2>4. leds # "twinkle" => board.ha
    BY <2>2 DEF Satellite1Ring, FourMicRing, Ring
  <2>5. sat.muted => board.muted
    BY <2>1 DEF MuteAgrees
  <2> QED
    BY <2>1, <2>3, <2>4, <2>5
<1>2. IInv => NeverReadyInVain
  BY <1>1 DEF NeverReadyInVain
<1> QED
  BY <1>2, InvAlways, PTL

-----------------------------------------------------------------------------
\* The server and its clients.

\* Of the broadcasts under way, what client c is still to be told.
Owed(ws, c) == {<<ws[i].event, ws[i].serial>> : i \in {k \in DOMAIN ws : c \in ws[k].rest}}

\* No greeting of client c is still to read the current state.
Greeted(ws, c) == \A k \in DOMAIN ws : ws[k].event = "snapshot" => ws[k].at # c

\* The order in which clients are iterated.
InOrder ==
  /\ ahead \subseteq Met \X Met
  /\ \A c \in Met : <<c, c>> \notin ahead
  /\ \A c, d, e \in Met : <<c, d>> \in ahead /\ <<d, e>> \in ahead => <<c, e>> \in ahead
  /\ \A c, d \in Met : c = d \/ <<c, d>> \in ahead \/ <<d, c>> \in ahead

Listed == clients \subseteq Met /\ \A c \in Clients : conn[c] \in {"open", "closing"} => c \in clients

\* A coroutine waits for a client ahead of those it has still to tell.
Proper(w, latest) ==
  /\ w.at \in Met /\ w.rest \subseteq Met
  /\ \A d \in w.rest : <<w.at, d>> \in ahead
  /\ w.event \notin Events => w.rest = {}
  /\ w.event \in Events => w.serial <= latest
  /\ \A d \in w.dead : conn[d] = "closed"

AllProper(ws, latest) == \A k \in DOMAIN ws : Proper(ws[k], latest)

Distinct(ws) ==
  \A k, j \in DOMAIN ws :
    ws[k].event \in Events /\ ws[j].event \in Events /\ ws[k].serial = ws[j].serial => k = j

StillThere(ws) == \A k \in DOMAIN ws : ws[k].rest # {} => conn[ws[k].at] # "closed"

\* The older of two broadcasts is ahead of the younger one, or waits before it
\* for the same client; whom it has still to tell, the younger one has, too.
Ahead(ws, k, j) ==
  /\ (ws[k].at = ws[j].at /\ k < j) \/ ws[k].at \in ws[j].rest
  /\ \A x \in ws[k].rest : conn[x] # "closed" => x \in ws[j].rest

Convoy(ws) ==
  \A k, j \in DOMAIN ws :
    ws[k].rest # {} /\ ws[j].event \in Events /\ ws[k].serial < ws[j].serial => Ahead(ws, k, j)

OldestFirst(ws, views, latest) ==
  /\ \A x \in Clients : views[x].last <= latest
  /\ \A x \in Clients : conn[x] = "open" => \A o \in Owed(ws, x) : views[x].last < o[2]

\* The events that bear on what a board shows in a state.
Bears(state) == KeptEvents \union (IF state = "timer_ticking" THEN {"timer_updated"} ELSE {})

LastOf(owed, kinds, o) == o[1] \in kinds /\ \A p \in owed : p[1] \in kinds => p[2] <= o[2]

\* The last a client is still to be told brings it up to date,
RightNews(owed, s) ==
  \A o \in owed :
    /\ LastOf(owed, KeptEvents, o) => o[1] = s.state
    /\ LastOf(owed, Bears(s.state), o) => o[2] = s.data

\* and a client that is to be told nothing is up to date.
Knows(owed, s, view) ==
  /\ (\A o \in owed : o[1] \notin KeptEvents) => view.state = s.state
  /\ (\A o \in owed : o[1] \notin Bears(s.state)) => view.data = s.data

WillBeTold(ws, views, s) ==
  \A x \in Clients : conn[x] = "open" =>
    /\ RightNews(Owed(ws, x), s)
    /\ Greeted(ws, x) => Knows(Owed(ws, x), s, views[x])

Shaped(ws, latest) == AllProper(ws, latest) /\ Distinct(ws)
Ordered(ws, views, latest) == StillThere(ws) /\ Convoy(ws) /\ OldestFirst(ws, views, latest)

Consistent ==
  /\ InOrder /\ Listed
  /\ Shaped(waits, serial)
  /\ ~disturbed => Ordered(waits, seen, serial) /\ WillBeTold(waits, seen, currentState)

ApiInv == ApiTypeOK /\ Consistent

-----------------------------------------------------------------------------
\* One event more or less to tell.

LastEvents == [state : KeptEvents \union {"none"}, data : Nat]
Views == [state : KeptEvents \union {"none"}, data : Nat, last : Nat]

LEMMA KindsDiffer ==
  /\ KeptEvents = {"idle", "timer_ringing", "timer_ticking"}
  /\ Events = {"idle", "timer_ringing", "timer_ticking", "timer_updated", "stt_text"}
  /\ "snapshot" \notin Events /\ "replay" \notin Events /\ "none" \notin KeptEvents
  /\ \A state : KeptEvents \subseteq Bears(state) /\ Bears(state) \subseteq KeptEvents \union {"timer_updated"}
                /\ ("timer_updated" \in Bears(state) <=> state = "timer_ticking")
  BY DEF KeptEvents, Events, Bears

LEMMA StateAfterType ==
  ASSUME NEW s \in LastEvents, NEW event \in Events, NEW n \in Nat
  PROVE  /\ StateAfter(s, event, n) \in LastEvents
         /\ event \in KeptEvents => StateAfter(s, event, n).state = event /\ StateAfter(s, event, n).data = n
         /\ event \notin KeptEvents =>
              /\ StateAfter(s, event, n).state = s.state
              /\ StateAfter(s, event, n).data = IF event \in Bears(s.state) THEN n ELSE s.data
<1>1. s.state \in KeptEvents \union {"none"} /\ s.data \in Nat
  BY DEF LastEvents
<1>2. CASE event \in KeptEvents
  BY <1>1, <1>2 DEF LastEvents, StateAfter
<1>3. CASE event \notin KeptEvents /\ event = "timer_updated" /\ s.state = "timer_ticking"
  BY <1>1, <1>3 DEF LastEvents, StateAfter, Bears
<1>4. CASE event \notin KeptEvents /\ ~(event = "timer_updated" /\ s.state = "timer_ticking")
  <2>1. event \notin Bears(s.state)
    BY <1>4 DEF Bears
  <2> QED
    BY <1>1, <1>4, <2>1 DEF StateAfter
<1> QED
  BY <1>2, <1>3, <1>4

LEMMA ToldType ==
  ASSUME NEW v \in Views, NEW event \in Events, NEW n \in Nat
  PROVE  /\ Told(v, event, n) \in Views
         /\ Told(v, event, n).last = n
         /\ event \in KeptEvents => Told(v, event, n).state = event /\ Told(v, event, n).data = n
         /\ event \notin KeptEvents =>
              /\ Told(v, event, n).state = v.state
              /\ Told(v, event, n).data = IF event \in Bears(v.state) THEN n ELSE v.data
<1>1. v.state \in KeptEvents \union {"none"} /\ v.data \in Nat
  BY DEF Views
<1>2. CASE event \in KeptEvents
  BY <1>1, <1>2 DEF Views, Told
<1>3. CASE event \notin KeptEvents /\ event = "timer_updated" /\ v.state = "timer_ticking"
  BY <1>1, <1>3 DEF Views, Told, Bears
<1>4. CASE event \notin KeptEvents /\ ~(event = "timer_updated" /\ v.state = "timer_ticking")
  <2>1. event \notin Bears(v.state)
    BY <1>4 DEF Bears
  <2> QED
    BY <1>1, <1>4, <2>1 DEF Told, Views
<1> QED
  BY <1>2, <1>3, <1>4

LEMMA ReplayedType ==
  ASSUME ApiTypeOK, NEW c \in Clients
  PROVE  /\ Replayed(c) \in Views
         /\ Replayed(c).state = currentState.state /\ Replayed(c).data = currentState.data
         /\ Replayed(c).last = seen[c].last
  BY DEF ApiTypeOK, Replayed, Views

\* Who is told the oldest event first will be right in the end, if it was so before.
LEMMA OneTold ==
  ASSUME NEW s \in LastEvents, NEW v \in Views, NEW later \in SUBSET (Events \X Nat),
         NEW event \in Events, NEW n \in Nat,
         \A o \in later : n < o[2],
         RightNews(later \union {<<event, n>>}, s)
  PROVE  /\ RightNews(later, s)
         /\ Knows(later \union {<<event, n>>}, s, v) => Knows(later, s, Told(v, event, n))
<1> DEFINE this == <<event, n>>
           owed == later \union {this}
<1>1. this[1] = event /\ this[2] = n /\ this \in owed /\ RightNews(owed, s)
  OBVIOUS
<1>2. \A o \in later : o[1] \in Events /\ o[2] \in Nat
  OBVIOUS
<1>3. \A kinds : \A o \in later : LastOf(later, kinds, o) => LastOf(owed, kinds, o)
  <2>1. SUFFICES ASSUME NEW kinds, NEW o \in later, LastOf(later, kinds, o),
                        NEW p \in owed, p[1] \in kinds
                 PROVE  p[2] <= o[2]
    BY DEF LastOf
  <2> HIDE DEF this
  <2>2. CASE p = this
    BY <1>1, <1>2, <2>2
  <2>3. CASE p \in later
    BY <2>1, <2>3 DEF LastOf
  <2> QED
    BY <2>2, <2>3
<1>4. RightNews(later, s)
  BY <1>1, <1>3 DEF RightNews
<1>5. \A kinds : event \in kinds /\ (\A o \in later : o[1] \notin kinds) => LastOf(owed, kinds, this)
  BY <1>1 DEF LastOf
<1> HIDE DEF this, owed
<1>6. ASSUME Knows(owed, s, v)
      PROVE  Knows(later, s, Told(v, event, n))
  <2>0. owed = later \union {this}
    BY DEF owed
  <2>1. ASSUME \A o \in later : o[1] \notin KeptEvents
        PROVE  Told(v, event, n).state = s.state
    <3>1. CASE event \in KeptEvents
      <4>1. LastOf(owed, KeptEvents, this)
        BY <1>5, <2>1, <3>1
      <4>2. event = s.state
        BY <1>1, <4>1 DEF RightNews
      <4> QED
        BY <3>1, <4>2, ToldType
    <3>2. CASE event \notin KeptEvents
      BY <1>1, <1>6, <2>0, <2>1, <3>2, ToldType DEF Knows
    <3> QED
      BY <3>1, <3>2
  <2>2. ASSUME \A o \in later : o[1] \notin Bears(s.state)
        PROVE  Told(v, event, n).data = s.data
    <3>1. CASE event \in Bears(s.state)
      <4>1. n = s.data
        BY <1>1, <1>5, <2>2, <3>1 DEF RightNews
      <4>2. CASE event \in KeptEvents
        BY <4>1, <4>2, ToldType
      <4>3. CASE event \notin KeptEvents
        <5>1. v.state = s.state
          BY <1>1, <1>6, <2>0, <2>2, <4>3, KindsDiffer DEF Knows
        <5> QED
          BY <3>1, <4>1, <4>3, <5>1, ToldType
      <4> QED
        BY <4>2, <4>3
    <3>2. CASE event \notin Bears(s.state)
      <4>1. event \notin KeptEvents /\ v.data = s.data /\ v.state = s.state
        BY <1>1, <1>6, <2>0, <2>2, <3>2, KindsDiffer DEF Knows
      <4> QED
        BY <3>2, <4>1, ToldType
    <3> QED
      BY <3>1, <3>2
  <2> QED
    BY <2>1, <2>2 DEF Knows
<1> QED
  BY <1>4, <1>6 DEF this, owed

\* A new event that will be told after the others.
LEMMA OneMore ==
  ASSUME NEW s \in LastEvents, NEW v \in Views, NEW owed \in SUBSET (Events \X Nat),
         NEW event \in Events, NEW n \in Nat,
         \A o \in owed : o[2] < n,
         RightNews(owed, s)
  PROVE  /\ RightNews(owed \union {<<event, n>>}, StateAfter(s, event, n))
         /\ Knows(owed, s, v) => Knows(owed \union {<<event, n>>}, StateAfter(s, event, n), v)
<1> DEFINE this == <<event, n>>
           all == owed \union {this}
           t == StateAfter(s, event, n)
<1>1. this[1] = event /\ this[2] = n /\ this \in all
  OBVIOUS
<1>2. \A o \in owed : o[1] \in Events /\ o[2] \in Nat
  OBVIOUS
<1>3. /\ event \in KeptEvents => t.state = event /\ t.data = n
      /\ event \notin KeptEvents => t.state = s.state
      /\ event \notin KeptEvents => t.data = IF event \in Bears(s.state) THEN n ELSE s.data
  BY StateAfterType
<1> HIDE DEF this, t
<1>4. \A kinds : \A o \in all : LastOf(all, kinds, o) => o = this \/ (event \notin kinds /\ o \in owed /\ LastOf(owed, kinds, o))
  BY <1>1, <1>2 DEF LastOf
<1> HIDE DEF all
<1>5. \A o \in all : LastOf(all, KeptEvents, o) => o[1] = t.state
  BY <1>1, <1>3, <1>4 DEF LastOf, RightNews
<1>6. \A o \in all : LastOf(all, Bears(t.state), o) => o[2] = t.data
  <2>1. SUFFICES ASSUME NEW o \in all, LastOf(all, Bears(t.state), o)
                 PROVE  o[2] = t.data
    OBVIOUS
  <2>2. CASE event \in KeptEvents
    BY <1>1, <1>3, <1>4, <2>1, <2>2, KindsDiffer DEF LastOf
  <2>3. CASE event \notin KeptEvents
    BY <1>1, <1>3, <1>4, <2>1, <2>3 DEF LastOf, RightNews
  <2> QED
    BY <2>2, <2>3
<1>7. ASSUME Knows(owed, s, v) PROVE Knows(all, t, v)
  <2>1. \A o \in owed : o \in all
    BY DEF all
  <2>2. (\A o \in all : o[1] \notin KeptEvents) => v.state = t.state
    BY <1>1, <1>3, <1>7, <2>1 DEF Knows
  <2>3. (\A o \in all : o[1] \notin Bears(t.state)) => v.data = t.data
    BY <1>1, <1>3, <1>7, <2>1, KindsDiffer DEF Knows
  <2> QED
    BY <2>2, <2>3 DEF Knows
<1> QED
  BY <1>5, <1>6, <1>7 DEF RightNews, all, this, t

\* A new event that is told at once, when there is nothing else to tell.
LEMMA ToldAtOnce ==
  ASSUME NEW s \in LastEvents, NEW v \in Views, NEW event \in Events, NEW n \in Nat
  PROVE  /\ RightNews({}, s)
         /\ Knows({}, s, v) => Knows({}, StateAfter(s, event, n), Told(v, event, n))
<1>1. Knows({}, s, v) => v.state = s.state /\ v.data = s.data
  BY DEF Knows
<1>2. ASSUME v.state = s.state, v.data = s.data
      PROVE  Told(v, event, n).state = StateAfter(s, event, n).state
             /\ Told(v, event, n).data = StateAfter(s, event, n).data
  BY <1>2, StateAfterType, ToldType
<1> QED
  BY <1>1, <1>2 DEF Knows, RightNews

-----------------------------------------------------------------------------
\* One wait less or more.

\* The place in the old sequence of what is at place k now that i is taken out.
Old(k, i) == IF k < i THEN k ELSE k + 1

TakenAway(ws, i, others) ==
  /\ \A k \in DOMAIN others : Old(k, i) \in DOMAIN ws \ {i} /\ others[k] = ws[Old(k, i)]
  /\ \A j \in DOMAIN ws \ {i} : \E k \in DOMAIN others : j = Old(k, i)

PutLast(others, w, ws) ==
  /\ DOMAIN ws = 1 .. Len(others) + 1
  /\ \A k \in 1 .. Len(others) : ws[k] = others[k]
  /\ ws[Len(others) + 1] = w

LEMMA OthersLeft ==
  ASSUME NEW S, NEW ws \in Seq(S), NEW i \in DOMAIN ws
  PROVE  RemoveAt(ws, i) \in Seq(S) /\ TakenAway(ws, i, RemoveAt(ws, i))
<1>1. Len(ws) \in Nat /\ i \in Nat /\ 1 <= i /\ i <= Len(ws)
  BY LenProperties
<1> DEFINE a == SubSeq(ws, 1, i - 1)
           b == SubSeq(ws, i + 1, Len(ws))
<1>2. a \in Seq(S) /\ Len(a) = i - 1 /\ \A j \in 1 .. i - 1 : a[j] = ws[j]
  BY <1>1, SubSeqProperties
<1>3. b \in Seq(S) /\ Len(b) = Len(ws) - i /\ \A j \in 1 .. Len(ws) - i : b[j] = ws[j + i]
  BY <1>1, SubSeqProperties
<1>4. RemoveAt(ws, i) = a \o b
  BY DEF RemoveAt
<1> HIDE DEF a, b
<1>5. a \o b \in Seq(S) /\ Len(a \o b) = Len(a) + Len(b)
  BY <1>2, <1>3, ConcatProperties
<1>6. Len(a \o b) = Len(ws) - 1 /\ DOMAIN (a \o b) = 1 .. Len(ws) - 1 /\ DOMAIN ws = 1 .. Len(ws)
  <2>1. \A n \in Nat : (i - 1) + (n - i) = n - 1
    BY <1>1
  <2> QED
    BY <1>1, <1>2, <1>3, <1>5, <2>1, LenProperties
<1>7. ASSUME NEW k \in 1 .. Len(ws) - 1
      PROVE  Old(k, i) \in DOMAIN ws \ {i} /\ (a \o b)[k] = ws[Old(k, i)]
  <2>1. (a \o b)[k] = IF k <= Len(a) THEN a[k] ELSE b[k - Len(a)]
    BY <1>1, <1>2, <1>3, <1>5, <1>6, ConcatProperties
  <2>2. CASE k < i
    BY <1>1, <1>2, <1>6, <2>1, <2>2 DEF Old
  <2>3. CASE ~(k < i)
    <3>1. k - (i - 1) \in 1 .. Len(ws) - i
      BY <1>1, <2>3
    <3>2. b[k - (i - 1)] = ws[(k - (i - 1)) + i]
      BY <1>3, <3>1
    <3>3. (k - (i - 1)) + i = k + 1 /\ ~(k <= i - 1)
      BY <1>1, <2>3
    <3> QED
      BY <1>1, <1>2, <1>6, <2>1, <2>3, <3>2, <3>3 DEF Old
  <2> QED
    BY <2>2, <2>3
<1>8. ASSUME NEW j \in DOMAIN ws \ {i}
      PROVE  \E k \in 1 .. Len(ws) - 1 : j = Old(k, i)
  <2>1. CASE j < i
    BY <1>1, <1>6, <2>1 DEF Old
  <2>2. CASE ~(j < i)
    <3>1. j - 1 \in 1 .. Len(ws) - 1 /\ j = Old(j - 1, i)
      BY <1>1, <1>6, <2>2 DEF Old
    <3> QED
      BY <3>1
  <2> QED
    BY <2>1, <2>2
<1> QED
  BY <1>4, <1>5, <1>6, <1>7, <1>8 DEF TakenAway

LEMMA OneMoreWait ==
  ASSUME NEW S, NEW others \in Seq(S), NEW w \in S
  PROVE  Append(others, w) \in Seq(S) /\ PutLast(others, w, Append(others, w))
  BY AppendProperties DEF PutLast

\* What is taken out leaves the order of the others.
LEMMA OldKeepsOrder ==
  ASSUME NEW i \in Nat, NEW k \in Nat, NEW j \in Nat
  PROVE  /\ Old(k, i) = Old(j, i) => k = j
         /\ Old(k, i) < Old(j, i) => k < j
         /\ k < j => Old(k, i) < Old(j, i)
  BY DEF Old

LEMMA PlacesAreNat == \A ws \in Seq(Wait) : \A k \in DOMAIN ws : k \in Nat /\ ws[k] \in Wait
  BY ElementOfSeq, LenProperties

LEMMA LessIsOwed ==
  ASSUME NEW ws \in Seq(Wait), NEW i \in DOMAIN ws, NEW others \in Seq(Wait), TakenAway(ws, i, others),
         NEW c
  PROVE  /\ c \in ws[i].rest => Owed(ws, c) = Owed(others, c) \union {<<ws[i].event, ws[i].serial>>}
         /\ c \notin ws[i].rest => Owed(ws, c) = Owed(others, c)
         /\ Greeted(others, c) => Greeted(ws, c) \/ (ws[i].event = "snapshot" /\ ws[i].at = c)
<1>1. \A k \in DOMAIN others : Old(k, i) \in DOMAIN ws \ {i} /\ others[k] = ws[Old(k, i)]
  BY DEF TakenAway
<1>2. \A j \in DOMAIN ws : j = i \/ \E k \in DOMAIN others : others[k] = ws[j]
  BY <1>1 DEF TakenAway
<1>3. Owed(others, c) \subseteq Owed(ws, c)
  <2>1. SUFFICES ASSUME NEW k \in DOMAIN others, c \in others[k].rest
                 PROVE  <<others[k].event, others[k].serial>> \in Owed(ws, c)
    BY DEF Owed
  <2>2. Old(k, i) \in DOMAIN ws /\ c \in ws[Old(k, i)].rest /\ others[k] = ws[Old(k, i)]
    BY <1>1, <2>1
  <2> QED
    BY <2>2 DEF Owed
<1>4. ASSUME NEW j \in DOMAIN ws, c \in ws[j].rest, j # i
      PROVE  <<ws[j].event, ws[j].serial>> \in Owed(others, c)
  <2>1. PICK k \in DOMAIN others : others[k] = ws[j]
    BY <1>2, <1>4
  <2> QED
    BY <1>4, <2>1 DEF Owed
<1>5. c \in ws[i].rest => <<ws[i].event, ws[i].serial>> \in Owed(ws, c)
  BY DEF Owed
<1>6. \A o \in Owed(ws, c) : o \in Owed(others, c) \/ (c \in ws[i].rest /\ o = <<ws[i].event, ws[i].serial>>)
  <2>1. SUFFICES ASSUME NEW j \in DOMAIN ws, c \in ws[j].rest
                 PROVE  \/ <<ws[j].event, ws[j].serial>> \in Owed(others, c)
                        \/ c \in ws[i].rest /\ <<ws[j].event, ws[j].serial>> = <<ws[i].event, ws[i].serial>>
    BY DEF Owed
  <2> QED
    BY <1>4, <2>1
<1>7. Greeted(others, c) => Greeted(ws, c) \/ (ws[i].event = "snapshot" /\ ws[i].at = c)
  BY <1>2 DEF Greeted
<1> QED
  BY <1>3, <1>5, <1>6, <1>7

LEMMA LessIsFine ==
  ASSUME NEW ws \in Seq(Wait), NEW i \in DOMAIN ws, NEW others \in Seq(Wait), TakenAway(ws, i, others),
         NEW views, NEW latest
  PROVE  /\ Shaped(ws, latest) => Shaped(others, latest)
         /\ Ordered(ws, views, latest) => Ordered(others, views, latest)
<1>0. i \in Nat /\ \A k \in DOMAIN others : k \in Nat
  BY PlacesAreNat
<1>1. \A k \in DOMAIN others : Old(k, i) \in DOMAIN ws /\ others[k] = ws[Old(k, i)]
  BY DEF TakenAway
<1>2. ASSUME Shaped(ws, latest) PROVE Shaped(others, latest)
  <2>1. AllProper(others, latest)
    BY <1>1, <1>2 DEF Shaped, AllProper
  <2>2. Distinct(others)
    <3>1. SUFFICES ASSUME NEW k \in DOMAIN others, NEW j \in DOMAIN others,
                          others[k].event \in Events, others[j].event \in Events, others[k].serial = others[j].serial
                   PROVE  k = j
      BY DEF Distinct
    <3>2. Old(k, i) = Old(j, i)
      BY <1>1, <1>2, <3>1 DEF Shaped, Distinct
    <3> QED
      BY <1>0, <3>2, OldKeepsOrder
  <2> QED
    BY <2>1, <2>2 DEF Shaped
<1>3. ASSUME Ordered(ws, views, latest) PROVE Ordered(others, views, latest)
  <2>1. StillThere(others) /\ OldestFirst(others, views, latest)
    <3>1. \A x : Owed(others, x) \subseteq Owed(ws, x)
      BY LessIsOwed
    <3> QED
      BY <1>1, <1>3, <3>1 DEF Ordered, StillThere, OldestFirst
  <2>2. Convoy(others)
    <3>1. SUFFICES ASSUME NEW k \in DOMAIN others, NEW j \in DOMAIN others,
                          others[k].rest # {}, others[j].event \in Events, others[k].serial < others[j].serial
                   PROVE  Ahead(others, k, j)
      BY DEF Convoy
    <3>2. Ahead(ws, Old(k, i), Old(j, i))
      BY <1>1, <1>3, <3>1 DEF Ordered, Convoy
    <3>3. Old(k, i) < Old(j, i) => k < j
      BY <1>0, OldKeepsOrder
    <3> QED
      BY <1>1, <3>2, <3>3 DEF Ahead
  <2> QED
    BY <2>1, <2>2 DEF Ordered
<1> QED
  BY <1>2, <1>3

LEMMA MoreIsOwed ==
  ASSUME NEW others \in Seq(Wait), NEW w \in Wait, NEW ws \in Seq(Wait), PutLast(others, w, ws), NEW c
  PROVE  /\ c \in w.rest => Owed(ws, c) = Owed(others, c) \union {<<w.event, w.serial>>}
         /\ c \notin w.rest => Owed(ws, c) = Owed(others, c)
         /\ Greeted(ws, c) => Greeted(others, c) /\ ~(w.event = "snapshot" /\ w.at = c)
<1>1. /\ Len(others) \in Nat /\ DOMAIN others = 1 .. Len(others)
      /\ \A k \in DOMAIN others : k \in DOMAIN ws /\ ws[k] = others[k]
      /\ Len(others) + 1 \in DOMAIN ws /\ ws[Len(others) + 1] = w
      /\ \A k \in DOMAIN ws : k \in DOMAIN others \/ k = Len(others) + 1
  BY LenProperties DEF PutLast
<1>2. Owed(others, c) \subseteq Owed(ws, c)
  BY <1>1 DEF Owed
<1>3. c \in w.rest => <<w.event, w.serial>> \in Owed(ws, c)
  BY <1>1 DEF Owed
<1>4. \A o \in Owed(ws, c) : o \in Owed(others, c) \/ (c \in w.rest /\ o = <<w.event, w.serial>>)
  BY <1>1 DEF Owed
<1>5. Greeted(ws, c) => Greeted(others, c) /\ ~(w.event = "snapshot" /\ w.at = c)
  BY <1>1 DEF Greeted
<1> QED
  BY <1>2, <1>3, <1>4, <1>5

-----------------------------------------------------------------------------
\* A round: from one wait of a broadcast to the next.

Reached(list, others) == {c \in list : \A d \in Holds(list, others) : <<d, c>> \notin ahead}

LostBy(list, dead, others) == dead \union Lost(Reached(list, others))

Waits(event, n, list, dead, by, others, c) ==
  [at |-> c, by |-> by, event |-> event, serial |-> n,
   rest |-> list \ Reached(list, others), dead |-> LostBy(list, dead, others)]

LEMMA Outcome ==
  ASSUME NEW event, NEW n, NEW list, NEW dead, NEW by, NEW others,
         Broadcast(event, n, list, dead, by, others)
  PROVE  /\ seen' = [x \in Clients |-> IF x \in Reached(list, others) /\ conn[x] = "open"
                                          THEN Told(seen[x], event, n) ELSE seen[x]]
         /\ serving' = serving
         /\ \/ /\ Holds(list, others) = {}
               /\ waits' = others
               /\ clients' = clients \ LostBy(list, dead, others)
            \/ \E c \in Holds(list, others) \intersect Reached(list, others) :
                 /\ waits' = Append(others, Waits(event, n, list, dead, by, others, c))
                 /\ clients' = clients
  BY DEF Broadcast, Reached, LostBy, Waits, InTurn, StillServing

\* A round ends at the first client that makes it wait.
LEMMA FirstHeld ==
  ASSUME InOrder, NEW list \in SUBSET Met, NEW others,
         NEW c \in Holds(list, others) \intersect Reached(list, others)
  PROVE  /\ c \in list /\ conn[c] \in {"open", "closing"}
         /\ \A d \in Holds(list, others) : d # c => d \in list \ Reached(list, others)
         /\ \A d \in list \ Reached(list, others) : <<c, d>> \in ahead
<1>1. c \in list /\ conn[c] \in {"open", "closing"}
  BY DEF Holds
<1>2. c \in Met /\ \A d \in Holds(list, others) : d \in list /\ d \in Met
  BY <1>1 DEF Holds
<1>3. \A d \in Holds(list, others) : <<d, c>> \notin ahead
  BY DEF Reached
<1>4. \A d \in Holds(list, others) : d # c => <<c, d>> \in ahead
  BY <1>2, <1>3 DEF InOrder
<1>5. \A d \in Holds(list, others) : d # c => d \in list \ Reached(list, others)
  BY <1>2, <1>4 DEF Reached
<1>6. ASSUME NEW d \in list \ Reached(list, others) PROVE <<c, d>> \in ahead
  <2>1. PICK e \in Holds(list, others) : <<e, d>> \in ahead
    BY DEF Reached
  <2>2. d \in Met /\ e \in Met /\ (e = c \/ <<c, e>> \in ahead)
    BY <1>2, <1>4
  <2> QED
    BY <1>2, <2>1, <2>2 DEF InOrder
<1> QED
  BY <1>1, <1>5, <1>6

\* What may be told is only what it may be.
Handed(event, n, list, dead, by, others, latest) ==
  /\ event \in Events /\ n \in Nat /\ latest \in Nat /\ n <= latest
  /\ list \subseteq Met /\ dead \subseteq Clients /\ by \in Clients \union {Loop}
  /\ \A d \in dead : conn[d] = "closed"
  /\ others \in Seq(Wait) /\ Shaped(others, latest)
  /\ \A k \in DOMAIN others : others[k].event \in Events => others[k].serial # n

LEMMA MetAreClients == Met \subseteq Clients
  BY DEF Met

LEMMA WaitsIsProper ==
  ASSUME InOrder, NEW event, NEW n, NEW list, NEW dead, NEW by, NEW others, NEW latest,
         Handed(event, n, list, dead, by, others, latest),
         NEW c \in Holds(list, others) \intersect Reached(list, others)
  PROVE  /\ Waits(event, n, list, dead, by, others, c) \in Wait
         /\ Proper(Waits(event, n, list, dead, by, others, c), latest)
<1> DEFINE w == Waits(event, n, list, dead, by, others, c)
<1>1. /\ c \in list /\ conn[c] \in {"open", "closing"}
      /\ \A d \in list \ Reached(list, others) : <<c, d>> \in ahead
  BY FirstHeld DEF Handed
<1>2. c \in Met /\ c \in Clients /\ list \subseteq Clients
  BY <1>1, MetAreClients DEF Handed
<1>3. LostBy(list, dead, others) \subseteq Clients /\ \A d \in LostBy(list, dead, others) : conn[d] = "closed"
  BY <1>2 DEF LostBy, Lost, Reached, Handed
<1>4. w.at = c /\ w.by = by /\ w.event = event /\ w.serial = n /\ w.rest = list \ Reached(list, others)
      /\ w.dead = LostBy(list, dead, others)
  BY DEF Waits
<1>5. w \in Wait
  BY <1>2, <1>3 DEF Waits, Wait, Handed
<1> HIDE DEF w
<1>6. Proper(w, latest)
  BY <1>1, <1>2, <1>3, <1>4 DEF Proper, Handed
<1> QED
  BY <1>5, <1>6 DEF w

LEMMA RoundIsShaped ==
  ASSUME InOrder, NEW event, NEW n, NEW list, NEW dead, NEW by, NEW others, NEW latest,
         Handed(event, n, list, dead, by, others, latest),
         Broadcast(event, n, list, dead, by, others)
  PROVE  /\ waits' \in Seq(Wait) /\ Shaped(waits', latest)
         /\ serving' = serving /\ clients' \subseteq clients
         /\ \A c \in clients : conn[c] # "closed" => c \in clients'
<1>1. CASE Holds(list, others) = {} /\ waits' = others /\ clients' = clients \ LostBy(list, dead, others)
  <2>1. \A d \in LostBy(list, dead, others) : conn[d] = "closed"
    BY DEF LostBy, Lost, Handed
  <2> QED
    BY <1>1, <2>1, Outcome DEF Handed
<1>2. ASSUME NEW c \in Holds(list, others) \intersect Reached(list, others),
             waits' = Append(others, Waits(event, n, list, dead, by, others, c)), clients' = clients
      PROVE  waits' \in Seq(Wait) /\ Shaped(waits', latest)
  <2> DEFINE w == Waits(event, n, list, dead, by, others, c)
  <2>1. w \in Wait /\ Proper(w, latest)
    BY WaitsIsProper
  <2>2. w.serial = n
    BY DEF Waits
  <2> HIDE DEF w
  <2>3. others \in Seq(Wait)
    BY DEF Handed
  <2>4. waits' \in Seq(Wait) /\ PutLast(others, w, waits')
    BY <1>2, <2>1, <2>3, OneMoreWait DEF w
  <2>5. /\ DOMAIN others = 1 .. Len(others) /\ Len(others) \in Nat
        /\ \A k \in DOMAIN waits' : (k \in DOMAIN others /\ waits'[k] = others[k]) \/ (k = Len(others) + 1 /\ waits'[k] = w)
    BY <2>3, <2>4, LenProperties DEF PutLast
  <2>6. AllProper(waits', latest)
    BY <2>1, <2>5 DEF AllProper, Handed, Shaped
  <2>7. Distinct(waits')
    BY <2>2, <2>5 DEF Distinct, Handed, Shaped
  <2> QED
    BY <2>4, <2>6, <2>7 DEF Shaped
<1> QED
  BY <1>1, <1>2, Outcome

\* A broadcast goes on in its turn: the older ones are ahead of it, and it is
\* ahead of the younger ones.
InTime(n, list, others) ==
  /\ \A k \in DOMAIN others :
       list # {} /\ others[k].rest # {} /\ others[k].serial < n =>
         others[k].at \in list /\ \A x \in others[k].rest : conn[x] # "closed" => x \in list
  /\ \A j \in DOMAIN others :
       others[j].event \in Events /\ n < others[j].serial =>
         \A x \in list : conn[x] # "closed" => x \in others[j].rest

LEMMA OlderAreHeld ==
  ASSUME ApiTypeOK, NEW event, NEW n, NEW list, NEW dead, NEW by, NEW others, NEW latest,
         Handed(event, n, list, dead, by, others, latest),
         StillThere(others), InTime(n, list, others),
         NEW k \in DOMAIN others, list # {}, others[k].rest # {}, others[k].serial < n
  PROVE  others[k].at \in Holds(list, others)
<1>1. others[k].at \in list /\ conn[others[k].at] # "closed"
  BY DEF InTime, StillThere
<1>2. others[k].at \in Met
  BY <1>1 DEF Handed
<1>3. conn[others[k].at] \in {"open", "closing"}
  BY <1>1, <1>2 DEF Met, ApiTypeOK
<1> QED
  BY <1>1, <1>3 DEF Holds

\* A client that is reached is owed nothing older.
LEMMA NoneOvertaken ==
  ASSUME ApiTypeOK, NEW event, NEW n, NEW list, NEW dead, NEW by, NEW others, NEW latest,
         Handed(event, n, list, dead, by, others, latest),
         StillThere(others), InTime(n, list, others),
         NEW x \in Reached(list, others), NEW k \in DOMAIN others, x \in others[k].rest
  PROVE  n < others[k].serial
<1>1. others[k].event \in Events /\ <<others[k].at, x>> \in ahead
  BY DEF Handed, Shaped, AllProper, Proper
<1>2. others[k].serial # n /\ n \in Nat /\ others[k].serial \in Nat /\ x \in list
  BY <1>1, PlacesAreNat DEF Handed, Wait, Reached
<1>3. CASE others[k].serial < n
  <2>1. others[k].at \in Holds(list, others)
    BY <1>2, <1>3, OlderAreHeld
  <2> QED
    BY <1>1, <2>1 DEF Reached
<1> QED
  BY <1>2, <1>3

LEMMA RoundIsOrdered ==
  ASSUME ApiTypeOK, InOrder, NEW event, NEW n, NEW list, NEW dead, NEW by, NEW others, NEW latest,
         Handed(event, n, list, dead, by, others, latest),
         StillThere(others), Convoy(others), InTime(n, list, others),
         Broadcast(event, n, list, dead, by, others)
  PROVE  StillThere(waits') /\ Convoy(waits')
<1>1. ASSUME NEW c \in Holds(list, others) \intersect Reached(list, others),
             waits' = Append(others, Waits(event, n, list, dead, by, others, c))
      PROVE  StillThere(waits') /\ Convoy(waits')
  <2> DEFINE w == Waits(event, n, list, dead, by, others, c)
  <2>1. w \in Wait
    BY WaitsIsProper
  <2>2. w.at = c /\ w.serial = n /\ w.event = event /\ w.rest = list \ Reached(list, others)
    BY DEF Waits
  <2> HIDE DEF w
  <2>3. others \in Seq(Wait) /\ n \in Nat
    BY DEF Handed
  <2>4. PutLast(others, w, waits')
    BY <1>1, <2>1, <2>3, OneMoreWait DEF w
  <2>5. /\ DOMAIN others = 1 .. Len(others) /\ Len(others) \in Nat
        /\ \A k \in DOMAIN waits' : (k \in DOMAIN others /\ waits'[k] = others[k]) \/ (k = Len(others) + 1 /\ waits'[k] = w)
    BY <2>3, <2>4, LenProperties DEF PutLast
  <2>6. c \in list /\ conn[c] \in {"open", "closing"}
        /\ \A d \in Holds(list, others) : d # c => d \in list \ Reached(list, others)
    BY FirstHeld DEF Handed
  <2>7. StillThere(waits')
    BY <2>2, <2>5, <2>6 DEF StillThere
  <2>8. Convoy(waits')
    <3>1. SUFFICES ASSUME NEW k \in DOMAIN waits', NEW j \in DOMAIN waits',
                          waits'[k].rest # {}, waits'[j].event \in Events, waits'[k].serial < waits'[j].serial
                   PROVE  Ahead(waits', k, j)
      BY DEF Convoy
    <3>2. CASE k \in DOMAIN others /\ waits'[k] = others[k] /\ j \in DOMAIN others /\ waits'[j] = others[j]
      BY <3>1, <3>2 DEF Convoy, Ahead
    <3>3. CASE k \in DOMAIN others /\ waits'[k] = others[k] /\ j = Len(others) + 1 /\ waits'[j] = w
      <4>1. others[k].rest # {} /\ others[k].serial < n /\ list # {}
        BY <2>2, <2>6, <3>1, <3>3
      <4>2. others[k].at \in Holds(list, others)
        BY <4>1, <3>3, OlderAreHeld
      <4>3. (others[k].at = w.at /\ k < j) \/ others[k].at \in w.rest
        BY <2>2, <2>5, <2>6, <3>3, <4>2
      <4>4. ASSUME NEW x \in others[k].rest, conn[x] # "closed" PROVE x \in w.rest
        <5>1. x \in list
          BY <3>3, <4>1, <4>4 DEF InTime
        <5>2. others[k].serial \in Nat
          BY <2>3, <3>3, PlacesAreNat DEF Wait
        <5>3. x \notin Reached(list, others)
          BY <2>3, <3>3, <4>1, <4>4, <5>2, NoneOvertaken
        <5> QED
          BY <2>2, <5>1, <5>3
      <4> QED
        BY <3>3, <4>3, <4>4 DEF Ahead
    <3>4. CASE k = Len(others) + 1 /\ waits'[k] = w /\ j \in DOMAIN others /\ waits'[j] = others[j]
      <4>1. \A x \in list : conn[x] # "closed" => x \in others[j].rest
        BY <2>2, <3>1, <3>4 DEF InTime
      <4> QED
        BY <2>2, <2>6, <3>4, <4>1 DEF Ahead
    <3>5. CASE waits'[k] = w /\ waits'[j] = w
      BY <2>2, <2>3, <3>1, <3>5
    <3> QED
      BY <2>5, <3>2, <3>3, <3>4, <3>5
  <2> QED
    BY <2>7, <2>8
<1> QED
  BY <1>1, Outcome

\* Of each client that is connected: it was told the event, or will be.
Turned(x, event, n, list, others) ==
  \/ /\ x \in list /\ \A o \in Owed(others, x) : n < o[2]
     /\ Owed(waits', x) = Owed(others, x) /\ seen'[x] = Told(seen[x], event, n)
  \/ /\ x \in list
     /\ Owed(waits', x) = Owed(others, x) \union {<<event, n>>} /\ seen'[x] = seen[x]
  \/ /\ x \notin list
     /\ Owed(waits', x) = Owed(others, x) /\ seen'[x] = seen[x]

LEMMA RoundTurns ==
  ASSUME ApiTypeOK, InOrder, NEW event, NEW n, NEW list, NEW dead, NEW by, NEW others, NEW latest,
         Handed(event, n, list, dead, by, others, latest),
         StillThere(others), InTime(n, list, others),
         Broadcast(event, n, list, dead, by, others),
         NEW x \in Clients, conn[x] = "open"
  PROVE  Turned(x, event, n, list, others) /\ (Greeted(waits', x) => Greeted(others, x))
<1>1. x \in Reached(list, others) => \A o \in Owed(others, x) : n < o[2]
  BY NoneOvertaken DEF Owed
<1>2. seen'[x] = IF x \in Reached(list, others) THEN Told(seen[x], event, n) ELSE seen[x]
  BY Outcome
<1>3. Reached(list, others) \subseteq list
  BY DEF Reached
<1>4. CASE Holds(list, others) = {} /\ waits' = others
  <2>1. Reached(list, others) = list
    BY <1>4 DEF Reached
  <2> QED
    BY <1>1, <1>2, <1>4, <2>1 DEF Turned
<1>5. ASSUME NEW c \in Holds(list, others) \intersect Reached(list, others),
             waits' = Append(others, Waits(event, n, list, dead, by, others, c))
      PROVE  Turned(x, event, n, list, others) /\ (Greeted(waits', x) => Greeted(others, x))
  <2> DEFINE w == Waits(event, n, list, dead, by, others, c)
  <2>1. w \in Wait
    BY WaitsIsProper
  <2>2. w.serial = n /\ w.event = event /\ w.rest = list \ Reached(list, others)
    BY DEF Waits
  <2> HIDE DEF w
  <2>3. others \in Seq(Wait)
    BY DEF Handed
  <2>4. waits' \in Seq(Wait) /\ PutLast(others, w, waits')
    BY <1>5, <2>1, <2>3, OneMoreWait DEF w
  <2>5. /\ x \in w.rest => Owed(waits', x) = Owed(others, x) \union {<<event, n>>}
        /\ x \notin w.rest => Owed(waits', x) = Owed(others, x)
        /\ Greeted(waits', x) => Greeted(others, x)
    BY <2>1, <2>2, <2>3, <2>4, MoreIsOwed
  <2> QED
    BY <1>1, <1>2, <1>3, <2>2, <2>5 DEF Turned
<1> QED
  BY <1>4, <1>5, Outcome

LEMMA OwedTypes ==
  ASSUME NEW ws \in Seq(Wait), NEW latest, Shaped(ws, latest), NEW x
  PROVE  /\ Owed(ws, x) \in SUBSET (Events \X Nat)
         /\ \A o \in Owed(ws, x) : o[2] <= latest
<1>1. \A k \in DOMAIN ws : /\ ws[k].serial \in Nat
                           /\ x \in ws[k].rest => ws[k].event \in Events /\ ws[k].serial <= latest
  BY PlacesAreNat DEF Wait, Shaped, AllProper, Proper
<1> QED
  BY <1>1 DEF Owed

LEMMA TypesOf ==
  ASSUME ApiTypeOK
  PROVE  /\ seen \in [Clients -> Views] /\ currentState \in LastEvents /\ waits \in Seq(Wait) /\ serial \in Nat
         /\ \A x \in Clients : seen[x] \in Views /\ seen[x].last \in Nat
  BY DEF ApiTypeOK, Views, LastEvents

LEMMA RoundIsOldestFirst ==
  ASSUME ApiTypeOK, InOrder, NEW event, NEW n, NEW list, NEW dead, NEW by, NEW others, NEW latest,
         Handed(event, n, list, dead, by, others, latest),
         StillThere(others), InTime(n, list, others),
         OldestFirst(others, seen, latest),
         \A x \in list : conn[x] = "open" => seen[x].last < n,
         Broadcast(event, n, list, dead, by, others)
  PROVE  OldestFirst(waits', seen', latest)
<1>1. n \in Nat /\ n <= latest /\ event \in Events
  BY DEF Handed
<1>2. ASSUME NEW x \in Clients, conn[x] = "open"
      PROVE  seen'[x].last <= latest /\ \A o \in Owed(waits', x) : seen'[x].last < o[2]
  <2>1. Turned(x, event, n, list, others)
    BY <1>2, RoundTurns
  <2>2. seen[x].last <= latest /\ \A o \in Owed(others, x) : seen[x].last < o[2]
    BY <1>2 DEF OldestFirst
  <2>3. Told(seen[x], event, n).last = n
    BY <1>1, TypesOf, ToldType
  <2>4. <<event, n>>[2] = n
    OBVIOUS
  <2> QED
    BY <1>1, <1>2, <2>1, <2>2, <2>3, <2>4 DEF Turned
<1>3. ASSUME NEW x \in Clients, conn[x] # "open"
      PROVE  seen'[x].last <= latest
  <2>1. seen'[x] = seen[x]
    BY <1>3, Outcome
  <2> QED
    BY <2>1 DEF OldestFirst
<1> QED
  BY <1>2, <1>3 DEF OldestFirst

LEMMA RoundTypes ==
  ASSUME ApiTypeOK, NEW event \in Events, NEW n \in Nat, NEW list, NEW dead, NEW by, NEW others,
         Broadcast(event, n, list, dead, by, others)
  PROVE  seen' \in [Clients -> Views]
  BY Outcome, TypesOf, ToldType

\* While clients and their order stay.
LEMMA SameClients ==
  ASSUME conn' = conn, ahead' = ahead
  PROVE  /\ InOrder => InOrder'
         /\ Shaped(waits', serial') => Shaped(waits, serial)'
         /\ Ordered(waits', seen', serial') => Ordered(waits, seen, serial)'
         /\ WillBeTold(waits', seen', currentState') => WillBeTold(waits, seen, currentState)'
<1>1. Met' = Met
  BY DEF Met
<1>2. InOrder => InOrder'
  BY <1>1 DEF InOrder
<1>3. Shaped(waits', serial') => Shaped(waits, serial)'
  BY <1>1 DEF Shaped, AllProper, Proper, Distinct
<1>4. Ordered(waits', seen', serial') => Ordered(waits, seen, serial)'
  BY DEF Ordered, StillThere, Convoy, Ahead, OldestFirst, Owed
<1>5. WillBeTold(waits', seen', currentState') => WillBeTold(waits, seen, currentState)'
  BY DEF WillBeTold, Greeted, Owed
<1> QED
  BY <1>2, <1>3, <1>4, <1>5

\* What a round leaves is sound if its news is.
RoundDone ==
  /\ waits' \in Seq(Wait) /\ clients' \in SUBSET Clients /\ seen' \in [Clients -> Views] /\ serving' = serving
  /\ Consistent'

LEMMA RoundKeeps ==
  ASSUME ApiInv, NEW event, NEW n, NEW list, NEW dead, NEW by, NEW others,
         Handed(event, n, list, dead, by, others, serial'),
         Broadcast(event, n, list, dead, by, others),
         conn' = conn, ahead' = ahead, disturbed' = disturbed,
         ~disturbed => /\ StillThere(others) /\ Convoy(others) /\ InTime(n, list, others)
                       /\ OldestFirst(others, seen, serial')
                       /\ \A x \in list : conn[x] = "open" => seen[x].last < n
                       /\ WillBeTold(waits', seen', currentState')
  PROVE  RoundDone
<1>1. ApiTypeOK /\ InOrder /\ Listed /\ event \in Events /\ n \in Nat
  BY DEF ApiInv, Consistent, Handed
<1>2. /\ waits' \in Seq(Wait) /\ Shaped(waits', serial')
      /\ serving' = serving /\ clients' \subseteq clients
      /\ \A c \in clients : conn[c] # "closed" => c \in clients'
  BY <1>1, RoundIsShaped
<1>3. seen' \in [Clients -> Views]
  BY <1>1, RoundTypes
<1>4. Listed' /\ clients' \in SUBSET Clients
  <2>1. Met' = Met /\ Met \subseteq Clients
    BY DEF Met
  <2> QED
    BY <1>1, <1>2, <2>1 DEF Listed
<1>5. disturbed \in BOOLEAN
  BY <1>1 DEF ApiTypeOK
<1>6. ~disturbed => Ordered(waits', seen', serial')
  <2>1. ~disturbed => StillThere(waits') /\ Convoy(waits')
    BY <1>1, RoundIsOrdered
  <2>2. ~disturbed => OldestFirst(waits', seen', serial')
    BY <1>1, RoundIsOldestFirst
  <2> QED
    BY <2>1, <2>2 DEF Ordered
<1>7. InOrder' /\ Shaped(waits, serial)'
  BY <1>1, <1>2, SameClients
<1>8. ~disturbed' => Ordered(waits, seen, serial)' /\ WillBeTold(waits, seen, currentState)'
  BY <1>6, SameClients
<1> QED
  BY <1>2, <1>3, <1>4, <1>7, <1>8 DEF RoundDone, Consistent

\* A new event.
LEMMA EmitKeeps ==
  ASSUME ApiInv, NEW event \in Events, NEW by \in Clients \union {Loop}, EmitEvent(event, by),
         conn' = conn, ahead' = ahead, disturbed' = disturbed
  PROVE  RoundDone /\ serial' \in Nat /\ currentState' \in LastEvents
<1> DEFINE n == serial + 1
<1>1. /\ ApiTypeOK /\ InOrder /\ Listed /\ Shaped(waits, serial)
      /\ serial \in Nat /\ currentState \in LastEvents /\ waits \in Seq(Wait)
  BY TypesOf DEF ApiInv, Consistent
<1>2. n \in Nat /\ serial < n /\ n <= n /\ serial <= n
  BY <1>1
<1>3. serial' = n /\ currentState' = StateAfter(currentState, event, n)
      /\ Broadcast(event, n, clients, {}, by, waits)
  BY DEF EmitEvent
<1>4. currentState' \in LastEvents
  BY <1>1, <1>2, <1>3, StateAfterType
<1> HIDE DEF n
<1>5. \A k \in DOMAIN waits : waits[k].serial \in Nat /\ (waits[k].event \in Events => waits[k].serial <= serial)
                             /\ (waits[k].rest # {} => waits[k].event \in Events)
  BY <1>1, PlacesAreNat DEF Shaped, AllProper, Proper, Wait
<1>6. Shaped(waits, n)
  <2>1. \A k \in DOMAIN waits : Proper(waits[k], n)
    BY <1>1, <1>2, <1>5 DEF Shaped, AllProper, Proper
  <2> QED
    BY <1>1, <2>1 DEF Shaped, AllProper
<1>7. Handed(event, n, clients, {}, by, waits, n)
  BY <1>1, <1>2, <1>5, <1>6 DEF Handed, Listed
<1>8. ASSUME ~disturbed
      PROVE  /\ StillThere(waits) /\ Convoy(waits) /\ InTime(n, clients, waits)
             /\ OldestFirst(waits, seen, n)
             /\ \A x \in clients : conn[x] = "open" => seen[x].last < n
             /\ WillBeTold(waits', seen', currentState')
  <2>1. Ordered(waits, seen, serial) /\ WillBeTold(waits, seen, currentState)
    BY <1>8 DEF ApiInv, Consistent
  <2>2. InTime(n, clients, waits)
    <3>1. \A x \in Met : conn[x] # "closed" => x \in clients
      BY <1>1 DEF Listed, Met, ApiTypeOK
    <3>2. \A k \in DOMAIN waits : waits[k].rest # {} => waits[k].at \in clients
      BY <1>1, <2>1, <3>1 DEF Ordered, StillThere, Shaped, AllProper, Proper
    <3>3. \A k \in DOMAIN waits : \A x \in waits[k].rest : conn[x] # "closed" => x \in clients
      BY <1>1, <3>1 DEF Shaped, AllProper, Proper
    <3>4. \A j \in DOMAIN waits : waits[j].event \in Events => ~(n < waits[j].serial)
      BY <1>1, <1>2, <1>5
    <3> QED
      BY <3>2, <3>3, <3>4 DEF InTime
  <2>3. \A x \in Clients : seen[x].last <= serial /\ seen[x].last \in Nat
    BY <1>1, <2>1, TypesOf DEF Ordered, OldestFirst
  <2>4. OldestFirst(waits, seen, n) /\ \A x \in Clients : seen[x].last < n
    BY <1>1, <1>2, <2>1, <2>3 DEF Ordered, OldestFirst
  <2>5. ASSUME NEW x \in Clients, conn[x] = "open"
        PROVE  /\ RightNews(Owed(waits', x), currentState')
               /\ Greeted(waits', x) => Knows(Owed(waits', x), currentState', seen'[x])
    <3>1. Turned(x, event, n, clients, waits) /\ (Greeted(waits', x) => Greeted(waits, x))
      BY <1>1, <1>3, <1>7, <2>1, <2>2, <2>5, RoundTurns DEF Ordered
    <3>2. x \in clients
      BY <1>1, <2>5 DEF Listed
    <3>3. /\ RightNews(Owed(waits, x), currentState)
          /\ Greeted(waits, x) => Knows(Owed(waits, x), currentState, seen[x])
      BY <2>1, <2>5 DEF WillBeTold
    <3>4. Owed(waits, x) \in SUBSET (Events \X Nat) /\ \A o \in Owed(waits, x) : o[2] <= serial
      BY <1>1, OwedTypes
    <3>5. \A o \in Owed(waits, x) : o[2] \in Nat /\ o[2] < n
      BY <1>1, <1>2, <3>4
    <3>6. seen[x] \in Views
      BY <1>1, TypesOf
    <3>7. CASE Owed(waits', x) = Owed(waits, x) \union {<<event, n>>} /\ seen'[x] = seen[x]
      BY <1>1, <1>2, <1>3, <3>1, <3>3, <3>4, <3>5, <3>6, <3>7, OneMore
    <3>8. CASE /\ \A o \in Owed(waits, x) : n < o[2]
               /\ Owed(waits', x) = Owed(waits, x) /\ seen'[x] = Told(seen[x], event, n)
      <4>1. Owed(waits, x) = {}
        BY <1>2, <3>5, <3>8
      <4> QED
        BY <1>1, <1>2, <1>3, <1>4, <3>1, <3>3, <3>6, <3>8, <4>1, ToldAtOnce
    <3> QED
      BY <3>1, <3>2, <3>7, <3>8 DEF Turned
  <2> QED
    BY <1>8, <2>1, <2>2, <2>4, <2>5, <1>1 DEF Ordered, WillBeTold, Listed, Met
<1> QED
  BY <1>1, <1>2, <1>3, <1>4, <1>7, <1>8, RoundKeeps

\* A broadcast goes on when a client it waited for reads again, or is gone.
LEMMA ResumeKeeps ==
  ASSUME ApiInv, NEW i \in DOMAIN waits, MayGoOn(i), waits[i].event \in Events,
         Broadcast(waits[i].event, waits[i].serial, waits[i].rest,
                   waits[i].dead \union Lost({waits[i].at}), waits[i].by, RemoveAt(waits, i)),
         conn' = conn, ahead' = ahead, disturbed' = disturbed,
         serial' = serial, currentState' = currentState
  PROVE  RoundDone
<1> DEFINE w == waits[i]
           others == RemoveAt(waits, i)
           dead == w.dead \union Lost({w.at})
<1>1. /\ ApiTypeOK /\ InOrder /\ Listed /\ Shaped(waits, serial)
      /\ serial \in Nat /\ currentState \in LastEvents /\ waits \in Seq(Wait)
  BY TypesOf DEF ApiInv, Consistent
<1>2. w \in Wait /\ i \in Nat
  BY <1>1, PlacesAreNat
<1>3. others \in Seq(Wait) /\ TakenAway(waits, i, others)
  BY <1>1, OthersLeft
<1>4. Broadcast(w.event, w.serial, w.rest, dead, w.by, others)
  OBVIOUS
<1> HIDE DEF others
<1>5. \A k \in DOMAIN others : Old(k, i) \in DOMAIN waits /\ Old(k, i) # i /\ others[k] = waits[Old(k, i)]
  BY <1>3 DEF TakenAway
<1>6. Shaped(others, serial)
  BY <1>1, <1>3, LessIsFine
<1>7. Proper(w, serial)
  BY <1>1 DEF Shaped, AllProper
<1>8. \A k \in DOMAIN others : others[k].event \in Events => others[k].serial # w.serial
  BY <1>1, <1>5 DEF Shaped, Distinct
<1>9. Handed(w.event, w.serial, w.rest, dead, w.by, others, serial)
  <2>1. /\ w.event \in Events /\ w.serial \in Nat /\ w.serial <= serial /\ w.rest \subseteq Met
        /\ w.by \in Clients \union {Loop} /\ w.dead \subseteq Clients /\ w.at \in Clients
    BY <1>2, <1>7 DEF Wait, Proper
  <2>2. dead \subseteq Clients /\ \A d \in dead : conn[d] = "closed"
    BY <1>7, <2>1 DEF Proper, Lost
  <2> HIDE DEF w, dead
  <2> QED
    BY <1>1, <1>3, <1>6, <1>8, <2>1, <2>2 DEF Handed
<1>10. ASSUME ~disturbed
       PROVE  /\ StillThere(others) /\ Convoy(others) /\ InTime(w.serial, w.rest, others)
              /\ OldestFirst(others, seen, serial)
              /\ \A x \in w.rest : conn[x] = "open" => seen[x].last < w.serial
              /\ WillBeTold(waits', seen', currentState')
  <2>1. Ordered(waits, seen, serial) /\ WillBeTold(waits, seen, currentState)
    BY <1>10 DEF ApiInv, Consistent
  <2>2. Ordered(others, seen, serial)
    BY <1>1, <1>3, <2>1, LessIsFine
  <2>3. InTime(w.serial, w.rest, others)
    <3>1. ASSUME NEW k \in DOMAIN others, w.rest # {}, others[k].rest # {}, others[k].serial < w.serial
          PROVE  others[k].at \in w.rest /\ \A x \in others[k].rest : conn[x] # "closed" => x \in w.rest
      <4>1. Ahead(waits, Old(k, i), i)
        BY <1>5, <2>1, <3>1 DEF Ordered, Convoy
      <4>2. conn[w.at] # "closed"
        BY <2>1, <3>1 DEF Ordered, StillThere
      <4>3. ~(waits[Old(k, i)].at = w.at /\ Old(k, i) < i)
        <5>1. Old(k, i) \in Nat /\ Old(k, i) >= 1
          BY <1>1, <1>5, LenProperties
        <5> QED
          BY <1>2, <4>2, <5>1 DEF MayGoOn
      <4> QED
        BY <1>5, <3>1, <4>1, <4>3 DEF Ahead
    <3>2. ASSUME NEW j \in DOMAIN others, others[j].event \in Events, w.serial < others[j].serial,
                 NEW x \in w.rest, conn[x] # "closed"
          PROVE  x \in others[j].rest
      <4>1. Ahead(waits, i, Old(j, i))
        BY <1>5, <2>1, <3>2 DEF Ordered, Convoy
      <4> QED
        BY <1>5, <3>2, <4>1 DEF Ahead
    <3> QED
      BY <3>1, <3>2 DEF InTime
  <2>4. \A x \in w.rest : x \in Clients /\ Owed(waits, x) = Owed(others, x) \union {<<w.event, w.serial>>}
    <3>1. w.rest \subseteq Clients
      BY <1>2 DEF Wait
    <3>2. ASSUME NEW x \in w.rest
          PROVE  Owed(waits, x) = Owed(others, x) \union {<<w.event, w.serial>>}
      BY <1>1, <1>3, LessIsOwed
    <3> QED
      BY <3>1, <3>2
  <2>5. \A x \in w.rest : conn[x] = "open" => seen[x].last < w.serial
    <3>1. <<w.event, w.serial>>[2] = w.serial
      OBVIOUS
    <3> QED
      BY <2>1, <2>4, <3>1 DEF Ordered, OldestFirst
  <2>6. ASSUME NEW x \in Clients, conn[x] = "open"
        PROVE  /\ RightNews(Owed(waits', x), currentState')
               /\ Greeted(waits', x) => Knows(Owed(waits', x), currentState', seen'[x])
    <3>1. Turned(x, w.event, w.serial, w.rest, others) /\ (Greeted(waits', x) => Greeted(others, x))
      BY <1>1, <1>4, <1>9, <2>2, <2>3, <2>6, RoundTurns DEF Ordered
    <3>2. Greeted(others, x) => Greeted(waits, x)
      <4>1. w.event # "snapshot"
        BY KindsDiffer
      <4> QED
        BY <1>1, <1>3, <4>1, LessIsOwed
    <3>3. /\ RightNews(Owed(waits, x), currentState)
          /\ Greeted(waits, x) => Knows(Owed(waits, x), currentState, seen[x])
      BY <2>1, <2>6 DEF WillBeTold
    <3>4. Owed(others, x) \in SUBSET (Events \X Nat)
      BY <1>3, <1>6, OwedTypes
    <3>5. seen[x] \in Views /\ w.event \in Events /\ w.serial \in Nat
      BY <1>1, <1>2, TypesOf DEF Wait
    <3> HIDE DEF w
    <3>6. CASE /\ x \in w.rest /\ \A o \in Owed(others, x) : w.serial < o[2]
               /\ Owed(waits', x) = Owed(others, x) /\ seen'[x] = Told(seen[x], w.event, w.serial)
      <4> DEFINE later == Owed(others, x)
      <4>1. Owed(waits, x) = later \union {<<w.event, w.serial>>}
        BY <2>4, <3>6
      <4>2. /\ RightNews(later \union {<<w.event, w.serial>>}, currentState)
            /\ Greeted(waits, x) => Knows(later \union {<<w.event, w.serial>>}, currentState, seen[x])
        BY <3>3, <4>1
      <4>3. later \in SUBSET (Events \X Nat) /\ \A o \in later : w.serial < o[2]
        BY <3>4, <3>6
      <4> HIDE DEF later
      <4>4. /\ RightNews(later, currentState)
            /\ Knows(later \union {<<w.event, w.serial>>}, currentState, seen[x])
                 => Knows(later, currentState, Told(seen[x], w.event, w.serial))
        BY <1>1, <3>5, <4>2, <4>3, OneTold, Zenon
      <4> QED
        BY <3>1, <3>2, <3>6, <4>2, <4>4 DEF later
    <3>7. CASE /\ x \in w.rest
               /\ Owed(waits', x) = Owed(others, x) \union {<<w.event, w.serial>>} /\ seen'[x] = seen[x]
      BY <2>4, <3>1, <3>2, <3>3, <3>7
    <3>8. CASE x \notin w.rest /\ Owed(waits', x) = Owed(others, x) /\ seen'[x] = seen[x]
      <4>1. Owed(waits, x) = Owed(others, x)
        BY <1>1, <1>3, <3>8, LessIsOwed DEF w
      <4> QED
        BY <3>1, <3>2, <3>3, <3>8, <4>1
    <3> QED
      BY <3>1, <3>6, <3>7, <3>8 DEF Turned
  <2> QED
    BY <2>2, <2>3, <2>5, <2>6 DEF Ordered, WillBeTold
<1> HIDE DEF w, dead
<1> QED
  BY <1>4, <1>9, <1>10, RoundKeeps DEF Handed

-----------------------------------------------------------------------------
\* Greetings, and what changes no wait.

\* A greeting that waits is owed to nobody.
LEMMA GreetingWaits ==
  ASSUME NEW others \in Seq(Wait), NEW w \in Wait, w.rest = {}, w.event \notin Events,
         NEW ws \in Seq(Wait), PutLast(others, w, ws), NEW views, NEW latest
  PROVE  /\ \A x : Owed(ws, x) = Owed(others, x)
         /\ AllProper(others, latest) /\ Proper(w, latest) => AllProper(ws, latest)
         /\ Distinct(others) => Distinct(ws)
         /\ Ordered(others, views, latest) => Ordered(ws, views, latest)
<1>1. /\ DOMAIN others = 1 .. Len(others) /\ Len(others) \in Nat
      /\ \A k \in DOMAIN ws : (k \in DOMAIN others /\ ws[k] = others[k]) \/ (k = Len(others) + 1 /\ ws[k] = w)
  BY LenProperties DEF PutLast
<1>2. \A x : Owed(ws, x) = Owed(others, x)
  BY MoreIsOwed
<1>3. AllProper(others, latest) /\ Proper(w, latest) => AllProper(ws, latest)
  BY <1>1 DEF AllProper
<1>4. Distinct(others) => Distinct(ws)
  BY <1>1 DEF Distinct
<1>5. StillThere(others) => StillThere(ws)
  BY <1>1 DEF StillThere
<1>6. Convoy(others) => Convoy(ws)
  BY <1>1 DEF Convoy, Ahead
<1>7. OldestFirst(others, views, latest) => OldestFirst(ws, views, latest)
  BY <1>2 DEF OldestFirst
<1> QED
  BY <1>2, <1>3, <1>4, <1>5, <1>6, <1>7 DEF Ordered

LEMMA WaitingType ==
  ASSUME NEW c \in Clients, NEW what \in {"snapshot", "replay"}
  PROVE  /\ Waiting(c, what) \in Wait
         /\ Waiting(c, what).rest = {} /\ Waiting(c, what).dead = {}
         /\ Waiting(c, what).at = c /\ Waiting(c, what).event = what
         /\ Waiting(c, what).event \notin Events
  BY KindsDiffer DEF Waiting, Wait

UpToDate(view) == view.state = currentState.state /\ view.data = currentState.data

LEMMA UpToDateKnows ==
  ASSUME NEW owed, NEW view, UpToDate(view)
  PROVE  Knows(owed, currentState, view)
  BY DEF UpToDate, Knows

LEMMA GreetingKeeps ==
  ASSUME ApiInv, NEW i \in DOMAIN waits, waits[i].event \notin Events,
         \/ waits' = RemoveAt(waits, i)
         \/ waits' = Append(RemoveAt(waits, i), Waiting(waits[i].at, "replay")),
         seen' \in [Clients -> Views],
         \A x \in Clients : seen'[x].last = seen[x].last /\ (seen'[x] = seen[x] \/ UpToDate(seen'[x])),
         waits[i].event = "snapshot" /\ conn[waits[i].at] = "open" => UpToDate(seen'[waits[i].at]),
         UNCHANGED <<conn, ahead, disturbed, serial, currentState, clients>>
  PROVE  waits' \in Seq(Wait) /\ Consistent'
<1> DEFINE others == RemoveAt(waits, i)
           c == waits[i].at
<1>1. /\ ApiTypeOK /\ InOrder /\ Listed /\ Shaped(waits, serial)
      /\ serial \in Nat /\ currentState \in LastEvents /\ waits \in Seq(Wait)
  BY TypesOf DEF ApiInv, Consistent
<1>2. others \in Seq(Wait) /\ TakenAway(waits, i, others)
  BY <1>1, OthersLeft
<1>3. waits[i] \in Wait /\ c \in Clients /\ c \in Met
  BY <1>1, PlacesAreNat DEF Wait, Shaped, AllProper, Proper
<1>4. waits[i].rest = {}
  BY <1>1 DEF Shaped, AllProper, Proper
<1>5. \A x : Owed(waits, x) = Owed(others, x)
               /\ (Greeted(others, x) => Greeted(waits, x) \/ (waits[i].event = "snapshot" /\ c = x))
  BY <1>1, <1>2, <1>4, LessIsOwed
<1>6. Shaped(others, serial)
      /\ (Ordered(waits, seen, serial) => Ordered(others, seen, serial))
  BY <1>1, <1>2, LessIsFine
<1> HIDE DEF others
<1>7. /\ waits' \in Seq(Wait) /\ Shaped(waits', serial)
      /\ (Ordered(others, seen, serial) => Ordered(waits', seen, serial))
      /\ \A x : Owed(waits', x) = Owed(others, x) /\ (Greeted(waits', x) => Greeted(others, x))
  <2>1. CASE waits' = others
    BY <1>2, <1>6, <2>1
  <2>2. CASE waits' = Append(others, Waiting(c, "replay"))
    <3> DEFINE w == Waiting(c, "replay")
    <3>1. /\ w \in Wait /\ w.rest = {} /\ w.event \notin Events
          /\ w.dead = {} /\ w.at = c
      BY <1>3, WaitingType
    <3> HIDE DEF w
    <3>2. Proper(w, serial)
      BY <1>3, <3>1 DEF Proper
    <3>3. waits' \in Seq(Wait) /\ PutLast(others, w, waits')
      BY <1>2, <2>2, <3>1, OneMoreWait DEF w
    <3>4. /\ \A x : Owed(waits', x) = Owed(others, x)
          /\ AllProper(waits', serial) /\ Distinct(waits')
          /\ Ordered(others, seen, serial) => Ordered(waits', seen, serial)
      BY <1>2, <1>6, <3>1, <3>2, <3>3, GreetingWaits DEF Shaped
    <3>5. \A x : Greeted(waits', x) => Greeted(others, x)
      BY <1>2, <3>1, <3>3, MoreIsOwed
    <3> QED
      BY <3>3, <3>4, <3>5 DEF Shaped
  <2> QED
    BY <2>1, <2>2 DEF others
<1>8. InOrder' /\ Listed' /\ Shaped(waits, serial)'
  <2>1. Met' = Met
    BY DEF Met
  <2> QED
    BY <1>1, <1>7, <2>1, SameClients DEF Listed
<1>9. ASSUME ~disturbed
      PROVE  Ordered(waits', seen', serial') /\ WillBeTold(waits', seen', currentState')
  <2>1. Ordered(waits, seen, serial) /\ WillBeTold(waits, seen, currentState)
    BY <1>9 DEF ApiInv, Consistent
  <2>2. Ordered(waits', seen, serial)
    BY <1>6, <1>7, <2>1
  <2>3. Ordered(waits', seen', serial')
    BY <2>2 DEF Ordered, OldestFirst
  <2>4. ASSUME NEW x \in Clients, conn[x] = "open"
        PROVE  /\ RightNews(Owed(waits', x), currentState)
               /\ Greeted(waits', x) => Knows(Owed(waits', x), currentState, seen'[x])
    <3>1. Owed(waits', x) = Owed(waits, x)
          /\ (Greeted(waits', x) => Greeted(waits, x) \/ (waits[i].event = "snapshot" /\ c = x))
      BY <1>5, <1>7
    <3>2. /\ RightNews(Owed(waits, x), currentState)
          /\ Greeted(waits, x) => Knows(Owed(waits, x), currentState, seen[x])
      BY <2>1, <2>4 DEF WillBeTold
    <3>3. CASE UpToDate(seen'[x])
      BY <3>1, <3>2, <3>3, UpToDateKnows
    <3>4. CASE ~UpToDate(seen'[x])
      BY <2>4, <3>1, <3>2, <3>4
    <3> QED
      BY <3>3, <3>4
  <2> QED
    BY <2>3, <2>4 DEF WillBeTold
<1> QED
  BY <1>7, <1>8, <1>9, SameClients DEF Consistent

\* What happens elsewhere.
LEMMA NothingMoves ==
  ASSUME ApiInv, UNCHANGED <<conn, ahead, serial, currentState, waits, seen, disturbed>>,
         clients' \subseteq clients, \A c \in clients : conn[c] # "closed" => c \in clients'
  PROVE  Consistent'
<1>1. Consistent
  BY DEF ApiInv
<1>2. Met' = Met
  BY DEF Met
<1>3. Listed'
  BY <1>1, <1>2 DEF Consistent, Listed
<1>4. /\ Shaped(waits', serial')
      /\ ~disturbed => Ordered(waits', seen', serial') /\ WillBeTold(waits', seen', currentState')
  BY <1>1 DEF Consistent
<1> QED
  BY <1>1, <1>3, <1>4, SameClients DEF Consistent

\* A connection that ends.
LEMMA LeavingKeeps ==
  ASSUME ApiInv, NEW c \in Clients, conn[c] \in {"open", "closing"}, NEW how \in {"closing", "closed"},
         conn' = [conn EXCEPT ![c] = how],
         UNCHANGED <<ahead, serial, currentState, waits, seen, clients>>,
         ~disturbed' => /\ ~disturbed
                        /\ how = "closed" => \A k \in DOMAIN waits : waits[k].at = c => waits[k].rest = {}
  PROVE  Consistent'
<1>1. Consistent /\ ApiTypeOK
  BY DEF ApiInv
<1>2. \A x \in Clients : conn'[x] = IF x = c THEN how ELSE conn[x]
  BY <1>1 DEF ApiTypeOK
<1>0. \A k \in DOMAIN waits : waits[k].at \in Clients /\ waits[k].rest \subseteq Clients /\ waits[k].dead \subseteq Clients
  BY <1>1, PlacesAreNat, TypesOf DEF Wait
<1>3. Met' = Met
  BY <1>2 DEF Met
<1>4. InOrder' /\ Listed'
  BY <1>1, <1>2, <1>3 DEF Consistent, InOrder, Listed
<1>5. Shaped(waits, serial)'
  BY <1>0, <1>1, <1>2, <1>3 DEF Consistent, Shaped, AllProper, Proper, Distinct
<1>6. ASSUME ~disturbed'
      PROVE  Ordered(waits, seen, serial)' /\ WillBeTold(waits, seen, currentState)'
  <2>1. Ordered(waits, seen, serial) /\ WillBeTold(waits, seen, currentState)
    BY <1>1, <1>6 DEF Consistent
  <2>2. StillThere(waits)'
    BY <1>0, <1>2, <1>6, <2>1 DEF Ordered, StillThere
  <2>3. Convoy(waits)'
    BY <1>0, <1>2, <2>1 DEF Ordered, Convoy, Ahead
  <2>4. OldestFirst(waits, seen, serial)' /\ WillBeTold(waits, seen, currentState)'
    BY <1>2, <2>1 DEF Ordered, OldestFirst, WillBeTold, Owed, Greeted
  <2> QED
    BY <2>1, <2>2, <2>3, <2>4 DEF Ordered
<1> QED
  BY <1>4, <1>5, <1>6 DEF Consistent

\* A newcomer takes any place in the order.
LEMMA JoinKeeps ==
  ASSUME ApiInv, NEW c \in Clients, Join(c)
  PROVE  Consistent' /\ waits' \in Seq(Wait) /\ seen' \in [Clients -> Views]
<1>1. /\ ApiTypeOK /\ InOrder /\ Listed /\ Shaped(waits, serial)
      /\ serial \in Nat /\ currentState \in LastEvents /\ waits \in Seq(Wait)
  BY TypesOf DEF ApiInv, Consistent
<1>2. /\ c \notin Met /\ conn[c] = "new" /\ conn' = [conn EXCEPT ![c] = "open"]
      /\ clients' = clients \union {c} /\ ahead' \in Orders(c)
      /\ UNCHANGED <<serial, currentState, disturbed>>
  BY DEF Join, Met
<1>3. \A x \in Clients : conn'[x] = IF x = c THEN "open" ELSE conn[x]
  BY <1>1, <1>2 DEF ApiTypeOK
<1>4. Met' = Met \union {c} /\ Met \subseteq Clients
  BY <1>2, <1>3 DEF Met
<1>5. PICK first \in SUBSET Met :
        /\ ahead' = ahead \union (first \X {c}) \union ({c} \X (Met \ first))
        /\ \A d \in first, e \in Met : <<e, d>> \in ahead => e \in first
  BY <1>2 DEF Orders
<1>6. \A d, e : <<d, e>> \in ahead' <=>
                  \/ <<d, e>> \in ahead
                  \/ d \in first /\ e = c
                  \/ d = c /\ e \in Met /\ e \notin first
  BY <1>5
<1>7. InOrder'
  <2>1. \A d, e : <<d, e>> \in ahead => d \in Met /\ e \in Met /\ d # c /\ e # c
    BY <1>1, <1>2 DEF InOrder
  <2>2. ahead' \subseteq Met' \X Met'
    BY <1>1, <1>4, <1>5 DEF InOrder
  <2>3. \A d \in Met' : <<d, d>> \notin ahead'
    BY <1>1, <1>2, <1>4, <1>6, <2>1 DEF InOrder
  <2>4. ASSUME NEW d \in Met', NEW e \in Met', NEW f \in Met', <<d, e>> \in ahead', <<e, f>> \in ahead'
        PROVE  <<d, f>> \in ahead'
    <3>1. CASE d # c /\ e # c /\ f # c
      BY <1>1, <1>4, <1>6, <2>4, <3>1 DEF InOrder
    <3>2. CASE d = c
      <4>1. e \in Met /\ e \notin first
        BY <1>2, <1>6, <2>1, <2>4, <3>2
      <4>2. <<e, f>> \in ahead
        BY <1>2, <1>6, <2>4, <4>1
      <4> QED
        BY <1>5, <1>6, <2>1, <3>2, <4>1, <4>2
    <3>3. CASE d # c /\ e = c
      <4>1. d \in first /\ d \in Met
        BY <1>6, <2>1, <2>4, <3>3
      <4>2. f \in Met /\ f \notin first
        BY <1>2, <1>6, <2>1, <2>4, <3>3
      <4>3. d # f
        BY <4>1, <4>2
      <4>4. <<d, f>> \in ahead
        BY <1>1, <1>5, <4>1, <4>2, <4>3 DEF InOrder
      <4> QED
        BY <1>6, <4>4
    <3>4. CASE d # c /\ e # c /\ f = c
      <4>1. e \in first /\ <<d, e>> \in ahead
        BY <1>6, <2>1, <2>4, <3>4
      <4>2. d \in first
        BY <1>5, <2>1, <4>1
      <4> QED
        BY <1>6, <3>4, <4>2
    <3> QED
      BY <3>1, <3>2, <3>3, <3>4
  <2>5. \A d, e \in Met' : d = e \/ <<d, e>> \in ahead' \/ <<e, d>> \in ahead'
    BY <1>1, <1>4, <1>6 DEF InOrder
  <2> QED
    BY <2>2, <2>3, <2>4, <2>5 DEF InOrder
<1>8. Listed'
  BY <1>1, <1>2, <1>3, <1>4 DEF Listed
<1>9. Owed(waits, c) = {}
  BY <1>1, <1>2 DEF Owed, Shaped, AllProper, Proper
<1> DEFINE w == Waiting(c, "snapshot")
<1>10. /\ w \in Wait /\ w.rest = {} /\ w.dead = {} /\ w.at = c /\ w.event = "snapshot" /\ w.event \notin Events
  BY WaitingType
<1> HIDE DEF w
<1>11. \/ waits' = waits /\ seen' = [seen EXCEPT ![c] = Replayed(c)]
       \/ waits' = Append(waits, w) /\ seen' = seen
  BY DEF Join, w
<1>12. /\ waits' \in Seq(Wait)
       /\ \A k \in DOMAIN waits' : waits'[k] = w \/ \E j \in DOMAIN waits : waits'[k] = waits[j]
       /\ \A x : Owed(waits', x) = Owed(waits, x) /\ (Greeted(waits', x) => Greeted(waits, x))
       /\ Distinct(waits')
       /\ \A views, latest : Ordered(waits, views, latest) => Ordered(waits', views, latest)
       /\ UpToDate(seen'[c]) \/ ~Greeted(waits', c)
  <2>1. CASE waits' = waits /\ seen' = [seen EXCEPT ![c] = Replayed(c)]
    <3>1. UpToDate(seen'[c])
      BY <1>1, <2>1, TypesOf, ReplayedType DEF UpToDate
    <3> QED
      BY <1>1, <2>1, <3>1 DEF Shaped
  <2>2. CASE waits' = Append(waits, w) /\ seen' = seen
    <3>1. waits' \in Seq(Wait) /\ PutLast(waits, w, waits')
      BY <1>1, <1>10, <2>2, OneMoreWait
    <3>2. \A k \in DOMAIN waits' : waits'[k] = w \/ \E j \in DOMAIN waits : waits'[k] = waits[j]
      BY <1>1, <3>1, LenProperties DEF PutLast
    <3>3. /\ \A x : Owed(waits', x) = Owed(waits, x)
          /\ Distinct(waits')
          /\ \A views, latest : Ordered(waits, views, latest) => Ordered(waits', views, latest)
      BY <1>1, <1>10, <3>1, GreetingWaits DEF Shaped
    <3>4. \A x : Greeted(waits', x) => Greeted(waits, x) /\ ~(w.event = "snapshot" /\ w.at = x)
      BY <1>1, <1>10, <3>1, MoreIsOwed
    <3> QED
      BY <1>10, <3>1, <3>2, <3>3, <3>4
  <2> QED
    BY <1>11, <2>1, <2>2
<1>13. seen' \in [Clients -> Views] /\ \A x \in Clients : seen'[x].last = seen[x].last /\ (x # c => seen'[x] = seen[x])
  BY <1>1, <1>11, TypesOf, ReplayedType
<1>15. Shaped(waits, serial)'
  <2>1. ASSUME NEW v \in Wait, Proper(v, serial) PROVE Proper(v, serial)'
    <3>1. \A d \in v.dead : conn'[d] = "closed"
      BY <1>2, <1>3, <2>1 DEF Proper, Wait
    <3> QED
      BY <1>2, <1>4, <1>6, <2>1, <3>1 DEF Proper
  <2>2. ASSUME NEW v \in Wait, v.rest = {}, v.dead = {}, v.at = c, v.event \notin Events PROVE Proper(v, serial)'
    BY <1>4, <2>2 DEF Proper
  <2>3. \A j \in DOMAIN waits : waits[j] \in Wait /\ Proper(waits[j], serial)
    BY <1>1, PlacesAreNat DEF Shaped, AllProper
  <2>4. ASSUME NEW k \in DOMAIN waits', NEW v, v = waits'[k] PROVE Proper(v, serial)'
    BY <1>10, <1>12, <2>1, <2>2, <2>3, <2>4
  <2>5. AllProper(waits, serial)'
    BY <2>4 DEF AllProper
  <2> QED
    BY <1>12, <2>5 DEF Shaped, Distinct
<1>16. ASSUME ~disturbed'
       PROVE  Ordered(waits, seen, serial)' /\ WillBeTold(waits, seen, currentState)'
  <2>1. Ordered(waits, seen, serial) /\ WillBeTold(waits, seen, currentState)
    BY <1>2, <1>16 DEF ApiInv, Consistent
  <2>2. Ordered(waits', seen, serial)
    BY <1>12, <2>1
  <2>3. \A x \in Clients : (conn'[x] = "closed") = (conn[x] = "closed")
    BY <1>2, <1>3
  <2>4. \A k \in DOMAIN waits' : waits'[k].at \in Clients /\ waits'[k].rest \subseteq Clients
    BY <1>12, PlacesAreNat DEF Wait
  <2>5. StillThere(waits)'
    BY <2>2, <2>3, <2>4 DEF Ordered, StillThere
  <2>6. Convoy(waits)'
    BY <2>2, <2>3, <2>4 DEF Ordered, Convoy, Ahead
  <2>7. ASSUME NEW x \in Clients, conn'[x] = "open"
        PROVE  /\ \A o \in Owed(waits', x) : seen'[x].last < o[2]
               /\ RightNews(Owed(waits', x), currentState)
               /\ Greeted(waits', x) => Knows(Owed(waits', x), currentState, seen'[x])
    <3>1. CASE x = c
      <4>1. Owed(waits', x) = {}
        BY <1>9, <1>12, <3>1
      <4>2. RightNews({}, currentState)
        BY DEF RightNews
      <4> QED
        BY <1>12, <3>1, <4>1, <4>2, UpToDateKnows
    <3>2. CASE x # c
      <4>1. conn[x] = "open"
        BY <1>3, <2>7, <3>2
      <4>2. \A o \in Owed(waits, x) : seen[x].last < o[2]
        BY <2>1, <4>1 DEF Ordered, OldestFirst
      <4>3. /\ RightNews(Owed(waits, x), currentState)
            /\ Greeted(waits, x) => Knows(Owed(waits, x), currentState, seen[x])
        BY <2>1, <4>1 DEF WillBeTold
      <4> QED
        BY <1>12, <1>13, <3>2, <4>2, <4>3
    <3> QED
      BY <3>1, <3>2
  <2>8. \A x \in Clients : seen'[x].last <= serial
    BY <1>13, <2>1 DEF Ordered, OldestFirst
  <2>9. OldestFirst(waits, seen, serial)'
    BY <1>2, <2>7, <2>8 DEF OldestFirst, Owed
  <2>10. WillBeTold(waits, seen, currentState)'
    BY <1>2, <2>7 DEF WillBeTold, Owed, Greeted
  <2> QED
    BY <2>5, <2>6, <2>9, <2>10 DEF Ordered
<1> QED
  BY <1>7, <1>8, <1>12, <1>13, <1>15, <1>16 DEF Consistent

-----------------------------------------------------------------------------
\* Every step.

LEMMA Limits == Emitted \subseteq Events /\ MaxClients \in 1 .. 4
  BY PeripheralApiAssumption

LEMMA ApiInitInv == ApiInit => ApiInv
<1> SUFFICES ASSUME ApiInit PROVE ApiInv
  OBVIOUS
<1>1. ApiTypeOK
  <2>1. <<>> \in Seq(Events) /\ <<>> \in Seq(Wait)
    OBVIOUS
  <2>2. /\ Nothing \in [state : KeptEvents \union {"none"}, data : Nat]
        /\ seen \in [Clients -> [state : KeptEvents \union {"none"}, data : Nat, last : Nat]]
    BY DEF ApiInit, Nothing
  <2>3. conn \in [Clients -> {"new", "open", "closing", "closed"}] /\ inbox \in [Clients -> Nat]
    BY DEF ApiInit
  <2> QED
    <3>1. /\ slow = {} /\ serving = {} /\ clients = {} /\ ahead = {}
          /\ currentState = Nothing /\ serial = 0 /\ commands = 0 /\ stalls = 0
          /\ posted = <<>> /\ waits = <<>> /\ alarm = FALSE /\ disturbed = FALSE
      BY DEF ApiInit
    <3>2. {serial, commands, stalls} \subseteq Nat /\ {alarm, disturbed} \subseteq BOOLEAN
      <4>1. {serial, commands, stalls} \subseteq Nat
        BY <3>1
      <4>2. alarm \in BOOLEAN /\ disturbed \in BOOLEAN
        BY <3>1, Zenon
      <4>3. {alarm, disturbed} \subseteq BOOLEAN
        BY <4>2, Zenon
      <4> QED
        BY <4>1, <4>3
    <3>3. posted \in Seq(Events) /\ waits \in Seq(Wait)
      BY <2>1, <3>1, Zenon
    <3>4. slow \subseteq Clients /\ serving \subseteq Clients
          /\ clients \subseteq Clients /\ ahead \subseteq Clients \X Clients
      BY <3>1
    <3>5. currentState \in [state : KeptEvents \union {"none"}, data : Nat]
      BY <2>2, <3>1, Zenon
    <3> QED
      BY <2>2, <2>3, <3>2, <3>3, <3>4, <3>5, Zenon DEF ApiTypeOK
<1>2. Met = {} /\ waits = <<>> /\ DOMAIN waits = {}
  BY DEF ApiInit, Met
<1>3. InOrder /\ Listed
  BY <1>2 DEF ApiInit, InOrder, Listed
<1>4. Shaped(waits, serial) /\ StillThere(waits) /\ Convoy(waits)
  BY <1>2 DEF Shaped, AllProper, Distinct, StillThere, Convoy
<1>5. OldestFirst(waits, seen, serial) /\ WillBeTold(waits, seen, currentState)
  BY DEF ApiInit, OldestFirst, WillBeTold
<1> QED
  BY <1>1, <1>3, <1>4, <1>5 DEF ApiInv, Consistent, Ordered

\* The types of what a step does not leave to the lemmas above.
Untyped ==
  /\ conn \in [Clients -> {"new", "open", "closing", "closed"}]
  /\ slow \subseteq Clients /\ serving \subseteq Clients
  /\ inbox \in [Clients -> Nat]
  /\ {serial, commands, stalls} \subseteq Nat
  /\ posted \in Seq(Events)
  /\ {alarm, disturbed} \subseteq BOOLEAN

LEMMA TypesTogether ==
  ASSUME Untyped', Consistent', waits' \in Seq(Wait), seen' \in [Clients -> Views], currentState' \in LastEvents
  PROVE  ApiInv'
<1>1. Met' \subseteq Clients
  BY DEF Met
<1>2. clients' \subseteq Clients /\ ahead' \subseteq Clients \X Clients
  BY <1>1 DEF Consistent, Listed, InOrder
<1> QED
  BY <1>2 DEF Untyped, ApiInv, ApiTypeOK, Views, LastEvents

LEMMA ElsewhereStep ==
  ASSUME ApiInv, Untyped', UNCHANGED <<conn, ahead, serial, currentState, waits, seen, disturbed, clients>>
  PROVE  ApiInv'
<1>1. Consistent'
  BY NothingMoves
<1> QED
  BY <1>1, TypesOf, TypesTogether DEF ApiInv

LEMMA PostStep == ASSUME ApiInv, NEW event \in Emitted, Post(event) PROVE ApiInv'
<1>1. event \in Events
  BY Limits
<1>2. posted' \in Seq(Events)
  BY <1>1, AppendProperties DEF ApiInv, ApiTypeOK, Post
<1>3. Untyped'
  BY <1>2 DEF ApiInv, ApiTypeOK, Post, Untyped
<1> QED
  BY <1>3, ElsewhereStep DEF Post

LEMMA RunPostedStep == ASSUME ApiInv, RunPosted PROVE ApiInv'
<1>1. Head(posted) \in Events /\ posted' \in Seq(Events)
  BY HeadTailProperties DEF ApiInv, ApiTypeOK, RunPosted
<1>2. RoundDone /\ serial' \in Nat /\ currentState' \in LastEvents
  BY <1>1, EmitKeeps DEF RunPosted
<1>3. Untyped'
  BY <1>1, <1>2 DEF ApiInv, ApiTypeOK, RunPosted, RoundDone, Untyped
<1> QED
  BY <1>2, <1>3, TypesTogether DEF RoundDone

LEMMA ResumeStep == ASSUME ApiInv, NEW i \in DOMAIN waits, Resume(i) PROVE ApiInv'
<1> DEFINE w == waits[i]
           c == w.at
           others == RemoveAt(waits, i)
<1>1. /\ w \in Wait /\ c \in Clients /\ waits \in Seq(Wait) /\ seen \in [Clients -> Views] /\ currentState \in LastEvents
      /\ MayGoOn(i)
      /\ UNCHANGED <<conn, slow, ahead, inbox, currentState, serial, posted, alarm, commands, stalls, disturbed>>
  BY TypesOf, PlacesAreNat DEF ApiInv, Resume, Wait
<1>2. CASE /\ w.event \in Events
           /\ Broadcast(w.event, w.serial, w.rest, w.dead \union Lost({c}), w.by, others)
  <2>1. RoundDone
    BY <1>1, <1>2, ResumeKeeps
  <2>2. Untyped'
    BY <1>1, <2>1 DEF ApiInv, ApiTypeOK, RoundDone, Untyped
  <2> QED
    BY <1>1, <2>1, <2>2, TypesTogether DEF RoundDone
<1>3. CASE /\ w.event = "snapshot" /\ conn[c] = "open"
           /\ seen' = [seen EXCEPT ![c] = Replayed(c)]
           /\ waits' = IF Holds({c}, others) = {} THEN others ELSE Append(others, Waiting(c, "replay"))
           /\ UNCHANGED <<clients, serving>>
  <2>1. Untyped'
    BY <1>1, <1>3 DEF ApiInv, ApiTypeOK, Untyped
  <2>2. Replayed(c) \in Views /\ UpToDate(Replayed(c)) /\ Replayed(c).last = seen[c].last
    BY <1>1, ReplayedType DEF ApiInv, UpToDate
  <2>3. /\ seen' \in [Clients -> Views] /\ seen'[c] = Replayed(c)
        /\ \A x \in Clients : seen'[x].last = seen[x].last /\ (seen'[x] = seen[x] \/ UpToDate(seen'[x]))
    BY <1>1, <1>3, <2>2
  <2>4. waits' = others \/ waits' = Append(others, Waiting(c, "replay"))
    BY <1>3
  <2>5. waits' \in Seq(Wait) /\ Consistent'
    BY <1>1, <1>3, <2>2, <2>3, <2>4, KindsDiffer, GreetingKeeps
  <2> QED
    BY <1>1, <2>1, <2>3, <2>5, TypesTogether
<1>4. CASE /\ w.event = "replay" \/ (w.event = "snapshot" /\ conn[c] = "closed")
           /\ waits' = others
           /\ UNCHANGED <<seen, clients, serving>>
  <2>1. Untyped'
    BY <1>1, <1>4 DEF ApiInv, ApiTypeOK, Untyped
  <2>2. waits' \in Seq(Wait) /\ Consistent'
    BY <1>1, <1>4, KindsDiffer, GreetingKeeps
  <2> QED
    BY <1>1, <1>4, <2>1, <2>2, TypesTogether
<1> QED
  BY <1>2, <1>3, <1>4 DEF Resume

LEMMA JoinStep == ASSUME ApiInv, NEW c \in Clients, Join(c) PROVE ApiInv'
<1>1. Untyped'
  BY DEF ApiInv, ApiTypeOK, Join, Untyped
<1>2. currentState' \in LastEvents
  BY TypesOf DEF ApiInv, Join
<1> QED
  BY <1>1, <1>2, JoinKeeps, TypesTogether

LEMMA DispatchStep == ASSUME ApiInv, NEW c \in Clients, Dispatch(c) PROVE ApiInv'
<1>1. /\ inbox' \in [Clients -> Nat]
      /\ UNCHANGED <<conn, slow, ahead, commands, stalls, disturbed>>
  BY DEF ApiInv, ApiTypeOK, Dispatch
<1>2. CASE alarm' = FALSE /\ EmitEvent("idle", c) /\ UNCHANGED posted
  <2>1. RoundDone /\ serial' \in Nat /\ currentState' \in LastEvents
    BY <1>1, <1>2, KindsDiffer, EmitKeeps
  <2>2. Untyped'
    BY <1>1, <1>2, <2>1 DEF ApiInv, ApiTypeOK, RoundDone, Untyped
  <2> QED
    BY <2>1, <2>2, TypesTogether DEF RoundDone
<1>3. CASE posted' = Append(posted, "idle") /\ UNCHANGED <<alarm, serial, currentState, seen, serving, waits, clients>>
  <2>1. posted' \in Seq(Events)
    BY <1>3, KindsDiffer, AppendProperties DEF ApiInv, ApiTypeOK
  <2>2. Untyped'
    BY <1>1, <1>3, <2>1 DEF ApiInv, ApiTypeOK, Untyped
  <2> QED
    BY <1>1, <1>3, <2>2, ElsewhereStep
<1>4. CASE UNCHANGED <<alarm, posted, serial, currentState, seen, serving, waits, clients>>
  <2>1. Untyped'
    BY <1>1, <1>4 DEF ApiInv, ApiTypeOK, Untyped
  <2> QED
    BY <1>1, <1>4, <2>1, ElsewhereStep
<1> QED
  BY <1>2, <1>3, <1>4 DEF Dispatch

LEMMA HandlerEndsStep == ASSUME ApiInv, NEW c \in Clients, HandlerEnds(c) PROVE ApiInv'
<1>1. Untyped'
  BY DEF ApiInv, ApiTypeOK, HandlerEnds, Untyped
<1>2. Consistent'
  BY NothingMoves DEF HandlerEnds
<1> QED
  BY <1>1, <1>2, TypesOf, TypesTogether DEF ApiInv, HandlerEnds

LEMMA ClientStep ==
  ASSUME ApiInv, NEW c \in Clients, SendCommand(c) \/ Stall(c) \/ Read(c)
  PROVE  ApiInv'
<1>1. CASE SendCommand(c)
  <2>1. Untyped'
    BY <1>1 DEF ApiInv, ApiTypeOK, SendCommand, Untyped
  <2> QED
    BY <1>1, <2>1, ElsewhereStep DEF SendCommand
<1>2. CASE Stall(c)
  <2>1. Untyped'
    BY <1>2 DEF ApiInv, ApiTypeOK, Stall, Untyped
  <2> QED
    BY <1>2, <2>1, ElsewhereStep DEF Stall
<1>3. CASE Read(c)
  <2>1. Untyped'
    BY <1>3 DEF ApiInv, ApiTypeOK, Read, Untyped
  <2> QED
    BY <1>3, <2>1, ElsewhereStep DEF Read
<1> QED
  BY <1>1, <1>2, <1>3

LEMMA CloseStep == ASSUME ApiInv, NEW c \in Clients, Close(c) PROVE ApiInv'
<1>1. Untyped'
  BY DEF ApiInv, ApiTypeOK, Close, Untyped
<1>2. Consistent'
  BY LeavingKeeps DEF Close
<1> QED
  BY <1>1, <1>2, TypesOf, TypesTogether DEF ApiInv, Close

LEMMA ClosedStep == ASSUME ApiInv, NEW c \in Clients, Closed(c) PROVE ApiInv'
<1>1. /\ conn[c] \in {"open", "closing"} /\ conn' = [conn EXCEPT ![c] = "closed"]
      /\ disturbed' = (disturbed \/ \E i \in DOMAIN waits : waits[i].at = c /\ waits[i].rest # {})
      /\ UNCHANGED <<slow, clients, ahead, serving, inbox, currentState, serial, posted, waits, alarm, commands, stalls, seen>>
  BY DEF Closed
<1>2. disturbed' \in BOOLEAN
  BY <1>1
<1>3. Untyped'
  BY <1>1, <1>2 DEF ApiInv, ApiTypeOK, Untyped
<1>4. ~disturbed' => ~disturbed /\ \A k \in DOMAIN waits : waits[k].at = c => waits[k].rest = {}
  BY <1>1
<1>5. Consistent'
  BY <1>1, <1>4, LeavingKeeps
<1> QED
  BY <1>1, <1>3, <1>5, TypesOf, TypesTogether DEF ApiInv

LEMMA ApiStepInv == ApiInv /\ [ApiNext]_apiVars => ApiInv'
<1> SUFFICES ASSUME ApiInv, [ApiNext]_apiVars PROVE ApiInv'
  OBVIOUS
<1>1. CASE UNCHANGED apiVars
  <2>1. Untyped'
    BY <1>1 DEF apiVars, ApiInv, ApiTypeOK, Untyped
  <2> QED
    BY <1>1, <2>1, ElsewhereStep DEF apiVars
<1>2. CASE \E event \in Emitted : Post(event)
  BY <1>2, PostStep
<1>3. CASE RunPosted
  BY <1>3, RunPostedStep
<1>4. CASE \E i \in DOMAIN waits : Resume(i)
  BY <1>4, ResumeStep
<1>5. ASSUME NEW c \in Clients,
             Join(c) \/ Dispatch(c) \/ HandlerEnds(c) \/ SendCommand(c) \/ Stall(c) \/ Read(c) \/ Close(c) \/ Closed(c)
      PROVE  ApiInv'
  BY <1>5, JoinStep, DispatchStep, HandlerEndsStep, ClientStep, CloseStep, ClosedStep
<1> QED
  BY <1>1, <1>2, <1>3, <1>4, <1>5 DEF ApiNext

\* Everything together, which alone is inductive.
THEOREM ApiAlways == ApiSpec => []ApiInv
  BY ApiInitInv, ApiStepInv, PTL DEF ApiSpec

\* The types of the server's state, for any number of clients and events.
THEOREM ApiTypesAlways == ApiSpec => []ApiTypeOK
<1>1. ApiInv => ApiTypeOK
  BY DEF ApiInv
<1> QED
  BY <1>1, ApiAlways, PTL

\* Whoever is connected was told the current state, whenever it came and however
\* broadcasts waited for each other (emit_event, _handle_client).
THEOREM PictureAlwaysCurrent == ApiSpec => []PictureIsCurrent
<1>1. ApiInv => PictureIsCurrent
  <2> SUFFICES ASSUME ApiInv, waits = <<>>, ~disturbed, NEW c \in clients, conn[c] = "open"
               PROVE  seen[c].state = currentState.state /\ seen[c].data = currentState.data
    BY DEF PictureIsCurrent
  <2>1. c \in Clients
    BY DEF ApiInv, ApiTypeOK
  <2>2. DOMAIN waits = {}
    OBVIOUS
  <2>3. Owed(waits, c) = {} /\ Greeted(waits, c)
    BY <2>2 DEF Owed, Greeted
  <2>4. Knows({}, currentState, seen[c])
    BY <2>1, <2>3 DEF ApiInv, Consistent, WillBeTold
  <2> QED
    BY <2>4 DEF Knows
<1> QED
  BY <1>1, ApiAlways, PTL

LEMMA RoundGoesForward ==
  ASSUME ApiTypeOK, NEW event \in Events, NEW n \in Nat, NEW list, NEW dead, NEW by, NEW others,
         Broadcast(event, n, list, dead, by, others),
         \A x \in list : x \in Clients /\ conn[x] = "open" => seen[x].last <= n
  PROVE  \A x \in Clients : seen'[x].last >= seen[x].last
<1> SUFFICES ASSUME NEW x \in Clients PROVE seen'[x].last >= seen[x].last
  OBVIOUS
<1>1. seen[x] \in Views /\ seen[x].last \in Nat
  BY TypesOf
<1>2. CASE x \in Reached(list, others) /\ conn[x] = "open"
  <2>1. seen'[x] = Told(seen[x], event, n) /\ x \in list
    BY <1>2, Outcome DEF Reached
  <2> QED
    BY <1>1, <1>2, <2>1, ToldType
<1>3. CASE ~(x \in Reached(list, others) /\ conn[x] = "open")
  <2>1. seen'[x] = seen[x]
    BY <1>3, Outcome
  <2> QED
    BY <1>1, <2>1
<1> QED
  BY <1>2, <1>3

LEMMA EmitGoesForward ==
  ASSUME ApiInv, ~disturbed, NEW event \in Events, NEW by, EmitEvent(event, by)
  PROVE  \A x \in Clients : seen'[x].last >= seen[x].last
<1>1. ApiTypeOK /\ serial \in Nat /\ serial + 1 \in Nat
  BY TypesOf DEF ApiInv
<1>2. \A x \in Clients : seen[x].last <= serial + 1
  BY <1>1, TypesOf DEF ApiInv, Consistent, Ordered, OldestFirst
<1> QED
  BY <1>1, <1>2, RoundGoesForward DEF EmitEvent

LEMMA ResumeGoesForward ==
  ASSUME ApiInv, ~disturbed, NEW i \in DOMAIN waits, Resume(i)
  PROVE  \A x \in Clients : seen'[x].last >= seen[x].last
<1> DEFINE w == waits[i]
<1>1. ApiTypeOK /\ w \in Wait /\ w.at \in Clients /\ w.serial \in Nat /\ w.rest \subseteq Clients
      /\ \A x \in Clients : seen[x].last \in Nat
  BY TypesOf, PlacesAreNat DEF ApiInv, Wait
<1>2. CASE /\ w.event \in Events
           /\ Broadcast(w.event, w.serial, w.rest, w.dead \union Lost({w.at}), w.by, RemoveAt(waits, i))
  <2>1. ASSUME NEW x \in w.rest, conn[x] = "open" PROVE seen[x].last <= w.serial
    <3>1. <<w.event, w.serial>> \in Owed(waits, x)
      BY DEF Owed
    <3>2. <<w.event, w.serial>>[2] = w.serial
      OBVIOUS
    <3>3. seen[x].last < <<w.event, w.serial>>[2]
      BY <1>1, <2>1, <3>1 DEF ApiInv, Consistent, Ordered, OldestFirst
    <3> QED
      BY <1>1, <3>2, <3>3
  <2> HIDE DEF w
  <2> QED
    BY <1>1, <1>2, <2>1, RoundGoesForward
<1>3. CASE seen' = [seen EXCEPT ![w.at] = Replayed(w.at)]
  <2>1. Replayed(w.at).last = seen[w.at].last
    BY <1>1, ReplayedType
  <2>2. \A x \in Clients : seen'[x].last = seen[x].last
    BY <1>1, <1>3, <2>1, TypesOf
  <2> QED
    BY <1>1, <2>2
<1>4. CASE seen' = seen
  BY <1>1, <1>4
<1> QED
  BY <1>2, <1>3, <1>4 DEF Resume

\* No client is told an older event after a younger one, although broadcasts wait
\* for slow clients at different places (emit_event).
THEOREM EventsAlwaysInOrder == ApiSpec => EventsInOrder
<1>1. ASSUME ApiInv, [ApiNext]_apiVars, ~disturbed'
      PROVE  \A c \in Clients : seen'[c].last >= seen[c].last
  <2>1. \A c \in Clients : seen[c].last \in Nat
    BY <1>1, TypesOf DEF ApiInv
  <2>2. CASE seen' = seen
    BY <2>1, <2>2
  <2>3. CASE RunPosted
    <3>1. Head(posted) \in Events /\ ~disturbed
      BY <1>1, <2>3, HeadTailProperties DEF ApiInv, ApiTypeOK, RunPosted
    <3> QED
      BY <1>1, <2>3, <3>1, EmitGoesForward DEF RunPosted
  <2>4. CASE \E i \in DOMAIN waits : Resume(i)
    <3>1. PICK i \in DOMAIN waits : Resume(i)
      BY <2>4
    <3>2. ~disturbed
      BY <1>1, <3>1 DEF Resume
    <3> QED
      BY <1>1, <3>1, <3>2, ResumeGoesForward
  <2>5. ASSUME NEW c \in Clients, Join(c) PROVE \A x \in Clients : seen'[x].last >= seen[x].last
    <3>1. Replayed(c).last = seen[c].last
      BY <1>1, ReplayedType DEF ApiInv
    <3>2. seen' = seen \/ seen' = [seen EXCEPT ![c] = Replayed(c)]
      BY <2>5 DEF Join
    <3>3. \A x \in Clients : seen'[x].last = seen[x].last
      BY <1>1, <3>1, <3>2, TypesOf DEF ApiInv
    <3> QED
      BY <2>1, <3>3
  <2>6. ASSUME NEW c \in Clients, Dispatch(c) PROVE \A x \in Clients : seen'[x].last >= seen[x].last
    <3>1. EmitEvent("idle", c) \/ seen' = seen
      BY <2>6 DEF Dispatch
    <3>2. ~disturbed
      BY <1>1, <2>6 DEF Dispatch
    <3> QED
      BY <1>1, <2>2, <3>1, <3>2, KindsDiffer, EmitGoesForward
  <2>7. \A event : Post(event) => seen' = seen
    BY DEF Post
  <2>8. \A c \in Clients :
          HandlerEnds(c) \/ SendCommand(c) \/ Stall(c) \/ Read(c) \/ Close(c) \/ Closed(c) => seen' = seen
    BY DEF HandlerEnds, SendCommand, Stall, Read, Close, Closed
  <2>9. UNCHANGED apiVars => seen' = seen
    BY DEF apiVars
  <2> QED
    BY <1>1, <2>2, <2>3, <2>4, <2>5, <2>6, <2>7, <2>8, <2>9 DEF ApiNext
<1>2. ApiInv /\ [ApiNext]_apiVars => [~disturbed' => \A c \in Clients : seen'[c].last >= seen[c].last]_apiVars
  BY <1>1
<1> QED
  BY <1>2, ApiAlways, PTL DEF ApiSpec, EventsInOrder
=============================================================================
