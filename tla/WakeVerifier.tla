----------------------------- MODULE WakeVerifier -----------------------------
(***************************************************************************)
(* Second-stage wake verification, from linux_voice_assistant/             *)
(* tater_native.py: the audio thread detects a wake word and, when the     *)
(* verifier is enforced, closes a gate and leaves the decision to the      *)
(* event loop, which sends the recent audio to the server and waits for    *)
(* its verdict, a timeout, or the loss of the connection.                  *)
(*                                                                         *)
(* Two actors: the audio thread (AudioThread below) and the event loop.    *)
(* The server is external: it may answer any request id at any time, any   *)
(* number of times, or never.  Audio contents and telemetry counters are   *)
(* left out.                                                               *)
(***************************************************************************)
EXTENDS Naturals, FiniteSets, FiniteSetsExt

CONSTANTS
  MaxWakes,         \* bound of the model: wakes ever detected
  MaxOutstanding,   \* WAKE_VERIFIER_MAX_OUTSTANDING
  WakesPerTimeout   \* wakes that fit into one verifier timeout

\* refractory_seconds keeps wakes apart and a timeout is two seconds at most, so
\* far fewer than WAKE_VERIFIER_MAX_OUTSTANDING wakes fit into one.
ASSUME WakeVerifierAssumption ==
  /\ MaxWakes \in Nat
  /\ MaxOutstanding \in Nat \ {0}
  /\ WakesPerTimeout \in Nat
  /\ WakesPerTimeout < MaxOutstanding

Wakes == 1..MaxWakes
Ids == 1..MaxWakes  \* a wake makes at most one request; 32 bits never wrap
None == 0           \* no wake, no request, no timer handle
Modes == {"off", "observe", "enforce"}

VARIABLES
  mode,         \* wake_verifier_mode of state.native_settings
  connected,    \* _connected
  ringReady,    \* the capture ring holds enough audio to verify
  heard,        \* wakes detected so far
  thread,       \* the audio thread in wakeup(): where it is, its wake and mode
  gate,         \* _wake_verifier_gate
  callback,     \* the _queue_wake_verification call the loop has yet to run
  generation,   \* _wake_verifier_generation
  requests,     \* keys of _wake_verifier_requests; ids grow, so the oldest is least
  enforced,     \* those of them that were enforced
  pendingId,    \* _wake_verifier_pending_id
  pendingWord,  \* _wake_verifier_pending_word
  timeout,      \* the handle in _wake_verifier_timeout, named by its request
  armed,        \* call_later timers that have neither fired nor been cancelled
  young,        \* wakes detected since the pending request was made
  outcome       \* history: what has become of each wake

loopVars == <<generation, requests, enforced, pendingId, pendingWord, timeout, armed>>
vars == <<mode, connected, ringReady, heard, thread, gate, callback, loopVars, young,
          outcome>>

Idle == [at |-> "idle", wake |-> None, mode |-> "off"]
NoCallback == [wake |-> None, mode |-> "off"]

Abstract == INSTANCE WakeGate WITH Wakes <- Wakes, outcome <- outcome

TypeOK ==
  /\ mode \in Modes
  /\ connected \in BOOLEAN
  /\ ringReady \in BOOLEAN
  /\ heard \in 0..MaxWakes
  /\ thread \in [at : {"idle", "gate", "post"}, wake : Wakes \cup {None}, mode : Modes]
  /\ gate \in BOOLEAN
  /\ callback \in [wake : Wakes \cup {None}, mode : Modes]
  /\ generation \in 0..heard
  /\ requests \subseteq 1..generation
  /\ Cardinality(requests) <= MaxOutstanding
  /\ enforced \subseteq requests
  /\ pendingId \in 0..generation
  /\ pendingWord \in 0..heard
  /\ timeout \in 0..generation
  /\ armed \subseteq 1..generation
  /\ young \in 0..WakesPerTimeout
  /\ Abstract!TypeOK

Init ==
  /\ mode \in Modes
  /\ connected = FALSE
  /\ ringReady = FALSE
  /\ heard = 0
  /\ thread = Idle
  /\ gate = FALSE
  /\ callback = NoCallback
  /\ generation = 0
  /\ requests = {}
  /\ enforced = {}
  /\ pendingId = None
  /\ pendingWord = None
  /\ timeout = None
  /\ armed = {}
  /\ young = 0
  /\ outcome = [w \in Wakes |-> "unheard"]

\* The wake becomes w's fate; _original_wakeup is called when it is "woken".
Decide(w, fate) == outcome' = [outcome EXCEPT ![w] = fate]

-----------------------------------------------------------------------------
(* The audio thread.                                                       *)

\* Mutant of GateOpen: the gate is not consulted.
AlwaysOpen == TRUE

GateOpen == ~gate

\* process_audio detects a wake and calls wakeup(), which reads the mode and the
\* connection once.  A wake is only detected when the loop has run the callback
\* of the one before (refractory_seconds), and at most WakesPerTimeout of them
\* while a verdict is awaited.
Detect ==
  /\ heard < MaxWakes
  /\ thread = Idle
  /\ callback = NoCallback
  /\ pendingId # None => young < WakesPerTimeout
  /\ heard' = heard + 1
  /\ young' = IF pendingId = None THEN young ELSE young + 1
  /\ \/ /\ mode = "off" \/ ~connected
        /\ Decide(heard', "woken")
        /\ UNCHANGED thread
     \/ /\ mode = "observe" /\ connected
        /\ thread' = [at |-> "post", wake |-> heard', mode |-> mode]
        /\ UNCHANGED outcome
     \/ /\ mode = "enforce" /\ connected /\ GateOpen
        /\ thread' = [at |-> "gate", wake |-> heard', mode |-> mode]
        /\ Decide(heard', "held")
     \/ /\ mode = "enforce" /\ connected /\ ~GateOpen
        /\ Decide(heard', "dropped")
        /\ UNCHANGED thread
  /\ UNCHANGED <<mode, connected, ringReady, gate, callback, loopVars>>

CloseGate ==
  /\ thread.at = "gate"
  /\ gate' = TRUE
  /\ thread' = [thread EXCEPT !.at = "post"]
  /\ UNCHANGED <<mode, connected, ringReady, heard, callback, loopVars, young, outcome>>

\* call_soon_threadsafe; an observed wake goes through at once.
Post ==
  /\ thread.at = "post"
  /\ callback' = [wake |-> thread.wake, mode |-> thread.mode]
  /\ thread' = Idle
  /\ IF thread.mode = "observe" THEN Decide(thread.wake, "woken") ELSE UNCHANGED outcome
  /\ UNCHANGED <<mode, connected, ringReady, heard, gate, loopVars, young>>

AudioThread == Detect \/ CloseGate \/ Post

\* handle_audio fills the capture ring; it never shrinks below the minimum again.
CaptureEnough ==
  /\ ~ringReady
  /\ ringReady' = TRUE
  /\ UNCHANGED <<mode, connected, heard, thread, gate, callback, loopVars, young, outcome>>

-----------------------------------------------------------------------------
(* The event loop.                                                         *)

\* Mutant of Kept: the youngest request makes room.
DropYoungest ==
  IF Cardinality(requests) < MaxOutstanding THEN requests
  ELSE requests \ {Max(requests)}

\* The requests that stay when one more is made: the oldest makes room.
Kept == IF Cardinality(requests) < MaxOutstanding THEN requests
        ELSE requests \ {Min(requests)}

NothingPending == pendingId' = None /\ pendingWord' = None /\ gate' = FALSE

\* Mutant of FailOpen: the gate is left as the audio thread has closed it.
GateStays ==
  /\ IF callback.mode = "enforce" THEN Decide(callback.wake, "woken")
                                  ELSE UNCHANGED outcome
  /\ UNCHANGED <<loopVars, young, gate>>

\* The satellite cannot verify: the wake goes through without a verdict.
FailOpen ==
  /\ IF callback.mode = "enforce" THEN Decide(callback.wake, "woken")
                                  ELSE UNCHANGED outcome
  /\ gate' = FALSE
  /\ UNCHANGED <<loopVars, young>>

\* The request is queued; an enforced one is awaited, with a timer of its own.
Ask(id) ==
  /\ requests' = Kept \cup {id}
  /\ IF callback.mode = "enforce"
     THEN /\ enforced' = (enforced \cap Kept) \cup {id}
          /\ pendingId' = id
          /\ pendingWord' = callback.wake
          /\ timeout' = id
          /\ armed' = armed \cup {id}
          /\ young' = 0
     ELSE /\ enforced' = enforced \cap Kept
          /\ UNCHANGED <<pendingId, pendingWord, timeout, armed, young>>
  /\ UNCHANGED <<gate, outcome>>

\* The outgoing queue is full: the request is completed where it was made.
AskInVain ==
  /\ requests' = Kept
  /\ enforced' = enforced \cap Kept
  /\ IF callback.mode = "enforce"
     THEN /\ NothingPending
          /\ timeout' = None
          /\ armed' = armed \ {timeout}
          /\ Decide(callback.wake, "woken")
     ELSE UNCHANGED <<pendingId, pendingWord, gate, timeout, armed, outcome>>
  /\ UNCHANGED young

\* _queue_wake_verification.
RunCallback ==
  /\ callback # NoCallback
  /\ callback' = NoCallback
  /\ IF ~connected \/ ~ringReady
     THEN FailOpen
     ELSE /\ generation' = generation + 1
          /\ Ask(generation') \/ AskInVain
  /\ UNCHANGED <<mode, connected, ringReady, heard, thread>>

Known(id) == id \in requests

\* _complete_wake_verification, whose pending timer is cancelled; fired is the
\* timer that called it, if one did.
Complete(id, accepted, available, fired) ==
  /\ requests' = requests \ {id}
  /\ enforced' = enforced \ {id}
  /\ IF Known(id) /\ id \in enforced /\ id = pendingId
     THEN /\ NothingPending
          /\ timeout' = None
          /\ armed' = armed \ (fired \cup {timeout})
          /\ Decide(pendingWord, IF accepted \/ ~available THEN "woken" ELSE "rejected")
     ELSE /\ armed' = armed \ fired
          /\ UNCHANGED <<pendingId, pendingWord, timeout, gate, outcome>>
  /\ UNCHANGED <<mode, connected, ringReady, heard, thread, callback, generation, young>>

\* call_later runs _wake_verifier_timed_out, unless the handle was cancelled.
TimedOut(id) == id \in armed /\ Complete(id, TRUE, FALSE, {id})

\* wake.verify.result, with any id the server was ever given.
Result(id, accepted, available) == connected /\ Complete(id, accepted, available, {})

\* Settings from the server change the mode at any time.
ApplySettings(m) ==
  /\ connected
  /\ m # mode
  /\ mode' = m
  /\ UNCHANGED <<connected, ringReady, heard, thread, gate, callback, loopVars, young, outcome>>

\* _mark_connected: a reconnect takes longer than a pending callback or a call
\* of the audio thread.
Connect ==
  /\ ~connected
  /\ thread = Idle
  /\ callback = NoCallback
  /\ connected' = TRUE
  /\ UNCHANGED <<mode, ringReady, heard, thread, gate, callback, loopVars, young, outcome>>

\* _mark_disconnected: a wake that is waiting for its verdict is forgotten.
Disconnect ==
  /\ connected
  /\ connected' = FALSE
  /\ timeout' = None
  /\ armed' = armed \ {timeout}
  /\ requests' = {}
  /\ enforced' = {}
  /\ NothingPending
  /\ IF pendingWord = None THEN UNCHANGED outcome ELSE Decide(pendingWord, "dropped")
  /\ UNCHANGED <<mode, ringReady, heard, thread, callback, generation, young>>

Next ==
  \/ AudioThread \/ CaptureEnough \/ RunCallback
  \/ \E id \in armed : TimedOut(id)
  \/ \E id \in 1..generation, accepted, available \in BOOLEAN :
        Result(id, accepted, available)
  \/ \E m \in Modes : ApplySettings(m)
  \/ Connect \/ Disconnect

Spec == Init /\ [][Next]_vars

\* wakeup() returns, the event loop runs what it was given and fires its timers.
\* Nothing is assumed of the server, the settings or the connection.
Fairness ==
  /\ WF_vars(CloseGate)
  /\ WF_vars(Post)
  /\ WF_vars(RunCallback)
  /\ \A id \in Ids : WF_vars(TimedOut(id))

FairSpec == Spec /\ Fairness

-----------------------------------------------------------------------------
(* Properties.                                                             *)

\* The enforced wake, if any, that the event loop has yet to be told of.
InFlight ==
  \/ thread.at = "post" /\ thread.mode = "enforce"
  \/ callback # NoCallback /\ callback.mode = "enforce"

\* A closed gate has someone who will open it: an enforced wake on its way to
\* the loop, or a request whose timer is armed.  Otherwise every later wake
\* would be ignored until the connection is lost (wakeup, _queue_wake_verification,
\* _complete_wake_verification, _mark_disconnected on two threads).
GateHasOwner == gate => InFlight \/ (pendingId # None /\ pendingId \in armed)

\* The request a wake waits for is never the one that makes room for another,
\* however many observed wakes the server leaves unanswered: it stays in the
\* table as the only enforced one, behind a closed gate and with the only timer.
AwaitedIsKept ==
  /\ enforced = {pendingId} \ {None}
  /\ armed = {pendingId} \ {None}
  /\ timeout = pendingId
  /\ pendingId # None => gate /\ pendingWord # None

\* What the verifier does to the wakes implements WakeGate: one held wake at a
\* time, each settled once, by whichever of verdict, timeout, full queue, lost
\* connection or unready capture comes first.
ImplementsWakeGate == Abstract!Spec

\* An enforced wake is settled though the server never answers.
EveryWakeSettled ==
  \A w \in Wakes : outcome[w] = "held" ~> outcome[w] \in Abstract!Settled

=============================================================================
