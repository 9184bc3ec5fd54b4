------------------------- MODULE SpeechPlaybackProofs -------------------------
(***************************************************************************)
(* Proofs about SpeechPlayback, for every set of disturbances and every    *)
(* interleaving of the four threads.                                       *)
(*                                                                         *)
(* A response that settles will settle (Inv).  Segments wait only behind   *)
(* one that is spoken (KeptAlive).  A thread has at most one segment in    *)
(* hand (OneAtATime), and what was accepted covers what was spoken, what   *)
(* is in hand and what waits (AllCovered), so that nothing is spoken       *)
(* again.  Without stops and alarms one thread at a time, or the player,   *)
(* has the turn, and the segment in its hand stands between what was       *)
(* spoken and what waits (TakesTurn).                                      *)
(***************************************************************************)
EXTENDS SpeechPlayback, FiniteSetTheorems, FunctionTheorems, SequenceTheorems, TLAPS

(* A stop that is under way and a response that is settling exclude each   *)
(* other: segment_finished ends a stopped response without a look at the   *)
(* grace timer, so it must not be running.                                 *)
StopEndsSettling == force => ~finishTimer

Inv == SettlingWillSettle /\ StopEndsSettling

(* Nothing settles in the initial state.                                   *)
THEOREM InitInv == Init => Inv
  BY DEF Init, Inv, SettlingWillSettle, StopEndsSettling

(* Whatever ends a segment keeps the two apart: it starts the grace timer  *)
(* only when nothing waits and no stop is under way.                       *)
LEMMA SegmentFinishedInv ==
  ASSUME Inv, NEW t \in Threads, SegmentFinished(t)
  PROVE  Inv'
<1>. USE DEF Inv, SettlingWillSettle, StopEndsSettling
<1>1. CASE ignore
  BY <1>1 DEF SegmentFinished
<1>2. CASE ~ignore /\ MoreQueued
  <2>1. ~finishTimer
    BY <1>2 DEF MoreQueued
  <2>2. finishTimer' = finishTimer /\ force' = force
    BY <1>2 DEF SegmentFinished, MoreQueued
  <2>. QED  BY <2>1, <2>2
<1>3. CASE ~ignore /\ ~MoreQueued /\ force
  <2>1. ~finishTimer
    BY <1>3
  <2>2. finishTimer' = finishTimer
    BY <1>3 DEF SegmentFinished
  <2>. QED  BY <2>1, <2>2
<1>4. CASE ~ignore /\ ~MoreQueued /\ ~force
  <2>1. queue = <<>> /\ queue' = queue /\ ~playing' /\ grace' = "running" /\ force' = force
    BY <1>4 DEF SegmentFinished, MoreQueued
  <2>. QED  BY <2>1, <1>4
<1>. QED  BY <1>1, <1>2, <1>3, <1>4

(* A new segment and a stop take the grace timer away before they change   *)
(* anything else.                                                          *)
LEMMA TimerTaken ==
  ASSUME NextGeneration
  PROVE  Inv'
  BY DEF NextGeneration, Inv, SettlingWillSettle, StopEndsSettling

(* The grace timer's thread: it ends a response only if it settled.        *)
LEMMA GraceInv ==
  ASSUME Inv, GraceOver \/ FinishAfterGrace
  PROVE  Inv'
<1>. USE DEF Inv, SettlingWillSettle, StopEndsSettling
<1>1. CASE GraceOver
  BY <1>1 DEF GraceOver
<1>2. CASE FinishAfterGrace
  <2>1. CASE Settled
    BY <1>2, <2>1 DEF FinishAfterGrace
  <2>2. CASE ~Settled
    <3>1. ~finishTimer
      BY <2>2 DEF Settled
    <3>2. finishTimer' = finishTimer
      BY <1>2, <2>2 DEF FinishAfterGrace
    <3>. QED  BY <3>1, <3>2
  <2>. QED  BY <2>1, <2>2
<1>. QED  BY <1>1, <1>2

(* What leaves the coordinator alone.                                      *)
LEMMA SameCoordinator ==
  ASSUME Inv, UNCHANGED coordVars
  PROVE  Inv'
  BY DEF coordVars, Inv, SettlingWillSettle, StopEndsSettling

(* A step of a thread inside a call.                                       *)
LEMMA ThreadStepInv ==
  ASSUME Inv, NEW t \in Threads, ThreadStep(t)
  PROVE  Inv'
<1>1. CASE Start(t)
  BY <1>1, TimerTaken DEF Start
<1>2. CASE SegmentFinished(t)
  BY <1>2, SegmentFinishedInv
<1>3. CASE FinishStop(t)
  BY <1>3 DEF FinishStop, Inv, SettlingWillSettle, StopEndsSettling
<1>4. CASE Finish(t) \/ Play(t) \/ PlayerStop(t) \/ ClearSlot(t) \/ TrackFinished(t)
  BY <1>4, SameCoordinator DEF Finish, Play, PlayerStop, ClearSlot, TrackFinished
<1>5. CASE AlarmCheck(t) \/ AlarmTimesOut(t) \/ RingAgain(t) \/ Listen(t)
  BY <1>5, SameCoordinator DEF AlarmCheck, AlarmTimesOut, RingAgain, Listen
<1>. QED  BY <1>1, <1>2, <1>3, <1>4, <1>5 DEF ThreadStep

(* Every step of every thread keeps the invariant.                         *)
THEOREM StepInv == Inv /\ [Next]_vars => Inv'
<1>. SUFFICES ASSUME Inv, [Next]_vars PROVE Inv'
  OBVIOUS
<1>1. ASSUME NEW t \in Threads, ThreadStep(t) PROVE Inv'
  BY <1>1, ThreadStepInv
<1>2. ASSUME NEW url \in Segments, Enqueue(url) PROVE Inv'
  BY <1>2, TimerTaken DEF Enqueue
<1>3. CASE GraceOver \/ FinishAfterGrace
  BY <1>3, GraceInv
<1>4. CASE FileEnds \/ FileFails \/ OnEndFile
  BY <1>4, SameCoordinator DEF FileEnds, FileFails, OnEndFile
<1>5. ASSUME NEW t \in {"loop", "audio"}, Stop(t) PROVE Inv'
  BY <1>5, SameCoordinator, TimerTaken DEF Stop, BeginStop
<1>6. ASSUME NEW t \in {"loop", "audio"}, WakeUp(t) PROVE Inv'
  BY <1>6, SameCoordinator DEF WakeUp
<1>7. CASE Ring \/ CancelAlarm \/ Unmute \/ PlaySound \/ StartRefused
  BY <1>7, SameCoordinator DEF Ring, CancelAlarm, Unmute, PlaySound, StartRefused
<1>8. CASE Mute \/ Disconnect
  BY <1>8, TimerTaken DEF Mute, BeginStop, Disconnect
<1>9. CASE UNCHANGED vars
  BY <1>9, SameCoordinator DEF vars, coordVars
<1>. QED  BY <1>1, <1>2, <1>3, <1>4, <1>5, <1>6, <1>7, <1>8, <1>9 DEF Next

(* The coordinator's invariant always holds.                               *)
THEOREM InvAlways == Spec => []Inv
  BY InitInv, StepInv, PTL DEF Spec

(* Whatever else happens to the player, and in whichever order the threads *)
(* take the lock: while a response settles, nothing of it plays or waits   *)
(* and the timer that reports its end is the current one.                  *)
THEOREM SettlingAlwaysSettles == Spec => []SettlingWillSettle
<1>1. Inv => SettlingWillSettle
  BY DEF Inv
<1>. QED  BY <1>1, InvAlways, PTL

-----------------------------------------------------------------------------
(* Types.                                                                  *)

NamedSteps == {"segment_finished", "finish", "player_stop", "clear_slot", "finish_stop",
               "track_finished", "alarm_check", "listen", "ring"}

LEMMA StepTyped ==
  /\ <<>> \in Seq(Steps)
  /\ \A what \in NamedSteps : Step(what) \in Seq(Steps)
  /\ \A url \in Segments : StepWith("start", url) \in Seq(Steps)
  /\ \A url \in Files \ {None} : StepWith("play", url) \in Seq(Steps)
<1>1. \A what \in NamedSteps : [do |-> what, url |-> None] \in Steps
  BY DEF NamedSteps, Steps
<1>2. \A url \in Segments : [do |-> "start", url |-> url] \in Steps
  BY DEF Steps
<1>3. \A url \in Files \ {None} : [do |-> "play", url |-> url] \in Steps
  BY DEF Steps
<1> QED
  BY <1>1, <1>2, <1>3 DEF Step, StepWith

(* What a step that a thread is about to take is.                          *)
LEMMA NextStep ==
  ASSUME TypeOK, NEW t \in Threads, todo[t] # <<>>
  PROVE  /\ Head(todo[t]) \in Steps /\ Tail(todo[t]) \in Seq(Steps)
         /\ Head(todo[t]).do = "start" => Head(todo[t]).url \in Segments
         /\ Head(todo[t]).do = "play" => Head(todo[t]).url \in Files \ {None}
         /\ Head(todo[t]).do \notin {"start", "play"} => Head(todo[t]).url = None
<1>1. Head(todo[t]) \in Steps /\ Tail(todo[t]) \in Seq(Steps)
  BY DEF TypeOK
<1> QED
  BY <1>1 DEF Steps

LEMMA ThenTyped ==
  ASSUME TypeOK, NEW t \in Threads, todo[t] # <<>>, NEW steps \in Seq(Steps), Then(t, steps)
  PROVE  todo' \in [Threads -> Seq(Steps)]
<1>1. steps \o Tail(todo[t]) \in Seq(Steps)
  BY NextStep
<1> QED
  BY <1>1 DEF Then, TypeOK

LEMMA CallTyped ==
  ASSUME TypeOK, NEW t \in Threads, NEW steps \in Seq(Steps), Call(t, steps)
  PROVE  todo' \in [Threads -> Seq(Steps)]
  BY DEF Call, TypeOK

LEMMA StopTyped == AfterBeginStop \in Seq(Steps)
<1>1. Step("player_stop") \in Seq(Steps) /\ Step("finish_stop") \in Seq(Steps) /\ <<>> \in Seq(Steps)
  BY StepTyped DEF NamedSteps
<1> QED
  BY <1>1 DEF AfterBeginStop

LEMMA InvokeTyped == \A callback \in Callbacks : Invoke(callback) \in Seq(Steps)
<1>1. /\ Step("segment_finished") \in Seq(Steps) /\ Step("alarm_check") \in Seq(Steps)
      /\ Step("listen") \in Seq(Steps) /\ <<>> \in Seq(Steps)
  BY StepTyped DEF NamedSteps
<1> QED
  BY <1>1 DEF Invoke, Callbacks, None

(* Segments are no other sounds.                                           *)
LEMMA SegmentNames == None \notin Segments /\ "alarm" \notin Segments /\ "chime" \notin Segments /\ "sound" \notin Segments
  BY SpeechPlaybackAssumption DEF None

LEMMA SoundsAreFiles == {"alarm", "chime", "sound"} \subseteq Files \ {None} /\ Segments \subseteq Files \ {None}
  BY SegmentNames DEF Files, None

LEMMA CallbackTyped == \A url \in Files \ {None} : CallbackOf(url) \in Callbacks
  BY DEF CallbackOf, Callbacks, Files, None

LEMMA DisturbTyped ==
  ASSUME TypeOK, NEW what, Disturb(what)
  PROVE  disturbed' \in Seq(Disturbances) /\ Len(disturbed') <= MaxDisturbances
<1>1. Len(Append(disturbed, what)) = Len(disturbed) + 1 /\ Append(disturbed, what) \in Seq(Disturbances)
  BY DEF Disturb, TypeOK
<1>2. Len(disturbed) \in Nat
  BY DEF TypeOK
<1> QED
  BY <1>1, <1>2, SpeechPlaybackAssumption DEF Disturb

LEMMA ThreadStepTyped ==
  ASSUME TypeOK, NEW t \in Threads, ThreadStep(t)
  PROVE  TypeOK'
<1>0. todo[t] # <<>>
  BY DEF ThreadStep, Start, SegmentFinished, FinishStop, Finish, Play, PlayerStop, ClearSlot, TrackFinished,
         AlarmCheck, AlarmTimesOut, RingAgain, Listen, At
<1>1. ASSUME NEW steps \in Seq(Steps), Then(t, steps) PROVE todo' \in [Threads -> Seq(Steps)]
  BY <1>0, <1>1, ThenTyped
<1> USE DEF coordVars, playerVars, satelliteVars, responseVars, historyVars
<1>2. CASE Start(t)
  <2>1. Head(todo[t]).url \in Segments
    BY <1>0, <1>2, NextStep DEF Start, At
  <2>2. todo' \in [Threads -> Seq(Steps)]
    BY <1>1, <1>2, <2>1, StepTyped, SoundsAreFiles DEF Start
  <2> QED
    BY <1>2, <2>1, <2>2 DEF Start, NextGeneration, TypeOK
<1>3. CASE SegmentFinished(t)
  <2>1. queue # <<>> => Head(queue) \in Segments /\ Tail(queue) \in Seq(Segments)
    BY DEF TypeOK
  <2>2. todo' \in [Threads -> Seq(Steps)]
    <3>1. \/ Then(t, <<>>) \/ Then(t, Step("finish")) \/ (queue # <<>> /\ Then(t, StepWith("start", Head(queue))))
      BY <1>3 DEF SegmentFinished, MoreQueued
    <3> QED
      BY <1>1, <2>1, <3>1, StepTyped DEF NamedSteps
  <2> QED
    BY <1>3, <2>1, <2>2 DEF SegmentFinished, MoreQueued, LeftInLine, TypeOK
<1>4. CASE FinishStop(t)
  <2>1. todo' \in [Threads -> Seq(Steps)]
    <3>1. Then(t, <<>>) \/ Then(t, Step("finish"))
      BY <1>4 DEF FinishStop
    <3> QED
      BY <1>1, <3>1, StepTyped DEF NamedSteps
  <2> QED
    BY <1>4, <2>1, ZenonT(60) DEF FinishStop, TypeOK
<1>5. CASE Finish(t) \/ ClearSlot(t) \/ AlarmTimesOut(t) \/ Listen(t)
  <2>1. todo' \in [Threads -> Seq(Steps)]
    BY <1>1, <1>5, StepTyped DEF Finish, ClearSlot, AlarmTimesOut, Listen
  <2>2. None \in Callbacks
    BY DEF Callbacks
  <2>3. CASE Finish(t)
    BY <2>1, <2>3 DEF Finish, TypeOK
  <2>4. CASE ClearSlot(t)
    BY <2>1, <2>2, <2>4 DEF ClearSlot, TypeOK
  <2>5. CASE AlarmTimesOut(t)
    BY <2>1, <2>5 DEF AlarmTimesOut, TypeOK
  <2>6. CASE Listen(t)
    BY <2>1, <2>6 DEF Listen, TypeOK
  <2> QED
    BY <1>5, <2>3, <2>4, <2>5, <2>6
<1>6. CASE Play(t)
  <2> DEFINE url == Head(todo[t]).url
  <2>1. url \in Files \ {None}
    BY <1>0, <1>6, NextStep DEF Play, At
  <2>2. todo' \in [Threads -> Seq(Steps)]
    BY <1>1, <1>6, StepTyped DEF Play
  <2>3. played' \in Seq(Segments) /\ slot' \in Callbacks /\ file' \in Files
    BY <1>6, <2>1, CallbackTyped DEF Play, TypeOK
  <2> QED
    BY <1>6, <2>2, <2>3 DEF Play, TypeOK
<1>7. CASE PlayerStop(t)
  <2>1. todo' \in [Threads -> Seq(Steps)]
    <3>1. Invoke(slot) \in Seq(Steps) /\ Step("clear_slot") \in Seq(Steps) /\ <<>> \in Seq(Steps)
      BY InvokeTyped, StepTyped DEF TypeOK, NamedSteps
    <3>2. Invoke(slot) \o Step("clear_slot") \in Seq(Steps)
      BY <3>1
    <3> QED
      BY <1>1, <1>7, <3>1, <3>2 DEF PlayerStop
  <2> QED
    BY <1>7, <2>1 DEF PlayerStop, TypeOK, Files
<1>8. CASE TrackFinished(t)
  <2>1. todo' \in [Threads -> Seq(Steps)]
    BY <1>1, <1>8, InvokeTyped DEF TrackFinished, TypeOK
  <2> QED
    BY <1>8, <2>1 DEF TrackFinished, TypeOK, Callbacks
<1>9. CASE AlarmCheck(t)
  <2>1. todo' \in [Threads -> Seq(Steps)]
    BY <1>1, <1>9, StepTyped, SoundsAreFiles DEF AlarmCheck
  <2> QED
    BY <1>9, <2>1 DEF AlarmCheck, TypeOK
<1>10. CASE RingAgain(t)
  <2>1. todo' \in [Threads -> Seq(Steps)]
    BY <1>1, <1>10, StepTyped DEF RingAgain, NamedSteps
  <2> QED
    BY <1>10, <2>1 DEF RingAgain, StartAlarm, TypeOK
<1> QED
  BY <1>2, <1>3, <1>4, <1>5, <1>6, <1>7, <1>8, <1>9, <1>10 DEF ThreadStep

LEMMA TypeStep == TypeOK /\ [Next]_vars => TypeOK'
<1> SUFFICES ASSUME TypeOK, [Next]_vars PROVE TypeOK'
  OBVIOUS
<1> USE DEF coordVars, playerVars, satelliteVars, responseVars, historyVars
<1>1. "loop" \in Threads /\ "audio" \in Threads /\ "mpv" \in Threads /\ "grace" \in Threads
  BY DEF Threads
<1>2. ASSUME NEW t \in Threads, ThreadStep(t) PROVE TypeOK'
  BY <1>2, ThreadStepTyped
<1>3. ASSUME NEW url \in Segments, Enqueue(url) PROVE TypeOK'
  <2>1. todo' \in [Threads -> Seq(Steps)]
    <3>1. StepWith("start", url) \in Seq(Steps)
      BY StepTyped
    <3>2. Call("loop", StepWith("start", url)) \/ UNCHANGED todo
      BY <1>3 DEF Enqueue
    <3> QED
      BY <1>1, <3>1, <3>2, CallTyped DEF TypeOK
  <2>2. accepted' \in Seq(Segments) /\ Len(accepted') <= MaxAccepted
    <3>1. Len(Append(accepted, url)) = Len(accepted) + 1 /\ Len(accepted) \in Nat
      BY DEF TypeOK
    <3> QED
      BY <1>3, <3>1, SpeechPlaybackAssumption DEF Enqueue, TypeOK
  <2>3. queue' \in Seq(Segments)
    <3>1. queue \in Seq(Segments) /\ Append(queue, url) \in Seq(Segments)
      BY DEF TypeOK
    <3>2. queue' = Append(queue, url) \/ queue' = queue
      BY <1>3 DEF Enqueue, LineUp
    <3> QED
      BY <3>1, <3>2
  <2> QED
    BY <1>3, <2>1, <2>2, <2>3 DEF Enqueue, NextGeneration, TypeOK
<1>4. CASE GraceOver
  BY <1>4 DEF GraceOver, TypeOK
<1>5. CASE FinishAfterGrace
  <2>1. todo' \in [Threads -> Seq(Steps)]
    <3>1. Call("grace", Step("finish")) \/ UNCHANGED todo
      BY <1>5 DEF FinishAfterGrace
    <3> QED
      BY <1>1, <3>1, CallTyped, StepTyped DEF NamedSteps, TypeOK
  <2> QED
    BY <1>5, <2>1 DEF FinishAfterGrace, TypeOK
<1>6. CASE FileEnds
  BY <1>6, SpeechPlaybackAssumption DEF FileEnds, TypeOK, Files
<1>7. CASE FileFails
  BY <1>7, DisturbTyped DEF FileFails, TypeOK, Files
<1>8. CASE OnEndFile
  <2>1. todo' \in [Threads -> Seq(Steps)]
    BY <1>1, <1>8, CallTyped, StepTyped DEF OnEndFile, NamedSteps
  <2>2. eof' \in 0..MaxEvents
    BY <1>8, SpeechPlaybackAssumption DEF OnEndFile, TypeOK
  <2> QED
    BY <1>8, <2>1, <2>2, ZenonT(60) DEF OnEndFile, TypeOK
<1>20. ResponseActive \in BOOLEAN /\ <<>> \in Seq(Segments)
  BY DEF ResponseActive
<1>9. ASSUME NEW t \in {"loop", "audio"}, Stop(t) PROVE TypeOK'
  <2>1. todo' \in [Threads -> Seq(Steps)]
    <3>1. Call(t, Step("player_stop")) \/ Call(t, AfterBeginStop)
      BY <1>9 DEF Stop
    <3> QED
      BY <1>1, <3>1, CallTyped, StepTyped, StopTyped DEF NamedSteps
  <2>2. disturbed' \in Seq(Disturbances) /\ Len(disturbed') <= MaxDisturbances
    BY <1>9, DisturbTyped DEF Stop
  <2> QED
    BY <1>9, <1>20, <2>1, <2>2 DEF Stop, BeginStop, NextGeneration, TypeOK
<1>10. ASSUME NEW t \in {"loop", "audio"}, WakeUp(t) PROVE TypeOK'
  <2>1. todo' \in [Threads -> Seq(Steps)]
    BY <1>1, <1>10, CallTyped, StepTyped, SoundsAreFiles DEF WakeUp
  <2> QED
    BY <1>10, <2>1, DisturbTyped DEF WakeUp, TypeOK
<1>11. CASE Ring
  <2>1. todo' \in [Threads -> Seq(Steps)]
    BY <1>1, <1>11, CallTyped, StepTyped DEF Ring, NamedSteps
  <2> QED
    BY <1>11, <2>1, DisturbTyped DEF Ring, StartAlarm, TypeOK
<1>12. CASE CancelAlarm
  <2>1. todo' \in [Threads -> Seq(Steps)]
    BY <1>1, <1>12, CallTyped, StepTyped DEF CancelAlarm, NamedSteps
  <2> QED
    BY <1>12, <2>1 DEF CancelAlarm, TypeOK
<1>13. CASE Mute
  <2>1. todo' \in [Threads -> Seq(Steps)]
    <3>1. AfterBeginStop \in Seq(Steps) /\ StepWith("play", "sound") \in Seq(Steps)
      BY StopTyped, StepTyped, SoundsAreFiles
    <3>2. AfterBeginStop \o StepWith("play", "sound") \in Seq(Steps)
      BY <3>1
    <3> QED
      BY <1>1, <1>13, <3>2, CallTyped DEF Mute
  <2>2. disturbed' \in Seq(Disturbances) /\ Len(disturbed') <= MaxDisturbances
    BY <1>13, DisturbTyped DEF Mute
  <2> QED
    BY <1>13, <1>20, <2>1, <2>2 DEF Mute, BeginStop, NextGeneration, TypeOK
<1>14. CASE Unmute
  <2>1. todo' \in [Threads -> Seq(Steps)]
    BY <1>1, <1>14, CallTyped, StepTyped, SoundsAreFiles DEF Unmute
  <2> QED
    BY <1>14, <2>1, ZenonT(60) DEF Unmute, TypeOK
<1>15. CASE PlaySound
  <2>1. todo' \in [Threads -> Seq(Steps)]
    BY <1>1, <1>15, CallTyped, StepTyped, SoundsAreFiles DEF PlaySound
  <2> QED
    BY <1>15, <2>1, DisturbTyped DEF PlaySound, TypeOK
<1>16. CASE StartRefused
  BY <1>16, ZenonT(60) DEF StartRefused, TypeOK
<1>17. CASE Disconnect
  <2>1. todo' \in [Threads -> Seq(Steps)]
    <3>1. Step("player_stop") \in Seq(Steps) /\ Step("ring") \in Seq(Steps)
      BY StepTyped DEF NamedSteps
    <3>2. Step("player_stop") \o Step("ring") \in Seq(Steps)
      BY <3>1
    <3> QED
      BY <1>1, <1>17, <3>1, <3>2, CallTyped DEF Disconnect
  <2>2. disturbed' \in Seq(Disturbances) /\ Len(disturbed') <= MaxDisturbances
    BY <1>17, DisturbTyped DEF Disconnect
  <2> QED
    BY <1>17, <1>20, <2>1, <2>2 DEF Disconnect, NextGeneration, TypeOK
<1>18. CASE UNCHANGED vars
  BY <1>18 DEF vars, TypeOK
<1> QED
  BY <1>2, <1>3, <1>4, <1>5, <1>6, <1>7, <1>8, <1>9, <1>10, <1>11, <1>12, <1>13, <1>14, <1>15, <1>16,
     <1>17, <1>18 DEF Next

LEMMA TypeInit == Init => TypeOK
<1> SUFFICES ASSUME Init PROVE TypeOK
  OBVIOUS
<1>1. <<>> \in Seq(Segments) /\ <<>> \in Seq(Disturbances) /\ <<>> \in Seq(Steps) /\ Len(<<>>) = 0
  OBVIOUS
<1>2. todo \in [Threads -> Seq(Steps)]
  BY <1>1 DEF Init
<1>3. slot \in Callbacks /\ file \in Files /\ current \in Segments \cup {None}
  BY DEF Init, Callbacks, Files
<1>4. eof \in 0..MaxEvents /\ 0 <= MaxAccepted /\ 0 <= MaxDisturbances
  BY SpeechPlaybackAssumption DEF Init
<1> QED
  BY <1>1, <1>2, <1>3, <1>4 DEF Init, TypeOK

(* The coordinator, the player, what the threads have still to do and the  *)
(* history keep their types, for any number of segments and disturbances.  *)
THEOREM TypesAlways == Spec => []TypeOK
  BY TypeInit, TypeStep, PTL DEF Spec

-----------------------------------------------------------------------------
(* What the threads have still to do, and what happened so far.            *)

(* What else happened is never forgotten.                                  *)
LEMMA DisturbOnly ==
  ASSUME TypeOK, NEW what, Disturb(what), NEW S, Only(S)'
  PROVE  what \in S /\ Only(S)
<1>1. disturbed' = Append(disturbed, what) /\ disturbed \in Seq(Disturbances) /\ what \in Disturbances
  BY DEF Disturb, TypeOK
<1>2. \A i \in DOMAIN disturbed' : disturbed'[i] \in S
  BY DEF Only, Range
<1>3. Len(disturbed) \in Nat /\ DOMAIN disturbed = 1 .. Len(disturbed)
  BY <1>1
<1>4. Len(disturbed') = Len(disturbed) + 1 /\ DOMAIN disturbed' = 1 .. Len(disturbed) + 1
  BY <1>1
<1>5. disturbed'[Len(disturbed) + 1] = what /\ \A i \in DOMAIN disturbed : disturbed'[i] = disturbed[i]
  BY <1>1, <1>3
<1>6. what \in S
  BY <1>2, <1>3, <1>4, <1>5
<1>7. \A i \in DOMAIN disturbed : disturbed[i] \in S
  BY <1>2, <1>3, <1>4, <1>5
<1> QED
  BY <1>6, <1>7 DEF Only, Range

LEMMA OnlySame ==
  ASSUME UNCHANGED disturbed, NEW S, Only(S)'
  PROVE  Only(S)
  BY DEF Only

LEMMA OnlyBefore ==
  ASSUME TypeOK, [Next]_vars, NEW S, Only(S)'
  PROVE  Only(S)
<1> USE DEF historyVars
<1>1. ASSUME NEW what, Disturb(what) PROVE Only(S)
  BY <1>1, DisturbOnly
<1>2. CASE UNCHANGED disturbed
  BY <1>2, OnlySame
<1>3. ASSUME NEW t \in Threads, ThreadStep(t) PROVE UNCHANGED disturbed
  BY <1>3 DEF ThreadStep, Start, SegmentFinished, FinishStop, Finish, Play, PlayerStop, ClearSlot, TrackFinished,
         AlarmCheck, AlarmTimesOut, RingAgain, Listen
<1>4. ASSUME NEW url \in Segments, Enqueue(url) PROVE UNCHANGED disturbed
  BY <1>4 DEF Enqueue
<1>5. CASE GraceOver \/ FinishAfterGrace \/ FileEnds \/ OnEndFile \/ CancelAlarm \/ Unmute \/ StartRefused \/ UNCHANGED vars
  BY <1>2, <1>5 DEF GraceOver, FinishAfterGrace, FileEnds, OnEndFile, CancelAlarm, Unmute, StartRefused, vars
<1>6. CASE FileFails \/ Ring \/ Mute \/ PlaySound \/ Disconnect
  BY <1>1, <1>6 DEF FileFails, Ring, Mute, PlaySound, Disconnect
<1>7. ASSUME NEW t \in {"loop", "audio"}, Stop(t) \/ WakeUp(t) PROVE Only(S)
  BY <1>1, <1>7 DEF Stop, WakeUp
<1> QED
  BY <1>2, <1>3, <1>4, <1>5, <1>6, <1>7 DEF Next

(* Thread t is on its way to end a response without a callback.            *)
Ending(t) == \E i \in DOMAIN todo[t] : todo[t][i].do = "finish_stop"

(* A thread starts or plays a segment next, or not at all.                 *)
OneAtATime == \A t \in Threads : \A i \in DOMAIN todo[t] : i > 1 => todo[t][i].url \notin Segments

Behind(steps) == \A i \in DOMAIN steps : i > 1 => steps[i].url \notin Segments

Silent(steps) == \A i \in DOMAIN steps : steps[i].url \notin Segments

NoEnding(steps) == \A i \in DOMAIN steps : steps[i].do # "finish_stop"

LEMMA StepsAdded ==
  ASSUME TypeOK, NEW t \in Threads, todo[t] # <<>>, NEW steps \in Seq(Steps), Then(t, steps)
  PROVE  /\ OneAtATime /\ Behind(steps) => OneAtATime'
         /\ NoEnding(steps) => \A s \in Threads : Ending(s)' => Ending(s)
<1> DEFINE old == todo[t]
<1>1. todo'[t] = steps \o Tail(old) /\ \A s \in Threads \ {t} : todo'[s] = todo[s]
  BY DEF Then, TypeOK
<1>2. old \in Seq(Steps) /\ old # <<>>
  BY DEF TypeOK
<1>3. PICK m \in Nat : Len(old) = m /\ DOMAIN old = 1 .. m
  BY <1>2
<1>4. PICK n \in Nat : Len(steps) = n /\ DOMAIN steps = 1 .. n
  OBVIOUS
<1>5. m # 0 /\ Tail(old) \in Seq(Steps) /\ Len(Tail(old)) = m - 1 /\ \A i \in 1 .. m - 1 : Tail(old)[i] = old[i + 1]
  BY <1>2, <1>3
<1> HIDE DEF old
<1>6. DOMAIN (steps \o Tail(old)) = 1 .. (n + (m - 1))
  BY <1>4, <1>5, ConcatProperties
<1>7. \A i \in 1 .. (n + (m - 1)) : (steps \o Tail(old))[i] = IF i <= n THEN steps[i] ELSE old[i - n + 1]
  <2> TAKE i \in 1 .. (n + (m - 1))
  <2>1. (steps \o Tail(old))[i] = IF i <= n THEN steps[i] ELSE Tail(old)[i - n]
    BY <1>4, <1>5, ConcatProperties
  <2>2. ~(i <= n) => i - n \in 1 .. m - 1
    BY <1>3, <1>4, <1>5
  <2> QED
    BY <1>5, <2>1, <2>2
<1>8. ASSUME OneAtATime, Behind(steps) PROVE OneAtATime'
  <2> SUFFICES ASSUME NEW s \in Threads, NEW i \in DOMAIN todo'[s], i > 1 PROVE todo'[s][i].url \notin Segments
    BY DEF OneAtATime
  <2>1. CASE s # t
    BY <1>1, <1>8, <2>1 DEF OneAtATime
  <2>2. CASE s = t
    <3>1. i \in 1 .. (n + (m - 1)) /\ todo'[s][i] = IF i <= n THEN steps[i] ELSE old[i - n + 1]
      BY <1>1, <1>6, <1>7, <2>2
    <3>2. CASE i <= n
      BY <1>4, <1>8, <3>1, <3>2 DEF Behind
    <3>3. CASE ~(i <= n)
      <4>1. i - n + 1 \in 1 .. m /\ i - n + 1 > 1
        BY <3>1, <3>3, <1>3, <1>4
      <4> QED
        BY <1>3, <1>8, <3>1, <3>3, <4>1 DEF OneAtATime, old
    <3> QED
      BY <3>2, <3>3
  <2> QED
    BY <2>1, <2>2
<1>9. ASSUME NoEnding(steps), NEW s \in Threads, Ending(s)' PROVE Ending(s)
  <2>1. PICK i \in DOMAIN todo'[s] : todo'[s][i].do = "finish_stop"
    BY <1>9 DEF Ending
  <2>2. CASE s # t
    BY <1>1, <2>1, <2>2 DEF Ending
  <2>3. CASE s = t
    <3>1. i \in 1 .. (n + (m - 1)) /\ todo'[s][i] = IF i <= n THEN steps[i] ELSE old[i - n + 1]
      BY <1>1, <1>6, <1>7, <2>1, <2>3
    <3>2. ~(i <= n)
      BY <1>4, <1>9, <2>1, <3>1 DEF NoEnding
    <3>3. i - n + 1 \in 1 .. m
      BY <3>1, <3>2, <1>3, <1>4
    <3> QED
      BY <1>3, <2>1, <2>3, <3>1, <3>2, <3>3 DEF Ending, old
  <2> QED
    BY <2>2, <2>3
<1> QED
  BY <1>8, <1>9

LEMMA StepsCalled ==
  ASSUME TypeOK, NEW t \in Threads, NEW steps \in Seq(Steps), Call(t, steps)
  PROVE  /\ OneAtATime /\ Behind(steps) => OneAtATime'
         /\ NoEnding(steps) => \A s \in Threads : Ending(s)' => Ending(s)
         /\ \A s \in Threads \ {t} : Ending(s)' => Ending(s)
<1>1. todo'[t] = steps /\ \A s \in Threads \ {t} : todo'[s] = todo[s]
  BY DEF Call, TypeOK
<1> QED
  BY <1>1 DEF OneAtATime, Behind, NoEnding, Ending

(* One step at a time has nothing behind it.                               *)
LEMMA SingleSteps ==
  /\ Behind(<<>>) /\ Silent(<<>>) /\ NoEnding(<<>>)
  /\ \A what : Behind(Step(what)) /\ Silent(Step(what)) /\ (what # "finish_stop" => NoEnding(Step(what)))
  /\ \A what, url : /\ Behind(StepWith(what, url))
                    /\ what # "finish_stop" => NoEnding(StepWith(what, url))
                    /\ url \notin Segments => Silent(StepWith(what, url))
  BY SegmentNames DEF Behind, Silent, NoEnding, Step, StepWith

LEMMA SilentIsBehind == \A steps : Silent(steps) => Behind(steps)
  BY DEF Silent, Behind

LEMMA StepAndStep ==
  ASSUME NEW one \in Seq(Steps), Len(one) <= 1, NoEnding(one), Silent(one),
         NEW what \in NamedSteps, what # "finish_stop"
  PROVE  Silent(one \o Step(what)) /\ NoEnding(one \o Step(what))
<1> DEFINE two == Step(what)
<1>1. two \in Seq(Steps) /\ Len(two) = 1 /\ two[1].url = None /\ two[1].do = what
  BY StepTyped DEF Step
<1> HIDE DEF two
<1>2. PICK n \in Nat : Len(one) = n /\ DOMAIN one = 1 .. n
  OBVIOUS
<1>3. DOMAIN (one \o two) = 1 .. (n + 1) /\ \A i \in 1 .. (n + 1) : (one \o two)[i] = IF i <= n THEN one[i] ELSE two[i - n]
  <2>1. one \in Seq(Steps) /\ two \in Seq(Steps)
    BY <1>1
  <2>2. /\ Len(one \o two) = n + 1 /\ one \o two \in Seq(Steps)
        /\ \A i \in 1 .. (n + 1) : (one \o two)[i] = IF i <= n THEN one[i] ELSE two[i - n]
    BY <1>1, <1>2, <2>1, ConcatProperties
  <2>3. DOMAIN (one \o two) = 1 .. Len(one \o two)
    BY <2>2, LenProperties, Zenon
  <2> QED
    BY <2>2, <2>3, Zenon
<1>4. \A i \in 1 .. (n + 1) : ~(i <= n) => (one \o two)[i] = two[1]
  <2> SUFFICES ASSUME NEW i \in 1 .. (n + 1), ~(i <= n) PROVE (one \o two)[i] = two[1]
    OBVIOUS
  <2>1. i - n = 1
    BY <1>2
  <2> QED
    BY <1>3, <2>1
<1>5. \A i \in DOMAIN (one \o two) : (one \o two)[i].url \notin Segments
  BY <1>1, <1>2, <1>3, <1>4, SegmentNames DEF Silent
<1>6. \A i \in DOMAIN (one \o two) : (one \o two)[i].do # "finish_stop"
  BY <1>1, <1>2, <1>3, <1>4 DEF NoEnding
<1> QED
  BY <1>5, <1>6 DEF Silent, NoEnding, two

LEMMA InvokeSingle == \A callback : Len(Invoke(callback)) <= 1 /\ NoEnding(Invoke(callback)) /\ Silent(Invoke(callback))
<1>1. /\ Len(Step("segment_finished")) <= 1 /\ Len(Step("alarm_check")) <= 1 /\ Len(Step("listen")) <= 1
      /\ Len(<<>>) <= 1
  BY DEF Step
<1>2. /\ Silent(<<>>) /\ Silent(Step("segment_finished")) /\ Silent(Step("alarm_check")) /\ Silent(Step("listen"))
      /\ NoEnding(<<>>) /\ NoEnding(Step("segment_finished")) /\ NoEnding(Step("alarm_check")) /\ NoEnding(Step("listen"))
  BY SingleSteps
<1>3. \A callback : \/ Invoke(callback) = <<>> \/ Invoke(callback) = Step("segment_finished")
                     \/ Invoke(callback) = Step("alarm_check") \/ Invoke(callback) = Step("listen")
  BY DEF Invoke
<1> QED
  BY <1>1, <1>2, <1>3, Zenon

(* What a stop leaves to do has no segment in it.                          *)
LEMMA StopSteps ==
  /\ Silent(AfterBeginStop) /\ Silent(AfterBeginStop \o StepWith("play", "sound"))
  /\ AfterBeginStop \o StepWith("play", "sound") \in Seq(Steps)
<1> DEFINE sound == StepWith("play", "sound")
<1>1. sound \in Seq(Steps) /\ Len(sound) = 1 /\ sound[1].url = "sound"
  BY StepTyped, SoundsAreFiles DEF StepWith
<1> DEFINE one == Step("player_stop")
           two == Step("finish_stop")
<1>2. /\ one \in Seq(Steps) /\ Len(one) = 1 /\ one[1].url = None
      /\ two \in Seq(Steps) /\ Len(two) = 1 /\ two[1].url = None
      /\ <<>> \in Seq(Steps) /\ Len(<<>>) = 0
      /\ AfterBeginStop = one \o <<>> \/ AfterBeginStop = one \o two
  BY StepTyped DEF AfterBeginStop, Step, NamedSteps
<1> HIDE DEF one, two
<1>3. PICK n \in {1, 2} : Len(AfterBeginStop) = n /\ \A i \in 1 .. n : AfterBeginStop[i].url = None
  <2>1. CASE AfterBeginStop = one \o <<>>
    <3>1. Len(one \o <<>>) = 1 /\ (one \o <<>>)[1] = one[1]
      BY <1>2, ConcatProperties
    <3> QED
      BY <1>2, <2>1, <3>1
  <2>2. CASE AfterBeginStop = one \o two
    <3>1. Len(one \o two) = 2 /\ (one \o two)[1] = one[1] /\ (one \o two)[2] = two[1]
      BY <1>2, ConcatProperties
    <3> QED
      BY <1>2, <2>2, <3>1
  <2> QED
    BY <1>2, <2>1, <2>2
<1>4. AfterBeginStop \in Seq(Steps) /\ DOMAIN AfterBeginStop = 1 .. n
  BY <1>3, StopTyped
<1> DEFINE stop == AfterBeginStop
<1> HIDE DEF sound, stop
<1>5. DOMAIN (stop \o sound) = 1 .. (n + 1) /\ \A i \in 1 .. (n + 1) : (stop \o sound)[i] = IF i <= n THEN stop[i] ELSE sound[i - n]
  BY <1>1, <1>3, <1>4, ConcatProperties DEF stop
<1>6. \A i \in 1 .. (n + 1) : ~(i <= n) => (stop \o sound)[i] = sound[1]
  <2> SUFFICES ASSUME NEW i \in 1 .. (n + 1), ~(i <= n) PROVE (stop \o sound)[i] = sound[1]
    OBVIOUS
  <2>1. i - n = 1
    OBVIOUS
  <2> QED
    BY <1>5, <2>1
<1>7. \A i \in DOMAIN (stop \o sound) : (stop \o sound)[i].url \notin Segments
  BY <1>1, <1>3, <1>5, <1>6, SegmentNames DEF stop
<1>8. stop \o sound \in Seq(Steps)
  BY <1>1, <1>4, ConcatProperties DEF stop
<1> QED
  BY <1>3, <1>4, <1>7, <1>8, SegmentNames DEF Silent, sound, stop

(* What a step of a thread leaves to do.                                   *)
Adds(t, steps) ==
  /\ Then(t, steps)
  /\ Behind(steps)
  /\ NoEnding(steps)
  /\ Silent(steps) \/ At(t, "start") \/ At(t, "segment_finished")

LEMMA ThreadStepAdds ==
  ASSUME TypeOK, NEW t \in Threads, ThreadStep(t)
  PROVE  todo[t] # <<>> /\ \E steps \in Seq(Steps) : Adds(t, steps)
<1>0. todo[t] # <<>>
  BY DEF ThreadStep, Start, SegmentFinished, FinishStop, Finish, Play, PlayerStop, ClearSlot, TrackFinished,
         AlarmCheck, AlarmTimesOut, RingAgain, Listen, At
<1>a. <<>> \in Seq(Steps) /\ (Then(t, <<>>) => Adds(t, <<>>))
  BY SingleSteps DEF Adds
<1>b. \A what \in NamedSteps \ {"finish_stop"} : Step(what) \in Seq(Steps) /\ (Then(t, Step(what)) => Adds(t, Step(what)))
  BY SingleSteps, StepTyped DEF Adds
<1>1. CASE Start(t)
  <2>1. Head(todo[t]).url \in Segments
    BY <1>0, <1>1, NextStep DEF Start, At
  <2>2. StepWith("play", Head(todo[t]).url) \in Seq(Steps) /\ Adds(t, StepWith("play", Head(todo[t]).url))
    BY <1>1, <2>1, SingleSteps, StepTyped, SoundsAreFiles DEF Start, Adds
  <2> QED
    BY <1>0, <2>2
<1>2. CASE SegmentFinished(t)
  <2>1. queue # <<>> => Head(queue) \in Segments
    BY DEF TypeOK
  <2>2. \/ Then(t, <<>>) \/ Then(t, Step("finish")) \/ (queue # <<>> /\ Then(t, StepWith("start", Head(queue))))
    BY <1>2 DEF SegmentFinished, MoreQueued
  <2>3. CASE Then(t, <<>>) \/ Then(t, Step("finish"))
    BY <1>0, <1>a, <1>b, <2>3 DEF NamedSteps
  <2>4. CASE queue # <<>> /\ Then(t, StepWith("start", Head(queue)))
    <3>1. StepWith("start", Head(queue)) \in Seq(Steps) /\ Adds(t, StepWith("start", Head(queue)))
      BY <1>2, <2>1, <2>4, SingleSteps, StepTyped DEF SegmentFinished, Adds
    <3> QED
      BY <1>0, <3>1
  <2> QED
    BY <2>2, <2>3, <2>4
<1>3. CASE FinishStop(t) \/ RingAgain(t)
  <2>1. Then(t, <<>>) \/ Then(t, Step("finish")) \/ Then(t, Step("alarm_check"))
    BY <1>3 DEF FinishStop, RingAgain
  <2> QED
    BY <1>0, <1>a, <1>b, <2>1 DEF NamedSteps
<1>4. CASE Finish(t) \/ Play(t) \/ ClearSlot(t) \/ AlarmTimesOut(t) \/ Listen(t)
  <2>1. Then(t, <<>>)
    BY <1>4 DEF Finish, Play, ClearSlot, AlarmTimesOut, Listen
  <2> QED
    BY <1>0, <1>a, <2>1
<1>5. CASE PlayerStop(t)
  <2> DEFINE invoked == Invoke(slot)
  <2>1. invoked \in Seq(Steps) /\ Len(invoked) <= 1 /\ NoEnding(invoked) /\ Silent(invoked)
    BY InvokeTyped, InvokeSingle DEF TypeOK
  <2> HIDE DEF invoked
  <2>2. Step("clear_slot") \in Seq(Steps)
    BY StepTyped DEF NamedSteps
  <2>3. invoked \o Step("clear_slot") \in Seq(Steps)
    BY <2>1, <2>2
  <2>4. Silent(invoked \o Step("clear_slot")) /\ NoEnding(invoked \o Step("clear_slot"))
    BY <2>1, StepAndStep DEF NamedSteps
  <2>5. Then(t, <<>>) \/ Then(t, invoked \o Step("clear_slot"))
    BY <1>5 DEF PlayerStop, invoked
  <2>6. CASE Then(t, <<>>)
    BY <1>0, <1>a, <2>6
  <2>7. CASE Then(t, invoked \o Step("clear_slot"))
    <3>1. Adds(t, invoked \o Step("clear_slot"))
      BY <2>4, <2>7, SilentIsBehind DEF Adds
    <3> QED
      BY <1>0, <2>3, <3>1
  <2> QED
    BY <2>5, <2>6, <2>7
<1>6. CASE TrackFinished(t)
  <2>1. Invoke(slot) \in Seq(Steps)
    BY InvokeTyped DEF TypeOK
  <2>2. Adds(t, Invoke(slot))
    BY <1>6, InvokeSingle, SilentIsBehind DEF TrackFinished, Adds
  <2> QED
    BY <1>0, <2>1, <2>2
<1>7. CASE AlarmCheck(t)
  <2>1. Then(t, <<>>) \/ Then(t, StepWith("play", "alarm"))
    BY <1>7 DEF AlarmCheck
  <2>2. StepWith("play", "alarm") \in Seq(Steps) /\ (Then(t, StepWith("play", "alarm")) => Adds(t, StepWith("play", "alarm")))
    BY SingleSteps, StepTyped, SoundsAreFiles, SegmentNames DEF Adds
  <2> QED
    BY <1>0, <1>a, <2>1, <2>2
<1> QED
  BY <1>1, <1>2, <1>3, <1>4, <1>5, <1>6, <1>7 DEF ThreadStep

(* A step of the player, of a timer or of a caller hands out no segment.   *)
Called(t, steps) == Call(t, steps) /\ Silent(steps)

Aside ==
  /\ UNCHANGED <<played, accepted>>
  /\ queue' = queue \/ queue' = <<>>
  /\ UNCHANGED todo \/ \E t \in Threads, steps \in Seq(Steps) : Called(t, steps)

LEMMA NextCases ==
  ASSUME TypeOK, [Next]_vars
  PROVE  (\E t \in Threads : ThreadStep(t)) \/ (\E url \in Segments : Enqueue(url)) \/ Aside
<1>1. "loop" \in Threads /\ "audio" \in Threads /\ "mpv" \in Threads /\ "grace" \in Threads
  BY DEF Threads
<1> DEFINE Calls == UNCHANGED todo \/ \E t \in Threads, steps \in Seq(Steps) : Called(t, steps)
<1>2. ASSUME NEW t \in Threads, NEW steps \in Seq(Steps), Silent(steps), Call(t, steps) PROVE Calls
  BY <1>2 DEF Called
<1>3. \A t \in Threads, what \in NamedSteps : Call(t, Step(what)) => Calls
  BY <1>2, SingleSteps, StepTyped
<1>4. \A t \in Threads, url \in {"alarm", "chime", "sound"} : Call(t, StepWith("play", url)) => Calls
  <2> SUFFICES ASSUME NEW t \in Threads, NEW url \in {"alarm", "chime", "sound"}, Call(t, StepWith("play", url))
               PROVE  Calls
    OBVIOUS
  <2>1. StepWith("play", url) \in Seq(Steps) /\ Silent(StepWith("play", url))
    BY SingleSteps, StepTyped, SoundsAreFiles, SegmentNames
  <2> QED
    BY <1>2, <2>1
<1>5. \A t \in Threads : Call(t, <<>>) => Calls
  BY <1>2, SingleSteps, StepTyped
<1> HIDE DEF Calls
<1> USE DEF coordVars, responseVars, historyVars
<1>6. ASSUME Calls, UNCHANGED <<played, accepted>>, queue' = queue \/ queue' = <<>> PROVE Aside
  BY <1>6 DEF Aside, Calls
<1>7. CASE GraceOver \/ FileEnds \/ FileFails \/ StartRefused \/ UNCHANGED vars
  <2>1. UNCHANGED <<queue, played, accepted, todo>>
    BY <1>7 DEF GraceOver, FileEnds, FileFails, StartRefused, vars
  <2> QED
    BY <1>6, <2>1 DEF Calls
<1>8. CASE FinishAfterGrace \/ OnEndFile \/ Ring \/ CancelAlarm
  <2>1. /\ UNCHANGED <<queue, played, accepted>>
        /\ \/ UNCHANGED todo \/ Call("grace", Step("finish")) \/ Call("mpv", Step("track_finished")) \/ Call("mpv", <<>>)
           \/ Call("loop", Step("alarm_check")) \/ Call("loop", Step("player_stop"))
    BY <1>8 DEF FinishAfterGrace, OnEndFile, Ring, CancelAlarm
  <2>2. UNCHANGED todo => Calls
    BY DEF Calls
  <2> QED
    BY <1>1, <1>3, <1>5, <1>6, <2>1, <2>2 DEF NamedSteps
<1>9. CASE Unmute \/ PlaySound
  <2>1. UNCHANGED <<queue, played, accepted>> /\ Call("loop", StepWith("play", "sound"))
    BY <1>9 DEF Unmute, PlaySound
  <2> QED
    BY <1>1, <1>4, <1>6, <2>1
<1>10. ASSUME NEW t \in {"loop", "audio"}, Stop(t) \/ WakeUp(t) PROVE Aside
  <2>1. /\ UNCHANGED <<played, accepted>>
        /\ queue' = queue \/ queue' = <<>>
        /\ Call(t, Step("player_stop")) \/ Call(t, AfterBeginStop) \/ Call(t, StepWith("play", "chime"))
    BY <1>10 DEF Stop, WakeUp, BeginStop
  <2>2. Call(t, AfterBeginStop) => Calls
    BY <1>1, <1>2, StopTyped, StopSteps
  <2> QED
    BY <1>1, <1>3, <1>4, <1>6, <2>1, <2>2 DEF NamedSteps
<1>11. CASE Mute
  <2>1. UNCHANGED <<played, accepted>> /\ queue' = <<>> /\ Call("loop", AfterBeginStop \o StepWith("play", "sound"))
    BY <1>11 DEF Mute, BeginStop
  <2> QED
    BY <1>1, <1>2, <1>6, <2>1, StopSteps
<1>12. CASE Disconnect
  <2> DEFINE one == Step("player_stop")
  <2>1. one \in Seq(Steps) /\ Len(one) <= 1 /\ NoEnding(one) /\ Silent(one)
    BY StepTyped, SingleSteps DEF NamedSteps, Step
  <2>2. UNCHANGED <<played, accepted>> /\ queue' = <<>> /\ (Call("loop", one) \/ Call("loop", one \o Step("ring")))
    BY <1>12 DEF Disconnect
  <2> HIDE DEF one
  <2>3. Step("ring") \in Seq(Steps)
    BY StepTyped DEF NamedSteps
  <2>4. one \o Step("ring") \in Seq(Steps) /\ Silent(one \o Step("ring"))
    BY <2>1, <2>3, StepAndStep DEF NamedSteps
  <2> QED
    BY <1>1, <1>2, <1>6, <2>1, <2>2, <2>4
<1> QED
  BY <1>7, <1>8, <1>9, <1>10, <1>11, <1>12 DEF Next

LEMMA OneAtATimeStep == TypeOK /\ OneAtATime /\ [Next]_vars => OneAtATime'
<1> SUFFICES ASSUME TypeOK, OneAtATime, [Next]_vars PROVE OneAtATime'
  OBVIOUS
<1>1. ASSUME NEW t \in Threads, ThreadStep(t) PROVE OneAtATime'
  <2>1. todo[t] # <<>> /\ \E steps \in Seq(Steps) : Adds(t, steps)
    BY <1>1, ThreadStepAdds
  <2> QED
    BY <2>1, StepsAdded DEF Adds
<1>2. CASE UNCHANGED todo
  BY <1>2 DEF OneAtATime
<1>3. ASSUME NEW url \in Segments, Enqueue(url) PROVE OneAtATime'
  <2>1. "loop" \in Threads /\ StepWith("start", url) \in Seq(Steps) /\ Behind(StepWith("start", url))
    BY StepTyped, SingleSteps DEF Threads
  <2>2. Call("loop", StepWith("start", url)) \/ UNCHANGED todo
    BY <1>3 DEF Enqueue
  <2> QED
    BY <1>2, <2>1, <2>2, StepsCalled
<1>4. CASE Aside
  <2>1. UNCHANGED todo \/ \E t \in Threads, steps \in Seq(Steps) : Called(t, steps)
    BY <1>4 DEF Aside
  <2>2. ASSUME NEW t \in Threads, NEW steps \in Seq(Steps), Called(t, steps) PROVE OneAtATime'
    BY <2>2, StepsCalled, SilentIsBehind DEF Called
  <2> QED
    BY <1>2, <2>1, <2>2
<1> QED
  BY <1>1, <1>3, <1>4, NextCases

-----------------------------------------------------------------------------
(* Segments wait only for a segment that is spoken.                        *)

Bearable == {"alarm", "chime", "error", "mute", "sound", "stop"}

(* Only a lost connection makes the coordinator ignore the end of a sound, *)
(* and only the stop word stops a response from outside the event loop: on *)
(* the loop no segment can be accepted before the stop has ended.          *)
Alive ==
  /\ ~ignore
  /\ queue # <<>> => playing
  /\ \A t \in Threads : Ending(t) => t = "loop" /\ queue = <<>>

KeptAlive == Only(Bearable) => Alive

LEMMA SameAlive ==
  ASSUME Alive, ~ignore', queue' = queue \/ queue' = <<>>, queue' # <<>> => playing',
         \A t \in Threads : Ending(t)' => Ending(t)
  PROVE  Alive'
  BY DEF Alive

LEMMA ThreadStepAlive ==
  ASSUME TypeOK, Alive, NEW t \in Threads, ThreadStep(t)
  PROVE  Alive'
<1>1. todo[t] # <<>> /\ \E steps \in Seq(Steps) : Adds(t, steps)
  BY ThreadStepAdds
<1>2. \A s \in Threads : Ending(s)' => Ending(s)
  BY <1>1, StepsAdded DEF Adds
<1> USE DEF coordVars, playerVars, satelliteVars, responseVars, historyVars
<1>3. CASE Start(t)
  BY <1>2, <1>3, SameAlive DEF Start, Alive
<1>4. CASE SegmentFinished(t)
  <2>1. ~ignore /\ queue \in Seq(Segments)
    BY DEF Alive, TypeOK
  <2>2. CASE MoreQueued
    <3>1. ~ignore' /\ playing' /\ \A s \in Threads : Ending(s) => queue = <<>>
      BY <1>4, <2>1, <2>2 DEF SegmentFinished, Alive
    <3>2. queue # <<>>
      BY <2>2 DEF MoreQueued
    <3> QED
      BY <1>2, <3>1, <3>2 DEF Alive
  <2>3. CASE ~MoreQueued
    <3>1. ~ignore' /\ queue = <<>> /\ queue' = queue
      BY <1>4, <2>1, <2>3 DEF SegmentFinished, MoreQueued
    <3> QED
      BY <1>2, <3>1, SameAlive
  <2> QED
    BY <2>2, <2>3
<1>5. CASE FinishStop(t)
  <2>1. todo[t] \in Seq(Steps) /\ todo[t] # <<>> /\ Head(todo[t]).do = "finish_stop"
    BY <1>5 DEF FinishStop, At, TypeOK
  <2>2. 1 \in DOMAIN todo[t] /\ todo[t][1] = Head(todo[t])
    BY <2>1
  <2>3. Ending(t)
    BY <2>1, <2>2 DEF Ending
  <2>4. queue = <<>>
    BY <2>3 DEF Alive
  <2> QED
    BY <1>2, <1>5, <2>4, SameAlive DEF FinishStop, Alive
<1>6. CASE Finish(t) \/ Play(t) \/ PlayerStop(t) \/ ClearSlot(t) \/ TrackFinished(t)
  BY <1>2, <1>6, SameAlive DEF Finish, Play, PlayerStop, ClearSlot, TrackFinished, Alive
<1>7. CASE AlarmCheck(t) \/ AlarmTimesOut(t) \/ RingAgain(t) \/ Listen(t)
  BY <1>2, <1>7, SameAlive DEF AlarmCheck, AlarmTimesOut, RingAgain, Listen, Alive
<1> QED
  BY <1>3, <1>4, <1>5, <1>6, <1>7 DEF ThreadStep

LEMMA KeptAliveStep == TypeOK /\ KeptAlive /\ [Next]_vars => KeptAlive'
<1> SUFFICES ASSUME TypeOK, KeptAlive, [Next]_vars, Only(Bearable)' PROVE Alive'
  BY DEF KeptAlive
<1>1. Only(Bearable) /\ Alive
  BY OnlyBefore DEF KeptAlive
<1>2. \A what : Disturb(what) => what \in Bearable
  BY DisturbOnly
<1>3. "loop" \in Threads /\ "audio" \in Threads /\ "mpv" \in Threads /\ "grace" \in Threads
  BY DEF Threads
<1> USE DEF coordVars, playerVars, satelliteVars, responseVars, historyVars
<1>4. ASSUME NEW t \in Threads, NEW steps \in Seq(Steps), NoEnding(steps), Call(t, steps)
      PROVE  \A s \in Threads : Ending(s)' => Ending(s)
  BY <1>4, StepsCalled
<1>5. ASSUME UNCHANGED todo PROVE \A s \in Threads : Ending(s)' => Ending(s)
  BY <1>5 DEF Ending
<1>a. <<>> \in Seq(Steps) /\ NoEnding(<<>>)
  BY SingleSteps
<1>b. \A what \in NamedSteps \ {"finish_stop"} : Step(what) \in Seq(Steps) /\ NoEnding(Step(what))
  BY SingleSteps, StepTyped
<1>c. \A url \in Files \ {None} : StepWith("play", url) \in Seq(Steps) /\ NoEnding(StepWith("play", url))
  BY SingleSteps, StepTyped
<1>6. ASSUME NEW t \in Threads, ThreadStep(t) PROVE Alive'
  BY <1>1, <1>6, ThreadStepAlive
<1>7. ASSUME NEW url \in Segments, Enqueue(url) PROVE Alive'
  <2>1. CASE playing
    <3>1. Free("loop") /\ ~ignore' /\ playing' /\ UNCHANGED todo
      BY <1>1, <1>7, <2>1 DEF Enqueue, Speaking, Alive
    <3>2. \A s \in Threads : ~Ending(s)
      <4>1. ~Ending("loop")
        BY <3>1 DEF Free, Ending
      <4> QED
        BY <1>1, <4>1 DEF Alive
    <3> QED
      BY <1>5, <3>1, <3>2 DEF Alive
  <2>2. CASE ~playing
    <3>1. ~ignore' /\ playing' /\ UNCHANGED queue /\ Call("loop", StepWith("start", url))
      BY <1>1, <1>7, <2>2 DEF Enqueue, Speaking, Alive
    <3>2. \A s \in Threads : Ending(s)' => Ending(s)
      BY <1>3, <1>4, <3>1, StepTyped, SingleSteps
    <3> QED
      BY <1>1, <3>1, <3>2, SameAlive
  <2> QED
    BY <2>1, <2>2
<1>8. CASE GraceOver \/ FileEnds \/ FileFails \/ StartRefused \/ UNCHANGED vars
  <2>1. UNCHANGED <<queue, playing, ignore, todo>>
    BY <1>8 DEF GraceOver, FileEnds, FileFails, StartRefused, vars
  <2> QED
    BY <1>1, <1>5, <2>1, SameAlive DEF Alive
<1>9. CASE FinishAfterGrace \/ OnEndFile \/ Ring \/ CancelAlarm
  <2>1. /\ UNCHANGED <<queue, playing, ignore>>
        /\ \/ UNCHANGED todo \/ Call("grace", Step("finish")) \/ Call("mpv", Step("track_finished")) \/ Call("mpv", <<>>)
           \/ Call("loop", Step("alarm_check")) \/ Call("loop", Step("player_stop"))
    BY <1>9 DEF FinishAfterGrace, OnEndFile, Ring, CancelAlarm
  <2>2. \A s \in Threads : Ending(s)' => Ending(s)
    BY <1>3, <1>4, <1>5, <1>a, <1>b, <2>1 DEF NamedSteps
  <2> QED
    BY <1>1, <2>1, <2>2, SameAlive DEF Alive
<1>10. CASE Unmute \/ PlaySound
  <2>1. UNCHANGED <<queue, playing, ignore>> /\ Call("loop", StepWith("play", "sound"))
    BY <1>10 DEF Unmute, PlaySound
  <2>2. \A s \in Threads : Ending(s)' => Ending(s)
    BY <1>3, <1>4, <1>c, <2>1, SoundsAreFiles
  <2> QED
    BY <1>1, <2>1, <2>2, SameAlive DEF Alive
<1>11. ASSUME NEW t \in {"loop", "audio"}, WakeUp(t) PROVE Alive'
  <2>1. UNCHANGED <<queue, playing, ignore>> /\ Call(t, StepWith("play", "chime"))
    BY <1>11 DEF WakeUp
  <2>2. \A s \in Threads : Ending(s)' => Ending(s)
    BY <1>3, <1>4, <1>c, <2>1, SoundsAreFiles
  <2> QED
    BY <1>1, <2>1, <2>2, SameAlive DEF Alive
<1>12. ASSUME NEW t \in {"loop", "audio"}, Stop(t) PROVE Alive'
  <2>1. t = "loop"
    BY <1>2, <1>12 DEF Stop, Bearable
  <2>2. CASE timerFinished
    <3>1. UNCHANGED <<queue, playing, ignore>> /\ Call(t, Step("player_stop"))
      BY <1>12, <2>2 DEF Stop
    <3>2. \A s \in Threads : Ending(s)' => Ending(s)
      BY <1>3, <1>4, <1>b, <3>1 DEF NamedSteps
    <3> QED
      BY <1>1, <3>1, <3>2, SameAlive DEF Alive
  <2>3. CASE ~timerFinished
    <3>1. queue' = <<>> /\ UNCHANGED ignore /\ Call(t, AfterBeginStop)
      BY <1>12, <2>3 DEF Stop, BeginStop
    <3>2. \A s \in Threads \ {t} : Ending(s)' => Ending(s)
      BY <1>3, <2>1, <3>1, StepsCalled, StopTyped
    <3> QED
      BY <1>1, <2>1, <3>1, <3>2 DEF Alive
  <2> QED
    BY <2>2, <2>3
<1>13. CASE Mute
  <2>1. queue' = <<>> /\ UNCHANGED ignore /\ Call("loop", AfterBeginStop \o StepWith("play", "sound"))
    BY <1>13 DEF Mute, BeginStop
  <2>2. \A s \in Threads \ {"loop"} : Ending(s)' => Ending(s)
    BY <1>3, <2>1, StepsCalled, StopSteps
  <2> QED
    BY <1>1, <2>1, <2>2 DEF Alive
<1>14. CASE Disconnect
  BY <1>2, <1>14 DEF Disconnect, Bearable
<1> QED
  BY <1>6, <1>7, <1>8, <1>9, <1>10, <1>11, <1>12, <1>13, <1>14 DEF Next

LEMMA KeptAliveInit == Init => KeptAlive
  BY DEF Init, KeptAlive, Alive, Ending

(* As long as the connection lasts and nobody says the stop word: segments *)
(* wait only for a segment that is being spoken, whatever sounds, alarms   *)
(* and play.stop do to the player, for any number of segments and threads  *)
(* in any order.                                                           *)
THEOREM QueueAlwaysAlive == Spec => []QueueKeptAlive
<1>1. TypeOK /\ KeptAlive /\ [Next]_vars => (TypeOK /\ KeptAlive)'
  BY TypeStep, KeptAliveStep
<1>2. KeptAlive => QueueKeptAlive
  BY DEF KeptAlive, QueueKeptAlive, Alive, Bearable
<1>3. Spec => [](TypeOK /\ KeptAlive)
  BY <1>1, TypeInit, KeptAliveInit, PTL DEF Spec
<1> QED
  BY <1>2, <1>3, PTL

-----------------------------------------------------------------------------
(* How often a segment stands in a sequence.                               *)

Places(q, url) == {i \in DOMAIN q : q[i] = url}

LEMMA PlacesFinite ==
  ASSUME NEW q \in Seq(Segments), NEW url
  PROVE  IsFiniteSet(Places(q, url)) /\ Times(q, url) = Cardinality(Places(q, url)) /\ Times(q, url) \in Nat
<1>1. IsFiniteSet(1 .. Len(q))
  BY FS_Interval
<1>2. Places(q, url) \in SUBSET (1 .. Len(q))
  BY DEF Places
<1>3. IsFiniteSet(Places(q, url))
  BY <1>1, <1>2, FS_Subset
<1> QED
  BY <1>3, FS_CardinalityType DEF Times, Places

LEMMA TimesEmpty == \A url : Times(<<>>, url) = 0
<1> SUFFICES ASSUME NEW url PROVE Times(<<>>, url) = 0
  OBVIOUS
<1>1. {i \in DOMAIN <<>> : <<>>[i] = url} = {}
  OBVIOUS
<1> QED
  BY <1>1, FS_EmptySet DEF Times

LEMMA TimesAppend ==
  ASSUME NEW q \in Seq(Segments), NEW x \in Segments, NEW url
  PROVE  Times(Append(q, x), url) = Times(q, url) + (IF x = url THEN 1 ELSE 0)
<1> DEFINE r == Append(q, x)
<1>1. PICK n \in Nat : Len(q) = n /\ DOMAIN q = 1 .. n
  OBVIOUS
<1>2. /\ r \in Seq(Segments) /\ DOMAIN r = 1 .. (n + 1)
      /\ r[n + 1] = x /\ \A i \in 1 .. n : r[i] = q[i]
  BY <1>1
<1>3. /\ IsFiniteSet(Places(q, url)) /\ Times(q, url) = Cardinality(Places(q, url)) /\ Times(q, url) \in Nat
      /\ Times(r, url) = Cardinality(Places(r, url))
  BY <1>2, PlacesFinite
<1> HIDE DEF r
<1>4. CASE x = url
  <2>1. Places(r, url) = Places(q, url) \cup {n + 1} /\ n + 1 \notin Places(q, url)
    BY <1>1, <1>2, <1>4 DEF Places
  <2> QED
    BY <1>3, <1>4, <2>1, FS_AddElement DEF r
<1>5. CASE x # url
  <2>1. Places(r, url) = Places(q, url)
    BY <1>1, <1>2, <1>5 DEF Places
  <2> QED
    BY <1>3, <1>5, <2>1 DEF r
<1> QED
  BY <1>4, <1>5

LEMMA TimesTail ==
  ASSUME NEW q \in Seq(Segments), q # <<>>, NEW url
  PROVE  Times(q, url) = Times(Tail(q), url) + (IF Head(q) = url THEN 1 ELSE 0)
<1> DEFINE r == Tail(q)
           S == Places(r, url)
           T == Places(q, url) \ {1}
<1>1. PICK n \in Nat : Len(q) = n /\ DOMAIN q = 1 .. n
  OBVIOUS
<1>2. n # 0 /\ r \in Seq(Segments) /\ DOMAIN r = 1 .. (n - 1) /\ Head(q) = q[1] /\ \A i \in 1 .. (n - 1) : r[i] = q[i + 1]
  BY <1>1
<1> HIDE DEF r
<1>3. /\ IsFiniteSet(Places(q, url)) /\ Times(q, url) = Cardinality(Places(q, url)) /\ Times(q, url) \in Nat
      /\ IsFiniteSet(S) /\ Times(r, url) = Cardinality(S) /\ Times(r, url) \in Nat
  BY <1>2, PlacesFinite
<1> DEFINE f == [i \in S |-> i + 1]
<1>4. f \in Bijection(S, T)
  <2>1. \A i \in S : i \in 1 .. (n - 1) /\ q[i + 1] = url
    BY <1>2 DEF Places
  <2>2. \A j \in T : j \in 2 .. n /\ q[j] = url
    BY <1>1 DEF Places
  <2>3. \A i \in S : i + 1 \in T
    BY <1>1, <1>2, <2>1 DEF Places
  <2>4. \A j \in T : j - 1 \in S /\ (j - 1) + 1 = j
    <3> SUFFICES ASSUME NEW j \in T PROVE j - 1 \in S /\ (j - 1) + 1 = j
      OBVIOUS
    <3>1. j - 1 \in 1 .. (n - 1) /\ (j - 1) + 1 = j
      BY <1>1, <2>2
    <3>2. r[j - 1] = url
      BY <1>2, <2>2, <3>1
    <3> QED
      BY <1>2, <3>1, <3>2 DEF Places
  <2> HIDE DEF S, T
  <2>5. f \in [S -> T] /\ \A i \in S : f[i] = i + 1
    BY <2>3
  <2>6. \A a, b \in S : f[a] = f[b] => a = b
    BY <2>1, <2>5
  <2>7. \A j \in T : \E i \in S : f[i] = j
    BY <2>4, <2>5
  <2> HIDE DEF f
  <2> QED
    BY <2>5, <2>6, <2>7, Fun_IsBij
<1>5. Cardinality(T) = Cardinality(S)
  <2>1. ExistsBijection(S, T)
    BY <1>4 DEF ExistsBijection
  <2> HIDE DEF S, T
  <2> QED
    BY <1>3, <2>1, FS_Bijection
<1>6. Cardinality(T) = IF 1 \in Places(q, url) THEN Cardinality(Places(q, url)) - 1 ELSE Cardinality(Places(q, url))
  BY <1>3, FS_RemoveElement
<1>7. 1 \in Places(q, url) <=> Head(q) = url
  BY <1>1, <1>2 DEF Places
<1> HIDE DEF S, T
<1>8. CASE Head(q) = url
  BY <1>3, <1>5, <1>6, <1>7, <1>8 DEF r
<1>9. CASE Head(q) # url
  BY <1>3, <1>5, <1>6, <1>7, <1>9 DEF r
<1> QED
  BY <1>8, <1>9

-----------------------------------------------------------------------------
(* No segment is spoken more often than it was accepted.                   *)

(* The threads about to start or play the segment, and how many they are.  *)
InHand(url) == {t \in Threads : todo[t] # <<>> /\ Head(todo[t]).url = url}
Hands(url) == Cardinality(InHand(url))

LEMMA HandsFinite ==
  \A url : /\ IsFiniteSet(InHand(url)) /\ Hands(url) \in Nat
           /\ IsFiniteSet(InHand(url)') /\ Hands(url)' \in Nat
<1>1. IsFiniteSet(Threads)
  <2>1. IsFiniteSet({"loop"})
    BY FS_Singleton
  <2>2. IsFiniteSet({"loop"} \cup {"audio"})
    BY <2>1, FS_AddElement
  <2>3. IsFiniteSet({"loop"} \cup {"audio"} \cup {"mpv"})
    BY <2>2, FS_AddElement
  <2>4. IsFiniteSet({"loop"} \cup {"audio"} \cup {"mpv"} \cup {"grace"})
    BY <2>3, FS_AddElement
  <2>5. Threads = {"loop"} \cup {"audio"} \cup {"mpv"} \cup {"grace"}
    BY DEF Threads
  <2> QED
    BY <2>4, <2>5
<1>2. \A S \in SUBSET Threads : IsFiniteSet(S) /\ Cardinality(S) \in Nat
  BY <1>1, FS_Subset, FS_CardinalityType
<1>3. \A url : InHand(url) \in SUBSET Threads /\ InHand(url)' \in SUBSET Threads
  BY DEF InHand
<1>4. \A url : Hands(url) = Cardinality(InHand(url)) /\ Hands(url)' = Cardinality(InHand(url)')
  BY DEF Hands
<1> QED
  BY <1>2, <1>3, <1>4

LEMMA HandsChange ==
  ASSUME NEW t \in Threads, \A s \in Threads \ {t} : todo'[s] = todo[s], NEW url
  PROVE  /\ Hands(url)' \in Nat
         /\ Hands(url)' = (Hands(url) - (IF t \in InHand(url) THEN 1 ELSE 0)) + (IF t \in InHand(url)' THEN 1 ELSE 0)
<1> DEFINE A == InHand(url)
           B == InHand(url)'
<1>1. A \ {t} = B \ {t}
  BY DEF InHand
<1>2. IsFiniteSet(A) /\ IsFiniteSet(B) /\ Hands(url) = Cardinality(A) /\ Hands(url)' = Cardinality(B)
  BY HandsFinite DEF Hands
<1>3. Cardinality(A) \in Nat /\ Cardinality(B) \in Nat
  BY <1>2, FS_CardinalityType
<1> HIDE DEF A, B
<1>4. /\ Cardinality(A \ {t}) = IF t \in A THEN Cardinality(A) - 1 ELSE Cardinality(A)
      /\ Cardinality(B \ {t}) = IF t \in B THEN Cardinality(B) - 1 ELSE Cardinality(B)
  BY <1>2, FS_RemoveElement
<1>5. Cardinality(B) = (Cardinality(A) - (IF t \in A THEN 1 ELSE 0)) + (IF t \in B THEN 1 ELSE 0)
  BY <1>1, <1>3, <1>4
<1> QED
  BY <1>2, <1>3, <1>5 DEF A, B

(* A thread takes the next step of its call.                               *)
LEMMA HandsThen ==
  ASSUME TypeOK, OneAtATime, NEW t \in Threads, todo[t] # <<>>, NEW steps \in Seq(Steps), Then(t, steps),
         NEW url \in Segments
  PROVE  /\ Hands(url) \in Nat
         /\ Hands(url)' = (Hands(url) - (IF Head(todo[t]).url = url THEN 1 ELSE 0))
                            + (IF steps # <<>> /\ Head(steps).url = url THEN 1 ELSE 0)
<1> DEFINE old == todo[t]
<1>1. todo'[t] = steps \o Tail(old) /\ \A s \in Threads \ {t} : todo'[s] = todo[s]
  BY DEF Then, TypeOK
<1>2. old \in Seq(Steps) /\ old # <<>> /\ Tail(old) \in Seq(Steps)
  BY DEF TypeOK
<1>3. Tail(old) # <<>> => Head(Tail(old)).url \notin Segments
  <2> SUFFICES ASSUME Tail(old) # <<>> PROVE Head(Tail(old)).url \notin Segments
    OBVIOUS
  <2>1. 2 \in DOMAIN old /\ Head(Tail(old)) = old[2]
    BY <1>2
  <2> QED
    BY <2>1 DEF OneAtATime
<1>4. t \in InHand(url) <=> Head(old).url = url
  BY <1>2 DEF InHand
<1>5. t \in InHand(url)' <=> todo'[t] # <<>> /\ Head(todo'[t]).url = url
  BY DEF InHand
<1> HIDE DEF old
<1>6. t \in InHand(url)' <=> steps # <<>> /\ Head(steps).url = url
  <2>1. CASE steps = <<>>
    <3>1. steps \o Tail(old) = Tail(old)
      BY <1>2, <2>1, ConcatEmptySeq
    <3> QED
      BY <1>1, <1>3, <1>5, <2>1, <3>1
  <2>2. CASE steps # <<>>
    <3>1. steps \o Tail(old) # <<>> /\ Head(steps \o Tail(old)) = Head(steps)
      BY <1>2, <2>2, ConcatProperties
    <3> QED
      BY <1>1, <1>5, <2>2, <3>1
  <2> QED
    BY <2>1, <2>2
<1>7. Hands(url)' = (Hands(url) - (IF t \in InHand(url) THEN 1 ELSE 0)) + (IF t \in InHand(url)' THEN 1 ELSE 0)
  BY <1>1, HandsChange
<1>8. Hands(url) \in Nat
  BY HandsFinite
<1> QED
  BY <1>4, <1>6, <1>7, <1>8 DEF old

(* A thread with nothing to do is called.                                  *)
LEMMA HandsCall ==
  ASSUME TypeOK, NEW t \in Threads, NEW steps \in Seq(Steps), Call(t, steps), NEW url
  PROVE  /\ Hands(url) \in Nat
         /\ Hands(url)' = Hands(url) + (IF steps # <<>> /\ Head(steps).url = url THEN 1 ELSE 0)
<1>1. todo[t] = <<>> /\ todo'[t] = steps /\ \A s \in Threads \ {t} : todo'[s] = todo[s]
  BY DEF Call, Free, TypeOK
<1>2. t \notin InHand(url) /\ (t \in InHand(url)' <=> steps # <<>> /\ Head(steps).url = url)
  BY <1>1 DEF InHand
<1>3. Hands(url)' = (Hands(url) - (IF t \in InHand(url) THEN 1 ELSE 0)) + (IF t \in InHand(url)' THEN 1 ELSE 0)
  BY <1>1, HandsChange
<1> QED
  BY <1>2, <1>3, HandsFinite

(* What was accepted covers what was spoken, what is about to be spoken    *)
(* and what waits.  Stops and lost connections only take away.             *)
Covered(url) == (Times(played, url) + Hands(url)) + Times(queue, url) <= Times(accepted, url)

AllCovered == \A url \in Segments : Covered(url)

LEMMA CountsAreNumbers ==
  ASSUME TypeOK, NEW url
  PROVE  /\ Times(played, url) \in Nat /\ Hands(url) \in Nat
         /\ Times(queue, url) \in Nat /\ Times(accepted, url) \in Nat
  BY PlacesFinite, HandsFinite DEF TypeOK

LEMMA FewerCovered ==
  ASSUME TypeOK, AllCovered, UNCHANGED <<played, accepted>>, queue' = queue \/ queue' = <<>>,
         \A url \in Segments : Hands(url)' \in Nat /\ Hands(url)' <= Hands(url)
  PROVE  AllCovered'
<1> SUFFICES ASSUME NEW url \in Segments PROVE Covered(url)'
  BY DEF AllCovered
<1>1. /\ Times(played, url) \in Nat /\ Hands(url) \in Nat
      /\ Times(queue, url) \in Nat /\ Times(accepted, url) \in Nat
  BY CountsAreNumbers
<1>2. Times(queue', url) = Times(queue, url) \/ Times(queue', url) = 0
  BY TimesEmpty
<1>3. Hands(url)' \in Nat /\ Hands(url)' <= Hands(url)
  OBVIOUS
<1>4. (Times(played, url) + Hands(url)) + Times(queue, url) <= Times(accepted, url)
  BY DEF AllCovered, Covered
<1>5. (Times(played, url) + Hands(url)') + Times(queue', url) <= Times(accepted, url)
  BY <1>1, <1>2, <1>3, <1>4
<1>6. (Times(played', url) + Hands(url)') + Times(queue', url) <= Times(accepted', url)
  BY <1>5
<1> QED
  BY <1>6 DEF Covered, Times

LEMMA ThreadStepCovered ==
  ASSUME TypeOK, OneAtATime, AllCovered, NEW t \in Threads, ThreadStep(t)
  PROVE  AllCovered'
<1>1. todo[t] # <<>> /\ \E steps \in Seq(Steps) : Adds(t, steps)
  BY ThreadStepAdds
<1> USE DEF coordVars, playerVars, satelliteVars, responseVars, historyVars
<1>2. CASE Start(t)
  <2> DEFINE steps == StepWith("play", Head(todo[t]).url)
  <2>1. Head(todo[t]).url \in Segments
    BY <1>1, <1>2, NextStep DEF Start, At
  <2>2. steps \in Seq(Steps) /\ steps # <<>> /\ Head(steps).url = Head(todo[t]).url /\ Then(t, steps)
    BY <1>2, <2>1, StepTyped, SoundsAreFiles DEF Start, StepWith
  <2> HIDE DEF steps
  <2>3. ASSUME NEW url \in Segments PROVE Hands(url)' \in Nat /\ Hands(url)' <= Hands(url)
    <3>1. /\ Hands(url) \in Nat
          /\ Hands(url)' = (Hands(url) - (IF Head(todo[t]).url = url THEN 1 ELSE 0))
                             + (IF steps # <<>> /\ Head(steps).url = url THEN 1 ELSE 0)
      BY <1>1, <2>2, HandsThen
    <3> QED
      BY <2>2, <3>1
  <2> QED
    BY <1>2, <2>3, FewerCovered DEF Start
<1>3. CASE SegmentFinished(t) /\ ~ignore /\ queue # <<>>
  <2> DEFINE steps == StepWith("start", Head(queue))
  <2>1. queue \in Seq(Segments) /\ Head(queue) \in Segments
    BY <1>3 DEF TypeOK
  <2>2. /\ steps \in Seq(Steps) /\ steps # <<>> /\ Head(steps).url = Head(queue) /\ Then(t, steps)
        /\ UNCHANGED <<played, accepted>> /\ queue' = Tail(queue)
    BY <1>3, <2>1, StepTyped DEF SegmentFinished, MoreQueued, LeftInLine, StepWith
  <2>3. Head(todo[t]).url = None
    BY <1>1, <1>3, NextStep DEF SegmentFinished, At
  <2> HIDE DEF steps
  <2> SUFFICES ASSUME NEW url \in Segments PROVE Covered(url)'
    BY DEF AllCovered
  <2>4. Hands(url) \in Nat /\ Hands(url)' = Hands(url) + (IF Head(queue) = url THEN 1 ELSE 0)
    <3>1. /\ Hands(url) \in Nat
          /\ Hands(url)' = (Hands(url) - (IF Head(todo[t]).url = url THEN 1 ELSE 0))
                             + (IF steps # <<>> /\ Head(steps).url = url THEN 1 ELSE 0)
      BY <1>1, <2>2, HandsThen
    <3> QED
      BY <2>2, <2>3, <3>1, SegmentNames
  <2>5. Times(queue, url) = Times(Tail(queue), url) + (IF Head(queue) = url THEN 1 ELSE 0)
    BY <1>3, <2>1, TimesTail
  <2>6. Tail(queue) \in Seq(Segments)
    BY <1>3, <2>1
  <2>7. Times(Tail(queue), url) \in Nat /\ Times(played, url) \in Nat /\ Times(accepted, url) \in Nat
    BY <2>6, PlacesFinite, CountsAreNumbers
  <2>8. (Times(played, url) + Hands(url)) + Times(queue, url) <= Times(accepted, url)
    BY DEF AllCovered, Covered
  <2>9. (Times(played, url) + Hands(url)') + Times(Tail(queue), url) <= Times(accepted, url)
    BY <2>4, <2>5, <2>7, <2>8
  <2>10. (Times(played', url) + Hands(url)') + Times(queue', url) <= Times(accepted', url)
    BY <2>2, <2>9
  <2> QED
    BY <2>10 DEF Covered, Times
<1>4. CASE Play(t) /\ Head(todo[t]).url \in Segments
  <2> DEFINE x == Head(todo[t]).url
  <2>1. played' = Append(played, x) /\ UNCHANGED <<queue, accepted>> /\ Then(t, <<>>) /\ x \in Segments /\ played \in Seq(Segments)
    BY <1>4 DEF Play, TypeOK
  <2> SUFFICES ASSUME NEW url \in Segments PROVE Covered(url)'
    BY DEF AllCovered
  <2>2. /\ Hands(url) \in Nat
        /\ Hands(url)' = Hands(url) - (IF x = url THEN 1 ELSE 0)
        /\ Hands(url)' \in Nat
    <3>1. /\ Hands(url) \in Nat
          /\ Hands(url)' = (Hands(url) - (IF x = url THEN 1 ELSE 0))
                             + (IF <<>> # <<>> /\ Head(<<>>).url = url THEN 1 ELSE 0)
      BY <1>1, <2>1, SingleSteps, StepTyped, HandsThen
    <3>2. Hands(url)' \in Nat
      BY HandsFinite
    <3> HIDE DEF x
    <3> QED
      BY <3>1, <3>2
  <2>3. Times(Append(played, x), url) = Times(played, url) + (IF x = url THEN 1 ELSE 0)
    BY <2>1, TimesAppend
  <2>4. Times(played, url) \in Nat /\ Times(queue, url) \in Nat /\ Times(accepted, url) \in Nat
    BY CountsAreNumbers
  <2>5. (Times(played, url) + Hands(url)) + Times(queue, url) <= Times(accepted, url)
    BY DEF AllCovered, Covered
  <2> HIDE DEF x
  <2>6. (Times(Append(played, x), url) + Hands(url)') + Times(queue, url) <= Times(accepted, url)
    BY <2>2, <2>3, <2>4, <2>5
  <2>7. (Times(played', url) + Hands(url)') + Times(queue', url) <= Times(accepted', url)
    BY <2>1, <2>6
  <2> QED
    BY <2>7 DEF Covered, Times
<1>5. CASE ~Start(t) /\ ~(SegmentFinished(t) /\ ~ignore /\ queue # <<>>) /\ ~(Play(t) /\ Head(todo[t]).url \in Segments)
  <2>1. UNCHANGED <<played, accepted, queue>>
    <3>1. CASE SegmentFinished(t)
      BY <1>5, <3>1 DEF SegmentFinished, MoreQueued
    <3>2. CASE FinishStop(t) \/ Finish(t) \/ Play(t) \/ PlayerStop(t) \/ ClearSlot(t) \/ TrackFinished(t)
      BY <1>5, <3>2 DEF FinishStop, Finish, Play, PlayerStop, ClearSlot, TrackFinished
    <3>3. CASE AlarmCheck(t) \/ AlarmTimesOut(t) \/ RingAgain(t) \/ Listen(t)
      BY <3>3 DEF AlarmCheck, AlarmTimesOut, RingAgain, Listen
    <3> QED
      BY <1>5, <3>1, <3>2, <3>3 DEF ThreadStep
  <2>2. \E steps \in Seq(Steps) : Then(t, steps) /\ Silent(steps)
    <3>1. CASE SegmentFinished(t)
      <4>1. Then(t, <<>>) \/ Then(t, Step("finish"))
        BY <1>5, <3>1 DEF SegmentFinished, MoreQueued
      <4> QED
        BY <4>1, SingleSteps, StepTyped DEF NamedSteps
    <3>2. CASE ~SegmentFinished(t)
      <4>1. ~At(t, "start") /\ ~At(t, "segment_finished")
        BY <1>5, <3>2 DEF ThreadStep, FinishStop, Finish, Play, PlayerStop, ClearSlot, TrackFinished,
              AlarmCheck, AlarmTimesOut, RingAgain, Listen, At
      <4> QED
        BY <1>1, <4>1 DEF Adds
    <3> QED
      BY <3>1, <3>2
  <2>3. PICK steps \in Seq(Steps) : Then(t, steps) /\ Silent(steps)
    BY <2>2
  <2>4. steps # <<>> => Head(steps).url \notin Segments
    BY <2>3 DEF Silent
  <2>5. ASSUME NEW url \in Segments PROVE Hands(url)' \in Nat /\ Hands(url)' <= Hands(url)
    <3>1. /\ Hands(url) \in Nat
          /\ Hands(url)' = (Hands(url) - (IF Head(todo[t]).url = url THEN 1 ELSE 0))
                             + (IF steps # <<>> /\ Head(steps).url = url THEN 1 ELSE 0)
      BY <1>1, <2>3, HandsThen
    <3>2. Hands(url)' \in Nat
      BY HandsFinite
    <3> QED
      BY <2>4, <3>1, <3>2
  <2> QED
    BY <2>1, <2>5, FewerCovered
<1> QED
  BY <1>2, <1>3, <1>4, <1>5

LEMMA EnqueueCovered ==
  ASSUME TypeOK, AllCovered, NEW x \in Segments, Enqueue(x)
  PROVE  AllCovered'
<1>1. accepted' = Append(accepted, x) /\ UNCHANGED played /\ accepted \in Seq(Segments) /\ queue \in Seq(Segments)
  BY DEF Enqueue, TypeOK
<1> SUFFICES ASSUME NEW url \in Segments PROVE Covered(url)'
  BY DEF AllCovered
<1>2. Times(accepted', url) = Times(accepted, url) + (IF x = url THEN 1 ELSE 0)
  BY <1>1, TimesAppend
<1>3. /\ Times(played, url) \in Nat /\ Hands(url) \in Nat
      /\ Times(queue, url) \in Nat /\ Times(accepted, url) \in Nat
  BY CountsAreNumbers
<1>4. (Times(played, url) + Hands(url)) + Times(queue, url) <= Times(accepted, url)
  BY DEF AllCovered, Covered
<1>5. CASE playing
  <2>1. queue' = Append(queue, x) /\ todo' = todo
    BY <1>5 DEF Enqueue, Speaking, LineUp
  <2>2. Times(queue', url) = Times(queue, url) + (IF x = url THEN 1 ELSE 0)
    BY <1>1, <2>1, TimesAppend
  <2>3. Hands(url)' = Hands(url)
    BY <2>1 DEF Hands, InHand
  <2>4. (Times(played', url) + Hands(url)') + Times(queue', url) <= Times(accepted', url)
    BY <1>1, <1>2, <1>3, <1>4, <2>2, <2>3
  <2> QED
    BY <2>4 DEF Covered, Times
<1>6. CASE ~playing
  <2> DEFINE steps == StepWith("start", x)
  <2>1. queue' = queue /\ Call("loop", steps) /\ "loop" \in Threads
    BY <1>6 DEF Enqueue, Speaking, Threads
  <2>2. steps \in Seq(Steps) /\ steps # <<>> /\ Head(steps).url = x
    BY StepTyped DEF StepWith
  <2> HIDE DEF steps
  <2>3. Hands(url)' = Hands(url) + (IF x = url THEN 1 ELSE 0)
    BY <2>1, <2>2, HandsCall
  <2>4. (Times(played', url) + Hands(url)') + Times(queue', url) <= Times(accepted', url)
    BY <1>1, <1>2, <1>3, <1>4, <2>1, <2>3
  <2> QED
    BY <2>4 DEF Covered, Times
<1> QED
  BY <1>5, <1>6

LEMMA CoveredStep == TypeOK /\ OneAtATime /\ AllCovered /\ [Next]_vars => AllCovered'
<1> SUFFICES ASSUME TypeOK, OneAtATime, AllCovered, [Next]_vars PROVE AllCovered'
  OBVIOUS
<1>1. ASSUME NEW t \in Threads, ThreadStep(t) PROVE AllCovered'
  BY <1>1, ThreadStepCovered
<1>2. ASSUME NEW url \in Segments, Enqueue(url) PROVE AllCovered'
  BY <1>2, EnqueueCovered
<1>3. CASE Aside
  <2>1. UNCHANGED <<played, accepted>> /\ (queue' = queue \/ queue' = <<>>)
    BY <1>3 DEF Aside
  <2>2. UNCHANGED todo \/ \E t \in Threads, steps \in Seq(Steps) : Called(t, steps)
    BY <1>3 DEF Aside
  <2>3. CASE UNCHANGED todo
    <3>1. \A url \in Segments : Hands(url)' \in Nat /\ Hands(url)' <= Hands(url)
      <4>1. \A url : Hands(url)' = Hands(url)
        BY <2>3 DEF Hands, InHand
      <4> QED
        BY <4>1, HandsFinite
    <3> QED
      BY <2>1, <3>1, FewerCovered
  <2>4. ASSUME NEW t \in Threads, NEW steps \in Seq(Steps), Called(t, steps) PROVE AllCovered'
    <3>1. Call(t, steps) /\ (steps # <<>> => Head(steps).url \notin Segments)
      BY <2>4 DEF Called, Silent
    <3>2. ASSUME NEW url \in Segments PROVE Hands(url)' \in Nat /\ Hands(url)' <= Hands(url)
      <4>1. /\ Hands(url) \in Nat
            /\ Hands(url)' = Hands(url) + (IF steps # <<>> /\ Head(steps).url = url THEN 1 ELSE 0)
        BY <3>1, HandsCall
      <4> QED
        BY <3>1, <4>1
    <3> QED
      BY <2>1, <3>2, FewerCovered
  <2> QED
    BY <2>2, <2>3, <2>4
<1> QED
  BY <1>1, <1>2, <1>3, NextCases

LEMMA CoveredInit == Init => OneAtATime /\ AllCovered
<1> SUFFICES ASSUME Init PROVE OneAtATime /\ AllCovered
  OBVIOUS
<1>1. OneAtATime
  BY DEF Init, OneAtATime
<1>2. ASSUME NEW url \in Segments PROVE Covered(url)
  <2>1. InHand(url) = {}
    BY DEF Init, InHand
  <2>2. Hands(url) = 0
    BY <2>1, FS_EmptySet DEF Hands
  <2>3. Times(played, url) = 0 /\ Times(queue, url) = 0 /\ Times(accepted, url) = 0
    BY TimesEmpty DEF Init
  <2> QED
    BY <2>2, <2>3 DEF Covered
<1> QED
  BY <1>1, <1>2 DEF AllCovered

(* Stops, mutings, alarms and lost connections may come at any point of a  *)
(* response, and any number of them: no segment is handed to the player    *)
(* more often than enqueue accepted it.                                    *)
THEOREM NothingEverRepeated == Spec => []NothingRepeated
<1>1. TypeOK /\ OneAtATime /\ AllCovered /\ [Next]_vars => (TypeOK /\ OneAtATime /\ AllCovered)'
  BY TypeStep, OneAtATimeStep, CoveredStep
<1>2. TypeOK /\ AllCovered => NothingRepeated
  <2> SUFFICES ASSUME TypeOK, AllCovered, NEW url \in Segments PROVE Times(played, url) <= Times(accepted, url)
    BY DEF NothingRepeated
  <2>1. /\ Times(played, url) \in Nat /\ Hands(url) \in Nat
        /\ Times(queue, url) \in Nat /\ Times(accepted, url) \in Nat
    BY CountsAreNumbers
  <2> QED
    BY <2>1 DEF AllCovered, Covered
<1>3. Spec => [](TypeOK /\ OneAtATime /\ AllCovered)
  BY <1>1, TypeInit, CoveredInit, PTL DEF Spec
<1> QED
  BY <1>2, <1>3, PTL

-----------------------------------------------------------------------------
(* Segments are spoken in the order in which they were accepted.           *)

Ordinary == {"chime", "error", "sound"}

OrdinarySteps == {"segment_finished", "finish", "track_finished", "listen", "start", "play"}

(* Without stops and alarms a thread has one thing to do at a time.        *)
Simple(steps) ==
  /\ Len(steps) <= 1
  /\ steps # <<>> => Head(steps).do \in OrdinarySteps /\ Head(steps).url # "alarm"

Carrying(steps) == steps # <<>> /\ Head(steps).url \in Segments

(* It is for whoever does this to go on with the response.                 *)
Holding(steps) == Carrying(steps) \/ (steps # <<>> /\ Head(steps).do = "segment_finished")

AllSimple ==
  /\ ~timerFinished /\ ~muted /\ ~force
  /\ slot # "alarm"
  /\ \A t \in Threads : Simple(todo[t])

(* At most one thread has the turn, or the player will give it: there is   *)
(* then nobody else who could start a segment.                             *)
OneTurn ==
  /\ \A s, t \in Threads : Holding(todo[s]) /\ Holding(todo[t]) => s = t
  /\ \A t \in Threads : Holding(todo[t]) => playing /\ slot # "segment"
  /\ slot = "segment" => playing

(* The segment in hand stands between what was spoken and what waits.      *)
Line(h) ==
  /\ accepted = played \o (h \o queue)
  /\ \A t \in Threads : Carrying(todo[t]) => h = <<Head(todo[t]).url>>
  /\ (\A t \in Threads : ~Carrying(todo[t])) => h = <<>>

InLine == \E h \in Seq(Segments) : Line(h)

Turn == AllSimple /\ OneTurn /\ InLine

TakesTurn == Only(Ordinary) => Turn

(* A thread does nothing else after this.                                  *)
Sets(t, steps) == todo'[t] = steps /\ \A s \in Threads \ {t} : todo'[s] = todo[s]

LEMMA ThenSets ==
  ASSUME TypeOK, AllSimple, NEW t \in Threads, todo[t] # <<>>, NEW steps \in Seq(Steps), Then(t, steps)
  PROVE  Sets(t, steps)
<1> DEFINE old == todo[t]
<1>1. old \in Seq(Steps) /\ old # <<>> /\ Len(old) <= 1
  BY DEF TypeOK, AllSimple, Simple
<1>2. Tail(old) = <<>>
  BY <1>1
<1>3. todo'[t] = steps \o Tail(old) /\ \A s \in Threads \ {t} : todo'[s] = todo[s]
  BY DEF Then, TypeOK
<1>4. steps \o Tail(old) = steps
  BY <1>2, ConcatEmptySeq
<1> QED
  BY <1>3, <1>4 DEF Sets

LEMMA CallSets ==
  ASSUME TypeOK, NEW t \in Threads, NEW steps \in Seq(Steps), Call(t, steps)
  PROVE  todo[t] = <<>> /\ Sets(t, steps)
  BY DEF Call, Free, Sets, TypeOK

LEMMA NoSteps == Simple(<<>>) /\ ~Holding(<<>>) /\ ~Carrying(<<>>) /\ <<>> \in Seq(Steps)
  BY DEF Simple, Holding, Carrying

LEMMA OneStep ==
  /\ \A what \in NamedSteps : ~Carrying(Step(what)) /\ (Holding(Step(what)) <=> what = "segment_finished")
  /\ \A what \in NamedSteps \cap OrdinarySteps : Simple(Step(what))
  /\ \A url : url # "alarm" => Simple(StepWith("play", url)) /\ Simple(StepWith("start", url))
  /\ \A what, url : /\ Carrying(StepWith(what, url)) <=> url \in Segments
                    /\ url \in Segments => Holding(StepWith(what, url))
                    /\ Head(StepWith(what, url)).url = url
  /\ \A url : url \notin Segments => ~Holding(StepWith("play", url))
<1>1. \A what : Len(Step(what)) <= 1 /\ Step(what) # <<>> /\ Head(Step(what)).do = what /\ Head(Step(what)).url = None
  BY DEF Step
<1>2. \A what, url : /\ Len(StepWith(what, url)) <= 1 /\ StepWith(what, url) # <<>>
                     /\ Head(StepWith(what, url)).do = what /\ Head(StepWith(what, url)).url = url
  BY DEF StepWith
<1>3. /\ \A what \in NamedSteps : ~Carrying(Step(what)) /\ (Holding(Step(what)) <=> what = "segment_finished")
      /\ \A what \in NamedSteps \cap OrdinarySteps : Simple(Step(what))
  <2>1. None # "alarm" /\ None \notin Segments
    BY SegmentNames DEF None
  <2> QED
    BY <1>1, <2>1, Zenon DEF Simple, Carrying, Holding
<1>4. \A url : url # "alarm" => Simple(StepWith("play", url)) /\ Simple(StepWith("start", url))
  <2>1. "play" \in OrdinarySteps /\ "start" \in OrdinarySteps
    BY DEF OrdinarySteps
  <2> SUFFICES ASSUME NEW url, url # "alarm" PROVE Simple(StepWith("play", url)) /\ Simple(StepWith("start", url))
    OBVIOUS
  <2>2. Simple(StepWith("play", url))
    BY <1>2, <2>1, Zenon DEF Simple
  <2>3. Simple(StepWith("start", url))
    BY <1>2, <2>1, Zenon DEF Simple
  <2> QED
    BY <2>2, <2>3
<1>5. /\ \A what, url : /\ Carrying(StepWith(what, url)) <=> url \in Segments
                        /\ url \in Segments => Holding(StepWith(what, url))
                        /\ Head(StepWith(what, url)).url = url
      /\ \A url : url \notin Segments => ~Holding(StepWith("play", url))
  BY <1>2 DEF Carrying, Holding
<1> QED
  BY <1>3, <1>4, <1>5

(* A step that has nothing to do with the response.                        *)
LEMMA TurnUntouched ==
  ASSUME Turn, NEW t \in Threads, NEW steps, Sets(t, steps), Simple(steps), ~Holding(todo[t]), ~Holding(steps),
         UNCHANGED <<playing, queue, accepted, played, force, muted>>, ~timerFinished',
         slot' = slot \/ slot' \notin {"segment", "alarm"}
  PROVE  Turn'
<1>1. todo'[t] = steps /\ \A s \in Threads \ {t} : todo'[s] = todo[s]
  BY DEF Sets
<1>2. \A s \in Threads : (Holding(todo'[s]) <=> Holding(todo[s])) /\ Simple(todo'[s])
  BY <1>1 DEF Turn, AllSimple
<1>3. \A s \in Threads : (Carrying(todo'[s]) <=> Carrying(todo[s])) /\ (Carrying(todo'[s]) => todo'[s] = todo[s])
  BY <1>1 DEF Holding
<1>4. AllSimple'
  BY <1>2 DEF Turn, AllSimple
<1>5. OneTurn'
  BY <1>2 DEF Turn, OneTurn
<1>6. InLine'
  <2>1. PICK h \in Seq(Segments) : Line(h)
    BY DEF Turn, InLine
  <2>2. Line(h)'
    BY <1>3, <2>1 DEF Line
  <2> QED
    BY <2>2 DEF InLine
<1> QED
  BY <1>4, <1>5, <1>6 DEF Turn

LEMMA TurnIdle ==
  ASSUME Turn, UNCHANGED <<todo, playing, queue, accepted, played, force, muted, slot, timerFinished>>
  PROVE  Turn'
  BY DEF Turn, AllSimple, OneTurn, InLine, Line

LEMMA PlaySegmentTurn ==
  ASSUME TypeOK, Turn, NEW t \in Threads, todo[t] # <<>>, Play(t), Head(todo[t]).url \in Segments
  PROVE  Turn'
<1> DEFINE x == Head(todo[t]).url
<1> USE DEF coordVars, satelliteVars
<1>1. Sets(t, <<>>)
  BY NoSteps, ThenSets DEF Play, Turn
<1>2. todo'[t] = <<>> /\ \A s \in Threads \ {t} : todo'[s] = todo[s]
  BY <1>1 DEF Sets
<1>3. Holding(todo[t]) /\ Carrying(todo[t])
  BY DEF Holding, Carrying
<1>4. \A s \in Threads : ~Holding(todo'[s]) /\ ~Carrying(todo'[s]) /\ Simple(todo'[s])
  BY <1>2, <1>3, NoSteps DEF Turn, OneTurn, AllSimple, Holding
<1>5. /\ slot' = "segment" /\ playing' = playing /\ playing
      /\ UNCHANGED <<queue, accepted, timerFinished, muted, force>> /\ played' = Append(played, x)
  <2>1. playing
    BY <1>3 DEF Turn, OneTurn
  <2>2. slot' = "segment" /\ played' = Append(played, x)
    <3>1. slot' = CallbackOf(x) /\ played' = Append(played, x)
      BY DEF Play
    <3> QED
      BY <3>1, SegmentNames DEF CallbackOf
  <2>3. UNCHANGED <<playing, queue, accepted, timerFinished, muted, force>>
    BY DEF Play
  <2> QED
    BY <2>1, <2>2, <2>3
<1>6. AllSimple'
  BY <1>4, <1>5 DEF Turn, AllSimple
<1>7. OneTurn'
  BY <1>4, <1>5 DEF OneTurn
<1>8. InLine'
  <2>1. PICK h \in Seq(Segments) : Line(h)
    BY DEF Turn, InLine
  <2>2. h = <<x>> /\ accepted = played \o (<<x>> \o queue)
    BY <1>3, <2>1 DEF Line
  <2> HIDE DEF x
  <2>3. played \in Seq(Segments) /\ queue \in Seq(Segments) /\ x \in Segments /\ <<x>> \in Seq(Segments)
    BY <2>1, <2>2 DEF TypeOK, x
  <2>4. played \o (<<x>> \o queue) = (played \o <<x>>) \o queue
    BY <2>3, ConcatAssociative
  <2>5. Append(played, x) = played \o <<x>>
    BY <2>3, AppendIsConcat
  <2>6. <<>> \o queue = queue /\ <<>> \in Seq(Segments)
    BY <2>3, ConcatEmptySeq
  <2>7. accepted' = played' \o (<<>> \o queue')
    BY <1>5, <2>2, <2>4, <2>5, <2>6
  <2>8. Line(<<>>)'
    BY <1>4, <2>7 DEF Line
  <2> QED
    BY <2>6, <2>8 DEF InLine
<1> QED
  BY <1>6, <1>7, <1>8 DEF Turn

LEMMA StartTurn ==
  ASSUME TypeOK, Turn, NEW t \in Threads, todo[t] # <<>>, Start(t)
  PROVE  Turn'
<1> DEFINE x == Head(todo[t]).url
           steps == StepWith("play", x)
<1> USE DEF playerVars, historyVars, responseVars
<1>1. x \in Segments
  BY NextStep DEF Start, At
<1>2. steps \in Seq(Steps) /\ steps # <<>> /\ Head(steps).url = x /\ Carrying(steps) /\ Holding(steps) /\ Simple(steps)
  <2>1. x # "alarm" /\ x \in Files \ {None}
    BY <1>1, SegmentNames, SoundsAreFiles
  <2>2. Simple(steps) /\ Carrying(steps) /\ Holding(steps) /\ Head(steps).url = x
    BY <1>1, <2>1, OneStep
  <2> QED
    BY <2>1, <2>2, StepTyped DEF Carrying
<1>3. Then(t, steps)
  BY DEF Start
<1>4. Carrying(todo[t]) /\ Holding(todo[t])
  BY <1>1 DEF Carrying, Holding
<1> HIDE DEF steps
<1>5. todo'[t] = steps /\ \A s \in Threads \ {t} : todo'[s] = todo[s]
  BY <1>2, <1>3, ThenSets DEF Sets, Turn
<1>6. \A s \in Threads : (Holding(todo'[s]) <=> Holding(todo[s])) /\ (Carrying(todo'[s]) <=> Carrying(todo[s])) /\ Simple(todo'[s])
  BY <1>2, <1>4, <1>5 DEF Turn, AllSimple
<1>7. playing' /\ UNCHANGED <<slot, queue, accepted, played, timerFinished, muted, force>>
  BY DEF Start
<1>8. AllSimple' /\ OneTurn'
  BY <1>6, <1>7 DEF Turn, AllSimple, OneTurn
<1>9. InLine'
  <2>1. PICK h \in Seq(Segments) : Line(h)
    BY DEF Turn, InLine
  <2>2. h = <<x>>
    BY <1>4, <2>1 DEF Line
  <2>3. \A s \in Threads : Carrying(todo'[s]) => h = <<Head(todo'[s]).url>>
    BY <1>2, <1>5, <1>6, <2>1, <2>2 DEF Line
  <2>4. Line(h)'
    BY <1>4, <1>6, <1>7, <2>1, <2>3 DEF Line
  <2> QED
    BY <2>4 DEF InLine
<1> QED
  BY <1>8, <1>9 DEF Turn

LEMMA SegmentFinishedTurn ==
  ASSUME TypeOK, Turn, ~ignore, NEW t \in Threads, todo[t] # <<>>, SegmentFinished(t)
  PROVE  Turn'
<1> USE DEF playerVars, satelliteVars, historyVars, responseVars
<1>1. Holding(todo[t]) /\ ~Carrying(todo[t])
  <2>1. Head(todo[t]).do = "segment_finished"
    BY DEF SegmentFinished, At
  <2>2. Head(todo[t]).url = None
    BY <2>1, NextStep
  <2> QED
    BY <2>1, <2>2, SegmentNames DEF Holding, Carrying
<1>2. slot # "segment" /\ \A s \in Threads \ {t} : ~Holding(todo[s]) /\ ~Carrying(todo[s])
  BY <1>1 DEF Turn, OneTurn, Holding
<1>3. accepted = played \o queue /\ queue \in Seq(Segments) /\ played \in Seq(Segments)
  <2>1. PICK h \in Seq(Segments) : Line(h)
    BY DEF Turn, InLine
  <2>2. h = <<>> /\ accepted = played \o (h \o queue)
    BY <1>1, <1>2, <2>1 DEF Line
  <2>3. queue \in Seq(Segments) /\ played \in Seq(Segments)
    BY DEF TypeOK
  <2>4. <<>> \o queue = queue
    BY <2>3, ConcatEmptySeq
  <2> QED
    BY <2>2, <2>3, <2>4
<1>4. CASE queue # <<>>
  <2>1. PICK x \in Segments : x = Head(queue)
    BY <1>3, <1>4
  <2> DEFINE steps == StepWith("start", x)
  <2>2. playing' /\ queue' = Tail(queue) /\ Then(t, steps) /\ UNCHANGED <<slot, accepted, played, timerFinished, muted, force>>
    BY <1>4, <2>1 DEF SegmentFinished, MoreQueued, LeftInLine
  <2>3. steps \in Seq(Steps) /\ steps # <<>> /\ Head(steps).url = x /\ Carrying(steps) /\ Holding(steps) /\ Simple(steps)
    <3>1. x # "alarm"
      BY <2>1, SegmentNames
    <3>2. Simple(steps) /\ Carrying(steps) /\ Holding(steps) /\ Head(steps).url = x
      BY <2>1, <3>1, OneStep
    <3> QED
      BY <2>1, <3>2, StepTyped DEF Carrying
  <2>4. queue = <<x>> \o Tail(queue)
    BY <1>3, <1>4, <2>1
  <2> HIDE DEF steps
  <2>5. todo'[t] = steps /\ \A s \in Threads \ {t} : todo'[s] = todo[s]
    BY <2>2, <2>3, ThenSets DEF Sets, Turn
  <2>6. AllSimple' /\ OneTurn'
    BY <1>2, <2>2, <2>3, <2>5 DEF Turn, AllSimple, OneTurn
  <2>7. \A s \in Threads : Carrying(todo'[s]) => <<x>> = <<Head(todo'[s]).url>>
    BY <1>2, <2>3, <2>5
  <2>8. accepted' = played' \o (<<x>> \o queue')
    BY <1>3, <2>2, <2>4
  <2>9. Line(<<x>>)'
    BY <2>3, <2>5, <2>7, <2>8 DEF Line
  <2>10. <<x>> \in Seq(Segments)
    BY <2>1
  <2> QED
    BY <2>6, <2>9, <2>10 DEF InLine, Turn
<1>5. CASE queue = <<>>
  <2>1. Then(t, <<>>) /\ UNCHANGED <<slot, queue, accepted, played, timerFinished, muted, force>>
    BY <1>5 DEF SegmentFinished, MoreQueued, Turn, AllSimple
  <2>2. todo'[t] = <<>> /\ \A s \in Threads \ {t} : todo'[s] = todo[s]
    BY <2>1, NoSteps, ThenSets DEF Sets, Turn
  <2>3. \A s \in Threads : ~Holding(todo'[s]) /\ ~Carrying(todo'[s]) /\ Simple(todo'[s])
    BY <1>2, <2>2, NoSteps DEF Turn, AllSimple
  <2>4. AllSimple' /\ OneTurn'
    BY <1>2, <2>1, <2>3 DEF Turn, AllSimple, OneTurn
  <2>5. <<>> \o queue = queue /\ <<>> \in Seq(Segments)
    BY <1>3, ConcatEmptySeq
  <2>6. accepted' = played' \o (<<>> \o queue')
    BY <1>3, <2>1, <2>5
  <2>7. Line(<<>>)'
    BY <2>3, <2>6 DEF Line
  <2> QED
    BY <2>4, <2>5, <2>7 DEF InLine, Turn
<1> QED
  BY <1>4, <1>5

(* A sound or a chime takes the player: a segment that plays is cut short, *)
(* and the turn is lost.                                                   *)
LEMMA PlaySoundTurn ==
  ASSUME TypeOK, Turn, NEW t \in Threads, todo[t] # <<>>, Play(t), Head(todo[t]).url \notin Segments
  PROVE  Turn'
<1> DEFINE x == Head(todo[t]).url
<1> USE DEF coordVars, satelliteVars
<1>1. Sets(t, <<>>)
  BY NoSteps, ThenSets DEF Play, Turn
<1>2. x \in Files \ {None} /\ x # "alarm" /\ Head(todo[t]).do = "play"
  BY NextStep DEF Play, At, Turn, AllSimple, Simple
<1>3. ~Holding(todo[t])
  BY <1>2 DEF Holding, Carrying
<1>4. slot' \notin {"segment", "alarm"}
  <2>1. slot' = CallbackOf(x)
    BY DEF Play
  <2>2. x \in {"chime", "sound"}
    BY <1>2 DEF Files, None
  <2>3. CallbackOf(x) \in {"chime", None}
    BY <2>2, SegmentNames DEF CallbackOf, None
  <2> QED
    BY <2>1, <2>3 DEF None
<1>5. UNCHANGED <<playing, queue, accepted, played, force, muted, timerFinished>>
  BY DEF Play
<1>6. ~timerFinished'
  BY <1>5 DEF Turn, AllSimple
<1> QED
  BY <1>1, <1>3, <1>4, <1>5, <1>6, NoSteps, TurnUntouched

LEMMA TrackFinishedTurn ==
  ASSUME TypeOK, Turn, NEW t \in Threads, todo[t] # <<>>, TrackFinished(t)
  PROVE  Turn'
<1> USE DEF coordVars, satelliteVars, historyVars, responseVars
<1>1. ~Holding(todo[t]) /\ ~Carrying(todo[t])
  <2>1. Head(todo[t]).do = "track_finished"
    BY DEF TrackFinished, At
  <2>2. Head(todo[t]).url = None
    BY <2>1, NextStep
  <2> QED
    BY <2>1, <2>2, SegmentNames DEF Holding, Carrying
<1>2. /\ slot' = None /\ UNCHANGED <<playing, queue, accepted, played, force, muted, timerFinished>>
      /\ ~timerFinished /\ ~muted /\ ~force
  BY DEF TrackFinished, Turn, AllSimple
<1>3. slot \in {None, "segment", "chime"}
  BY DEF TypeOK, Callbacks, Turn, AllSimple
<1>4. Then(t, Invoke(slot)) /\ Invoke(slot) \in Seq(Steps)
  BY InvokeTyped DEF TrackFinished, TypeOK
<1>5. Sets(t, Invoke(slot))
  BY <1>4, ThenSets DEF Turn
<1>6. CASE slot # "segment"
  <2>1. Invoke(slot) = <<>> \/ Invoke(slot) = Step("listen")
    BY <1>3, <1>6 DEF Invoke, None
  <2>2. Simple(Step("listen")) /\ ~Holding(Step("listen"))
    BY OneStep DEF NamedSteps, OrdinarySteps
  <2>3. Simple(Invoke(slot)) /\ ~Holding(Invoke(slot))
    BY <2>1, <2>2, NoSteps
  <2>4. slot' \notin {"segment", "alarm"}
    BY <1>2 DEF None
  <2> QED
    BY <1>1, <1>2, <1>5, <2>3, <2>4, TurnUntouched
<1>7. CASE slot = "segment"
  <2>1. Invoke(slot) = Step("segment_finished")
    BY <1>7 DEF Invoke
  <2> DEFINE steps == Step("segment_finished")
  <2>2. Simple(steps) /\ Holding(steps) /\ ~Carrying(steps)
    BY OneStep DEF NamedSteps, OrdinarySteps
  <2> HIDE DEF steps
  <2>3. todo'[t] = steps /\ \A s \in Threads \ {t} : todo'[s] = todo[s]
    BY <1>5, <2>1 DEF Sets, steps
  <2>4. playing /\ \A s \in Threads : ~Holding(todo[s]) /\ ~Carrying(todo[s]) /\ Simple(todo[s])
    BY <1>7 DEF Turn, OneTurn, AllSimple, Holding
  <2>5. \A s \in Threads : ~Carrying(todo'[s]) /\ Simple(todo'[s]) /\ (Holding(todo'[s]) => s = t)
    BY <2>2, <2>3, <2>4
  <2>6. AllSimple'
    BY <1>2, <2>5 DEF AllSimple, None
  <2>7. OneTurn'
    BY <1>2, <2>4, <2>5 DEF OneTurn, None
  <2>8. InLine'
    <3>1. PICK h \in Seq(Segments) : Line(h)
      BY DEF Turn, InLine
    <3>2. Line(h)'
      BY <1>2, <2>4, <2>5, <3>1 DEF Line
    <3> QED
      BY <3>2 DEF InLine
  <2> QED
    BY <2>6, <2>7, <2>8 DEF Turn
<1> QED
  BY <1>6, <1>7

(* On the loop a new segment is started at once, or it goes to the end.    *)
LEMMA EnqueueTurn ==
  ASSUME TypeOK, Turn, Alive, NEW x \in Segments, Enqueue(x)
  PROVE  Turn'
<1> USE DEF satelliteVars, playerVars
<1>1. /\ accepted' = Append(accepted, x) /\ UNCHANGED <<played, slot, timerFinished, muted, force>>
      /\ accepted \in Seq(Segments) /\ played \in Seq(Segments) /\ queue \in Seq(Segments)
  BY DEF Enqueue, TypeOK
<1>2. PICK h \in Seq(Segments) : Line(h)
  BY DEF Turn, InLine
<1>3. <<x>> \in Seq(Segments) /\ <<>> \in Seq(Segments)
  OBVIOUS
<1>4. CASE playing
  <2>1. queue' = Append(queue, x) /\ UNCHANGED <<playing, todo>>
    BY <1>4 DEF Enqueue, Speaking, LineUp
  <2>2. AllSimple' /\ OneTurn'
    BY <1>1, <2>1 DEF Turn, AllSimple, OneTurn
  <2>3. accepted' = played' \o (h \o queue')
    <3>1. accepted' = accepted \o <<x>> /\ queue' = queue \o <<x>>
      BY <1>1, <2>1, AppendIsConcat
    <3>2. accepted = played \o (h \o queue) /\ h \o queue \in Seq(Segments)
      BY <1>1, <1>2, ConcatProperties DEF Line
    <3>3. (played \o (h \o queue)) \o <<x>> = played \o ((h \o queue) \o <<x>>)
      BY <1>1, <1>3, <3>2, ConcatAssociative
    <3>4. (h \o queue) \o <<x>> = h \o (queue \o <<x>>)
      BY <1>1, <1>2, <1>3, ConcatAssociative, SMTT(30)
    <3> QED
      BY <1>1, <3>1, <3>2, <3>3, <3>4
  <2>4. Line(h)'
    BY <1>2, <2>1, <2>3 DEF Line
  <2> QED
    BY <2>2, <2>4 DEF InLine, Turn
<1>5. CASE ~playing
  <2> DEFINE steps == StepWith("start", x)
  <2>1. playing' /\ UNCHANGED queue /\ Call("loop", steps) /\ "loop" \in Threads
    BY <1>5 DEF Enqueue, Speaking, Threads
  <2>2. steps \in Seq(Steps) /\ steps # <<>> /\ Head(steps).url = x /\ Carrying(steps) /\ Holding(steps) /\ Simple(steps)
    <3>1. x # "alarm"
      BY SegmentNames
    <3>2. Simple(steps) /\ Carrying(steps) /\ Holding(steps) /\ Head(steps).url = x
      BY <3>1, OneStep
    <3> QED
      BY <3>2, StepTyped DEF Carrying
  <2> HIDE DEF steps
  <2>3. todo'["loop"] = steps /\ \A s \in Threads \ {"loop"} : todo'[s] = todo[s]
    BY <2>1, <2>2, CallSets DEF Sets
  <2>4. queue = <<>> /\ slot # "segment" /\ \A s \in Threads : ~Holding(todo[s]) /\ ~Carrying(todo[s]) /\ Simple(todo[s])
    BY <1>5 DEF Turn, OneTurn, AllSimple, Alive, Holding
  <2>5. \A s \in Threads : Simple(todo'[s]) /\ (Holding(todo'[s]) => s = "loop") /\ (Carrying(todo'[s]) => s = "loop")
    BY <2>2, <2>3, <2>4
  <2>6. AllSimple' /\ OneTurn'
    BY <1>1, <2>1, <2>4, <2>5 DEF Turn, AllSimple, OneTurn
  <2>7. accepted' = played' \o (<<x>> \o queue')
    <3>1. h = <<>> /\ accepted = played \o (<<>> \o <<>>)
      BY <1>2, <2>4 DEF Line
    <3>2. <<>> \o <<>> = <<>> /\ played \o <<>> = played /\ <<x>> \o <<>> = <<x>>
      BY <1>1, <1>3, ConcatEmptySeq
    <3>3. Append(played, x) = played \o <<x>>
      BY <1>1, AppendIsConcat
    <3> QED
      BY <1>1, <2>1, <2>4, <3>1, <3>2, <3>3
  <2>8. \A s \in Threads : Carrying(todo'[s]) => <<x>> = <<Head(todo'[s]).url>>
    BY <2>2, <2>3, <2>5
  <2>9. Line(<<x>>)'
    BY <2>1, <2>2, <2>3, <2>7, <2>8 DEF Line
  <2> QED
    BY <1>3, <2>6, <2>9 DEF InLine, Turn
<1> QED
  BY <1>4, <1>5

LEMMA ThreadStepTurn ==
  ASSUME TypeOK, Turn, Alive, NEW t \in Threads, ThreadStep(t)
  PROVE  Turn'
<1>0. todo[t] # <<>>
  BY DEF ThreadStep, Start, SegmentFinished, FinishStop, Finish, Play, PlayerStop, ClearSlot, TrackFinished,
         AlarmCheck, AlarmTimesOut, RingAgain, Listen, At
<1>1. Head(todo[t]).do \in OrdinarySteps
  BY <1>0 DEF Turn, AllSimple, Simple
<1> USE DEF coordVars, playerVars, satelliteVars, historyVars, responseVars
<1>2. CASE Start(t)
  BY <1>0, <1>2, StartTurn
<1>3. CASE SegmentFinished(t)
  BY <1>0, <1>3, SegmentFinishedTurn DEF Alive
<1>4. CASE Play(t)
  BY <1>0, <1>4, PlaySegmentTurn, PlaySoundTurn
<1>5. CASE TrackFinished(t)
  BY <1>0, <1>5, TrackFinishedTurn
<1>6. CASE Finish(t) \/ Listen(t)
  <2>1. Then(t, <<>>) /\ UNCHANGED <<playing, queue, accepted, played, force, muted, slot, timerFinished>>
    BY <1>6 DEF Finish, Listen
  <2>2. Head(todo[t]).do \in {"finish", "listen"}
    BY <1>6 DEF Finish, Listen, At
  <2>3. Head(todo[t]).url = None
    BY <1>0, <2>2, NextStep
  <2>4. ~Holding(todo[t])
    BY <2>2, <2>3, SegmentNames DEF Holding, Carrying
  <2>5. Sets(t, <<>>)
    BY <1>0, <2>1, NoSteps, ThenSets DEF Turn
  <2>6. ~timerFinished'
    BY <2>1 DEF Turn, AllSimple
  <2> QED
    BY <2>1, <2>4, <2>5, <2>6, NoSteps, TurnUntouched
<1>7. CASE FinishStop(t) \/ PlayerStop(t) \/ ClearSlot(t) \/ AlarmCheck(t) \/ AlarmTimesOut(t) \/ RingAgain(t)
  <2>1. Head(todo[t]).do \in {"finish_stop", "player_stop", "clear_slot", "alarm_check", "ring"}
    BY <1>7 DEF FinishStop, PlayerStop, ClearSlot, AlarmCheck, AlarmTimesOut, RingAgain, At
  <2> QED
    BY <1>1, <2>1 DEF OrdinarySteps
<1> QED
  BY <1>2, <1>3, <1>4, <1>5, <1>6, <1>7 DEF ThreadStep

LEMMA TakesTurnStep == TypeOK /\ KeptAlive /\ TakesTurn /\ [Next]_vars => TakesTurn'
<1> SUFFICES ASSUME TypeOK, KeptAlive, TakesTurn, [Next]_vars, Only(Ordinary)' PROVE Turn'
  BY DEF TakesTurn
<1>1. Only(Ordinary) /\ Turn
  BY OnlyBefore DEF TakesTurn
<1>2. Alive
  <2>1. Only(Bearable)
    BY <1>1 DEF Only, Ordinary, Bearable
  <2> QED
    BY <2>1 DEF KeptAlive
<1>3. \A what : Disturb(what) => what \in Ordinary
  BY DisturbOnly
<1>4. "loop" \in Threads /\ "audio" \in Threads /\ "mpv" \in Threads /\ "grace" \in Threads
  BY DEF Threads
<1> USE DEF coordVars, playerVars, satelliteVars, historyVars, responseVars
<1>5. ASSUME NEW t \in Threads, NEW steps \in Seq(Steps), Call(t, steps), Simple(steps), ~Holding(steps),
             UNCHANGED <<playing, queue, accepted, played, force, muted, slot>>, ~timerFinished'
      PROVE  Turn'
  <2>1. Sets(t, steps) /\ ~Holding(todo[t])
    BY <1>5, CallSets, NoSteps
  <2> QED
    BY <1>1, <1>5, <2>1, TurnUntouched
<1>6. /\ Step("finish") \in Seq(Steps) /\ Simple(Step("finish")) /\ ~Holding(Step("finish"))
      /\ Step("track_finished") \in Seq(Steps) /\ Simple(Step("track_finished")) /\ ~Holding(Step("track_finished"))
  BY StepTyped, OneStep DEF NamedSteps, OrdinarySteps
<1>7. \A url \in {"chime", "sound"} : /\ StepWith("play", url) \in Seq(Steps)
                                      /\ Simple(StepWith("play", url)) /\ ~Holding(StepWith("play", url))
  <2> SUFFICES ASSUME NEW url \in {"chime", "sound"}
               PROVE  StepWith("play", url) \in Seq(Steps) /\ Simple(StepWith("play", url)) /\ ~Holding(StepWith("play", url))
    OBVIOUS
  <2>1. url \in Files \ {None} /\ url # "alarm" /\ url \notin Segments
    BY SoundsAreFiles, SegmentNames
  <2> QED
    BY <2>1, StepTyped, OneStep
<1>8. ~timerFinished /\ ~muted
  BY <1>1 DEF Turn, AllSimple
<1>9. ASSUME NEW t \in Threads, ThreadStep(t) PROVE Turn'
  BY <1>1, <1>2, <1>9, ThreadStepTurn
<1>10. ASSUME NEW url \in Segments, Enqueue(url) PROVE Turn'
  BY <1>1, <1>2, <1>10, EnqueueTurn
<1>11. CASE GraceOver \/ FileEnds \/ FileFails \/ StartRefused \/ UNCHANGED vars
  <2>1. UNCHANGED <<todo, playing, queue, accepted, played, force, muted, slot, timerFinished>>
    BY <1>11 DEF GraceOver, FileEnds, FileFails, StartRefused, vars
  <2> QED
    BY <1>1, <2>1, TurnIdle
<1>12. CASE FinishAfterGrace \/ OnEndFile
  <2>1. /\ UNCHANGED <<playing, queue, accepted, played, force, muted, slot, timerFinished>>
        /\ UNCHANGED todo \/ Call("grace", Step("finish")) \/ Call("mpv", Step("track_finished")) \/ Call("mpv", <<>>)
    BY <1>12 DEF FinishAfterGrace, OnEndFile
  <2>2. CASE UNCHANGED todo
    BY <1>1, <2>1, <2>2, TurnIdle
  <2>3. CASE Call("grace", Step("finish"))
    BY <1>4, <1>5, <1>6, <1>8, <2>1, <2>3
  <2>4. CASE Call("mpv", Step("track_finished"))
    BY <1>4, <1>5, <1>6, <1>8, <2>1, <2>4
  <2>5. CASE Call("mpv", <<>>)
    BY <1>4, <1>5, <1>8, <2>1, <2>5, NoSteps
  <2> QED
    BY <2>1, <2>2, <2>3, <2>4, <2>5
<1>13. CASE PlaySound
  <2>1. UNCHANGED <<playing, queue, accepted, played, force, muted, slot, timerFinished>> /\ Call("loop", StepWith("play", "sound"))
    BY <1>13 DEF PlaySound
  <2> QED
    BY <1>4, <1>5, <1>7, <1>8, <2>1
<1>14. ASSUME NEW t \in {"loop", "audio"}, WakeUp(t) PROVE Turn'
  <2>1. UNCHANGED <<playing, queue, accepted, played, force, muted, slot>> /\ ~timerFinished' /\ Call(t, StepWith("play", "chime"))
    BY <1>14 DEF WakeUp
  <2> QED
    BY <1>4, <1>5, <1>7, <2>1
<1>15. ASSUME NEW t \in {"loop", "audio"}, Stop(t) PROVE Turn'
  BY <1>3, <1>15 DEF Stop, Ordinary
<1>16. CASE Ring \/ Mute \/ Disconnect
  BY <1>3, <1>16 DEF Ring, Mute, Disconnect, Ordinary
<1>17. CASE CancelAlarm \/ Unmute
  BY <1>8, <1>17 DEF CancelAlarm, Unmute
<1> QED
  BY <1>9, <1>10, <1>11, <1>12, <1>13, <1>14, <1>15, <1>16, <1>17 DEF Next

LEMMA TakesTurnInit == Init => TakesTurn
<1> SUFFICES ASSUME Init PROVE Turn
  BY DEF TakesTurn
<1>1. \A t \in Threads : todo[t] = <<>>
  BY DEF Init
<1>2. AllSimple /\ OneTurn
  BY <1>1, NoSteps DEF Init, AllSimple, OneTurn, None
<1>3. <<>> \in Seq(Segments) /\ <<>> \o <<>> = <<>>
  OBVIOUS
<1>4. Line(<<>>)
  BY <1>1, <1>3, NoSteps DEF Init, Line
<1> QED
  BY <1>2, <1>3, <1>4 DEF Turn, InLine

(* As long as only sounds, chimes and files that fail come between: what   *)
(* was spoken is always the beginning of what was accepted, although three *)
(* threads start segments.  There is at most one whose turn it is.         *)
THEOREM AlwaysSpokenInOrder == Spec => []SpokenInOrder
<1>1. TypeOK /\ KeptAlive /\ TakesTurn /\ [Next]_vars => (TypeOK /\ KeptAlive /\ TakesTurn)'
  BY TypeStep, KeptAliveStep, TakesTurnStep
<1>2. TypeOK /\ TakesTurn => SpokenInOrder
  <2> SUFFICES ASSUME TypeOK, Turn PROVE IsPrefix(played, accepted)
    BY DEF TakesTurn, SpokenInOrder, Ordinary
  <2>1. PICK h \in Seq(Segments) : accepted = played \o (h \o queue)
    BY DEF Turn, InLine, Line
  <2>2. played \in Seq(Segments) /\ queue \in Seq(Segments)
    BY DEF TypeOK
  <2>3. PICK rest \in Seq(Segments) : accepted = played \o rest
    BY <2>1, <2>2, ConcatProperties
  <2>4. PICK m \in Nat : Len(played) = m
    BY <2>2
  <2>a. PICK n \in Nat : Len(rest) = n
    OBVIOUS
  <2>5. /\ accepted \in Seq(Segments) /\ Len(accepted) = m + n
        /\ \A i \in 1 .. m + n : accepted[i] = IF i <= m THEN played[i] ELSE rest[i - m]
    <3>1. /\ played \o rest \in Seq(Segments) /\ Len(played \o rest) = m + n
          /\ \A i \in 1 .. m + n : (played \o rest)[i] = IF i <= m THEN played[i] ELSE rest[i - m]
      BY <2>2, <2>4, <2>a, ConcatProperties
    <3> QED
      BY <2>3, <3>1
  <2>6. \A i \in 1 .. m : accepted[i] = played[i]
    BY <2>4, <2>5
  <2>7. SubSeq(played, 1, m) = SubSeq(accepted, 1, m)
    BY <2>2, <2>4, <2>5, <2>6
  <2> QED
    BY <2>4, <2>5, <2>7 DEF IsPrefix
<1>3. Spec => [](TypeOK /\ KeptAlive /\ TakesTurn)
  BY <1>1, TypeInit, KeptAliveInit, TakesTurnInit, PTL DEF Spec
<1> QED
  BY <1>2, <1>3, PTL
=============================================================================
