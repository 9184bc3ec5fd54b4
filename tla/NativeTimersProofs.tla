------------------------- MODULE NativeTimersProofs --------------------------
(***************************************************************************)
(* Proofs about NativeTimers, for any set of timer ids, any MAX_TIMERS and *)
(* any number of objects and tasks.                                        *)
(***************************************************************************)
EXTENDS NativeTimers, FiniteSetTheorems, TLAPS

\* The four facts preserve each other: RingingIsHeard and AlarmHasTimer tie the
\* alarm flag to the table, CountdownAlive ties the tasks to it.
Inv == TypeOK /\ AlarmHasTimer /\ CountdownAlive /\ RingingIsHeard

\* The actions that change neither the table nor the tasks.
AlarmOnly == Stop \/ WakeUp \/ StopTimerRinging \/ AutoStop
               \/ PlayTts \/ TtsFinished \/ ApplyWakeWords

-----------------------------------------------------------------------------

\* A subset of the table is no larger than the table.
LEMMA SmallerTable ==
  ASSUME TypeOK, NEW S \in SUBSET Ids
  PROVE  IsFiniteSet(Ids) /\ Cardinality(S) \in Nat /\ Cardinality(S) <= Cardinality(Ids)
                          /\ Cardinality(Ids) \in Nat
BY FS_Subset, FS_CardinalityType, NativeTimersAssumption DEF TypeOK, Ids

\* _select returns timers of the table.
LEMMA SelectedInTable ==
  ASSUME TypeOK, NEW request \in Requests
  PROVE  Matching(request) \subseteq Ids /\ Selected(request) \subseteq Ids
<1>1. Matching(request) \subseteq Ids
  BY DEF Requests, Matching, RingingIds, Ids
<1>. QED
  BY <1>1 DEF Selected

\* Dropping timers from the table keeps every other entry as it is.
LEMMA WithoutType ==
  ASSUME TypeOK, NEW S \in SUBSET Ids
  PROVE  /\ DOMAIN Without(S) = Ids \ S
         /\ Without(S) \in [Ids \ S -> Timer]
         /\ \A id \in Ids \ S : Without(S)[id] = timers[id]
         /\ Cardinality(Ids \ S) <= MaxTimers
<1>1. Cardinality(Ids \ S) <= MaxTimers
  <2>1. Cardinality(Ids \ S) \in Nat /\ Cardinality(Ids \ S) <= Cardinality(Ids)
           /\ Cardinality(Ids) \in Nat
    BY SmallerTable
  <2>. QED
    BY <2>1, NativeTimersAssumption DEF TypeOK, Ids
<1>. QED
  BY <1>1 DEF TypeOK, Ids, Without

-----------------------------------------------------------------------------

\* The process starts with no timer, no task and a silent alarm.
THEOREM InitInv == Init => Inv
<1>. SUFFICES ASSUME Init PROVE Inv
  OBVIOUS
<1>1. DOMAIN timers = {}
  BY DEF Init
<1>2. Cardinality(DOMAIN timers) <= MaxTimers
  BY <1>1, FS_EmptySet, NativeTimersAssumption
<1>3. 0 \in 0..MaxSerial
  BY NativeTimersAssumption
<1>. QED
  BY <1>1, <1>2, <1>3 DEF Init, Inv, TypeOK, AlarmHasTimer, CountdownAlive, RingingIsHeard,
     RingingIds, Ids

\* timer.start and timer.arm.
LEMMA StartInv ==
  ASSUME Inv, NEW id \in TimerIds, NEW label \in Labels, NEW replace \in BOOLEAN,
         Start(id, label, replace)
  PROVE  Inv'
<1>. USE NativeTimersAssumption
<1>1. /\ serial' \in Serials /\ serial' \in 0..MaxSerial
      /\ DOMAIN timers' = Ids \cup {id}
      /\ timers'[id] = [object |-> serial', label |-> label, ringing |-> FALSE]
      /\ \A i \in Ids \ {id} : timers'[i] = timers[i]
  BY DEF Inv, TypeOK, Start, Serials, Ids
<1>2. Cardinality(DOMAIN timers') <= MaxTimers
  <2>1. IsFiniteSet(Ids) /\ Cardinality(Ids) \in Nat
    BY SmallerTable DEF Inv
  <2>2. CASE id \in Ids
    BY <1>1, <2>2, Ids \cup {id} = Ids DEF Inv, TypeOK, Ids
  <2>3. CASE id \notin Ids
    <3>1. Cardinality(Ids \cup {id}) = Cardinality(Ids) + 1
      BY <2>1, <2>3, FS_AddElement
    <3>. QED
      BY <1>1, <2>1, <2>3, <3>1 DEF Start, RoomFor
  <2>. QED
    BY <2>2, <2>3
<1>3. timers' \in [DOMAIN timers' -> Timer]
  BY <1>1 DEF Inv, TypeOK, Start, Timer, Ids
<1>4. tasks' \subseteq Task
  BY <1>1 DEF Inv, TypeOK, Start, Task
<1>5. TypeOK'
  BY <1>1, <1>2, <1>3, <1>4
     DEF Inv, TypeOK, Start, RefreshAlarmPlayback, StopAlarmPlayback, alarmVars, Ids
<1>6. RingingIds' = RingingIds \ {id}
  BY <1>1 DEF RingingIds, Ids
<1>7. AlarmHasTimer'
  BY <1>6 DEF Inv, AlarmHasTimer, Start, RefreshAlarmPlayback, StopAlarmPlayback, alarmVars
<1>8. ASSUME phase = "running", NEW i \in Ids \cup {id}, i \notin RingingIds'
      PROVE  TasksOf(i)' # {}
  <2>1. CASE i = id
    <3>. DEFINE new == [id |-> id, object |-> serial', serial |-> serial']
    <3>1. new \in tasks' /\ new.id = i /\ new.object = timers'[i].object
      BY <1>1, <2>1 DEF Start
    <3>. QED
      BY <3>1 DEF TasksOf
  <2>2. CASE i # id
    <3>1. PICK t \in TasksOf(i) : TRUE
      BY <1>6, <1>8, <2>2 DEF Inv, CountdownAlive
    <3>2. t \in tasks'
      BY <2>2, <3>1 DEF TasksOf, Start
    <3>. QED
      BY <1>1, <1>8, <2>2, <3>1, <3>2 DEF TasksOf
  <2>. QED
    BY <2>1, <2>2
<1>10. CountdownAlive'
  BY <1>1, <1>8 DEF CountdownAlive, Start, Ids
<1>9. RingingIsHeard'
  BY <1>6 DEF Inv, RingingIsHeard, Start, RefreshAlarmPlayback, StopAlarmPlayback, alarmVars
<1>. QED
  BY <1>5, <1>7, <1>9, <1>10 DEF Inv

\* timer.cancel and timer.clear.
LEMMA CancelInv ==
  ASSUME Inv, NEW request \in Requests, Cancel(request)
  PROVE  Inv'
<1>. DEFINE S == Selected(request)
<1>1. S \subseteq Ids
  BY SelectedInTable DEF Inv
<1>2. /\ DOMAIN timers' = Ids \ S
      /\ timers' \in [Ids \ S -> Timer]
      /\ \A id \in Ids \ S : timers'[id] = timers[id]
      /\ Cardinality(DOMAIN timers') <= MaxTimers
  BY <1>1, WithoutType DEF Inv, Cancel
<1>3. RingingIds' = RingingIds \ S
  BY <1>2 DEF RingingIds, Ids
<1>4. TypeOK'
  BY <1>2 DEF Inv, TypeOK, Cancel, RefreshAlarmPlayback, StopAlarmPlayback, alarmVars, Ids
<1>5. AlarmHasTimer' /\ RingingIsHeard'
  BY <1>3 DEF Inv, AlarmHasTimer, RingingIsHeard, Cancel, RefreshAlarmPlayback,
              StopAlarmPlayback, alarmVars
<1>6. CountdownAlive'
  BY <1>1, <1>2, <1>3 DEF Inv, CountdownAlive, TasksOf, Cancel, Ids, TypeOK, Task
<1>. QED
  BY <1>4, <1>5, <1>6 DEF Inv

\* timer.snooze.
LEMMA SnoozeInv ==
  ASSUME Inv, NEW request \in Requests, Snooze(request)
  PROVE  Inv'
<1>. DEFINE S == Selected(request)
<1>. USE NativeTimersAssumption
<1>1. S \subseteq Ids
  BY SelectedInTable DEF Inv
<1>2. /\ DOMAIN timers' = Ids
      /\ \A id \in Ids : timers'[id].object = timers[id].object
      /\ \A id \in S : ~timers'[id].ringing
      /\ \A id \in Ids \ S : timers'[id] = timers[id]
      /\ timers' \in [Ids -> Timer]
  <2>1. \A id \in Ids : timers[id] \in Timer
    BY DEF Inv, TypeOK, Ids
  <2>2. \A r \in Timer : /\ [r EXCEPT !.ringing = FALSE] \in Timer
                         /\ [r EXCEPT !.ringing = FALSE].object = r.object
                         /\ ~[r EXCEPT !.ringing = FALSE].ringing
    BY DEF Timer
  <2>. QED
    BY <1>1, <2>1, <2>2 DEF Snooze
<1>3. serial' \in Serials /\ serial' \in 0..MaxSerial
  BY DEF Inv, TypeOK, Snooze, Serials
<1>4. tasks' \subseteq Task
  <2>1. \A id \in S : id \in TimerIds /\ timers[id].object \in Serials
    BY <1>1 DEF Inv, TypeOK, Ids, Timer
  <2>. QED
    BY <1>3, <2>1 DEF Inv, TypeOK, Snooze, Task
<1>5. RingingIds' = RingingIds \ S
  BY <1>1, <1>2 DEF RingingIds, Ids
<1>6. TypeOK'
  BY <1>2, <1>3, <1>4 DEF Inv, TypeOK, Snooze, RefreshAlarmPlayback, StopAlarmPlayback,
                          alarmVars, Ids
<1>7. AlarmHasTimer' /\ RingingIsHeard'
  BY <1>5 DEF Inv, AlarmHasTimer, RingingIsHeard, Snooze, RefreshAlarmPlayback,
              StopAlarmPlayback, alarmVars
<1>8. ASSUME phase = "running", NEW id \in Ids, id \notin RingingIds'
      PROVE  TasksOf(id)' # {}
  <2>1. CASE id \in S
    <3>. DEFINE new == [id |-> id, object |-> timers[id].object, serial |-> serial']
    <3>1. new \in tasks' /\ new.id = id /\ new.object = timers'[id].object
      BY <1>2, <2>1 DEF Snooze
    <3>. QED
      BY <3>1 DEF TasksOf
  <2>2. CASE id \notin S
    <3>1. PICK t \in TasksOf(id) : TRUE
      BY <1>5, <1>8, <2>2 DEF Inv, CountdownAlive
    <3>2. t \in tasks'
      BY <2>2, <3>1 DEF TasksOf, Snooze
    <3>. QED
      BY <1>2, <3>1, <3>2 DEF TasksOf
  <2>. QED
    BY <2>1, <2>2
<1>9. CountdownAlive'
  BY <1>2, <1>8 DEF CountdownAlive, Snooze, Ids
<1>. QED
  BY <1>6, <1>7, <1>9 DEF Inv

\* _ring changes nothing but ringing flags, and the alarm sounds if any is new.
LEMMA RingInv ==
  ASSUME Inv, NEW S \in SUBSET Ids, Ring(S), tasks' \in SUBSET tasks,
         \A id \in Ids \ S : TasksOf(id) \subseteq tasks',
         UNCHANGED <<serial, connected, phase, dismissed>>
  PROVE  Inv'
<1>1. /\ DOMAIN timers' = Ids
      /\ timers' \in [Ids -> Timer]
      /\ \A id \in Ids : timers'[id].object = timers[id].object
      /\ RingingIds' = RingingIds \cup S
  BY DEF Inv, TypeOK, Ring, Ids, RingingIds, Timer
<1>2. TypeOK'
  BY <1>1 DEF Inv, TypeOK, Ring, StartAlarmPlayback, alarmVars, Ids
<1>3. AlarmHasTimer' /\ RingingIsHeard'
  BY <1>1 DEF Inv, AlarmHasTimer, RingingIsHeard, Ring, StartAlarmPlayback, alarmVars
<1>4. \A id \in Ids \ S : TasksOf(id)' = TasksOf(id)
  BY <1>1 DEF TasksOf
<1>5. CountdownAlive'
  BY <1>1, <1>4 DEF Inv, CountdownAlive, Ids
<1>. QED
  BY <1>2, <1>3, <1>5 DEF Inv

\* A countdown that ends.
LEMMA WaitInv ==
  ASSUME Inv, NEW t \in tasks, Wait(t)
  PROVE  Inv'
<1>1. CASE StillArmed(t)
  <2>1. {t.id} \in SUBSET Ids /\ Ring({t.id}) /\ tasks' \in SUBSET tasks
          /\ UNCHANGED <<serial, connected, phase, dismissed>>
    BY <1>1 DEF Wait, StillArmed
  <2>2. \A id \in Ids \ {t.id} : TasksOf(id) \subseteq tasks'
    BY DEF Wait, TasksOf
  <2>. QED
    BY <2>1, <2>2, RingInv
<1>2. CASE ~StillArmed(t)
  <2>1. UNCHANGED <<timers, timerFinished, stopWord, serial, connected, phase, dismissed>>
          /\ tasks' = tasks \ {t}
    BY <1>2 DEF Wait, alarmVars
  <2>2. \A id \in Ids : TasksOf(id)' = TasksOf(id)
    BY <1>2, <2>1 DEF TasksOf, StillArmed
  <2>. QED
    BY <2>1, <2>2 DEF Inv, TypeOK, AlarmHasTimer, CountdownAlive, RingingIsHeard, RingingIds, Ids
<1>. QED
  BY <1>1, <1>2

\* timer.alarm.
LEMMA AlarmInv ==
  ASSUME Inv, NEW request \in Requests, Alarm(request)
  PROVE  Inv'
<1>1. Matching(request) \in SUBSET Ids
  BY SelectedInTable DEF Inv
<1>. QED
  BY <1>1, RingInv DEF Alarm, TasksOf

\* The heartbeat.
LEMMA HeartbeatInv ==
  ASSUME Inv, Heartbeat
  PROVE  Inv'
<1>1. RingingIds \in SUBSET Ids
  BY DEF RingingIds, Ids
<1>2. /\ DOMAIN timers' = Ids \ RingingIds
      /\ timers' \in [Ids \ RingingIds -> Timer]
      /\ \A id \in Ids \ RingingIds : timers'[id] = timers[id]
      /\ Cardinality(DOMAIN timers') <= MaxTimers
  BY <1>1, WithoutType DEF Inv, Heartbeat, StoppedIds
<1>3. RingingIds' = {} /\ \A id \in Ids \ RingingIds : TasksOf(id)' = TasksOf(id)
  BY <1>2 DEF RingingIds, Ids, TasksOf, Heartbeat, StoppedIds
<1>4. TypeOK'
  BY <1>2 DEF Inv, TypeOK, Heartbeat, StoppedIds, Ids
<1>. QED
  BY <1>2, <1>3, <1>4 DEF Inv, AlarmHasTimer, RingingIsHeard, CountdownAlive, Heartbeat, StoppedIds,
                           Ids

\* Connections made and lost.
LEMMA TransportInv ==
  ASSUME Inv, Connect \/ Disconnect
  PROVE  Inv'
BY DEF Inv, TypeOK, AlarmHasTimer, RingingIsHeard, CountdownAlive, Connect, Disconnect,
       RestoreRinging, StartAlarmPlayback, RingingIds, Ids, TasksOf

\* Shutdown.
LEMMA CloseInv ==
  ASSUME Inv, CloseBegin \/ CloseEnd
  PROVE  Inv'
<1>1. CASE CloseBegin
  <2>1. UNCHANGED <<timers, serial, timerFinished, stopWord, connected, dismissed>>
          /\ tasks' \subseteq tasks /\ phase' = "closing"
    BY <1>1 DEF CloseBegin
  <2>. QED
    BY <2>1 DEF Inv, TypeOK, AlarmHasTimer, RingingIsHeard, CountdownAlive, RingingIds, Ids
<1>2. CASE CloseEnd
  <2>1. DOMAIN timers' = {} /\ timers' \in [{} -> Timer]
    BY <1>2 DEF CloseEnd
  <2>2. Cardinality(DOMAIN timers') <= MaxTimers
    BY <2>1, FS_EmptySet, NativeTimersAssumption
  <2>. QED
    BY <1>2, <2>1, <2>2 DEF Inv, TypeOK, AlarmHasTimer, RingingIsHeard, CountdownAlive,
                            RingingIds, Ids, CloseEnd, StopAlarmPlayback
<1>. QED
  BY <1>1, <1>2

\* What the rest of the satellite does to the alarm and the stop word.
LEMMA AlarmOnlyInv ==
  ASSUME Inv, AlarmOnly
  PROVE  Inv'
<1>1. /\ UNCHANGED <<timers, tasks, serial, connected, phase>>
      /\ stopWord' \in BOOLEAN
  BY DEF AlarmOnly, Stop, WakeUp, StopTimerRinging, AutoStop, Silence, PlayTts, TtsFinished,
         ApplyWakeWords, Inv, TypeOK
<1>2. \/ UNCHANGED <<timerFinished, dismissed>>
      \/ Silence
  BY DEF AlarmOnly, Stop, WakeUp, StopTimerRinging, AutoStop, PlayTts, TtsFinished,
         ApplyWakeWords
<1>3. RingingIds' = RingingIds /\ Ids' = Ids /\ RingingIds \subseteq DOMAIN timers
        /\ \A id : TasksOf(id)' = TasksOf(id)
  BY <1>1 DEF RingingIds, Ids, TasksOf
<1>4. TypeOK'
  BY <1>1, <1>2, <1>3 DEF Inv, TypeOK, Silence
<1>5. AlarmHasTimer' /\ RingingIsHeard'
  BY <1>2, <1>3 DEF Inv, AlarmHasTimer, RingingIsHeard, Silence
<1>6. CountdownAlive'
  BY <1>1, <1>3 DEF Inv, CountdownAlive
<1>. QED
  BY <1>4, <1>5, <1>6 DEF Inv

-----------------------------------------------------------------------------

\* Every step of the timer manager preserves the invariant.
THEOREM StepInv == Inv /\ [Next]_vars => Inv'
<1>. SUFFICES ASSUME Inv, [Next]_vars PROVE Inv'
  OBVIOUS
<1>1. CASE \E id \in TimerIds, label \in Labels, replace \in BOOLEAN : Start(id, label, replace)
  BY <1>1, StartInv
<1>2. CASE \E request \in Requests : Cancel(request) \/ Snooze(request) \/ Alarm(request)
  BY <1>2, CancelInv, SnoozeInv, AlarmInv
<1>3. CASE \E t \in tasks : Wait(t)
  BY <1>3, WaitInv
<1>4. CASE Connect \/ Disconnect \/ Heartbeat \/ CloseBegin \/ CloseEnd
  BY <1>4, TransportInv, HeartbeatInv, CloseInv
<1>5. CASE AlarmOnly
  BY <1>5, AlarmOnlyInv
<1>6. CASE UNCHANGED vars
  BY <1>6 DEF vars, Inv, TypeOK, AlarmHasTimer, RingingIsHeard, CountdownAlive, RingingIds,
              Ids, TasksOf
<1>. QED
  BY <1>1, <1>2, <1>3, <1>4, <1>5, <1>6 DEF Next, AlarmOnly

\* The invariant holds in every reachable state, whatever the bounds are.
THEOREM InvAlways == Spec => []Inv
BY InitInv, StepInv, PTL DEF Spec

\* The types, with at most MAX_TIMERS timers in the table (timer_limit).
THEOREM TypesAlways == Spec => []TypeOK
BY InvAlways, PTL DEF Inv

\* While the alarm sounds the table holds a ringing timer the server can cancel.
THEOREM AlarmAlwaysHasTimer == Spec => []AlarmHasTimer
BY InvAlways, PTL DEF Inv

\* No sequence of commands leaves a timer that counts down without a task.
THEOREM CountdownAlwaysAlive == Spec => []CountdownAlive
BY InvAlways, PTL DEF Inv

\* Only a local dismissal separates a ringing timer from a sounding alarm.
THEOREM RingingAlwaysHeard == Spec => []RingingIsHeard
BY InvAlways, PTL DEF Inv

-----------------------------------------------------------------------------
(* What may make a timer ring.                                             *)

\* _ring rings the timers it is given and no other.
LEMMA RingOnly ==
  ASSUME TypeOK, NEW S, Ring(S)
  PROVE  RingingIds' \subseteq RingingIds \cup S
BY DEF TypeOK, Ring, RingingIds, Timer

\* Whoever begins to ring does so in a step of its own countdown or of timer.alarm.
LEMMA NewlyRinging ==
  ASSUME Inv, [Next]_vars, NEW id \in RingingIds' \ RingingIds
  PROVE  \/ \E t \in TasksOf(id) : t \notin tasks'
         \/ \E request \in Requests : Alarm(request)
<1>1. ASSUME NEW i \in TimerIds, NEW label \in Labels, NEW replace \in BOOLEAN,
             Start(i, label, replace)
      PROVE  RingingIds' \subseteq RingingIds
  BY <1>1 DEF Start, RingingIds, Ids
<1>2. ASSUME NEW request \in Requests, Cancel(request) \/ Snooze(request)
      PROVE  RingingIds' \subseteq RingingIds
  <2>1. CASE Cancel(request)
    BY <2>1 DEF Cancel, Without, RingingIds, Ids
  <2>2. CASE Snooze(request)
    <3>1. \A i \in Ids : timers[i] \in Timer
      BY DEF Inv, TypeOK, Ids
    <3>2. \A r \in Timer : ~[r EXCEPT !.ringing = FALSE].ringing
      BY DEF Timer
    <3>3. /\ DOMAIN timers' = Ids
          /\ \A i \in Ids : timers'[i].ringing => timers'[i] = timers[i]
      BY <2>2, <3>1, <3>2 DEF Snooze
    <3>. QED
      BY <3>3 DEF RingingIds, Ids
  <2>. QED
    BY <1>2, <2>1, <2>2
<1>3. ASSUME NEW t \in tasks, Wait(t)
      PROVE  t \in TasksOf(id) /\ t \notin tasks'
  <2>1. StillArmed(t) /\ Ring({t.id})
    BY <1>3 DEF Wait, RingingIds
  <2>2. id = t.id
    BY <2>1, RingOnly DEF Inv
  <2>. QED
    BY <1>3, <2>1, <2>2 DEF Wait, StillArmed, TasksOf
<1>4. ASSUME Connect \/ Disconnect \/ Heartbeat \/ CloseBegin \/ CloseEnd
      PROVE  RingingIds' \subseteq RingingIds
  BY <1>4 DEF Connect, Disconnect, Heartbeat, StoppedIds, CloseBegin,
              CloseEnd, Without, RingingIds, Ids
<1>5. ASSUME AlarmOnly \/ UNCHANGED vars
      PROVE  RingingIds' \subseteq RingingIds
  BY <1>5 DEF AlarmOnly, Stop, WakeUp, StopTimerRinging, AutoStop, Silence, PlayTts,
              TtsFinished, ApplyWakeWords, vars, RingingIds
<1>. QED
  BY <1>1, <1>2, <1>3, <1>4, <1>5 DEF Next, AlarmOnly

\* The countdown of a replaced, cancelled or dismissed timer never rings the
\* timer that took its id.
THEOREM RingsOnlyOnItsOwnCountdown == Spec => RingsOnItsOwnCountdown
<1>1. Inv /\ [Next]_vars =>
        [\A id \in RingingIds' \ RingingIds :
           \/ \E t \in TasksOf(id) : t \notin tasks'
           \/ \E request \in Requests : Alarm(request)]_vars
  BY NewlyRinging
<1>. QED
  BY <1>1, InvAlways, PTL DEF Spec, RingsOnItsOwnCountdown

-----------------------------------------------------------------------------
(* What may take a running timer away, and what may wake a silent alarm.   *)

\* _ring adds the timers it is given to those that ring.
LEMMA RingAll ==
  ASSUME TypeOK, NEW S \in SUBSET Ids, Ring(S)
  PROVE  DOMAIN timers' = Ids /\ RingingIds' = RingingIds \cup S
  BY DEF TypeOK, Ring, RingingIds, Timer, Ids

\* A countdown that ends leaves the table as large as it was, and starts the alarm
\* for its own timer only.
LEMMA WaitRings ==
  ASSUME TypeOK, NEW t \in tasks, Wait(t)
  PROVE  /\ Ids' = Ids
         /\ ~timerFinished /\ timerFinished' => RingingIds' \ RingingIds # {}
<1>1. CASE StillArmed(t)
  <2>1. {t.id} \in SUBSET Ids /\ Ring({t.id})
    BY <1>1 DEF Wait, StillArmed
  <2>2. DOMAIN timers' = Ids /\ RingingIds' = RingingIds \cup {t.id}
    BY <2>1, RingAll
  <2>. QED
    BY <2>1, <2>2 DEF Ring, alarmVars, Ids
<1>2. CASE ~StillArmed(t)
  BY <1>2 DEF Wait, alarmVars, Ids
<1>. QED
  BY <1>1, <1>2

\* timer.alarm does the same for the timers that match.
LEMMA AlarmRings ==
  ASSUME TypeOK, NEW request \in Requests, Alarm(request)
  PROVE  /\ Ids' = Ids
         /\ ~timerFinished /\ timerFinished' => RingingIds' \ RingingIds # {}
<1>1. Matching(request) \in SUBSET Ids /\ Ring(Matching(request))
  BY SelectedInTable DEF Alarm
<1>2. DOMAIN timers' = Ids /\ RingingIds' = RingingIds \cup Matching(request)
  BY <1>1, RingAll
<1>. QED
  BY <1>1, <1>2 DEF Ring, alarmVars, Ids

\* A timer that counts down is only taken by timer.cancel, timer.clear or shutdown.
LEMMA RunningStays ==
  ASSUME Inv, [Next]_vars, NEW id \in Ids \ RingingIds
  PROVE  id \in Ids' \/ (\E request \in Requests : Cancel(request)) \/ CloseEnd
<1>1. ASSUME NEW i \in TimerIds, NEW label \in Labels, NEW replace \in BOOLEAN, Start(i, label, replace)
      PROVE  id \in Ids'
  BY <1>1 DEF Start, Ids
<1>2. ASSUME NEW request \in Requests, Snooze(request) \/ Alarm(request) PROVE id \in Ids'
  BY <1>2, AlarmRings DEF Snooze, Ids, Inv
<1>3. ASSUME NEW t \in tasks, Wait(t) PROVE id \in Ids'
  BY <1>3, WaitRings DEF Inv
<1>4. CASE Connect \/ Disconnect \/ Heartbeat \/ CloseBegin
  BY <1>4 DEF Connect, Disconnect, Heartbeat, StoppedIds, Without, CloseBegin, Ids
<1>5. CASE AlarmOnly \/ UNCHANGED vars
  BY <1>5 DEF AlarmOnly, Stop, WakeUp, StopTimerRinging, AutoStop, Silence, PlayTts,
              TtsFinished, ApplyWakeWords, vars, Ids
<1>. QED
  BY <1>1, <1>2, <1>3, <1>4, <1>5 DEF Next, AlarmOnly

\* Neither the heartbeat that drops dismissed alarms nor a lost connection takes
\* a running timer with it (_reconcile_stopped_ringing).
THEOREM CountdownAlwaysSurvives == Spec => CountdownSurvives
<1>1. Inv /\ [Next]_vars =>
        [\A id \in Ids \ RingingIds :
           \/ id \in Ids'
           \/ \E request \in Requests : Cancel(request)
           \/ CloseEnd]_vars
  BY RunningStays
<1>. QED
  BY <1>1, InvAlways, PTL DEF Spec, CountdownSurvives

\* The alarm only starts for a timer that starts to ring, or with the connection.
LEMMA SilentStays ==
  ASSUME Inv, [Next]_vars, ~timerFinished, timerFinished'
  PROVE  connected' # connected \/ RingingIds' \ RingingIds # {}
<1>1. ASSUME NEW i \in TimerIds, NEW label \in Labels, NEW replace \in BOOLEAN, Start(i, label, replace)
      PROVE  FALSE
  BY <1>1 DEF Start, RefreshAlarmPlayback, StopAlarmPlayback, alarmVars
<1>2. ASSUME NEW request \in Requests, Cancel(request) \/ Snooze(request) PROVE FALSE
  BY <1>2 DEF Cancel, Snooze, RefreshAlarmPlayback, StopAlarmPlayback, alarmVars
<1>3. ASSUME NEW request \in Requests, Alarm(request) PROVE RingingIds' \ RingingIds # {}
  BY <1>3, AlarmRings DEF Inv
<1>4. ASSUME NEW t \in tasks, Wait(t) PROVE RingingIds' \ RingingIds # {}
  BY <1>4, WaitRings DEF Inv
<1>5. CASE Connect \/ Disconnect
  <2>1. connected \in BOOLEAN /\ connected' \in BOOLEAN /\ (connected' <=> ~connected)
    BY <1>5 DEF Connect, Disconnect, Inv, TypeOK
  <2>. QED
    BY <2>1
<1>6. CASE Heartbeat \/ CloseBegin \/ CloseEnd \/ AlarmOnly \/ UNCHANGED vars
  BY <1>6 DEF Heartbeat, CloseBegin, CloseEnd, StopAlarmPlayback, AlarmOnly, Stop, WakeUp, StopTimerRinging,
              AutoStop, Silence, PlayTts, TtsFinished, ApplyWakeWords, vars
<1>. QED
  BY <1>1, <1>2, <1>3, <1>4, <1>5, <1>6 DEF Next, AlarmOnly

\* A command about a timer that rings already, a cancelled countdown or the
\* heartbeat does not wake a dismissed alarm (_ring, _refresh_alarm_playback).
THEOREM DismissedAlwaysStaysSilent == Spec => DismissedStaysSilent
<1>1. Inv /\ [Next]_vars =>
        [(~timerFinished /\ timerFinished')
           => (connected' # connected \/ RingingIds' \ RingingIds # {})]_vars
  BY SilentStays
<1>. QED
  BY <1>1, InvAlways, PTL DEF Spec, DismissedStaysSilent

=============================================================================
