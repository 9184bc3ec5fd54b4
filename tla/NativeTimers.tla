----------------------------- MODULE NativeTimers -----------------------------
(***************************************************************************)
(* The timers a satellite keeps for its Tater server, from                 *)
(* linux_voice_assistant/native_timers.py: the table of NativeTimer        *)
(* objects, the asyncio task that counts each of them down, and the alarm  *)
(* they share with the voice satellite (satellite._timer_finished and the  *)
(* stop word in state.active_wake_words).                                  *)
(*                                                                         *)
(* Everything here runs on the asyncio loop except the local ways of       *)
(* silencing the alarm, which the audio and player threads take.  Countdown*)
(* lengths are abstracted: a live countdown may elapse at any time.  What  *)
(* the alarm does to the shared speech player is in SpeechPlayback.        *)
(***************************************************************************)
EXTENDS Naturals, FiniteSets

CONSTANTS
  TimerIds,    \* ids the server gives its timers
  Labels,      \* names or durations a command may select timers by
  MaxTimers,   \* MAX_TIMERS
  MaxSerial    \* bound of the model: objects and countdown tasks ever created

ASSUME NativeTimersAssumption ==
  /\ IsFiniteSet(TimerIds)
  /\ MaxTimers \in Nat \ {0}
  /\ MaxSerial \in Nat

VARIABLES
  timers,         \* self.timers: id -> NativeTimer
  tasks,          \* _wait tasks neither finished nor cancelled
  serial,         \* how many objects and tasks were created (their identities)
  timerFinished,  \* satellite._timer_finished: the alarm is on
  stopWord,       \* the stop word is in state.active_wake_words
  connected,      \* TaterNativeClient._connected
  phase,          \* of the process: running, close() waits, close() is done
  dismissed       \* history: ids that rang when the alarm was silenced locally

alarmVars == <<timerFinished, stopWord>>
vars == <<timers, tasks, serial, timerFinished, stopWord, connected, phase,
          dismissed>>

Serials == 1..MaxSerial
Timer == [object : Serials, label : Labels, ringing : BOOLEAN]
Task == [id : TimerIds, object : Serials, serial : Serials]

TypeOK ==
  /\ DOMAIN timers \subseteq TimerIds
  /\ timers \in [DOMAIN timers -> Timer]
  /\ Cardinality(DOMAIN timers) <= MaxTimers
  /\ tasks \subseteq Task
  /\ serial \in 0..MaxSerial
  /\ timerFinished \in BOOLEAN
  /\ stopWord \in BOOLEAN
  /\ connected \in BOOLEAN
  /\ phase \in {"running", "closing", "closed"}
  /\ dismissed \subseteq DOMAIN timers

Ids == DOMAIN timers
RingingIds == {id \in DOMAIN timers : timers[id].ringing}

\* The tasks that count down the timer object stored under id.
TasksOf(id) == {t \in tasks : t.id = id /\ t.object = timers[id].object}

Without(S) == [id \in DOMAIN timers \ S |-> timers[id]]

Init ==
  /\ timers = [id \in {} |-> 0]
  /\ tasks = {}
  /\ serial = 0
  /\ timerFinished = FALSE
  /\ stopWord = FALSE
  /\ connected = FALSE
  /\ phase = "running"
  /\ dismissed = {}

-----------------------------------------------------------------------------
(* The alarm.                                                              *)

StartAlarmPlayback == timerFinished' = TRUE /\ stopWord' = TRUE

StopAlarmPlayback == timerFinished' = FALSE /\ stopWord' = FALSE

\* Mutant of RefreshAlarmPlayback: the last ringing timer leaves, the alarm stays.
NoRefresh == UNCHANGED alarmVars

\* _refresh_alarm_playback, once a command has left the timers as they are now.
RefreshAlarmPlayback ==
  IF RingingIds' = {} THEN StopAlarmPlayback ELSE UNCHANGED alarmVars

\* Mutant of RestoreRinging: connection_lost resets the alarm for good.
NoRestore(alarm) == timerFinished' = alarm /\ UNCHANGED stopWord

\* restore_ringing, with the alarm flag as connection_lost has left it.
RestoreRinging(alarm) ==
  IF RingingIds # {} /\ ~alarm
  THEN StartAlarmPlayback
  ELSE timerFinished' = alarm /\ UNCHANGED stopWord

\* Mutant of Ring: a timer that rings already starts the alarm once more.
RingAnyway(S) ==
  /\ timers' = [id \in DOMAIN timers |->
                  IF id \in S THEN [timers[id] EXCEPT !.ringing = TRUE]
                              ELSE timers[id]]
  /\ IF S = {} THEN UNCHANGED alarmVars ELSE StartAlarmPlayback

\* _ring of every timer in S; those that ring already are left alone.
Ring(S) ==
  /\ timers' = [id \in DOMAIN timers |->
                  IF id \in S THEN [timers[id] EXCEPT !.ringing = TRUE]
                              ELSE timers[id]]
  /\ IF S \subseteq RingingIds THEN UNCHANGED alarmVars ELSE StartAlarmPlayback

-----------------------------------------------------------------------------
(* _select: which timers a command is about.  Naming ids, an id or "all" is *)
(* never ambiguous; a name or a duration may match several timers.          *)

Requests == [by : {"all", "default"}] \cup [by : {"ids"}, ids : SUBSET TimerIds]
                                      \cup [by : {"label"}, label : Labels]

Matching(request) ==
  CASE request.by = "all" -> Ids
    [] request.by = "ids" -> request.ids \cap Ids
    [] request.by = "label" -> {id \in Ids : timers[id].label = request.label}
    [] request.by = "default" ->
         IF RingingIds # {} THEN RingingIds
         ELSE IF Cardinality(Ids) = 1 THEN Ids ELSE {}

Ambiguous(request) ==
  request.by = "label" /\ Cardinality(Matching(request)) > 1

Selected(request) == IF Ambiguous(request) THEN {} ELSE Matching(request)

-----------------------------------------------------------------------------
(* Commands of the server, handled while the transport is up.              *)

\* The checks of _start against the table.
RoomFor == Cardinality(Ids) < MaxTimers

\* timer.start and timer.arm (replace).  The replaced object's countdown is
\* cancelled, the new object gets one of its own.
Start(id, label, replace) ==
  /\ connected
  /\ IF id \in Ids THEN replace ELSE RoomFor
  /\ serial < MaxSerial
  /\ serial' = serial + 1
  /\ timers' = [i \in Ids \cup {id} |->
                  IF i = id
                  THEN [object |-> serial', label |-> label, ringing |-> FALSE]
                  ELSE timers[i]]
  /\ tasks' = (IF id \in Ids THEN tasks \ TasksOf(id) ELSE tasks)
                \cup {[id |-> id, object |-> serial', serial |-> serial']}
  /\ IF id \in RingingIds THEN RefreshAlarmPlayback ELSE UNCHANGED alarmVars
  /\ dismissed' = dismissed \ {id}
  /\ UNCHANGED <<connected, phase>>

\* timer.cancel and timer.clear.  The alarm is refreshed even when nothing
\* was selected.
Cancel(request) ==
  LET S == Selected(request) IN
  /\ connected
  /\ timers' = Without(S)
  /\ tasks' = tasks \ UNION {TasksOf(id) : id \in S}
  /\ RefreshAlarmPlayback
  /\ dismissed' = dismissed \ S
  /\ UNCHANGED <<serial, connected, phase>>

\* timer.snooze: every selected timer keeps its object and gets a new task.
\* The model numbers the new tasks of one command alike.
Snooze(request) ==
  LET S == Selected(request) IN
  /\ connected
  /\ serial < MaxSerial
  /\ serial' = serial + 1
  /\ timers' = [id \in Ids |-> IF id \in S
                               THEN [timers[id] EXCEPT !.ringing = FALSE]
                               ELSE timers[id]]
  /\ tasks' = (tasks \ UNION {TasksOf(id) : id \in S})
                \cup {[id |-> id, object |-> timers[id].object,
                       serial |-> serial'] : id \in S}
  /\ RefreshAlarmPlayback
  /\ dismissed' = dismissed \ S
  /\ UNCHANGED <<connected, phase>>

\* timer.alarm rings whatever matches, even an ambiguous name, and leaves the
\* countdowns running.
Alarm(request) ==
  /\ connected
  /\ Ring(Matching(request))
  /\ UNCHANGED <<tasks, serial, connected, phase, dismissed>>

-----------------------------------------------------------------------------
(* The countdown.                                                          *)

\* Mutants of StillArmed: compare ids instead of objects; ring only when online.
SameId(t) == t.id \in Ids
ArmedOnline(t) == t.id \in Ids /\ timers[t.id].object = t.object /\ connected

\* Identity check of _wait: the table still holds the object it counts for.
StillArmed(t) == t.id \in Ids /\ timers[t.id].object = t.object

Wait(t) ==
  /\ t \in tasks
  /\ tasks' = tasks \ {t}
  /\ IF StillArmed(t) THEN Ring({t.id}) ELSE UNCHANGED <<timers, alarmVars>>
  /\ UNCHANGED <<serial, connected, phase, dismissed>>

-----------------------------------------------------------------------------
(* Transport: connection, heartbeat, shutdown.                             *)

Connect ==
  /\ ~connected /\ phase = "running"
  /\ connected' = TRUE
  /\ RestoreRinging(timerFinished)
  /\ UNCHANGED <<timers, tasks, serial, phase, dismissed>>

\* _mark_disconnected: connection_lost resets the alarm flag, then the alarm
\* is restored for whatever the table says is ringing.
Disconnect ==
  /\ connected
  /\ connected' = FALSE
  /\ RestoreRinging(FALSE)
  /\ UNCHANGED <<timers, tasks, serial, phase, dismissed>>

\* Mutant of StoppedIds: a silent alarm takes every timer along.
AllIds == Ids

\* _reconcile_stopped_ringing: what a silent alarm says was stopped.
StoppedIds == RingingIds

\* status(): the heartbeat drops the timers whose alarm was silenced locally.
Heartbeat ==
  /\ connected
  /\ ~timerFinished
  /\ timers' = Without(StoppedIds)
  /\ dismissed' = dismissed \ StoppedIds
  /\ UNCHANGED <<tasks, serial, timerFinished, stopWord, connected, phase>>

\* close() cancels the countdowns of the table and waits for them, then clears
\* it; messages are still handled until the websocket is closed afterwards.
CloseBegin ==
  /\ phase = "running"
  /\ phase' = "closing"
  /\ tasks' = tasks \ UNION {TasksOf(id) : id \in Ids}
  /\ UNCHANGED <<timers, serial, timerFinished, stopWord, connected, dismissed>>

CloseEnd ==
  /\ phase = "closing"
  /\ phase' = "closed"
  /\ timers' = [id \in {} |-> 0]
  /\ StopAlarmPlayback
  /\ dismissed' = {}
  /\ UNCHANGED <<tasks, serial, connected>>

-----------------------------------------------------------------------------
(* The satellite, the player and the peripherals silence the alarm without *)
(* telling the timer table.                                                *)

Silence ==
  /\ timerFinished' = FALSE
  /\ dismissed' = IF timerFinished THEN dismissed \cup RingingIds ELSE dismissed
  /\ UNCHANGED <<timers, tasks, serial, connected, phase>>

\* satellite.stop(): the stop word, play.stop or a button.
Stop == Silence /\ stopWord' = FALSE

\* satellite.wakeup() and start_listening(): the stop word stays armed.
WakeUp == timerFinished /\ Silence /\ UNCHANGED stopWord

\* The peripheral command stop_timer_ringing.
StopTimerRinging == timerFinished /\ Silence /\ stopWord' = FALSE

\* _play_timer_finished after timer_max_ring_seconds.
AutoStop == timerFinished /\ Silence /\ stopWord' = FALSE

-----------------------------------------------------------------------------
(* The other users of the stop word.                                       *)

PlayTts ==
  /\ stopWord' = TRUE
  /\ UNCHANGED <<timers, tasks, serial, timerFinished, connected, phase, dismissed>>

TtsFinished ==
  /\ stopWord' = FALSE
  /\ UNCHANGED <<timers, tasks, serial, timerFinished, connected, phase, dismissed>>

\* A settings snapshot replaces active_wake_words by the configured wake words.
ApplyWakeWords ==
  /\ connected
  /\ stopWord' = FALSE
  /\ UNCHANGED <<timers, tasks, serial, timerFinished, connected, phase, dismissed>>

-----------------------------------------------------------------------------

Next ==
  \/ \E id \in TimerIds, label \in Labels, replace \in BOOLEAN :
        Start(id, label, replace)
  \/ \E request \in Requests :
        Cancel(request) \/ Snooze(request) \/ Alarm(request)
  \/ \E t \in tasks : Wait(t)
  \/ Connect \/ Disconnect \/ Heartbeat \/ CloseBegin \/ CloseEnd
  \/ Stop \/ WakeUp \/ StopTimerRinging \/ AutoStop
  \/ PlayTts \/ TtsFinished \/ ApplyWakeWords

Spec == Init /\ [][Next]_vars

\* The event loop runs every countdown whose sleep is over, connected or not.
Fairness == \A t \in Task : WF_vars(Wait(t))

FairSpec == Spec /\ Fairness

-----------------------------------------------------------------------------
(* Properties.                                                             *)

\* While the alarm sounds some timer of the table rings, so the server can
\* always silence it with timer.cancel or timer.snooze (_cancel, _snooze and
\* _start refresh the alarm, _wait checks identity).
AlarmHasTimer == timerFinished => RingingIds # {}

\* Every timer that has yet to ring has a live countdown of its own: no replace,
\* snooze, cancel, timer.alarm or reconnect leaves a timer that never expires.
CountdownAlive ==
  phase = "running" => \A id \in Ids \ RingingIds : TasksOf(id) # {}

\* A timer that rings is heard, unless someone silenced it on the satellite:
\* losing or regaining the transport never mutes an alarm.
RingingIsHeard ==
  \A id \in RingingIds : timerFinished \/ id \in dismissed

\* A timer starts to ring when its own countdown ends or the server says so
\* with timer.alarm: the countdown of a replaced or cancelled timer with the
\* same id never rings its successor.
RingsOnItsOwnCountdown ==
  [][\A id \in RingingIds' \ RingingIds :
        \/ \E t \in TasksOf(id) : t \notin tasks'
        \/ \E request \in Requests : Alarm(request)]_vars

\* A timer that is counting down leaves the table only by timer.cancel,
\* timer.clear or shutdown: neither the heartbeat that drops dismissed alarms
\* nor a lost connection takes a running timer with it.
CountdownSurvives ==
  [][\A id \in Ids \ RingingIds :
        \/ id \in Ids'
        \/ \E request \in Requests : Cancel(request)
        \/ CloseEnd]_vars

\* "An armed timer continues to run and ring when the Tater server is
\* unavailable": every countdown ends in an alarm or is taken off the table.
EveryCountdownEnds ==
  \A id \in TimerIds, o \in Serials :
    (id \in Ids /\ timers[id].object = o /\ ~timers[id].ringing)
      ~> (phase # "running" \/ id \notin Ids \/ timers[id].object # o \/ timers[id].ringing)

\* An alarm that fell silent sounds again for a timer that starts to ring, or
\* because the connection was lost or found, and for nothing else: a command
\* about a timer that rings already, a cancelled countdown or the heartbeat does
\* not wake a dismissed alarm.
DismissedStaysSilent ==
  [][(~timerFinished /\ timerFinished')
       => (connected' # connected \/ RingingIds' \ RingingIds # {})]_vars

=============================================================================
