---------------------------- MODULE SpeechPlayback ----------------------------
(***************************************************************************)
(* How speech and other sounds share the one speech player of a satellite: *)
(* the TTS segment coordinator and the timer-finished loop of              *)
(* linux_voice_assistant/satellite.py, over MpvMediaPlayer (mpv_player.py) *)
(* and LibMpvPlayer (player/libmpv.py).                                    *)
(*                                                                         *)
(* Four threads call each other's code: the asyncio loop, the audio thread *)
(* (wake and stop word), mpv's event thread and the grace timer's thread.  *)
(* todo[t] is what thread t has still to do of the call it is in; a step   *)
(* runs up to the next point where another thread can interfere: one use   *)
(* of the coordinator's lock, of the player, or of the callback slot.      *)
(*                                                                         *)
(* play() and stop() of the player are one step each.                      *)
(* The take of the callback at the end of a track is one step as well: no  *)
(* call lies between its statements, where CPython would switch threads.   *)
(*                                                                         *)
(* Left out: ducking, peripheral events, continued conversation, the rest  *)
(* of the voice pipeline, and playlists (the native protocol never plays   *)
(* one on this player).  The native protocol sets a grace period greater   *)
(* than 0.  A generation of the coordinator only tells whether its grace   *)
(* timer is still the current one; grace is the state of that timer, and a *)
(* stale one does nothing.                                                 *)
(***************************************************************************)
EXTENDS Naturals, Sequences, SequencesExt

CONSTANTS
  Segments,      \* urls of TTS segments
  MaxAccepted,   \* bound of the model: segments ever accepted
  MaxEvents,     \* bound of the model: end-of-file events waiting at once
  MaxDisturbances, \* bound of the model: how often something else happens
  Disturbances   \* what else may happen to the player, a subset of AllDisturbances

AllDisturbances == {"alarm", "chime", "disconnect", "error", "mute", "sound", "stop",
                     "stopword"}

ASSUME SpeechPlaybackAssumption ==
  /\ MaxAccepted \in Nat
  /\ MaxEvents \in Nat \ {0}
  /\ MaxDisturbances \in Nat
  /\ Disturbances \subseteq AllDisturbances
  /\ Segments \cap {"none", "alarm", "chime", "sound"} = {}

None == "none"
Threads == {"loop", "audio", "mpv", "grace"}
Callbacks == {None, "segment", "alarm", "chime"}
Files == Segments \cup {None, "alarm", "chime", "sound"}

Steps == [do : {"segment_finished", "finish", "player_stop", "clear_slot", "finish_stop",
                "track_finished", "alarm_check", "listen", "ring"}, url : {None}]
           \cup [do : {"start"}, url : Segments]
           \cup [do : {"play"}, url : Files \ {None}]

VARIABLES
  current,        \* _current_url of the coordinator
  queue,          \* _queue
  playing,        \* _playing
  force,          \* _force_finish
  ignore,         \* _ignore_next_completion
  finishTimer,    \* _finish_timer is not None
  grace,          \* the timer of the current generation: "none", "running", "expired"
  slot,           \* MpvMediaPlayer._done_callback
  lib,            \* LibMpvPlayer._done_callback is set (to _on_track_finished)
  file,           \* what mpv plays
  eof,            \* end-of-file events that wait for mpv's event thread
  timerFinished,  \* satellite._timer_finished
  pipeline,       \* satellite._pipeline_active
  stopWord,       \* the stop word is in active_wake_words
  muted,          \* state.muted
  todo,           \* what each thread has still to do
  accepted,       \* history: segments accepted by enqueue
  played,         \* history: segments handed to the player
  open,           \* history: a response was begun and its end not yet reported
  disturbed       \* history: what else happened to the player

coordVars == <<current, queue, playing, force, ignore, finishTimer, grace>>
playerVars == <<slot, lib, file, eof>>
satelliteVars == <<timerFinished, pipeline, stopWord, muted>>
responseVars == <<accepted, played, open>>
historyVars == <<responseVars, disturbed>>
vars == <<coordVars, playerVars, satelliteVars, todo, historyVars>>

TypeOK ==
  /\ current \in Segments \cup {None}
  /\ queue \in Seq(Segments)
  /\ playing \in BOOLEAN
  /\ force \in BOOLEAN
  /\ ignore \in BOOLEAN
  /\ finishTimer \in BOOLEAN
  /\ grace \in {"none", "running", "expired"}
  /\ slot \in Callbacks
  /\ lib \in BOOLEAN
  /\ file \in Files
  /\ eof \in 0..MaxEvents
  /\ timerFinished \in BOOLEAN /\ pipeline \in BOOLEAN
  /\ stopWord \in BOOLEAN /\ muted \in BOOLEAN
  /\ todo \in [Threads -> Seq(Steps)]
  /\ accepted \in Seq(Segments) /\ Len(accepted) <= MaxAccepted
  /\ played \in Seq(Segments)
  /\ open \in BOOLEAN
  /\ disturbed \in Seq(Disturbances) /\ Len(disturbed) <= MaxDisturbances

Init ==
  /\ current = None
  /\ queue = <<>>
  /\ playing = FALSE
  /\ force = FALSE
  /\ ignore = FALSE
  /\ finishTimer = FALSE
  /\ grace = "none"
  /\ slot = None
  /\ lib = FALSE
  /\ file = None
  /\ eof = 0
  /\ timerFinished = FALSE
  /\ pipeline = FALSE
  /\ stopWord = FALSE
  /\ muted = FALSE
  /\ todo = [t \in Threads |-> <<>>]
  /\ accepted = <<>>
  /\ played = <<>>
  /\ open = FALSE
  /\ disturbed = <<>>

-----------------------------------------------------------------------------
(* Control of the threads.                                                 *)

Step(what) == <<[do |-> what, url |-> None]>>
StepWith(what, url) == <<[do |-> what, url |-> url]>>

Free(t) == todo[t] = <<>>

\* Thread t is about to do this.
At(t, what) == todo[t] # <<>> /\ Head(todo[t]).do = what

\* It does, and these steps before whatever was left.
Then(t, steps) == todo' = [todo EXCEPT ![t] = steps \o Tail(@)]

\* A thread with nothing to do is called.
Call(t, steps) == Free(t) /\ todo' = [todo EXCEPT ![t] = steps]

\* Something else happens to the player.
Disturb(what) ==
  /\ what \in Disturbances
  /\ Len(disturbed) < MaxDisturbances
  /\ disturbed' = Append(disturbed, what)

-----------------------------------------------------------------------------
(* The coordinator, one action or operator per use of its lock.            *)

ResponseActive == playing \/ queue # <<>> \/ finishTimer

\* Mutant of NextGeneration: a timer keeps its turn when a segment arrives.
SameGeneration == UNCHANGED <<finishTimer, grace>>

\* The generation moves on and the pending timer, if any, is cancelled.
NextGeneration == finishTimer' = FALSE /\ grace' = "none"

Known(url) == url = current \/ \E i \in DOMAIN queue : queue[i] = url

Speaking == playing

\* Mutant of LineUp: the newest segment goes first.
PushIn(url) == <<url>> \o queue

LineUp(url) == Append(queue, url)

\* enqueue(url), from play.url or the TTS_END voice event.
Enqueue(url) ==
  /\ Len(accepted) < MaxAccepted
  /\ ~Known(url)
  /\ NextGeneration
  /\ accepted' = Append(accepted, url)
  /\ open' = TRUE
  /\ IF Speaking
     THEN /\ queue' = LineUp(url)
          /\ Free("loop")
          /\ UNCHANGED <<playing, current, todo>>
     ELSE /\ playing' = TRUE
          /\ current' = url
          /\ Call("loop", StepWith("start", url))
          /\ UNCHANGED queue
  /\ UNCHANGED <<force, ignore, playerVars, satelliteVars, played, disturbed>>

\* _start_queued_tts_segment and play_tts up to the player: playback_started.
Start(t) ==
  /\ At(t, "start")
  /\ NextGeneration
  /\ playing' = TRUE
  /\ current' = Head(todo[t]).url
  /\ stopWord' = TRUE
  /\ Then(t, StepWith("play", Head(todo[t]).url))
  /\ UNCHANGED <<queue, force, ignore, playerVars, timerFinished, pipeline, muted, historyVars>>

\* Mutant of MoreQueued: what waits is forgotten when a segment ends.
NothingQueued == FALSE

MoreQueued == queue # <<>>

\* Mutant of LeftInLine: the next segment is looked at but not taken out.
StillInLine == queue

LeftInLine == Tail(queue)

\* segment_finished, on whichever thread saw the end of the sound.
SegmentFinished(t) ==
  /\ At(t, "segment_finished")
  /\ \/ /\ ignore
        /\ ignore' = FALSE
        /\ playing' = FALSE
        /\ current' = None
        /\ Then(t, <<>>)
        /\ UNCHANGED <<queue, force, finishTimer, grace>>
     \/ /\ ~ignore /\ MoreQueued
        /\ playing' = TRUE
        /\ current' = Head(queue)
        /\ queue' = LeftInLine
        /\ Then(t, StepWith("start", Head(queue)))
        /\ UNCHANGED <<force, ignore, finishTimer, grace>>
     \/ /\ ~ignore /\ ~MoreQueued /\ force
        /\ playing' = FALSE
        /\ force' = FALSE
        /\ current' = None
        /\ grace' = "none"
        /\ Then(t, Step("finish"))
        /\ UNCHANGED <<queue, ignore, finishTimer>>
     \/ /\ ~ignore /\ ~MoreQueued /\ ~force
        /\ playing' = FALSE
        /\ finishTimer' = TRUE
        /\ grace' = "running"
        /\ Then(t, <<>>)
        /\ UNCHANGED <<current, queue, force, ignore>>
  /\ UNCHANGED <<playerVars, satelliteVars, historyVars>>

\* begin_immediate_stop; what is left to do ends a response that was active.
BeginStop ==
  /\ NextGeneration
  /\ queue' = <<>>
  /\ current' = None
  /\ force' = ResponseActive
  /\ UNCHANGED <<playing, ignore>>

AfterBeginStop ==
  Step("player_stop") \o IF ResponseActive THEN Step("finish_stop") ELSE <<>>

\* finish_stop_without_callback: no callback of the player ended the response.
FinishStop(t) ==
  /\ At(t, "finish_stop")
  /\ IF force
     THEN /\ force' = FALSE
          /\ playing' = FALSE
          /\ current' = None
          /\ Then(t, Step("finish"))
     ELSE /\ Then(t, <<>>)
          /\ UNCHANGED <<force, playing, current>>
  /\ UNCHANGED <<queue, ignore, finishTimer, grace, playerVars, satelliteVars, historyVars>>

\* The grace timer's thread wakes up, and later takes the lock.
GraceOver ==
  /\ grace = "running"
  /\ Free("grace")
  /\ grace' = "expired"
  /\ UNCHANGED <<current, queue, playing, force, ignore, finishTimer, playerVars,
                 satelliteVars, todo, historyVars>>

Settled == ~playing /\ queue = <<>>

\* _finish_after_grace of the current generation.
FinishAfterGrace ==
  /\ grace = "expired"
  /\ grace' = "none"
  /\ IF Settled
     THEN /\ finishTimer' = FALSE
          /\ current' = None
          /\ Call("grace", Step("finish"))
     ELSE Free("grace") /\ UNCHANGED <<finishTimer, current, todo>>
  /\ UNCHANGED <<queue, playing, force, ignore, playerVars, satelliteVars, historyVars>>

\* _tts_finished: the end of the response is reported.
Finish(t) ==
  /\ At(t, "finish")
  /\ open' = FALSE
  /\ pipeline' = FALSE
  /\ stopWord' = FALSE
  /\ Then(t, <<>>)
  /\ UNCHANGED <<coordVars, playerVars, timerFinished, muted, accepted, played, disturbed>>

-----------------------------------------------------------------------------
(* The player.                                                             *)

\* Mutant of Invoke: the sound of the alarm has no callback.
InvokeAlarmOnce(callback) ==
  CASE callback = "segment" -> Step("segment_finished")
    [] callback = "chime" -> Step("listen")
    [] OTHER -> <<>>

\* What a callback makes its thread do.
Invoke(callback) ==
  CASE callback = "segment" -> Step("segment_finished")
    [] callback = "alarm" -> Step("alarm_check")
    [] callback = "chime" -> Step("listen")
    [] OTHER -> <<>>


CallbackOf(url) == CASE url \in Segments -> "segment"
                     [] url = "sound" -> None
                     [] OTHER -> url

\* play(url, done_callback): the new sound and its callback replace the old ones.
Play(t) ==
  /\ At(t, "play")
  /\ LET url == Head(todo[t]).url IN
       /\ slot' = CallbackOf(url)
       /\ file' = url
       /\ played' = IF url \in Segments THEN Append(played, url) ELSE played
  /\ lib' = TRUE
  /\ Then(t, <<>>)
  /\ UNCHANGED <<coordVars, eof, satelliteVars, accepted, open, disturbed>>

\* stop(): the callback is called at once, and forgotten when it returns.
PlayerStop(t) ==
  /\ At(t, "player_stop")
  /\ file' = None
  /\ Then(t, IF slot = None THEN <<>> ELSE Invoke(slot) \o Step("clear_slot"))
  /\ UNCHANGED <<coordVars, slot, lib, eof, satelliteVars, historyVars>>

ClearSlot(t) ==
  /\ At(t, "clear_slot")
  /\ slot' = None
  /\ Then(t, <<>>)
  /\ UNCHANGED <<coordVars, lib, file, eof, satelliteVars, historyVars>>

\* mpv reaches the end of a file, its event thread may be busy in a callback.
FileEnds ==
  /\ file # None
  /\ eof < MaxEvents
  /\ file' = None
  /\ eof' = eof + 1
  /\ UNCHANGED <<coordVars, slot, lib, satelliteVars, todo, historyVars>>

\* A file that cannot be played ends with another reason, which is ignored.
FileFails ==
  /\ Disturb("error")
  /\ file # None
  /\ file' = None
  /\ UNCHANGED <<coordVars, slot, lib, eof, satelliteVars, todo, responseVars>>

\* _on_end_file takes the callback of whatever file is the last one started.
OnEndFile ==
  /\ eof > 0
  /\ eof' = eof - 1
  /\ lib' = FALSE
  /\ Call("mpv", IF lib THEN Step("track_finished") ELSE <<>>)
  /\ UNCHANGED <<coordVars, slot, file, satelliteVars, historyVars>>

\* _on_track_finished.
TrackFinished(t) ==
  /\ At(t, "track_finished")
  /\ slot' = None
  /\ Then(t, Invoke(slot))
  /\ UNCHANGED <<coordVars, lib, file, eof, satelliteVars, historyVars>>

-----------------------------------------------------------------------------
(* The alarm, stopping, and the sounds of others.                          *)

\* _play_timer_finished: the alarm was silenced, or rings on.
AlarmCheck(t) ==
  /\ At(t, "alarm_check")
  /\ Then(t, IF timerFinished THEN StepWith("play", "alarm") ELSE <<>>)
  /\ UNCHANGED <<coordVars, playerVars, satelliteVars, historyVars>>

\* It has rung for timer_max_ring_seconds.
AlarmTimesOut(t) ==
  /\ At(t, "alarm_check")
  /\ timerFinished
  /\ timerFinished' = FALSE
  /\ stopWord' = FALSE
  /\ Then(t, <<>>)
  /\ UNCHANGED <<coordVars, playerVars, pipeline, muted, historyVars>>

\* _start_alarm_playback: a native timer expires.
StartAlarm == timerFinished' = TRUE /\ stopWord' = TRUE /\ UNCHANGED <<pipeline, muted>>

Ring ==
  /\ Disturb("alarm")
  /\ StartAlarm
  /\ Call("loop", Step("alarm_check"))
  /\ UNCHANGED <<coordVars, playerVars, responseVars>>

\* restore_ringing, after a lost connection.
RingAgain(t) ==
  /\ At(t, "ring")
  /\ StartAlarm
  /\ Then(t, Step("alarm_check"))
  /\ UNCHANGED <<coordVars, playerVars, historyVars>>

\* _stop_alarm_playback and the peripheral's stop_timer_ringing.
CancelAlarm ==
  /\ timerFinished
  /\ timerFinished' = FALSE
  /\ stopWord' = FALSE
  /\ Call("loop", Step("player_stop"))
  /\ UNCHANGED <<coordVars, playerVars, pipeline, muted, historyVars>>

\* satellite.stop(), from the stop word (audio) or play.stop (loop).
Stop(t) ==
  /\ \/ t = "loop" /\ Disturb("stop")
     \/ t = "audio" /\ Disturb("stopword") /\ stopWord /\ ~muted
  /\ IF timerFinished
     THEN Call(t, Step("player_stop")) /\ UNCHANGED coordVars
     ELSE Call(t, AfterBeginStop) /\ BeginStop
  /\ timerFinished' = FALSE
  /\ pipeline' = FALSE
  /\ stopWord' = FALSE
  /\ UNCHANGED <<muted, playerVars, responseVars>>

\* _set_muted: muting stops the response as well, and both play a sound.
Mute ==
  /\ Disturb("mute")
  /\ ~muted
  /\ muted' = TRUE
  /\ Call("loop", AfterBeginStop \o StepWith("play", "sound"))
  /\ BeginStop
  /\ UNCHANGED <<playerVars, timerFinished, pipeline, stopWord, responseVars>>

Unmute ==
  /\ muted
  /\ muted' = FALSE
  /\ Call("loop", StepWith("play", "sound"))
  /\ UNCHANGED <<coordVars, playerVars, timerFinished, pipeline, stopWord, historyVars>>

\* Sounds without a callback (buttons, the thinking sound), or with one that only
\* tells the server (play.tone).
PlaySound ==
  /\ Disturb("sound")
  /\ Call("loop", StepWith("play", "sound"))
  /\ UNCHANGED <<coordVars, playerVars, satelliteVars, responseVars>>

\* wakeup() and start_listening() silence the alarm and play a chime.
WakeUp(t) ==
  /\ Disturb("chime")
  /\ ~muted /\ ~pipeline
  /\ Call(t, StepWith("play", "chime"))
  /\ timerFinished' = FALSE
  /\ pipeline' = TRUE
  /\ UNCHANGED <<coordVars, playerVars, stopWord, muted, responseVars>>

\* The chime is over: streaming starts, which is not modelled here.
Listen(t) ==
  /\ At(t, "listen")
  /\ Then(t, <<>>)
  /\ UNCHANGED <<coordVars, playerVars, satelliteVars, historyVars>>

\* The voice start could not be sent, or the server refuses it.
StartRefused ==
  /\ pipeline
  /\ pipeline' = FALSE
  /\ UNCHANGED <<coordVars, playerVars, timerFinished, stopWord, muted, todo, historyVars>>

\* connection_lost: cancel(ignore_active_completion=True), then the player stops,
\* then restore_ringing may ring again.
Disconnect ==
  /\ Disturb("disconnect")
  /\ NextGeneration
  /\ queue' = <<>>
  /\ ignore' = playing
  /\ playing' = FALSE
  /\ current' = None
  /\ force' = FALSE
  /\ timerFinished' = FALSE
  /\ pipeline' = FALSE
  /\ open' = FALSE
  /\ \/ Call("loop", Step("player_stop"))
     \/ "alarm" \in Disturbances /\ Call("loop", Step("player_stop") \o Step("ring"))
  /\ UNCHANGED <<playerVars, stopWord, muted, accepted, played>>

-----------------------------------------------------------------------------

ThreadStep(t) ==
  \/ Start(t) \/ SegmentFinished(t) \/ FinishStop(t) \/ Finish(t)
  \/ Play(t) \/ PlayerStop(t) \/ ClearSlot(t) \/ TrackFinished(t)
  \/ AlarmCheck(t) \/ AlarmTimesOut(t) \/ RingAgain(t) \/ Listen(t)

Next ==
  \/ \E t \in Threads : ThreadStep(t)
  \/ \E url \in Segments : Enqueue(url)
  \/ GraceOver \/ FinishAfterGrace
  \/ FileEnds \/ FileFails \/ OnEndFile
  \/ \E t \in {"loop", "audio"} : Stop(t) \/ WakeUp(t)
  \/ Ring \/ CancelAlarm \/ Mute \/ Unmute \/ PlaySound
  \/ StartRefused \/ Disconnect

Spec == Init /\ [][Next]_vars

(* Threads run on, mpv reports the end of every sound it plays, and a      *)
(* threading.Timer expires.  The clock of the alarm: of the checks that    *)
(* come again and again, one comes after timer_max_ring_seconds.           *)
Fairness ==
  /\ \A t \in Threads : WF_vars(ThreadStep(t))
  /\ WF_vars(GraceOver) /\ WF_vars(FinishAfterGrace)
  /\ WF_vars(FileEnds) /\ WF_vars(OnEndFile)
  /\ \A t \in Threads : SF_vars(AlarmTimesOut(t))

FairSpec == Spec /\ Fairness

-----------------------------------------------------------------------------
(* Properties.  Which ones hold depends on what else happened so far.      *)

Only(what) == Range(disturbed) \subseteq what

(* A response that is waiting out its grace period is really over: nothing *)
(* plays, nothing waits, and the timer that will report its end is still   *)
(* the current one (enqueue, playback_started, begin_immediate_stop and    *)
(* cancel against segment_finished and _finish_after_grace).               *)
SettlingWillSettle ==
  finishTimer => ~playing /\ queue = <<>> /\ grace # "none"

(* What was spoken so far is the beginning of what enqueue accepted: no    *)
(* segment is lost, repeated or overtaken between the threads that start   *)
(* segments.  Sounds that take the player and files that fail may strand a *)
(* response, but they leave no hole in it.                                 *)
SpokenInOrder == Only({"chime", "error", "sound"}) => IsPrefix(played, accepted)

Times(q, url) == Cardinality({i \in DOMAIN q : q[i] = url})

(* Whatever else happens, alarms, stops and lost connections at any point  *)
(* of the response, no segment is spoken more often than it was accepted.  *)
NothingRepeated ==
  \A url \in Segments : Times(played, url) <= Times(accepted, url)

(* Segments wait only for a segment that is being spoken: also after a     *)
(* play.stop, and with alarms and sounds about.                            *)
QueueKeptAlive ==
  queue # <<>> /\ Only({"alarm", "chime", "error", "mute", "sound", "stop"}) =>
    playing

(* The end of every response is reported, so that the pipeline is free     *)
(* again and playback.finished is sent (_tts_finished), also when play.stop *)
(* comes at any point of it.                                               *)
ResponseEnds == open ~> (~open \/ ~Only({"stop"}))

(* An alarm that nobody dismisses stops by itself (timer_max_ring_seconds) *)
(* unless a response or a sound took the callback in which alone the time  *)
(* is checked.                                                             *)
AlarmStops == timerFinished ~> (~timerFinished \/ ~Only({"alarm"}) \/ accepted # <<>>)

=============================================================================
