# Tater Linux Satellite: verification project

TLA+ models, model checking and machine-checked proofs for the Linux voice
satellite in `src/linux_voice_assistant/`, in its native Tater mode
(`tater_native.py`) and, for what entities and connections share, as an
ESPHome server; with the LED boards of `src/examples/` that go with it.  Every
definition is translated from the Python source; `PROJECT.json` maps each one
to the lines it stands for.

## 1. The system

One Python process on a device with a microphone and a speaker, and possibly a
process of its own for an LED board.  Threads of the satellite:

| thread | runs |
|---|---|
| event loop (asyncio) | websocket reader, writer and heartbeat, timers, verifier, settings, peripheral API, ESPHome connections |
| audio thread | `process_audio`: wake and stop words, `wakeup()`, `stop()`, `handle_audio()`; also while disconnected |
| mpv event threads | `_on_end_file` of the speech player and of the music player, and all that their callbacks do |
| `threading.Timer` threads | the grace period of a spoken response, the delay of a continued conversation |
| Bluetooth thread | raw HCI observer |

| component | state | operations | talks to | hard because |
|---|---|---|---|---|
| local timers (`native_timers.py`) | `timers`, a task per timer, the shared alarm (`_timer_finished`, stop word) | start, arm, cancel, clear, snooze, alarm, status, reconnect, close | server messages, speech player, satellite | cancelled and replaced countdowns, a shared alarm that others silence, offline operation |
| wake verification (`tater_native.py:349-533`) | gate, request table, pending wake, timeout | wakeup, callback, verdict, timeout | audio thread to loop to server | two threads, races of verdict, timeout and disconnect, table limit |
| TTS segments (`satellite.py:76-221`) | queue, current, generation, grace timer, flags | enqueue, started, finished, stop, cancel, grace over | loop, audio, mpv and timer threads | callbacks across four threads |
| timer-finished loop (`satellite.py:1156-1184`) | `_timer_finished`, ring start | ring, check, stop | speech player | shares the player with speech |
| players (`mpv_player.py`, `player/libmpv.py`) | one callback at each of two levels, mpv's file, a state, a volume | play, stop, pause, resume, volume, end-of-file | mpv | stale events, replaced callbacks |
| voice link (`tater_native.py:545-722, 854-865`) | outgoing queue, pre-roll, pending start | queue, drop, acknowledge, write, reconnect | loop, server | full queue, late acknowledgement, frames across a reconnect |
| voice pipeline (`satellite.py`) | `_pipeline_active`, `_is_streaming_audio`, `_continue_conversation`, muted | wake, listen, events, stop, mute | all threads | flags without a lock |
| media sessions (`tater_native.py:936-1110`) | session id, music player | start, stop, pause, resume, volume | server, mpv thread | finished against started, same session again |
| Bluetooth batcher (`ble_scanner.py:192-294`) | rows of the next batch, advertisements seen, batch number | ingest, flush, reset | observer, loop | suppression, two tables at their limit |
| Bluetooth observer (`ble_scanner.py:296-595`) | socket, thread, stop flag, BlueZ task, status | start, stop, pause, receive | loop, thread, controller | thread lifetime, a socket closed by another thread |
| peripheral API (`peripheral_api.py`) | clients, last state event | connect, snapshot, replay, broadcast, commands, stop | boards, satellite | broadcasts that wait for slow clients and overtake each other |
| controls (`satellite.py`, `entity.py`, `api_server.py`, `models.py`) | mute, volume, media state, connections, preferences | Home Assistant's commands, peripheral commands, connections, broadcast | mpv threads, players | many connections, one entity, several holders of one volume |
| boards (`src/examples/*`) | `SharedState`, LEDs, command queue, press timers | events, connect, receive, send, press | peripheral API | a copy of the satellite's state over a connection that breaks, gesture timers on threads |
| live settings (`live_settings.py`) | native settings, active wake words | apply | loop and audio thread | replaces shared sets |
| discovery, start-up, utilities | | | | I/O |

What makes each correct:

* timers: every armed timer rings once, by its own countdown, on or off line;
  the alarm sounds exactly as long as a ringing timer has not been dismissed.
* wake verification: at most one wake is held, it is settled once, and the gate
  always opens again.
* speech: segments are spoken once, in order and to the end; the end of a
  response is reported once, when it has settled; an alarm stops in time.
* voice link: audio follows its acknowledged start, nothing of an old
  connection reaches the next one.
* voice pipeline: no stream without a pipeline, mute and stop end both.
* media sessions: one in progress, it is the one that plays, and each is
  reported finished.
* Bluetooth: an advertisement is neither repeated early nor kept back long; one
  observer at a time, and the controller scans when it believes so.
* peripheral API and boards: what a board shows is the state of the satellite,
  whenever it connected; what is pressed becomes a command.
* controls: one volume, and Home Assistant is told what a peripheral changed.

The hazards, each at its line, are in `PROJECT.json`.

## 2. Modules

| module | models | kind |
|---|---|---|
| `NativeTimers` | timer table, countdown tasks, alarm flag and stop word | component |
| `WakeGate` | what wake verification promises | abstract specification |
| `WakeVerifier` | gate, request table, timeout on the audio thread and the loop | component, implements `WakeGate` |
| `SpeechPlayback` | coordinator, speech player and alarm loop on four threads | three components composed |
| `VoiceLink` | flags of the voice pipeline, native transport, server | two components composed |
| `MediaSession` | media sessions and the music player on two threads | two components composed |
| `BleBatcher` | batch and memory of Bluetooth advertisements | component |
| `BleScanner` | life of the Bluetooth observer, raw HCI and BlueZ | component |
| `PeripheralApi` | server of the peripheral API and its clients | component |
| `BoardEvents` | what four LED boards make of an event | functions |
| `BoardLink` | one board, its connection, its buttons, and the satellite | composition over `BoardEvents` |
| `Controls` | mute, volume and music between connections, peripherals and players | four components composed |
| `NativeTimersProofs`, `WakeVerifierProofs`, `SpeechPlaybackProofs`, `VoiceLinkProofs`, `MediaSessionProofs`, `BluetoothProofs`, `PeripheralProofs`, `ControlsProofs` | | proofs |
| `MC*` | instances for TLC | model checking |

### NativeTimers

`timers` is `self.timers`; a record's `object` is the identity that `_wait`
compares (`self.timers.get(id) is not timer`), its `serial` the identity of a
task.  `tasks` are the `_wait` coroutines that neither ended nor were
cancelled.  `Start`, `Cancel`, `Snooze` and `Alarm` are the server's messages
with `_select` (`Matching`, `Ambiguous`) and the refresh of the alarm each
handler ends with; `Wait` is the end of a countdown; `Connect`, `Disconnect`
and `Heartbeat` are the transport (`restore_ringing`,
`_reconcile_stopped_ringing`); `CloseBegin` and `CloseEnd` are the two halves
of `close()` around its `await`.  `Stop`, `WakeUp`, `StopTimerRinging` and
`AutoStop` silence the alarm behind the table's back, from other threads.
Countdown lengths are abstracted: a live countdown may end at any time.
`dismissed` is history.

### WakeVerifier and WakeGate

`thread` is the audio thread inside `wakeup()`, which reads mode and
connection once, closes the gate and posts a callback.  `RunCallback` is
`_queue_wake_verification`: `FailOpen` (not connected, or the capture ring is
not ready), `Ask` (a request is queued, with a timer if it is enforced), or
`AskInVain` (the outgoing queue is full).  `Complete` is
`_complete_wake_verification`, called by `Result` (any id the server ever saw,
any number of times) or `TimedOut`.  `outcome` is history: what became of
each wake, and the variable of `WakeGate`, whose three actions let a wake
pass, hold it, and settle it.  In `Detect` two facts about time appear as
guards: a wake is only detected `refractory_seconds` (2 s by default) after
the last one, by which time the loop has run the callback; and at most
`WakesPerTimeout` wakes fit into a verifier timeout of 2 s at most.  With the
source's limit of 32 outstanding requests this is far from tight, and
`WakesPerTimeout < MaxOutstanding` is all that is assumed.

### SpeechPlayback

`todo[t]` is what thread t still has to do of the call it is in; each step is
one use of the coordinator's lock, the player or the callback slot, so that
every interleaving of the four threads at these points is explored.  A call
into the player from a callback is pushed before what is left of the caller,
as on a call stack: `stop()` of the player runs the callback and forgets it
afterwards (`PlayerStop`, then the callback's own steps, then `ClearSlot`).
`slot` is `MpvMediaPlayer._done_callback`, `lib` the callback one level below,
`eof` end-of-file events not yet handled.  `grace` is the timer of the current
generation.  `Disturbances` chooses what else happens: an alarm, a chime
(wake-up or button), a lost connection, a file that fails, mute, other sounds,
`play.stop`, and the stop word; `disturbed` records it, and each property says
which disturbances it tolerates.

Over-approximations: the wake word is heard whenever the pipeline is idle; the
server may refuse a start at any time; an alarm may be cancelled at any time.
Under-approximations: `play()` and `stop()` of the player are one step each;
so is the take of the callback in `_on_track_finished` (`mpv_player.py:97-98`),
by the assumption on the interpreter stated under `MediaSession`;
`satellite._tts_url`, through which a started segment passes, is the starting
thread's own; continued conversation and the rest of the pipeline are left out.

### VoiceLink

`posted` are the callbacks that `send_messages` and `_submit_frame` hand to the
event loop, `pending` is `_voice_start_pending`, `preroll` and `outgoing` are
the deque and the queue, `sending` the frame whose `websocket.send` is awaited,
`wire` what the server got.  `link` follows `run_forever`: "hello" is a
websocket before `hello.ack`, "closing" one that failed before
`_mark_disconnected` ran; `Connected` is what other threads see meanwhile.
`starting[t]` is a thread between the decision to start a session and its last
assignment: `SendStart` is `send_messages`, `MarkStreaming` the
`_is_streaming_audio = True` its callers end with.  `RunCallback` is
`_queue_protocol_message` with `_queue_frame`; `Accept` and `Refuse` are the
two branches of `voice.start.ack`.  `streaming`, `pipeline`, `muted`,
`ttsPlayed` and `speaking` are the flags of `satellite.py`.

A frame carries its age and the number of the session it was recorded in;
neither is in the code, both serve the properties.  `session` is the session of
the last start that was posted, 0 once the server refused it or the connection
was lost.

Abstractions: all frames that are no voice look alike; `send_messages` and the
check and post of `handle_audio` are one step each; one thread ends a chime and
one a delay at a time; every wake hears the end of its chime; `stop()` while an
alarm rings is in `NativeTimers`.  Of the server: one answer for each
`voice.start`, one `RUN_START` and one `RUN_END` for each start it accepted,
anything else in any order.  `Dial` waits for `posted` to be empty, because
`run_forever` waits at least `reconnect_seconds` (0.25 s at the least) before
it dials.

### MediaSession

`todo[t]` is what thread t still has to do of its call, as in
`SpeechPlayback`; the threads are the event loop and the event thread of the
music player.  A start is numbered, `id` says which session id it carries.
`Start` puts the steps of `_start_media_session` on the loop: the player is
stopped if another session is current (`PlayerHalt`, `PlayerRun`, the callback's own
steps, `PlayerForgets`), the id is taken (`Begin`), the file played (`Play` or
`PlayRefused`), the start reported (`Started`).  `FileEnds`, `EndOfFile` and
`TrackFinished` are the end of a file on mpv's thread; `Finish` and `Clear` are
the two halves of the completion callback, which reports the end and then clears
the session id.  `started`, `finished`, `replaced`, `overlapped` and `early` are
history.

Assumed: two pairs of statements are one step each.  `Clear` checks the session
id and clears it (`tater_native.py:998-999`), `TrackFinished` reads the
player's callback and forgets it (`mpv_player.py:97-98`).  Neither pair has a
call or a jump back between its statements, and a CPython with a global
interpreter lock (`pyproject.toml:23` asks for 3.11 or later) switches threads
nowhere else.  `OneInProgress`, `PlayingIsCurrent` and `EverySessionEnds` rest
on it: on a free-threaded build a session that starts between the check and the
write would lose its id, and two threads could take the same callback, so that
a lock would be needed.

### BleBatcher and BleScanner

`BleBatcher`: `Ingest` with `EmitDue`, `Recalled`, `Remember` and `PutRow` is
`ingest()`, whose order of events matters: remembered first, asked for room
afterwards.  `Flush` is `flush()` with the number of the batch, `ClearPending`
what a pause or a stop does.  An advertisement is a pair of device and data; time counts in
steps of 250 ms, the least interval in the code.

`BleScanner`: an observer is numbered; `pc[o]` is where its thread is in
`_run`, `socket[o]` whether its socket can be seen by others.  `StartRaw` and
`StartBluez` are `start()`; `StopBegin`, `StopClose`, `StopJoin` and `StopEnd`
are `stop()` around its worker thread and the join of two seconds, `outlived`
the observers it gave up.  `OpenSocket` is the setup of the device, which turns
the scan on; `FollowPause` and `Receive` are `_receive_loop`; `CloseSocket` the
`finally`.  The BlueZ task is `task`.  `radio` is the controller's own switch.

### PeripheralApi

A client is one websocket.  `clients` is the set `_clients`, `ahead` the order in
which it is iterated, where a newcomer may come at any place.  `waits` are
coroutines that wait for a client, in
the order of waiting: a broadcast (with the rest of its clients and the
dead ones it found), the snapshot or the replay of a greeting.  `Broadcast` is
the loop of `emit_event` up to the next client that does not read; `Post` is
`emit_event_sync` on any thread, `RunPosted` the coroutine it schedules;
`Join` is `_handle_client` up to its first wait, `Dispatch` a command that is
handled, with the events it emits itself; `HandlerEnds` is its `finally`, and
`Close` and `Closed` are the two halves of the end of a connection, that of
`stop()` included.  `seen[c]`
is history: what client c was told.  What the websockets library promises is
stated in the module's header.

### BoardEvents and BoardLink

`BoardEvents` has, for each of the four boards, its `_handle_event` and its
choice of animation as functions of its `SharedState`.  `BoardLink` puts one of
them behind a connection: `Connect` (the snapshot and the last state event),
`Receive`, `ErrorShown` (the 2-mic board sleeps inside its handler), `Elapse`
(its countdown is over), `ReceiveRaises` and `ReceiveEnds` (a
connection that broke, or was closed cleanly), `Send` and `SendFails` with the
command that is put back.  `Press`, `Release`, `TimerDue`, `Resolve` and
`LongPress` are `ButtonMultipressHandler`, with timers that were due when they
were cancelled; `PressSatellite1` are the four buttons of the Satellite1 board.  The satellite
is the events it may emit in any order, its mute, and Home Assistant's coming
and going.  The peripheral API is taken at its word, which is what
`PeripheralApi` checks.

### Controls

A handler of the loop is a function from the shared state `controls` to its
next value (`Leveled`, `SetMuted`, `Halted`, ...), and an action applies it and
tells who is told (`Tell`).  `NewConnection`, `ConnectionMade`, `Authenticate`
and `ConnectionLost` are the life of a connection, `satellite` is
`state.satellite`.  `FileEnds`, `RunCallback`, `Broadcast` and `Deliver` are the
end of a file on mpv's thread on its way to Home Assistant.  `view[c]` is what
connection c was told.  `untold` names what a connection need not know: what
another connection changed and the code does not pass on, and a report that
arrived after newer news.

Abstractions: `DisconnectRequest` counts as lost at once; at the end of a file
the two callbacks of `libmpv.py` and `mpv_player.py` are taken together; what
the voice pipeline does with the speech player is a sound that takes it
(`ButtonSound`) and the stop of a mute.

## 3. Runs

| run | instance | shows |
|---|---|---|
| `timers` | 3 ids, 2 labels, table of 2, 3 creations; 140,628 states | `AlarmHasTimer`, `RingingIsHeard`, `RingsOnItsOwnCountdown`, `CountdownSurvives`, `EveryCountdownEnds`, `DismissedStaysSilent` |
| `wake_gate` | 5 wakes, table of 3, 2 wakes per timeout; 60,471 states | `GateHasOwner`, `AwaitedIsKept`, `ImplementsWakeGate`, `EveryWakeSettled` |
| `speech` | 3 segments, 1 other event of the server, 1 disturbance of any of 8 kinds; 166,511 states | `SettlingWillSettle`, `SpokenInOrder`, `NothingRepeated`, `QueueKeptAlive`, `ResponseEnds`, `AlarmStops` |
| `voice` | 2 sessions, 2 chunks, 2 connections, queue and pre-roll of 2; 3,253,403 states | `Attributed`, `HeldUntilAnswered`, `InOrder`, `NothingOfLastConnection` |
| `voice_live` | 2 sessions, 1 chunk, 1 connection; 471,515 states | `StartAnswered`, `PipelineFreed` |
| `media` | 3 starts, 2 ids, repeats, files that fail or are refused; 140,331 states | `OneInProgress`, `PlayingIsCurrent`, `PausedForASession`, `EverySessionEnds` |
| `ble_batch` | batch of 1, memory of 2, batch numbers modulo 3; 682,947 states | `BatchTypeOK`, `NoEarlyRepeat`, `SilenceIsShort` |
| `ble_scanner` | 3 observers, 1 failure; 92,728 states | `RadioAsBelieved`, `OneObserver`, `PauseTakesEffect` |
| `peripheral_api` | 2 clients, 2 events, 2 commands, 1 stall, 1 loss; 852,561 states | `PictureIsCurrent`, `EventsInOrder`, `CommandsServed` |
| `boards` | 4 boards, 1 event, 1 change, 1 loss, 2 presses; 488,475 states | `MuteKnown`, `NeverReadyInVain`, `EveryPressSent` |
| `controls` | 2 connections, volumes 0, 50 and 100, 3 commands; 898,554 states | `VolumesAgree`, `NewestIsTold` |
| `boards_restart` | 1 board, its satellite restarts | finding: `ConnectsAgain` does not hold |

Bounds and why they are enough:

* `timers`: three ids over a table of two reach the limit, replacement,
  ambiguity of a label and three generations of one id.
* `wake_gate`: a table of three with five wakes makes room more than once while
  a wake is awaited.
* `speech`: three segments give a queue of two behind the one that plays, so
  that order shows.  One disturbance hits any two adjacent steps.  The
  constraint `NewInOrder` takes segments in the order of their names when they
  are first used, for they are interchangeable.
* `voice`: two sessions and two chunks over a queue and a pre-roll of two reach
  the full queue with either kind of frame, an evicted start, a pre-roll that
  overflows or is larger than the room for it, a late answer that meets the next
  session, and frames of one connection when the other begins; two connections
  are one reconnect.
* `media`: with two ids and three starts a session is taken over, started again
  while its end is under way, and taken over again.
* `ble_batch`: the devices share an address or differ in it, and both tables
  overflow.
* `ble_scanner`: three observers let one outlive its stop, meet its successor,
  and end under it.
* `peripheral_api`: two clients, of which one does not read, are the least for
  two broadcasts to wait at different places; a third client would only repeat
  the second.
* `boards`: one event, one change of mute or connection and one loss meet at every step of the
  board; two presses make one gesture or two.
* `controls`: with two connections there is a newest and an older one; three
  commands are a volume, a mute and an unmute around a file.  Four commands
  (8.6 million states) hold as well.

The bounds `MaxSerial`, `MaxWakes`, `MaxAccepted`, `MaxEvents`,
`MaxDisturbances`, `MaxStarts`, `MaxChunks`, `MaxPosted`, `MaxConnections`, `MaxClock`,
`MaxObservers`, `MaxFailures`, `MaxClients`, `MaxEmitted`, `MaxCommands`, `MaxStalls`,
`MaxLeaving`, `MaxLosses`, `MaxChanges` and `MaxPresses` exist only to keep the state space finite.
`speech`, `media`, `peripheral_api`, `boards`, `boards_restart` and `controls`
may come to rest when their bounds are used up (every segment was spoken, no
client is left), so deadlock is not an error there; in the other runs it is
checked.

Fairness:

* `timers`: the event loop runs each countdown task to its end.
* `wake_gate`: `wakeup()` returns and the loop runs its callback and timers;
  nothing is assumed of the server, the settings or the connection.
* `speech`: threads run on, mpv reports the end of what it plays,
  `threading.Timer` expires; and, for the alarm, of the checks that come again
  and again one comes after `timer_max_ring_seconds` (strong fairness of
  `AlarmTimesOut`).
* `voice_live`: threads, loop and writer run on; the server answers every start
  it gets and begins and ends every run it accepted; what is spoken comes to an
  end; a failed connection is noticed.  That a connection fails, or a new one is
  made, is never assumed.  Both properties except one case: a full queue that
  drops the `voice.start` itself (`Lost`), for which the code has no timeout.
* `media`: both threads run on.  That a file comes to its end is not assumed; it
  may loop, or be paused.
* `ble_scanner`: threads and tasks run on, and opening the device comes to an
  end.
* `peripheral_api`: the loop runs what is ready; a client that does not read is
  dropped by the keepalive of websockets, if it does not begin to read before.
* `boards`: the loop and the timers of the board run, and the satellite accepts
  connections.

## 4. Findings

`boards_restart`: a satellite that is stopped or restarted closes its clients
cleanly.  The board's `async for raw in ws` then ends without an exception, and
`asyncio.wait(..., return_when=FIRST_EXCEPTION)` (`Satellite1_HAT_Board.py:937`;
the other three boards wait alike) goes on waiting for the send loop.  `DOCS.md:359` of
that board says that it reconnects every 3 seconds when the satellite was
restarted; it does so only once a command is sent.

### Known divergences

What the models show, or what showed while they were written, and no property
claims; each property that comes near one names it as an exception.

Timers, speech and voice:

* *A dismissed alarm rings again*: `stop()`, `wakeup()` and `stop_timer_ringing` clear the
  alarm flag, not the ringing timers; a connection lost before the next
  heartbeat calls `restore_ringing` (`native_timers.py:141`,
  `docs/peripheral_api.md:197`).
* *Late segment*: `_finish_after_grace` releases the lock before
  `_tts_finished` (`satellite.py:214-221`, `CHANGELOG.md:10`); a segment accepted in between
  plays while the response is reported finished and its stop word disarmed.
* *Sounds over speech* (`mpv_player.py:54`): a sound replaces the segment and its
  callback; the coordinator stays in "playing" and queues every later segment
  until a stop or a disconnect.  A file that fails (`libmpv.py:188`), a stop word on the audio thread
  (`mpv_player.py:128`) and a disconnect while a segment is started
  (`satellite.py:207`) strand a response too.
* *Speech over an alarm* (`satellite.py:1164`, `docs/install_application.md:290`): a
  reply takes the alarm loop's callback, in which alone the ring time is
  checked; the timer stays ringing, in silence.
* *An alarm that is dismissed between check and play* sounds once more
  (`satellite.py:1157`).
* *The stop word* is one entry of a set for responses and alarms: the end of one
  disarms the other (`satellite.py:1110`).
* *Stop while listening* frees the pipeline and leaves the audio streaming
  (`satellite.py:1049`), where `docs/peripheral_api.md:176` says that it cleans
  up the streaming at any phase.
* *A start that is ignored while disconnected* (`tater_native.py:553`) resets
  the flags; its callers then set `_is_streaming_audio` (`satellite.py:1012`),
  and after the reconnect audio is sent to a server that knows of no session.

Media, Bluetooth and preferences:

* A file that ends before its session is reported started makes the finished
  session current again (`tater_native.py:982`).
* A stopped player goes on to say that it plays (`player/libmpv.py:105-117`),
  which keeps the Bluetooth scanner paused.
* A Bluetooth stop that closes the socket first leaves the controller scanning
  (`ble_scanner.py:378`, `README.md:40`).
* An advertisement that found no room in the batch is remembered as passed on
  (`ble_scanner.py:236`).
* Preferences are written in place: a crash during the write loses them
  (`models.py:199`).

Controls:

* When the newest connection goes, an older one that is still there is not taken
  up: `state.satellite` is None, against the comment at `satellite.py:1213`, and
  "disconnected" is emitted though Home Assistant is connected.
* A volume command while the media player is muted makes the players audible and
  leaves `muted` set.
* A report of the end of a track that was made before a new PLAY may reach Home
  Assistant after it.
* The constructor of a connection resets `state.connected`.
* A sound drops the callback of an announcement, so that the music is not
  resumed or the state stays PLAYING.

Boards:

* The 4-mic and USB boards read every "muted" event as muted.
* The 2-mic board sleeps through its error flash, shows an idle LED after an
  error while muted, and its LEDs do not look at the connection.
* After Home Assistant is back the rings keep the red twinkle until the next
  event; and "disconnected" is replayed to a board that connects after that.
* The action button sends `start_listening` when muted and ringing, which is
  ignored; the hue buttons send `light_command`, which the satellite does not
  know.
* A mute during a response that is to be continued leaves LISTENING shown; the
  end of an alarm by itself, the end of media and a stop while listening emit
  nothing.
* `ButtonMultipressHandler` of the Satellite1 board (829-872) is not used.

## 5. Proofs

All for every value of the constants, under the assumptions named in the
component modules (`NativeTimersAssumption`, `WakeVerifierAssumption`,
`SpeechPlaybackAssumption`, `VoiceLinkAssumption`, `MediaSessionAssumption`,
`BleBatcherAssumption`, `BleScannerAssumption`, `BoardLinkAssumption`,
`PeripheralApiAssumption`, `ControlsAssumption`), which TLC evaluates in the runs.
They say that limits and bounds are natural numbers, and what the code's own
constants guarantee of them.

* `NativeTimersProofs`: type correctness with the table limit, and every safety
  property of the run: `AlarmHasTimer`, `RingingIsHeard`,
  `RingsOnItsOwnCountdown`, `CountdownSurvives` and `DismissedStaysSilent`; and
  that a timer that does not ring has a live countdown (`CountdownAlive`).
  `Inv` ties the alarm flag to the table by `AlarmHasTimer` and
  `RingingIsHeard`, and the countdown tasks by `CountdownAlive`; these are
  inductive only together.
* `WakeVerifierProofs`: type correctness with the limit of the table,
  `GateHasOwner`, `AwaitedIsKept` and `ImplementsWakeGate`.  `Inv` also says
  how many requests are younger than the awaited one (at most `young`, hence
  at most `WakesPerTimeout`), which is why making room never takes it, and
  where the single held wake is: at the audio thread, in the callback, or
  pending.  The refinement is step simulation: every action is `Pass`, `Hold`,
  `Settle` or a stutter.
* `SpeechPlaybackProofs`: type correctness and every safety property of the
  run, for every interleaving of the four threads.
  `SettlingWillSettle` holds whatever happens, but only together with
  `StopEndsSettling` (a stop under way excludes a running grace timer), since
  `segment_finished` ends a stopped response without looking at the timer.
  `QueueKeptAlive` follows from `KeptAlive`: without a lost connection nothing
  ignores the end of a sound, and without the stop word only the event loop,
  which also accepts the segments, can be ending a response.
  `NothingRepeated` follows from a count: a thread has at most one segment in
  hand (`OneAtATime`), and for each segment what was spoken, what is in hand and
  what waits is together no more than what was accepted (`AllCovered`).
  `SpokenInOrder` follows from whose turn it is (`TakesTurn`): without stops
  and alarms either one thread or the player's callback will go on with the
  response, and what was accepted is what was spoken, then the segment in that
  thread's hand, then what waits.
* `VoiceLinkProofs`: type correctness with the limits of queue and pre-roll,
  and every safety property of the run.  `Inv` has three layers,
  each proved with the help of the ones before it.  `TypeInv` counts the starts
  that are still to be sent.  `OriginInv` says what is empty while there is no
  connection and that no queue holds a frame of an earlier one; a new
  connection may find callbacks, but no voice among them: this gives
  `NothingOfLastConnection`.  `HeldInv` explains
  why no audio leaves early (`HeldUntilAnswered`): as long as nothing was
  answered and no start is
  pending, the start of what is recorded is still among the callbacks and
  before its audio, so the loop runs it first and then holds the audio back.
  For `InOrder`, the five places a frame can be in (the wire,
  the writer, the queue, the pre-roll, the callbacks) form a line; each is
  sorted by age and older than what comes behind it (`OrderInv`).  The argument
  needs that the pre-roll is empty whenever no start is pending
  (`PrerollWaits`), for only then may a frame go to the queue past it; and every
  eviction only takes frames away.  For `Attributed`, ages tell sessions
  (`SessionInv`): a start that is younger than other audio is of a later
  session, wherever the two are.
* `MediaSessionProofs`: type correctness and every safety property of the run
  (`OneInProgress`, `PlayingIsCurrent`, `PausedForASession`).  What each thread
  still has to do can only take a few shapes (`Shapes`).  A session in progress
  is the one whose completion the player holds (`HeldBySlot`), which is the last
  one that was played (`SlotIsLatest`), and none is in progress while another
  is about to play (`NoneInProgress`).
* `BluetoothProofs`, the batch: that both tables stay within their limits and
  no device has two rows (`BatchTypeOK`); `NoEarlyRepeat` and `SilenceIsShort`,
  for tables and times of any size; and `BatchNumbersTell`, that a
  batch has another number than the one before and never 0, for every modulus
  (2^32 in the code, out of TLC's reach).  What is remembered is in the order
  in which it was heard (`HeardBehind`), so an entry is forgotten only when as
  many others were heard since as the table holds (`Forgotten`).
* `BluetoothProofs`, the observer: `RadioAsBelieved` and `OneObserver`.
  `ScannerInv` adds what
  `stop()` knows of what it stops (`StopKnows`), that a thread that runs is the
  one in use or was given up (`Owned`), and that a socket that was just opened
  scans (`OpenedScans`).
* `PeripheralProofs`, the board: type correctness, `MuteKnown` and `NeverReadyInVain`, for
  each kind of board and any number of events, losses and presses.  While news
  is on its way a board need not know the truth; what holds at every step is
  that it will know it once it has read the wire (`WillKnow`): the last message
  that bears on the matter is right, or there is none and the board is right
  already.  So that a new connection begins so, the state event that is
  replayed after the snapshot is no old "muted" (`CurrentHolds`); and the LEDs
  of a ring are those of the board's state (`RingShown`).
* `PeripheralProofs`, the server: type correctness, `PictureIsCurrent` and
  `EventsInOrder`, for any number of events, commands and stalls, and any
  order in which `_clients` is iterated.  Of two broadcasts under way the older
  is ahead of the younger one, or waits before it for the same client, and whom
  it has still to tell the younger one has, too (`Convoy`); so a client that
  a broadcast reaches is owed nothing older (`NoneOvertaken`), which is
  `EventsInOrder`.  For `PictureIsCurrent`, the last event a connected client is
  still owed brings it up to date, and a client that is owed nothing, and is
  not waiting for its snapshot, is up to date already (`WillBeTold`).  Both
  depend on the exception the properties name: a connection that is closed
  while a broadcast waits for it lets a younger one pass.
* `ControlsProofs`: types, `VolumesAgree` and `NewestIsTold`, for any number of
  connections and
  commands and any step of the volume.  Each function of the handlers is shown
  to keep the controls sound, a lemma each, and so does every action.  For
  `NewestIsTold` every change of the switch or of the media state is followed
  to the one who is told; a report of mpv's thread that is neither late nor
  overtaken is true (`Current`).

Every safety property of the passing runs is proved.  Only model-checked are the
liveness properties (`EveryCountdownEnds`, `EveryWakeSettled`, `ResponseEnds`,
`AlarmStops`, `StartAnswered`, `PipelineFreed`, `EverySessionEnds`,
`PauseTakesEffect`, `CommandsServed`, `EveryPressSent`): liveness under fairness
and `ENABLED` are outside the prover's reach.

## 6. Plan

Done: the modules of section 2 with their runs and proofs.

Left, in this order:

1. An abstract voice session (a start, then its audio) that `VoiceLink` is shown
   to implement, in place of `Attributed`.
2. `PeripheralApi` composed with `BoardLink` instead of its word.
3. The live settings (what a snapshot applies, in which order, and what the
   audio thread sees meanwhile) and the ducking of the players.

## 7. Not modelled, and why

* Wake-word inference, audio processing and the DSP of the USB array: numerical.
* ESPHome framing (`data_received`) and entities that are a value with a setter
  (sensitivities, microphone settings, lights): sequential, without interaction.
* Lights and the button sensor of the peripheral API: registration only.
* How LEDs are drawn, and the Jabra controller (`src/examples`, a program of its
  own around one USB device), reconnects of USB devices.
* Ducking and playlists of the players; the thinking sound and early TTS
  streaming of the pipeline, which meet speech only at the player, where
  `SpeechPlayback` has other sounds do the same.
* Normalisation of settings and the download of models (`live_settings.py`):
  sequential and covered by `tests/test_live_settings.py`; what a snapshot does
  to the stop word and to the verifier is in `NativeTimers` and `WakeVerifier`.
* Start-up, discovery, configuration and parsing: I/O.
