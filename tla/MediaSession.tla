---------------------------- MODULE MediaSession ----------------------------
(***************************************************************************)
(* Media sessions over the music player (tater_native.py, mpv_player.py,   *)
(* player/libmpv.py): what the event loop does with the server's messages, *)
(* and what the event thread of mpv does at the end of a file, a step at   *)
(* a time.  A step runs up to the next call that another thread can come   *)
(* before: into the player, into mpv, or to report something.              *)
(*                                                                         *)
(* The check and the write of the session id at the end of a session       *)
(* (Clear) are one step, and so is the take of the player's callback       *)
(* (TrackFinished): no call and no jump back lies between the two          *)
(* statements, and only there does a CPython with a global interpreter     *)
(* lock let another thread run.                                            *)
(*                                                                         *)
(* Each session.start has a number of its own; Id says which session id it *)
(* carries, for the server may start a session again.                      *)
(***************************************************************************)
EXTENDS Naturals, Sequences

CONSTANTS
  MaxStarts,      \* bound on the starts, for TLC
  Ids,            \* session ids
  Repeats,        \* whether the server starts a session that is still current
  Failures        \* what mpv may do: a subset of {"error", "refuse"}

ASSUME MediaSessionAssumption ==
  /\ MaxStarts \in Nat
  /\ Repeats \in BOOLEAN
  /\ Failures \subseteq {"error", "refuse"}
  /\ "none" \notin Ids

Starts == 1 .. MaxStarts
None == 0
NoId == "none"

VARIABLES
  last,       \* the number of the last start
  id,         \* the session id each start carries
  session,    \* self._media_session_id
  slot,       \* MpvMediaPlayer._done_callback: the start it finishes
  track,      \* LibMpvPlayer._done_callback is set
  busy,       \* the player's state is LOADING, PLAYING or PAUSED
  file,       \* the start whose file mpv plays
  events,     \* end-of-file events that mpv's thread has not handled
  todo,       \* what each thread still has to do of its call
  started, finished,  \* history: which starts were reported so, and how often
  replaced,   \* history: starts whose session was started again over them
  overlapped, \* history: sessions started again with an end event under way
  early       \* history: starts that were over before they were reported started

player == <<slot, track, busy, file, events>>
reports == <<started, finished, replaced, overlapped, early>>
vars == <<last, id, session, player, todo, reports>>

Threads == {"loop", "mpv"}

Step(op, n) == [op |-> op, start |-> n]

Init ==
  /\ last = 0
  /\ id = [n \in Starts |-> NoId]
  /\ session = NoId
  /\ slot = None /\ track = FALSE /\ busy = FALSE /\ file = None
  /\ events = 0
  /\ todo = [t \in Threads |-> <<>>]
  /\ started = {} /\ finished = [n \in Starts |-> 0] /\ replaced = {} /\ overlapped = {} /\ early = {}

\* Thread t is at step op, and goes on with the steps in then.
At(t, op) == todo[t] # <<>> /\ Head(todo[t]).op = op

This(t) == Head(todo[t]).start

Continue(t, then) == todo' = [todo EXCEPT ![t] = then \o Tail(@)]

Call(t, steps) == todo[t] = <<>> /\ todo' = [todo EXCEPT ![t] = steps]

Report(n) == finished' = [finished EXCEPT ![n] = @ + 1]

-----------------------------------------------------------------------------
\* Mutant of Halts: the session that plays is not stopped for another one.
HaltsNothing(s) == FALSE

\* A session is stopped before another one begins.
Halts(s) == session \notin {NoId, s}

\* _start_media_session().  A message without an id or a url changes nothing.
Start(s) ==
  /\ last < MaxStarts
  /\ session = s => Repeats
  /\ last' = last + 1
  /\ id' = [id EXCEPT ![last + 1] = s]
  /\ replaced' = replaced \union {n \in Starts : id[n] = s}
  /\ Call("loop", IF Halts(s)
                    THEN <<Step("halt", None), Step("begin", last + 1)>>
                    ELSE <<Step("begin", last + 1)>>)
  /\ UNCHANGED <<session, player, started, finished, overlapped, early>>

\* MpvMediaPlayer.stop(): the file is stopped; then the callback is looked up,
\* run, and only then forgotten.
PlayerHalt ==
  /\ At("loop", "halt")
  /\ file' = None
  /\ Continue("loop", <<Step("run", None)>>)
  /\ UNCHANGED <<last, id, session, slot, track, busy, events, reports>>

\* Mutant of PlayerRun: a stop is no end, the callback is dropped.
PlayerForget ==
  /\ At("loop", "run")
  /\ slot' = None
  /\ Continue("loop", <<>>)
  /\ UNCHANGED <<last, id, session, track, busy, file, events, reports>>

PlayerRun ==
  /\ At("loop", "run")
  /\ Continue("loop", IF slot = None THEN <<>> ELSE <<Step("finish", slot), Step("forget", None)>>)
  /\ UNCHANGED <<last, id, session, player, reports>>

PlayerForgets ==
  /\ At("loop", "forget")
  /\ slot' = None
  /\ Continue("loop", <<>>)
  /\ UNCHANGED <<last, id, session, track, busy, file, events, reports>>

\* The session becomes the current one before anything plays.
Begin ==
  /\ At("loop", "begin")
  /\ session' = id[This("loop")]
  /\ Continue("loop", <<Step("play", This("loop"))>>)
  /\ UNCHANGED <<last, id, player, reports>>

EndUnderWay == events > 0 \/ todo["mpv"] # <<>>

\* play_persistent(): what was playing is replaced, its callback dropped.
Play ==
  /\ At("loop", "play")
  /\ slot' = This("loop")
  /\ track' = TRUE /\ busy' = TRUE
  /\ file' = This("loop")
  /\ overlapped' = IF EndUnderWay THEN overlapped \union {id[n] : n \in replaced} ELSE overlapped
  /\ Continue("loop", <<Step("started", This("loop"))>>)
  /\ UNCHANGED <<last, id, session, events, started, finished, replaced, early>>

\* mpv may refuse the file; the callback stays.
PlayRefused ==
  /\ "refuse" \in Failures
  /\ At("loop", "play")
  /\ slot' = This("loop")
  /\ track' = TRUE /\ busy' = TRUE /\ file' = None
  /\ session' = NoId
  /\ Report(This("loop"))
  /\ Continue("loop", <<>>)
  /\ UNCHANGED <<last, id, events, started, replaced, overlapped, early>>

\* media_event("started"): the session is made current again.
Started ==
  /\ At("loop", "started")
  /\ session' = id[This("loop")]
  /\ started' = started \union {This("loop")}
  /\ early' = IF finished[This("loop")] = 0 THEN early ELSE early \union {This("loop")}
  /\ Continue("loop", <<>>)
  /\ UNCHANGED <<last, id, player, finished, replaced, overlapped>>

\* media_event("finished"), on whichever thread ran the callback.
Finish(t) ==
  /\ At(t, "finish")
  /\ Report(This(t))
  /\ Continue(t, <<Step("clear", This(t))>>)
  /\ UNCHANGED <<last, id, session, player, started, replaced, overlapped, early>>

\* Mutants of Clear: the end of a file clears nothing; whatever session is
\* current is cleared.
ClearForLoop(t) ==
  /\ At(t, "clear")
  /\ session' = IF session = id[This(t)] /\ t = "loop" THEN NoId ELSE session
  /\ Continue(t, <<>>)
  /\ UNCHANGED <<last, id, player, reports>>

ClearAny(t) ==
  /\ At(t, "clear")
  /\ session' = NoId
  /\ Continue(t, <<>>)
  /\ UNCHANGED <<last, id, player, reports>>

Clear(t) ==
  /\ At(t, "clear")
  /\ session' = IF session = id[This(t)] THEN NoId ELSE session
  /\ Continue(t, <<>>)
  /\ UNCHANGED <<last, id, player, reports>>

\* _stop_media_session(), for the current session or for no session in
\* particular, and satellite.connection_lost(), which stops the player anyway.
StopSession ==
  /\ session # NoId
  /\ Call("loop", <<Step("halt", None)>>)
  /\ UNCHANGED <<last, id, session, player, reports>>

ConnectionLost ==
  /\ slot # None \/ file # None
  /\ Call("loop", <<Step("halt", None)>>)
  /\ UNCHANGED <<last, id, session, player, reports>>

\* _control_media_session(): pausing and resuming set the player's state,
\* whether it has a file or not.
ControlSession ==
  /\ session # NoId
  /\ todo["loop"] = <<>>
  /\ busy' = TRUE
  /\ UNCHANGED <<last, id, session, slot, track, file, events, todo, reports>>

-----------------------------------------------------------------------------
\* mpv plays a file to its end, or fails; only an end is looked at.
FileEnds ==
  /\ file # None
  /\ file' = None
  /\ events' = events + 1
  /\ UNCHANGED <<last, id, session, slot, track, busy, todo, reports>>

FileFails ==
  /\ "error" \in Failures
  /\ file # None
  /\ file' = None
  /\ busy' = FALSE
  /\ UNCHANGED <<last, id, session, slot, track, events, todo, reports>>

\* LibMpvPlayer._on_end_file()
EndOfFile ==
  /\ events > 0
  /\ events' = events - 1
  /\ busy' = FALSE
  /\ track' = FALSE
  /\ Call("mpv", IF track THEN <<Step("track", None)>> ELSE <<>>)
  /\ UNCHANGED <<last, id, session, slot, file, reports>>

\* MpvMediaPlayer._on_track_finished()
TrackFinished ==
  /\ At("mpv", "track")
  /\ slot' = None
  /\ Continue("mpv", IF slot = None THEN <<>> ELSE <<Step("finish", slot)>>)
  /\ UNCHANGED <<last, id, session, track, busy, file, events, reports>>

-----------------------------------------------------------------------------
Runs ==
  \/ PlayerHalt \/ PlayerRun \/ PlayerForgets \/ Begin \/ Play \/ PlayRefused \/ Started
  \/ EndOfFile \/ TrackFinished
  \/ \E t \in Threads : Finish(t) \/ Clear(t)

Next ==
  \/ \E s \in Ids : Start(s)
  \/ StopSession \/ ConnectionLost \/ ControlSession
  \/ FileEnds \/ FileFails
  \/ Runs

Spec == Init /\ [][Next]_vars

\* Both threads run on.  That a file comes to its end is not assumed: it may
\* loop, or be paused.
Fairness ==
  /\ WF_vars(PlayerHalt \/ PlayerRun \/ PlayerForgets \/ Begin \/ Play \/ PlayRefused \/ Started)
  /\ WF_vars(EndOfFile \/ TrackFinished)
  /\ \A t \in Threads : WF_vars(Finish(t) \/ Clear(t))

FairSpec == Spec /\ Fairness

-----------------------------------------------------------------------------
Settled == todo = [t \in Threads |-> <<>>] /\ events = 0

\* Types; and mpv has one file and at most one event for each of those before.
TypeOK ==
  /\ last \in 0 .. MaxStarts
  /\ id \in [Starts -> Ids \union {NoId}]
  /\ session \in Ids \union {NoId}
  /\ {slot, file} \subseteq Starts \union {None}
  /\ {track, busy} \subseteq BOOLEAN
  /\ events \in 0 .. MaxStarts
  /\ started \subseteq Starts /\ replaced \subseteq Starts /\ early \subseteq Starts
  /\ overlapped \subseteq Ids
  /\ finished \in [Starts -> Nat]

\* Reported in progress: started and not finished, nor about to be.
Open(n) ==
  /\ n \in started \ replaced
  /\ finished[n] = 0
  /\ \A t \in Threads : \A i \in DOMAIN todo[t] : todo[t][i] # Step("finish", n)

\* The server never has two sessions in progress: before a session is started,
\* the end of the one it takes over from was reported, or is on its way in mpv's
\* thread.
OneInProgress == \A m, n \in Starts : Open(m) /\ Open(n) /\ {id[m], id[n]} \intersect overlapped = {} => m = n

\* What plays can be stopped, paused and turned down: its session is current.
\* Of a session that was started again the end of the first start may clear the
\* second, if it was under way then.
PlayingIsCurrent ==
  \A n \in Starts : todo["loop"] = <<>> /\ Open(n) /\ id[n] \notin overlapped => session = id[n]

\* A start that is worked on ends as a session that is reported, and a session
\* taken over from is reported finished, whatever mpv does.
EverySessionEnds ==
  \A n \in Starts :
    (n \in started /\ last > n) ~> (finished[n] > 0 \/ n \in replaced \/ id[n] \in overlapped)

\* The Bluetooth scanner pauses while a session is current (_ble_should_pause).
\* At rest that is one that is not over, except that a file may come to its end
\* before its session is reported started, which makes it current once more.
PausedForASession ==
  Settled /\ session # NoId =>
    \E n \in started : id[n] = session /\ (finished[n] = 0 \/ n \in early)

=============================================================================
