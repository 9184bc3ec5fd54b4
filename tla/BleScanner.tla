----------------------------- MODULE BleScanner -----------------------------
(***************************************************************************)
(* The life of the Bluetooth observer (LinuxBleScanner and _RawHciObserver *)
(* in ble_scanner.py): started with a connection and stopped with it, on a *)
(* thread of its own over raw HCI or as a task of the event loop over      *)
(* BlueZ, and paused while voice or media is on.  The radio is the         *)
(* controller's own switch: no process that ends turns it off.             *)
(***************************************************************************)
EXTENDS Naturals

CONSTANTS
  MaxObservers,   \* bound on the raw observers, for TLC
  MaxFailures     \* bound on the errors of the adapter

ASSUME BleScannerAssumption == {MaxObservers, MaxFailures} \subseteq Nat

Observers == 1 .. MaxObservers

VARIABLES
  raw,        \* the raw observer in use, 0 if there is none
  made,       \* the raw observers made so far
  pc,         \* where the thread of each one is
  stop,       \* which were asked to stop
  socket,     \* "none", "private", "shared" (in self._socket), or "closed"
  paused,     \* the local of _receive_loop
  task,       \* where the BlueZ task is
  stopping,   \* progress of LinuxBleScanner.stop()
  radio,      \* whether the controller scans
  rows,       \* whether the batch has rows
  status,     \* what the heartbeat reports
  wantPause,  \* should_pause()
  outlived,   \* history: observers that stop() did not wait for any longer
  failures

raws == <<raw, made, pc, stop, socket, paused, outlived>>
vars == <<raws, task, stopping, radio, rows, status, wantPause, failures>>

Off == [running |-> FALSE, scanning |-> FALSE, paused |-> FALSE]

Init ==
  /\ raw = 0 /\ made = 0
  /\ pc = [o \in Observers |-> "none"]
  /\ stop = [o \in Observers |-> FALSE]
  /\ socket = [o \in Observers |-> "none"]
  /\ paused = [o \in Observers |-> FALSE]
  /\ task = "none"
  /\ stopping = "no"
  /\ radio = FALSE /\ rows = FALSE
  /\ status = Off
  /\ wantPause \in BOOLEAN
  /\ outlived = {}
  /\ failures = 0

Goto(o, label) == pc' = [pc EXCEPT ![o] = label]

Fail == failures < MaxFailures /\ failures' = failures + 1

-----------------------------------------------------------------------------
\* LinuxBleScanner, on the event loop

\* Mutant of Idle: a stop under way does not count.
IdleAtOnce == (raw = 0 \/ stopping # "no") /\ task \in {"none", "done"}

Idle == raw = 0 /\ task \in {"none", "done"} /\ stopping = "no"

\* start(), when a connection is there.  Access to raw HCI is probed each time.
StartRaw ==
  /\ Idle
  /\ made < MaxObservers
  /\ made' = made + 1 /\ raw' = made + 1
  /\ Goto(made + 1, "top")
  /\ UNCHANGED <<stop, socket, paused, outlived, task, stopping, radio, rows, status, wantPause, failures>>

StartBluez ==
  /\ Idle
  /\ made < MaxObservers
  /\ made' = made + 1
  /\ task' = "top"
  /\ status' = [status EXCEPT !.running = TRUE]
  /\ UNCHANGED <<raw, pc, stop, socket, paused, outlived, stopping, radio, rows, wantPause, failures>>

\* stop(), when the connection ends: the raw observer is asked on a worker
\* thread; a BlueZ task is cancelled and awaited.
StopBegin ==
  /\ stopping = "no"
  /\ \/ /\ raw # 0
        /\ stopping' = "set" /\ stop' = [stop EXCEPT ![raw] = TRUE]
        /\ UNCHANGED task
     \/ /\ raw = 0 /\ task \notin {"none", "done"}
        /\ stopping' = "task" /\ task' = "cancelled"
        /\ UNCHANGED stop
  /\ UNCHANGED <<raw, made, pc, socket, paused, outlived, radio, rows, status, wantPause, failures>>

\* _RawHciObserver.stop() closes the socket the thread uses, if it knows one.
StopClose ==
  /\ stopping = "set"
  /\ stopping' = "join"
  /\ socket' = IF socket[raw] = "shared" THEN [socket EXCEPT ![raw] = "closed"] ELSE socket
  /\ UNCHANGED <<raw, made, pc, stop, paused, outlived, task, radio, rows, status, wantPause, failures>>

\* join(timeout=2): only opening the device may take so long.
StopJoin ==
  /\ stopping = "join"
  /\ pc[raw] \in {"over", "opening"}
  /\ outlived' = IF pc[raw] = "over" THEN outlived ELSE outlived \union {raw}
  /\ stopping' = "joined"
  /\ UNCHANGED <<raw, made, pc, stop, socket, paused, task, radio, rows, status, wantPause, failures>>

StopEnd ==
  /\ stopping = "joined"
  /\ stopping' = "no" /\ raw' = 0
  /\ task' = "none"
  /\ rows' = FALSE
  /\ status' = Off
  /\ UNCHANGED <<made, pc, stop, socket, paused, outlived, radio, wantPause, failures>>

-----------------------------------------------------------------------------
\* The thread of a raw observer

\* _run(): the loop, and what is reported when it ends.
RunTop(o) ==
  /\ pc[o] = "top"
  /\ \/ /\ ~stop[o]
        /\ Goto(o, "opening")
        /\ UNCHANGED status
     \/ /\ stop[o]
        /\ Goto(o, "over")
        /\ status' = Off
  /\ UNCHANGED <<raw, made, stop, socket, paused, outlived, task, stopping, radio, rows, wantPause, failures>>

\* _open_socket(): the adapter is brought up, and the scan switched off and on.
OpenSocket(o) ==
  /\ pc[o] = "opening"
  /\ Goto(o, "opened")
  /\ socket' = [socket EXCEPT ![o] = "private"]
  /\ radio' = TRUE
  /\ UNCHANGED <<raw, made, stop, paused, outlived, task, stopping, rows, status, wantPause, failures>>

\* An error is reported, unless it is the stop itself; then comes a pause.
OpenFails(o) ==
  /\ pc[o] = "opening"
  /\ Fail
  /\ Goto(o, "closing")
  /\ UNCHANGED <<raw, made, stop, socket, paused, outlived, task, stopping, radio, rows, status, wantPause>>

ShareSocket(o) ==
  /\ pc[o] = "opened"
  /\ Goto(o, "receiving")
  /\ socket' = [socket EXCEPT ![o] = "shared"]
  /\ paused' = [paused EXCEPT ![o] = FALSE]
  /\ status' = [running |-> TRUE, scanning |-> TRUE, paused |-> FALSE]
  /\ UNCHANGED <<raw, made, stop, outlived, task, stopping, radio, rows, wantPause, failures>>

\* _receive_loop(): the loop ends when it sees the stop or meets the closed socket.
ReceiveEnds(o) ==
  /\ pc[o] = "receiving"
  /\ stop[o]
  /\ Goto(o, "closing")
  /\ UNCHANGED <<raw, made, stop, socket, paused, outlived, task, stopping, radio, rows, status, wantPause, failures>>

ReceiveFails(o) ==
  /\ pc[o] = "receiving" /\ socket[o] = "shared"
  /\ Fail
  /\ Goto(o, "closing")
  /\ UNCHANGED <<raw, made, stop, socket, paused, outlived, task, stopping, radio, rows, status, wantPause>>

\* Mutant of FollowPause: the scan goes on.
FollowPauseScans(o) ==
  /\ pc[o] = "receiving" /\ socket[o] = "shared" /\ ~stop[o]
  /\ wantPause # paused[o]
  /\ paused' = [paused EXCEPT ![o] = wantPause]
  /\ status' = [status EXCEPT !.paused = wantPause, !.scanning = ~wantPause]
  /\ rows' = (rows /\ ~wantPause)
  /\ UNCHANGED <<raw, made, pc, stop, socket, outlived, task, stopping, radio, wantPause, failures>>

FollowPause(o) ==
  /\ pc[o] = "receiving" /\ socket[o] = "shared" /\ ~stop[o]
  /\ wantPause # paused[o]
  /\ paused' = [paused EXCEPT ![o] = wantPause]
  /\ status' = [status EXCEPT !.paused = wantPause, !.scanning = ~wantPause]
  /\ radio' = ~wantPause
  /\ rows' = (rows /\ ~wantPause)
  /\ UNCHANGED <<raw, made, pc, stop, socket, outlived, task, stopping, wantPause, failures>>

\* A packet is ingested, and the batch flushed when it is due.
Receive(o) ==
  /\ pc[o] = "receiving" /\ socket[o] = "shared" /\ ~stop[o]
  /\ wantPause = paused[o] /\ ~paused[o]
  /\ \/ radio /\ rows' = TRUE
     \/ rows' = FALSE
  /\ UNCHANGED <<raws, task, stopping, radio, status, wantPause, failures>>

\* The finally clause: only a socket that is still open can switch the scan off.
CloseSocket(o) ==
  /\ pc[o] = "closing"
  /\ Goto(o, "top")
  /\ status' = [status EXCEPT !.scanning = FALSE]
  /\ radio' = (radio /\ socket[o] # "shared")
  /\ socket' = [socket EXCEPT ![o] = "none"]
  /\ UNCHANGED <<raw, made, stop, paused, outlived, task, stopping, rows, wantPause, failures>>

-----------------------------------------------------------------------------
\* The BlueZ task

BluezTop ==
  /\ task = "top"
  /\ \/ /\ wantPause
        /\ status' = [status EXCEPT !.paused = TRUE, !.scanning = FALSE]
        /\ rows' = FALSE
        /\ UNCHANGED <<task, radio>>
     \/ /\ ~wantPause
        /\ status' = [status EXCEPT !.paused = FALSE, !.scanning = TRUE]
        /\ task' = "scanning"
        /\ radio' = TRUE
        /\ UNCHANGED rows
  /\ UNCHANGED <<raws, stopping, wantPause, failures>>

BluezReceive ==
  /\ task = "scanning"
  /\ rows' \in BOOLEAN
  /\ UNCHANGED <<raws, task, stopping, radio, status, wantPause, failures>>

\* The scan ends for a pause or an error; scanner.stop() is awaited meanwhile.
BluezFinally ==
  /\ task = "scanning"
  /\ \/ wantPause /\ UNCHANGED failures
     \/ Fail
  /\ task' = "stopping"
  /\ status' = [status EXCEPT !.scanning = FALSE]
  /\ UNCHANGED <<raws, stopping, radio, rows, wantPause>>

BluezStopped ==
  /\ task = "stopping"
  /\ task' = "top"
  /\ radio' = FALSE
  /\ UNCHANGED <<raws, stopping, rows, status, wantPause, failures>>

\* A cancelled task runs its finally clauses, and stop() goes on.
BluezCancelled ==
  /\ task = "cancelled"
  /\ task' = "done"
  /\ radio' = FALSE
  /\ status' = Off
  /\ stopping' = "joined"
  /\ UNCHANGED <<raws, rows, wantPause, failures>>

-----------------------------------------------------------------------------
\* Voice, playback and media sessions come and go.
TogglePause ==
  /\ wantPause' = ~wantPause
  /\ UNCHANGED <<raws, task, stopping, radio, rows, status, failures>>

Scanner == StartRaw \/ StartBluez \/ StopBegin

Stopping == StopClose \/ StopJoin \/ StopEnd

Works(o) ==
  RunTop(o) \/ OpenSocket(o) \/ ShareSocket(o) \/ ReceiveEnds(o) \/ FollowPause(o) \/ CloseSocket(o)

Breaks(o) == OpenFails(o) \/ ReceiveFails(o)

Bluez == BluezTop \/ BluezFinally \/ BluezStopped \/ BluezCancelled

Next ==
  \/ Scanner \/ Stopping
  \/ \E o \in Observers : Works(o) \/ Breaks(o) \/ Receive(o)
  \/ Bluez \/ BluezReceive
  \/ TogglePause

Spec == Init /\ [][Next]_vars

\* Threads and tasks run on; opening the device comes to an end.
Fairness ==
  /\ WF_vars(Stopping)
  /\ WF_vars(Bluez)
  /\ \A o \in Observers : WF_vars(Works(o))

FairSpec == Spec /\ Fairness

-----------------------------------------------------------------------------
\* Types; and the heartbeat never reports a pause and a scan at once, or a scan
\* of an observer that does not run, unless one outlived its stop.
TypeOK ==
  /\ raw \in 0 .. MaxObservers /\ made \in 0 .. MaxObservers
  /\ pc \in [Observers -> {"none", "top", "opening", "opened", "receiving", "closing", "over"}]
  /\ stop \in [Observers -> BOOLEAN]
  /\ socket \in [Observers -> {"none", "private", "shared", "closed"}]
  /\ paused \in [Observers -> BOOLEAN]
  /\ task \in {"none", "top", "scanning", "stopping", "cancelled", "done"}
  /\ stopping \in {"no", "set", "join", "joined", "task"}
  /\ {radio, rows, wantPause} \subseteq BOOLEAN
  /\ status \in [running : BOOLEAN, scanning : BOOLEAN, paused : BOOLEAN]
  /\ status.scanning /\ outlived = {} => status.running /\ ~status.paused
  /\ outlived \subseteq Observers
  /\ failures \in 0 .. MaxFailures

\* The observer that is in use has the radio as it believes: on while it
\* receives, off and with no rows while it pauses.  An earlier observer that
\* outlived its stop may still come and switch the radio over.
RadioAsBelieved ==
  \A o \in Observers :
    pc[o] = "receiving" /\ socket[o] = "shared" /\ outlived = {} =>
      radio = ~paused[o] /\ (paused[o] => ~rows)

\* One observer at a time, unless one outlived its stop: a new one is made only
\* when the thread of the last one is over; it finds nothing that was heard on
\* an earlier connection, and until then none is reported.
OneObserver ==
  /\ \A o \in Observers : pc[o] \notin {"none", "over"} => o = raw \/ o \in outlived
  /\ Idle /\ outlived = {} => ~rows /\ status = Off

\* While voice or media is on, a raw observer in use switches the radio off.
PauseTakesEffect ==
  (<>[](wantPause /\ raw # 0 /\ stopping = "no" /\ outlived = {})) => (<>[](~radio))

=============================================================================
