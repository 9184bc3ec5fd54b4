------------------------------ MODULE BoardLink ------------------------------
(***************************************************************************)
(* One board of src/examples with the satellite it belongs to: the events  *)
(* of the satellite, the connection to the peripheral API as the board's   *)
(* LVAClient keeps it, the board's state and LEDs (BoardEvents), its       *)
(* buttons, and the commands that come of them.                            *)
(*                                                                         *)
(* The peripheral API is taken at its word (PeripheralApi): a connection   *)
(* starts with a snapshot and the last state event, and every later event  *)
(* follows in order.                                                       *)
(***************************************************************************)
EXTENDS Naturals, Sequences, BoardEvents

CONSTANTS
  Kinds,          \* the boards that are looked at
  Reported,       \* and the events of the satellite
  MaxEvents,      \* bounds, for TLC: on the events of the satellite,
  MaxChanges,     \* on mutes, connections and restarts of it,
  MaxLosses,      \* on the connections lost,
  MaxPresses      \* and on the presses of a button

ASSUME BoardLinkAssumption ==
  /\ Kinds \subseteq Boards
  /\ Reported \subseteq Pipeline \union Passing
  /\ {MaxEvents, MaxChanges, MaxLosses, MaxPresses} \subseteq Nat

VARIABLES
  kind,       \* the board
  sat,        \* state.muted and state.connected of the satellite
  current,    \* PeripheralAPIServer._current_state, none or one message
  link,       \* "down", or "up" while _connect() runs
  peer,       \* the other end of the connection: "open", "closed" or "broken"
  wire,       \* messages that were not read
  recv,       \* _recv_loop(): "running", "asleep" (an error is shown) or "ended"
  board,      \* SharedState
  leds,       \* what the LEDs show
  queue,      \* command_queue
  press,      \* ButtonMultipressHandler
  events, changes, losses, presses

satellite == <<sat, current, events, changes>>
connection == <<link, peer, wire, recv>>
shown == <<board, leds>>
button == <<press, presses>>
vars == <<kind, satellite, connection, shown, queue, button, losses>>

\* Timers that run and callbacks of timers that were due, by kind, and what
\* _press_timer refers to: no timer, one that is over, or a running one.
NoTimers == [timer \in {"long", "multi"} |-> 0]
NoPress == [held |-> FALSE, count |-> 0, running |-> NoTimers, due |-> NoTimers, ref |-> "none"]

NotReady == IF kind = "twomic" THEN "not_ready" ELSE "twinkle"

Init ==
  /\ kind \in Kinds
  /\ sat \in [muted : {FALSE}, connected : BOOLEAN]
  /\ current = <<>>
  /\ link = "down" /\ peer = "closed" /\ wire = <<>> /\ recv = "ended"
  /\ board = FirstState
  /\ leds = NotReady
  /\ queue = <<>>
  /\ press = NoPress
  /\ events = 0 /\ changes = 0 /\ losses = 0 /\ presses = 0

-----------------------------------------------------------------------------
\* The satellite.  Whatever it emits reaches the board if it is connected, and
\* the last event that is of a state is kept for the next connection.
StateEvents == Pipeline \union {"muted", "disconnected"}

LastState(messages) ==
  LET states == {i \in DOMAIN messages : messages[i].event \in StateEvents}
      last == CHOOSE i \in states : \A j \in states : j <= i
  IN  IF states = {} THEN current ELSE <<messages[last]>>

Emit(messages) ==
  /\ current' = LastState(messages)
  /\ wire' = IF link = "up" /\ peer = "open" THEN wire \o messages ELSE wire

\* handle_voice_event(), handle_timer_event(), wakeup(), play_tts(), ...: the
\* callbacks of the players may come after a mute or a change of connection, so
\* that any of these events may follow any other.
Reports ==
  /\ events < MaxEvents
  /\ events' = events + 1
  /\ \E name \in Reported : Emit(<<Event(name)>>)
  /\ UNCHANGED <<kind, sat, changes, link, peer, recv, shown, queue, button, losses>>

\* _set_muted(): a response that plays is ended, and may be continued.
Muted(muted) ==
  LET said == [Event("muted") EXCEPT !.muted = muted]
      endings == IF muted
                   THEN {<<>>, <<Event("tts_finished"), Event("idle")>>, <<Event("tts_finished"), Event("listening")>>}
                   ELSE {<<Event("idle")>>}
  IN  /\ sat' = [sat EXCEPT !.muted = muted]
      /\ \E rest \in endings : Emit(<<said>> \o rest)

MayChange == changes < MaxChanges /\ changes' = changes + 1

SetMuted ==
  /\ MayChange
  /\ sat.connected
  /\ Muted(~sat.muted)
  /\ UNCHANGED <<kind, events, link, peer, recv, shown, queue, button, losses>>

\* process_packet() and connection_lost(), for a single connection.
HomeConnects ==
  /\ MayChange
  /\ ~sat.connected
  /\ sat' = [sat EXCEPT !.connected = TRUE]
  /\ Emit(<<Event("zeroconf")>>)
  /\ UNCHANGED <<kind, events, link, peer, recv, shown, queue, button, losses>>

HomeLost ==
  /\ MayChange
  /\ sat.connected
  /\ sat' = [sat EXCEPT !.connected = FALSE]
  /\ Emit(<<Event("disconnected")>>)
  /\ UNCHANGED <<kind, events, link, peer, recv, shown, queue, button, losses>>

\* The satellite is started anew: it closes its connections, or is killed.
Restarts ==
  /\ MayChange
  /\ sat' = [muted |-> FALSE, connected |-> FALSE]
  /\ current' = <<>>
  /\ peer' \in IF peer = "open" THEN {"closed", "broken"} ELSE {peer}
  /\ UNCHANGED <<kind, events, link, wire, recv, shown, queue, button, losses>>

Breaks ==
  /\ link = "up" /\ peer = "open"
  /\ losses < MaxLosses
  /\ losses' = losses + 1
  /\ peer' = "broken"
  /\ UNCHANGED <<kind, satellite, link, wire, recv, shown, queue, button>>

-----------------------------------------------------------------------------
\* The client of the board.
Snapshot == [event |-> "snapshot", muted |-> sat.muted, ha |-> sat.connected]

Connect ==
  /\ link = "down"
  /\ link' = "up" /\ peer' = "open" /\ recv' = "running"
  /\ wire' = <<Snapshot>> \o current
  /\ UNCHANGED <<kind, satellite, shown, queue, button, losses>>

Receive ==
  /\ link = "up" /\ recv = "running" /\ wire # <<>>
  /\ wire' = Tail(wire)
  /\ board' = Handle(kind, board, Head(wire))
  /\ IF kind = "twomic" /\ Head(wire).event = "pipeline_error"
       THEN recv' = "asleep" /\ UNCHANGED leds
       ELSE leds' = Leds(kind, board', Head(wire)) /\ UNCHANGED recv
  /\ UNCHANGED <<kind, satellite, link, peer, queue, button, losses>>

\* The rest of the branch for "pipeline_error".
ErrorShown ==
  /\ recv = "asleep"
  /\ recv' = "running"
  /\ board' = TwoMicErrorOver(board)
  /\ leds' = board'.assist
  /\ UNCHANGED <<kind, satellite, link, peer, wire, queue, button, losses>>

Elapse ==
  /\ board.counting
  /\ board' = [board EXCEPT !.counting = FALSE]
  /\ UNCHANGED <<kind, satellite, connection, leds, queue, button, losses>>

\* The exception of a task ends _connect() and cancels the other task.
Down ==
  /\ link' = "down" /\ peer' = "closed" /\ wire' = <<>> /\ recv' = "ended"
  /\ board' = Unreachable(board)
  /\ leds' = NotReady

ReceiveRaises ==
  /\ link = "up" /\ recv = "running" /\ wire = <<>> /\ peer = "broken"
  /\ Down
  /\ UNCHANGED <<kind, satellite, queue, button, losses>>

\* When the connection was closed the loop just ends; _connect() waits for the
\* first exception, or for both tasks.
ReceiveEnds ==
  /\ link = "up" /\ recv = "running" /\ wire = <<>> /\ peer = "closed"
  /\ recv' = "ended"
  /\ UNCHANGED <<kind, satellite, link, peer, wire, shown, queue, button, losses>>

PutBack == Append(Tail(queue), Head(queue))

SendFails ==
  /\ link = "up" /\ peer # "open" /\ queue # <<>>
  /\ queue' = PutBack
  /\ Down
  /\ UNCHANGED <<kind, satellite, button, losses>>

\* _send_loop(), and what the satellite does with the command.
Send ==
  /\ link = "up" /\ peer = "open" /\ queue # <<>>
  /\ queue' = Tail(queue)
  /\ IF sat.connected /\ Head(queue) = (IF sat.muted THEN "unmute_mic" ELSE "mute_mic")
       THEN Muted(~sat.muted)
       ELSE UNCHANGED <<sat, current, wire>>
  /\ UNCHANGED <<kind, events, changes, link, peer, recv, shown, button, losses>>

-----------------------------------------------------------------------------
\* The buttons.  What a press asks for depends on what the board believes.
Speaks == {"wake_word_detected", "listening", "thinking", "tts_speaking"}

Action ==
  IF board.assist = "timer_ringing" THEN "stop_timer_ringing"
  ELSE IF board.assist \in Speaks THEN "stop_pipeline"
  ELSE IF board.assist = "media_player_playing" THEN "stop_media_player" ELSE "start_listening"

MayPress == presses < MaxPresses /\ presses' = presses + 1

\* Mute, action and volume buttons of the Satellite1 board.
PressSatellite1 ==
  /\ kind = "satellite1"
  /\ MayPress
  /\ \E command \in {IF board.muted THEN "unmute_mic" ELSE "mute_mic", Action, "volume_up"} :
       queue' = Append(queue, command)
  /\ UNCHANGED <<kind, satellite, connection, shown, press, losses>>

\* threading.Timer: one that is due before it is cancelled runs its callback.
Cancelled(p) == IF p.ref \in DOMAIN NoTimers THEN [p.running EXCEPT ![p.ref] = @ - 1] ELSE p.running

StartTimer(p, timer) ==
  [p EXCEPT !.running = [Cancelled(p) EXCEPT ![timer] = @ + 1], !.ref = timer]

\* Mutant of Pressed: the timer of the press before is cancelled, none is started.
PressedOnly(p) ==
  IF p.count = 0 THEN StartTimer([p EXCEPT !.count = 1], "long")
  ELSE [p EXCEPT !.count = @ + 1, !.running = Cancelled(p), !.ref = "none"]

Pressed(p) == StartTimer([p EXCEPT !.count = @ + 1], IF p.count = 0 THEN "long" ELSE "multi")

Press ==
  /\ kind = "twomic"
  /\ ~press.held
  /\ MayPress
  /\ press' = [Pressed(press) EXCEPT !.held = TRUE]
  /\ UNCHANGED <<kind, satellite, connection, shown, queue, losses>>

Released(p) == IF p.count = 1 /\ p.ref # "none" THEN StartTimer(p, "multi") ELSE p

Release ==
  /\ press.held
  /\ press' = [Released(press) EXCEPT !.held = FALSE]
  /\ UNCHANGED <<kind, satellite, connection, shown, queue, presses, losses>>

TimerDue(timer) ==
  /\ press.running[timer] > 0
  /\ press' = [press EXCEPT !.running[timer] = @ - 1, !.due[timer] = @ + 1,
                            !.ref = IF @ = timer THEN "over" ELSE @]
  /\ UNCHANGED <<kind, satellite, connection, shown, queue, presses, losses>>

\* _on_multipress_timeout(): the counter is taken in one step, whoever started it.
Resolve ==
  /\ press.due.multi > 0
  /\ press' = [press EXCEPT !.due.multi = @ - 1, !.count = 0, !.ref = "none"]
  /\ queue' = CASE press.count = 0 -> queue
                [] press.count = 1 -> Append(queue, Action)
                [] press.count = 2 -> Append(queue, "button_double_press")
                [] press.count > 2 -> Append(queue, "button_triple_press")
  /\ UNCHANGED <<kind, satellite, connection, shown, presses, losses>>

LongPress ==
  /\ press.due.long > 0
  /\ IF press.count = 1
       THEN /\ press' = [press EXCEPT !.due.long = @ - 1, !.count = 0]
            /\ queue' = Append(queue, "button_long_press")
       ELSE /\ press' = [press EXCEPT !.due.long = @ - 1]
            /\ UNCHANGED queue
  /\ UNCHANGED <<kind, satellite, connection, shown, presses, losses>>

Next ==
  \/ Reports \/ SetMuted \/ HomeConnects \/ HomeLost \/ Restarts \/ Breaks
  \/ Connect \/ Receive \/ ErrorShown \/ Elapse \/ ReceiveRaises \/ ReceiveEnds
  \/ SendFails \/ Send
  \/ PressSatellite1 \/ Press \/ Release \/ (\E timer \in DOMAIN NoTimers : TimerDue(timer)) \/ Resolve \/ LongPress

Spec == Init /\ [][Next]_vars

\* The loop of the board and its timers run; the satellite accepts connections.
Fairness ==
  /\ WF_vars(Connect) /\ WF_vars(Receive) /\ WF_vars(ErrorShown)
  /\ WF_vars(ReceiveRaises) /\ WF_vars(ReceiveEnds)
  /\ WF_vars(SendFails) /\ WF_vars(Send)
  /\ \A timer \in DOMAIN NoTimers : WF_vars(TimerDue(timer))
  /\ WF_vars(Resolve) /\ WF_vars(LongPress)

FairSpec == Spec /\ Fairness

-----------------------------------------------------------------------------
Commands == {"mute_mic", "unmute_mic", "volume_up", "stop_timer_ringing", "stop_pipeline", "stop_media_player",
             "start_listening", "button_double_press", "button_triple_press", "button_long_press"}

TypeOK ==
  /\ kind \in Boards
  /\ sat \in [muted : BOOLEAN, connected : BOOLEAN]
  /\ current \in Seq(Messages) /\ wire \in Seq(Messages)
  /\ link \in {"down", "up"} /\ peer \in {"open", "closed", "broken"}
  /\ recv \in {"running", "asleep", "ended"}
  /\ board \in BoardStates
  /\ leds \in States \union {"twinkle", "off"}
  /\ queue \in Seq(Commands)
  /\ press \in [held : BOOLEAN, count : Nat, running : [{"long", "multi"} -> Nat], due : [{"long", "multi"} -> Nat],
                ref : {"none", "over", "long", "multi"}]
  /\ {events, changes, losses, presses} \subseteq Nat

\* Nothing is on its way between the satellite and the board.
Settled == link = "up" /\ peer = "open" /\ recv = "running" /\ wire = <<>>

\* The board knows whether the microphone is muted, whatever was sent before it
\* connected, was lost with a connection or came in between.  The 4-mic board
\* and the USB array, which read every "muted" as muted, err on one side only.
MuteKnown ==
  Settled => IF kind \in {"satellite1", "twomic"} THEN board.muted = sat.muted ELSE sat.muted => board.muted

\* A ring never looks ready when the satellite does not hear: neither while the
\* microphone is muted nor while Home Assistant is away.  (The LEDs of the 2-mic
\* board follow events only, and look ready after an error or an "idle".)
NeverReadyInVain ==
  Settled /\ kind # "twomic" =>
    /\ leds = "idle" => ~sat.muted
    /\ leds # "twinkle" => sat.connected

\* Every press ends as the command of one gesture, and every command is sent,
\* though timers are cancelled too late and connections break in between.
EveryPressSent == press.count > 0 \/ queue # <<>> ~> press.count = 0 /\ queue = <<>>

\* What DOCS.md of the Satellite1 board says: when the connection is lost, the
\* satellite restarted included, the board connects again.
ConnectsAgain == link = "up" /\ peer # "open" ~> link = "down"
=============================================================================
