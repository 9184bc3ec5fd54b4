---------------------------- MODULE PeripheralApi ----------------------------
(***************************************************************************)
(* The server of the peripheral API (PeripheralAPIServer in                *)
(* peripheral_api.py): LED boards and buttons connect, are told the state  *)
(* of the satellite, and from then on every event.  Events are broadcast   *)
(* by coroutines that write to one client after the other and wait         *)
(* wherever a client does not read, so several broadcasts, greetings and   *)
(* commands are under way at once.                                         *)
(*                                                                         *)
(* A client is one websocket: a board that connects again is another.      *)
(* What websockets promises: a send to an open client writes at once and   *)
(* then waits for room, in turn with the sends before it; a send to a      *)
(* client that is closing waits until it is closed; one to a closed client *)
(* fails at once.                                                          *)
(***************************************************************************)
EXTENDS Naturals, FiniteSets, SequencesExt

CONSTANTS
  Emitted,        \* the events that are looked at
  MaxClients,     \* bound on the clients, for TLC; they are numbered as they come
  MaxEmitted,     \* bound on the events emitted
  MaxCommands,    \* bound on the commands sent
  MaxStalls,      \* bound on how often a client stops reading
  MaxLeaving      \* bound on the clients that are lost

\* The countdown of a timer is refreshed by timer_updated; other events (texts,
\* volume) are of no state.
KeptEvents == {"idle", "timer_ringing", "timer_ticking"}
Events == KeptEvents \union {"timer_updated", "stt_text"}

ASSUME PeripheralApiAssumption ==
  /\ Emitted \subseteq Events
  /\ MaxClients \in 1 .. 4
  /\ {MaxEmitted, MaxCommands, MaxStalls, MaxLeaving} \subseteq Nat

Clients == 1 .. MaxClients
Loop == 0       \* no client: the event loop itself

VARIABLES
  conn,       \* "new", "open", "closing" or "closed"
  slow,       \* clients whose buffer is full
  clients,    \* self._clients,
  ahead,      \* and which of two clients comes first when it is iterated
  serving,    \* clients whose _handle_client runs
  inbox,      \* commands of each client that were not handled
  currentState, \* _current_state and, as a serial number, its data
  serial,     \* events emitted so far
  posted,     \* emit_event_sync: the coroutines the loop has not started
  waits,      \* coroutines that wait for a client, the longest first
  alarm,      \* satellite._timer_finished
  commands, stalls,
  seen,       \* history: what each client was told
  disturbed   \* history: a connection that ended under a broadcast

apiVars == <<conn, slow, clients, ahead, serving, inbox, currentState, serial, posted, waits, alarm,
          commands, stalls, seen, disturbed>>

Nothing == [state |-> "none", data |-> 0]

ApiInit ==
  /\ conn = [c \in Clients |-> "new"]
  /\ slow = {}
  /\ clients = {} /\ ahead = {} /\ serving = {}
  /\ inbox = [c \in Clients |-> 0]
  /\ currentState = Nothing
  /\ serial = 0
  /\ posted = <<>> /\ waits = <<>>
  /\ alarm = FALSE
  /\ commands = 0 /\ stalls = 0
  /\ seen = [c \in Clients |-> [state |-> "none", data |-> 0, last |-> 0]]
  /\ disturbed = FALSE

-----------------------------------------------------------------------------
\* What emit_event remembers for the clients to come.
StateAfter(s, event, n) ==
  IF event \in KeptEvents
    THEN [s EXCEPT !.state = event, !.data = n]
    ELSE IF event = "timer_updated" /\ s.state = "timer_ticking" THEN [s EXCEPT !.data = n] ELSE s

\* What a board makes of an event.
Told(s, event, n) ==
  [(IF event \in KeptEvents
      THEN [s EXCEPT !.state = event, !.data = n]
      ELSE IF event = "timer_updated" /\ s.state = "timer_ticking" THEN [s EXCEPT !.data = n] ELSE s)
   EXCEPT !.last = n]

\* Which of these clients make a coroutine wait, with the others waiting already.
Holds(list, others) ==
  {c \in list :
     \/ conn[c] = "closing"
     \/ /\ conn[c] = "open"
        /\ c \in slow \/ \E i \in DOMAIN others : others[i].at = c}

\* Clients whose send fails; the broadcast goes on with the next one.
Lost(list) == {c \in list : conn[c] = "closed"}

\* Mutant of StillServing: the failure reaches the handler that broadcasts.
ServingUnlessLost(by, dead) == IF dead = {} THEN serving ELSE serving \ {by}

StillServing(by, dead) == serving

\* Mutant of InTurn: every other broadcast begins at the other end.
EitherEnd(n) == IF n % 2 = 0 THEN {<<e[2], e[1]>> : e \in ahead} ELSE ahead

InTurn(n) == ahead

\* The loop of emit_event from here on: it writes to the clients of the list up
\* to the first that makes it wait; at the end the dead ones are taken out.
Broadcast(event, n, list, dead, by, others) ==
  LET held == Holds(list, others)
      reached == {c \in list : \A d \in held : <<d, c>> \notin InTurn(n)}
      lost == dead \union Lost(reached)
  IN  /\ seen' = [c \in Clients |-> IF c \in reached /\ conn[c] = "open"
                                      THEN Told(seen[c], event, n) ELSE seen[c]]
      /\ serving' = StillServing(by, lost)
      /\ \/ /\ held = {}
            /\ waits' = others
            /\ clients' = clients \ lost
         \/ \E c \in held \intersect reached :
              /\ waits' = Append(others, [at |-> c, by |-> by, event |-> event, serial |-> n,
                                         rest |-> list \ reached, dead |-> lost])
              /\ UNCHANGED clients

\* emit_event(), from the loop or awaited by the handler of a client.
EmitEvent(event, by) ==
  /\ serial' = serial + 1
  /\ currentState' = StateAfter(currentState, event, serial + 1)
  /\ Broadcast(event, serial + 1, clients, {}, by, waits)

\* Room for one more event among those to come.
MayEmit == serial + Len(posted) < MaxEmitted

\* emit_event_sync(), from the satellite on any thread.
Post(event) ==
  /\ MayEmit
  /\ posted' = Append(posted, event)
  /\ alarm' = (alarm \/ event = "timer_ringing")
  /\ UNCHANGED <<conn, slow, clients, ahead, serving, inbox, currentState, serial, waits, commands, stalls, seen, disturbed>>

RunPosted ==
  /\ posted # <<>>
  /\ posted' = Tail(posted)
  /\ EmitEvent(Head(posted), Loop)
  /\ UNCHANGED <<conn, slow, ahead, inbox, alarm, commands, stalls, disturbed>>

-----------------------------------------------------------------------------
\* _handle_client() and _send_snapshot(): the client is in the set before it is
\* greeted, and the state it is told is read after the snapshot was sent.
Waiting(c, what) == [at |-> c, by |-> c, event |-> what, serial |-> 0, rest |-> {}, dead |-> {}]

\* Mutant of Replayed: the event that was last is replayed without its data.
ReplayedBare(c) == [seen[c] EXCEPT !.state = currentState.state]

Replayed(c) == [seen[c] EXCEPT !.state = currentState.state, !.data = currentState.data]

Met == {c \in Clients : conn[c] # "new"}

\* A Python set takes a newcomer at any place; with at most four members since
\* it was made it is never rebuilt, so those before keep their order.
Orders(c) ==
  {ahead \union (first \X {c}) \union ({c} \X (Met \ first)) :
     first \in {f \in SUBSET Met : \A d \in f, e \in Met : <<e, d>> \in ahead => e \in f}}

Join(c) ==
  /\ conn[c] = "new" /\ \A d \in 1 .. c - 1 : conn[d] # "new"
  /\ conn' = [conn EXCEPT ![c] = "open"]
  /\ serving' = serving \union {c}
  /\ clients' = clients \union {c}
  /\ ahead' \in Orders(c)
  /\ IF c \in slow
       THEN waits' = Append(waits, Waiting(c, "snapshot")) /\ UNCHANGED seen
       ELSE seen' = [seen EXCEPT ![c] = Replayed(c)] /\ UNCHANGED waits
  /\ UNCHANGED <<slow, inbox, currentState, serial, posted, alarm, commands, stalls, disturbed>>

\* A wait ends when there is room and it is its turn, or with an error.
MayGoOn(i) ==
  \/ conn[waits[i].at] = "closed"
  \/ /\ conn[waits[i].at] = "open" /\ waits[i].at \notin slow
     /\ \A j \in 1 .. i - 1 : waits[j].at # waits[i].at

Resume(i) ==
  /\ i \in DOMAIN waits
  /\ MayGoOn(i)
  /\ LET w == waits[i]
         c == w.at
         others == RemoveAt(waits, i)
     IN  \/ /\ w.event \in Events
            /\ Broadcast(w.event, w.serial, w.rest, w.dead \union Lost({c}), w.by, others)
         \/ /\ w.event = "snapshot" /\ conn[c] = "open"
            /\ seen' = [seen EXCEPT ![c] = Replayed(c)]
            /\ waits' = IF Holds({c}, others) = {} THEN others ELSE Append(others, Waiting(c, "replay"))
            /\ UNCHANGED <<clients, serving>>
         \/ /\ w.event = "replay" \/ (w.event = "snapshot" /\ conn[c] = "closed")
            /\ waits' = others
            /\ UNCHANGED <<seen, clients, serving>>
  /\ UNCHANGED <<conn, slow, ahead, inbox, currentState, serial, posted, alarm, commands, stalls, disturbed>>

Busy(c) == \E i \in DOMAIN waits : waits[i].by = c

\* _dispatch_command(): most commands have the satellite emit an event from
\* itself; to stop the alarm the handler broadcasts, and waits for all clients.
Dispatch(c) ==
  /\ c \in serving /\ ~Busy(c) /\ inbox[c] > 0
  /\ inbox' = [inbox EXCEPT ![c] = @ - 1]
  /\ \/ /\ alarm
        /\ alarm' = FALSE
        /\ EmitEvent("idle", c)
        /\ UNCHANGED posted
     \/ /\ MayEmit
        /\ posted' = Append(posted, "idle")
        /\ UNCHANGED <<alarm, serial, currentState, seen, serving, waits, clients>>
     \/ UNCHANGED <<alarm, posted, serial, currentState, seen, serving, waits, clients>>
  /\ UNCHANGED <<conn, slow, ahead, commands, stalls, disturbed>>

\* The finally clause of _handle_client(), once the client is gone.
HandlerEnds(c) ==
  /\ c \in serving /\ ~Busy(c)
  /\ conn[c] = "closed" /\ inbox[c] = 0
  /\ serving' = serving \ {c}
  /\ clients' = clients \ {c}
  /\ UNCHANGED <<conn, slow, ahead, inbox, currentState, serial, posted, waits, alarm, commands, stalls, seen, disturbed>>

-----------------------------------------------------------------------------
\* The clients and their connections.
SendCommand(c) ==
  /\ conn[c] = "open"
  /\ commands < MaxCommands
  /\ commands' = commands + 1
  /\ inbox' = [inbox EXCEPT ![c] = @ + 1]
  /\ UNCHANGED <<conn, slow, clients, ahead, serving, currentState, serial, posted, waits, alarm, stalls, seen, disturbed>>

Stall(c) ==
  /\ conn[c] \in {"new", "open"} /\ c \notin slow
  /\ stalls < MaxStalls
  /\ stalls' = stalls + 1
  /\ slow' = slow \union {c}
  /\ UNCHANGED <<conn, clients, ahead, serving, inbox, currentState, serial, posted, waits, alarm, commands, seen, disturbed>>

Read(c) ==
  /\ conn[c] = "open" /\ c \in slow
  /\ slow' = slow \ {c}
  /\ UNCHANGED <<conn, clients, ahead, serving, inbox, currentState, serial, posted, waits, alarm, commands, stalls, seen, disturbed>>

Leaving == Cardinality({c \in Clients : conn[c] \in {"closing", "closed"}})

\* The client closes, is dropped by the keepalive, or the server is stopped.
Close(c) ==
  /\ conn[c] = "open"
  /\ Leaving < MaxLeaving
  /\ conn' = [conn EXCEPT ![c] = "closing"]
  /\ UNCHANGED <<slow, clients, ahead, serving, inbox, currentState, serial, posted, waits, alarm, commands, stalls, seen, disturbed>>

\* Who waited for the client goes on a little later, and may be overtaken.
Closed(c) ==
  /\ \/ conn[c] = "closing"
     \/ conn[c] = "open" /\ Leaving < MaxLeaving
  /\ conn' = [conn EXCEPT ![c] = "closed"]
  /\ disturbed' = (disturbed \/ \E i \in DOMAIN waits : waits[i].at = c /\ waits[i].rest # {})
  /\ UNCHANGED <<slow, clients, ahead, serving, inbox, currentState, serial, posted, waits, alarm, commands, stalls, seen>>

ApiNext ==
  \/ \E event \in Emitted : Post(event)
  \/ RunPosted
  \/ \E i \in DOMAIN waits : Resume(i)
  \/ \E c \in Clients :
       \/ Join(c) \/ Dispatch(c) \/ HandlerEnds(c)
       \/ SendCommand(c) \/ Stall(c) \/ Read(c) \/ Close(c) \/ Closed(c)

ApiSpec == ApiInit /\ [][ApiNext]_apiVars

\* The loop runs what is ready; a client that does not read is dropped by the
\* keepalive of websockets, if it does not begin to read before.
ApiFairness ==
  /\ WF_apiVars(RunPosted)
  /\ WF_apiVars(\E i \in DOMAIN waits : Resume(i))
  /\ \A c \in Clients :
       /\ WF_apiVars(Dispatch(c))
       /\ WF_apiVars(c \in slow /\ (Read(c) \/ Closed(c)))
       /\ WF_apiVars(conn[c] = "closing" /\ Closed(c))

FairApiSpec == ApiSpec /\ ApiFairness

-----------------------------------------------------------------------------
Wait == [at : Clients, by : Clients \union {Loop}, event : Events \union {"snapshot", "replay"},
         serial : Nat, rest : SUBSET Clients, dead : SUBSET Clients]

ApiTypeOK ==
  /\ conn \in [Clients -> {"new", "open", "closing", "closed"}]
  /\ slow \subseteq Clients /\ serving \subseteq Clients
  /\ clients \subseteq Clients /\ ahead \subseteq Clients \X Clients
  /\ inbox \in [Clients -> Nat]
  /\ currentState \in [state : KeptEvents \union {"none"}, data : Nat]
  /\ {serial, commands, stalls} \subseteq Nat
  /\ posted \in Seq(Events)
  /\ waits \in Seq(Wait)
  /\ {alarm, disturbed} \subseteq BOOLEAN
  /\ seen \in [Clients -> [state : KeptEvents \union {"none"}, data : Nat, last : Nat]]

\* Every board shows what the satellite does: when nothing is under way, each
\* connected client was last told the current state with its latest countdown,
\* whether it was there all the time or came while events were being sent.  The
\* exception is a connection that ended while a broadcast waited for it: the
\* broadcast goes on a little later, and a younger one may have passed it.
PictureIsCurrent ==
  waits = <<>> /\ ~disturbed =>
    \A c \in clients :
      conn[c] = "open" => seen[c].state = currentState.state /\ seen[c].data = currentState.data

\* With the same exception no client is told an older event after a younger one,
\* although broadcasts wait for slow clients at different places.
EventsInOrder ==
  [][~disturbed' => \A c \in Clients : seen'[c].last >= seen[c].last]_apiVars

\* The commands of a client are handled, though its own broadcasts wait for
\* clients that do not read or are lost.
CommandsServed == \A c \in Clients : inbox[c] > 0 ~> inbox[c] = 0
=============================================================================
