------------------------------- MODULE Controls -------------------------------
(***************************************************************************)
(* What Home Assistant and the peripherals control together when the       *)
(* satellite runs as an ESPHome server: the microphone, the volume and the *)
(* music.  Any number of API connections share the entities (entity.py); a *)
(* peripheral command acts on the state and tells the newest connection;   *)
(* the end of a file is reported to all of them by a thread of mpv         *)
(* (ServerState.broadcast), and arrives behind what the event loop sends.  *)
(*                                                                         *)
(* Every handler runs on the event loop without a pause and is a function  *)
(* of the controls; the threads of mpv take steps of their own.            *)
(***************************************************************************)
EXTENDS Integers, Sequences

CONSTANTS
  MaxConnections,   \* bound: connections ever made
  Full, Step,       \* the highest volume and the step of volume_up, in per cent
  MaxCommands       \* bound: commands of Home Assistant and of peripherals

ASSUME ControlsAssumption ==
  /\ MaxConnections \in Nat \ {0} /\ MaxCommands \in Nat
  /\ Full \in 1..100 /\ Step \in 1..Full

Connections == 1..MaxConnections     \* in the order they are constructed
Volumes == {v \in 0..Full : v % Step = 0}
Players == {"music", "announce"}
Parts == {"switch", "media"}

VARIABLES
  controls,   \* the state the handlers share, see Controls
  satellite,  \* state.satellite: a connection, or 0
  phase,      \* per connection: absent, made, open, live (authenticated) or gone
  view,       \* per connection: what Home Assistant was told
  ending,     \* per player: the callback that its thread is to run
  report,     \* per player: the message its thread made and has not sent, or none
  posted,     \* call_soon_threadsafe: messages with their connection
  untold,     \* history: what a connection need not know, see Excuse
  commands    \* bound: commands so far

vars == <<controls, satellite, phase, view, ending, report, posted, untold, commands>>

\* muted is the microphone (state.muted), switch the mute switch's own copy;
\* state, volume, silenced (muted) and previous are the media player entity's;
\* level is what set_volume() gave both players, stored is state.volume and the
\* preferences; music is the music player's state, callback what a player does
\* when its file is over: report IDLE, or resume the music.
MediaStates == {"IDLE", "PLAYING", "PAUSED"}
Callbacks == {"none", "idle", "resume"}
ControlStates ==
  [muted : BOOLEAN, switch : BOOLEAN,
   state : MediaStates, volume : 0..Full, silenced : BOOLEAN, previous : 0..Full,
   level : 0..Full, stored : 0..Full,
   music : {"idle", "playing", "paused"}, callback : [Players -> Callbacks]]

\* What MediaPlayerEntity._get_state_message() tells, and a message of mpv's
\* threads: late if the media state changed after it was made.
MediaMessages == [state : MediaStates, volume : 0..Full, silenced : BOOLEAN]
Messages == [to : SUBSET Connections, media : MediaMessages, late : BOOLEAN]

Media(c) == [state |-> c.state, volume |-> c.volume, silenced |-> c.silenced]

TypeOK ==
  /\ controls \in ControlStates
  /\ satellite \in Connections \cup {0}
  /\ phase \in [Connections -> {"absent", "made", "open", "live", "gone"}]
  /\ view \in [Connections -> [switch : BOOLEAN, media : MediaMessages]]
  /\ ending \in [Players -> Callbacks]
  /\ report \in [Players -> SUBSET Messages] /\ posted \in Seq(Messages)
  /\ untold \subseteq Connections \X Parts
  /\ commands \in 0..MaxCommands

\* After __main__.py has constructed a first protocol, to validate it.
Init ==
  /\ \E v \in Volumes : controls =
       [muted |-> FALSE, switch |-> FALSE,
        state |-> "IDLE", volume |-> v, silenced |-> FALSE, previous |-> v, level |-> v, stored |-> v,
        music |-> "idle", callback |-> [p \in Players |-> "none"]]
  /\ satellite = 0 /\ phase = [c \in Connections |-> "absent"]
  /\ view = [c \in Connections |-> [switch |-> FALSE, media |-> Media(controls)]]
  /\ ending = [p \in Players |-> "none"] /\ report = [p \in Players |-> {}]
  /\ posted = <<>> /\ untold = {} /\ commands = 0

Open == {c \in Connections : phase[c] \in {"open", "live"}}     \* state.connections
Live == {c \in Connections : phase[c] = "live"}

----------------------------------------------------------------------------
\* Players.

\* A done_callback runs: call_all(resume), or report IDLE.
Run(f, c) == CASE f = "resume" -> [c EXCEPT !.music = "playing"]
               [] f = "idle" -> [c EXCEPT !.state = "IDLE"]
               [] OTHER -> c

\* MpvMediaPlayer.stop(): the callback runs and is forgotten; the player goes on
\* to say what it said before.
Stopped(p, c) == [Run(c.callback[p], c) EXCEPT !.callback[p] = "none"]

\* MpvMediaPlayer.play(): a callback that is still there is dropped.
Played(p, f, c) ==
  [c EXCEPT !.callback[p] = f, !.music = IF p = "music" THEN "playing" ELSE c.music]

\* Mutant of Leveled: what a later unmute brings back is not kept up to date.
LeveledAlone(v, c) == [c EXCEPT !.level = v, !.volume = v, !.stored = v]

\* set_volume() of both players, persist_volume().
Leveled(v, c) == [c EXCEPT !.level = v, !.volume = v, !.previous = v, !.stored = v]

----------------------------------------------------------------------------
\* Telling Home Assistant.

\* What the callback of player p broadcasts when the event loop runs it.
Everybody(p) == IF controls.callback[p] = "idle" THEN Open ELSE {}

\* Mutant of Audience: the one connection the entity was made for.
AudienceOfFirst == {c \in Open : \A d \in Open : c <= d}

\* ServerState.broadcast(): every connection.
Audience == Open

\* A message that was made before the media state changed to that of c.
Aged(m, c) == [m EXCEPT !.late = @ \/ Media(c) # Media(controls)]

\* The controls become c; what mpv's threads have on its way to Home Assistant
\* may be out of date then.
Become(c) ==
  /\ controls' = c
  /\ report' = [p \in Players |-> {Aged(m, c) : m \in report[p]}]
  /\ posted' = [i \in DOMAIN posted |-> Aged(posted[i], c)]

\* The event loop changes the controls to c, and tells the connections in
\* switches and in medias; excused are those that it need not tell.
Handle(c, switches, medias, excused) ==
  /\ Become(c)
  /\ view' = [d \in Connections |->
       [switch |-> IF d \in switches THEN c.switch ELSE view[d].switch,
        media |-> IF d \in medias THEN Media(c) ELSE view[d].media]]
  /\ untold' = (untold \cup excused) \ ((switches \X {"switch"}) \cup (medias \X {"media"}))

----------------------------------------------------------------------------
\* Connections.  A connection that is closed on request is lost at once here.

\* VoiceSatelliteProtocol.__init__(): the newest connection is the satellite; the
\* entities are told of the volume and of the microphone.
NewConnection(c) ==
  /\ phase[c] = "absent" /\ \A d \in 1..(c - 1) : phase[d] # "absent"
  /\ phase' = [phase EXCEPT ![c] = "made"]
  /\ satellite' = c
  /\ Handle([controls EXCEPT !.volume = controls.stored, !.previous = controls.stored, !.switch = controls.muted],
            {}, {}, Open \X Parts)
  /\ UNCHANGED <<ending, commands>>

ConnectionMade(c) ==
  /\ phase[c] = "made"
  /\ phase' = [phase EXCEPT ![c] = "open"]
  /\ UNCHANGED <<controls, satellite, view, ending, report, posted, untold, commands>>

\* process_packet(): Home Assistant is told everything once it is authenticated.
Authenticate(c) ==
  /\ phase[c] = "open"
  /\ phase' = [phase EXCEPT ![c] = "live"]
  /\ Handle([controls EXCEPT !.switch = controls.muted], {c}, {c}, {})
  /\ UNCHANGED <<satellite, ending, commands>>

\* connection_lost(): the last one stops both players.
ConnectionLost(c) ==
  /\ c \in Open
  /\ phase' = [phase EXCEPT ![c] = "gone"]
  /\ satellite' = IF satellite = c THEN 0 ELSE satellite
  /\ LET left == IF Open = {c} THEN Stopped("announce", Stopped("music", controls)) ELSE controls
     IN Handle([left EXCEPT !.switch = left.muted], {}, {}, {})
  /\ UNCHANGED <<ending, commands>>

----------------------------------------------------------------------------
\* Commands of Home Assistant: connection c is answered, the others are not.

\* VoiceSatelliteProtocol._set_muted(): the sound it plays drops what an
\* announcement was to do at its end.
SetMuted(on, c) ==
  Played("announce", "none",
         [(IF on THEN Stopped("announce", c) ELSE c) EXCEPT !.muted = on])

Counted ==
  /\ commands < MaxCommands /\ commands' = commands + 1
  /\ UNCHANGED <<satellite, phase, ending>>

Answer(c, new, broadcast) ==
  /\ c \in Live /\ Counted
  /\ Handle(new, {}, {c} \cup broadcast, (Open \ {c}) \X {"media"})

MuteSwitch(c, on) ==
  /\ c \in Live /\ Counted
  /\ Handle(SetMuted(on, [controls EXCEPT !.switch = on]),
            {c}, IF on THEN Everybody("announce") ELSE {}, (Open \ {c}) \X {"switch"})

Play(c) ==
  Answer(c, [Played("music", "idle", controls) EXCEPT !.state = "PLAYING"], {})

\* An announcement interrupts the music, or reports its own end.
Announce(c) ==
  LET over == controls.music # "idle"
  IN Answer(c, [Played("announce", IF over THEN "resume" ELSE "idle", controls) EXCEPT
                  !.music = IF over THEN "paused" ELSE @, !.state = "PLAYING"], {})

Paused == [controls EXCEPT !.music = "paused", !.state = "PAUSED"]
Resumed == [controls EXCEPT !.music = "playing", !.state = "PLAYING"]
Halted == [Stopped("music", controls) EXCEPT !.state = "IDLE"]

Pause(c) == Answer(c, Paused, {})
Resume(c) == Answer(c, Resumed, {})
Stop(c) == Answer(c, Halted, Everybody("music"))

Mute(c) ==
  Answer(c, IF controls.silenced THEN controls
              ELSE [controls EXCEPT !.previous = controls.volume, !.volume = 0, !.level = 0, !.silenced = TRUE], {})

\* int(volume * 100): of 0.29 the players get 28.
Unmute(c) ==
  \E lost \in 0..1 :
    LET level == controls.previous - lost
    IN /\ level >= 0
       /\ Answer(c, IF ~controls.silenced THEN controls
                      ELSE [controls EXCEPT !.volume = controls.previous, !.level = level, !.silenced = FALSE], {})

Volume(c) == \E v \in Volumes : Answer(c, Leveled(v, controls), {})

----------------------------------------------------------------------------
\* Commands of a peripheral: the newest connection is told.

\* send_messages() before connection_made() and after connection_lost() is lost.
Newest == {satellite} \cap Open

Tell(new, broadcast) ==
  Counted /\ Handle(new, {}, Newest \cup broadcast, (Open \ Newest) \X {"media"})

PeripheralMute(on) ==
  /\ satellite # 0 /\ controls.muted # on /\ Counted
  /\ Handle([SetMuted(on, controls) EXCEPT !.switch = on],
            Newest, IF on THEN Everybody("announce") ELSE {}, (Open \ Newest) \X {"switch"})

\* Up or down from the stored volume.
VolumeStep(by) ==
  LET v == controls.stored + by
  IN Tell(Leveled(IF v > Full THEN Full ELSE IF v < 0 THEN 0 ELSE v, controls), {})

SetVolume == \E v \in Volumes : Tell(Leveled(v, controls), {})
StopMedia == Tell(Halted, Everybody("music"))
PauseMedia == Tell(Paused, {})
ResumeMedia == Tell(Resumed, {})

\* The sound of a button drops what an announcement was to do at its end.
ButtonSound == Tell(Played("announce", "none", controls), {})

----------------------------------------------------------------------------
\* The threads of mpv.

\* A file is over: the player's thread takes the callback.
FileEnds(p) ==
  /\ controls.callback[p] # "none" /\ (p = "music" => controls.music = "playing")
  /\ ending[p] = "none" /\ report[p] = {}
  /\ ending' = [ending EXCEPT ![p] = controls.callback[p]]
  /\ Become([controls EXCEPT !.callback[p] = "none", !.music = IF p = "music" THEN "idle" ELSE controls.music])
  /\ UNCHANGED <<satellite, phase, view, untold, commands>>

\* It resumes the music, or makes the message that the entity is idle.
RunCallback(p) ==
  /\ ending[p] # "none"
  /\ ending' = [ending EXCEPT ![p] = "none"]
  /\ LET c == Run(ending[p], controls)
         made == [to |-> {}, media |-> Media(c), late |-> FALSE]
     IN /\ controls' = c
        /\ report' = [q \in Players |-> IF q = p /\ ending[p] = "idle" THEN {made}
                                        ELSE {Aged(m, c) : m \in report[q]}]
        /\ posted' = [i \in DOMAIN posted |-> Aged(posted[i], c)]
  /\ UNCHANGED <<satellite, phase, view, untold, commands>>

\* It is handed to the event loop, for whoever is connected now.
Broadcast(p) ==
  /\ report[p] # {}
  /\ posted' = posted \o
       (IF Audience = {} THEN <<>> ELSE <<[(CHOOSE m \in report[p] : TRUE) EXCEPT !.to = Audience]>>)
  /\ report' = [report EXCEPT ![p] = {}]
  /\ UNCHANGED <<controls, satellite, phase, view, ending, untold, commands>>

\* The event loop writes it to the next connection; a closed one ignores it.
Deliver ==
  /\ posted # <<>>
  /\ LET m == Head(posted)
     IN \E c \in m.to :
          /\ \A d \in m.to : c <= d
          /\ posted' = IF m.to = {c} THEN Tail(posted) ELSE <<[m EXCEPT !.to = m.to \ {c}]>> \o Tail(posted)
          /\ view' = [view EXCEPT ![c].media = m.media]
          /\ untold' = IF m.late THEN untold \cup {<<c, "media">>} ELSE untold \ {<<c, "media">>}
  /\ UNCHANGED <<controls, satellite, phase, ending, report, commands>>

----------------------------------------------------------------------------
FromHome(c) ==
  \/ \E on \in BOOLEAN : MuteSwitch(c, on)
  \/ Play(c) \/ Announce(c) \/ Pause(c) \/ Resume(c) \/ Stop(c)
  \/ Mute(c) \/ Unmute(c) \/ Volume(c)

FromPeripheral ==
  \/ \E on \in BOOLEAN : PeripheralMute(on)
  \/ \E by \in {Step, -Step} : VolumeStep(by)
  \/ SetVolume \/ StopMedia \/ PauseMedia \/ ResumeMedia \/ ButtonSound

Next ==
  \/ \E c \in Connections : NewConnection(c) \/ ConnectionMade(c) \/ Authenticate(c) \/ ConnectionLost(c)
  \/ \E c \in Connections : FromHome(c)
  \/ FromPeripheral
  \/ \E p \in Players : FileEnds(p) \/ RunCallback(p) \/ Broadcast(p)
  \/ Deliver

Spec == Init /\ [][Next]_vars

----------------------------------------------------------------------------
OneVolume(c) ==
  /\ c.previous = c.stored
  /\ ~c.silenced => c.volume = c.stored /\ c.stored - c.level \in 0..1

(* The volume is one: what the players are set to, what Home Assistant is   *)
(* told and what is stored are the same to a per cent, whoever set it and   *)
(* through mutes and new connections; and what an unmute brings back is the *)
(* stored volume.                                                           *)
VolumesAgree == OneVolume(controls)

OnItsWay(c) == (\E p \in Players : ending[p] = "idle" \/ report[p] # {}) \/ (\E i \in DOMAIN posted : c \in posted[i].to)

(* The newest connection knows the state of the switch and of the media     *)
(* player, but for what another connection changed, and for a report of     *)
(* mpv's thread that is on its way or came after newer news.                *)
NewestIsTold ==
  \A c \in {satellite} \cap Live :
    /\ <<c, "switch">> \in untold \/ view[c].switch = controls.muted
    /\ <<c, "media">> \in untold \/ OnItsWay(c) \/ view[c].media = Media(controls)
=============================================================================
