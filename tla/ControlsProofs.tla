---------------------------- MODULE ControlsProofs ----------------------------
(***************************************************************************)
(* The volume is one, and the newest connection is told of what changes,   *)
(* for any number of connections and commands.                             *)
(*                                                                         *)
(* Every handler is a function of the controls; each of these functions    *)
(* keeps the controls sound, hence so does every step.  What a connection  *)
(* knows is followed through Handle, by which every handler tells it; of   *)
(* the messages of mpv's threads, those that are not late are true.        *)
(***************************************************************************)
EXTENDS Controls, SequenceTheorems, TLAPS

Sound(c) == c \in ControlStates /\ OneVolume(c)

----------------------------------------------------------------------------
\* What the handlers are made of.

\* A done_callback touches the music and the state alone.
LEMMA RunIsSound ==
  ASSUME NEW c, Sound(c), NEW f
  PROVE  Sound(Run(f, c)) /\ Run(f, c).callback = c.callback
<1>1. CASE f = "resume"
  BY <1>1 DEF Run, Sound, ControlStates, OneVolume
<1>2. CASE f = "idle"
  BY <1>2 DEF Run, Sound, ControlStates, OneVolume, MediaStates
<1>3. CASE f \notin {"resume", "idle"}
  BY <1>3 DEF Run
<1> QED
  BY <1>1, <1>2, <1>3

LEMMA StoppedIsSound ==
  ASSUME NEW c, Sound(c), NEW p \in Players
  PROVE  Sound(Stopped(p, c))
<1> DEFINE d == Run(c.callback[p], c)
<1>1. Sound(d)
  BY RunIsSound
<1>2. d.callback \in [Players -> Callbacks]
  BY <1>1 DEF Sound, ControlStates
<1>3. [d.callback EXCEPT ![p] = "none"] \in [Players -> Callbacks]
  BY <1>2 DEF Callbacks
<1>4. Stopped(p, c) = [d EXCEPT !.callback = [d.callback EXCEPT ![p] = "none"]]
  BY DEF Stopped
<1> HIDE DEF d
<1> QED
  BY <1>1, <1>3, <1>4 DEF Sound, ControlStates, OneVolume

LEMMA PlayedIsSound ==
  ASSUME NEW c, Sound(c), NEW p \in Players, NEW f \in Callbacks
  PROVE  Sound(Played(p, f, c))
<1> DEFINE g == [c.callback EXCEPT ![p] = f]
           m == IF p = "music" THEN "playing" ELSE c.music
<1>1. g \in [Players -> Callbacks]
  BY DEF Sound, ControlStates
<1>2. m \in {"idle", "playing", "paused"}
  BY DEF Sound, ControlStates
<1>3. Played(p, f, c) = [c EXCEPT !.callback = g, !.music = m]
  BY DEF Played
<1> HIDE DEF g, m
<1>4. [c EXCEPT !.callback = g, !.music = m] \in ControlStates
  BY <1>1, <1>2 DEF Sound, ControlStates
<1>5. OneVolume([c EXCEPT !.callback = g, !.music = m])
  BY DEF Sound, ControlStates, OneVolume
<1> QED
  BY <1>3, <1>4, <1>5 DEF Sound

LEMMA LeveledIsSound ==
  ASSUME NEW c, Sound(c), NEW v \in 0..Full
  PROVE  Sound(Leveled(v, c))
<1> DEFINE d == Leveled(v, c)
<1>1. d \in ControlStates
  BY DEF Leveled, Sound, ControlStates
<1>2. d.volume = v /\ d.previous = v /\ d.stored = v /\ d.level = v
  BY DEF Leveled, Sound, ControlStates
<1>3. v \in Int /\ v - v \in 0..1
  BY ControlsAssumption
<1> QED
  BY <1>1, <1>2, <1>3 DEF Sound, OneVolume

LEMMA SetMutedIsSound ==
  ASSUME NEW c, Sound(c), NEW on \in BOOLEAN
  PROVE  Sound(SetMuted(on, c))
<1> DEFINE d == IF on THEN Stopped("announce", c) ELSE c
<1>1. Sound(d)
  BY StoppedIsSound DEF Players
<1>2. Sound([d EXCEPT !.muted = on])
  <2> HIDE DEF d
  <2> QED
    BY <1>1 DEF Sound, ControlStates, OneVolume
<1> QED
  BY <1>2, PlayedIsSound DEF SetMuted, Players, Callbacks

\* The parts of the controls that no volume is in.
LEMMA StateIsSound ==
  ASSUME NEW c, Sound(c), NEW s \in MediaStates
  PROVE  Sound([c EXCEPT !.state = s])
  BY DEF Sound, ControlStates, OneVolume

LEMMA MusicIsSound ==
  ASSUME NEW c, Sound(c), NEW s \in MediaStates, NEW m \in {"idle", "playing", "paused"}
  PROVE  Sound([c EXCEPT !.music = m, !.state = s])
  BY DEF Sound, ControlStates, OneVolume

LEMMA PausedIsSound ==
  ASSUME Sound(controls)
  PROVE  Sound(Paused) /\ Sound(Resumed)
<1>1. Sound([controls EXCEPT !.music = "paused", !.state = "PAUSED"])
  BY MusicIsSound DEF MediaStates
<1>2. Sound([controls EXCEPT !.music = "playing", !.state = "PLAYING"])
  BY MusicIsSound DEF MediaStates
<1> QED
  BY <1>1, <1>2 DEF Paused, Resumed

LEMMA SwitchIsSound ==
  ASSUME NEW c, Sound(c), NEW b \in BOOLEAN
  PROVE  Sound([c EXCEPT !.switch = b])
  BY DEF Sound, ControlStates, OneVolume

\* The media player's own mute keeps the volume that its unmute brings back.
Silenced(c) == [c EXCEPT !.previous = c.volume, !.volume = 0, !.level = 0, !.silenced = TRUE]
Audible(c, level) == [c EXCEPT !.volume = c.previous, !.level = level, !.silenced = FALSE]

LEMMA SilencedIsSound ==
  ASSUME NEW c, Sound(c), ~c.silenced
  PROVE  Sound(Silenced(c))
<1>1. 0 \in 0..Full
  BY ControlsAssumption
<1>2. Silenced(c) \in ControlStates
  BY <1>1 DEF Silenced, Sound, ControlStates
<1>3. /\ Silenced(c).previous = c.volume /\ Silenced(c).stored = c.stored
      /\ Silenced(c).silenced
  BY DEF Silenced, Sound, ControlStates
<1> QED
  BY <1>2, <1>3 DEF Sound, OneVolume

LEMMA AudibleIsSound ==
  ASSUME NEW c, Sound(c), NEW lost \in 0..1, c.previous - lost >= 0
  PROVE  Sound(Audible(c, c.previous - lost))
<1> DEFINE level == c.previous - lost
           d == Audible(c, level)
<1>1. c.previous \in 0..Full /\ c.stored = c.previous
  BY DEF Sound, ControlStates, OneVolume
<1>2. level \in 0..Full /\ c.stored - level \in 0..1
  BY <1>1, ControlsAssumption
<1> HIDE DEF level
<1>3. d \in ControlStates
  BY <1>1, <1>2 DEF Audible, Sound, ControlStates
<1>4. d.volume = c.previous /\ d.level = level /\ d.stored = c.stored /\ d.previous = c.previous
  BY DEF Audible, Sound, ControlStates
<1> QED
  BY <1>1, <1>2, <1>3, <1>4 DEF Sound, OneVolume, level

\* The constructor of a connection gives the entity the stored volume.
LEMMA WelcomedIsSound ==
  ASSUME NEW c, Sound(c), NEW s \in BOOLEAN
  PROVE  Sound([c EXCEPT !.volume = c.stored, !.previous = c.stored, !.switch = s])
<1> DEFINE d == [c EXCEPT !.volume = c.stored, !.previous = c.stored, !.switch = s]
<1>1. d \in ControlStates
  BY DEF Sound, ControlStates
<1>2. /\ d.volume = c.stored /\ d.previous = c.stored /\ d.stored = c.stored
      /\ d.level = c.level /\ d.silenced = c.silenced
  BY DEF Sound, ControlStates
<1> QED
  BY <1>1, <1>2 DEF Sound, OneVolume

----------------------------------------------------------------------------
LEMMA SoundInit == Init => Sound(controls)
<1> SUFFICES ASSUME Init PROVE Sound(controls)
  OBVIOUS
<1>1. PICK v \in Volumes : controls =
       [muted |-> FALSE, switch |-> FALSE,
        state |-> "IDLE", volume |-> v, silenced |-> FALSE, previous |-> v, level |-> v, stored |-> v,
        music |-> "idle", callback |-> [p \in Players |-> "none"]]
  BY DEF Init
<1>2. v \in 0..Full /\ v - v \in 0..1
  BY ControlsAssumption DEF Volumes
<1>3. [p \in Players |-> "none"] \in [Players -> Callbacks]
  BY DEF Callbacks
<1> QED
  BY <1>1, <1>2, <1>3 DEF Sound, ControlStates, OneVolume, MediaStates

\* The event loop makes the controls sound ones.
LEMMA HomeIsSound ==
  ASSUME Sound(controls), NEW c, FromHome(c)
  PROVE  Sound(controls')
<1> USE DEF Answer, Handle, Become
<1>1. CASE \E on \in BOOLEAN : MuteSwitch(c, on)
  <2>1. PICK on \in BOOLEAN : MuteSwitch(c, on)
    BY <1>1
  <2>2. Sound([controls EXCEPT !.switch = on])
    BY SwitchIsSound
  <2> QED
    BY <2>1, <2>2, SetMutedIsSound DEF MuteSwitch
<1>2. CASE Play(c)
  <2>1. Sound(Played("music", "idle", controls))
    BY PlayedIsSound DEF Players, Callbacks
  <2> QED
    BY <1>2, <2>1, StateIsSound DEF Play, MediaStates
<1>3. CASE Announce(c)
  <2> DEFINE over == controls.music # "idle"
             d == Played("announce", IF over THEN "resume" ELSE "idle", controls)
             m == IF over THEN "paused" ELSE d.music
  <2>1. Sound(d)
    BY PlayedIsSound DEF Players, Callbacks
  <2>2. m \in {"idle", "playing", "paused"}
    BY <2>1 DEF Sound, ControlStates
  <2>3. controls' = [d EXCEPT !.music = m, !.state = "PLAYING"]
    BY <1>3 DEF Announce
  <2> HIDE DEF d, m
  <2> QED
    BY <2>1, <2>2, <2>3, MusicIsSound DEF MediaStates
<1>4. CASE Pause(c) \/ Resume(c)
  BY <1>4, PausedIsSound DEF Pause, Resume
<1>5. CASE Stop(c)
  <2>1. Sound(Stopped("music", controls))
    BY StoppedIsSound DEF Players
  <2> QED
    BY <1>5, <2>1, StateIsSound DEF Stop, Halted, MediaStates
<1>6. CASE Mute(c)
  BY <1>6, SilencedIsSound DEF Mute, Silenced
<1>7. CASE Unmute(c)
  <2>1. CASE ~controls.silenced
    BY <1>7, <2>1 DEF Unmute
  <2>2. CASE controls.silenced
    <3>1. PICK lost \in 0..1 : /\ controls.previous - lost >= 0
                               /\ controls' = Audible(controls, controls.previous - lost)
      BY <1>7, <2>2 DEF Unmute, Audible
    <3> QED
      BY <3>1, AudibleIsSound
  <2> QED
    BY <2>1, <2>2
<1>8. CASE Volume(c)
  BY <1>8, LeveledIsSound DEF Volume, Volumes
<1> QED
  BY <1>1, <1>2, <1>3, <1>4, <1>5, <1>6, <1>7, <1>8 DEF FromHome

LEMMA PeripheralIsSound ==
  ASSUME Sound(controls), FromPeripheral
  PROVE  Sound(controls')
<1> USE DEF Tell, Handle, Become
<1>1. CASE \E on \in BOOLEAN : PeripheralMute(on)
  <2>1. PICK on \in BOOLEAN : PeripheralMute(on)
    BY <1>1
  <2>2. Sound(SetMuted(on, controls))
    BY SetMutedIsSound
  <2> QED
    BY <2>1, <2>2, SwitchIsSound DEF PeripheralMute
<1>2. CASE \E by \in {Step, -Step} : VolumeStep(by)
  <2>1. PICK by \in {Step, -Step} : VolumeStep(by)
    BY <1>2
  <2> DEFINE v == controls.stored + by
             w == IF v > Full THEN Full ELSE IF v < 0 THEN 0 ELSE v
  <2>2. w \in 0..Full
    BY ControlsAssumption DEF Sound, ControlStates
  <2>3. controls' = Leveled(w, controls)
    BY <2>1 DEF VolumeStep
  <2> HIDE DEF w
  <2> QED
    BY <2>2, <2>3, LeveledIsSound
<1>3. CASE SetVolume
  BY <1>3, LeveledIsSound DEF SetVolume, Volumes
<1>4. CASE StopMedia
  <2>1. Sound(Stopped("music", controls))
    BY StoppedIsSound DEF Players
  <2> QED
    BY <1>4, <2>1, StateIsSound DEF StopMedia, Halted, MediaStates
<1>5. CASE PauseMedia \/ ResumeMedia
  BY <1>5, PausedIsSound DEF PauseMedia, ResumeMedia
<1>6. CASE ButtonSound
  BY <1>6, PlayedIsSound DEF ButtonSound, Players, Callbacks
<1> QED
  BY <1>1, <1>2, <1>3, <1>4, <1>5, <1>6 DEF FromPeripheral

LEMMA SoundStep == Sound(controls) /\ [Next]_vars => Sound(controls)'
<1> SUFFICES ASSUME Sound(controls), [Next]_vars PROVE Sound(controls')
  BY DEF Sound
<1>1. CASE \E c \in Connections : NewConnection(c)
  <2>1. controls.muted \in BOOLEAN
    BY DEF Sound, ControlStates
  <2>2. controls' = [controls EXCEPT !.volume = controls.stored, !.previous = controls.stored,
                                     !.switch = controls.muted]
    BY <1>1 DEF NewConnection, Handle, Become
  <2> QED
    BY <2>1, <2>2, WelcomedIsSound
<1>2. CASE \E c \in Connections : Authenticate(c)
  <2>1. controls' = [controls EXCEPT !.switch = controls.muted]
    BY <1>2 DEF Authenticate, Handle, Become
  <2>2. controls.muted \in BOOLEAN
    BY DEF Sound, ControlStates
  <2> QED
    BY <2>1, <2>2, SwitchIsSound
<1>3. CASE \E c \in Connections : ConnectionLost(c)
  <2>1. PICK c \in Connections : ConnectionLost(c)
    BY <1>3
  <2> DEFINE left == IF Open = {c} THEN Stopped("announce", Stopped("music", controls)) ELSE controls
  <2>2. Sound(Stopped("music", controls))
    BY StoppedIsSound DEF Players
  <2>3. Sound(left)
    BY <2>2, StoppedIsSound DEF Players
  <2>4. controls' = [left EXCEPT !.switch = left.muted]
    BY <2>1 DEF ConnectionLost, Handle, Become
  <2> HIDE DEF left
  <2>5. left.muted \in BOOLEAN
    BY <2>3 DEF Sound, ControlStates
  <2> QED
    BY <2>3, <2>4, <2>5, SwitchIsSound
<1>4. CASE \E c \in Connections : FromHome(c)
  BY <1>4, HomeIsSound
<1>5. CASE FromPeripheral
  BY <1>5, PeripheralIsSound
<1>6. CASE \E p \in Players : FileEnds(p)
  <2>1. PICK p \in Players : FileEnds(p)
    BY <1>6
  <2> DEFINE g == [controls.callback EXCEPT ![p] = "none"]
             m == IF p = "music" THEN "idle" ELSE controls.music
  <2>2. g \in [Players -> Callbacks] /\ m \in {"idle", "playing", "paused"}
    BY DEF Sound, ControlStates, Callbacks
  <2>3. controls' = [controls EXCEPT !.callback = g, !.music = m]
    BY <2>1 DEF FileEnds, Become
  <2> HIDE DEF g, m
  <2>4. controls' \in ControlStates
    BY <2>2, <2>3 DEF Sound, ControlStates
  <2>5. OneVolume(controls')
    BY <2>3 DEF Sound, ControlStates, OneVolume
  <2> QED
    BY <2>4, <2>5 DEF Sound
<1>7. CASE \E p \in Players : RunCallback(p)
  BY <1>7, RunIsSound DEF RunCallback
<1>8. CASE UNCHANGED controls
  BY <1>8
<1> QED
  BY <1>1, <1>2, <1>3, <1>4, <1>5, <1>6, <1>7, <1>8 DEF Next, vars, ConnectionMade, Broadcast, Deliver

(* What Home Assistant shows, what the players are set to and what is       *)
(* stored are the same volume, whoever set it, through mutes, unmutes and   *)
(* new connections (entity.py, peripheral_api.py, satellite.py).            *)
THEOREM VolumesAlwaysAgree == Spec => []VolumesAgree
<1>1. Sound(controls) => VolumesAgree
  BY DEF Sound, VolumesAgree
<1> QED
  BY <1>1, SoundInit, SoundStep, PTL DEF Spec

----------------------------------------------------------------------------
\* The other variables keep their types with the controls.

LEMMA MediaTyped ==
  ASSUME NEW c \in ControlStates
  PROVE  Media(c) \in MediaMessages
  BY DEF Media, MediaMessages, ControlStates

LEMMA AgedTyped ==
  ASSUME NEW m \in Messages, NEW c
  PROVE  Aged(m, c) \in Messages
  BY DEF Aged, Messages

LEMMA BecomeTyped ==
  ASSUME TypeOK, NEW c, Become(c)
  PROVE  report' \in [Players -> SUBSET Messages] /\ posted' \in Seq(Messages)
<1>1. report' \in [Players -> SUBSET Messages]
  BY AgedTyped DEF Become, TypeOK
<1>2. posted' \in Seq(Messages)
  <2>1. \A i \in DOMAIN posted : Aged(posted[i], c) \in Messages
    BY AgedTyped DEF TypeOK
  <2> QED
    BY <2>1, SMTT(30) DEF Become, TypeOK
<1> QED
  BY <1>1, <1>2

Rest ==
  /\ view \in [Connections -> [switch : BOOLEAN, media : MediaMessages]]
  /\ report \in [Players -> SUBSET Messages] /\ posted \in Seq(Messages)
  /\ untold \subseteq Connections \X Parts

LEMMA HandleTyped ==
  ASSUME TypeOK, controls' \in ControlStates, NEW c,
         NEW switches, switches \subseteq Connections, NEW medias, medias \subseteq Connections,
         NEW excused, excused \subseteq Connections \X Parts, Handle(c, switches, medias, excused)
  PROVE  Rest'
<1>0. c \in ControlStates
  BY DEF Handle, Become
<1>1. view' \in [Connections -> [switch : BOOLEAN, media : MediaMessages]]
  <2>1. c.switch \in BOOLEAN /\ Media(c) \in MediaMessages
    BY <1>0, MediaTyped DEF ControlStates
  <2> QED
    BY <2>1 DEF Handle, TypeOK
<1>2. untold' \subseteq Connections \X Parts
  BY DEF Handle, TypeOK
<1> QED
  BY <1>1, <1>2, BecomeTyped DEF Handle, Rest

LEMMA TypesInit == Init => TypeOK
<1> SUFFICES ASSUME Init PROVE TypeOK
  OBVIOUS
<1>1. controls \in ControlStates
  BY SoundInit DEF Sound
<1>2. Media(controls) \in MediaMessages
  BY <1>1, MediaTyped
<1>3. view \in [Connections -> [switch : BOOLEAN, media : MediaMessages]]
  BY <1>2 DEF Init
<1>4. report \in [Players -> SUBSET Messages] /\ posted \in Seq(Messages)
  BY DEF Init
<1>5. ending \in [Players -> Callbacks] /\ phase \in [Connections -> {"absent", "made", "open", "live", "gone"}]
  BY DEF Init, Callbacks
<1>6. satellite \in Connections \cup {0} /\ untold \subseteq Connections \X Parts /\ commands \in 0..MaxCommands
  BY ControlsAssumption DEF Init
<1> QED
  BY <1>1, <1>3, <1>4, <1>5, <1>6 DEF TypeOK

\* What the loop tells goes to connections, and so do the excuses.
LEMMA ToConnections ==
  ASSUME TypeOK
  PROVE  /\ Open \subseteq Connections /\ Live \subseteq Connections /\ Newest \subseteq Connections
         /\ \A p : Everybody(p) \subseteq Connections
         /\ \A c, part : part \in Parts => (Open \ c) \X {part} \subseteq Connections \X Parts
         /\ Open \X Parts \subseteq Connections \X Parts
  BY DEF Open, Live, Newest, Everybody

LEMMA Nobody == {} \subseteq Connections
  OBVIOUS

LEMMA HomeTyped ==
  ASSUME TypeOK, controls' \in ControlStates, NEW c, FromHome(c)
  PROVE  Rest' /\ UNCHANGED <<satellite, phase, ending>> /\ commands' \in 0..MaxCommands
<1>1. commands' \in 0..MaxCommands /\ UNCHANGED <<satellite, phase, ending>> /\ c \in Connections
  <2>1. Counted /\ c \in Live
    BY DEF FromHome, MuteSwitch, Play, Announce, Pause, Resume, Stop, Mute, Unmute, Volume, Answer
  <2> QED
    BY <2>1, ControlsAssumption, ToConnections DEF Counted, TypeOK
<1>2. CASE \E on \in BOOLEAN : MuteSwitch(c, on)
  BY <1>1, <1>2, HandleTyped, ToConnections DEF MuteSwitch, Parts
<1>4. CASE Play(c)
  BY <1>1, <1>4, HandleTyped, ToConnections DEF Play, Answer, Parts
<1>5. CASE Announce(c)
  BY <1>1, <1>5, HandleTyped, ToConnections DEF Announce, Answer, Parts
<1>6. CASE Pause(c) \/ Resume(c)
  BY <1>1, <1>6, HandleTyped, ToConnections DEF Pause, Resume, Answer, Parts
<1>7. CASE Stop(c)
  BY <1>1, <1>7, HandleTyped, ToConnections DEF Stop, Answer, Parts
<1>8. CASE Mute(c) \/ Unmute(c)
  BY <1>1, <1>8, HandleTyped, ToConnections DEF Mute, Unmute, Answer, Parts
<1>9. CASE Volume(c)
  BY <1>1, <1>9, HandleTyped, ToConnections DEF Volume, Answer, Parts
<1> QED
  BY <1>1, <1>2, <1>4, <1>5, <1>6, <1>7, <1>8, <1>9 DEF FromHome

LEMMA PeripheralTyped ==
  ASSUME TypeOK, controls' \in ControlStates, FromPeripheral
  PROVE  Rest' /\ UNCHANGED <<satellite, phase, ending>> /\ commands' \in 0..MaxCommands
<1>1. commands' \in 0..MaxCommands /\ UNCHANGED <<satellite, phase, ending>>
  <2>1. Counted
    BY DEF FromPeripheral, PeripheralMute, VolumeStep, SetVolume, StopMedia, PauseMedia, ResumeMedia,
           ButtonSound, Tell
  <2> QED
    BY <2>1, ControlsAssumption DEF Counted, TypeOK
<1>2. CASE \E on \in BOOLEAN : PeripheralMute(on)
  BY <1>1, <1>2, HandleTyped, ToConnections DEF PeripheralMute, Parts
<1>4. CASE \E by \in {Step, -Step} : VolumeStep(by)
  BY <1>1, <1>4, HandleTyped, ToConnections DEF VolumeStep, Tell, Parts
<1>5. CASE SetVolume
  BY <1>1, <1>5, HandleTyped, ToConnections DEF SetVolume, Tell, Parts
<1>6. CASE StopMedia
  BY <1>1, <1>6, HandleTyped, ToConnections DEF StopMedia, Tell, Parts
<1>7. CASE PauseMedia \/ ResumeMedia \/ ButtonSound
  BY <1>1, <1>7, HandleTyped, ToConnections DEF PauseMedia, ResumeMedia, ButtonSound, Tell, Parts
<1> QED
  BY <1>1, <1>2, <1>4, <1>5, <1>6, <1>7 DEF FromPeripheral

LEMMA TypesStep == TypeOK /\ Sound(controls) /\ [Next]_vars => TypeOK'
<1> SUFFICES ASSUME TypeOK, Sound(controls), [Next]_vars PROVE TypeOK'
  OBVIOUS
<1>1. controls' \in ControlStates
  BY SoundStep DEF Sound
<1>2. ASSUME Rest', UNCHANGED <<satellite, phase, ending>>, commands' \in 0..MaxCommands PROVE TypeOK'
  BY <1>1, <1>2 DEF Rest, TypeOK
<1>3. ASSUME NEW c \in Connections, NewConnection(c) PROVE TypeOK'
  <2>1. Rest'
    BY <1>1, <1>3, HandleTyped, ToConnections DEF NewConnection
  <2> QED
    BY <1>1, <1>3, <2>1 DEF NewConnection, Rest, TypeOK
<1>4. ASSUME NEW c \in Connections, ConnectionMade(c) PROVE TypeOK'
  BY <1>4 DEF ConnectionMade, TypeOK
<1>5. ASSUME NEW c \in Connections, Authenticate(c) PROVE TypeOK'
  <2>1. Rest'
    BY <1>1, <1>5, HandleTyped DEF Authenticate
  <2> QED
    BY <1>1, <1>5, <2>1 DEF Authenticate, Rest, TypeOK
<1>6. ASSUME NEW c \in Connections, ConnectionLost(c) PROVE TypeOK'
  <2>1. Rest'
    BY <1>1, <1>6, HandleTyped DEF ConnectionLost
  <2> QED
    BY <1>1, <1>6, <2>1 DEF ConnectionLost, Rest, TypeOK
<1>7. ASSUME NEW c \in Connections, FromHome(c) PROVE TypeOK'
  BY <1>1, <1>2, <1>7, HomeTyped
<1>8. CASE FromPeripheral
  BY <1>1, <1>2, <1>8, PeripheralTyped
<1>9. ASSUME NEW p \in Players, FileEnds(p) PROVE TypeOK'
  <2>1. controls.callback[p] \in Callbacks
    BY DEF TypeOK, ControlStates
  <2>2. report' \in [Players -> SUBSET Messages] /\ posted' \in Seq(Messages)
    BY <1>9, BecomeTyped DEF FileEnds
  <2> QED
    BY <1>1, <1>9, <2>1, <2>2 DEF FileEnds, TypeOK
<1>10. ASSUME NEW p \in Players, RunCallback(p) PROVE TypeOK'
  <2> DEFINE c == Run(ending[p], controls)
             made == [to |-> {}, media |-> Media(c), late |-> FALSE]
  <2>1. c \in ControlStates
    BY RunIsSound DEF Sound
  <2>2. made \in Messages
    BY <2>1, MediaTyped DEF Messages
  <2> HIDE DEF c, made
  <2>3. \A q \in Players : {Aged(m, c) : m \in report[q]} \subseteq Messages
    BY AgedTyped DEF TypeOK
  <2>4. \A i \in DOMAIN posted : Aged(posted[i], c) \in Messages
    BY AgedTyped DEF TypeOK
  <2>5. posted' \in Seq(Messages)
    BY <1>10, <2>4 DEF RunCallback, TypeOK, c
  <2>6. report' \in [Players -> SUBSET Messages]
    BY <1>10, <2>2, <2>3 DEF RunCallback, c, made
  <2>7. ending' \in [Players -> Callbacks]
    BY <1>10 DEF RunCallback, TypeOK, Callbacks
  <2> QED
    BY <1>1, <1>10, <2>5, <2>6, <2>7 DEF RunCallback, TypeOK
<1>11. ASSUME NEW p \in Players, Broadcast(p) PROVE TypeOK'
  <2>1. PICK m \in report[p] : m = CHOOSE n \in report[p] : TRUE
    BY <1>11 DEF Broadcast
  <2>2. [m EXCEPT !.to = Audience] \in Messages
    BY <2>1, ToConnections DEF TypeOK, Messages, Audience
  <2>3. posted' \in Seq(Messages)
    BY <1>11, <2>1, <2>2 DEF Broadcast, TypeOK
  <2>4. report' \in [Players -> SUBSET Messages]
    BY <1>11 DEF Broadcast, TypeOK
  <2> QED
    BY <1>1, <1>11, <2>3, <2>4 DEF Broadcast, TypeOK
<1>12. CASE Deliver
  <2>1. posted # <<>> /\ Head(posted) \in Messages /\ Tail(posted) \in Seq(Messages)
    BY <1>12 DEF Deliver, TypeOK
  <2> DEFINE m == Head(posted)
  <2>2. PICK c \in m.to :
          /\ posted' = IF m.to = {c} THEN Tail(posted) ELSE <<[m EXCEPT !.to = m.to \ {c}]>> \o Tail(posted)
          /\ view' = [view EXCEPT ![c].media = m.media]
          /\ untold' = IF m.late THEN untold \cup {<<c, "media">>} ELSE untold \ {<<c, "media">>}
    BY <1>12 DEF Deliver
  <2> HIDE DEF m
  <2>3. m \in Messages /\ c \in Connections /\ m.media \in MediaMessages
    BY <2>1, <2>2 DEF Messages, m
  <2>4. [m EXCEPT !.to = m.to \ {c}] \in Messages
    BY <2>3 DEF Messages
  <2>5. posted' \in Seq(Messages)
    BY <2>1, <2>2, <2>4
  <2>6. view' \in [Connections -> [switch : BOOLEAN, media : MediaMessages]]
    BY <2>2, <2>3 DEF TypeOK
  <2>7. untold' \subseteq Connections \X Parts
    BY <2>2, <2>3 DEF TypeOK, Parts
  <2> QED
    BY <1>1, <1>12, <2>5, <2>6, <2>7 DEF Deliver, TypeOK
<1>13. CASE UNCHANGED vars
  BY <1>13 DEF vars, TypeOK
<1> QED
  BY <1>3, <1>4, <1>5, <1>6, <1>7, <1>8, <1>9, <1>10, <1>11, <1>12, <1>13 DEF Next

(* The state of the controls, the connections and the messages on their way *)
(* keeps its types, for any number of connections and commands.             *)
THEOREM TypesAlways == Spec => []TypeOK
<1>1. Init => TypeOK /\ Sound(controls)
  BY TypesInit, SoundInit
<1>2. TypeOK /\ Sound(controls) /\ [Next]_vars => (TypeOK /\ Sound(controls))'
  BY TypesStep, SoundStep
<1> QED
  BY <1>1, <1>2, PTL DEF Spec

----------------------------------------------------------------------------
\* What the newest connection knows.  A message of mpv's threads that is not
\* late tells the media state as it is, and the entity's copy of the switch is
\* the microphone's.

UpToDate(m, c) == m.late \/ m.media = Media(c)

Reported(c) == \A p \in Players : \A m \in report[p] : UpToDate(m, c)
Posted(c) == \A i \in DOMAIN posted : UpToDate(posted[i], c)

Current == controls.switch = controls.muted /\ Reported(controls) /\ Posted(controls)

LEMMA AgedFields ==
  ASSUME NEW m \in Messages, NEW c
  PROVE  /\ Aged(m, c).to = m.to /\ Aged(m, c).media = m.media
         /\ Aged(m, c).late = (m.late \/ Media(c) # Media(controls))
  BY DEF Aged, Messages

LEMMA AgedUpToDate ==
  ASSUME NEW m \in Messages, UpToDate(m, controls), NEW c
  PROVE  UpToDate(Aged(m, c), c)
  BY AgedFields DEF UpToDate

\* However the controls change, the messages on their way stay up to date, and
\* on their way to the same connections.
LEMMA BecomeCurrent ==
  ASSUME TypeOK, Current, NEW c, Become(c)
  PROVE  Reported(controls)' /\ Posted(controls)'
<1>1. ASSUME NEW p \in Players, NEW m \in report'[p] PROVE UpToDate(m, c)
  <2>1. PICK n \in report[p] : m = Aged(n, c)
    BY <1>1 DEF Become
  <2>2. n \in Messages /\ UpToDate(n, controls)
    BY <2>1 DEF TypeOK, Current, Reported
  <2> QED
    BY <2>1, <2>2, AgedUpToDate
<1>2. ASSUME NEW i \in DOMAIN posted' PROVE UpToDate(posted'[i], c)
  <2>1. i \in DOMAIN posted /\ posted'[i] = Aged(posted[i], c)
    BY <1>2 DEF Become
  <2>2. posted[i] \in Messages /\ UpToDate(posted[i], controls)
    BY <2>1 DEF TypeOK, Current, Posted
  <2> QED
    BY <2>1, <2>2, AgedUpToDate
<1> QED
  BY <1>1, <1>2 DEF Reported, Posted, Become

LEMMA BecomeOnItsWay ==
  ASSUME TypeOK, NEW c, Become(c), NEW d, OnItsWay(d),
         \A p \in Players : ending[p] = "idle" => ending'[p] = "idle"
  PROVE  OnItsWay(d)'
<1>1. ASSUME NEW p \in Players, report[p] # {} PROVE report'[p] # {}
  BY <1>1 DEF Become
<1>2. ASSUME NEW i \in DOMAIN posted, d \in posted[i].to PROVE i \in DOMAIN posted' /\ d \in posted'[i].to
  <2>1. posted[i] \in Messages
    BY DEF TypeOK
  <2> QED
    BY <1>2, <2>1, AgedFields DEF Become
<1> QED
  BY <1>1, <1>2 DEF OnItsWay

\* A step of the event loop that tells the newest connection, excuses it, or
\* changes nothing that it knows.
LEMMA HandleTells ==
  ASSUME TypeOK, Current, NewestIsTold,
         NEW c, NEW switches, NEW medias, NEW excused, Handle(c, switches, medias, excused),
         c.switch = c.muted, UNCHANGED ending,
         \A d \in ({satellite} \cap Live)' \ (switches \cap medias) :
           /\ d \in {satellite} \cap Live
           /\ d \in switches \/ <<d, "switch">> \in excused \/ c.muted = controls.muted
           /\ d \in medias \/ <<d, "media">> \in excused \/ Media(c) = Media(controls)
  PROVE  Current' /\ NewestIsTold'
<1>1. Become(c) /\ controls' = c
  BY DEF Handle, Become
<1>2. Current'
  BY <1>1, BecomeCurrent DEF Current
<1>3. ASSUME NEW d \in ({satellite} \cap Live)'
      PROVE  /\ (<<d, "switch">> \in untold \/ view[d].switch = controls.muted)'
             /\ (<<d, "media">> \in untold \/ OnItsWay(d) \/ view[d].media = Media(controls))'
  <2>1. d \in Connections
    BY <1>3 DEF Live
  <2>2. /\ view'[d].switch = IF d \in switches THEN c.switch ELSE view[d].switch
        /\ view'[d].media = IF d \in medias THEN Media(c) ELSE view[d].media
    BY <2>1 DEF Handle
  <2>3. ASSUME d \notin switches, <<d, "switch">> \in untold \/ <<d, "switch">> \in excused
        PROVE  <<d, "switch">> \in untold'
    BY <2>3 DEF Handle
  <2>4. ASSUME d \notin medias, <<d, "media">> \in untold \/ <<d, "media">> \in excused
        PROVE  <<d, "media">> \in untold'
    BY <2>4 DEF Handle
  <2>5. Media(controls)' = Media(c)
    BY <1>1 DEF Media
  <2>6. OnItsWay(d) => OnItsWay(d)'
    BY <1>1, BecomeOnItsWay
  <2>7. CASE d \in switches \cap medias
    BY <1>1, <2>2, <2>5, <2>7
  <2>8. CASE d \notin switches \cap medias
    <3>1. <<d, "switch">> \in untold \/ view[d].switch = controls.muted
      BY <1>3, <2>8 DEF NewestIsTold
    <3>2. <<d, "media">> \in untold \/ OnItsWay(d) \/ view[d].media = Media(controls)
      BY <1>3, <2>8 DEF NewestIsTold
    <3>3. (<<d, "switch">> \in untold \/ view[d].switch = controls.muted)'
      BY <1>1, <1>3, <2>2, <2>3, <2>8, <3>1
    <3>4. (<<d, "media">> \in untold \/ OnItsWay(d) \/ view[d].media = Media(controls))'
      BY <1>3, <2>2, <2>4, <2>5, <2>6, <2>8, <3>2
    <3> QED
      BY <3>3, <3>4
  <2> QED
    BY <2>7, <2>8
<1>4. NewestIsTold'
  BY <1>3 DEF NewestIsTold
<1> QED
  BY <1>2, <1>4

\* What the handlers of the media player leave of the microphone, and what the
\* end of a callback leaves of the media state.
SameMute(c, d) == c.muted = d.muted /\ c.switch = d.switch

LEMMA StoppedKeeps ==
  ASSUME NEW c, Sound(c), NEW p \in Players
  PROVE  SameMute(Stopped(p, c), c) /\ (Media(Stopped(p, c)) = Media(c) \/ c.callback[p] = "idle")
<1>1. /\ c.callback[p] = "resume" => Run(c.callback[p], c) = [c EXCEPT !.music = "playing"]
      /\ c.callback[p] = "idle" => Run(c.callback[p], c) = [c EXCEPT !.state = "IDLE"]
      /\ c.callback[p] \notin {"resume", "idle"} => Run(c.callback[p], c) = c
  BY DEF Run
<1> DEFINE d == Run(c.callback[p], c)
<1>2. SameMute(d, c) /\ d \in ControlStates /\ (Media(d) = Media(c) \/ c.callback[p] = "idle")
  <2>1. d \in ControlStates
    BY RunIsSound DEF Sound
  <2> QED
    BY <1>1, <2>1 DEF SameMute, Media, Sound, ControlStates
<1>3. Stopped(p, c) = [d EXCEPT !.callback[p] = "none"]
  BY DEF Stopped
<1> HIDE DEF d
<1> QED
  BY <1>2, <1>3 DEF SameMute, Media, ControlStates

LEMMA PlayedKeeps ==
  ASSUME NEW c, Sound(c), NEW p, NEW f
  PROVE  SameMute(Played(p, f, c), c) /\ Media(Played(p, f, c)) = Media(c)
  BY DEF Played, SameMute, Media, Sound, ControlStates

LEMMA StateKeeps ==
  ASSUME NEW c, Sound(c), NEW s, NEW m
  PROVE  /\ SameMute([c EXCEPT !.state = s], c)
         /\ SameMute([c EXCEPT !.music = m, !.state = s], c)
  BY DEF SameMute, Sound, ControlStates

LEMMA HandledKeeps ==
  ASSUME Sound(controls)
  PROVE  /\ SameMute(Paused, controls) /\ SameMute(Resumed, controls) /\ SameMute(Halted, controls)
         /\ \A v : SameMute(Leveled(v, controls), controls)
<1>1. SameMute(Halted, controls)
  <2> DEFINE d == Stopped("music", controls)
  <2>1. Sound(d) /\ SameMute(d, controls)
    BY StoppedIsSound, StoppedKeeps DEF Players
  <2>2. Halted = [d EXCEPT !.state = "IDLE"]
    BY DEF Halted
  <2> HIDE DEF d
  <2>3. SameMute(Halted, d)
    BY <2>1, <2>2, StateKeeps
  <2> QED
    BY <2>1, <2>3 DEF SameMute
<1>2. SameMute(Paused, controls) /\ SameMute(Resumed, controls)
  BY DEF Paused, Resumed, SameMute, Sound, ControlStates
<1>3. \A v : SameMute(Leveled(v, controls), controls)
  BY DEF Leveled, SameMute, Sound, ControlStates
<1> QED
  BY <1>1, <1>2, <1>3

\* _set_muted() sets the microphone; only the callback of an announcement that
\* it stops can change the media state.
LEMMA SetMutedKeeps ==
  ASSUME NEW c, Sound(c), NEW on \in BOOLEAN
  PROVE  /\ SetMuted(on, c).muted = on /\ SetMuted(on, c).switch = c.switch
         /\ Media(SetMuted(on, c)) = Media(c) \/ (on /\ c.callback["announce"] = "idle")
<1> DEFINE d == IF on THEN Stopped("announce", c) ELSE c
           e == [d EXCEPT !.muted = on]
<1>1. Sound(d) /\ d.switch = c.switch /\ (Media(d) = Media(c) \/ (on /\ c.callback["announce"] = "idle"))
  BY StoppedIsSound, StoppedKeeps DEF Players, SameMute
<1>2. SetMuted(on, c) = Played("announce", "none", e)
  BY DEF SetMuted
<1> HIDE DEF d
<1>3. Sound(e) /\ e.muted = on /\ e.switch = d.switch /\ Media(e) = Media(d)
  BY <1>1 DEF Sound, ControlStates, OneVolume, Media
<1> HIDE DEF e
<1>4. SameMute(SetMuted(on, c), e) /\ Media(SetMuted(on, c)) = Media(e)
  BY <1>2, <1>3, PlayedKeeps
<1> QED
  BY <1>1, <1>3, <1>4 DEF SameMute

Inv == TypeOK /\ Sound(controls) /\ Current /\ NewestIsTold

LEMMA NewestIsOpen ==
  ASSUME TypeOK
  PROVE  {satellite} \cap Live \subseteq Newest /\ Live \subseteq Open
  BY DEF Live, Open, Newest

\* An answer to Home Assistant tells the connection that asked, a command of a
\* peripheral the newest one; the others are excused.
LEMMA AnswerTells ==
  ASSUME Inv, NEW a, NEW new, NEW b, Answer(a, new, b), SameMute(new, controls)
  PROVE  Current' /\ NewestIsTold'
<1>1. /\ Handle(new, {}, {a} \cup b, (Open \ {a}) \X {"media"})
      /\ UNCHANGED <<satellite, phase, ending>>
  BY DEF Answer, Counted
<1>2. ({satellite} \cap Live)' = {satellite} \cap Live
  BY <1>1 DEF Live
<1>3. \A d \in {satellite} \cap Live : d \in {a} \cup b \/ <<d, "media">> \in (Open \ {a}) \X {"media"}
  BY NewestIsOpen DEF Inv
<1> QED
  BY <1>1, <1>2, <1>3, HandleTells DEF Inv, Current, SameMute

LEMMA TellTells ==
  ASSUME Inv, NEW new, NEW b, Tell(new, b), SameMute(new, controls)
  PROVE  Current' /\ NewestIsTold'
<1>1. /\ Handle(new, {}, Newest \cup b, (Open \ Newest) \X {"media"})
      /\ UNCHANGED <<satellite, phase, ending>>
  BY DEF Tell, Counted
<1>2. ({satellite} \cap Live)' = {satellite} \cap Live
  BY <1>1 DEF Live
<1>3. \A d \in {satellite} \cap Live : d \in Newest \cup b
  BY NewestIsOpen DEF Inv
<1> QED
  BY <1>1, <1>2, <1>3, HandleTells DEF Inv, Current, SameMute

\* A mute, of Home Assistant or of a peripheral: told is who is told of it.
LEMMA MuteTells ==
  ASSUME Inv, NEW new, NEW on \in BOOLEAN, NEW told,
         Handle(new, told, IF on THEN Everybody("announce") ELSE {}, (Open \ told) \X {"switch"}),
         UNCHANGED <<satellite, phase, ending>>, new.muted = on, new.switch = on,
         Media(new) = Media(controls) \/ (on /\ controls.callback["announce"] = "idle")
  PROVE  Current' /\ NewestIsTold'
<1> DEFINE medias == IF on THEN Everybody("announce") ELSE {}
<1>1. ({satellite} \cap Live)' = {satellite} \cap Live
  BY DEF Live
<1>2. \A d \in {satellite} \cap Live : /\ d \in told \/ <<d, "switch">> \in (Open \ told) \X {"switch"}
                                       /\ d \in medias \/ Media(new) = Media(controls)
  BY NewestIsOpen DEF Inv, Everybody
<1> HIDE DEF medias
<1> QED
  BY <1>1, <1>2, HandleTells DEF Inv, medias

LEMMA HomeTells ==
  ASSUME Inv, NEW c \in Connections, FromHome(c)
  PROVE  Current' /\ NewestIsTold'
<1> USE DEF Inv
<1>1. CASE \E on \in BOOLEAN : MuteSwitch(c, on)
  <2>1. PICK on \in BOOLEAN : MuteSwitch(c, on)
    BY <1>1
  <2> DEFINE e == [controls EXCEPT !.switch = on]
  <2>2. Sound(e) /\ e.switch = on /\ Media(e) = Media(controls) /\ e.callback = controls.callback
    BY DEF Sound, ControlStates, OneVolume, Media
  <2>3. /\ Handle(SetMuted(on, e), {c}, IF on THEN Everybody("announce") ELSE {}, (Open \ {c}) \X {"switch"})
        /\ UNCHANGED <<satellite, phase, ending>>
    BY <2>1 DEF MuteSwitch, Counted
  <2> HIDE DEF e
  <2>4. /\ SetMuted(on, e).muted = on /\ SetMuted(on, e).switch = on
        /\ Media(SetMuted(on, e)) = Media(controls) \/ (on /\ controls.callback["announce"] = "idle")
    BY <2>2, SetMutedKeeps
  <2> QED
    BY <2>3, <2>4, MuteTells
<1>2. CASE Play(c)
  <2> DEFINE d == Played("music", "idle", controls)
  <2>1. Sound(d) /\ SameMute(d, controls)
    BY PlayedIsSound, PlayedKeeps DEF Players, Callbacks
  <2>2. Answer(c, [d EXCEPT !.state = "PLAYING"], {})
    BY <1>2 DEF Play
  <2> HIDE DEF d
  <2>3. SameMute([d EXCEPT !.state = "PLAYING"], controls)
    BY <2>1, StateKeeps DEF SameMute
  <2> QED
    BY <2>2, <2>3, AnswerTells
<1>3. CASE Announce(c)
  <2> DEFINE over == controls.music # "idle"
             d == Played("announce", IF over THEN "resume" ELSE "idle", controls)
             m == IF over THEN "paused" ELSE d.music
  <2>1. Sound(d) /\ SameMute(d, controls)
    BY PlayedIsSound, PlayedKeeps DEF Players, Callbacks
  <2>2. Answer(c, [d EXCEPT !.music = m, !.state = "PLAYING"], {})
    BY <1>3 DEF Announce
  <2> HIDE DEF d, m
  <2>3. SameMute([d EXCEPT !.music = m, !.state = "PLAYING"], controls)
    BY <2>1, StateKeeps DEF SameMute
  <2> QED
    BY <2>2, <2>3, AnswerTells
<1>4. CASE Pause(c) \/ Resume(c) \/ Stop(c)
  BY <1>4, AnswerTells, HandledKeeps DEF Pause, Resume, Stop
<1>5. CASE Mute(c)
  <2> DEFINE new == IF controls.silenced THEN controls ELSE Silenced(controls)
  <2>1. SameMute(new, controls)
    BY DEF SameMute, Silenced, Sound, ControlStates
  <2>2. Answer(c, new, {})
    BY <1>5 DEF Mute, Silenced
  <2> QED
    BY <2>1, <2>2, AnswerTells
<1>6. CASE Unmute(c)
  <2>1. PICK level : Answer(c, IF ~controls.silenced THEN controls ELSE Audible(controls, level), {})
    BY <1>6 DEF Unmute, Audible
  <2> DEFINE new == IF ~controls.silenced THEN controls ELSE Audible(controls, level)
  <2>2. SameMute(new, controls)
    BY DEF SameMute, Audible, Sound, ControlStates
  <2> QED
    BY <2>1, <2>2, AnswerTells
<1>7. CASE Volume(c)
  BY <1>7, AnswerTells, HandledKeeps DEF Volume
<1> QED
  BY <1>1, <1>2, <1>3, <1>4, <1>5, <1>6, <1>7 DEF FromHome

LEMMA PeripheralTells ==
  ASSUME Inv, FromPeripheral
  PROVE  Current' /\ NewestIsTold'
<1> USE DEF Inv
<1>1. CASE \E on \in BOOLEAN : PeripheralMute(on)
  <2>1. PICK on \in BOOLEAN : PeripheralMute(on)
    BY <1>1
  <2> DEFINE e == SetMuted(on, controls)
             new == [e EXCEPT !.switch = on]
  <2>2. /\ Sound(e) /\ e.muted = on
        /\ Media(e) = Media(controls) \/ (on /\ controls.callback["announce"] = "idle")
    BY SetMutedIsSound, SetMutedKeeps
  <2>3. /\ Handle(new, Newest, IF on THEN Everybody("announce") ELSE {}, (Open \ Newest) \X {"switch"})
        /\ UNCHANGED <<satellite, phase, ending>>
    BY <2>1 DEF PeripheralMute, Counted
  <2> HIDE DEF e
  <2>4. new.muted = on /\ new.switch = on /\ Media(new) = Media(e)
    BY <2>2 DEF Sound, ControlStates, Media
  <2> HIDE DEF new
  <2> QED
    BY <2>2, <2>3, <2>4, MuteTells
<1>2. CASE \E by \in {Step, -Step} : VolumeStep(by)
  <2>1. PICK v : Tell(Leveled(v, controls), {})
    BY <1>2 DEF VolumeStep
  <2> QED
    BY <2>1, TellTells, HandledKeeps
<1>3. CASE SetVolume
  BY <1>3, TellTells, HandledKeeps DEF SetVolume
<1>4. CASE StopMedia \/ PauseMedia \/ ResumeMedia
  BY <1>4, TellTells, HandledKeeps DEF StopMedia, PauseMedia, ResumeMedia
<1>5. CASE ButtonSound
  BY <1>5, TellTells, PlayedKeeps DEF ButtonSound
<1> QED
  BY <1>1, <1>2, <1>3, <1>4, <1>5 DEF FromPeripheral

LEMMA NewestInit == Init => Current /\ NewestIsTold
<1> SUFFICES ASSUME Init PROVE Current /\ NewestIsTold
  OBVIOUS
<1>1. controls.switch = controls.muted
  BY DEF Init
<1>2. Reported(controls) /\ Posted(controls)
  BY DEF Init, Reported, Posted
<1>3. {satellite} \cap Live = {}
  BY DEF Init, Live
<1> QED
  BY <1>1, <1>2, <1>3 DEF Current, NewestIsTold

\* A report reaches everybody who is connected when it is handed over.
LEMMA BroadcastTells ==
  ASSUME Inv, NEW p \in Players, Broadcast(p)
  PROVE  Current' /\ NewestIsTold'
<1>1. PICK m \in report[p] : m = CHOOSE n \in report[p] : TRUE
  BY DEF Broadcast
<1> DEFINE n == [m EXCEPT !.to = Audience]
<1>2. m \in Messages /\ UpToDate(m, controls)
  BY <1>1 DEF Inv, TypeOK, Current, Reported
<1>3. n.to = Open /\ UpToDate(n, controls)
  BY <1>2 DEF Messages, UpToDate, Audience
<1>4. posted' = posted \o (IF Audience = {} THEN <<>> ELSE <<n>>)
  BY <1>1 DEF Broadcast
<1>5. report' = [report EXCEPT ![p] = {}] /\ UNCHANGED <<controls, satellite, phase, view, untold>>
  BY DEF Broadcast
<1> HIDE DEF n
<1>6. Reported(controls)'
  BY <1>5 DEF Inv, TypeOK, Current, Reported
<1>7. posted \in Seq(Messages)
  BY DEF Inv, TypeOK
<1>8. CASE Audience = {}
  <2>1. posted' = posted
    BY <1>4, <1>7, <1>8
  <2>2. ({satellite} \cap Live)' = {}
    BY <1>5, <1>8 DEF Audience, Open, Live
  <2> QED
    BY <1>5, <1>6, <2>1, <2>2 DEF Inv, Current, Posted, NewestIsTold
<1>9. CASE Audience # {}
  <2>1. posted' = Append(posted, n)
    BY <1>4, <1>7, <1>9
  <2>2. /\ DOMAIN posted' = 1..(Len(posted) + 1) /\ DOMAIN posted = 1..Len(posted) /\ Len(posted) \in Nat
        /\ posted'[Len(posted) + 1] = n
        /\ \A i \in 1..Len(posted) : posted'[i] = posted[i]
    BY <1>7, <2>1
  <2>3. Posted(controls)'
    <3>1. \A i \in DOMAIN posted' : UpToDate(posted'[i], controls)
      BY <1>3, <2>2 DEF Inv, Current, Posted
    <3> QED
      BY <1>5, <3>1 DEF Posted
  <2>4. ASSUME NEW d \in {satellite} \cap Live
        PROVE  OnItsWay(d)' /\ (<<d, "switch">> \in untold \/ view[d].switch = controls.muted)
    <3>1. d \in Open
      BY <2>4 DEF Live, Open
    <3>2. d \in posted'[Len(posted) + 1].to /\ Len(posted) + 1 \in DOMAIN posted'
      BY <1>3, <2>2, <3>1
    <3> QED
      BY <3>2 DEF OnItsWay, Inv, NewestIsTold
  <2>5. ({satellite} \cap Live)' = {satellite} \cap Live
    BY <1>5 DEF Live
  <2>6. NewestIsTold'
    BY <1>5, <2>4, <2>5 DEF NewestIsTold
  <2> QED
    BY <1>5, <1>6, <2>3, <2>6 DEF Inv, Current
<1> QED
  BY <1>8, <1>9

\* A message that is delivered tells its receiver the media state, unless it is
\* late; it stays on its way to the others.
LEMMA DeliverTells ==
  ASSUME Inv, Deliver
  PROVE  Current' /\ NewestIsTold'
<1> DEFINE m == Head(posted)
<1>1. PICK c \in m.to :
          /\ posted' = IF m.to = {c} THEN Tail(posted) ELSE <<[m EXCEPT !.to = m.to \ {c}]>> \o Tail(posted)
          /\ view' = [view EXCEPT ![c].media = m.media]
          /\ untold' = IF m.late THEN untold \cup {<<c, "media">>} ELSE untold \ {<<c, "media">>}
  BY DEF Deliver
<1>2. UNCHANGED <<controls, satellite, phase, ending, report>>
  BY DEF Deliver
<1> DEFINE tail == Tail(posted)
           left == [m EXCEPT !.to = m.to \ {c}]
<1>3. /\ posted \in Seq(Messages) /\ posted # <<>> /\ Len(posted) \in Nat \ {0} /\ m = posted[1]
      /\ DOMAIN posted = 1..Len(posted) /\ m \in Messages
      /\ tail \in Seq(Messages) /\ Len(tail) = Len(posted) - 1
      /\ \A i \in 1..(Len(posted) - 1) : tail[i] = posted[i + 1]
  BY DEF Deliver, Inv, TypeOK
<1>4. UpToDate(m, controls) /\ \A i \in DOMAIN posted : UpToDate(posted[i], controls)
  BY <1>3 DEF Inv, Current, Posted
<1>5. left \in Messages /\ left.to = m.to \ {c} /\ UpToDate(left, controls)
  BY <1>3, <1>4 DEF Messages, UpToDate
<1>6. /\ view \in [Connections -> [switch : BOOLEAN, media : MediaMessages]] /\ c \in Connections
      /\ m.to \subseteq Connections
  BY <1>1, <1>3 DEF Inv, TypeOK, Messages
<1> HIDE DEF m, tail, left
<1>7. /\ \A i \in DOMAIN posted' : UpToDate(posted'[i], controls)
      /\ \A d : (d # c /\ \E i \in DOMAIN posted : d \in posted[i].to)
                  => \E j \in DOMAIN posted' : d \in posted'[j].to
  <2>1. CASE m.to = {c}
    <3>1. posted' = tail
      BY <1>1, <2>1 DEF tail
    <3>2. \A i \in DOMAIN posted' : i + 1 \in DOMAIN posted /\ posted'[i] = posted[i + 1]
      BY <1>3, <3>1
    <3>3. ASSUME NEW d, d # c, NEW i \in DOMAIN posted, d \in posted[i].to
          PROVE  \E j \in DOMAIN posted' : d \in posted'[j].to
      <4>1. i # 1 /\ i - 1 \in 1..(Len(posted) - 1)
        BY <1>3, <2>1, <3>3
      <4>2. i - 1 \in DOMAIN posted' /\ posted'[i - 1] = posted[i]
        BY <1>3, <3>1, <4>1
      <4> QED
        BY <3>3, <4>2
    <3> QED
      BY <1>4, <3>2, <3>3
  <2>2. CASE m.to # {c}
    <3>1. posted' = <<left>> \o tail
      BY <1>1, <2>2 DEF tail, left
    <3>2. /\ DOMAIN posted' = DOMAIN posted /\ posted'[1] = left
          /\ \A i \in DOMAIN posted : i # 1 => posted'[i] = posted[i]
      <4>1. <<left>> \in Seq(Messages) /\ Len(<<left>>) = 1 /\ <<left>>[1] = left
        BY <1>5
      <4>2. /\ DOMAIN posted' = 1..Len(posted)
            /\ \A i \in 1..Len(posted) : posted'[i] = IF i = 1 THEN left ELSE tail[i - 1]
        <5> DEFINE one == <<left>>
        <5>1. one \in Seq(Messages) /\ Len(one) = 1 /\ one[1] = left /\ posted' = one \o tail
          BY <3>1, <4>1
        <5> HIDE DEF one
        <5>2. PICK k \in Nat : Len(posted) = k /\ Len(tail) = k - 1
          BY <1>3
        <5>3. tail \in Seq(Messages)
          BY <1>3
        <5>4. /\ one \o tail \in Seq(Messages)
              /\ Len(one \o tail) = Len(one) + Len(tail)
              /\ \A i \in 1..(Len(one) + Len(tail)) :
                   (one \o tail)[i] = IF i <= Len(one) THEN one[i] ELSE tail[i - Len(one)]
          BY <5>1, <5>3, ConcatProperties, Zenon
        <5>5. Len(one) + Len(tail) = k
          BY <5>1, <5>2
        <5>6. DOMAIN (one \o tail) = 1..k
          BY <5>4, <5>5
        <5>7. \A i \in 1..k : (one \o tail)[i] = IF i = 1 THEN left ELSE tail[i - 1]
          BY <5>1, <5>4, <5>5
        <5> QED
          BY <5>1, <5>2, <5>6, <5>7
      <4>3. \A i \in 1..Len(posted) : i # 1 => i - 1 \in 1..(Len(posted) - 1) /\ (i - 1) + 1 = i
        BY <1>3
      <4> QED
        BY <1>3, <4>2, <4>3
    <3>3. ASSUME NEW d, d # c, NEW i \in DOMAIN posted, d \in posted[i].to
          PROVE  \E j \in DOMAIN posted' : d \in posted'[j].to
      BY <1>3, <1>5, <3>2, <3>3
    <3> QED
      BY <1>4, <1>5, <3>2, <3>3
  <2> QED
    BY <2>1, <2>2
<1>8. Current'
  <2>1. Posted(controls)'
    BY <1>2, <1>7 DEF Posted
  <2>2. Reported(controls)'
    BY <1>2 DEF Inv, Current, Reported
  <2> QED
    BY <1>2, <2>1, <2>2 DEF Inv, Current
<1>9. ASSUME NEW d \in {satellite} \cap Live
      PROVE  /\ <<d, "switch">> \in untold' \/ view'[d].switch = controls.muted
             /\ <<d, "media">> \in untold' \/ OnItsWay(d)' \/ view'[d].media = Media(controls)
  <2>1. d \in Connections
    BY DEF Live
  <2>2. /\ <<d, "switch">> \in untold \/ view[d].switch = controls.muted
        /\ <<d, "media">> \in untold \/ OnItsWay(d) \/ view[d].media = Media(controls)
    BY DEF Inv, NewestIsTold
  <2>3. <<d, "switch">> \in untold' \/ view'[d].switch = controls.muted
    <3>1. view'[d].switch = view[d].switch
      BY <1>1, <1>6, <2>1
    <3>2. <<d, "switch">> \in untold => <<d, "switch">> \in untold'
      BY <1>1
    <3> QED
      BY <2>2, <3>1, <3>2
  <2>4. CASE d = c
    <3>1. view'[d].media = m.media
      BY <1>1, <1>6, <2>4
    <3>2. CASE m.late
      BY <1>1, <2>3, <2>4, <3>2
    <3>3. CASE ~m.late
      BY <1>4, <2>3, <3>1, <3>3 DEF UpToDate
    <3> QED
      BY <3>2, <3>3
  <2>5. CASE d # c
    <3>1. view'[d] = view[d] /\ (<<d, "media">> \in untold => <<d, "media">> \in untold')
      BY <1>1, <1>6, <2>1, <2>5
    <3>2. OnItsWay(d) => OnItsWay(d)'
      BY <1>2, <1>7, <2>5 DEF OnItsWay
    <3> QED
      BY <2>2, <2>3, <3>1, <3>2
  <2> QED
    BY <2>4, <2>5
<1>10. ({satellite} \cap Live)' = {satellite} \cap Live /\ Media(controls)' = Media(controls)
  BY <1>2 DEF Live, Media
<1>11. NewestIsTold'
  BY <1>2, <1>9, <1>10 DEF NewestIsTold
<1> QED
  BY <1>8, <1>11

\* mpv's threads change the media state with a report on its way.
LEMMA ThreadTells ==
  ASSUME Inv, NEW p \in Players, FileEnds(p) \/ RunCallback(p)
  PROVE  Current' /\ NewestIsTold'
<1>1. CASE FileEnds(p)
  <2> DEFINE g == [controls.callback EXCEPT ![p] = "none"]
             mu == IF p = "music" THEN "idle" ELSE controls.music
             c == [controls EXCEPT !.callback = g, !.music = mu]
  <2>1. Become(c) /\ controls' = c /\ UNCHANGED <<satellite, phase, view, untold>>
    BY <1>1 DEF FileEnds, Become
  <2>2. c.muted = controls.muted /\ c.switch = controls.switch /\ Media(c) = Media(controls)
    BY DEF Inv, TypeOK, ControlStates, Media
  <2>3. \A q \in Players : ending[q] = "idle" => ending'[q] = "idle"
    BY <1>1 DEF FileEnds, Inv, TypeOK
  <2> HIDE DEF c
  <2>4. Current'
    BY <2>1, <2>2, BecomeCurrent DEF Inv, Current
  <2>5. \A d : OnItsWay(d) => OnItsWay(d)'
    BY <2>1, <2>3, BecomeOnItsWay DEF Inv
  <2>6. ({satellite} \cap Live)' = {satellite} \cap Live /\ Media(controls)' = Media(controls)
    BY <2>1, <2>2 DEF Live, Media
  <2>7. NewestIsTold'
    BY <2>1, <2>2, <2>5, <2>6 DEF Inv, NewestIsTold
  <2> QED
    BY <2>4, <2>7
<1>2. CASE RunCallback(p)
  <2> DEFINE c == Run(ending[p], controls)
             made == [to |-> {}, media |-> Media(c), late |-> FALSE]
  <2>1. /\ controls' = c /\ UNCHANGED <<satellite, phase, view, untold>>
        /\ report' = [q \in Players |-> IF q = p /\ ending[p] = "idle" THEN {made}
                                        ELSE {Aged(m, c) : m \in report[q]}]
        /\ posted' = [i \in DOMAIN posted |-> Aged(posted[i], c)]
        /\ ending' = [ending EXCEPT ![p] = "none"]
    BY <1>2 DEF RunCallback
  <2>2. /\ c.muted = controls.muted /\ c.switch = controls.switch
        /\ ending[p] = "idle" \/ Media(c) = Media(controls)
    <3>1. CASE ending[p] = "resume"
      BY <3>1 DEF Run, Inv, TypeOK, ControlStates, Media
    <3>2. CASE ending[p] = "idle"
      BY <3>2 DEF Run, Inv, TypeOK, ControlStates
    <3>3. CASE ending[p] \notin {"resume", "idle"}
      BY <3>3 DEF Run
    <3> QED
      BY <3>1, <3>2, <3>3
  <2>3. UpToDate(made, c)
    BY DEF UpToDate
  <2> HIDE DEF c, made
  <2>4. \A q \in Players : \A m \in report'[q] : UpToDate(m, c)
    <3>1. ASSUME NEW q \in Players, NEW m \in report'[q] PROVE UpToDate(m, c)
      <4>1. CASE m = made
        BY <2>3, <4>1
      <4>2. CASE m # made
        <5>1. PICK n \in report[q] : m = Aged(n, c)
          BY <2>1, <4>2
        <5>2. n \in Messages /\ UpToDate(n, controls)
          BY <5>1 DEF Inv, TypeOK, Current, Reported
        <5> QED
          BY <5>1, <5>2, AgedUpToDate
      <4> QED
        BY <4>1, <4>2
    <3> QED
      BY <3>1
  <2>5. \A i \in DOMAIN posted : posted[i] \in Messages /\ UpToDate(posted[i], controls)
    BY DEF Inv, TypeOK, Current, Posted
  <2>6. \A i \in DOMAIN posted' : UpToDate(posted'[i], c)
    BY <2>1, <2>5, AgedUpToDate
  <2>7. Current'
    BY <2>1, <2>2, <2>4, <2>6 DEF Inv, Current, Reported, Posted
  <2>8. ASSUME NEW d, OnItsWay(d) \/ Media(c) # Media(controls) PROVE OnItsWay(d)'
    <3>1. CASE ending[p] = "idle"
      <4>1. report'[p] # {}
        BY <2>1, <3>1
      <4> QED
        BY <4>1 DEF OnItsWay
    <3>2. CASE ending[p] # "idle"
      <4>1. OnItsWay(d)
        BY <2>2, <2>8, <3>2
      <4>2. \A q \in Players : ending[q] = "idle" => ending'[q] = "idle"
        BY <2>1, <3>2 DEF Inv, TypeOK
      <4>3. Become(c)
        BY <2>1, <3>2 DEF Become
      <4> QED
        BY <4>1, <4>2, <4>3, BecomeOnItsWay DEF Inv
    <3> QED
      BY <3>1, <3>2
  <2>9. ({satellite} \cap Live)' = {satellite} \cap Live /\ Media(controls)' = Media(c)
    BY <2>1 DEF Live, Media
  <2>10. NewestIsTold'
    BY <2>1, <2>2, <2>8, <2>9 DEF Inv, NewestIsTold
  <2> QED
    BY <2>7, <2>10
<1> QED
  BY <1>1, <1>2

\* A connection that comes is not told until it is authenticated; when the last
\* one goes, the players stop and nobody is left to tell.
LEMMA ConnectionTells ==
  ASSUME Inv, NEW c \in Connections,
         NewConnection(c) \/ ConnectionMade(c) \/ Authenticate(c) \/ ConnectionLost(c)
  PROVE  Current' /\ NewestIsTold'
<1>1. phase \in [Connections -> {"absent", "made", "open", "live", "gone"}]
  BY DEF Inv, TypeOK
<1>2. CASE NewConnection(c)
  <2> DEFINE new == [controls EXCEPT !.volume = controls.stored, !.previous = controls.stored,
                                     !.switch = controls.muted]
  <2>1. Handle(new, {}, {}, Open \X Parts) /\ UNCHANGED ending
    BY <1>2 DEF NewConnection
  <2>2. new.switch = new.muted
    BY DEF Inv, TypeOK, ControlStates
  <2>3. ({satellite} \cap Live)' = {}
    BY <1>1, <1>2 DEF NewConnection, Live
  <2> HIDE DEF new
  <2> QED
    BY <2>1, <2>2, <2>3, HandleTells DEF Inv
<1>3. CASE ConnectionMade(c)
  <2>1. Live' = Live
    BY <1>1, <1>3 DEF ConnectionMade, Live
  <2> QED
    BY <1>3, <2>1 DEF ConnectionMade, Inv, Current, Reported, Posted, NewestIsTold, OnItsWay
<1> DEFINE same == [controls EXCEPT !.switch = controls.muted]
<1>4. same.switch = same.muted /\ same.muted = controls.muted /\ Media(same) = Media(controls)
  BY DEF Inv, TypeOK, ControlStates, Media
<1>5. CASE Authenticate(c)
  <2>1. Handle(same, {c}, {c}, {}) /\ UNCHANGED <<ending, satellite>>
    BY <1>5 DEF Authenticate
  <2>2. Live' = Live \cup {c}
    BY <1>1, <1>5 DEF Authenticate, Live
  <2> HIDE DEF same
  <2> QED
    BY <1>4, <2>1, <2>2, HandleTells DEF Inv
<1>6. CASE ConnectionLost(c)
  <2> DEFINE left == IF Open = {c} THEN Stopped("announce", Stopped("music", controls)) ELSE controls
             new == [left EXCEPT !.switch = left.muted]
  <2>1. Handle(new, {}, {}, {}) /\ UNCHANGED ending
    BY <1>6 DEF ConnectionLost
  <2>2. Sound(left)
    BY StoppedIsSound DEF Players, Inv
  <2>3. Live' = Live \ {c}
    BY <1>1, <1>6 DEF ConnectionLost, Live
  <2>4. ({satellite} \cap Live)' \subseteq {satellite} \cap Live
    BY <1>6, <2>3 DEF ConnectionLost, Live
  <2>5. Open = {c} => ({satellite} \cap Live)' = {}
    BY <2>3, <2>4, NewestIsOpen DEF Inv
  <2>6. Open # {c} => new = same
    OBVIOUS
  <2> HIDE DEF left
  <2>7. new.switch = new.muted
    BY <2>2 DEF Sound, ControlStates
  <2> HIDE DEF new, same
  <2> QED
    BY <1>4, <2>1, <2>4, <2>5, <2>6, <2>7, HandleTells DEF Inv
<1> QED
  BY <1>2, <1>3, <1>5, <1>6

LEMMA NewestStep == Inv /\ [Next]_vars => (Current /\ NewestIsTold)'
<1> SUFFICES ASSUME Inv, [Next]_vars PROVE Current' /\ NewestIsTold'
  OBVIOUS
<1>1. CASE \E c \in Connections : NewConnection(c) \/ ConnectionMade(c) \/ Authenticate(c) \/ ConnectionLost(c)
  BY <1>1, ConnectionTells
<1>2. CASE \E c \in Connections : FromHome(c)
  BY <1>2, HomeTells
<1>3. CASE FromPeripheral
  BY <1>3, PeripheralTells
<1>4. CASE \E p \in Players : FileEnds(p) \/ RunCallback(p) \/ Broadcast(p)
  BY <1>4, ThreadTells, BroadcastTells
<1>5. CASE Deliver
  BY <1>5, DeliverTells
<1>6. CASE UNCHANGED vars
  BY <1>6 DEF vars, Inv, Current, Reported, Posted, NewestIsTold, OnItsWay, Live, Media
<1> QED
  BY <1>1, <1>2, <1>3, <1>4, <1>5, <1>6 DEF Next

(* The newest connection of Home Assistant knows the microphone and the     *)
(* media player, whoever changed them last (api_server.py, entity.py,       *)
(* peripheral_api.py), but for what another connection changed and for      *)
(* reports of mpv's threads that are on their way or came late.             *)
THEOREM NewestAlwaysTold == Spec => []NewestIsTold
<1>1. Init => Inv
  BY TypesInit, SoundInit, NewestInit DEF Inv
<1>2. Inv /\ [Next]_vars => Inv'
  <2>1. Inv /\ [Next]_vars => (TypeOK /\ Sound(controls))'
    BY TypesStep, SoundStep DEF Inv
  <2> QED
    BY <2>1, NewestStep DEF Inv
<1>3. Inv => NewestIsTold
  BY DEF Inv
<1> QED
  BY <1>1, <1>2, <1>3, PTL DEF Spec
=============================================================================
