----------------------------- MODULE BoardEvents -----------------------------
(***************************************************************************)
(* What the LED boards of src/examples make of an event: the state each    *)
(* keeps (SharedState), the branch of _handle_event() it takes, and the    *)
(* animation it then shows.  Of an animation only the state it stands for  *)
(* is kept; colours, brightness and the idle glow are left out.            *)
(***************************************************************************)
Boards == {"satellite1", "twomic", "fourmic", "usb"}

\* Events whose name is the state they put a board in.
Direct == {"wake_word_detected", "listening", "thinking", "tts_speaking",
           "timer_ticking", "timer_ringing", "media_player_playing"}

\* Events no board keeps a state of: texts, tool calls, volume, settings, light.
Passing == {"timer_updated", "stt_text"}

Pipeline == Direct \union {"tts_finished", "idle", "pipeline_error"}

Names == Pipeline \union Passing \union {"snapshot", "muted", "disconnected", "zeroconf"}

\* muted is what "muted" and the snapshot say; ha is what the snapshot says.
Messages == [event : Names, muted : BOOLEAN, ha : BOOLEAN]

Event(name) == [event |-> name, muted |-> FALSE, ha |-> FALSE]

States == {"not_ready", "idle", "error", "muted"} \union Direct

\* assist_state, ha_connected, muted, and whether timer_ends_at is to come.
BoardStates == [assist : States, ha : BOOLEAN, muted : BOOLEAN, counting : BOOLEAN]

FirstState == [assist |-> "not_ready", ha |-> FALSE, muted |-> FALSE, counting |-> FALSE]

In(b, state) == [b EXCEPT !.assist = state]

\* Mutant of MutedTo: the data of the event is not looked at.
MutedAlways(b, muted) == [In(b, "muted") EXCEPT !.muted = TRUE]

\* The "muted" event, which carries the state of the microphone both ways.
MutedTo(b, muted) ==
  LET c == [b EXCEPT !.muted = muted]
  IN  IF muted THEN In(c, "muted")
               ELSE IF b.assist = "muted" THEN In(c, "idle") ELSE c

Unreachable(b) == [In(b, "not_ready") EXCEPT !.ha = FALSE]

-----------------------------------------------------------------------------
\* The Satellite1 board.
Satellite1(b, m) ==
  CASE m.event = "snapshot" -> [b EXCEPT !.muted = m.muted, !.ha = m.ha]
    [] m.event \in Direct -> In(b, m.event)
    [] m.event \in {"tts_finished", "idle"} -> In(b, "idle")
    [] m.event = "muted" -> MutedTo(b, m.muted)
    [] m.event = "pipeline_error" -> In(b, "error")
    [] m.event = "disconnected" -> Unreachable(b)
    [] m.event = "zeroconf" -> [b EXCEPT !.ha = TRUE]
    [] m.event \in Passing -> b

\* States that are shown though the microphone is muted.
Urgent == {"timer_ringing", "wake_word_detected", "listening", "thinking", "tts_speaking", "error"}

\* Mutant of Ring: only the state that comes with a lost connection is looked at.
RingOfState(b, otherwise) ==
  IF b.assist = "not_ready" THEN "twinkle"
  ELSE IF b.assist \in Urgent THEN b.assist
  ELSE IF b.assist = "muted" \/ b.muted THEN "muted"
  ELSE IF b.assist = "timer_ticking" THEN "timer_ticking" ELSE otherwise

\* Mirrors the priorities of the ESPHome script control_leds.
Ring(b, otherwise) ==
  IF ~b.ha \/ b.assist = "not_ready" THEN "twinkle"
  ELSE IF b.assist \in Urgent THEN b.assist
  ELSE IF b.assist = "muted" \/ b.muted THEN "muted"
  ELSE IF b.assist = "timer_ticking" THEN "timer_ticking" ELSE otherwise

\* Music is played in the dark.
Satellite1Ring(b) == Ring(b, IF b.assist = "idle" THEN "idle" ELSE "off")

-----------------------------------------------------------------------------
\* The 4-mic board reads every "muted" as muted; while music plays it is idle.
FourMic(b, m) == IF m.event = "muted" THEN [In(b, "muted") EXCEPT !.muted = TRUE] ELSE Satellite1(b, m)

FourMicRing(b) == Ring(b, "idle")

\* The USB microphone array does what the 4-mic board does.
Usb(b, m) == FourMic(b, m)

UsbRing(b) == FourMicRing(b)

-----------------------------------------------------------------------------
\* The 2-mic board keeps the countdown and returns to it; an error is entered
\* here and left in TwoMicErrorOver.
TwoMicRest(b) == IF b.muted THEN "muted" ELSE IF b.counting THEN "timer_ticking" ELSE "idle"

TwoMic(b, m) ==
  CASE m.event \in {"tts_finished", "idle"} -> In(b, TwoMicRest(b))
    [] m.event = "zeroconf" ->
         [(IF b.assist # "not_ready" THEN b ELSE In(b, IF b.muted THEN "muted" ELSE "idle")) EXCEPT !.ha = TRUE]
    [] m.event = "timer_ticking" -> [In(b, "timer_ticking") EXCEPT !.counting = TRUE]
    [] m.event = "timer_updated" -> [b EXCEPT !.counting = TRUE]
    [] m.event = "timer_ringing" -> [In(b, "timer_ringing") EXCEPT !.counting = FALSE]
    [] m.event \notin {"tts_finished", "idle", "zeroconf", "timer_ticking", "timer_updated", "timer_ringing"} ->
         Satellite1(b, m)

TwoMicErrorOver(b) == IF b.assist = "error" THEN In(b, "idle") ELSE b

\* Its LEDs show the state; only the snapshot chooses for itself.
TwoMicLeds(b, m) ==
  IF m.event # "snapshot" THEN b.assist
  ELSE IF b.muted THEN "muted" ELSE IF b.ha THEN "idle" ELSE "not_ready"

-----------------------------------------------------------------------------
Handle(board, b, m) ==
  CASE board = "satellite1" -> Satellite1(b, m)
    [] board = "twomic" -> TwoMic(b, m)
    [] board = "fourmic" -> FourMic(b, m)
    [] board = "usb" -> Usb(b, m)

Leds(board, b, m) ==
  CASE board = "satellite1" -> Satellite1Ring(b)
    [] board = "twomic" -> TwoMicLeds(b, m)
    [] board = "fourmic" -> FourMicRing(b)
    [] board = "usb" -> UsbRing(b)
=============================================================================
