------------------------------ MODULE VoiceLink ------------------------------
(***************************************************************************)
(* The way of the voice from the microphone to the server: the flags of    *)
(* the voice pipeline (linux_voice_assistant/satellite.py) and the native  *)
(* transport (tater_native.py) with its callbacks to the event loop,       *)
(* pre-roll, outgoing queue, writer and reconnects.                        *)
(*                                                                         *)
(* Actors: the audio thread (Wake, Record), the threads that start a       *)
(* session (starting: the end of a chime, the timer of a continued         *)
(* conversation), the event loop, the writer task, and the server.  The    *)
(* event loop runs what was posted to it in order.                         *)
(*                                                                         *)
(* A start of the voice and a chunk of audio are frames numbered by age;   *)
(* all other frames are "json".  session is history: whose audio the       *)
(* microphone hears, 0 when no server is listening.                        *)
(*                                                                         *)
(* Left out: what speech and sounds do to each other (SpeechPlayback), the *)
(* verifier (WakeVerifier), voice.stop, which the satellite never sends.   *)
(* Each wake is assumed to hear the end of its chime.                      *)
(***************************************************************************)
EXTENDS Naturals, Sequences, SequencesExt

CONSTANTS
  QueueMax,        \* OUTGOING_QUEUE_MAX
  PrerollMax,      \* VOICE_PREROLL_MAX_CHUNKS
  MaxStarts,       \* bound of the model: wakes and continued conversations
  MaxChunks,       \* bound of the model: chunks of audio posted
  MaxPosted,       \* bound of the model: callbacks waiting for the loop
  MaxConnections   \* bound of the model: connections made

ASSUME VoiceLinkAssumption ==
  /\ QueueMax \in Nat \ {0} /\ PrerollMax \in Nat \ {0}
  /\ MaxStarts \in Nat /\ MaxChunks \in Nat
  /\ MaxPosted \in Nat \ {0} /\ MaxConnections \in Nat

VARIABLES
  link,         \* where run_forever is: "down", "hello", "up", "closing"
  connections,  \* how often it was up
  posted,       \* callbacks that wait for the event loop, by their frame
  pending,      \* _voice_start_pending
  preroll,      \* _audio_preroll
  outgoing,     \* _outgoing
  sending,      \* frames the writer holds, at most one
  wire,         \* voice frames the server got on this connection
  answered,     \* how many starts of this connection it has answered
  accepted,     \* runs it has accepted and not begun
  running,      \* runs it has begun and not ended
  streaming,    \* _is_streaming_audio
  pipeline,     \* _pipeline_active
  muted,        \* state.muted
  speaking,     \* tts_response_active
  ttsPlayed,    \* _tts_played
  starting,     \* where each starter of a session is
  begun,        \* wakes and continued conversations so far
  sessions,     \* history: starts posted
  chunks,       \* history: chunks posted
  session,      \* history: the session whose audio is recorded
  earlier       \* history: sessions of earlier connections are at most this

linkVars == <<link, connections>>
queueVars == <<pending, preroll, outgoing, sending>>
runVars == <<accepted, running>>
serverVars == <<wire, answered, runVars>>
voiceVars == <<streaming, pipeline, muted, speaking, ttsPlayed, starting, begun>>
historyVars == <<sessions, chunks, session, earlier>>
vars == <<linkVars, posted, queueVars, serverVars, voiceVars, historyVars>>

Sessions == 0..MaxStarts
Starters == {"wake", "continued"}
Frames == [kind : {"start", "audio"}, session : Sessions, age : 1..(MaxStarts + MaxChunks)]
            \cup [kind : {"json"}, session : {0}, age : {0}]

Json == [kind |-> "json", session |-> 0, age |-> 0]
Start(s) == [kind |-> "start", session |-> s, age |-> sessions + chunks + 1]
Audio == [kind |-> "audio", session |-> session, age |-> sessions + chunks + 1]

TypeOK ==
  /\ link \in {"down", "hello", "up", "closing"} /\ connections \in 0..MaxConnections
  /\ posted \in Seq(Frames)
  /\ pending \in BOOLEAN
  /\ preroll \in Seq(Frames) /\ Len(preroll) <= PrerollMax
  /\ outgoing \in Seq(Frames) /\ Len(outgoing) <= QueueMax
  /\ sending \in Seq(Frames) /\ Len(sending) <= 1
  /\ wire \in Seq(Frames)
  /\ answered \in Nat /\ accepted \in Nat /\ running \in Nat
  /\ streaming \in BOOLEAN /\ pipeline \in BOOLEAN
  /\ muted \in BOOLEAN /\ speaking \in BOOLEAN /\ ttsPlayed \in BOOLEAN
  /\ starting \in [Starters -> {"idle", "send", "mark"}]
  /\ begun \in 0..MaxStarts /\ sessions \in 0..begun
  /\ chunks \in 0..MaxChunks
  /\ session \in 0..sessions /\ earlier \in 0..sessions

Init ==
  /\ link = "down" /\ connections = 0
  /\ posted = <<>>
  /\ pending = FALSE
  /\ preroll = <<>> /\ outgoing = <<>> /\ sending = <<>>
  /\ wire = <<>> /\ answered = 0 /\ accepted = 0 /\ running = 0
  /\ streaming = FALSE /\ pipeline = FALSE
  /\ muted = FALSE /\ speaking = FALSE /\ ttsPlayed = FALSE
  /\ starting = [t \in Starters |-> "idle"] /\ begun = 0
  /\ sessions = 0 /\ chunks = 0 /\ session = 0 /\ earlier = 0

Connected == link \in {"up", "closing"}

-----------------------------------------------------------------------------
(* The threads of the satellite.                                           *)

Post(frame) == posted' = Append(posted, frame)

\* wakeup() and start_listening() up to the end of the chime.
Wake ==
  /\ ~muted /\ ~pipeline
  /\ starting["wake"] = "idle"
  /\ begun < MaxStarts
  /\ begun' = begun + 1
  /\ pipeline' = TRUE
  /\ starting' = [starting EXCEPT !["wake"] = "send"]
  /\ UNCHANGED <<linkVars, posted, queueVars, serverVars, streaming, muted, speaking,
                 ttsPlayed, historyVars>>

\* A conversation is not continued while muted.
Declined(t) == t = "continued" /\ muted

\* send_messages with a voice start, ignored while disconnected.
SendStart(t) ==
  /\ starting[t] = "send"
  /\ \/ /\ Declined(t)
        /\ pipeline' = FALSE
        /\ starting' = [starting EXCEPT ![t] = "idle"]
        /\ UNCHANGED <<posted, streaming, sessions, session>>
     \/ /\ ~Declined(t) /\ Connected
        /\ Post(Start(sessions + 1))
        /\ sessions' = sessions + 1
        /\ session' = sessions + 1
        /\ starting' = [starting EXCEPT ![t] = "mark"]
        /\ UNCHANGED <<streaming, pipeline>>
     \/ /\ ~Declined(t) /\ ~Connected
        /\ streaming' = FALSE
        /\ pipeline' = FALSE
        /\ starting' = [starting EXCEPT ![t] = "mark"]
        /\ UNCHANGED <<posted, sessions, session>>
  /\ UNCHANGED <<linkVars, queueVars, serverVars, muted, speaking, ttsPlayed, begun,
                 chunks, earlier>>

\* What its callers do when send_messages returns.
MarkStreaming(t) ==
  /\ starting[t] = "mark"
  /\ streaming' = TRUE
  /\ starting' = [starting EXCEPT ![t] = "idle"]
  /\ UNCHANGED <<linkVars, posted, queueVars, serverVars, pipeline, muted, speaking, ttsPlayed,
                 begun, historyVars>>

\* handle_audio, with the send_messages it calls.
Record ==
  /\ streaming /\ ~muted /\ Connected
  /\ chunks < MaxChunks /\ Len(posted) < MaxPosted
  /\ Post(Audio)
  /\ chunks' = chunks + 1
  /\ UNCHANGED <<linkVars, queueVars, serverVars, voiceVars, sessions, session, earlier>>

\* _submit_frame: timers, settings, media sessions, the Bluetooth scanner.
Submit ==
  /\ Len(posted) < MaxPosted
  /\ Post(Json)
  /\ UNCHANGED <<linkVars, queueVars, serverVars, voiceVars, historyVars>>

\* _tts_finished: AnnounceFinished is sent, and the conversation may be continued.
TtsFinished ==
  /\ IF Connected THEN Post(Json) ELSE UNCHANGED posted
  /\ \/ /\ pipeline' = FALSE
        /\ UNCHANGED <<starting, begun>>
     \/ /\ starting["continued"] = "idle" /\ begun < MaxStarts
        /\ begun' = begun + 1
        /\ pipeline' = TRUE
        /\ starting' = [starting EXCEPT !["continued"] = "send"]

\* A response has been spoken.
ResponseOver ==
  /\ speaking
  /\ speaking' = FALSE
  /\ TtsFinished
  /\ UNCHANGED <<linkVars, queueVars, serverVars, streaming, muted, ttsPlayed, historyVars>>

\* satellite.stop(), as the stop word, play.stop and stop_pipeline call it.
Stop ==
  /\ speaking' = FALSE
  /\ IF speaking THEN TtsFinished
                 ELSE pipeline' = FALSE /\ UNCHANGED <<posted, starting, begun>>
  /\ UNCHANGED <<linkVars, queueVars, serverVars, streaming, muted, ttsPlayed, historyVars>>

\* _set_muted.
Mute ==
  /\ ~muted
  /\ muted' = TRUE
  /\ streaming' = FALSE
  /\ speaking' = FALSE
  /\ IF speaking THEN TtsFinished ELSE UNCHANGED <<posted, pipeline, starting, begun>>
  /\ UNCHANGED <<linkVars, queueVars, serverVars, ttsPlayed, historyVars>>

Unmute ==
  /\ muted
  /\ muted' = FALSE
  /\ UNCHANGED <<linkVars, posted, queueVars, serverVars, streaming, pipeline, speaking,
                 ttsPlayed, starting, begun, historyVars>>

-----------------------------------------------------------------------------
(* The event loop.                                                         *)

Full == Len(outgoing) >= QueueMax

\* _queue_frame: audio is dropped when the queue is full, anything else takes the
\* place of the oldest frame.
QueueFrame(frame) ==
  outgoing' = CASE ~Full -> Append(outgoing, frame)
                [] Full /\ frame.kind = "audio" -> outgoing
                [] OTHER -> Append(Tail(outgoing), frame)

\* Mutant of FreshPreroll: what was recorded for an earlier start is kept.
OldPreroll == preroll

FreshPreroll == <<>>

\* Mutant of AwaitAnswer: the audio does not wait for the server.
NoWaiting == FALSE

AwaitAnswer == TRUE

\* A deque with a maximal length forgets its oldest chunk.
PushPreroll(frame) ==
  Append(IF Len(preroll) = PrerollMax THEN Tail(preroll) ELSE preroll, frame)

\* The loop runs _queue_protocol_message or _queue_frame.
RunCallback ==
  /\ posted # <<>>
  /\ posted' = Tail(posted)
  /\ LET frame == Head(posted) IN
       \/ /\ ~Connected
          /\ UNCHANGED <<pending, preroll, outgoing>>
       \/ /\ Connected /\ frame.kind = "start"
          /\ pending' = AwaitAnswer
          /\ preroll' = FreshPreroll
          /\ QueueFrame(frame)
       \/ /\ Connected /\ frame.kind = "audio" /\ pending
          /\ preroll' = PushPreroll(frame)
          /\ UNCHANGED <<pending, outgoing>>
       \/ /\ Connected
          /\ frame.kind = "json" \/ (frame.kind = "audio" /\ ~pending)
          /\ QueueFrame(frame)
          /\ UNCHANGED <<pending, preroll>>
  /\ UNCHANGED <<linkVars, sending, serverVars, voiceVars, historyVars>>

Heartbeat ==
  /\ link = "up"
  /\ QueueFrame(Json)
  /\ UNCHANGED <<linkVars, posted, pending, preroll, sending, serverVars, voiceVars,
                 historyVars>>

\* _writer takes a frame and awaits websocket.send.
WriterTakes ==
  /\ link = "up"
  /\ sending = <<>> /\ outgoing # <<>>
  /\ sending' = <<Head(outgoing)>>
  /\ outgoing' = Tail(outgoing)
  /\ UNCHANGED <<linkVars, posted, pending, preroll, serverVars, voiceVars, historyVars>>

WriterSends ==
  /\ sending # <<>>
  /\ wire' = IF sending = <<Json>> THEN wire ELSE wire \o sending
  /\ sending' = <<>>
  /\ UNCHANGED <<linkVars, posted, pending, preroll, outgoing, answered, runVars,
                 voiceVars, historyVars>>

-----------------------------------------------------------------------------
(* What the server sends, and what the reader does with it.                *)

StartsOnWire == Len(SelectSeq(wire, LAMBDA frame : frame.kind = "start"))

Answers == link = "up" /\ answered < StartsOnWire /\ answered' = answered + 1

\* Mutant of Flushed: the pre-roll is emptied from its other end.
FlushedBackwards == Reverse(preroll)

Flushed == preroll

\* As many chunks of the pre-roll as the queue has room for.
Accept ==
  /\ Answers
  /\ pending' = FALSE
  /\ LET room == QueueMax - Len(outgoing) IN
       outgoing' = outgoing \o IF Len(preroll) <= room THEN Flushed ELSE SubSeq(Flushed, 1, room)
  /\ preroll' = <<>>
  /\ accepted' = accepted + 1
  /\ UNCHANGED <<linkVars, posted, sending, wire, running, voiceVars, historyVars>>

\* Mutants of FreePipeline and StopWaiting: a refusal is logged and nothing more.
KeepPipeline == UNCHANGED pipeline
KeepWaiting == UNCHANGED pending

FreePipeline == pipeline' = FALSE
StopWaiting == pending' = FALSE

Refuse ==
  /\ Answers
  /\ StopWaiting
  /\ preroll' = <<>>
  /\ streaming' = FALSE
  /\ FreePipeline
  /\ session' = 0
  /\ UNCHANGED <<linkVars, posted, outgoing, sending, wire, runVars, muted, speaking,
                 ttsPlayed, starting, begun, sessions, chunks, earlier>>

\* RUN_START of a run that the server accepted.
RunStart ==
  /\ link = "up" /\ accepted > 0
  /\ accepted' = accepted - 1
  /\ running' = running + 1
  /\ ttsPlayed' = FALSE
  /\ pipeline' = TRUE
  /\ UNCHANGED <<linkVars, posted, queueVars, wire, answered, streaming, muted, speaking,
                 starting, begun, historyVars>>

\* STT_VAD_END, STT_END.
VadEnd ==
  /\ link = "up" /\ running > 0
  /\ streaming
  /\ streaming' = FALSE
  /\ UNCHANGED <<linkVars, posted, queueVars, serverVars, pipeline, muted, speaking, ttsPlayed,
                 starting, begun, historyVars>>

\* play.url, TTS_END: in a run, or announced by the server.
PlayUrl ==
  /\ link = "up"
  /\ Len(posted) < MaxPosted
  /\ speaking' = TRUE
  /\ ttsPlayed' = TRUE
  /\ UNCHANGED <<linkVars, posted, queueVars, serverVars, streaming, pipeline, muted, starting,
                 begun, historyVars>>

\* The response was or is spoken: its own end frees the pipeline.
Answering == ttsPlayed \/ speaking

\* RUN_END.
RunEnd ==
  /\ link = "up" /\ running > 0
  /\ running' = running - 1
  /\ streaming' = FALSE
  /\ ttsPlayed' = FALSE
  /\ IF Answering THEN UNCHANGED <<posted, pipeline, starting, begun>> ELSE TtsFinished
  /\ UNCHANGED <<linkVars, queueVars, wire, answered, accepted, muted, speaking, historyVars>>

-----------------------------------------------------------------------------
(* The connection.                                                         *)

\* Mutant of ClearOutgoing: what could not be sent is kept for the next connection.
KeepOutgoing == UNCHANGED outgoing

ClearOutgoing == outgoing' = <<>>

\* run_forever dials again, reconnect_seconds after the last connection: by then
\* the loop has run what was posted before.
Dial ==
  /\ link = "down" /\ connections < MaxConnections
  /\ posted = <<>>
  /\ link' = "hello"
  /\ ClearOutgoing
  /\ UNCHANGED <<connections, posted, pending, preroll, sending, serverVars, voiceVars,
                 historyVars>>

\* hello.ack, _mark_connected.
Connect ==
  /\ link = "hello"
  /\ link' = "up"
  /\ connections' = connections + 1
  /\ UNCHANGED <<posted, queueVars, serverVars, voiceVars, historyVars>>

\* The websocket fails: reader, writer and heartbeat end.
Close ==
  /\ link = "up"
  /\ link' = "closing"
  /\ sending' = <<>>
  /\ UNCHANGED <<connections, posted, pending, preroll, outgoing, serverVars, voiceVars,
                 historyVars>>

\* _mark_disconnected; the satellite only hears of a connection that was up.
MarkDisconnected ==
  /\ link \in {"hello", "closing"}
  /\ link' = "down"
  /\ pending' = FALSE
  /\ preroll' = <<>>
  /\ ClearOutgoing
  /\ IF Connected
     THEN /\ streaming' = FALSE /\ pipeline' = FALSE
          /\ speaking' = FALSE /\ ttsPlayed' = FALSE
          /\ session' = 0
     ELSE UNCHANGED <<streaming, pipeline, speaking, ttsPlayed, session>>
  /\ wire' = <<>> /\ answered' = 0 /\ accepted' = 0 /\ running' = 0
  /\ earlier' = sessions
  /\ UNCHANGED <<connections, posted, sending, muted, starting, begun, sessions, chunks>>

-----------------------------------------------------------------------------

Next ==
  \/ Wake \/ Record \/ Submit
  \/ \E t \in Starters : SendStart(t) \/ MarkStreaming(t)
  \/ ResponseOver \/ Stop \/ Mute \/ Unmute
  \/ RunCallback \/ Heartbeat \/ WriterTakes \/ WriterSends
  \/ Accept \/ Refuse \/ RunStart \/ VadEnd \/ PlayUrl \/ RunEnd
  \/ Dial \/ Connect \/ Close \/ MarkDisconnected

Spec == Init /\ [][Next]_vars

(* Threads, loop and writer run on; the server answers every start it      *)
(* gets, begins and ends every run it accepted; what is spoken comes to an *)
(* end.                                                                    *)
Fairness ==
  /\ \A t \in Starters : WF_vars(SendStart(t)) /\ WF_vars(MarkStreaming(t))
  /\ WF_vars(RunCallback) /\ WF_vars(WriterTakes) /\ WF_vars(WriterSends)
  /\ WF_vars(MarkDisconnected)
  /\ WF_vars(Accept \/ Refuse) /\ WF_vars(RunStart) /\ WF_vars(RunEnd)
  /\ WF_vars(ResponseOver)

FairSpec == Spec /\ Fairness

-----------------------------------------------------------------------------
(* Properties.                                                             *)

InTransit == posted \o outgoing \o sending \o wire

(* The sessions of this connection whose start was pushed out of a full    *)
(* queue.                                                                  *)
Lost == {s \in (earlier + 1)..sessions :
           link = "up" /\ \A i \in DOMAIN InTransit :
             ~(InTransit[i].kind = "start" /\ InTransit[i].session = s)}

(* The server takes audio for that of the last start it got, and it is:    *)
(* late answers, full queues, stops and reconnects never put the audio of  *)
(* one session into another (_audio_preroll.clear, _voice_start_pending).  *)
Attributed ==
  link = "up" => \A i \in DOMAIN wire :
    wire[i].kind = "audio" /\ wire[i].session \notin Lost \cup {0} =>
      \E j \in 1..(i - 1) :
        /\ wire[j].kind = "start" /\ wire[j].session = wire[i].session
        /\ \A k \in (j + 1)..(i - 1) : wire[k].kind = "audio"

(* No audio leaves the satellite before the server has answered a start of *)
(* this connection.                                                        *)
HeldUntilAnswered ==
  (\E frames \in {outgoing, sending, wire} : \E i \in DOMAIN frames :
     frames[i].kind = "audio" /\ frames[i].session # 0)
  => answered > 0

(* Starts and audio reach the server in the order in which they were made, *)
(* whichever way they took: pre-roll, queue, or both.                      *)
InOrder ==
  \A i, j \in DOMAIN wire : i < j => wire[i].age < wire[j].age

(* What was recorded for an earlier connection is never on the new one.    *)
NothingOfLastConnection ==
  link = "up" =>
    \A frames \in {preroll, outgoing, sending, wire} : \A i \in DOMAIN frames :
      frames[i].session # 0 => frames[i].session > earlier

(* The satellite does not wait for an answer for ever, unless the start    *)
(* was pushed out of the queue.                                            *)
StartAnswered == pending ~> (~pending \/ Lost # {})

(* The satellite always becomes ready for the next wake, unless a start    *)
(* was pushed out of the queue.                                            *)
PipelineFreed == pipeline ~> (~pipeline \/ Lost # {})
=============================================================================
