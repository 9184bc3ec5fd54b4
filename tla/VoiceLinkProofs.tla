--------------------------- MODULE VoiceLinkProofs ---------------------------
(***************************************************************************)
(* Proofs about VoiceLink, for queues, pre-rolls, connections and numbers  *)
(* of sessions of any size: types and limits, nothing of an old connection *)
(* on the new one, no audio before the server's answer, everything in the  *)
(* order it was made, and audio right behind the start of its session.     *)
(***************************************************************************)
EXTENDS VoiceLink, SequenceTheorems, TLAPS

\* Frames that do not come from an earlier connection.
OurFrames == {f \in Frames : f.session # 0 => f.session > earlier}

\* Frames that may leave the satellite now.
Released == {f \in Frames : f.kind = "audio" /\ f.session # 0 => answered > 0}

\* Each starter that is to send a start has been counted in begun already.
ToSend(t) == IF starting[t] = "send" THEN 1 ELSE 0
StartsCounted == sessions + ToSend("wake") + ToSend("continued") <= begun

\* A connection is only tried while the bound of the model leaves room for it.
DialsCounted == link = "hello" => connections < MaxConnections

\* Without a connection nothing is under way but what was posted.
OfflineIsEmpty ==
  /\ ~Connected => /\ ~pending /\ preroll = <<>> /\ outgoing = <<>> /\ wire = <<>>
                   /\ answered = 0 /\ session = 0
  /\ link # "up" => sending = <<>>

\* The connection of each frame, wherever it is; a new connection finds no voice
\* of an earlier one among the callbacks.
OursOnly ==
  /\ preroll \in Seq(OurFrames) /\ outgoing \in Seq(OurFrames)
  /\ sending \in Seq(OurFrames) /\ wire \in Seq(OurFrames)
  /\ Connected => posted \in Seq(OurFrames)
  /\ link = "hello" => posted \in Seq({f \in Frames : f.session = 0})
  /\ session # 0 => session > earlier

StartBefore(n) == \E j \in 1..(n - 1) : posted[j].kind = "start"

\* As long as the server has answered nothing and no start is pending, the start
\* of what is recorded is still among the callbacks, and before its audio.
StartComesFirst ==
  Connected /\ ~pending /\ answered = 0 =>
    /\ session # 0 => StartBefore(Len(posted) + 1)
    /\ \A i \in DOMAIN posted :
         posted[i].kind = "audio" /\ posted[i].session # 0 => StartBefore(i)

ReleasedOnly ==
  outgoing \in Seq(Released) /\ sending \in Seq(Released) /\ wire \in Seq(Released)

TypeInv == TypeOK /\ StartsCounted /\ DialsCounted
OriginInv == OfflineIsEmpty /\ OursOnly
HeldInv == StartComesFirst /\ ReleasedOnly
Inv == TypeInv /\ OriginInv /\ HeldInv

-----------------------------------------------------------------------------
(* Lemmas about the frames and the queues.                                 *)

\* The frames that are made are frames.
LEMMA JsonFrame == Json \in Frames
  BY DEF Json, Frames, Sessions

\* The front of the queue is one of its frames, and so are the others.
LEMMA TakenFrame ==
  ASSUME NEW S, NEW q \in Seq(S), q # <<>>
  PROVE  /\ Head(q) \in S /\ Tail(q) \in Seq(S) /\ Len(Tail(q)) = Len(q) - 1
         /\ DOMAIN Tail(q) = 1..(Len(q) - 1)
         /\ \A i \in 1..(Len(q) - 1) : Tail(q)[i] = q[i + 1]
         /\ Head(q) = q[1] /\ Len(q) >= 1
  OBVIOUS

\* A frame more at the end.
LEMMA AddedFrame ==
  ASSUME NEW S, NEW q \in Seq(S), NEW f \in S
  PROVE  /\ Append(q, f) \in Seq(S) /\ Len(Append(q, f)) = Len(q) + 1
         /\ \A i \in 1..Len(q) : Append(q, f)[i] = q[i]
         /\ Append(q, f)[Len(q) + 1] = f
  OBVIOUS

\* _queue_frame keeps the queue within its limit, and adds nothing but the frame.
LEMMA QueuedFrame ==
  ASSUME NEW S, outgoing \in Seq(S), Len(outgoing) <= QueueMax,
         NEW frame \in S, QueueFrame(frame)
  PROVE  outgoing' \in Seq(S) /\ Len(outgoing') <= QueueMax
<1>. USE VoiceLinkAssumption
<1>1. CASE ~Full
  BY <1>1, AddedFrame DEF QueueFrame, Full
<1>2. CASE Full /\ frame.kind = "audio"
  BY <1>2 DEF QueueFrame
<1>3. CASE Full /\ frame.kind # "audio"
  <2>1. outgoing # <<>>
    BY <1>3 DEF Full
  <2>2. Tail(outgoing) \in Seq(S) /\ Len(Tail(outgoing)) = Len(outgoing) - 1
    BY <2>1, TakenFrame
  <2>3. outgoing' = Append(Tail(outgoing), frame)
    BY <1>3 DEF QueueFrame
  <2>. QED  BY <2>2, <2>3, AddedFrame
<1>. QED  BY <1>1, <1>2, <1>3

\* The pre-roll keeps within its limit, and gains nothing but the frame.
LEMMA PushedFrame ==
  ASSUME NEW S, preroll \in Seq(S), Len(preroll) <= PrerollMax, NEW frame \in S
  PROVE  PushPreroll(frame) \in Seq(S) /\ Len(PushPreroll(frame)) <= PrerollMax
<1>. USE VoiceLinkAssumption
<1>1. CASE Len(preroll) = PrerollMax
  <2>1. preroll # <<>>
    BY <1>1
  <2>2. Tail(preroll) \in Seq(S) /\ Len(Tail(preroll)) = Len(preroll) - 1
    BY <2>1, TakenFrame
  <2>. QED  BY <1>1, <2>2, AddedFrame DEF PushPreroll
<1>2. CASE Len(preroll) # PrerollMax
  BY <1>2, AddedFrame DEF PushPreroll
<1>. QED  BY <1>1, <1>2

\* The pre-roll is flushed into the room that the queue has.
LEMMA FlushedFrames ==
  ASSUME NEW S, outgoing \in Seq(S), preroll \in Seq(S), Len(outgoing) <= QueueMax, Accept
  PROVE  outgoing' \in Seq(S) /\ Len(outgoing') <= QueueMax
<1>. USE VoiceLinkAssumption
<1>. DEFINE room == QueueMax - Len(outgoing)
            flush == IF Len(preroll) <= room THEN preroll ELSE SubSeq(preroll, 1, room)
<1>1. outgoing' = outgoing \o flush
  BY DEF Accept, Flushed
<1>2. room \in Nat
  OBVIOUS
<1>3. flush \in Seq(S) /\ Len(flush) <= room
  <2>1. CASE Len(preroll) <= room
    BY <2>1
  <2>2. CASE ~(Len(preroll) <= room)
    <3>1. \A i \in 1..room : preroll[i] \in S
      BY <2>2, <1>2
    <3>. HIDE DEF room
    <3>2. SubSeq(preroll, 1, room) \in Seq(S) /\ Len(SubSeq(preroll, 1, room)) <= room
      BY <3>1, <1>2, SubSeqProperties
    <3>. QED  BY <2>2, <3>2
  <2>. QED  BY <2>1, <2>2
<1>. HIDE DEF flush
<1>4. outgoing \o flush \in Seq(S) /\ Len(outgoing \o flush) = Len(outgoing) + Len(flush)
  BY <1>3, ConcatProperties
<1>. QED  BY <1>1, <1>2, <1>3, <1>4

-----------------------------------------------------------------------------
(* Types and limits.                                                       *)


\* The numbers that are counted, taken out of the types.
LEMMA Counted ==
  ASSUME TypeInv
  PROVE  /\ begun \in Nat /\ begun <= MaxStarts /\ MaxStarts \in Nat /\ MaxChunks \in Nat
         /\ sessions \in Nat /\ sessions <= begun
         /\ chunks \in Nat /\ chunks <= MaxChunks
         /\ session \in Nat /\ session <= sessions /\ earlier \in Nat /\ earlier <= sessions
         /\ ToSend("wake") \in {0, 1} /\ ToSend("continued") \in {0, 1}
         /\ sessions + ToSend("wake") + ToSend("continued") <= begun
  BY VoiceLinkAssumption DEF TypeInv, TypeOK, StartsCounted, ToSend

\* What a starter does to the count, when it is about to send and when it is not.
LEMMA StarterMoves ==
  ASSUME TypeInv, NEW t \in Starters, NEW next \in {"idle", "send", "mark"},
         starting' = [starting EXCEPT ![t] = next]
  PROVE  /\ starting' \in [Starters -> {"idle", "send", "mark"}]
         /\ LET sent == IF next = "send" THEN 1 ELSE 0 IN
              \/ /\ t = "wake" /\ ToSend("wake")' = sent
                 /\ ToSend("continued")' = ToSend("continued")
              \/ /\ t = "continued" /\ ToSend("continued")' = sent
                 /\ ToSend("wake")' = ToSend("wake")
<1>1. starting \in [Starters -> {"idle", "send", "mark"}]
  BY DEF TypeInv, TypeOK
<1>. QED  BY <1>1 DEF ToSend, Starters

\* A step that leaves the starters and the counters alone keeps the count.
LEMMA StartersRest ==
  ASSUME TypeInv, UNCHANGED <<starting, begun, sessions>>
  PROVE  /\ starting' \in [Starters -> {"idle", "send", "mark"}]
         /\ begun' \in 0..MaxStarts /\ sessions' \in 0..begun' /\ StartsCounted'
  BY DEF TypeInv, TypeOK, StartsCounted, ToSend

\* Any callback may be posted.
LEMMA PostedType ==
  ASSUME TypeInv, NEW frame \in Frames, posted' \in {posted, Append(posted, frame)}
  PROVE  posted' \in Seq(Frames)
<1>1. posted \in Seq(Frames)
  BY DEF TypeInv, TypeOK
<1>. QED  BY <1>1, AddedFrame

\* _tts_finished keeps the types, and counts the conversation it continues.
LEMMA TtsFinishedType ==
  ASSUME TypeInv, TtsFinished, UNCHANGED sessions
  PROVE  /\ posted' \in Seq(Frames) /\ pipeline' \in BOOLEAN
         /\ starting' \in [Starters -> {"idle", "send", "mark"}]
         /\ begun' \in 0..MaxStarts /\ sessions' \in 0..begun' /\ StartsCounted'
<1>1. posted' \in Seq(Frames)
  <2>1. posted' \in {posted, Append(posted, Json)}
    BY DEF TtsFinished, Post
  <2>. QED  BY <2>1, JsonFrame, PostedType
<1>2. CASE pipeline' = FALSE /\ UNCHANGED <<starting, begun>>
  BY <1>1, <1>2, StartersRest
<1>3. CASE /\ starting["continued"] = "idle" /\ begun < MaxStarts
           /\ begun' = begun + 1 /\ pipeline' = TRUE
           /\ starting' = [starting EXCEPT !["continued"] = "send"]
  <2>1. /\ starting' \in [Starters -> {"idle", "send", "mark"}]
        /\ ToSend("continued")' = 1 /\ ToSend("wake")' = ToSend("wake")
    BY <1>3, StarterMoves DEF Starters
  <2>2. ToSend("continued") = 0
    BY <1>3 DEF ToSend
  <2>3. begun' \in 0..MaxStarts /\ sessions' \in 0..begun' /\ StartsCounted'
    BY <1>3, <2>1, <2>2, Counted DEF StartsCounted
  <2>. QED  BY <1>1, <1>3, <2>1, <2>3
<1>. QED  BY <1>2, <1>3 DEF TtsFinished

\* The starters.
LEMMA StarterType ==
  ASSUME TypeInv, NEW t \in Starters, SendStart(t) \/ MarkStreaming(t)
  PROVE  TypeInv'
<1>1. CASE SendStart(t)
  <2>1. PICK next \in {"idle", "mark"} : starting' = [starting EXCEPT ![t] = next]
    BY <1>1 DEF SendStart
  <2>2. starting' \in [Starters -> {"idle", "send", "mark"}]
    BY <2>1, StarterMoves
  <2>3. \/ ToSend("wake") = 1 /\ ToSend("wake")' = 0 /\ ToSend("continued")' = ToSend("continued")
        \/ ToSend("continued") = 1 /\ ToSend("continued")' = 0 /\ ToSend("wake")' = ToSend("wake")
    <3>1. starting[t] = "send"
      BY <1>1 DEF SendStart
    <3>2. ToSend(t) = 1
      BY <3>1 DEF ToSend
    <3>. QED  BY <2>1, <3>2, StarterMoves
  <2>4. sessions + 1 \in Nat /\ sessions + 1 <= begun
    BY <2>3, Counted
  <2>5. Start(sessions + 1) \in Frames
    <3>1. sessions + chunks + 1 \in 1..(MaxStarts + MaxChunks)
      BY <2>4, Counted
    <3>2. sessions + 1 \in 0..MaxStarts
      BY <2>4, Counted
    <3>. QED  BY <3>1, <3>2 DEF Start, Frames, Sessions
  <2>6. posted' \in Seq(Frames)
    <3>1. posted' \in {posted, Append(posted, Start(sessions + 1))}
      BY <1>1 DEF SendStart, Post
    <3>. QED  BY <2>5, <3>1, PostedType
  <2>7. /\ sessions' \in {sessions, sessions + 1} /\ session' \in {session, sessions'}
        /\ begun' = begun /\ earlier' = earlier
    BY <1>1 DEF SendStart
  <2>8. /\ StartsCounted' /\ begun' \in 0..MaxStarts /\ sessions' \in 0..begun'
        /\ session' \in 0..sessions' /\ earlier' \in 0..sessions'
    BY <2>3, <2>4, <2>7, Counted DEF StartsCounted
  <2>9. streaming' \in BOOLEAN /\ pipeline' \in BOOLEAN
    BY <1>1 DEF SendStart, TypeInv, TypeOK, DialsCounted
  <2>10. UNCHANGED <<linkVars, queueVars, serverVars, muted, speaking, ttsPlayed, chunks>>
    BY <1>1 DEF SendStart
  <2>. QED  BY <2>2, <2>6, <2>8, <2>9, <2>10
            DEF TypeInv, TypeOK, DialsCounted, linkVars, queueVars, serverVars, runVars
<1>2. CASE MarkStreaming(t)
  <2>1. /\ starting' \in [Starters -> {"idle", "send", "mark"}]
        /\ ToSend("wake")' <= ToSend("wake") /\ ToSend("continued")' <= ToSend("continued")
    <3>1. starting' = [starting EXCEPT ![t] = "idle"]
      BY <1>2 DEF MarkStreaming
    <3>2. /\ starting' \in [Starters -> {"idle", "send", "mark"}]
          /\ ToSend("wake")' \in {0, ToSend("wake")}
          /\ ToSend("continued")' \in {0, ToSend("continued")}
      BY <3>1, StarterMoves
    <3>. QED  BY <3>2, Counted
  <2>2. StartsCounted'
    <3>1. ToSend("wake")' \in {0, 1} /\ ToSend("continued")' \in {0, 1}
      BY DEF ToSend
    <3>. QED  BY <1>2, <2>1, <3>1, Counted DEF MarkStreaming, historyVars, StartsCounted
  <2>. QED  BY <1>2, <2>1, <2>2 DEF MarkStreaming, TypeInv, TypeOK, DialsCounted, linkVars, queueVars,
                                    serverVars, runVars, historyVars
<1>. QED  BY <1>1, <1>2

\* The other steps of the satellite's threads.
LEMMA ThreadType ==
  ASSUME TypeInv, Wake \/ Record \/ Submit \/ ResponseOver \/ Stop \/ Mute \/ Unmute
  PROVE  TypeInv'
<1>. USE DEF linkVars, queueVars, serverVars, runVars, historyVars
<1>1. CASE Wake
  <2>1. /\ starting' \in [Starters -> {"idle", "send", "mark"}]
        /\ ToSend("wake")' = 1 /\ ToSend("continued")' = ToSend("continued")
    BY <1>1, StarterMoves DEF Wake, Starters
  <2>2. ToSend("wake") = 0
    BY <1>1 DEF Wake, ToSend
  <2>3. StartsCounted' /\ begun' \in 0..MaxStarts /\ sessions' \in 0..begun'
    BY <1>1, <2>1, <2>2, Counted DEF Wake, StartsCounted
  <2>. QED  BY <1>1, <2>1, <2>3 DEF Wake, TypeInv, TypeOK, DialsCounted
<1>2. CASE Record
  <2>1. Audio \in Frames
    <3>1. sessions + chunks + 1 \in 1..(MaxStarts + MaxChunks) /\ session \in 0..MaxStarts
      BY <1>2, Counted DEF Record
    <3>. QED  BY <3>1 DEF Audio, Frames, Sessions
  <2>2. posted' \in Seq(Frames)
    BY <1>2, <2>1, PostedType DEF Record, Post
  <2>3. chunks' \in 0..MaxChunks
    BY <1>2, Counted DEF Record
  <2>. QED  BY <1>2, <2>2, <2>3, StartersRest DEF Record, voiceVars, TypeInv, TypeOK, DialsCounted
<1>3. CASE Submit
  <2>1. posted' \in Seq(Frames)
    BY <1>3, JsonFrame, PostedType DEF Submit, Post
  <2>. QED  BY <1>3, <2>1, StartersRest DEF Submit, voiceVars, TypeInv, TypeOK, DialsCounted
<1>4. CASE ResponseOver
  BY <1>4, TtsFinishedType DEF ResponseOver, TypeInv, TypeOK, DialsCounted
<1>5. CASE Stop /\ speaking
  BY <1>5, TtsFinishedType DEF Stop, TypeInv, TypeOK, DialsCounted
<1>6. CASE Stop /\ ~speaking
  BY <1>6, StartersRest DEF Stop, TypeInv, TypeOK, DialsCounted
<1>7. CASE Mute /\ speaking
  BY <1>7, TtsFinishedType DEF Mute, TypeInv, TypeOK, DialsCounted
<1>8. CASE Mute /\ ~speaking
  BY <1>8, StartersRest DEF Mute, TypeInv, TypeOK, DialsCounted
<1>9. CASE Unmute
  BY <1>9, StartersRest DEF Unmute, TypeInv, TypeOK, DialsCounted
<1>. QED  BY <1>1, <1>2, <1>3, <1>4, <1>5, <1>6, <1>7, <1>8, <1>9

\* The event loop and the writer.
LEMMA LoopType ==
  ASSUME TypeInv, RunCallback \/ Heartbeat \/ WriterTakes \/ WriterSends
  PROVE  TypeInv'
<1>. USE DEF linkVars, queueVars, serverVars, runVars, voiceVars, historyVars
<1>1. /\ posted \in Seq(Frames) /\ preroll \in Seq(Frames) /\ Len(preroll) <= PrerollMax
      /\ outgoing \in Seq(Frames) /\ Len(outgoing) <= QueueMax
      /\ sending \in Seq(Frames) /\ wire \in Seq(Frames)
  BY DEF TypeInv, TypeOK, DialsCounted
<1>2. CASE RunCallback
  <2>. DEFINE frame == Head(posted)
  <2>1. posted # <<>> /\ posted' = Tail(posted)
    BY <1>2 DEF RunCallback
  <2>2. frame \in Frames /\ posted' \in Seq(Frames)
    BY <1>1, <2>1, TakenFrame
  <2>3. /\ pending' \in BOOLEAN
        /\ preroll' \in {preroll, <<>>, PushPreroll(frame)}
        /\ QueueFrame(frame) \/ UNCHANGED outgoing
    BY <1>2 DEF RunCallback, FreshPreroll, AwaitAnswer, TypeInv, TypeOK, DialsCounted
  <2>. HIDE DEF frame
  <2>4. preroll' \in Seq(Frames) /\ Len(preroll') <= PrerollMax
    <3>1. <<>> \in Seq(Frames) /\ Len(<<>>) <= PrerollMax
      BY VoiceLinkAssumption
    <3>. QED  BY <1>1, <2>2, <2>3, <3>1, PushedFrame
  <2>5. outgoing' \in Seq(Frames) /\ Len(outgoing') <= QueueMax
    BY <1>1, <2>2, <2>3, QueuedFrame
  <2>. QED  BY <1>2, <2>2, <2>3, <2>4, <2>5, StartersRest DEF RunCallback, TypeInv, TypeOK, DialsCounted
<1>3. CASE Heartbeat
  <2>1. outgoing' \in Seq(Frames) /\ Len(outgoing') <= QueueMax
    BY <1>1, <1>3, JsonFrame, QueuedFrame DEF Heartbeat
  <2>. QED  BY <1>3, <2>1, StartersRest DEF Heartbeat, TypeInv, TypeOK, DialsCounted
<1>4. CASE WriterTakes
  <2>1. outgoing # <<>> /\ outgoing' = Tail(outgoing) /\ sending' = <<Head(outgoing)>>
    BY <1>4 DEF WriterTakes
  <2>2. /\ Head(outgoing) \in Frames /\ outgoing' \in Seq(Frames)
        /\ Len(outgoing') = Len(outgoing) - 1
    BY <1>1, <2>1, TakenFrame
  <2>3. Len(outgoing') <= QueueMax
    BY <1>1, <2>2, VoiceLinkAssumption
  <2>4. sending' \in Seq(Frames) /\ Len(sending') <= 1
    BY <2>1, <2>2
  <2>. QED  BY <1>4, <2>2, <2>3, <2>4, StartersRest DEF WriterTakes, TypeInv, TypeOK, DialsCounted
<1>5. CASE WriterSends
  <2>1. wire' \in Seq(Frames)
    BY <1>1, <1>5, ConcatProperties DEF WriterSends
  <2>2. sending' \in Seq(Frames) /\ Len(sending') <= 1
    BY <1>5 DEF WriterSends
  <2>. QED  BY <1>5, <2>1, <2>2, StartersRest DEF WriterSends, TypeInv, TypeOK, DialsCounted
<1>. QED  BY <1>2, <1>3, <1>4, <1>5

\* What the server sends.
LEMMA ServerType ==
  ASSUME TypeInv, Accept \/ Refuse \/ RunStart \/ VadEnd \/ PlayUrl \/ RunEnd
  PROVE  TypeInv'
<1>. USE DEF linkVars, queueVars, serverVars, runVars, voiceVars, historyVars
<1>1. <<>> \in Seq(Frames) /\ Len(<<>>) <= PrerollMax
  BY VoiceLinkAssumption
<1>2. CASE Accept
  <2>1. outgoing' \in Seq(Frames) /\ Len(outgoing') <= QueueMax
    BY <1>2, FlushedFrames DEF TypeInv, TypeOK, DialsCounted
  <2>2. /\ answered' = answered + 1 /\ accepted' = accepted + 1
        /\ pending' = FALSE /\ preroll' = <<>>
    BY <1>2 DEF Accept, Answers
  <2>3. UNCHANGED <<linkVars, posted, sending, wire, running, voiceVars, historyVars>>
    BY <1>2 DEF Accept
  <2>4. answered' \in Nat
    BY <2>2 DEF TypeInv, TypeOK
  <2>5. accepted' \in Nat
    BY <2>2 DEF TypeInv, TypeOK
  <2>. QED  BY <1>1, <2>1, <2>2, <2>3, <2>4, <2>5, StartersRest DEF TypeInv, TypeOK, DialsCounted
<1>3. CASE Refuse
  <2>1. session' \in 0..sessions'
    BY <1>3, Counted DEF Refuse
  <2>2. answered' \in Nat /\ pending' = FALSE /\ pipeline' = FALSE
    BY <1>3 DEF Refuse, Answers, FreePipeline, StopWaiting, TypeInv, TypeOK
  <2>. HIDE DEF serverVars
  <2>. QED  BY <1>1, <1>3, <2>1, <2>2, StartersRest DEF Refuse, TypeInv, TypeOK, DialsCounted
<1>4. CASE RunStart
  <2>1. accepted' \in Nat /\ running' \in Nat
    BY <1>4 DEF RunStart, TypeInv, TypeOK
  <2>. QED  BY <1>4, <2>1, StartersRest DEF RunStart, TypeInv, TypeOK, DialsCounted
<1>5. CASE VadEnd
  BY <1>5, StartersRest DEF VadEnd, TypeInv, TypeOK, DialsCounted
<1>6. CASE PlayUrl
  BY <1>6, StartersRest DEF PlayUrl, TypeInv, TypeOK, DialsCounted
<1>7. CASE RunEnd /\ Answering
  <2>1. running' \in Nat
    BY <1>7 DEF RunEnd, TypeInv, TypeOK
  <2>. QED  BY <1>7, <2>1, StartersRest DEF RunEnd, TypeInv, TypeOK, DialsCounted
<1>8. CASE RunEnd /\ ~Answering
  <2>1. running' \in Nat /\ TtsFinished
    BY <1>8 DEF RunEnd, TypeInv, TypeOK
  <2>. QED  BY <1>8, <2>1, TtsFinishedType DEF RunEnd, TypeInv, TypeOK, DialsCounted
<1>. QED  BY <1>2, <1>3, <1>4, <1>5, <1>6, <1>7, <1>8

\* The connection.
LEMMA ConnectionType ==
  ASSUME TypeInv, Dial \/ Connect \/ Close \/ MarkDisconnected
  PROVE  TypeInv'
<1>. USE DEF linkVars, queueVars, serverVars, runVars, voiceVars, historyVars
<1>1. <<>> \in Seq(Frames) /\ Len(<<>>) <= PrerollMax /\ Len(<<>>) <= QueueMax /\ Len(<<>>) <= 1
  BY VoiceLinkAssumption
<1>2. CASE Dial
  <2>1. connections' < MaxConnections /\ posted' = posted
    BY <1>2 DEF Dial
  <2>. QED  BY <1>1, <1>2, <2>1, StartersRest
            DEF Dial, ClearOutgoing, TypeInv, TypeOK, DialsCounted
<1>3. CASE Connect
  <2>1. connections' \in 0..MaxConnections
    BY <1>3, VoiceLinkAssumption DEF Connect, TypeInv, TypeOK, DialsCounted
  <2>. QED  BY <1>3, <2>1, StartersRest DEF Connect, TypeInv, TypeOK, DialsCounted
<1>4. CASE Close
  BY <1>1, <1>4, StartersRest DEF Close, TypeInv, TypeOK, DialsCounted
<1>5. CASE MarkDisconnected
  <2>1. session' \in 0..sessions' /\ earlier' \in 0..sessions'
    BY <1>5, Counted DEF MarkDisconnected
  <2>. QED  BY <1>1, <1>5, <2>1, StartersRest DEF MarkDisconnected, ClearOutgoing, TypeInv, TypeOK, DialsCounted
<1>. QED  BY <1>2, <1>3, <1>4, <1>5

\* Every step keeps the types.
LEMMA TypeStep ==
  ASSUME TypeInv, [Next]_vars
  PROVE  TypeInv'
<1>1. CASE Next
  BY <1>1, StarterType, ThreadType, LoopType, ServerType, ConnectionType DEF Next
<1>2. CASE UNCHANGED vars
  BY <1>2 DEF vars, linkVars, queueVars, serverVars, runVars, voiceVars, historyVars,
              TypeInv, TypeOK, StartsCounted, DialsCounted, ToSend
<1>. QED  BY <1>1, <1>2

-----------------------------------------------------------------------------
(* Which connection a frame belongs to.                                    *)

\* A step that touches no frame.
LEMMA OriginKept ==
  ASSUME OriginInv, UNCHANGED <<link, posted, queueVars, wire, answered, session, earlier>>
  PROVE  OriginInv'
<1>1. OurFrames' = OurFrames
  BY DEF OurFrames
<1>. QED  BY <1>1 DEF OriginInv, OfflineIsEmpty, OursOnly, Connected, queueVars

\* A frame of this connection is posted, without a connection one that is no voice.
LEMMA OriginPosted ==
  ASSUME TypeInv, OriginInv, UNCHANGED <<link, queueVars, wire, answered, earlier>>,
         NEW frame \in OurFrames, posted' \in {posted, Append(posted, frame)},
         Connected \/ frame.session = 0,
         session' = session \/ (Connected /\ session' > earlier)
  PROVE  OriginInv'
<1>. DEFINE Silent == {f \in Frames : f.session = 0}
<1>1. OurFrames' = OurFrames /\ Connected' = Connected
  BY DEF OurFrames, Connected
<1>2. Connected => posted' \in Seq(OurFrames)
  <2>1. Connected => posted \in Seq(OurFrames)
    BY DEF OriginInv, OursOnly
  <2>. QED  BY <2>1, AddedFrame
<1>3. link = "hello" => posted' \in Seq(Silent)
  <2>1. SUFFICES ASSUME link = "hello" PROVE posted' \in Seq(Silent)
    OBVIOUS
  <2>2. posted \in Seq(Silent)
    BY <2>1 DEF OriginInv, OursOnly
  <2>3. frame \in Silent
    BY <2>1 DEF Connected, OurFrames
  <2>. HIDE DEF Silent
  <2>. QED  BY <2>2, <2>3, AddedFrame
<1>4. OfflineIsEmpty'
  BY <1>1 DEF OriginInv, OfflineIsEmpty, queueVars
<1>5. OursOnly'
  BY <1>1, <1>2, <1>3 DEF OriginInv, OursOnly, queueVars
<1>. QED  BY <1>4, <1>5 DEF OriginInv

\* A frame that is no voice belongs to every connection.
LEMMA JsonIsOurs == Json \in OurFrames
  BY JsonFrame DEF OurFrames, Json

\* The threads of the satellite.
LEMMA ThreadOrigin ==
  ASSUME TypeInv, OriginInv, TypeInv',
         \/ Wake \/ Record \/ Submit \/ ResponseOver \/ Stop \/ Mute \/ Unmute
         \/ \E t \in Starters : SendStart(t) \/ MarkStreaming(t)
  PROVE  OriginInv'
<1>. USE DEF linkVars, queueVars, serverVars, runVars, historyVars, voiceVars
<1>1. CASE Wake
  BY <1>1, OriginKept DEF Wake
<1>2. CASE Record
  <2>1. Audio \in Frames
    <3>1. sessions + chunks + 1 \in 1..(MaxStarts + MaxChunks) /\ session \in 0..MaxStarts
      BY <1>2, Counted DEF Record
    <3>. QED  BY <3>1 DEF Audio, Frames, Sessions
  <2>2. Audio \in OurFrames
    BY <2>1 DEF Audio, OurFrames, OriginInv, OursOnly
  <2>3. posted' = Append(posted, Audio) /\ Connected /\ session' = session
    BY <1>2 DEF Record, Post
  <2>. QED  BY <1>2, <2>2, <2>3, OriginPosted DEF Record
<1>3. CASE Submit
  <2>1. posted' = Append(posted, Json) /\ Json.session = 0
    BY <1>3 DEF Submit, Post, Json
  <2>. QED  BY <1>3, <2>1, JsonIsOurs, OriginPosted DEF Submit
<1>4. CASE ResponseOver \/ Stop \/ Mute
  <2>1. posted' \in {posted, Append(posted, Json)} /\ Json.session = 0
    BY <1>4 DEF ResponseOver, Stop, Mute, TtsFinished, Post, Json
  <2>2. UNCHANGED <<link, queueVars, wire, answered, earlier, session>>
    BY <1>4 DEF ResponseOver, Stop, Mute
  <2>. QED  BY <2>1, <2>2, JsonIsOurs, OriginPosted
<1>5. CASE Unmute
  BY <1>5, OriginKept DEF Unmute
<1>6. ASSUME NEW t \in Starters, SendStart(t) PROVE OriginInv'
  <2>1. CASE UNCHANGED <<posted, sessions, session>>
    BY <1>6, <2>1, OriginKept DEF SendStart
  <2>2. CASE /\ Connected /\ posted' = Append(posted, Start(sessions + 1))
             /\ sessions' = sessions + 1 /\ session' = sessions + 1
    <3>1. sessions \in Nat /\ sessions' <= MaxStarts /\ earlier <= sessions /\ earlier \in Nat
      <4>1. TypeInv' => sessions' <= begun' /\ begun' <= MaxStarts /\ begun' \in Nat
                        /\ sessions' \in Nat /\ MaxStarts \in Nat
        BY VoiceLinkAssumption DEF TypeInv, TypeOK
      <4>. QED  BY <4>1, Counted
    <3>2. Start(sessions + 1) \in Frames
      <4>1. sessions + chunks + 1 \in 1..(MaxStarts + MaxChunks) /\ sessions + 1 \in 0..MaxStarts
        BY <2>2, <3>1, Counted
      <4>. QED  BY <4>1 DEF Start, Frames, Sessions
    <3>3. Start(sessions + 1) \in OurFrames
      BY <3>1, <3>2 DEF OurFrames, Start
    <3>4. session' > earlier
      BY <2>2, <3>1
    <3>5. UNCHANGED <<link, queueVars, wire, answered, earlier>>
      BY <1>6 DEF SendStart
    <3>. QED  BY <2>2, <3>3, <3>4, <3>5, OriginPosted
  <2>. QED  BY <1>6, <2>1, <2>2 DEF SendStart, Post
<1>7. ASSUME NEW t \in Starters, MarkStreaming(t) PROVE OriginInv'
  BY <1>7, OriginKept DEF MarkStreaming
<1>. QED  BY <1>1, <1>2, <1>3, <1>4, <1>5, <1>6, <1>7

\* The event loop and the writer.
LEMMA LoopOrigin ==
  ASSUME TypeInv, OriginInv, RunCallback \/ Heartbeat \/ WriterTakes \/ WriterSends
  PROVE  OriginInv'
<1>. USE DEF linkVars, queueVars, serverVars, runVars, historyVars, voiceVars
<1>1. OurFrames' = OurFrames /\ Connected' = Connected /\ session' = session
      /\ link' = link /\ earlier' = earlier /\ answered' = answered
  BY DEF RunCallback, Heartbeat, WriterTakes, WriterSends, OurFrames, Connected
<1>2. /\ posted \in Seq(Frames) /\ Len(preroll) <= PrerollMax /\ Len(outgoing) <= QueueMax
      /\ preroll \in Seq(OurFrames) /\ outgoing \in Seq(OurFrames)
      /\ sending \in Seq(OurFrames) /\ wire \in Seq(OurFrames)
  BY DEF TypeInv, TypeOK, OriginInv, OursOnly
<1>3. CASE RunCallback
  <2>. DEFINE frame == Head(posted)
              Silent == {f \in Frames : f.session = 0}
  <2>1. posted # <<>> /\ posted' = Tail(posted)
    BY <1>3 DEF RunCallback
  <2>2. CASE ~Connected
    <3>1. link = "hello" => posted' \in Seq(Silent)
      <4>1. link = "hello" => posted \in Seq(Silent)
        BY DEF OriginInv, OursOnly
      <4>. HIDE DEF Silent
      <4>. QED  BY <4>1, <2>1, TakenFrame
    <3>2. UNCHANGED <<pending, preroll, outgoing, sending, wire>>
      BY <1>3, <2>2 DEF RunCallback
    <3>. QED  BY <1>1, <2>2, <3>1, <3>2 DEF OriginInv, OfflineIsEmpty, OursOnly
  <2>3. CASE Connected
    <3>1. posted \in Seq(OurFrames)
      BY <2>3 DEF OriginInv, OursOnly
    <3>2. frame \in OurFrames /\ posted' \in Seq(OurFrames)
      BY <2>1, <3>1, TakenFrame
    <3>3. /\ preroll' \in {preroll, <<>>, PushPreroll(frame)}
          /\ QueueFrame(frame) \/ UNCHANGED outgoing
          /\ UNCHANGED <<sending, wire>>
      BY <1>3, <2>3 DEF RunCallback, FreshPreroll
    <3>. HIDE DEF frame
    <3>4. <<>> \in Seq(OurFrames)
      OBVIOUS
    <3>5. preroll' \in Seq(OurFrames)
      BY <1>2, <3>2, <3>3, <3>4, PushedFrame
    <3>6. outgoing' \in Seq(OurFrames)
      BY <1>2, <3>2, <3>3, QueuedFrame
    <3>7. link # "hello"
      BY <2>3 DEF Connected
    <3>8. OursOnly'
      BY <1>1, <1>2, <3>2, <3>3, <3>5, <3>6, <3>7 DEF OriginInv, OursOnly
    <3>. QED  BY <1>1, <2>3, <3>3, <3>8 DEF OriginInv, OfflineIsEmpty
  <2>. QED  BY <2>2, <2>3
<1>4. CASE Heartbeat
  <2>1. outgoing' \in Seq(OurFrames)
    BY <1>2, <1>4, JsonIsOurs, QueuedFrame DEF Heartbeat
  <2>. QED  BY <1>1, <1>2, <1>4, <2>1
            DEF Heartbeat, OriginInv, OfflineIsEmpty, OursOnly, Connected
<1>5. CASE WriterTakes
  <2>1. outgoing # <<>> /\ outgoing' = Tail(outgoing) /\ sending' = <<Head(outgoing)>>
    BY <1>5 DEF WriterTakes
  <2>2. Head(outgoing) \in OurFrames /\ outgoing' \in Seq(OurFrames)
    BY <1>2, <2>1, TakenFrame
  <2>3. sending' \in Seq(OurFrames)
    BY <2>1, <2>2
  <2>. QED  BY <1>1, <1>2, <1>5, <2>2, <2>3
            DEF WriterTakes, OriginInv, OfflineIsEmpty, OursOnly, Connected
<1>6. CASE WriterSends
  <2>1. wire' \in Seq(OurFrames)
    BY <1>2, <1>6, ConcatProperties DEF WriterSends
  <2>2. sending' = <<>> /\ <<>> \in Seq(OurFrames)
    BY <1>6 DEF WriterSends
  <2>3. link = "up"
    BY <1>6 DEF WriterSends, OriginInv, OfflineIsEmpty
  <2>. QED  BY <1>1, <1>2, <1>6, <2>1, <2>2, <2>3
            DEF WriterSends, OriginInv, OfflineIsEmpty, OursOnly, Connected
<1>. QED  BY <1>3, <1>4, <1>5, <1>6

\* What the server sends: only a session ends.
LEMMA ServerOrigin ==
  ASSUME TypeInv, OriginInv, Accept \/ Refuse \/ RunStart \/ VadEnd \/ PlayUrl \/ RunEnd
  PROVE  OriginInv'
<1>. USE DEF linkVars, queueVars, serverVars, runVars, historyVars, voiceVars
<1>1. <<>> \in Seq(OurFrames)
  OBVIOUS
<1>2. CASE Accept
  <2>1. outgoing' \in Seq(OurFrames)
    BY <1>2, FlushedFrames DEF TypeInv, TypeOK, OriginInv, OursOnly
  <2>2. /\ link = "up" /\ preroll' = <<>>
        /\ UNCHANGED <<linkVars, posted, sending, wire, session, earlier>>
    BY <1>2 DEF Accept, Answers
  <2>3. OurFrames' = OurFrames
    BY <2>2 DEF OurFrames
  <2>. QED  BY <1>1, <2>1, <2>2, <2>3 DEF OriginInv, OfflineIsEmpty, OursOnly, Connected
<1>3. CASE Refuse
  <2>1. /\ link = "up" /\ preroll' = <<>> /\ session' = 0
        /\ UNCHANGED <<linkVars, posted, outgoing, sending, wire, earlier>>
    BY <1>3 DEF Refuse, Answers
  <2>2. OurFrames' = OurFrames
    BY <2>1 DEF OurFrames
  <2>. QED  BY <1>1, <2>1, <2>2 DEF OriginInv, OfflineIsEmpty, OursOnly, Connected
<1>4. CASE RunStart \/ VadEnd \/ PlayUrl
  BY <1>4, OriginKept DEF RunStart, VadEnd, PlayUrl
<1>5. CASE RunEnd
  <2>1. posted' \in {posted, Append(posted, Json)} /\ Json.session = 0
    BY <1>5 DEF RunEnd, TtsFinished, Post, Json
  <2>2. UNCHANGED <<link, queueVars, wire, answered, earlier, session>>
    BY <1>5 DEF RunEnd
  <2>. QED  BY <2>1, <2>2, JsonIsOurs, OriginPosted
<1>. QED  BY <1>2, <1>3, <1>4, <1>5

\* The connection: its end empties everything but the callbacks, and the next
\* one is not tried before those are gone.
LEMMA ConnectionOrigin ==
  ASSUME TypeInv, OriginInv, Dial \/ Connect \/ Close \/ MarkDisconnected
  PROVE  OriginInv'
<1>. USE DEF linkVars, queueVars, serverVars, runVars, historyVars, voiceVars
<1>. DEFINE Silent == {f \in Frames : f.session = 0}
<1>1. <<>> \in Seq(OurFrames') /\ <<>> \in Seq(Silent)
  OBVIOUS
<1>2. CASE Dial
  <2>1. OurFrames' = OurFrames /\ posted' = <<>> /\ outgoing' = <<>> /\ link' = "hello"
        /\ link = "down"
    BY <1>2 DEF Dial, OurFrames, ClearOutgoing
  <2>. QED  BY <1>1, <1>2, <2>1 DEF Dial, OriginInv, OfflineIsEmpty, OursOnly, Connected
<1>3. CASE Connect
  <2>1. OurFrames' = OurFrames
    BY <1>3 DEF Connect, OurFrames
  <2>2. Silent \subseteq OurFrames
    BY DEF OurFrames
  <2>3. posted' \in Seq(OurFrames)
    <3>1. posted \in Seq(Silent) /\ posted' = posted
      BY <1>3 DEF Connect, OriginInv, OursOnly
    <3>. HIDE DEF Silent
    <3>. QED  BY <2>2, <3>1
  <2>. QED  BY <1>3, <2>1, <2>3 DEF Connect, OriginInv, OfflineIsEmpty, OursOnly, Connected
<1>4. CASE Close
  <2>1. OurFrames' = OurFrames
    BY <1>4 DEF Close, OurFrames
  <2>. QED  BY <1>1, <1>4, <2>1 DEF Close, OriginInv, OfflineIsEmpty, OursOnly, Connected
<1>5. CASE MarkDisconnected
  <2>1. /\ link' = "down" /\ ~pending' /\ preroll' = <<>> /\ outgoing' = <<>> /\ wire' = <<>>
        /\ answered' = 0 /\ sending' = sending /\ link # "up"
    BY <1>5 DEF MarkDisconnected, ClearOutgoing
  <2>2. sending' = <<>>
    BY <2>1 DEF OriginInv, OfflineIsEmpty
  <2>3. session' = 0
    BY <1>5 DEF MarkDisconnected, OriginInv, OfflineIsEmpty
  <2>4. ~Connected' /\ link' # "hello"
    BY <2>1 DEF Connected
  <2>. QED  BY <1>1, <2>1, <2>2, <2>3, <2>4 DEF OriginInv, OfflineIsEmpty, OursOnly
<1>. QED  BY <1>2, <1>3, <1>4, <1>5

\* Every step keeps the connections of the frames.
LEMMA OriginStep ==
  ASSUME TypeInv, OriginInv, TypeInv', [Next]_vars
  PROVE  OriginInv'
<1>1. CASE Next
  BY <1>1, ThreadOrigin, LoopOrigin, ServerOrigin, ConnectionOrigin DEF Next
<1>2. CASE UNCHANGED vars
  BY <1>2, OriginKept DEF vars, linkVars, serverVars, historyVars
<1>. QED  BY <1>1, <1>2

-----------------------------------------------------------------------------
(* No audio before the answer.                                             *)

\* A step that touches no frame.
LEMMA HeldKept ==
  ASSUME HeldInv, UNCHANGED <<link, posted, queueVars, wire, answered, session>>
  PROVE  HeldInv'
  BY DEF HeldInv, StartComesFirst, ReleasedOnly, Released, StartBefore, Connected, queueVars

\* A frame is posted: it starts a session, or is no voice of another one.
LEMMA HeldPosted ==
  ASSUME TypeInv, HeldInv, UNCHANGED <<link, queueVars, wire, answered>>,
         NEW frame \in Frames, posted' = Append(posted, frame),
         frame.kind = "start" \/ session' = session,
         frame.kind = "audio" => frame.session = session
  PROVE  HeldInv'
<1>1. /\ posted \in Seq(Frames) /\ Len(posted) \in Nat /\ Len(posted') = Len(posted) + 1
      /\ \A i \in 1..Len(posted) : posted'[i] = posted[i]
      /\ posted'[Len(posted) + 1] = frame
  <2>1. posted \in Seq(Frames)
    BY DEF TypeInv, TypeOK
  <2>. QED  BY <2>1, AddedFrame
<1>2. ReleasedOnly'
  BY DEF HeldInv, ReleasedOnly, Released, queueVars
<1>3. StartComesFirst'
  <2>1. SUFFICES ASSUME Connected, ~pending, answered = 0
                 PROVE  /\ session' # 0 => StartBefore(Len(posted) + 1)'
                        /\ \A i \in DOMAIN posted' :
                             posted'[i].kind = "audio" /\ posted'[i].session # 0
                             => StartBefore(i)'
    BY DEF StartComesFirst, Connected, queueVars
  <2>2. /\ session # 0 => StartBefore(Len(posted) + 1)
        /\ \A i \in DOMAIN posted :
             posted[i].kind = "audio" /\ posted[i].session # 0 => StartBefore(i)
    BY <2>1 DEF HeldInv, StartComesFirst
  <2>3. \A n \in 1..(Len(posted) + 1) : StartBefore(n) => StartBefore(n)'
    BY <1>1 DEF StartBefore
  <2>4. session' # 0 => StartBefore(Len(posted) + 1)'
    <3>1. SUFFICES ASSUME session' # 0
                   PROVE  \E j \in 1..(Len(posted) + 1) : posted'[j].kind = "start"
      BY <1>1 DEF StartBefore
    <3>2. CASE frame.kind = "start"
      BY <1>1, <3>2
    <3>3. CASE session' = session
      <4>1. PICK j \in 1..Len(posted) : posted[j].kind = "start"
        BY <1>1, <2>2, <3>1, <3>3 DEF StartBefore
      <4>. QED  BY <1>1, <4>1
    <3>. QED  BY <3>2, <3>3
  <2>5. ASSUME NEW i \in DOMAIN posted', posted'[i].kind = "audio", posted'[i].session # 0
        PROVE  StartBefore(i)'
    <3>1. i \in 1..(Len(posted) + 1)
      BY <1>1
    <3>2. CASE i \in 1..Len(posted)
      BY <1>1, <2>2, <2>3, <2>5, <3>1, <3>2
    <3>3. CASE i = Len(posted) + 1
      BY <1>1, <2>2, <2>3, <2>5, <3>3
    <3>. QED  BY <3>1, <3>2, <3>3
  <2>. QED  BY <2>4, <2>5
<1>. QED  BY <1>2, <1>3 DEF HeldInv

\* Json is no voice.
LEMMA HeldJson ==
  ASSUME TypeInv, HeldInv, UNCHANGED <<link, queueVars, wire, answered, session>>,
         posted' \in {posted, Append(posted, Json)}
  PROVE  HeldInv'
<1>1. CASE posted' = posted
  BY <1>1, HeldKept
<1>2. CASE posted' = Append(posted, Json)
  <2>1. Json \in Frames /\ Json.kind = "json"
    BY JsonFrame DEF Json
  <2>. QED  BY <1>2, <2>1, HeldPosted
<1>. QED  BY <1>1, <1>2

\* The threads of the satellite.
LEMMA ThreadHeld ==
  ASSUME TypeInv, HeldInv, TypeInv',
         \/ Wake \/ Record \/ Submit \/ ResponseOver \/ Stop \/ Mute \/ Unmute
         \/ \E t \in Starters : SendStart(t) \/ MarkStreaming(t)
  PROVE  HeldInv'
<1>. USE DEF linkVars, queueVars, serverVars, runVars, historyVars, voiceVars
<1>1. CASE Wake \/ Unmute
  BY <1>1, HeldKept DEF Wake, Unmute
<1>2. CASE Record
  <2>1. Audio \in Frames
    <3>1. sessions + chunks + 1 \in 1..(MaxStarts + MaxChunks) /\ session \in 0..MaxStarts
      BY <1>2, Counted DEF Record
    <3>. QED  BY <3>1 DEF Audio, Frames, Sessions
  <2>2. /\ posted' = Append(posted, Audio) /\ Audio.session = session /\ session' = session
        /\ UNCHANGED <<link, queueVars, wire, answered>>
    BY <1>2 DEF Record, Post, Audio
  <2>. QED  BY <2>1, <2>2, HeldPosted
<1>3. CASE Submit
  BY <1>3, HeldJson DEF Submit, Post
<1>4. CASE ResponseOver \/ Stop \/ Mute
  <2>1. posted' \in {posted, Append(posted, Json)}
    BY <1>4 DEF ResponseOver, Stop, Mute, TtsFinished, Post
  <2>2. UNCHANGED <<link, queueVars, wire, answered, session>>
    BY <1>4 DEF ResponseOver, Stop, Mute
  <2>. QED  BY <2>1, <2>2, HeldJson
<1>5. ASSUME NEW t \in Starters, SendStart(t) PROVE HeldInv'
  <2>1. CASE UNCHANGED <<posted, sessions, session>>
    BY <1>5, <2>1, HeldKept DEF SendStart
  <2>2. CASE /\ posted' = Append(posted, Start(sessions + 1))
             /\ sessions' = sessions + 1 /\ session' = sessions + 1
    <3>1. Start(sessions + 1) \in Frames
      <4>1. TypeInv' => sessions' <= begun' /\ begun' <= MaxStarts /\ begun' \in Nat
                        /\ sessions' \in Nat /\ MaxStarts \in Nat
        BY VoiceLinkAssumption DEF TypeInv, TypeOK
      <4>2. sessions + chunks + 1 \in 1..(MaxStarts + MaxChunks) /\ sessions + 1 \in 0..MaxStarts
        BY <2>2, <4>1, Counted
      <4>. QED  BY <4>2 DEF Start, Frames, Sessions
    <3>2. Start(sessions + 1).kind = "start"
      BY DEF Start
    <3>3. UNCHANGED <<link, queueVars, wire, answered>>
      BY <1>5 DEF SendStart
    <3>. QED  BY <2>2, <3>1, <3>2, <3>3, HeldPosted
  <2>. QED  BY <1>5, <2>1, <2>2 DEF SendStart, Post
<1>6. ASSUME NEW t \in Starters, MarkStreaming(t) PROVE HeldInv'
  BY <1>6, HeldKept DEF MarkStreaming
<1>. QED  BY <1>1, <1>2, <1>3, <1>4, <1>5, <1>6

\* Audio that the loop may queue comes after a start that it has run already: the
\* server has answered it.
LEMMA LoopHeld ==
  ASSUME TypeInv, HeldInv, OriginInv, RunCallback \/ Heartbeat \/ WriterTakes \/ WriterSends
  PROVE  HeldInv'
<1>. USE DEF linkVars, queueVars, serverVars, runVars, historyVars, voiceVars
<1>1. Released' = Released /\ Connected' = Connected /\ session' = session
      /\ link' = link /\ answered' = answered
  BY DEF RunCallback, Heartbeat, WriterTakes, WriterSends, Released, Connected
<1>2. /\ posted \in Seq(Frames) /\ Len(outgoing) <= QueueMax
      /\ outgoing \in Seq(Released) /\ sending \in Seq(Released) /\ wire \in Seq(Released)
  BY DEF TypeInv, TypeOK, HeldInv, ReleasedOnly
<1>3. CASE RunCallback
  <2>. DEFINE frame == Head(posted)
  <2>1. posted # <<>> /\ posted' = Tail(posted)
    BY <1>3 DEF RunCallback
  <2>2. /\ frame \in Frames /\ frame = posted[1] /\ posted' \in Seq(Frames)
        /\ Len(posted) \in Nat /\ Len(posted) >= 1
        /\ Len(posted') = Len(posted) - 1 /\ DOMAIN posted' = 1..(Len(posted) - 1)
        /\ DOMAIN posted = 1..Len(posted)
        /\ \A i \in 1..(Len(posted) - 1) : posted'[i] = posted[i + 1]
    BY <1>2, <2>1, TakenFrame
  <2>. HIDE DEF frame
  <2>3. StartComesFirst'
    <3>1. SUFFICES ASSUME Connected, ~pending', answered = 0
                   PROVE  /\ session # 0 => StartBefore(Len(posted) + 1)'
                          /\ \A i \in DOMAIN posted' :
                               posted'[i].kind = "audio" /\ posted'[i].session # 0
                               => StartBefore(i)'
      BY <1>1 DEF StartComesFirst
    <3>2. frame.kind # "start" /\ ~pending
      BY <1>3, <3>1 DEF RunCallback, AwaitAnswer, frame
    <3>3. /\ session # 0 => StartBefore(Len(posted) + 1)
          /\ \A i \in DOMAIN posted :
               posted[i].kind = "audio" /\ posted[i].session # 0 => StartBefore(i)
      BY <3>1, <3>2 DEF HeldInv, StartComesFirst
    <3>4. ASSUME NEW n \in 1..Len(posted), StartBefore(n + 1)
          PROVE  \E j \in 1..(n - 1) : posted'[j].kind = "start"
      <4>1. PICK j \in 1..n : posted[j].kind = "start"
        BY <3>4 DEF StartBefore
      <4>2. j # 1
        BY <2>2, <3>2, <4>1
      <4>3. j - 1 \in 1..(n - 1) /\ j - 1 \in 1..(Len(posted) - 1) /\ (j - 1) + 1 = j
        BY <2>2, <4>2
      <4>4. posted'[j - 1] = posted[j]
        BY <2>2, <4>3
      <4>. QED  BY <4>1, <4>3, <4>4
    <3>5. session # 0 => StartBefore(Len(posted) + 1)'
      BY <2>2, <3>3, <3>4 DEF StartBefore
    <3>6. ASSUME NEW i \in DOMAIN posted', posted'[i].kind = "audio", posted'[i].session # 0
          PROVE  StartBefore(i)'
      <4>1. i \in 1..(Len(posted) - 1) /\ i + 1 \in 1..Len(posted)
        BY <2>2
      <4>2. StartBefore(i + 1)
        BY <2>2, <3>3, <3>6, <4>1
      <4>. QED  BY <3>4, <4>1, <4>2, <2>2 DEF StartBefore
    <3>. QED  BY <3>5, <3>6
  <2>4. outgoing' \in Seq(Released)
    <3>1. CASE UNCHANGED outgoing
      BY <1>2, <3>1
    <3>2. CASE outgoing' # outgoing
      <4>1. Connected /\ QueueFrame(frame) /\ (frame.kind = "audio" => ~pending)
        BY <1>3, <3>2 DEF RunCallback, frame
      <4>2. frame.kind = "audio" /\ frame.session # 0 => answered > 0
        <5>1. SUFFICES ASSUME frame.kind = "audio", frame.session # 0, answered = 0
                       PROVE  FALSE
          BY DEF TypeInv, TypeOK
        <5>2. StartBefore(1)
          BY <2>2, <4>1, <5>1 DEF HeldInv, StartComesFirst
        <5>. QED  BY <5>2 DEF StartBefore
      <4>3. frame \in Released
        BY <2>2, <4>2 DEF Released
      <4>. QED  BY <1>2, <4>1, <4>3, QueuedFrame
    <3>. QED  BY <3>1, <3>2
  <2>5. UNCHANGED <<sending, wire>>
    BY <1>3 DEF RunCallback
  <2>. QED  BY <1>1, <1>2, <2>3, <2>4, <2>5 DEF HeldInv, ReleasedOnly
<1>4. CASE Heartbeat
  <2>1. Json \in Released
    BY JsonFrame DEF Released, Json
  <2>2. outgoing' \in Seq(Released)
    BY <1>2, <1>4, <2>1, QueuedFrame DEF Heartbeat
  <2>3. UNCHANGED <<posted, pending, sending, wire>>
    BY <1>4 DEF Heartbeat
  <2>. QED  BY <1>1, <1>2, <2>2, <2>3
            DEF HeldInv, ReleasedOnly, StartComesFirst, StartBefore
<1>5. CASE WriterTakes
  <2>1. outgoing # <<>> /\ outgoing' = Tail(outgoing) /\ sending' = <<Head(outgoing)>>
    BY <1>5 DEF WriterTakes
  <2>2. Head(outgoing) \in Released /\ outgoing' \in Seq(Released)
    BY <1>2, <2>1, TakenFrame
  <2>3. sending' \in Seq(Released)
    BY <2>1, <2>2
  <2>4. UNCHANGED <<posted, pending, wire>>
    BY <1>5 DEF WriterTakes
  <2>. QED  BY <1>1, <1>2, <2>2, <2>3, <2>4
            DEF HeldInv, ReleasedOnly, StartComesFirst, StartBefore
<1>6. CASE WriterSends
  <2>1. wire' \in Seq(Released)
    BY <1>2, <1>6, ConcatProperties DEF WriterSends
  <2>2. sending' \in Seq(Released) /\ UNCHANGED <<posted, pending, outgoing>>
    BY <1>6 DEF WriterSends
  <2>. QED  BY <1>1, <1>2, <2>1, <2>2
            DEF HeldInv, ReleasedOnly, StartComesFirst, StartBefore
<1>. QED  BY <1>3, <1>4, <1>5, <1>6

\* Once the server has answered, all audio may leave.
LEMMA AnswerReleases ==
  ASSUME TypeInv, Answers
  PROVE  Released' = Frames /\ answered' > 0
<1>1. answered' > 0
  BY DEF Answers, TypeInv, TypeOK
<1>. QED  BY <1>1 DEF Released

\* What the server sends.
LEMMA ServerHeld ==
  ASSUME TypeInv, HeldInv, TypeInv',
         Accept \/ Refuse \/ RunStart \/ VadEnd \/ PlayUrl \/ RunEnd
  PROVE  HeldInv'
<1>. USE DEF linkVars, queueVars, serverVars, runVars, historyVars, voiceVars
<1>1. CASE Accept \/ Refuse
  <2>1. Released' = Frames /\ answered' > 0
    BY <1>1, AnswerReleases DEF Accept, Refuse
  <2>2. answered' # 0
    BY <2>1 DEF TypeInv, TypeOK
  <2>3. outgoing' \in Seq(Frames) /\ sending' \in Seq(Frames) /\ wire' \in Seq(Frames)
    BY DEF TypeInv, TypeOK
  <2>. QED  BY <2>1, <2>2, <2>3 DEF HeldInv, StartComesFirst, ReleasedOnly
<1>2. CASE RunStart \/ VadEnd \/ PlayUrl
  BY <1>2, HeldKept DEF RunStart, VadEnd, PlayUrl
<1>3. CASE RunEnd
  <2>1. posted' \in {posted, Append(posted, Json)}
    BY <1>3 DEF RunEnd, TtsFinished, Post
  <2>2. UNCHANGED <<link, queueVars, wire, answered, session>>
    BY <1>3 DEF RunEnd
  <2>. QED  BY <2>1, <2>2, HeldJson
<1>. QED  BY <1>1, <1>2, <1>3

\* The connection: a new one finds only callbacks that are no voice.
LEMMA ConnectionHeld ==
  ASSUME TypeInv, OriginInv, HeldInv, Dial \/ Connect \/ Close \/ MarkDisconnected
  PROVE  HeldInv'
<1>. USE DEF linkVars, queueVars, serverVars, runVars, historyVars, voiceVars
<1>1. <<>> \in Seq(Released')
  OBVIOUS
<1>2. CASE Dial
  <2>1. /\ Released' = Released /\ ~Connected' /\ outgoing' = <<>>
        /\ UNCHANGED <<sending, wire>>
    BY <1>2 DEF Dial, Released, Connected, ClearOutgoing
  <2>. QED  BY <1>1, <2>1 DEF HeldInv, StartComesFirst, ReleasedOnly
<1>3. CASE Connect
  <2>1. Released' = Released /\ link = "hello" /\ ~Connected
        /\ UNCHANGED <<posted, queueVars, wire, session>>
    BY <1>3 DEF Connect, Released, Connected
  <2>2. session' = 0
    BY <2>1 DEF OriginInv, OfflineIsEmpty
  <2>3. posted' \in Seq({f \in Frames : f.session = 0})
    BY <2>1 DEF OriginInv, OursOnly
  <2>4. \A i \in DOMAIN posted' : posted'[i].session = 0
    BY <2>3
  <2>. QED  BY <2>1, <2>2, <2>4 DEF HeldInv, StartComesFirst, ReleasedOnly
<1>4. CASE Close
  <2>1. /\ Released' = Released /\ sending' = <<>> /\ Connected
        /\ UNCHANGED <<posted, pending, outgoing, wire, answered, session>>
    BY <1>4 DEF Close, Released, Connected
  <2>. QED  BY <1>1, <2>1 DEF HeldInv, StartComesFirst, ReleasedOnly, StartBefore
<1>5. CASE MarkDisconnected
  <2>1. /\ link' = "down" /\ outgoing' = <<>> /\ wire' = <<>> /\ sending' = sending
        /\ link # "up"
    BY <1>5 DEF MarkDisconnected, ClearOutgoing
  <2>2. sending' = <<>> /\ ~Connected'
    BY <2>1 DEF OriginInv, OfflineIsEmpty, Connected
  <2>. QED  BY <1>1, <2>1, <2>2 DEF HeldInv, StartComesFirst, ReleasedOnly
<1>. QED  BY <1>2, <1>3, <1>4, <1>5

\* Every step keeps audio back.
LEMMA HeldStep ==
  ASSUME TypeInv, OriginInv, HeldInv, TypeInv', [Next]_vars
  PROVE  HeldInv'
<1>1. CASE Next
  BY <1>1, ThreadHeld, LoopHeld, ServerHeld, ConnectionHeld DEF Next
<1>2. CASE UNCHANGED vars
  BY <1>2, HeldKept DEF vars, linkVars, serverVars, historyVars
<1>. QED  BY <1>1, <1>2

-----------------------------------------------------------------------------
(* The theorems.                                                           *)

\* A satellite that has not yet connected.
LEMMA InitInv == Init => Inv
<1>. SUFFICES ASSUME Init PROVE Inv
  OBVIOUS
<1>1. /\ posted = <<>> /\ preroll = <<>> /\ outgoing = <<>> /\ sending = <<>> /\ wire = <<>>
      /\ link = "down" /\ session = 0 /\ answered = 0 /\ ~pending
  BY DEF Init
<1>2. TypeInv
  <2>1. StartsCounted
    BY DEF Init, StartsCounted, ToSend, Starters
  <2>2. /\ <<>> \in Seq(Frames) /\ Len(<<>>) = 0
        /\ Len(<<>>) <= QueueMax /\ Len(<<>>) <= PrerollMax /\ Len(<<>>) <= 1
    BY VoiceLinkAssumption
  <2>3. 0 \in 0..MaxStarts /\ 0 \in 0..MaxChunks /\ 0 \in 0..MaxConnections /\ 0 \in 0..0
    BY VoiceLinkAssumption
  <2>4. starting \in [Starters -> {"idle", "send", "mark"}]
    BY DEF Init
  <2>5. TypeOK
    BY <2>2, <2>3, <2>4 DEF Init, TypeOK
  <2>. QED  BY <2>1, <2>5 DEF Init, TypeInv, DialsCounted
<1>3. OriginInv
  BY <1>1 DEF OriginInv, OfflineIsEmpty, OursOnly, Connected
<1>4. HeldInv
  BY <1>1 DEF HeldInv, StartComesFirst, ReleasedOnly, Connected
<1>. QED  BY <1>2, <1>3, <1>4 DEF Inv

\* The inductive invariant.
LEMMA InvAlways == Spec => []Inv
<1>1. Inv /\ [Next]_vars => Inv'
  BY TypeStep, OriginStep, HeldStep DEF Inv
<1>. QED  BY <1>1, InitInv, PTL DEF Spec

\* The types and limits of VoiceLink: the pre-roll and the queue keep within
\* VOICE_PREROLL_MAX_CHUNKS and OUTGOING_QUEUE_MAX, at any of their values.
THEOREM TypesAlways == Spec => []TypeOK
<1>1. Inv => TypeOK
  BY DEF Inv, TypeInv
<1>. QED  BY <1>1, InvAlways, PTL

\* Nothing recorded for an earlier connection is ever on a new one
\* (_mark_disconnected, run_forever).
THEOREM NothingOfLastAlways == Spec => []NothingOfLastConnection
<1>1. Inv => NothingOfLastConnection
  <2>1. SUFFICES ASSUME OursOnly,
                        NEW frames \in {preroll, outgoing, sending, wire},
                        NEW i \in DOMAIN frames, frames[i].session # 0
                 PROVE  frames[i].session > earlier
    BY DEF Inv, OriginInv, NothingOfLastConnection
  <2>2. frames \in Seq(OurFrames)
    BY <2>1 DEF OursOnly
  <2>3. frames[i] \in OurFrames
    BY <2>2
  <2>4. \A f \in OurFrames : f.session # 0 => f.session > earlier
    BY DEF OurFrames
  <2>. QED  BY <2>1, <2>3, <2>4
<1>. QED  BY <1>1, InvAlways, PTL

\* No audio leaves the satellite before the server has answered a start of this
\* connection (_queue_protocol_message, _voice_start_pending).
THEOREM HeldAlways == Spec => []HeldUntilAnswered
<1>1. Inv => HeldUntilAnswered
  <2>1. SUFFICES ASSUME ReleasedOnly,
                        NEW frames \in {outgoing, sending, wire}, NEW i \in DOMAIN frames,
                        frames[i].kind = "audio", frames[i].session # 0
                 PROVE  answered > 0
    BY DEF Inv, HeldInv, HeldUntilAnswered
  <2>2. frames \in Seq(Released)
    BY <2>1 DEF ReleasedOnly
  <2>3. frames[i] \in Released
    BY <2>2
  <2>. QED  BY <2>1, <2>3 DEF Released
<1>. QED  BY <1>1, InvAlways, PTL

-----------------------------------------------------------------------------
(***************************************************************************)
(* Starts and audio keep their order on the way from the microphone to the *)
(* server, for queues and pre-rolls of any size.                           *)
(*                                                                         *)
(* The five places a frame can be in form a line: what the server got,     *)
(* what the writer holds, the queue, the pre-roll, and the callbacks of    *)
(* the loop.  Each is sorted by age, and whatever is ahead is older.       *)
(***************************************************************************)

\* Other frames than those of the voice have no age and keep no order.
Voice(q) == {q[i] : i \in {k \in DOMAIN q : q[k].age # 0}}

Sorted(q) == \A i, j \in DOMAIN q : i < j /\ q[i].age # 0 /\ q[j].age # 0 => q[i].age < q[j].age

Before(F, G) == \A f \in F, g \in G : f.age < g.age

AllSorted == Sorted(wire) /\ Sorted(sending) /\ Sorted(outgoing) /\ Sorted(preroll) /\ Sorted(posted)

InLine ==
  /\ Before(Voice(wire), Voice(sending)) /\ Before(Voice(wire), Voice(outgoing))
  /\ Before(Voice(wire), Voice(preroll)) /\ Before(Voice(wire), Voice(posted))
  /\ Before(Voice(sending), Voice(outgoing)) /\ Before(Voice(sending), Voice(preroll))
  /\ Before(Voice(sending), Voice(posted))
  /\ Before(Voice(outgoing), Voice(preroll)) /\ Before(Voice(outgoing), Voice(posted))
  /\ Before(Voice(preroll), Voice(posted))

\* A frame that is made next is younger than all there are.
Age == sessions + chunks

Made(F) == \A f \in F : f.age <= Age

AllMade == Made(Voice(wire)) /\ Made(Voice(sending)) /\ Made(Voice(outgoing)) /\ Made(Voice(preroll)) /\ Made(Voice(posted))

\* The queue may only be appended to while the pre-roll is empty, or by frames
\* without an age.
PrerollWaits == ~pending => preroll = <<>>

OnlyVoiceArrives == \A i \in DOMAIN wire : wire[i] # Json

\* The frames of the voice that are anywhere on the line.
Underway == Voice(wire) \cup Voice(sending) \cup Voice(outgoing) \cup Voice(preroll) \cup Voice(posted)

OrderInv == AllSorted /\ InLine /\ AllMade /\ PrerollWaits /\ OnlyVoiceArrives

\* Ages tell sessions: a start is of a later session than all that was made
\* before it, and audio is of the session of the last start before it, or of none.
Agree(f, g) ==
  f.age < g.age => /\ g.kind = "start" => f.session < g.session
                   /\ f.kind = "start" /\ g.session # 0 => f.session <= g.session

SessionInv ==
  /\ \A f, g \in Underway : Agree(f, g)
  /\ \A f \in Underway : f.session <= sessions
  /\ session \in {0, sessions}

-----------------------------------------------------------------------------
\* Sequences of frames.

LEMMA AgeIsNat == \A f \in Frames : f.age \in Nat /\ (f.age = 0 <=> f = Json)
  BY VoiceLinkAssumption DEF Frames, Json

LEMMA NothingSorted == Sorted(<<>>) /\ Voice(<<>>) = {}
  BY DEF Sorted, Voice

LEMMA VoiceIsFrames ==
  ASSUME NEW q \in Seq(Frames)
  PROVE  Voice(q) \subseteq {f \in Frames : f.age # 0}
  BY DEF Voice

LEMMA SingleFrame ==
  ASSUME NEW q \in Seq(Frames), q # <<>>, Len(q) <= 1
  PROVE  Len(q) = 1 /\ q = <<q[1]>>
<1>1. Len(q) = 1
  <2>1. Len(q) \in Nat
    OBVIOUS
  <2>2. Len(q) # 0
    BY EmptySeq
  <2> QED
    BY <2>1, <2>2
<1>2. <<q[1]>> \in Seq(Frames) /\ Len(<<q[1]>>) = 1 /\ <<q[1]>>[1] = q[1]
  BY <1>1
<1> QED
  BY <1>1, <1>2, SeqEqual

LEMMA AppendSorted ==
  ASSUME NEW q \in Seq(Frames), Sorted(q), NEW f \in Frames, f.age # 0 => Before(Voice(q), {f})
  PROVE  Sorted(Append(q, f)) /\ Voice(Append(q, f)) \subseteq Voice(q) \cup {g \in {f} : g.age # 0}
<1>1. /\ Append(q, f) \in Seq(Frames) /\ DOMAIN Append(q, f) = 1..(Len(q) + 1) /\ DOMAIN q = 1..Len(q)
      /\ \A i \in 1..Len(q) : Append(q, f)[i] = q[i]
      /\ Append(q, f)[Len(q) + 1] = f
  BY AddedFrame
<1>2. \A i \in 1..Len(q) : q[i].age # 0 /\ f.age # 0 => q[i].age < f.age
  BY <1>1 DEF Before, Voice
<1>3. Sorted(Append(q, f))
  BY <1>1, <1>2 DEF Sorted
<1>4. Voice(Append(q, f)) \subseteq Voice(q) \cup {g \in {f} : g.age # 0}
  BY <1>1 DEF Voice
<1> QED
  BY <1>3, <1>4

LEMMA TailSorted ==
  ASSUME NEW q \in Seq(Frames), Sorted(q), q # <<>>
  PROVE  /\ Sorted(Tail(q)) /\ Voice(Tail(q)) \subseteq Voice(q)
         /\ Head(q).age # 0 => Head(q) \in Voice(q) /\ Before({Head(q)}, Voice(Tail(q)))
<1>1. /\ DOMAIN q = 1..Len(q) /\ DOMAIN Tail(q) = 1..(Len(q) - 1) /\ Len(q) \in Nat
      /\ \A i \in 1..(Len(q) - 1) : Tail(q)[i] = q[i + 1] /\ i + 1 \in 1..Len(q) /\ 1 < i + 1
      /\ Head(q) = q[1] /\ 1 \in 1..Len(q)
  BY TakenFrame
<1>2. Sorted(Tail(q))
  BY <1>1 DEF Sorted
<1>3. Voice(Tail(q)) \subseteq Voice(q)
  BY <1>1 DEF Voice
<1>4. Head(q).age # 0 => Head(q) \in Voice(q) /\ Before({Head(q)}, Voice(Tail(q)))
  BY <1>1 DEF Voice, Before, Sorted
<1> QED
  BY <1>2, <1>3, <1>4

LEMMA ConcatSorted ==
  ASSUME NEW q \in Seq(Frames), NEW r \in Seq(Frames), Sorted(q), Sorted(r), Before(Voice(q), Voice(r))
  PROVE  Sorted(q \o r) /\ Voice(q \o r) \subseteq Voice(q) \cup Voice(r)
<1>1. /\ DOMAIN (q \o r) = 1..(Len(q) + Len(r)) /\ DOMAIN q = 1..Len(q) /\ DOMAIN r = 1..Len(r)
      /\ Len(q) \in Nat /\ Len(r) \in Nat
      /\ \A i \in 1..Len(q) : (q \o r)[i] = q[i]
      /\ \A i \in 1..(Len(q) + Len(r)) : i \notin 1..Len(q) => i - Len(q) \in 1..Len(r) /\ (q \o r)[i] = r[i - Len(q)]
  BY ConcatProperties
<1>2. \A i \in DOMAIN q, j \in DOMAIN r : q[i].age # 0 /\ r[j].age # 0 => q[i].age < r[j].age
  BY DEF Before, Voice
<1>3. Sorted(q \o r)
  BY <1>1, <1>2 DEF Sorted
<1>4. Voice(q \o r) \subseteq Voice(q) \cup Voice(r)
  BY <1>1 DEF Voice
<1> QED
  BY <1>3, <1>4

LEMMA PartSorted ==
  ASSUME NEW q \in Seq(Frames), Sorted(q), NEW n \in Nat, n <= Len(q)
  PROVE  SubSeq(q, 1, n) \in Seq(Frames) /\ Sorted(SubSeq(q, 1, n)) /\ Voice(SubSeq(q, 1, n)) \subseteq Voice(q)
<1>1. \A i \in 1..n : q[i] \in Frames /\ i \in DOMAIN q
  OBVIOUS
<1>2. /\ SubSeq(q, 1, n) \in Seq(Frames) /\ DOMAIN SubSeq(q, 1, n) = 1..n
      /\ \A i \in 1..n : SubSeq(q, 1, n)[i] = q[i]
  BY <1>1, SubSeqProperties
<1> QED
  BY <1>1, <1>2 DEF Sorted, Voice

-----------------------------------------------------------------------------
\* The steps.  TypeInv gives the five sequences their type.

LEMMA LineTypes ==
  ASSUME TypeInv
  PROVE  /\ {wire, sending, outgoing, preroll, posted} \subseteq Seq(Frames)
         /\ Len(outgoing) <= QueueMax /\ Len(preroll) <= PrerollMax
         /\ Age \in Nat
  BY Counted DEF TypeInv, TypeOK, Age

LEMMA SumIsNat == \A a, b \in Nat : a + b \in Nat
  OBVIOUS

LEMMA AgeNext == ASSUME TypeInv' PROVE Age' \in Nat
<1>1. sessions' \in Nat /\ chunks' \in Nat
  BY VoiceLinkAssumption DEF TypeInv, TypeOK
<1> QED
  BY <1>1, SumIsNat, Zenon DEF Age

\* Frames are only dropped, and nothing takes another's place.
LEMMA OrderDropped ==
  ASSUME TypeInv, OrderInv, Age' = Age,
         wire' \in {wire, <<>>}, sending' \in {sending, <<>>}, outgoing' \in {outgoing, <<>>},
         preroll' \in {preroll, <<>>}, posted' = posted,
         pending' # pending => preroll' = <<>>
  PROVE  OrderInv' /\ Underway' \subseteq Underway
<1>1. /\ Voice(wire') \subseteq Voice(wire) /\ Voice(sending') \subseteq Voice(sending)
      /\ Voice(outgoing') \subseteq Voice(outgoing) /\ Voice(preroll') \subseteq Voice(preroll)
      /\ Voice(posted') = Voice(posted)
  BY NothingSorted
<1>2. AllSorted'
  BY NothingSorted DEF OrderInv, AllSorted
<1>3. InLine'
  BY <1>1 DEF OrderInv, InLine, Before
<1>4. AllMade'
  BY <1>1 DEF OrderInv, AllMade, Made
<1>5. PrerollWaits' /\ OnlyVoiceArrives'
  BY DEF OrderInv, PrerollWaits, OnlyVoiceArrives
<1>6. Underway' \subseteq Underway
  BY <1>1 DEF Underway
<1> QED
  BY <1>2, <1>3, <1>4, <1>5, <1>6 DEF OrderInv

\* A frame is posted: a new one of the voice, or one without an age.
LEMMA OrderPosted ==
  ASSUME TypeInv, OrderInv, UNCHANGED <<wire, sending, outgoing, preroll, pending>>,
         NEW f \in Frames, posted' = Append(posted, f),
         f.age \in Nat, Age \in Nat, Age' \in Nat,
         (f.age = 0 /\ Age' = Age) \/ (f.age = Age + 1 /\ Age' = Age + 1)
  PROVE  OrderInv' /\ Underway' \subseteq Underway \cup {g \in {f} : g.age # 0}
<1>0. \A q \in {wire, sending, outgoing, preroll, posted} : q \in Seq(Frames)
  BY LineTypes
<1>1. \A q \in {wire, sending, outgoing, preroll, posted} : Voice(q) \subseteq Frames /\ Made(Voice(q))
  <2>1. \A q \in {wire, sending, outgoing, preroll, posted} : Voice(q) \subseteq Frames
    BY <1>0, VoiceIsFrames
  <2>2. \A q \in {wire, sending, outgoing, preroll, posted} : Made(Voice(q))
    BY Zenon DEF OrderInv, AllMade
  <2> QED
    BY <2>1, <2>2
<1>2. \A q \in {wire, sending, outgoing, preroll, posted} : f.age # 0 => Before(Voice(q), {f})
  <2>1. ASSUME NEW F, F \subseteq Frames, Made(F), f.age # 0 PROVE Before(F, {f})
    <3>1. SUFFICES ASSUME NEW g \in F PROVE g.age < f.age
      BY DEF Before
    <3>2. g.age \in Nat /\ g.age <= Age /\ f.age = Age + 1
      BY <2>1, AgeIsNat DEF Made
    <3> QED
      BY <1>1, <3>2
  <2> QED
    BY <1>1, <2>1
<1>3. Sorted(posted') /\ Voice(posted') \subseteq Voice(posted) \cup {g \in {f} : g.age # 0}
  <2>1. posted \in Seq(Frames) /\ Sorted(posted) /\ (f.age # 0 => Before(Voice(posted), {f}))
    BY <1>0, <1>2 DEF OrderInv, AllSorted
  <2> QED
    BY <2>1, AppendSorted
<1>4. AllSorted'
  BY <1>3 DEF OrderInv, AllSorted
<1>5. InLine'
  BY <1>2, <1>3 DEF OrderInv, InLine, Before
<1>6. AllMade'
  <2>1. ASSUME NEW F, F \subseteq Frames, Made(F) PROVE \A g \in F : g.age <= Age'
    <3>1. SUFFICES ASSUME NEW g \in F PROVE g.age <= Age'
      OBVIOUS
    <3>2. g.age \in Nat /\ g.age <= Age
      BY <2>1, AgeIsNat DEF Made
    <3> QED
      BY <3>2
  <2>2. \A q \in {wire, sending, outgoing, preroll, posted} : \A g \in Voice(q) : g.age <= Age'
    BY <1>1, <2>1
  <2>3. f.age # 0 => f.age <= Age'
    BY <1>1
  <2>4. \A g \in Voice(posted') : g.age <= Age'
    BY <1>3, <2>2, <2>3
  <2> QED
    BY <2>2, <2>4 DEF AllMade, Made
<1>7. PrerollWaits' /\ OnlyVoiceArrives'
  BY DEF OrderInv, PrerollWaits, OnlyVoiceArrives
<1>8. Underway' \subseteq Underway \cup {g \in {f} : g.age # 0}
  BY <1>3 DEF Underway
<1> QED
  BY <1>4, <1>5, <1>6, <1>7, <1>8 DEF OrderInv

\* _queue_frame keeps the queue sorted when the frame comes from behind it.
LEMMA QueueSorted ==
  ASSUME TypeInv, Sorted(outgoing), NEW f \in Frames, f.age # 0 => Before(Voice(outgoing), {f}), QueueFrame(f)
  PROVE  Sorted(outgoing') /\ Voice(outgoing') \subseteq Voice(outgoing) \cup {g \in {f} : g.age # 0}
<1>1. outgoing \in Seq(Frames)
  BY LineTypes
<1>2. CASE outgoing' = Append(outgoing, f)
  BY <1>1, <1>2, AppendSorted
<1>3. CASE outgoing' = outgoing
  BY <1>3
<1>4. CASE Full /\ outgoing' = Append(Tail(outgoing), f)
  <2>1. outgoing # <<>>
    BY <1>1, <1>4, VoiceLinkAssumption DEF Full
  <2>2. Tail(outgoing) \in Seq(Frames) /\ Sorted(Tail(outgoing)) /\ Voice(Tail(outgoing)) \subseteq Voice(outgoing)
    BY <1>1, <2>1, TailSorted, TakenFrame
  <2>3. f.age # 0 => Before(Voice(Tail(outgoing)), {f})
    BY <2>2 DEF Before
  <2> QED
    BY <1>4, <2>2, <2>3, AppendSorted
<1> QED
  BY <1>2, <1>3, <1>4 DEF QueueFrame

\* The loop runs a callback.
LEMMA OrderRun ==
  ASSUME TypeInv, OrderInv, RunCallback
  PROVE  OrderInv' /\ Underway' \subseteq Underway
<1> DEFINE frame == Head(posted)
<1>1. /\ posted # <<>> /\ posted' = Tail(posted) /\ UNCHANGED <<wire, sending, Age>>
  BY DEF RunCallback, serverVars, historyVars, Age
<1>2. /\ posted \in Seq(Frames) /\ preroll \in Seq(Frames) /\ frame \in Frames
      /\ Sorted(posted') /\ Voice(posted') \subseteq Voice(posted)
      /\ frame.age # 0 => frame \in Voice(posted) /\ Before({frame}, Voice(posted'))
  BY <1>1, LineTypes, TailSorted, TakenFrame DEF OrderInv, AllSorted
<1> HIDE DEF frame
<1>3. \A q \in {wire, sending, outgoing, preroll} : frame.age # 0 => Before(Voice(q), {frame})
  BY <1>2 DEF OrderInv, InLine, Before
<1>4. UNCHANGED OnlyVoiceArrives
  BY <1>1 DEF OnlyVoiceArrives
<1>5. frame.age # 0 => frame \in Underway
  BY <1>2 DEF Underway
<1>6. CASE UNCHANGED <<pending, preroll, outgoing>>
  <2>2. Underway' \subseteq Underway
    BY <1>1, <1>2, <1>6 DEF Underway
  <2>1. InLine'
    BY <1>1, <1>2, <1>6 DEF OrderInv, InLine, Before
  <2> QED
    BY <1>1, <1>2, <1>4, <1>6, <2>1, <2>2 DEF OrderInv, AllSorted, AllMade, Made, PrerollWaits
<1>7. CASE QueueFrame(frame) /\ preroll' = <<>> /\ (pending' => pending \/ frame.kind = "start")
  <2>1. Sorted(outgoing') /\ Voice(outgoing') \subseteq Voice(outgoing) \cup {g \in {frame} : g.age # 0}
    BY <1>2, <1>3, <1>7, QueueSorted DEF OrderInv, AllSorted
  <2>2. Sorted(preroll') /\ Voice(preroll') = {}
    BY <1>7, NothingSorted
  <2>3. InLine'
    BY <1>1, <1>2, <1>3, <2>1, <2>2 DEF OrderInv, InLine, Before
  <2>4. AllMade'
    BY <1>1, <1>2, <2>1, <2>2 DEF OrderInv, AllMade, Made
  <2>5. AllSorted'
    BY <1>1, <1>2, <2>1, <2>2 DEF OrderInv, AllSorted
  <2>6. Underway' \subseteq Underway
    BY <1>1, <1>2, <1>5, <2>1, <2>2 DEF Underway
  <2> QED
    BY <1>4, <1>7, <2>3, <2>4, <2>5, <2>6 DEF OrderInv, PrerollWaits
<1>8. CASE QueueFrame(frame) /\ frame.age = 0 /\ UNCHANGED <<pending, preroll>>
  <2>1. Sorted(outgoing') /\ Voice(outgoing') \subseteq Voice(outgoing)
    BY <1>2, <1>8, QueueSorted DEF OrderInv, AllSorted
  <2>2. InLine'
    BY <1>1, <1>2, <1>8, <2>1 DEF OrderInv, InLine, Before
  <2>3. Underway' \subseteq Underway
    BY <1>1, <1>2, <1>8, <2>1 DEF Underway
  <2> QED
    BY <1>1, <1>2, <1>4, <1>8, <2>1, <2>2, <2>3 DEF OrderInv, AllSorted, AllMade, Made, PrerollWaits
<1>9. CASE preroll' = PushPreroll(frame) /\ pending /\ UNCHANGED <<pending, outgoing>>
  <2> DEFINE kept == IF Len(preroll) = PrerollMax THEN Tail(preroll) ELSE preroll
  <2>1. kept \in Seq(Frames) /\ Sorted(kept) /\ Voice(kept) \subseteq Voice(preroll)
    <3>1. CASE Len(preroll) = PrerollMax
      <4>1. preroll # <<>>
        BY <1>2, <3>1, VoiceLinkAssumption
      <4> QED
        BY <1>2, <3>1, <4>1, TailSorted, TakenFrame DEF OrderInv, AllSorted
    <3>2. CASE Len(preroll) # PrerollMax
      BY <1>2, <3>2 DEF OrderInv, AllSorted
    <3> QED
      BY <3>1, <3>2
  <2>2. preroll' = Append(kept, frame)
    BY <1>9 DEF PushPreroll
  <2> HIDE DEF kept
  <2>3. frame.age # 0 => Before(Voice(kept), {frame})
    BY <1>3, <2>1 DEF Before
  <2>4. Sorted(preroll') /\ Voice(preroll') \subseteq Voice(preroll) \cup {g \in {frame} : g.age # 0}
    BY <1>2, <2>1, <2>2, <2>3, AppendSorted
  <2>5. InLine'
    BY <1>1, <1>2, <1>3, <1>9, <2>4 DEF OrderInv, InLine, Before
  <2>6. Underway' \subseteq Underway
    BY <1>1, <1>2, <1>9, <1>5, <2>4 DEF Underway
  <2> QED
    BY <1>1, <1>2, <1>4, <1>9, <2>4, <2>5, <2>6 DEF OrderInv, AllSorted, AllMade, Made, PrerollWaits
<1> QED
  <2>1. frame.kind = "json" => frame.age = 0
    BY <1>2 DEF Frames
  <2>2. ~pending => preroll = <<>>
    BY DEF OrderInv, PrerollWaits
  <2> QED
    BY <1>6, <1>7, <1>8, <1>9, <2>1, <2>2 DEF RunCallback, FreshPreroll, frame

LEMMA OrderHeartbeat ==
  ASSUME TypeInv, OrderInv, Heartbeat
  PROVE  OrderInv' /\ Underway' \subseteq Underway
<1>1. QueueFrame(Json) /\ UNCHANGED <<wire, sending, preroll, posted, pending, Age>>
  BY DEF Heartbeat, serverVars, historyVars, Age
<1>2. Json \in Frames /\ Json.age = 0
  BY JsonFrame DEF Json
<1>3. Sorted(outgoing') /\ Voice(outgoing') \subseteq Voice(outgoing)
  BY <1>1, <1>2, QueueSorted DEF OrderInv, AllSorted
<1>4. InLine'
  BY <1>1, <1>3 DEF OrderInv, InLine, Before
<1>5. Underway' \subseteq Underway
  BY <1>1, <1>3 DEF Underway
<1> QED
  BY <1>1, <1>3, <1>4, <1>5 DEF OrderInv, AllSorted, AllMade, Made, PrerollWaits, OnlyVoiceArrives

\* What the writer holds goes ahead of the queue, and what it sent of it.
LEMMA OrderTaken ==
  ASSUME TypeInv, OrderInv, WriterTakes
  PROVE  OrderInv' /\ Underway' \subseteq Underway
<1>1. /\ sending' = Append(<<>>, Head(outgoing)) /\ outgoing # <<>> /\ outgoing' = Tail(outgoing)
      /\ UNCHANGED <<wire, preroll, posted, pending, Age>>
  BY DEF WriterTakes, serverVars, historyVars, Age
<1>2. outgoing \in Seq(Frames) /\ Head(outgoing) \in Frames /\ <<>> \in Seq(Frames)
  BY <1>1, LineTypes, TakenFrame
<1>3. /\ Sorted(outgoing') /\ Voice(outgoing') \subseteq Voice(outgoing)
      /\ Head(outgoing).age # 0 => Head(outgoing) \in Voice(outgoing) /\ Before({Head(outgoing)}, Voice(outgoing'))
  BY <1>1, <1>2, TailSorted DEF OrderInv, AllSorted
<1>4. Sorted(sending') /\ Voice(sending') \subseteq {g \in {Head(outgoing)} : g.age # 0}
  <2>1. Before(Voice(<<>>), {Head(outgoing)})
    BY NothingSorted DEF Before
  <2> QED
    BY <1>1, <1>2, <2>1, AppendSorted, NothingSorted
<1>5. Voice(sending') \subseteq Voice(outgoing) /\ Before(Voice(sending'), Voice(outgoing'))
  BY <1>3, <1>4 DEF Before
<1>6. InLine'
  BY <1>1, <1>3, <1>5 DEF OrderInv, InLine, Before
<1>7. Underway' \subseteq Underway
  BY <1>1, <1>3, <1>5 DEF Underway
<1> QED
  BY <1>1, <1>3, <1>4, <1>5, <1>6, <1>7 DEF OrderInv, AllSorted, AllMade, Made, PrerollWaits, OnlyVoiceArrives

LEMMA OrderSent ==
  ASSUME TypeInv, OrderInv, WriterSends
  PROVE  OrderInv' /\ Underway' \subseteq Underway
<1>1. /\ sending # <<>> /\ sending' = <<>> /\ UNCHANGED <<outgoing, preroll, posted, pending, Age>>
      /\ wire' = wire \/ (wire' = wire \o sending /\ sending # <<Json>>)
  BY DEF WriterSends, historyVars, Age
<1>2. wire \in Seq(Frames) /\ sending \in Seq(Frames)
  BY LineTypes
<1>3. Sorted(wire') /\ Voice(wire') \subseteq Voice(wire) \cup Voice(sending)
  <2>1. Sorted(wire) /\ Sorted(sending) /\ Before(Voice(wire), Voice(sending))
    BY DEF OrderInv, AllSorted, InLine
  <2>2. Sorted(wire \o sending) /\ Voice(wire \o sending) \subseteq Voice(wire) \cup Voice(sending)
    BY <1>2, <2>1, ConcatSorted
  <2> QED
    BY <1>1, <2>1, <2>2
<1>4. InLine'
  BY <1>1, <1>3, NothingSorted DEF OrderInv, InLine, Before
<1>5. AllSorted' /\ AllMade' /\ PrerollWaits'
  BY <1>1, <1>3, NothingSorted DEF OrderInv, AllSorted, AllMade, Made, PrerollWaits
<1>6. OnlyVoiceArrives'
  <2>1. CASE wire' = wire
    BY <2>1 DEF OrderInv, OnlyVoiceArrives
  <2>2. CASE wire' = wire \o sending /\ sending # <<Json>>
    <3>1. Len(sending) = 1 /\ sending[1] # Json
      <4>1. Len(sending) <= 1
        BY DEF TypeInv, TypeOK
      <4>2. Len(sending) = 1 /\ sending = <<sending[1]>>
        BY <1>1, <1>2, <4>1, SingleFrame
      <4> QED
        BY <2>2, <4>2
    <3>2. /\ DOMAIN wire' = 1..(Len(wire) + 1) /\ wire'[Len(wire) + 1] = sending[1]
          /\ \A i \in 1..Len(wire) : wire'[i] = wire[i] /\ i \in DOMAIN wire
      BY <1>2, <2>2, <3>1, ConcatProperties
    <3> QED
      BY <1>2, <3>1, <3>2 DEF OrderInv, OnlyVoiceArrives
  <2> QED
    BY <1>1, <2>1, <2>2
<1>7. Underway' \subseteq Underway
  BY <1>1, <1>3, NothingSorted DEF Underway
<1> QED
  BY <1>4, <1>5, <1>6, <1>7 DEF OrderInv

\* The pre-roll is flushed behind the queue.
LEMMA OrderFlushed ==
  ASSUME TypeInv, OrderInv, Accept
  PROVE  OrderInv' /\ Underway' \subseteq Underway
<1> DEFINE room == QueueMax - Len(outgoing)
           flush == IF Len(preroll) <= room THEN preroll ELSE SubSeq(preroll, 1, room)
<1>1. outgoing' = outgoing \o flush /\ preroll' = <<>> /\ UNCHANGED <<wire, sending, posted, Age>>
  BY DEF Accept, Flushed, historyVars, Age
<1>2. /\ outgoing \in Seq(Frames) /\ preroll \in Seq(Frames) /\ room \in Nat
      /\ Sorted(outgoing) /\ Sorted(preroll) /\ Before(Voice(outgoing), Voice(preroll))
  BY LineTypes, VoiceLinkAssumption DEF OrderInv, AllSorted, InLine
<1>3. flush \in Seq(Frames) /\ Sorted(flush) /\ Voice(flush) \subseteq Voice(preroll)
  <2>1. CASE Len(preroll) <= room
    BY <1>2, <2>1
  <2>2. CASE ~(Len(preroll) <= room)
    <3>1. room <= Len(preroll)
      BY <1>2, <2>2
    <3> HIDE DEF room
    <3>2. /\ SubSeq(preroll, 1, room) \in Seq(Frames) /\ Sorted(SubSeq(preroll, 1, room))
          /\ Voice(SubSeq(preroll, 1, room)) \subseteq Voice(preroll)
      BY <1>2, <3>1, PartSorted
    <3> QED
      BY <2>2, <3>2
  <2> QED
    BY <2>1, <2>2
<1> HIDE DEF flush
<1>4. Sorted(outgoing') /\ Voice(outgoing') \subseteq Voice(outgoing) \cup Voice(preroll)
  <2>1. Before(Voice(outgoing), Voice(flush))
    BY <1>2, <1>3 DEF Before
  <2> QED
    BY <1>1, <1>2, <1>3, <2>1, ConcatSorted
<1>5. InLine'
  BY <1>1, <1>4, NothingSorted DEF OrderInv, InLine, Before
<1>6. Underway' \subseteq Underway
  BY <1>1, <1>4, NothingSorted DEF Underway
<1> QED
  BY <1>1, <1>4, <1>5, <1>6, NothingSorted DEF OrderInv, AllSorted, AllMade, Made, PrerollWaits, OnlyVoiceArrives

-----------------------------------------------------------------------------
\* The sessions of the frames.

LEMMA SessionKept ==
  ASSUME SessionInv, Underway' \subseteq Underway, sessions' = sessions, session' \in {session, 0}
  PROVE  SessionInv'
  BY DEF SessionInv

\* What is made next is younger than all there is, and of a session as late.
LEMMA SessionPosted ==
  ASSUME TypeInv, OrderInv, SessionInv,
         NEW f \in Frames, Underway' \subseteq Underway \cup {g \in {f} : g.age # 0}, f.age = Age + 1,
         sessions' = sessions \/ sessions' = sessions + 1, f.session \in {0, sessions'},
         f.kind = "start" => f.session = sessions + 1, session' \in {0, sessions'}
  PROVE  SessionInv'
<1>1. sessions \in Nat /\ Age \in Nat
  BY Counted, LineTypes DEF TypeInv, TypeOK
<1>2. Underway \subseteq Frames /\ \A g \in Underway : g.age \in Nat /\ g.age <= Age
  BY LineTypes, VoiceIsFrames, AgeIsNat DEF Underway, OrderInv, AllMade, Made
<1>3. \A g \in Frames : g.session \in Nat
  BY VoiceLinkAssumption DEF Frames, Sessions
<1>4. \A g \in Underway : g.session \in Nat /\ g.session <= sessions
  BY <1>2, <1>3 DEF SessionInv
<1>5. \A g \in Underway' : g \in Underway \/ g = f
  OBVIOUS
<1>6. ASSUME NEW g \in Underway PROVE Agree(g, f) /\ ~(f.age < g.age)
  <2>1. g.session \in Nat /\ g.session <= sessions /\ g.age \in Nat /\ g.age <= Age
    BY <1>2, <1>4
  <2>2. f.kind = "start" => g.session < f.session
    BY <1>1, <2>1
  <2>3. f.session # 0 => g.session <= f.session
    BY <1>1, <2>1
  <2>4. ~(f.age < g.age)
    BY <1>1, <2>1
  <2> QED
    BY <2>2, <2>3, <2>4 DEF Agree
<1>7. \A g, h \in Underway' : Agree(g, h)
  <2>1. SUFFICES ASSUME NEW g \in Underway', NEW h \in Underway' PROVE Agree(g, h)
    OBVIOUS
  <2>2. CASE g \in Underway /\ h \in Underway
    BY <2>2 DEF SessionInv
  <2>3. CASE g \in Underway /\ h = f
    BY <1>6, <2>3
  <2>4. CASE g = f /\ h \in Underway
    BY <1>6, <2>4 DEF Agree
  <2>5. CASE g = f /\ h = f
    BY <1>1, <2>5 DEF Agree
  <2> QED
    BY <1>5, <2>2, <2>3, <2>4, <2>5
<1>8. \A g \in Underway' : g.session <= sessions'
  BY <1>1, <1>4, <1>5
<1> QED
  BY <1>7, <1>8 DEF SessionInv

\* The steps that post a frame, by what they post.
LEMMA OrderThreads ==
  ASSUME TypeInv, TypeInv', OrderInv, SessionInv,
         \/ Record \/ Submit \/ ResponseOver \/ Stop \/ Mute \/ RunEnd
         \/ \E t \in Starters : SendStart(t)
  PROVE  OrderInv' /\ SessionInv'
<1>1. UNCHANGED <<wire, sending, outgoing, preroll, pending>>
  BY DEF Record, Submit, ResponseOver, Stop, Mute, RunEnd, SendStart, queueVars, serverVars
<1>2. Age \in Nat /\ Age' \in Nat /\ \A f \in Frames : f.age \in Nat
  BY LineTypes, AgeNext, AgeIsNat
<1>3. CASE posted' = posted /\ UNCHANGED <<sessions, chunks, session>>
  BY <1>1, <1>3, OrderDropped, SessionKept DEF Age
<1>4. CASE posted' = Append(posted, Json) /\ UNCHANGED <<sessions, chunks, session>>
  <2>1. Json \in Frames /\ Json.age = 0
    BY JsonFrame DEF Json
  <2>2. Age' = Age
    BY <1>4 DEF Age
  <2>3. OrderInv' /\ Underway' \subseteq Underway \cup {g \in {Json} : g.age # 0}
    BY <1>1, <1>2, <1>4, <2>1, <2>2, OrderPosted
  <2>4. Underway' \subseteq Underway
    BY <2>1, <2>3
  <2> QED
    BY <1>4, <2>3, <2>4, SessionKept
<1>5. CASE Record
  <2>1. posted' = Append(posted, Audio) /\ chunks' = chunks + 1 /\ sessions' = sessions /\ session' = session
    BY <1>5 DEF Record, Post
  <2>2. Audio \in Frames /\ Audio.age = Age + 1
    BY <1>5, <2>1, Counted DEF Audio, Age, Frames, Sessions, TypeInv, TypeOK
  <2>3. Age' = Age + 1
    BY <2>1, LineTypes, Counted DEF Age
  <2>4. OrderInv' /\ Underway' \subseteq Underway \cup {g \in {Audio} : g.age # 0}
    BY <1>1, <1>2, <2>1, <2>2, <2>3, OrderPosted
  <2>5. Audio.kind = "audio" /\ Audio.session = session /\ session \in {0, sessions}
    BY DEF Audio, SessionInv
  <2> QED
    BY <2>1, <2>2, <2>4, <2>5, SessionPosted
<1>6. CASE \E t \in Starters : SendStart(t)
  <2>1. CASE /\ posted' = Append(posted, Start(sessions + 1)) /\ sessions' = sessions + 1 /\ chunks' = chunks
             /\ session' = sessions + 1
    <3>1. Start(sessions + 1) \in Frames /\ Start(sessions + 1).age = Age + 1
      BY <2>1, Counted DEF Start, Age, Frames, Sessions, TypeInv, TypeOK
    <3>2. Age' = Age + 1
      BY <2>1, LineTypes, Counted DEF Age
    <3>3. OrderInv' /\ Underway' \subseteq Underway \cup {g \in {Start(sessions + 1)} : g.age # 0}
      BY <1>1, <1>2, <2>1, <3>1, <3>2, OrderPosted
    <3>4. Start(sessions + 1).session = sessions + 1
      BY DEF Start
    <3> QED
      BY <2>1, <3>1, <3>3, <3>4, SessionPosted
  <2>2. CASE UNCHANGED <<posted, sessions, chunks, session>>
    BY <1>3, <2>2 DEF Age
  <2> QED
    BY <1>6, <2>1, <2>2 DEF SendStart, Post
<1>7. CASE Submit \/ ResponseOver \/ Stop \/ Mute \/ RunEnd
  <2>1. UNCHANGED <<sessions, chunks, session>>
    BY <1>7 DEF Submit, ResponseOver, Stop, Mute, RunEnd, historyVars
  <2>2. posted' \in {posted, Append(posted, Json)}
    BY <1>7 DEF Submit, ResponseOver, Stop, Mute, RunEnd, TtsFinished, Post
  <2> QED
    BY <1>3, <1>4, <2>1, <2>2
<1> QED
  BY <1>5, <1>6, <1>7

LEMMA OrderStep == TypeInv /\ TypeInv' /\ OrderInv /\ SessionInv /\ [Next]_vars => OrderInv' /\ SessionInv'
<1> SUFFICES ASSUME TypeInv, TypeInv', OrderInv, SessionInv, [Next]_vars PROVE OrderInv' /\ SessionInv'
  OBVIOUS
<1>1. CASE \/ Wake \/ Unmute \/ RunStart \/ VadEnd \/ PlayUrl \/ Connect \/ UNCHANGED vars
           \/ \E t \in Starters : MarkStreaming(t)
  <2>1. UNCHANGED <<wire, sending, outgoing, preroll, posted, pending, sessions, chunks, session>>
    BY <1>1 DEF Wake, Unmute, RunStart, VadEnd, PlayUrl, Connect, MarkStreaming,
                vars, queueVars, serverVars, historyVars
  <2> QED
    BY <2>1, OrderDropped, SessionKept DEF Age
<1>2. CASE Refuse \/ Dial \/ Close \/ MarkDisconnected
  <2>1. /\ wire' \in {wire, <<>>} /\ sending' \in {sending, <<>>} /\ outgoing' \in {outgoing, <<>>}
        /\ preroll' \in {preroll, <<>>} /\ UNCHANGED <<posted, sessions, chunks>> /\ session' \in {session, 0}
        /\ pending' # pending => preroll' = <<>>
    BY <1>2 DEF Refuse, Dial, Close, MarkDisconnected, ClearOutgoing, StopWaiting, queueVars, serverVars, historyVars
  <2> QED
    BY <2>1, OrderDropped, SessionKept DEF Age
<1>3. CASE RunCallback \/ Heartbeat \/ WriterTakes \/ WriterSends \/ Accept
  <2>1. UNCHANGED <<sessions, session>>
    BY <1>3 DEF RunCallback, Heartbeat, WriterTakes, WriterSends, Accept, historyVars
  <2> QED
    BY <1>3, <2>1, OrderRun, OrderHeartbeat, OrderTaken, OrderSent, OrderFlushed, SessionKept
<1> QED
  BY <1>1, <1>2, <1>3, OrderThreads DEF Next

LEMMA InitOrder == Init => OrderInv /\ SessionInv
  BY NothingSorted
  DEF Init, Underway, SessionInv, OrderInv, AllSorted, InLine, AllMade, Made, Before, PrerollWaits, OnlyVoiceArrives

\* Starts and audio reach the server in the order in which they were made, through
\* pre-roll, full queue, late answers and reconnects (_queue_protocol_message).
THEOREM AlwaysInOrder == Spec => []InOrder
<1>1. TypeInv /\ OrderInv => InOrder
  <2>1. SUFFICES ASSUME TypeInv, OrderInv, NEW i \in DOMAIN wire, NEW j \in DOMAIN wire, i < j
                 PROVE  wire[i].age < wire[j].age
    BY DEF InOrder
  <2>2. wire[i] \in Frames /\ wire[j] \in Frames
    <3>1. wire \in Seq(Frames)
      BY <2>1, LineTypes
    <3> QED
      BY <2>1, <3>1
  <2>3. wire[i].age # 0 /\ wire[j].age # 0
    BY <2>1, <2>2, AgeIsNat DEF OrderInv, OnlyVoiceArrives
  <2> QED
    BY <2>1, <2>3 DEF OrderInv, AllSorted, Sorted
<1>2. Inv => TypeInv
  BY DEF Inv
<1> QED
  BY <1>1, <1>2, InitOrder, OrderStep, InvAlways, PTL DEF Spec

\* Where a start is that was not lost.
LEMMA ConcatVoice ==
  ASSUME NEW q \in Seq(Frames), NEW r \in Seq(Frames)
  PROVE  q \o r \in Seq(Frames) /\ Voice(q \o r) \subseteq Voice(q) \cup Voice(r)
<1>1. /\ q \o r \in Seq(Frames)
      /\ DOMAIN (q \o r) = 1..(Len(q) + Len(r)) /\ DOMAIN q = 1..Len(q) /\ DOMAIN r = 1..Len(r)
      /\ Len(q) \in Nat /\ Len(r) \in Nat
      /\ \A i \in 1..Len(q) : (q \o r)[i] = q[i]
      /\ \A i \in 1..(Len(q) + Len(r)) : i \notin 1..Len(q) => i - Len(q) \in 1..Len(r) /\ (q \o r)[i] = r[i - Len(q)]
  BY ConcatProperties
<1> QED
  BY <1>1 DEF Voice

LEMMA InTransitVoice ==
  ASSUME TypeInv
  PROVE  /\ InTransit \in Seq(Frames)
         /\ Voice(InTransit) \subseteq Voice(posted) \cup Voice(outgoing) \cup Voice(sending) \cup Voice(wire)
<1>1. posted \in Seq(Frames) /\ outgoing \in Seq(Frames) /\ sending \in Seq(Frames) /\ wire \in Seq(Frames)
  BY LineTypes
<1>2. /\ posted \o outgoing \in Seq(Frames)
      /\ Voice(posted \o outgoing) \subseteq Voice(posted) \cup Voice(outgoing)
  BY <1>1, ConcatVoice
<1>3. /\ posted \o outgoing \o sending \in Seq(Frames)
      /\ Voice(posted \o outgoing \o sending) \subseteq Voice(posted \o outgoing) \cup Voice(sending)
  BY <1>1, <1>2, ConcatVoice
<1>4. /\ InTransit \in Seq(Frames)
      /\ Voice(InTransit) \subseteq Voice(posted \o outgoing \o sending) \cup Voice(wire)
  BY <1>1, <1>3, ConcatVoice DEF InTransit
<1> QED
  BY <1>2, <1>3, <1>4

\* The start of the session of audio that arrived has arrived before it, and
\* between the two there is no other.
LEMMA AudioHasItsStart ==
  ASSUME Inv, OrderInv, SessionInv, link = "up", NEW i \in DOMAIN wire,
         wire[i].kind = "audio", wire[i].session \notin Lost \cup {0}
  PROVE  \E j \in 1..(i - 1) :
           /\ wire[j].kind = "start" /\ wire[j].session = wire[i].session
           /\ \A k \in (j + 1)..(i - 1) : wire[k].kind = "audio"
<1> DEFINE f == wire[i]
<1>1. wire \in Seq(Frames) /\ DOMAIN wire = 1..Len(wire) /\ Len(wire) \in Nat
  BY LineTypes DEF Inv
<1>2. \A k \in DOMAIN wire : wire[k] \in Frames /\ wire[k].age \in Nat \ {0} /\ wire[k] \in Voice(wire)
  <2>1. SUFFICES ASSUME NEW k \in DOMAIN wire
                 PROVE  wire[k] \in Frames /\ wire[k].age \in Nat \ {0} /\ wire[k] \in Voice(wire)
    OBVIOUS
  <2>2. wire[k] \in Frames /\ wire[k] # Json
    BY <1>1 DEF OrderInv, OnlyVoiceArrives
  <2>3. wire[k].age \in Nat \ {0}
    BY <2>2, AgeIsNat
  <2> QED
    BY <2>2, <2>3 DEF Voice
<1>3. sessions \in Nat /\ earlier \in Nat
  BY Counted DEF Inv, TypeInv, TypeOK
<1>4. f \in Voice(wire) /\ f \in Frames /\ f.session \in Nat /\ f.age \in Nat
  BY <1>2, VoiceLinkAssumption DEF Frames, Sessions
<1>5. f.session > earlier
  <2>1. wire \in Seq(OurFrames)
    BY DEF Inv, OriginInv, OursOnly
  <2>2. f \in OurFrames
    BY <2>1
  <2> QED
    BY <2>2 DEF OurFrames
<1>6. f.session \in (earlier + 1)..sessions
  BY <1>3, <1>4, <1>5 DEF SessionInv, Underway
<1>7. PICK x \in DOMAIN InTransit : InTransit[x].kind = "start" /\ InTransit[x].session = f.session
  BY <1>6 DEF Lost
<1> DEFINE g == InTransit[x]
<1>8. g \in Frames /\ g.age \in Nat \ {0} /\ g \in Voice(InTransit)
  <2>1. g \in Frames
    BY InTransitVoice DEF Inv
  <2>2. g # Json
    BY <1>7 DEF Json
  <2>3. g.age \in Nat \ {0}
    BY <2>1, <2>2, AgeIsNat
  <2> QED
    BY <2>1, <2>3 DEF Voice
<1>9. g \in Voice(wire)
  <2>1. g \in Underway /\ f \in Underway
    BY <1>4, <1>8, InTransitVoice DEF Inv, Underway
  <2>2. ~(f.age < g.age)
    <3>1. Agree(f, g)
      BY <2>1 DEF SessionInv
    <3> QED
      BY <1>4, <1>7, <3>1 DEF Agree
  <2>3. g \notin Voice(sending) /\ g \notin Voice(outgoing) /\ g \notin Voice(posted)
    BY <1>4, <2>2 DEF OrderInv, InLine, Before
  <2> QED
    BY <1>8, <2>3, InTransitVoice DEF Inv
<1>10. PICK j \in DOMAIN wire : wire[j] = g
  BY <1>9 DEF Voice
<1>11. \A k, l \in DOMAIN wire : k < l => wire[k].age < wire[l].age /\ Agree(wire[k], wire[l])
  BY <1>2 DEF OrderInv, AllSorted, Sorted, SessionInv, Underway
<1>12. j \in 1..(i - 1)
  <2>1. j # i
    BY <1>7, <1>10
  <2>2. ~(i < j)
    BY <1>4, <1>7, <1>10, <1>11 DEF Agree
  <2> QED
    BY <1>1, <2>1, <2>2
<1>13. ASSUME NEW k \in (j + 1)..(i - 1) PROVE wire[k].kind = "audio"
  <2>1. k \in DOMAIN wire /\ j < k /\ k < i
    BY <1>1, <1>12
  <2>2. wire[k] \in Frames /\ wire[k] # Json /\ wire[k].session \in Nat
    <3>1. wire[k] \in Frames /\ wire[k] # Json
      BY <1>2, <2>1 DEF Json
    <3> QED
      BY <3>1, VoiceLinkAssumption DEF Frames, Sessions
  <2>3. wire[k].kind # "start"
    <3>1. wire[k].kind = "start" => f.session < wire[k].session
      BY <1>7, <1>10, <1>11, <2>1 DEF Agree
    <3>2. wire[k].kind = "start" => wire[k].session <= f.session
      BY <1>11, <2>1 DEF Agree
    <3> QED
      BY <1>4, <2>2, <3>1, <3>2
  <2> QED
    BY <2>2, <2>3 DEF Frames, Json
<1> QED
  BY <1>7, <1>10, <1>12, <1>13

\* The server takes audio for that of the last start it got, and it is: late
\* answers, full queues, stops and reconnects never put the audio of one session
\* into another (_audio_preroll.clear, _voice_start_pending).
THEOREM AlwaysAttributed == Spec => []Attributed
<1>1. Inv /\ OrderInv /\ SessionInv => Attributed
  <2>1. SUFFICES ASSUME Inv, OrderInv, SessionInv, link = "up", NEW i \in DOMAIN wire,
                        wire[i].kind = "audio", wire[i].session \notin Lost \cup {0}
                 PROVE  \E j \in 1..(i - 1) :
                          /\ wire[j].kind = "start" /\ wire[j].session = wire[i].session
                          /\ \A k \in (j + 1)..(i - 1) : wire[k].kind = "audio"
    BY DEF Attributed
  <2> QED
    BY <2>1, AudioHasItsStart
<1>2. Inv => TypeInv
  BY DEF Inv
<1> QED
  BY <1>1, <1>2, InitOrder, OrderStep, InvAlways, PTL DEF Spec
=============================================================================
