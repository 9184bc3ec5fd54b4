-------------------------- MODULE MediaSessionProofs --------------------------
(***************************************************************************)
(* Safety of the media sessions (MediaSession.tla) for any number of       *)
(* starts and ids and whatever mpv does with its files.                    *)
(*                                                                         *)
(* The argument: a session that is in progress is the one whose completion *)
(* the player holds (HeldBySlot), that is the last one that was played     *)
(* (SlotIsLatest), and none is in progress while another is about to play  *)
(* (NoneInProgress).                                                       *)
(***************************************************************************)
EXTENDS MediaSession, SequenceTheorems, TLAPS

Steps == [op : {"halt", "run", "finish", "clear", "forget", "begin", "play", "started", "track"},
          start : Starts \union {None}]

loop == todo["loop"]
mpv == todo["mpv"]

\* What each thread is about to do, for which start.
Doing(q) == IF q = <<>> THEN "idle" ELSE q[1].op
Whom(q) == IF q = <<>> THEN None ELSE q[1].start

\* A start is still to be played at the end of the queue q.
Pending(q) == q # <<>> /\ q[Len(q)].op \in {"begin", "play"}

\* The last start is still to be played.
Coming == Pending(loop)

\* The latest start that was handed to the player.
Latest == IF Coming THEN last - 1 ELSE last

\* The steps of the loop, where n is the last start: a stop, of which "forget" is
\* the end, and a start behind it or alone.
LoopOf(q, n) ==
  /\ q \in Seq(Steps) /\ Len(q) <= 3
  /\ \A i \in 1 .. Len(q) :
       \/ i = 1 /\ q[i].op \in {"halt", "run"} /\ Len(q) <= 2
       \/ /\ i = 1 /\ q[i].op \in {"finish", "clear"} /\ q[i].start \in Starts
          /\ Len(q) >= 2 /\ q[2].op = "forget"
       \/ i = 1 /\ q[i].op = "forget" /\ Len(q) <= 2
       \/ i = 2 /\ q[i].op = "forget" /\ q[1].op \in {"finish", "clear"}
       \/ i = Len(q) /\ q[i].op = "begin" /\ q[i].start = n
       \/ i = 1 /\ Len(q) = 1 /\ q[i].op \in {"play", "started"} /\ q[i].start = n

\* The thread of mpv has one step at a time, for a start up to n.
MpvOf(q, n) ==
  /\ q \in Seq(Steps) /\ Len(q) <= 1
  /\ q # <<>> =>
       \/ q[1].op = "track"
       \/ q[1].op \in {"finish", "clear"} /\ q[1].start \in 1 .. n

Types ==
  /\ last \in 0 .. MaxStarts
  /\ id \in [Starts -> Ids \union {NoId}]
  /\ \A n \in Starts : id[n] \in Ids <=> n <= last
  /\ session \in Ids \union {NoId}
  /\ slot \in Starts \union {None}
  /\ events \in Nat
  /\ started \subseteq Starts /\ replaced \subseteq Starts /\ \A n \in started : n <= last
  /\ finished \in [Starts -> Nat]
  /\ todo \in [Threads -> Seq(Steps)]
  /\ loop # <<>> /\ Doing(loop) \in {"begin", "play", "started"} => last \in Starts
  /\ Coming => last \in Starts

\* The player holds the completion of the latest start, or none.
SlotIsLatest == slot \in {None, Latest}

\* A start with the id of an earlier one replaces it.
ReplacesNamesakes == \A n \in Starts : n < last /\ id[n] = id[last] => n \in replaced

\* Neither ended nor about to be reported so.
Unended(n) ==
  /\ n \notin replaced /\ finished[n] = 0
  /\ ~(Doing(loop) = "finish" /\ Whom(loop) = n)
  /\ ~(Doing(mpv) = "finish" /\ Whom(mpv) = n)
  /\ id[n] \notin overlapped

NotYetStarted == Coming \/ Doing(loop) = "started" => last \notin started

\* The completion of a session in progress is held by the player.
HeldBySlot ==
  \A n \in Starts :
    (n \in started \/ (Doing(loop) = "started" /\ n = last)) /\ Unended(n) => slot = n

\* After a stop, and before something plays, no session is in progress.
NoneInProgress ==
  Doing(loop) \in {"finish", "clear", "forget", "begin", "play"} =>
    \A n \in started : ~Unended(n)

\* An end that mpv's thread is about to report or to clear is that of another
\* session than the one that plays, or was under way when that one began.
EndIsOld ==
  Doing(mpv) \in {"finish", "clear"} /\ Latest \in Starts =>
    \/ Whom(mpv) = Latest
    \/ id[Whom(mpv)] # id[Latest]
    \/ finished[Latest] > 0
    \/ id[Latest] \in overlapped

\* What is cleared was reported finished.
ClearedIsFinished ==
  /\ Doing(loop) = "clear" => finished[Whom(loop)] > 0
  /\ Doing(mpv) = "clear" => finished[Whom(mpv)] > 0

\* At rest the session in progress is the current one.
CurrentAtRest == loop = <<>> => \A n \in started : Unended(n) => session = id[n]

\* And the current one is the latest that was reported started, and has not
\* ended but for an end that came before that report, or will be cleared.
CurrentIsLatest ==
  ~Coming /\ Doing(loop) # "started" /\ session # NoId =>
    /\ last \in started /\ session = id[last]
    /\ \/ finished[last] = 0
       \/ last \in early
       \/ Doing(loop) = "clear" /\ Whom(loop) = last
       \/ Doing(mpv) = "clear" /\ Whom(mpv) = last

Shapes == LoopOf(loop, last) /\ MpvOf(mpv, Latest)

Rest ==
  /\ SlotIsLatest /\ ReplacesNamesakes /\ NotYetStarted
  /\ HeldBySlot /\ NoneInProgress /\ EndIsOld /\ ClearedIsFinished /\ CurrentAtRest /\ CurrentIsLatest

IInv == Types /\ Shapes /\ Rest

-----------------------------------------------------------------------------
\* What a thread has to do, after a step of it.

LEMMA StartsAreNumbers == MaxStarts \in Nat /\ None \notin Starts /\ Starts \subseteq Nat
  BY MediaSessionAssumption DEF Starts, None

LEMMA StepIs == \A s \in Steps : s = Step(s.op, s.start)
  BY DEF Steps, Step

LEMMA QueueHead ==
  ASSUME NEW q \in Seq(Steps), q # <<>>
  PROVE  /\ Len(q) \in Nat \ {0} /\ q[1] \in Steps /\ Head(q) = q[1]
         /\ DOMAIN q = 1 .. Len(q)
         /\ q[1].op # "idle" /\ q[1].op = Doing(q) /\ q[1].start = Whom(q)
<1>1. Len(q) \in Nat \ {0} /\ DOMAIN q = 1 .. Len(q) /\ Head(q) = q[1]
  OBVIOUS
<1>2. q[1] \in Steps
  BY <1>1, ElementOfSeq
<1> QED
  <2>1. q[1].op # "idle"
    BY <1>2 DEF Steps
  <2> QED
    BY <1>1, <1>2, <2>1 DEF Doing, Whom

LEMMA Dropped ==
  ASSUME NEW q \in Seq(Steps), q # <<>>
  PROVE  /\ <<>> \o Tail(q) \in Seq(Steps)
         /\ Len(<<>> \o Tail(q)) = Len(q) - 1
         /\ \A i \in 1 .. Len(q) - 1 : (<<>> \o Tail(q))[i] = q[i + 1]
<1>1. Tail(q) \in Seq(Steps) /\ Len(Tail(q)) = Len(q) - 1
  OBVIOUS
<1>2. <<>> \o Tail(q) = Tail(q)
  BY <1>1, ConcatEmptySeq
<1>3. \A i \in 1 .. Len(q) - 1 : Tail(q)[i] = q[i + 1]
  OBVIOUS
<1> QED
  BY <1>1, <1>2, <1>3

LEMMA PutOne ==
  ASSUME NEW q \in Seq(Steps), q # <<>>, NEW a \in Steps
  PROVE  /\ <<a>> \o Tail(q) \in Seq(Steps)
         /\ Len(<<a>> \o Tail(q)) = Len(q)
         /\ (<<a>> \o Tail(q))[1] = a
         /\ \A i \in 2 .. Len(q) : (<<a>> \o Tail(q))[i] = q[i]
<1>1. <<a>> \in Seq(Steps) /\ Len(<<a>>) = 1 /\ <<a>>[1] = a
  OBVIOUS
<1>2. Tail(q) \in Seq(Steps) /\ Len(Tail(q)) = Len(q) - 1 /\ Len(q) \in Nat \ {0}
      /\ \A i \in 1 .. Len(q) - 1 : Tail(q)[i] = q[i + 1]
  OBVIOUS
<1>3. Len(<<a>> \o Tail(q)) = Len(q) /\ <<a>> \o Tail(q) \in Seq(Steps)
  BY <1>1, <1>2, ConcatProperties
<1>4. \A i \in 1 .. Len(q) : (<<a>> \o Tail(q))[i] = IF i = 1 THEN a ELSE Tail(q)[i - 1]
  BY <1>1, <1>2, ConcatProperties
<1> QED
  BY <1>2, <1>3, <1>4

LEMMA PutTwo ==
  ASSUME NEW q \in Seq(Steps), q # <<>>, NEW a \in Steps, NEW b \in Steps
  PROVE  /\ <<a, b>> \o Tail(q) \in Seq(Steps)
         /\ Len(<<a, b>> \o Tail(q)) = Len(q) + 1
         /\ (<<a, b>> \o Tail(q))[1] = a
         /\ (<<a, b>> \o Tail(q))[2] = b
         /\ \A i \in 3 .. Len(q) + 1 : (<<a, b>> \o Tail(q))[i] = q[i - 1]
<1>1. <<a, b>> \in Seq(Steps) /\ Len(<<a, b>>) = 2 /\ <<a, b>>[1] = a /\ <<a, b>>[2] = b
  OBVIOUS
<1>2. Tail(q) \in Seq(Steps) /\ Len(Tail(q)) = Len(q) - 1 /\ Len(q) \in Nat \ {0}
      /\ \A i \in 1 .. Len(q) - 1 : Tail(q)[i] = q[i + 1]
  OBVIOUS
<1>3. Len(<<a, b>> \o Tail(q)) = Len(q) + 1 /\ <<a, b>> \o Tail(q) \in Seq(Steps)
  BY <1>1, <1>2, ConcatProperties
<1>4. \A i \in 1 .. Len(q) + 1 :
        (<<a, b>> \o Tail(q))[i] = IF i <= 2 THEN <<a, b>>[i] ELSE Tail(q)[i - 2]
  BY <1>1, <1>2, ConcatProperties
<1> QED
  BY <1>1, <1>2, <1>3, <1>4

\* What the shape of the loop's queue says of what it does.
LEMMA LoopSays ==
  ASSUME NEW q, NEW n, LoopOf(q, n)
  PROVE  /\ Doing(q) = "idle" <=> q = <<>>
         /\ Doing(q) \in {"idle", "halt", "run", "finish", "clear", "forget", "begin", "play", "started"}
         /\ Doing(q) \in {"finish", "clear"} => Whom(q) \in Starts /\ Len(q) \in {2, 3} /\ q[2].op = "forget"
         /\ Doing(q) \in {"begin", "play"} => Pending(q)
         /\ Doing(q) \in {"begin", "play", "started"} => Whom(q) = n /\ Len(q) = 1
         /\ Doing(q) \in {"idle", "started"} => ~Pending(q)
         /\ Doing(q) \in {"halt", "run", "forget"} => Len(q) \in {1, 2} /\ (Pending(q) <=> Len(q) = 2)
         /\ Len(q) = 2 /\ Doing(q) \in {"halt", "run", "forget"} => q[2].op = "begin" /\ q[2].start = n
         /\ Doing(q) \in {"finish", "clear"} => (Pending(q) <=> Len(q) = 3)
         /\ Len(q) = 3 => q[3].op = "begin" /\ q[3].start = n
<1>1. CASE q = <<>>
  BY <1>1 DEF Doing, Pending, LoopOf
<1>2. CASE q # <<>>
  <2>0. q \in Seq(Steps) /\ Len(q) <= 3
    BY DEF LoopOf
  <2>1. Len(q) \in 1 .. 3
    <3>1. Len(q) \in Nat \ {0}
      BY <1>2, <2>0, QueueHead
    <3>2. PICK k \in Nat \ {0} : Len(q) = k
      BY <3>1
    <3>3. k <= 3
      BY <3>2, <2>0
    <3> QED
      BY <3>2, <3>3
  <2>2. q[1].op = Doing(q) /\ q[1].start = Whom(q) /\ Doing(q) # "idle"
    BY <1>2, <2>0, QueueHead
  <2>4. CASE Len(q) = 1
    BY <1>2, <2>1, <2>2, <2>4 DEF LoopOf, Pending
  <2>5. CASE Len(q) = 2
    BY <1>2, <2>1, <2>2, <2>5 DEF LoopOf, Pending
  <2>6. CASE Len(q) = 3
    BY <1>2, <2>1, <2>2, <2>6 DEF LoopOf, Pending
  <2> QED
    BY <2>1, <2>4, <2>5, <2>6
<1> QED
  BY <1>1, <1>2


LEMMA HaltRuns ==
  ASSUME NEW q, NEW n \in Starts \union {None}, LoopOf(q, n), Doing(q) = "halt"
  PROVE  LET r == <<Step("run", None)>> \o Tail(q)
         IN  LoopOf(r, n) /\ Doing(r) = "run" /\ (Pending(r) <=> Pending(q))
<1> DEFINE r == <<Step("run", None)>> \o Tail(q)
<1>1. q \in Seq(Steps) /\ q # <<>> /\ q[1].op = "halt" /\ Step("run", None) \in Steps
  BY LoopSays, QueueHead DEF LoopOf, Steps, Step, Doing
<1>2. r \in Seq(Steps) /\ Len(r) = Len(q) /\ r[1] = Step("run", None) /\ \A i \in 2 .. Len(q) : r[i] = q[i]
  BY <1>1, PutOne
<1>3. r # <<>> /\ r[1].op = "run" /\ r[1].start = None
  BY <1>1, <1>2 DEF Step
<1> HIDE DEF r
<1>4. LoopOf(r, n)
  BY <1>1, <1>2, <1>3, LoopSays DEF LoopOf
<1> QED
  BY <1>1, <1>2, <1>3, <1>4, LoopSays DEF Pending, Doing, Whom, r

LEMMA FinishClears ==
  ASSUME NEW q, NEW n \in Starts \union {None}, LoopOf(q, n), Doing(q) = "finish"
  PROVE  LET r == <<Step("clear", Whom(q))>> \o Tail(q)
         IN  LoopOf(r, n) /\ Doing(r) = "clear" /\ Whom(r) = Whom(q) /\ (Pending(r) <=> Pending(q))
<1> DEFINE r == <<Step("clear", Whom(q))>> \o Tail(q)
<1>1. q \in Seq(Steps) /\ q # <<>> /\ q[1].op = "finish" /\ Step("clear", Whom(q)) \in Steps
  BY LoopSays, QueueHead DEF LoopOf, Steps, Step, Doing
<1>2. r \in Seq(Steps) /\ Len(r) = Len(q) /\ r[1] = Step("clear", Whom(q)) /\ \A i \in 2 .. Len(q) : r[i] = q[i]
  BY <1>1, PutOne
<1>3. r # <<>> /\ r[1].op = "clear" /\ r[1].start = Whom(q)
  BY <1>1, <1>2 DEF Step
<1> HIDE DEF r
<1>4. Len(q) \in {2, 3} /\ q[2].op = "forget" /\ Whom(q) \in Starts
  BY LoopSays
<1>5. LoopOf(r, n)
  <2>1. CASE Len(q) = 2
    BY <1>1, <1>2, <1>3, <1>4, <2>1 DEF LoopOf
  <2>2. CASE Len(q) = 3
    BY <1>1, <1>2, <1>3, <1>4, <2>2, LoopSays DEF LoopOf
  <2> QED
    BY <1>4, <2>1, <2>2
<1> QED
  BY <1>1, <1>2, <1>3, <1>4, <1>5, LoopSays DEF Pending, Doing, Whom, r

LEMMA BeginPlays ==
  ASSUME NEW q, NEW n \in Starts \union {None}, LoopOf(q, n), Doing(q) = "begin"
  PROVE  LET r == <<Step("play", Whom(q))>> \o Tail(q)
         IN  LoopOf(r, n) /\ Doing(r) = "play" /\ Pending(r)
<1> DEFINE r == <<Step("play", Whom(q))>> \o Tail(q)
<1>1. q \in Seq(Steps) /\ q # <<>> /\ q[1].op = "begin" /\ Step("play", Whom(q)) \in Steps
  BY LoopSays, QueueHead DEF LoopOf, Steps, Step, Doing
<1>2. r \in Seq(Steps) /\ Len(r) = Len(q) /\ r[1] = Step("play", Whom(q)) /\ \A i \in 2 .. Len(q) : r[i] = q[i]
  BY <1>1, PutOne
<1>3. r # <<>> /\ r[1].op = "play" /\ r[1].start = Whom(q)
  BY <1>1, <1>2 DEF Step
<1> HIDE DEF r
<1>4. LoopOf(r, n)
  BY <1>1, <1>2, <1>3, LoopSays DEF LoopOf
<1> QED
  BY <1>1, <1>2, <1>3, <1>4, LoopSays DEF Pending, Doing, Whom, r

LEMMA PlayStarts ==
  ASSUME NEW q, NEW n \in Starts \union {None}, LoopOf(q, n), Doing(q) = "play"
  PROVE  LET r == <<Step("started", Whom(q))>> \o Tail(q)
         IN  LoopOf(r, n) /\ Doing(r) = "started" /\ ~Pending(r)
<1> DEFINE r == <<Step("started", Whom(q))>> \o Tail(q)
<1>1. q \in Seq(Steps) /\ q # <<>> /\ q[1].op = "play" /\ Step("started", Whom(q)) \in Steps
  BY LoopSays, QueueHead DEF LoopOf, Steps, Step, Doing
<1>2. r \in Seq(Steps) /\ Len(r) = Len(q) /\ r[1] = Step("started", Whom(q)) /\ \A i \in 2 .. Len(q) : r[i] = q[i]
  BY <1>1, PutOne
<1>3. r # <<>> /\ r[1].op = "started" /\ r[1].start = Whom(q)
  BY <1>1, <1>2 DEF Step
<1> HIDE DEF r
<1>4. LoopOf(r, n)
  BY <1>1, <1>2, <1>3, LoopSays DEF LoopOf
<1> QED
  BY <1>1, <1>2, <1>3, <1>4, LoopSays DEF Pending, Doing, Whom, r

LEMMA Fresh ==
  ASSUME NEW n \in Starts \union {None}
  PROVE  /\ LET r == <<Step("halt", None)>>
            IN  LoopOf(r, n) /\ Doing(r) = "halt" /\ ~Pending(r)
         /\ LET r == <<Step("begin", n)>>
            IN  LoopOf(r, n) /\ Doing(r) = "begin" /\ Pending(r)
         /\ LET r == <<Step("halt", None), Step("begin", n)>>
            IN  LoopOf(r, n) /\ Doing(r) = "halt" /\ Pending(r)
         /\ LoopOf(<<>>, n) /\ Doing(<<>>) = "idle" /\ ~Pending(<<>>)
<1>1. Step("halt", None) \in Steps /\ Step("begin", n) \in Steps
  BY DEF Steps, Step
<1>2. LET r == <<Step("halt", None)>> IN LoopOf(r, n) /\ Doing(r) = "halt" /\ ~Pending(r)
  BY <1>1 DEF LoopOf, Doing, Pending, Step
<1>3. LET r == <<Step("begin", n)>> IN LoopOf(r, n) /\ Doing(r) = "begin" /\ Pending(r)
  BY <1>1 DEF LoopOf, Doing, Pending, Step
<1>4. LET r == <<Step("halt", None), Step("begin", n)>> IN LoopOf(r, n) /\ Doing(r) = "halt" /\ Pending(r)
  BY <1>1 DEF LoopOf, Doing, Pending, Step
<1>5. LoopOf(<<>>, n) /\ Doing(<<>>) = "idle" /\ ~Pending(<<>>)
  BY DEF LoopOf, Doing, Pending
<1> QED
  BY <1>2, <1>3, <1>4, <1>5

LEMMA NothingBehind ==
  ASSUME NEW q, NEW n \in Starts \union {None}, LoopOf(q, n), Doing(q) \in {"play", "started"}
  PROVE  <<>> \o Tail(q) = <<>>
<1>1. q \in Seq(Steps) /\ q # <<>> /\ Len(q) = 1
  BY LoopSays DEF LoopOf
<1> DEFINE r == <<>> \o Tail(q)
<1>2. r \in Seq(Steps) /\ Len(r) = Len(q) - 1
  BY <1>1, Dropped
<1> HIDE DEF r
<1>3. Len(r) = 0
  BY <1>1, <1>2
<1>4. r = <<>>
  BY <1>2, <1>3, EmptySeq
<1> QED
  BY <1>4 DEF r

LEMMA StopIsOver ==
  ASSUME NEW q, NEW n \in Starts \union {None}, LoopOf(q, n), Doing(q) \in {"run", "forget"}
  PROVE  LET r == <<>> \o Tail(q)
         IN  /\ LoopOf(r, n) /\ (Pending(r) <=> Pending(q))
             /\ Doing(r) = IF Pending(q) THEN "begin" ELSE "idle"
<1> DEFINE r == <<>> \o Tail(q)
<1>1. q \in Seq(Steps) /\ q # <<>> /\ Len(q) \in {1, 2} /\ (Pending(q) <=> Len(q) = 2)
  BY LoopSays DEF LoopOf
<1>2. r \in Seq(Steps) /\ Len(r) = Len(q) - 1 /\ \A i \in 1 .. Len(q) - 1 : r[i] = q[i + 1]
  BY <1>1, Dropped
<1> HIDE DEF r
<1>3. LoopOf(r, n) /\ (Pending(r) <=> Pending(q)) /\ Doing(r) = IF Pending(q) THEN "begin" ELSE "idle"
  <2>1. CASE Len(q) = 1
    <3>1. Len(r) = 0
      BY <1>2, <2>1
    <3>2. r = <<>> /\ ~Pending(q)
      BY <1>1, <1>2, <2>1, <3>1, EmptySeq
    <3> QED
      BY <3>2, Fresh DEF Pending
  <2>2. CASE Len(q) = 2
    <3>1. Len(r) = 1
      BY <1>2, <2>2
    <3>2. r # <<>> /\ r[1] = q[2]
      BY <1>2, <2>2, <3>1
    <3>3. r[1].op = "begin" /\ r[1].start = n
      BY <2>2, <3>2, LoopSays
    <3> QED
      BY <1>1, <1>2, <2>2, <3>1, <3>2, <3>3 DEF LoopOf, Pending, Doing
  <2> QED
    BY <1>1, <2>1, <2>2
<1> QED
  BY <1>3 DEF r

LEMMA ClearForgets ==
  ASSUME NEW q, NEW n \in Starts \union {None}, LoopOf(q, n), Doing(q) = "clear"
  PROVE  LET r == <<>> \o Tail(q)
         IN  LoopOf(r, n) /\ Doing(r) = "forget" /\ (Pending(r) <=> Pending(q))
<1> DEFINE r == <<>> \o Tail(q)
<1>1. q \in Seq(Steps) /\ q # <<>> /\ Len(q) \in {2, 3} /\ (Pending(q) <=> Len(q) = 3) /\ q[2].op = "forget"
  BY LoopSays DEF LoopOf
<1>2. r \in Seq(Steps) /\ Len(r) = Len(q) - 1 /\ \A i \in 1 .. Len(q) - 1 : r[i] = q[i + 1]
  BY <1>1, Dropped
<1> HIDE DEF r
<1>3. LoopOf(r, n) /\ Doing(r) = "forget" /\ (Pending(r) <=> Pending(q))
  <2>1. CASE Len(q) = 2
    <3>1. Len(r) = 1
      BY <1>2, <2>1
    <3>2. r # <<>> /\ r[1] = q[2]
      BY <1>2, <2>1, <3>1
    <3> QED
      BY <1>1, <1>2, <2>1, <3>1, <3>2 DEF LoopOf, Pending, Doing
  <2>2. CASE Len(q) = 3
    <3>1. Len(r) = 2
      BY <1>2, <2>2
    <3>2. r # <<>> /\ r[1] = q[2] /\ r[2] = q[3]
      BY <1>2, <2>2, <3>1
    <3>3. r[2].op = "begin" /\ r[2].start = n
      BY <2>2, <3>2, LoopSays
    <3> QED
      BY <1>1, <1>2, <2>2, <3>1, <3>2, <3>3 DEF LoopOf, Pending, Doing
  <2> QED
    BY <1>1, <2>1, <2>2
<1> QED
  BY <1>3 DEF r

LEMMA RunFinishes ==
  ASSUME NEW q, NEW n \in Starts \union {None}, LoopOf(q, n), Doing(q) = "run", NEW m \in Starts
  PROVE  LET r == <<Step("finish", m), Step("forget", None)>> \o Tail(q)
         IN  LoopOf(r, n) /\ Doing(r) = "finish" /\ Whom(r) = m /\ (Pending(r) <=> Pending(q))
<1> DEFINE a == Step("finish", m)
           b == Step("forget", None)
           r == <<a, b>> \o Tail(q)
<1>1. q \in Seq(Steps) /\ q # <<>> /\ Len(q) \in {1, 2} /\ (Pending(q) <=> Len(q) = 2)
  BY LoopSays DEF LoopOf
<1>2. /\ a \in Steps /\ b \in Steps /\ a.op = "finish" /\ a.start = m /\ b.op = "forget"
  BY DEF Steps, Step
<1> HIDE DEF a, b
<1>3. r \in Seq(Steps) /\ Len(r) = Len(q) + 1 /\ r[1] = a /\ r[2] = b
      /\ \A i \in 3 .. Len(q) + 1 : r[i] = q[i - 1]
  BY <1>1, <1>2, PutTwo
<1> HIDE DEF r
<1>4. LoopOf(r, n) /\ Doing(r) = "finish" /\ Whom(r) = m /\ (Pending(r) <=> Pending(q))
  <2>1. CASE Len(q) = 1
    <3>1. Len(r) = 2 /\ r # <<>>
      BY <1>3, <2>1
    <3> QED
      BY <1>1, <1>2, <1>3, <2>1, <3>1 DEF LoopOf, Pending, Doing, Whom
  <2>2. CASE Len(q) = 2
    <3>1. Len(r) = 3 /\ r # <<>> /\ r[3] = q[2]
      BY <1>3, <2>2
    <3>2. r[3].op = "begin" /\ r[3].start = n
      BY <2>2, <3>1, LoopSays
    <3> QED
      BY <1>1, <1>2, <1>3, <2>2, <3>1, <3>2 DEF LoopOf, Pending, Doing, Whom
  <2> QED
    BY <1>1, <2>1, <2>2
<1> QED
  BY <1>4 DEF r, a, b

LEMMA OneBehind ==
  ASSUME NEW n \in Nat, NEW q, MpvOf(q, n), q # <<>>, NEW a
  PROVE  <<>> \o Tail(q) = <<>> /\ <<a>> \o Tail(q) = <<a>>
<1>1. q \in Seq(Steps) /\ Len(q) <= 1
  BY DEF MpvOf
<1>2. Len(q) \in Nat \ {0}
  BY <1>1, QueueHead
<1>3. PICK k \in Nat \ {0} : Len(q) = k
  BY <1>2
<1>4. k = 1
  BY <1>1, <1>3
<1>5. Tail(q) \in Seq(Steps) /\ Len(Tail(q)) = 0
  BY <1>1, <1>3, <1>4
<1>6. Tail(q) = <<>>
  BY <1>5, EmptySeq
<1> DEFINE z == <<a>>
<1>7. z \in Seq({a}) /\ <<>> \in Seq({a})
  OBVIOUS
<1> HIDE DEF z
<1>8. <<>> \o <<>> = <<>> /\ z \o <<>> = z
  BY <1>7, ConcatEmptySeq
<1> QED
  BY <1>6, <1>8 DEF z

LEMMA OneStep ==
  ASSUME NEW n \in Nat
  PROVE  /\ MpvOf(<<>>, n) /\ Doing(<<>>) = "idle"
         /\ LET r == <<Step("track", None)>> IN MpvOf(r, n) /\ Doing(r) = "track"
         /\ \A m \in Starts : m <= n =>
              LET r == <<Step("finish", m)>> IN MpvOf(r, n) /\ Doing(r) = "finish" /\ Whom(r) = m
         /\ \A m \in Starts : m <= n =>
              LET r == <<Step("clear", m)>> IN MpvOf(r, n) /\ Doing(r) = "clear" /\ Whom(r) = m
         /\ \A q : MpvOf(q, n) => Doing(q) \in {"idle", "track", "finish", "clear"} /\ (Doing(q) = "idle" <=> q = <<>>)
         /\ \A q : MpvOf(q, n) /\ Doing(q) \in {"finish", "clear"} => Whom(q) \in 1 .. n
<1>1. MpvOf(<<>>, n) /\ Doing(<<>>) = "idle"
  BY DEF MpvOf, Doing
<1>2. LET r == <<Step("track", None)>> IN MpvOf(r, n) /\ Doing(r) = "track"
  <2>1. Step("track", None) \in Steps
    BY DEF Steps, Step
  <2> QED
    BY <2>1 DEF MpvOf, Doing, Step
<1>3. ASSUME NEW m \in Starts, m <= n, NEW o \in {"finish", "clear"}
      PROVE  LET r == <<Step(o, m)>> IN MpvOf(r, n) /\ Doing(r) = o /\ Whom(r) = m
  <2>1. Step(o, m) \in Steps /\ m \in 1 .. n
    BY <1>3, StartsAreNumbers DEF Steps, Step, Starts
  <2> QED
    BY <1>3, <2>1 DEF MpvOf, Doing, Whom, Step
<1>5. ASSUME NEW q, MpvOf(q, n)
      PROVE  /\ Doing(q) \in {"idle", "track", "finish", "clear"} /\ (Doing(q) = "idle" <=> q = <<>>)
             /\ Doing(q) \in {"finish", "clear"} => Whom(q) \in 1 .. n
  BY <1>5 DEF MpvOf, Doing, Whom
<1> QED
  BY <1>1, <1>2, <1>3, <1>5

-----------------------------------------------------------------------------
\* And what each action does to the queues.

LEMMA LoopGoesOn ==
  ASSUME Types, NEW then, Continue("loop", then)
  PROVE  /\ loop' = then \o Tail(loop) /\ mpv' = mpv
         /\ loop' \in Seq(Steps) => todo' \in [Threads -> Seq(Steps)]
  BY DEF Types, Continue, Threads, loop, mpv

LEMMA MpvGoesOn ==
  ASSUME Types, NEW then, Continue("mpv", then)
  PROVE  /\ mpv' = then \o Tail(mpv) /\ loop' = loop
         /\ mpv' \in Seq(Steps) => todo' \in [Threads -> Seq(Steps)]
  BY DEF Types, Continue, Threads, loop, mpv

LEMMA LoopCalled ==
  ASSUME Types, NEW steps, Call("loop", steps)
  PROVE  /\ loop = <<>> /\ loop' = steps /\ mpv' = mpv
         /\ loop' \in Seq(Steps) => todo' \in [Threads -> Seq(Steps)]
  BY DEF Types, Call, Threads, loop, mpv

LEMMA MpvCalled ==
  ASSUME Types, NEW steps, Call("mpv", steps)
  PROVE  /\ mpv = <<>> /\ mpv' = steps /\ loop' = loop
         /\ mpv' \in Seq(Steps) => todo' \in [Threads -> Seq(Steps)]
  BY DEF Types, Call, Threads, loop, mpv

LEMMA IsAt ==
  ASSUME Types, NEW o
  PROVE  /\ At("loop", o) => Doing(loop) = o /\ This("loop") = Whom(loop)
         /\ At("mpv", o) => Doing(mpv) = o /\ This("mpv") = Whom(mpv)
<1>1. loop \in Seq(Steps) /\ mpv \in Seq(Steps)
  BY DEF Types, Threads, loop, mpv
<1>2. loop # <<>> => Head(loop) = loop[1]
  BY <1>1
<1>3. mpv # <<>> => Head(mpv) = mpv[1]
  BY <1>1
<1> QED
  BY <1>2, <1>3 DEF At, This, Doing, Whom, loop, mpv

\* What is known of the two queues, and of the starts.
LEMMA Known ==
  ASSUME Types, Shapes
  PROVE  /\ loop \in Seq(Steps) /\ mpv \in Seq(Steps) /\ LoopOf(loop, last) /\ MpvOf(mpv, Latest)
         /\ last \in Starts \union {None} /\ last \in Nat /\ Latest \in Nat /\ Latest \in Starts \union {None}
         /\ Latest = IF Coming THEN last - 1 ELSE last
         /\ Coming => last \in Starts
         /\ Coming = Pending(loop)
<1>1. loop \in Seq(Steps) /\ mpv \in Seq(Steps)
  BY DEF Types, Threads, loop, mpv
<1>2. last \in Starts \union {None} /\ last \in Nat
  BY StartsAreNumbers DEF Types, Starts, None
<1>3. Coming => last \in Starts
  BY DEF Types
<1>4. Latest \in Nat /\ Latest \in Starts \union {None}
  BY <1>2, <1>3, StartsAreNumbers DEF Latest, Starts, None
<1> QED
  BY <1>1, <1>2, <1>3, <1>4 DEF Shapes, Latest, Coming

LEMMA HaltFlow ==
  ASSUME Types, Shapes, PlayerHalt
  PROVE  /\ Shapes' /\ todo' \in [Threads -> Seq(Steps)] /\ mpv' = mpv /\ Doing(loop) = "halt"
         /\ Doing(loop') = "run" /\ (Pending(loop') <=> Pending(loop)) /\ Latest' = Latest
<1>1. /\ Doing(loop) = "halt" /\ last' = last /\ This("loop") = Whom(loop)
      /\ Continue("loop", <<Step("run", None)>>)
  BY IsAt DEF PlayerHalt
<1>2. loop' = <<Step("run", None)>> \o Tail(loop) /\ mpv' = mpv
  BY <1>1, LoopGoesOn
<1>3. LoopOf(loop', last) /\ Doing(loop') = "run" /\ (Pending(loop') <=> Pending(loop))
  BY <1>1, <1>2, Known, HaltRuns, LoopSays
<1>4. todo' \in [Threads -> Seq(Steps)]
  BY <1>1, <1>3, LoopGoesOn DEF LoopOf
<1>5. Latest' = Latest /\ MpvOf(mpv', Latest')
  BY <1>1, <1>2, <1>3, Known DEF Latest, Coming
<1> QED
  BY <1>1, <1>2, <1>3, <1>4, <1>5 DEF Shapes

LEMMA ForgetFlow ==
  ASSUME Types, Shapes, PlayerForgets
  PROVE  /\ Shapes' /\ todo' \in [Threads -> Seq(Steps)] /\ mpv' = mpv /\ Doing(loop) = "forget"
         /\ Doing(loop') = (IF Pending(loop) THEN "begin" ELSE "idle") /\ (Pending(loop') <=> Pending(loop)) /\ Latest' = Latest
<1>1. /\ Doing(loop) = "forget" /\ last' = last /\ This("loop") = Whom(loop)
      /\ Continue("loop", <<>>)
  BY IsAt DEF PlayerForgets
<1>2. loop' = <<>> \o Tail(loop) /\ mpv' = mpv
  BY <1>1, LoopGoesOn
<1>3. LoopOf(loop', last) /\ Doing(loop') = (IF Pending(loop) THEN "begin" ELSE "idle") /\ (Pending(loop') <=> Pending(loop))
  BY <1>1, <1>2, Known, StopIsOver, LoopSays
<1>4. todo' \in [Threads -> Seq(Steps)]
  BY <1>1, <1>3, LoopGoesOn DEF LoopOf
<1>5. Latest' = Latest /\ MpvOf(mpv', Latest')
  BY <1>1, <1>2, <1>3, Known DEF Latest, Coming
<1> QED
  BY <1>1, <1>2, <1>3, <1>4, <1>5 DEF Shapes

LEMMA BeginFlow ==
  ASSUME Types, Shapes, Begin
  PROVE  /\ Shapes' /\ todo' \in [Threads -> Seq(Steps)] /\ mpv' = mpv /\ Doing(loop) = "begin"
         /\ Doing(loop') = "play" /\ (Pending(loop') <=> Pending(loop)) /\ Latest' = Latest
<1>1. /\ Doing(loop) = "begin" /\ last' = last /\ This("loop") = Whom(loop)
      /\ Continue("loop", <<Step("play", This("loop"))>>)
  BY IsAt DEF Begin
<1>2. loop' = <<Step("play", This("loop"))>> \o Tail(loop) /\ mpv' = mpv
  BY <1>1, LoopGoesOn
<1>3. LoopOf(loop', last) /\ Doing(loop') = "play" /\ (Pending(loop') <=> Pending(loop))
  BY <1>1, <1>2, Known, BeginPlays, LoopSays
<1>4. todo' \in [Threads -> Seq(Steps)]
  BY <1>1, <1>3, LoopGoesOn DEF LoopOf
<1>5. Latest' = Latest /\ MpvOf(mpv', Latest')
  BY <1>1, <1>2, <1>3, Known DEF Latest, Coming
<1> QED
  BY <1>1, <1>2, <1>3, <1>4, <1>5 DEF Shapes

LEMMA LoopFinishFlow ==
  ASSUME Types, Shapes, Finish("loop")
  PROVE  /\ Shapes' /\ todo' \in [Threads -> Seq(Steps)] /\ mpv' = mpv /\ Doing(loop) = "finish"
         /\ Doing(loop') = "clear" /\ Whom(loop') = Whom(loop) /\ (Pending(loop') <=> Pending(loop)) /\ Latest' = Latest
<1>1. /\ Doing(loop) = "finish" /\ last' = last /\ This("loop") = Whom(loop)
      /\ Continue("loop", <<Step("clear", This("loop"))>>)
  BY IsAt DEF Finish
<1>2. loop' = <<Step("clear", This("loop"))>> \o Tail(loop) /\ mpv' = mpv
  BY <1>1, LoopGoesOn
<1>3. LoopOf(loop', last) /\ Doing(loop') = "clear" /\ Whom(loop') = Whom(loop) /\ (Pending(loop') <=> Pending(loop))
  BY <1>1, <1>2, Known, FinishClears, LoopSays
<1>4. todo' \in [Threads -> Seq(Steps)]
  BY <1>1, <1>3, LoopGoesOn DEF LoopOf
<1>5. Latest' = Latest /\ MpvOf(mpv', Latest')
  BY <1>1, <1>2, <1>3, Known DEF Latest, Coming
<1> QED
  BY <1>1, <1>2, <1>3, <1>4, <1>5 DEF Shapes

LEMMA LoopClearFlow ==
  ASSUME Types, Shapes, Clear("loop")
  PROVE  /\ Shapes' /\ todo' \in [Threads -> Seq(Steps)] /\ mpv' = mpv /\ Doing(loop) = "clear"
         /\ Doing(loop') = "forget" /\ (Pending(loop') <=> Pending(loop)) /\ Latest' = Latest
<1>1. /\ Doing(loop) = "clear" /\ last' = last /\ This("loop") = Whom(loop)
      /\ Continue("loop", <<>>)
  BY IsAt DEF Clear
<1>2. loop' = <<>> \o Tail(loop) /\ mpv' = mpv
  BY <1>1, LoopGoesOn
<1>3. LoopOf(loop', last) /\ Doing(loop') = "forget" /\ (Pending(loop') <=> Pending(loop))
  BY <1>1, <1>2, Known, ClearForgets, LoopSays
<1>4. todo' \in [Threads -> Seq(Steps)]
  BY <1>1, <1>3, LoopGoesOn DEF LoopOf
<1>5. Latest' = Latest /\ MpvOf(mpv', Latest')
  BY <1>1, <1>2, <1>3, Known DEF Latest, Coming
<1> QED
  BY <1>1, <1>2, <1>3, <1>4, <1>5 DEF Shapes

LEMMA RunFlow ==
  ASSUME Types, Shapes, PlayerRun
  PROVE  /\ Shapes' /\ todo' \in [Threads -> Seq(Steps)] /\ mpv' = mpv /\ Doing(loop) = "run"
         /\ slot = None => Doing(loop') = IF Pending(loop) THEN "begin" ELSE "idle"
         /\ slot # None => Doing(loop') = "finish" /\ Whom(loop') = slot
         /\ (Pending(loop') <=> Pending(loop)) /\ Latest' = Latest
<1> DEFINE then == IF slot = None THEN <<>> ELSE <<Step("finish", slot), Step("forget", None)>>
<1>1. Doing(loop) = "run" /\ last' = last /\ Continue("loop", then)
  BY IsAt DEF PlayerRun
<1> HIDE DEF then
<1>2. loop' = then \o Tail(loop) /\ mpv' = mpv
  BY <1>1, LoopGoesOn
<1>3. /\ LoopOf(loop', last)
      /\ slot = None => Doing(loop') = IF Pending(loop) THEN "begin" ELSE "idle"
      /\ slot # None => Doing(loop') = "finish" /\ Whom(loop') = slot
      /\ (Pending(loop') <=> Pending(loop))
  <2>1. CASE slot = None
    BY <1>1, <1>2, <2>1, Known, StopIsOver DEF then
  <2>2. CASE slot # None
    <3>1. slot \in Starts
      BY <2>2 DEF Types
    <3> QED
      BY <1>1, <1>2, <2>2, <3>1, Known, RunFinishes DEF then
  <2> QED
    BY <2>1, <2>2
<1>4. todo' \in [Threads -> Seq(Steps)]
  BY <1>1, <1>3, LoopGoesOn DEF LoopOf
<1>5. Latest' = Latest /\ MpvOf(mpv', Latest')
  BY <1>1, <1>2, <1>3, Known DEF Latest, Coming
<1> QED
  BY <1>1, <1>2, <1>3, <1>4, <1>5 DEF Shapes

LEMMA OfMore ==
  ASSUME NEW q, NEW m \in Nat, NEW n \in Nat, m <= n, MpvOf(q, m)
  PROVE  MpvOf(q, n)
BY DEF MpvOf

LEMMA PlayFlow ==
  ASSUME Types, Shapes, Play
  PROVE  /\ Shapes' /\ todo' \in [Threads -> Seq(Steps)] /\ mpv' = mpv
         /\ Doing(loop) = "play" /\ Whom(loop) = last /\ Pending(loop) /\ last \in Starts /\ last' = last
         /\ Doing(loop') = "started" /\ Whom(loop') = last /\ ~Pending(loop') /\ Latest = last - 1 /\ Latest' = last
<1>1. /\ Doing(loop) = "play" /\ last' = last /\ This("loop") = Whom(loop)
      /\ Continue("loop", <<Step("started", This("loop"))>>)
  BY IsAt DEF Play
<1>2. loop' = <<Step("started", Whom(loop))>> \o Tail(loop) /\ mpv' = mpv
  BY <1>1, LoopGoesOn
<1>3. Whom(loop) = last /\ Pending(loop)
  BY <1>1, Known, LoopSays
<1>4. LoopOf(loop', last) /\ Doing(loop') = "started" /\ ~Pending(loop')
  BY <1>1, <1>2, Known, PlayStarts
<1>5. Whom(loop') = last
  BY <1>4, Known, LoopSays
<1>6. todo' \in [Threads -> Seq(Steps)]
  BY <1>1, <1>4, LoopGoesOn DEF LoopOf
<1>7. Latest' = last /\ Latest = last - 1 /\ last \in Starts /\ last \in Nat /\ Latest \in Nat
  BY <1>1, <1>3, <1>4, Known DEF Latest, Coming
<1>8. MpvOf(mpv', Latest')
  BY <1>2, <1>7, Known, OfMore
<1> QED
  BY <1>1, <1>2, <1>3, <1>4, <1>5, <1>6, <1>7, <1>8 DEF Shapes

LEMMA RefusedFlow ==
  ASSUME Types, Shapes, PlayRefused
  PROVE  /\ Shapes' /\ todo' \in [Threads -> Seq(Steps)] /\ mpv' = mpv
         /\ Doing(loop) = "play" /\ This("loop") = last /\ Pending(loop) /\ last \in Starts /\ last' = last
         /\ Doing(loop') = "idle" /\ ~Pending(loop') /\ Latest = last - 1 /\ Latest' = last
<1>1. Doing(loop) = "play" /\ last' = last /\ This("loop") = Whom(loop) /\ Continue("loop", <<>>)
  BY IsAt DEF PlayRefused
<1>2. loop' = <<>> \o Tail(loop) /\ mpv' = mpv
  BY <1>1, LoopGoesOn
<1>3. Whom(loop) = last /\ Pending(loop)
  BY <1>1, Known, LoopSays
<1>4. loop' = <<>>
  BY <1>1, <1>2, Known, NothingBehind
<1>5. LoopOf(loop', last) /\ Doing(loop') = "idle" /\ ~Pending(loop')
  BY <1>4, Known, Fresh
<1>6. todo' \in [Threads -> Seq(Steps)]
  BY <1>1, <1>5, LoopGoesOn DEF LoopOf
<1>7. Latest' = last /\ Latest = last - 1 /\ last \in Starts /\ last \in Nat /\ Latest \in Nat
  BY <1>1, <1>3, <1>5, Known DEF Latest, Coming
<1>8. MpvOf(mpv', Latest')
  BY <1>2, <1>7, Known, OfMore
<1> QED
  BY <1>1, <1>2, <1>3, <1>5, <1>6, <1>7, <1>8 DEF Shapes

LEMMA StartedFlow ==
  ASSUME Types, Shapes, Started
  PROVE  /\ Shapes' /\ todo' \in [Threads -> Seq(Steps)] /\ mpv' = mpv
         /\ Doing(loop) = "started" /\ This("loop") = last /\ ~Pending(loop) /\ last \in Starts /\ last' = last
         /\ Doing(loop') = "idle" /\ ~Pending(loop') /\ Latest' = Latest
<1>1. Doing(loop) = "started" /\ last' = last /\ This("loop") = Whom(loop) /\ Continue("loop", <<>>)
  BY IsAt DEF Started
<1>2. loop' = <<>> \o Tail(loop) /\ mpv' = mpv
  BY <1>1, LoopGoesOn
<1>3. Whom(loop) = last /\ ~Pending(loop) /\ loop # <<>>
  BY <1>1, Known, LoopSays
<1>4. loop' = <<>>
  BY <1>1, <1>2, Known, NothingBehind
<1>5. LoopOf(loop', last) /\ Doing(loop') = "idle" /\ ~Pending(loop')
  BY <1>4, Known, Fresh
<1>6. todo' \in [Threads -> Seq(Steps)]
  BY <1>1, <1>5, LoopGoesOn DEF LoopOf
<1>7. Latest' = Latest /\ last \in Starts
  BY <1>1, <1>3, <1>5, Known DEF Latest, Coming, Types
<1> QED
  BY <1>1, <1>2, <1>3, <1>5, <1>6, <1>7, Known DEF Shapes

LEMMA StartFlow ==
  ASSUME Types, Shapes, NEW s, Start(s)
  PROVE  /\ Shapes' /\ todo' \in [Threads -> Seq(Steps)] /\ mpv' = mpv
         /\ loop = <<>> /\ Doing(loop) = "idle" /\ ~Pending(loop) /\ loop' # <<>>
         /\ Doing(loop') = (IF Halts(s) THEN "halt" ELSE "begin") /\ Pending(loop')
         /\ last' = last + 1 /\ last' \in Starts /\ last \in Nat /\ Latest' = last /\ Latest = last
<1>1. /\ last < MaxStarts /\ last' = last + 1
      /\ Call("loop", IF Halts(s) THEN <<Step("halt", None), Step("begin", last + 1)>>
                                  ELSE <<Step("begin", last + 1)>>)
  BY DEF Start
<1>2. loop = <<>> /\ mpv' = mpv
      /\ loop' = IF Halts(s) THEN <<Step("halt", None), Step("begin", last + 1)>> ELSE <<Step("begin", last + 1)>>
  BY <1>1, LoopCalled
<1>3. Doing(loop) = "idle" /\ ~Pending(loop)
  BY <1>2, Known, Fresh
<1>4. last + 1 \in Starts /\ last \in Nat
  BY <1>1, Known, StartsAreNumbers DEF Starts
<1>5. LoopOf(loop', last + 1) /\ Doing(loop') = (IF Halts(s) THEN "halt" ELSE "begin") /\ Pending(loop')
  BY <1>2, <1>4, Fresh
<1>6. todo' \in [Threads -> Seq(Steps)]
  BY <1>1, <1>5, LoopCalled DEF LoopOf
<1>7. Latest' = last /\ Latest = last
  BY <1>1, <1>3, <1>4, <1>5 DEF Latest, Coming
<1> QED
  BY <1>1, <1>2, <1>3, <1>4, <1>5, <1>6, <1>7, Known DEF Shapes, Pending

LEMMA StopFlow ==
  ASSUME Types, Shapes, StopSession \/ ConnectionLost
  PROVE  /\ Shapes' /\ todo' \in [Threads -> Seq(Steps)] /\ mpv' = mpv
         /\ Doing(loop) = "idle" /\ ~Pending(loop) /\ Doing(loop') = "halt" /\ ~Pending(loop') /\ loop' # <<>>
         /\ Latest' = Latest
<1>1. last' = last /\ Call("loop", <<Step("halt", None)>>)
  BY DEF StopSession, ConnectionLost
<1>2. loop = <<>> /\ loop' = <<Step("halt", None)>> /\ mpv' = mpv
  BY <1>1, LoopCalled
<1>3. Doing(loop) = "idle" /\ ~Pending(loop)
  BY <1>2, Known, Fresh
<1>4. LoopOf(loop', last) /\ Doing(loop') = "halt" /\ ~Pending(loop')
  BY <1>2, Known, Fresh
<1>5. todo' \in [Threads -> Seq(Steps)]
  BY <1>1, <1>4, LoopCalled DEF LoopOf
<1>6. Latest' = Latest
  BY <1>1, <1>3, <1>4 DEF Latest, Coming
<1> QED
  BY <1>1, <1>2, <1>3, <1>4, <1>5, <1>6, Known DEF Shapes

LEMMA EndOfFileFlow ==
  ASSUME Types, Shapes, EndOfFile
  PROVE  /\ Shapes' /\ todo' \in [Threads -> Seq(Steps)] /\ loop' = loop /\ Latest' = Latest
         /\ mpv = <<>> /\ Doing(mpv) = "idle" /\ Doing(mpv') \in {"track", "idle"}
<1>1. last' = last /\ Call("mpv", IF track THEN <<Step("track", None)>> ELSE <<>>)
  BY DEF EndOfFile
<1>2. mpv = <<>> /\ loop' = loop /\ mpv' = IF track THEN <<Step("track", None)>> ELSE <<>>
  BY <1>1, MpvCalled
<1>3. Latest' = Latest
  BY <1>1, <1>2 DEF Latest, Coming
<1>4. MpvOf(mpv', Latest) /\ Doing(mpv) = "idle" /\ Doing(mpv') \in {"track", "idle"}
  BY <1>2, Known, OneStep
<1>5. todo' \in [Threads -> Seq(Steps)]
  BY <1>1, <1>4, MpvCalled DEF MpvOf
<1> QED
  BY <1>1, <1>2, <1>3, <1>4, <1>5, Known DEF Shapes

LEMMA TrackFlow ==
  ASSUME Types, Shapes, SlotIsLatest, TrackFinished
  PROVE  /\ Shapes' /\ todo' \in [Threads -> Seq(Steps)] /\ loop' = loop /\ Latest' = Latest
         /\ Doing(mpv) = "track"
         /\ slot = None => Doing(mpv') = "idle"
         /\ slot # None => Doing(mpv') = "finish" /\ Whom(mpv') = slot /\ slot = Latest /\ slot \in Starts
<1> DEFINE then == IF slot = None THEN <<>> ELSE <<Step("finish", slot)>>
<1>1. Doing(mpv) = "track" /\ last' = last /\ Continue("mpv", then)
  BY IsAt DEF TrackFinished
<1> HIDE DEF then
<1>2. mpv' = then \o Tail(mpv) /\ loop' = loop
  BY <1>1, MpvGoesOn
<1>3. Latest' = Latest
  BY <1>1, <1>2 DEF Latest, Coming
<1>4. mpv' = IF slot = None THEN <<>> ELSE <<Step("finish", slot)>>
  <2>1. mpv # <<>> /\ MpvOf(mpv, Latest) /\ Latest \in Nat
    BY <1>1, Known, OneStep
  <2>2. <<>> \o Tail(mpv) = <<>> /\ <<Step("finish", slot)>> \o Tail(mpv) = <<Step("finish", slot)>>
    BY <2>1, OneBehind
  <2> QED
    BY <1>2, <2>2 DEF then
<1>5. slot # None => slot = Latest /\ slot \in Starts /\ slot <= Latest
  BY Known DEF Types, SlotIsLatest
<1>6. /\ MpvOf(mpv', Latest)
      /\ slot = None => Doing(mpv') = "idle"
      /\ slot # None => Doing(mpv') = "finish" /\ Whom(mpv') = slot
  BY <1>4, <1>5, Known, OneStep
<1>7. todo' \in [Threads -> Seq(Steps)]
  BY <1>1, <1>6, MpvGoesOn DEF MpvOf
<1> QED
  BY <1>1, <1>2, <1>3, <1>5, <1>6, <1>7, Known DEF Shapes

LEMMA MpvFinishFlow ==
  ASSUME Types, Shapes, Finish("mpv")
  PROVE  /\ Shapes' /\ todo' \in [Threads -> Seq(Steps)] /\ loop' = loop /\ Latest' = Latest
         /\ Doing(mpv) = "finish" /\ This("mpv") = Whom(mpv) /\ Whom(mpv) \in 1 .. Latest
         /\ Doing(mpv') = "clear" /\ Whom(mpv') = Whom(mpv)
<1>1. Doing(mpv) = "finish" /\ last' = last /\ This("mpv") = Whom(mpv)
      /\ Continue("mpv", <<Step("clear", This("mpv"))>>)
  BY IsAt DEF Finish
<1>2. mpv' = <<Step("clear", Whom(mpv))>> \o Tail(mpv) /\ loop' = loop
  BY <1>1, MpvGoesOn
<1>3. Latest' = Latest
  BY <1>1, <1>2 DEF Latest, Coming
<1>4. mpv' = <<Step("clear", Whom(mpv))>>
  BY <1>1, <1>2, Known, OneStep, OneBehind
<1>5. Whom(mpv) \in 1 .. Latest /\ Whom(mpv) \in Starts /\ Whom(mpv) <= Latest
  <2>1. Whom(mpv) \in 1 .. Latest
    BY <1>1, Known, OneStep
  <2> QED
    BY <2>1, Known, StartsAreNumbers DEF Starts, None
<1>6. MpvOf(mpv', Latest) /\ Doing(mpv') = "clear" /\ Whom(mpv') = Whom(mpv)
  BY <1>4, <1>5, Known, OneStep
<1>7. todo' \in [Threads -> Seq(Steps)]
  BY <1>1, <1>6, MpvGoesOn DEF MpvOf
<1> QED
  BY <1>1, <1>2, <1>3, <1>5, <1>6, <1>7, Known DEF Shapes

LEMMA MpvClearFlow ==
  ASSUME Types, Shapes, Clear("mpv")
  PROVE  /\ Shapes' /\ todo' \in [Threads -> Seq(Steps)] /\ loop' = loop /\ Latest' = Latest
         /\ Doing(mpv) = "clear" /\ This("mpv") = Whom(mpv) /\ Whom(mpv) \in 1 .. Latest
         /\ Doing(mpv') = "idle"
<1>1. Doing(mpv) = "clear" /\ last' = last /\ This("mpv") = Whom(mpv) /\ Continue("mpv", <<>>)
  BY IsAt DEF Clear
<1>2. mpv' = <<>> \o Tail(mpv) /\ loop' = loop
  BY <1>1, MpvGoesOn
<1>3. Latest' = Latest
  BY <1>1, <1>2 DEF Latest, Coming
<1>4. mpv' = <<>> /\ Whom(mpv) \in 1 .. Latest
  BY <1>1, <1>2, Known, OneStep, OneBehind
<1>5. MpvOf(mpv', Latest) /\ Doing(mpv') = "idle"
  BY <1>4, Known, OneStep
<1>6. todo' \in [Threads -> Seq(Steps)]
  BY <1>1, <1>5, MpvGoesOn DEF MpvOf
<1> QED
  BY <1>1, <1>2, <1>3, <1>4, <1>5, <1>6, Known DEF Shapes

-----------------------------------------------------------------------------
\* What each action does to the rest.

LEMMA HaltKeeps ==
  ASSUME IInv, PlayerHalt
  PROVE  IInv'
<1>1. Types /\ Shapes /\ Rest
  BY DEF IInv
<1>2. /\ Shapes' /\ todo' \in [Threads -> Seq(Steps)] /\ mpv' = mpv
      /\ Doing(loop) = "halt" /\ Doing(loop') = "run" /\ loop' # <<>>
      /\ (Pending(loop') <=> Pending(loop)) /\ Latest' = Latest
  BY <1>1, HaltFlow DEF Rest, Doing
<1>3. /\ UNCHANGED <<last, id, session, slot, events, started, finished, replaced, overlapped, early>>
  BY <1>1, <1>2 DEF PlayerHalt, player, reports
<1>4. Types'
  BY <1>1, <1>2, <1>3, StartsAreNumbers, Known DEF Types, Coming
<1>5. \A n \in Starts : Unended(n)' <=> Unended(n)
  BY <1>1, <1>2, <1>3 DEF Unended, Types, Coming
<1>6. Rest'
  BY <1>1, <1>2, <1>3, <1>5, LoopSays, Known
     DEF Rest, SlotIsLatest, ReplacesNamesakes, NotYetStarted, HeldBySlot, NoneInProgress, EndIsOld,
         ClearedIsFinished, CurrentAtRest, CurrentIsLatest, Coming, Types
<1> QED
  BY <1>2, <1>4, <1>6 DEF IInv

LEMMA ForgetKeeps ==
  ASSUME IInv, PlayerForgets
  PROVE  IInv'
<1>1. Types /\ Shapes /\ Rest
  BY DEF IInv
<1>2. /\ Shapes' /\ todo' \in [Threads -> Seq(Steps)] /\ mpv' = mpv
      /\ Doing(loop) = "forget" /\ Doing(loop') = (IF Pending(loop) THEN "begin" ELSE "idle")
      /\ (Pending(loop') <=> Pending(loop)) /\ Latest' = Latest
  BY <1>1, ForgetFlow DEF Rest
<1>3. /\ UNCHANGED <<last, id, session, events, started, finished, replaced, overlapped, early>>
      /\ slot' = None
  BY <1>1, <1>2 DEF PlayerForgets, player, reports
<1>4. Types'
  BY <1>1, <1>2, <1>3, StartsAreNumbers, Known DEF Types, Coming
<1>5. \A n \in Starts : Unended(n)' <=> Unended(n)
  BY <1>1, <1>2, <1>3 DEF Unended, Types, Coming
<1>6. Rest'
  BY <1>1, <1>2, <1>3, <1>5, LoopSays, Known
     DEF Rest, SlotIsLatest, ReplacesNamesakes, NotYetStarted, HeldBySlot, NoneInProgress, EndIsOld,
         ClearedIsFinished, CurrentAtRest, CurrentIsLatest, Coming, Types
<1> QED
  BY <1>2, <1>4, <1>6 DEF IInv

LEMMA BeginKeeps ==
  ASSUME IInv, Begin
  PROVE  IInv'
<1>1. Types /\ Shapes /\ Rest
  BY DEF IInv
<1>2. /\ Shapes' /\ todo' \in [Threads -> Seq(Steps)] /\ mpv' = mpv
      /\ Doing(loop) = "begin" /\ Doing(loop') = "play" /\ Pending(loop)
      /\ (Pending(loop') <=> Pending(loop)) /\ Latest' = Latest
  BY <1>1, BeginFlow, Known, LoopSays
<1>3. /\ UNCHANGED <<last, id, slot, events, started, finished, replaced, overlapped, early>>
      /\ session' = id[last]
  BY <1>1, <1>2, IsAt, Known, LoopSays DEF Begin, player, reports
<1>4. Types'
  BY <1>1, <1>2, <1>3, StartsAreNumbers, Known DEF Types, Coming
<1>5. \A n \in Starts : Unended(n)' <=> Unended(n)
  BY <1>1, <1>2, <1>3 DEF Unended, Types, Coming
<1>6. Rest'
  BY <1>1, <1>2, <1>3, <1>5, LoopSays, Known
     DEF Rest, SlotIsLatest, ReplacesNamesakes, NotYetStarted, HeldBySlot, NoneInProgress, EndIsOld,
         ClearedIsFinished, CurrentAtRest, CurrentIsLatest, Coming, Types
<1> QED
  BY <1>2, <1>4, <1>6 DEF IInv

LEMMA RunKeeps ==
  ASSUME IInv, PlayerRun
  PROVE  IInv'
<1>1. Types /\ Shapes /\ Rest
  BY DEF IInv
<1>2. /\ Shapes' /\ todo' \in [Threads -> Seq(Steps)] /\ mpv' = mpv /\ Doing(loop) = "run"
      /\ slot = None => Doing(loop') = IF Pending(loop) THEN "begin" ELSE "idle"
      /\ slot # None => Doing(loop') = "finish" /\ Whom(loop') = slot
      /\ (Pending(loop') <=> Pending(loop)) /\ Latest' = Latest
  BY <1>1, RunFlow DEF Rest
<1>3. /\ UNCHANGED <<last, id, session, slot, events, started, finished, replaced, overlapped, early>>
  BY <1>1, <1>2 DEF PlayerRun, player, reports
<1>4. Types'
  BY <1>1, <1>2, <1>3, StartsAreNumbers, Known DEF Types, Coming
<1>5. \A n \in Starts : Unended(n)' <=> Unended(n) /\ n # slot
  BY <1>1, <1>2, <1>3, StartsAreNumbers DEF Unended, Types, Coming
<1>6. Rest'
  BY <1>1, <1>2, <1>3, <1>5, LoopSays, Known
     DEF Rest, SlotIsLatest, ReplacesNamesakes, NotYetStarted, HeldBySlot, NoneInProgress, EndIsOld,
         ClearedIsFinished, CurrentAtRest, CurrentIsLatest, Coming, Types
<1> QED
  BY <1>2, <1>4, <1>6 DEF IInv

LEMMA LoopFinishKeeps ==
  ASSUME IInv, Finish("loop")
  PROVE  IInv'
<1>1. Types /\ Shapes /\ Rest
  BY DEF IInv
<1>2. /\ Shapes' /\ todo' \in [Threads -> Seq(Steps)] /\ mpv' = mpv
      /\ Doing(loop) = "finish" /\ Doing(loop') = "clear" /\ Whom(loop') = Whom(loop) /\ Whom(loop) \in Starts
      /\ (Pending(loop') <=> Pending(loop)) /\ Latest' = Latest
  BY <1>1, LoopFinishFlow, Known, LoopSays
<1>3. /\ UNCHANGED <<last, id, session, slot, events, started, replaced, overlapped, early>>
      /\ finished' = [finished EXCEPT ![Whom(loop)] = @ + 1]
  BY <1>1, <1>2, IsAt DEF Finish, Report, player, reports
<1>4. Types'
  <2>1. finished' \in [Starts -> Nat]
    BY <1>1, <1>2, <1>3 DEF Types
  <2> QED
    BY <1>1, <1>2, <1>3, <2>1, StartsAreNumbers, Known DEF Types, Coming
<1>5. \A n \in Starts : Unended(n)' <=> Unended(n)
  BY <1>1, <1>2, <1>3 DEF Unended, Types, Coming
<1>6. Rest'
  BY <1>1, <1>2, <1>3, <1>5, LoopSays, Known
     DEF Rest, SlotIsLatest, ReplacesNamesakes, NotYetStarted, HeldBySlot, NoneInProgress, EndIsOld,
         ClearedIsFinished, CurrentAtRest, CurrentIsLatest, Coming, Types
<1> QED
  BY <1>2, <1>4, <1>6 DEF IInv

LEMMA LoopClearKeeps ==
  ASSUME IInv, Clear("loop")
  PROVE  IInv'
<1>1. Types /\ Shapes /\ Rest
  BY DEF IInv
<1>2. /\ Shapes' /\ todo' \in [Threads -> Seq(Steps)] /\ mpv' = mpv
      /\ Doing(loop) = "clear" /\ Doing(loop') = "forget" /\ loop' # <<>> /\ Whom(loop) \in Starts
      /\ (Pending(loop') <=> Pending(loop)) /\ Latest' = Latest
  BY <1>1, LoopClearFlow, Known, LoopSays DEF Doing
<1>3. /\ UNCHANGED <<last, id, slot, events, started, finished, replaced, overlapped, early>>
      /\ session' = IF session = id[Whom(loop)] THEN NoId ELSE session
  BY <1>1, <1>2, IsAt DEF Clear, player, reports
<1>4. Types'
  BY <1>1, <1>2, <1>3, StartsAreNumbers, Known DEF Types, Coming
<1>5. \A n \in Starts : Unended(n)' <=> Unended(n)
  BY <1>1, <1>2, <1>3 DEF Unended, Types, Coming
<1>6. Rest'
  BY <1>1, <1>2, <1>3, <1>5, LoopSays, Known
     DEF Rest, SlotIsLatest, ReplacesNamesakes, NotYetStarted, HeldBySlot, NoneInProgress, EndIsOld,
         ClearedIsFinished, CurrentAtRest, CurrentIsLatest, Coming, Types
<1> QED
  BY <1>2, <1>4, <1>6 DEF IInv

LEMMA PlayKeeps ==
  ASSUME IInv, Play
  PROVE  IInv'
<1>1. Types /\ Shapes /\ Rest
  BY DEF IInv
<1>2. /\ Shapes' /\ todo' \in [Threads -> Seq(Steps)] /\ mpv' = mpv
      /\ Doing(loop) = "play" /\ Whom(loop) = last /\ Pending(loop) /\ last \in Starts
      /\ Doing(loop') = "started" /\ ~Pending(loop') /\ Latest = last - 1 /\ Latest' = last /\ loop' # <<>>
  BY <1>1, PlayFlow DEF Doing
<1>3. /\ UNCHANGED <<last, id, session, events, started, finished, replaced, early>>
      /\ slot' = last
      /\ overlapped \subseteq overlapped'
      /\ Doing(mpv) # "idle" => {id[n] : n \in replaced} \subseteq overlapped'
  BY <1>1, <1>2, IsAt DEF EndUnderWay, mpv, Doing, Play, player, reports
<1>4. Types'
  BY <1>1, <1>2, <1>3, StartsAreNumbers, Known DEF Types, Coming
<1>5. \A n \in Starts : Unended(n)' => Unended(n)
  BY <1>1, <1>2, <1>3 DEF Unended, Types, Coming
<1>6. Rest'
  <2>1. SlotIsLatest'
    BY <1>1, <1>2, <1>3, <1>5, Known DEF Rest, SlotIsLatest, Coming, Types
  <2>2. ReplacesNamesakes'
    BY <1>1, <1>2, <1>3, <1>5, Known DEF Rest, ReplacesNamesakes, Coming, Types
  <2>3. NotYetStarted'
    BY <1>1, <1>2, <1>3, <1>5, Known DEF Rest, NotYetStarted, Coming, Types
  <2>4. HeldBySlot'
    <3> SUFFICES ASSUME NEW n \in Starts, n \in started \/ n = last, Unended(n)'
                 PROVE  slot' = n
      BY <1>2, <1>3 DEF HeldBySlot
    <3>1. n \notin started
      BY <1>1, <1>2, <1>5 DEF Rest, NoneInProgress
    <3> QED
      BY <1>3, <3>1
  <2>5. NoneInProgress'
    BY <1>1, <1>2, <1>3, <1>5, Known DEF Rest, NoneInProgress, Coming, Types
  <2>6. EndIsOld'
    <3> SUFFICES ASSUME Doing(mpv) \in {"finish", "clear"}, id[Whom(mpv)] = id[last]
                 PROVE  id[last] \in overlapped'
      BY <1>2, <1>3 DEF EndIsOld
    <3>1. Whom(mpv) \in 1 .. last - 1
      BY <1>1, <1>2, Known, OneStep
    <3>2. Whom(mpv) \in Starts /\ Whom(mpv) < last
      BY <1>1, <1>2, <3>1, Known, StartsAreNumbers DEF Starts
    <3>3. Whom(mpv) \in replaced
      BY <1>1, <3>2 DEF Rest, ReplacesNamesakes
    <3> QED
      BY <1>3, <3>3
  <2>7. ClearedIsFinished'
    BY <1>1, <1>2, <1>3, <1>5, Known DEF Rest, ClearedIsFinished, Coming, Types
  <2>8. CurrentAtRest'
    BY <1>1, <1>2, <1>3, <1>5, Known DEF Rest, CurrentAtRest, Coming, Types
  <2>9. CurrentIsLatest'
    BY <1>1, <1>2, <1>3, <1>5, Known DEF Rest, CurrentIsLatest, Coming, Types
  <2> QED
    BY <2>1, <2>2, <2>3, <2>4, <2>5, <2>6, <2>7, <2>8, <2>9 DEF Rest
<1> QED
  BY <1>2, <1>4, <1>6 DEF IInv

LEMMA RefusedKeeps ==
  ASSUME IInv, PlayRefused
  PROVE  IInv'
<1>1. Types /\ Shapes /\ Rest
  BY DEF IInv
<1>2. /\ Shapes' /\ todo' \in [Threads -> Seq(Steps)] /\ mpv' = mpv
      /\ Doing(loop) = "play" /\ This("loop") = last /\ Pending(loop) /\ last \in Starts
      /\ Doing(loop') = "idle" /\ ~Pending(loop') /\ Latest = last - 1 /\ Latest' = last
  BY <1>1, RefusedFlow DEF Rest
<1>3. /\ UNCHANGED <<last, id, events, started, replaced, overlapped, early>>
      /\ slot' = last
      /\ session' = NoId
      /\ finished' = [finished EXCEPT ![last] = @ + 1]
  BY <1>1, <1>2 DEF PlayRefused, Report, player, reports
<1>4. Types'
  BY <1>1, <1>2, <1>3, StartsAreNumbers, Known DEF Types, Coming
<1>5. \A n \in Starts : Unended(n)' => Unended(n) /\ n # last
  BY <1>1, <1>2, <1>3 DEF Unended, Types, Coming
<1>6. Rest'
  BY <1>1, <1>2, <1>3, <1>5, LoopSays, Known
     DEF Rest, SlotIsLatest, ReplacesNamesakes, NotYetStarted, HeldBySlot, NoneInProgress, EndIsOld,
         ClearedIsFinished, CurrentAtRest, CurrentIsLatest, Coming, Types
<1> QED
  BY <1>2, <1>4, <1>6 DEF IInv

LEMMA StartedKeeps ==
  ASSUME IInv, Started
  PROVE  IInv'
<1>1. Types /\ Shapes /\ Rest
  BY DEF IInv
<1>2. /\ Shapes' /\ todo' \in [Threads -> Seq(Steps)] /\ mpv' = mpv
      /\ Doing(loop) = "started" /\ This("loop") = last /\ ~Pending(loop) /\ last \in Starts
      /\ Doing(loop') = "idle" /\ ~Pending(loop') /\ Latest' = Latest /\ Latest = last
  BY <1>1, StartedFlow DEF Latest, Coming
<1>3. /\ UNCHANGED <<last, id, slot, events, finished, replaced, overlapped>>
      /\ session' = id[last]
      /\ started' = started \union {last}
      /\ early' = IF finished[last] = 0 THEN early ELSE early \union {last}
  BY <1>1, <1>2 DEF Started, player, reports
<1>4. Types'
  BY <1>1, <1>2, <1>3, StartsAreNumbers, Known DEF Types, Coming
<1>5. \A n \in Starts : Unended(n)' <=> Unended(n)
  BY <1>1, <1>2, <1>3 DEF Unended, Types, Coming
<1>6. Rest'
  <2>1. SlotIsLatest'
    BY <1>1, <1>2, <1>3, <1>5, Known DEF Rest, SlotIsLatest, Coming, Types
  <2>2. ReplacesNamesakes'
    BY <1>1, <1>2, <1>3, <1>5, Known DEF Rest, ReplacesNamesakes, Coming, Types
  <2>3. NotYetStarted'
    BY <1>1, <1>2, <1>3, <1>5, Known DEF Rest, NotYetStarted, Coming, Types
  <2>4. HeldBySlot'
    BY <1>1, <1>2, <1>3, <1>5, Known DEF Rest, HeldBySlot, Coming, Types
  <2>5. NoneInProgress'
    BY <1>1, <1>2, <1>3, <1>5, Known DEF Rest, NoneInProgress, Coming, Types
  <2>6. EndIsOld'
    BY <1>1, <1>2, <1>3, <1>5, Known DEF Rest, EndIsOld, Coming, Types
  <2>7. ClearedIsFinished'
    BY <1>1, <1>2, <1>3, <1>5, Known DEF Rest, ClearedIsFinished, Coming, Types
  <2>8. CurrentAtRest'
    <3> SUFFICES ASSUME NEW n \in started \union {last}, Unended(n)'
                 PROVE  id[last] = id[n]
      BY <1>3 DEF CurrentAtRest
    <3>1. n \in Starts /\ Unended(n)
      BY <1>1, <1>2, <1>5 DEF Types
    <3>2. slot = n
      BY <1>1, <1>2, <3>1 DEF Rest, HeldBySlot
    <3> QED
      BY <1>1, <1>2, <3>1, <3>2, StartsAreNumbers DEF Rest, SlotIsLatest
  <2>9. CurrentIsLatest'
    BY <1>1, <1>2, <1>3, <1>5, Known DEF Rest, CurrentIsLatest, Coming, Types
  <2> QED
    BY <2>1, <2>2, <2>3, <2>4, <2>5, <2>6, <2>7, <2>8, <2>9 DEF Rest
<1> QED
  BY <1>2, <1>4, <1>6 DEF IInv

LEMMA StopKeeps ==
  ASSUME IInv, StopSession \/ ConnectionLost
  PROVE  IInv'
<1>1. Types /\ Shapes /\ Rest
  BY DEF IInv
<1>2. /\ Shapes' /\ todo' \in [Threads -> Seq(Steps)] /\ mpv' = mpv
      /\ Doing(loop) = "idle" /\ ~Pending(loop) /\ Doing(loop') = "halt" /\ ~Pending(loop') /\ loop' # <<>>
      /\ Latest' = Latest
  BY <1>1, StopFlow DEF Rest
<1>3. /\ UNCHANGED <<last, id, session, slot, events, started, finished, replaced, overlapped, early>>
  BY <1>1, <1>2 DEF StopSession, ConnectionLost, player, reports
<1>4. Types'
  BY <1>1, <1>2, <1>3, StartsAreNumbers, Known DEF Types, Coming
<1>5. \A n \in Starts : Unended(n)' <=> Unended(n)
  BY <1>1, <1>2, <1>3 DEF Unended, Types, Coming
<1>6. Rest'
  BY <1>1, <1>2, <1>3, <1>5, LoopSays, Known
     DEF Rest, SlotIsLatest, ReplacesNamesakes, NotYetStarted, HeldBySlot, NoneInProgress, EndIsOld,
         ClearedIsFinished, CurrentAtRest, CurrentIsLatest, Coming, Types
<1> QED
  BY <1>2, <1>4, <1>6 DEF IInv

LEMMA StartKeeps ==
  ASSUME IInv, NEW s \in Ids, Start(s)
  PROVE  IInv'
<1>1. Types /\ Shapes /\ Rest
  BY DEF IInv
<1>2. /\ Shapes' /\ todo' \in [Threads -> Seq(Steps)] /\ mpv' = mpv
      /\ loop = <<>> /\ Doing(loop) = "idle" /\ ~Pending(loop) /\ loop' # <<>>
      /\ Doing(loop') = (IF Halts(s) THEN "halt" ELSE "begin") /\ Pending(loop')
      /\ last' = last + 1 /\ last' \in Starts /\ last \in Nat /\ Latest' = last /\ Latest = last
  BY <1>1, StartFlow DEF Rest
<1>3. /\ UNCHANGED <<session, slot, events, started, finished, overlapped, early>>
      /\ id' = [id EXCEPT ![last + 1] = s]
      /\ replaced' = replaced \union {n \in Starts : id[n] = s}
  BY <1>1, <1>2 DEF Start, player, reports
<1>4. Types'
  <2>1. id' \in [Starts -> Ids \union {NoId}] /\ \A n \in Starts : id'[n] \in Ids <=> n <= last'
    BY <1>1, <1>2, <1>3, StartsAreNumbers DEF Types
  <2>2. replaced' \subseteq Starts /\ \A n \in started' : n <= last'
    <3>1. \A n \in started : n \in Nat /\ n <= last
      BY <1>1, StartsAreNumbers DEF Types
    <3>2. \A n \in started : n <= last'
      BY <1>2, <3>1
    <3>3. replaced' \subseteq Starts
      BY <1>1, <1>3 DEF Types
    <3> QED
      BY <1>3, <3>2, <3>3
  <2>3. last' \in 0 .. MaxStarts
    BY <1>2, StartsAreNumbers DEF Starts
  <2> QED
    BY <1>1, <1>2, <1>3, <2>1, <2>2, <2>3 DEF Types, Coming
<1>5. \A n \in Starts : n <= last => (Unended(n)' <=> Unended(n) /\ id[n] # s)
  BY <1>1, <1>2, <1>3 DEF Unended, Types, Coming
<1>6. Rest'
  <2>1. SlotIsLatest'
    BY <1>1, <1>2, <1>3, <1>5, Known DEF Rest, SlotIsLatest, Coming, Types
  <2>2. ReplacesNamesakes'
    BY <1>1, <1>2, <1>3, <1>5, Known DEF Rest, ReplacesNamesakes, Coming, Types
  <2>3. NotYetStarted'
    BY <1>1, <1>2, <1>3, <1>5, Known DEF Rest, NotYetStarted, Coming, Types
  <2>4. HeldBySlot'
    BY <1>1, <1>2, <1>3, <1>5, Known DEF Rest, HeldBySlot, Coming, Types
  <2>5. NoneInProgress'
    <3> SUFFICES ASSUME ~Halts(s), NEW n \in started, Unended(n)'
                 PROVE  FALSE
      BY <1>2, <1>3 DEF NoneInProgress
    <3>1. n \in Starts /\ n <= last /\ Unended(n) /\ id[n] # s
      BY <1>1, <1>5 DEF Types
    <3>2. session = id[n] /\ id[n] \in Ids
      BY <1>1, <1>2, <3>1 DEF Rest, CurrentAtRest, Types
    <3> QED
      BY <3>1, <3>2, MediaSessionAssumption DEF Halts, NoId
  <2>6. EndIsOld'
    <3> SUFFICES ASSUME Doing(mpv) \in {"finish", "clear"}, last \in Starts
                 PROVE  \/ Whom(mpv) = last
                        \/ id'[Whom(mpv)] # id'[last]
                        \/ finished[last] > 0
                        \/ id'[last] \in overlapped
      BY <1>2, <1>3 DEF EndIsOld
    <3>1. Whom(mpv) \in 1 .. last
      BY <1>1, <1>2, Known, OneStep
    <3>2. Whom(mpv) \in Starts /\ Whom(mpv) # last + 1 /\ last # last + 1
      BY <1>2, <3>1, StartsAreNumbers DEF Starts
    <3>3. id'[Whom(mpv)] = id[Whom(mpv)] /\ id'[last] = id[last]
      BY <1>1, <1>3, <3>2 DEF Types
    <3> QED
      BY <1>1, <1>2, <3>3 DEF Rest, EndIsOld
  <2>7. ClearedIsFinished'
    BY <1>1, <1>2, <1>3, <1>5, Known DEF Rest, ClearedIsFinished, Coming, Types
  <2>8. CurrentAtRest'
    BY <1>1, <1>2, <1>3, <1>5, Known DEF Rest, CurrentAtRest, Coming, Types
  <2>9. CurrentIsLatest'
    BY <1>1, <1>2, <1>3, <1>5, Known DEF Rest, CurrentIsLatest, Coming, Types
  <2> QED
    BY <2>1, <2>2, <2>3, <2>4, <2>5, <2>6, <2>7, <2>8, <2>9 DEF Rest
<1> QED
  BY <1>2, <1>4, <1>6 DEF IInv

LEMMA ElseKeeps ==
  ASSUME IInv, ControlSession \/ FileEnds \/ FileFails
  PROVE  IInv'
<1>1. Types /\ Shapes /\ Rest
  BY DEF IInv
<1>2. /\ UNCHANGED <<todo, loop, mpv>> /\ Shapes' /\ Latest' = Latest
  BY <1>1 DEF ControlSession, FileEnds, FileFails, loop, mpv, Shapes, Latest, Coming
<1>3. /\ UNCHANGED <<last, id, session, slot, started, finished, replaced, overlapped, early>>
      /\ events' \in Nat
  BY <1>1, <1>2 DEF Types, ControlSession, FileEnds, FileFails, player, reports
<1>4. Types'
  BY <1>1, <1>2, <1>3, StartsAreNumbers, Known DEF Types, Coming
<1>5. \A n \in Starts : Unended(n)' <=> Unended(n)
  BY <1>1, <1>2, <1>3 DEF Unended, Types, Coming
<1>6. Rest'
  BY <1>1, <1>2, <1>3, <1>5, LoopSays, Known
     DEF Rest, SlotIsLatest, ReplacesNamesakes, NotYetStarted, HeldBySlot, NoneInProgress, EndIsOld,
         ClearedIsFinished, CurrentAtRest, CurrentIsLatest, Coming, Types
<1> QED
  BY <1>2, <1>4, <1>6 DEF IInv

LEMMA EndOfFileKeeps ==
  ASSUME IInv, EndOfFile
  PROVE  IInv'
<1>1. Types /\ Shapes /\ Rest
  BY DEF IInv
<1>2. /\ Shapes' /\ todo' \in [Threads -> Seq(Steps)] /\ loop' = loop /\ Latest' = Latest
      /\ Doing(mpv) = "idle" /\ Doing(mpv') \in {"track", "idle"}
  BY <1>1, EndOfFileFlow DEF Rest
<1>3. /\ UNCHANGED <<last, id, session, slot, started, finished, replaced, overlapped, early>>
      /\ events' \in Nat
  BY <1>1, <1>2 DEF Types, EndOfFile, player, reports
<1>4. Types'
  BY <1>1, <1>2, <1>3, StartsAreNumbers, Known DEF Types, Coming
<1>5. \A n \in Starts : Unended(n)' <=> Unended(n)
  BY <1>1, <1>2, <1>3 DEF Unended, Types, Coming
<1>6. Rest'
  BY <1>1, <1>2, <1>3, <1>5, LoopSays, Known
     DEF Rest, SlotIsLatest, ReplacesNamesakes, NotYetStarted, HeldBySlot, NoneInProgress, EndIsOld,
         ClearedIsFinished, CurrentAtRest, CurrentIsLatest, Coming, Types
<1> QED
  BY <1>2, <1>4, <1>6 DEF IInv

LEMMA TrackKeeps ==
  ASSUME IInv, TrackFinished
  PROVE  IInv'
<1>1. Types /\ Shapes /\ Rest
  BY DEF IInv
<1>2. /\ Shapes' /\ todo' \in [Threads -> Seq(Steps)] /\ loop' = loop /\ Latest' = Latest /\ Doing(mpv) = "track"
      /\ slot = None => Doing(mpv') = "idle"
      /\ slot # None => Doing(mpv') = "finish" /\ Whom(mpv') = slot /\ slot = Latest
  BY <1>1, TrackFlow DEF Rest
<1>3. /\ UNCHANGED <<last, id, session, events, started, finished, replaced, overlapped, early>>
      /\ slot' = None
  BY <1>1, <1>2 DEF TrackFinished, player, reports
<1>4. Types'
  BY <1>1, <1>2, <1>3, StartsAreNumbers, Known DEF Types, Coming
<1>5. \A n \in Starts : Unended(n)' <=> Unended(n) /\ n # slot
  BY <1>1, <1>2, <1>3, StartsAreNumbers DEF Unended, Types, Coming
<1>6. Rest'
  BY <1>1, <1>2, <1>3, <1>5, LoopSays, Known
     DEF Rest, SlotIsLatest, ReplacesNamesakes, NotYetStarted, HeldBySlot, NoneInProgress, EndIsOld,
         ClearedIsFinished, CurrentAtRest, CurrentIsLatest, Coming, Types
<1> QED
  BY <1>2, <1>4, <1>6 DEF IInv

LEMMA MpvFinishKeeps ==
  ASSUME IInv, Finish("mpv")
  PROVE  IInv'
<1>1. Types /\ Shapes /\ Rest
  BY DEF IInv
<1>2. /\ Shapes' /\ todo' \in [Threads -> Seq(Steps)] /\ loop' = loop /\ Latest' = Latest
      /\ Doing(mpv) = "finish" /\ Doing(mpv') = "clear" /\ Whom(mpv') = Whom(mpv) /\ Whom(mpv) \in Starts
  BY <1>1, MpvFinishFlow, Known, StartsAreNumbers DEF Starts, None
<1>3. /\ UNCHANGED <<last, id, session, slot, events, started, replaced, overlapped, early>>
      /\ finished' = [finished EXCEPT ![Whom(mpv)] = @ + 1]
  BY <1>1, <1>2, MpvFinishFlow DEF Finish, Report, player, reports
<1>4. Types'
  <2>1. finished' \in [Starts -> Nat]
    BY <1>1, <1>2, <1>3 DEF Types
  <2> QED
    BY <1>1, <1>2, <1>3, <2>1, StartsAreNumbers, Known DEF Types, Coming
<1>5. \A n \in Starts : Unended(n)' <=> Unended(n)
  BY <1>1, <1>2, <1>3 DEF Unended, Types, Coming
<1>6. Rest'
  BY <1>1, <1>2, <1>3, <1>5, LoopSays, Known
     DEF Rest, SlotIsLatest, ReplacesNamesakes, NotYetStarted, HeldBySlot, NoneInProgress, EndIsOld,
         ClearedIsFinished, CurrentAtRest, CurrentIsLatest, Coming, Types
<1> QED
  BY <1>2, <1>4, <1>6 DEF IInv

LEMMA MpvClearKeeps ==
  ASSUME IInv, Clear("mpv")
  PROVE  IInv'
<1>1. Types /\ Shapes /\ Rest
  BY DEF IInv
<1>2. /\ Shapes' /\ todo' \in [Threads -> Seq(Steps)] /\ loop' = loop /\ Latest' = Latest
      /\ Doing(mpv) = "clear" /\ Doing(mpv') = "idle" /\ Whom(mpv) \in Starts
  BY <1>1, MpvClearFlow, Known, StartsAreNumbers DEF Starts, None
<1>3. /\ UNCHANGED <<last, id, slot, events, started, finished, replaced, overlapped, early>>
      /\ session' = IF session = id[Whom(mpv)] THEN NoId ELSE session
  BY <1>1, <1>2, MpvClearFlow DEF Clear, player, reports
<1>4. Types'
  BY <1>1, <1>2, <1>3, StartsAreNumbers, Known DEF Types, Coming
<1>5. \A n \in Starts : Unended(n)' <=> Unended(n)
  BY <1>1, <1>2, <1>3 DEF Unended, Types, Coming
<1>6. Rest'
  <2>1. SlotIsLatest'
    BY <1>1, <1>2, <1>3, <1>5, Known DEF Rest, SlotIsLatest, Coming, Types
  <2>2. ReplacesNamesakes'
    BY <1>1, <1>2, <1>3, <1>5, Known DEF Rest, ReplacesNamesakes, Coming, Types
  <2>3. NotYetStarted'
    BY <1>1, <1>2, <1>3, <1>5, Known DEF Rest, NotYetStarted, Coming, Types
  <2>4. HeldBySlot'
    BY <1>1, <1>2, <1>3, <1>5, Known DEF Rest, HeldBySlot, Coming, Types
  <2>5. NoneInProgress'
    BY <1>1, <1>2, <1>3, <1>5, Known DEF Rest, NoneInProgress, Coming, Types
  <2>6. EndIsOld'
    BY <1>1, <1>2, <1>3, <1>5, Known DEF Rest, EndIsOld, Coming, Types
  <2>7. ClearedIsFinished'
    BY <1>1, <1>2, <1>3, <1>5, Known DEF Rest, ClearedIsFinished, Coming, Types
  <2>8. CurrentAtRest'
    <3> SUFFICES ASSUME loop = <<>>, NEW n \in started, Unended(n)
                 PROVE  session' = id[n]
      BY <1>1, <1>2, <1>3, <1>5 DEF CurrentAtRest, Types
    <3>1. n \in Starts /\ session = id[n]
      BY <1>1 DEF Types, Rest, CurrentAtRest
    <3>2. slot = n /\ Latest = n
      BY <1>1, <3>1, StartsAreNumbers DEF Rest, HeldBySlot, SlotIsLatest
    <3>3. Whom(mpv) # n
      BY <1>1, <1>2, <3>1 DEF Rest, ClearedIsFinished, Unended, Types
    <3>4. id[Whom(mpv)] # id[n]
      BY <1>1, <1>2, <3>1, <3>2, <3>3 DEF Rest, EndIsOld, Unended, Types
    <3> QED
      BY <1>3, <3>1, <3>4
  <2>9. CurrentIsLatest'
    BY <1>1, <1>2, <1>3, <1>5, Known DEF Rest, CurrentIsLatest, Coming, Types
  <2> QED
    BY <2>1, <2>2, <2>3, <2>4, <2>5, <2>6, <2>7, <2>8, <2>9 DEF Rest
<1> QED
  BY <1>2, <1>4, <1>6 DEF IInv

-----------------------------------------------------------------------------
\* The inductive invariant.

LEMMA InitHolds == Init => IInv
<1> SUFFICES ASSUME Init PROVE IInv
  OBVIOUS
<1>1. loop = <<>> /\ mpv = <<>> /\ last = 0 /\ session = NoId /\ slot = None /\ started = {}
  BY DEF Init, loop, mpv, Threads
<1>2. Doing(loop) = "idle" /\ Doing(mpv) = "idle" /\ ~Coming /\ Latest = 0
  BY <1>1 DEF Doing, Coming, Pending, Latest
<1>3. Types
  <2>1. todo \in [Threads -> Seq(Steps)] /\ finished \in [Starts -> Nat]
        /\ id \in [Starts -> Ids \union {NoId}] /\ replaced = {} /\ events = 0
    BY DEF Init
  <2>2. \A n \in Starts : id[n] \in Ids <=> n <= last
    BY <1>1, MediaSessionAssumption DEF Init, NoId, Starts
  <2> QED
    BY <1>1, <1>2, <2>1, <2>2, StartsAreNumbers DEF Types
<1>4. Shapes
  BY <1>1, <1>2, Fresh, OneStep DEF Shapes, None
<1>5. Rest
  BY <1>1, <1>2, StartsAreNumbers
     DEF Rest, SlotIsLatest, ReplacesNamesakes, NotYetStarted, HeldBySlot, NoneInProgress, EndIsOld,
         ClearedIsFinished, CurrentAtRest, CurrentIsLatest, None, Starts
<1> QED
  BY <1>3, <1>4, <1>5 DEF IInv

LEMMA StutterKeeps == IInv /\ UNCHANGED vars => IInv'
BY DEF vars, player, reports, IInv, Types, Shapes, Rest, SlotIsLatest, ReplacesNamesakes, NotYetStarted, HeldBySlot,
       NoneInProgress, EndIsOld, ClearedIsFinished, CurrentAtRest, CurrentIsLatest, Unended, Coming, Latest, loop, mpv

LEMMA NextKeeps == IInv /\ [Next]_vars => IInv'
<1> SUFFICES ASSUME IInv, [Next]_vars PROVE IInv'
  OBVIOUS
<1>1. CASE \E s \in Ids : Start(s)
  BY <1>1, StartKeeps
<1>2. CASE StopSession \/ ConnectionLost
  BY <1>2, StopKeeps
<1>3. CASE ControlSession \/ FileEnds \/ FileFails
  BY <1>3, ElseKeeps
<1>4. CASE PlayerHalt \/ PlayerRun \/ PlayerForgets \/ Begin \/ Play \/ PlayRefused \/ Started
  BY <1>4, HaltKeeps, RunKeeps, ForgetKeeps, BeginKeeps, PlayKeeps, RefusedKeeps, StartedKeeps
<1>5. CASE EndOfFile \/ TrackFinished
  BY <1>5, EndOfFileKeeps, TrackKeeps
<1>6. CASE \E t \in Threads : Finish(t) \/ Clear(t)
  BY <1>6, LoopFinishKeeps, LoopClearKeeps, MpvFinishKeeps, MpvClearKeeps DEF Threads
<1>7. CASE UNCHANGED vars
  BY <1>7, StutterKeeps
<1> QED
  BY <1>1, <1>2, <1>3, <1>4, <1>5, <1>6, <1>7 DEF Next, Runs

THEOREM Invariant == Spec => []IInv
  BY InitHolds, NextKeeps, PTL DEF Spec

\* A session that is in progress has not ended as far as the queues go.
LEMMA OpenIsUnended ==
  ASSUME Types, Shapes, NEW n \in Starts, Open(n), id[n] \notin overlapped
  PROVE  n \in started /\ Unended(n)
<1>1. loop \in Seq(Steps) /\ mpv \in Seq(Steps)
  BY Known
<1>2. ASSUME NEW t \in Threads, Doing(todo[t]) = "finish", Whom(todo[t]) = n
      PROVE  FALSE
  <2>1. todo[t] \in Seq(Steps) /\ todo[t] # <<>>
    BY <1>2 DEF Doing, Types
  <2>2. 1 \in DOMAIN todo[t] /\ todo[t][1] \in Steps /\ todo[t][1].op = "finish" /\ todo[t][1].start = n
    BY <1>2, <2>1, QueueHead
  <2>3. todo[t][1] = Step("finish", n)
    BY <2>2, StepIs
  <2> QED
    BY <2>2, <2>3 DEF Open
<1> QED
  BY <1>2 DEF Open, Unended, loop, mpv, Threads

\* Before a session is started, the end of the one it takes over from was reported
\* or is on its way (_start_media_session): never two are in progress.
THEOREM OneSession == Spec => []OneInProgress
<1>1. ASSUME IInv PROVE OneInProgress
  <2> SUFFICES ASSUME NEW m \in Starts, NEW n \in Starts, Open(m), Open(n),
                      id[m] \notin overlapped, id[n] \notin overlapped
               PROVE  m = n
    BY DEF OneInProgress
  <2>1. m \in started /\ Unended(m) /\ n \in started /\ Unended(n)
    BY <1>1, OpenIsUnended DEF IInv
  <2> QED
    BY <1>1, <2>1 DEF IInv, Rest, HeldBySlot
<1> QED
  BY <1>1, Invariant, PTL

\* The session in progress is the one that session.stop, pause and volume name
\* (_stop_media_session, _control_media_session).
THEOREM InProgressIsCurrent == Spec => []PlayingIsCurrent
<1>1. ASSUME IInv PROVE PlayingIsCurrent
  <2> SUFFICES ASSUME NEW n \in Starts, todo["loop"] = <<>>, Open(n), id[n] \notin overlapped
               PROVE  session = id[n]
    BY DEF PlayingIsCurrent
  <2>1. n \in started /\ Unended(n)
    BY <1>1, OpenIsUnended DEF IInv
  <2> QED
    BY <1>1, <2>1 DEF IInv, Rest, CurrentAtRest, loop
<1> QED
  BY <1>1, Invariant, PTL

\* At rest the Bluetooth scanner pauses only for a session that is not over
\* (_ble_should_pause), or that was over before it was reported started.
THEOREM PausesForASession == Spec => []PausedForASession
<1>1. ASSUME IInv PROVE PausedForASession
  <2> SUFFICES ASSUME Settled, session # NoId
               PROVE  \E n \in started : id[n] = session /\ (finished[n] = 0 \/ n \in early)
    BY DEF PausedForASession
  <2>1. loop = <<>> /\ mpv = <<>>
    BY DEF Settled, loop, mpv, Threads
  <2>2. Doing(loop) = "idle" /\ Doing(mpv) = "idle" /\ ~Coming
    BY <2>1 DEF Doing, Coming, Pending
  <2> QED
    BY <1>1, <2>2 DEF IInv, Rest, CurrentIsLatest
<1> QED
  BY <1>1, Invariant, PTL

=============================================================================
