-------------------------- MODULE BluetoothProofs --------------------------
(***************************************************************************)
(* Proofs about the two halves of ble_scanner.py.                          *)
(*                                                                         *)
(* The batch of advertisements (BleBatcher.tla), for tables, times and     *)
(* numbers of any size: the limits of the tables, when an advertisement is *)
(* passed on, and the numbers of the batches.  What is remembered is in    *)
(* the order in which it was heard, so that whatever stands behind an      *)
(* entry was heard since (HeardBehind); an entry is forgotten when the     *)
(* whole table is behind it (Forgotten).                                   *)
(*                                                                         *)
(* The observer (BleScanner.tla), for any number of starts, stops and      *)
(* failures of the adapter: whose radio it is, and that one thread         *)
(* observes at a time.                                                     *)
(***************************************************************************)
EXTENDS BleBatcher, BleScanner, SequenceTheorems, FiniteSetTheorems, TLAPS

\* The number of a batch stays within the modulus.
NumberInv == batchId \in 0 .. IdModulus - 1

\* The number that follows is another one, and not 0.
LEMMA NextNumber ==
  ASSUME NEW n \in 0 .. IdModulus - 1
  PROVE  /\ NextBatchId(n) \in 1 .. IdModulus - 1
         /\ NextBatchId(n) # n
<1>1. IdModulus \in Nat /\ IdModulus > 2
  BY BleBatcherAssumption
<1>2. CASE n + 1 = IdModulus
  <2>1. (n + 1) % IdModulus = 0
    BY <1>1, <1>2, SMT
  <2> QED
    BY <1>1, <1>2, <2>1 DEF NextBatchId
<1>3. CASE n + 1 < IdModulus
  <2>1. (n + 1) % IdModulus = n + 1
    BY <1>1, <1>3, SMT
  <2> QED
    BY <1>1, <1>3, <2>1 DEF NextBatchId
<1> QED
  BY <1>1, <1>2, <1>3

LEMMA NumberInit == BatchInit => NumberInv
  BY BleBatcherAssumption DEF BatchInit, NumberInv

LEMMA NumberStep == NumberInv /\ [BatchNext]_batchVars => NumberInv'
<1> SUFFICES ASSUME NumberInv, [BatchNext]_batchVars PROVE NumberInv'
  OBVIOUS
<1>1. CASE Flush
  BY <1>1, NextNumber, BleBatcherAssumption DEF Flush, NumberInv
<1>2. CASE UNCHANGED batchId
  BY <1>2 DEF NumberInv
<1> QED
  BY <1>1, <1>2 DEF BatchNext, batchVars, Ingest, ClearPending, Tick

(* A batch is told from the one before by its number, which is never 0      *)
(* (flush() in ble_scanner.py skips it when the number wraps).              *)
THEOREM BatchNumbersAlwaysTell == BatchSpec => BatchNumbersTell
<1>1. NumberInv /\ [BatchNext]_batchVars => [Flush => batchId' \notin {batchId, 0}]_batchVars
  BY NextNumber DEF NumberInv, Flush
<1>2. BatchSpec => []NumberInv
  BY NumberInit, NumberStep, PTL DEF BatchSpec
<1> QED
  BY <1>1, <1>2, PTL DEF BatchSpec, BatchNumbersTell

-----------------------------------------------------------------------------
\* The history of each advertisement.
HistoryType ==
  /\ passed \in [Adverts -> Int] /\ refused \in [Adverts -> Int]
  /\ \A a \in Adverts : passed[a] <= clock /\ refused[a] <= clock
  /\ heardSince \in [Adverts -> SUBSET Adverts]
  /\ \A a \in Adverts : IsFiniteSet(heardSince[a])

\* An entry holds the time when its advertisement was passed on, or would have
\* been had there been room.
TimesKept ==
  \A i \in DOMAIN dedupe :
    LET m == dedupe[i]
    IN  m.at \in {passed[m.advert], refused[m.advert]} /\ passed[m.advert] <= m.at

HeardBehind ==
  \A i, j \in DOMAIN dedupe : i < j => dedupe[j].advert \in heardSince[dedupe[i].advert]

Forgotten ==
  \A a \in Adverts :
    passed[a] # Never /\ (\A i \in DOMAIN dedupe : dedupe[i].advert # a)
      => Cardinality(heardSince[a]) >= DedupeMax

BatchInv == BatchTypeOK /\ HistoryType /\ TimesKept /\ HeardBehind /\ Forgotten

-----------------------------------------------------------------------------
\* What the operations on the tables do to a sequence.

LEMMA Limits ==
  /\ BatchMax \in Nat \ {0} /\ DedupeMax \in Nat \ {0} /\ EmitMin \in Nat /\ EmitMax \in Nat \ {0}
  /\ EmitMin <= EmitMax /\ RssiDelta \in Nat /\ Signals \subseteq Int /\ IdModulus \in Nat /\ IdModulus > 2
  BY BleBatcherAssumption

\* The place in the old table of what is at place j now that k is taken out.
Old(j, k) == IF j < k THEN j ELSE j + 1

LEMMA TakenOut ==
  ASSUME NEW S, NEW s \in Seq(S), NEW k \in 1 .. Len(s)
  PROVE  /\ RemoveAt(s, k) \in Seq(S)
         /\ Len(RemoveAt(s, k)) = Len(s) - 1
         /\ \A j \in 1 .. Len(s) - 1 : RemoveAt(s, k)[j] = s[Old(j, k)]
<1>1. Len(s) \in Nat /\ k \in Nat /\ 1 <= k /\ k <= Len(s)
  OBVIOUS
<1>2. SubSeq(s, 1, k - 1) \in Seq(S) /\ Len(SubSeq(s, 1, k - 1)) = k - 1
      /\ \A j \in 1 .. k - 1 : SubSeq(s, 1, k - 1)[j] = s[j]
  BY <1>1, SubSeqProperties
<1>3. SubSeq(s, k + 1, Len(s)) \in Seq(S) /\ Len(SubSeq(s, k + 1, Len(s))) = Len(s) - k
      /\ \A j \in 1 .. Len(s) - k : SubSeq(s, k + 1, Len(s))[j] = s[j + k]
  BY <1>1, SubSeqProperties
<1> DEFINE a == SubSeq(s, 1, k - 1)
           b == SubSeq(s, k + 1, Len(s))
<1>4. RemoveAt(s, k) = a \o b
  BY DEF RemoveAt
<1> HIDE DEF a, b
<1>5. a \in Seq(S) /\ b \in Seq(S) /\ Len(a) = k - 1 /\ Len(b) = Len(s) - k
      /\ (\A j \in 1 .. k - 1 : a[j] = s[j]) /\ (\A j \in 1 .. Len(s) - k : b[j] = s[j + k])
  BY <1>2, <1>3 DEF a, b
<1>6. a \o b \in Seq(S) /\ Len(a \o b) = Len(s) - 1
  <2>1. a \o b \in Seq(S) /\ Len(a \o b) = Len(a) + Len(b)
    BY <1>5, ConcatProperties
  <2>2. \A n \in Nat : (k - 1) + (n - k) = n - 1
    BY <1>1
  <2> QED
    BY <1>1, <1>5, <2>1, <2>2
<1>7. ASSUME NEW j \in 1 .. Len(s) - 1
      PROVE  (a \o b)[j] = s[Old(j, k)]
  <2>1. (a \o b)[j] = IF j <= Len(a) THEN a[j] ELSE b[j - Len(a)]
    BY <1>1, <1>5, ConcatProperties
  <2>2. CASE j < k
    BY <1>1, <1>5, <2>1, <2>2 DEF Old
  <2>3. CASE ~(j < k)
    <3>1. j - (k - 1) \in 1 .. Len(s) - k
      BY <1>1, <2>3
    <3>2. b[j - (k - 1)] = s[(j - (k - 1)) + k]
      BY <1>5, <3>1
    <3>3. (j - (k - 1)) + k = j + 1 /\ ~(j <= k - 1) /\ ~(j < k)
      BY <1>1, <2>3
    <3> QED
      BY <1>5, <2>1, <3>2, <3>3 DEF Old
  <2> QED
    BY <2>2, <2>3
<1> QED
  BY <1>4, <1>6, <1>7

\* The last entry of the table r after it was put there, and what stands before it:
\* the other entries of s, in their order.
Moved(s, places, e, r, k) ==
  /\ Len(r) = (IF places = {} THEN Len(s) + 1 ELSE Len(s))
  /\ r[Len(r)] = e /\ (places = {} => k = Len(s) + 1)
  /\ \A j \in 1 .. Len(r) - 1 : r[j] = s[Old(j, k)] /\ Old(j, k) \in DOMAIN s \ places
  /\ \A i \in DOMAIN s \ places : \E j \in 1 .. Len(r) - 1 : Old(j, k) = i

LEMMA MovedToEnd ==
  ASSUME NEW S, NEW s \in Seq(S), NEW places \in SUBSET DOMAIN s,
         \A i, j \in places : i = j, NEW e \in S
  PROVE  /\ Append(Without(s, places), e) \in Seq(S)
         /\ \E k \in 1 .. Len(s) + 1 : Moved(s, places, e, Append(Without(s, places), e), k)
<1> DEFINE w == Without(s, places)
           r == Append(w, e)
<1>1. Len(s) \in Nat /\ DOMAIN s = 1 .. Len(s)
  OBVIOUS
<1>2. CASE places = {}
  <2>1. w = s
    BY <1>2 DEF Without
  <2>2. r \in Seq(S) /\ Len(r) = Len(s) + 1 /\ r[Len(s) + 1] = e /\ \A j \in 1 .. Len(s) : r[j] = s[j]
    BY <2>1
  <2> HIDE DEF w, r
  <2>3. \A j \in 1 .. Len(s) : Old(j, Len(s) + 1) = j
    BY <1>1 DEF Old
  <2>4. Len(s) + 1 \in 1 .. Len(s) + 1 /\ Len(r) - 1 = Len(s)
    BY <1>1, <2>2
  <2>5. \A j \in 1 .. Len(r) - 1 : r[j] = s[Old(j, Len(s) + 1)] /\ Old(j, Len(s) + 1) \in DOMAIN s \ places
    BY <1>1, <1>2, <2>2, <2>3, <2>4
  <2>6. \A i \in DOMAIN s \ places : \E j \in 1 .. Len(r) - 1 : Old(j, Len(s) + 1) = i
    BY <1>1, <2>3, <2>4
  <2> QED
    BY <1>2, <2>2, <2>4, <2>5, <2>6 DEF r, w, Moved
<1>3. CASE places # {}
  <2>1. PICK k \in places : k = CHOOSE i \in places : TRUE
    BY <1>3
  <2>2. w = RemoveAt(s, k) /\ k \in 1 .. Len(s) /\ places = {k}
    BY <1>1, <1>3, <2>1 DEF Without
  <2>3. w \in Seq(S) /\ Len(w) = Len(s) - 1 /\ \A j \in 1 .. Len(s) - 1 : w[j] = s[Old(j, k)]
    BY <2>2, TakenOut
  <2> HIDE DEF w
  <2>4. r \in Seq(S) /\ Len(r) = Len(w) + 1 /\ r[Len(w) + 1] = e /\ \A j \in 1 .. Len(w) : r[j] = w[j]
    BY <2>3
  <2> HIDE DEF r
  <2>5. Len(r) = Len(s) /\ r[Len(r)] = e /\ k \in 1 .. Len(s) + 1
    BY <1>1, <2>2, <2>3, <2>4
  <2>6. \A j \in 1 .. Len(s) - 1 : r[j] = s[Old(j, k)] /\ Old(j, k) \in DOMAIN s \ places
    BY <1>1, <2>2, <2>3, <2>4 DEF Old
  <2>7. \A i \in DOMAIN s \ places : \E j \in 1 .. Len(s) - 1 : Old(j, k) = i
    <3> SUFFICES ASSUME NEW i \in 1 .. Len(s), i # k PROVE \E j \in 1 .. Len(s) - 1 : Old(j, k) = i
      BY <1>1, <2>2
    <3>1. CASE i < k
      BY <1>1, <2>2, <3>1 DEF Old
    <3>2. CASE i > k
      <4>1. i - 1 \in 1 .. Len(s) - 1 /\ Old(i - 1, k) = i
        BY <1>1, <2>2, <3>2 DEF Old
      <4> QED
        BY <4>1
    <3> QED
      BY <1>1, <2>2, <3>1, <3>2
  <2> QED
    BY <1>3, <2>4, <2>5, <2>6, <2>7 DEF r, w, Moved
<1> QED
  BY <1>2, <1>3

LEMMA OldIsOrdered ==
  ASSUME NEW k \in Nat, NEW i \in Nat, NEW j \in Nat, i < j
  PROVE  Old(i, k) < Old(j, k) /\ Old(i, k) \in Nat /\ Old(j, k) \in Nat
  BY DEF Old

\* A new row takes the place of the one its device had, or there is room.
LEMMA RowPut ==
  ASSUME BatchTypeOK, NEW row \in Row, ~NoRoomFor(row.device)
  PROVE  LET r == PutRow(pending, row)
         IN  /\ r \in Seq(Row) /\ Len(r) <= BatchMax
             /\ \A i, j \in DOMAIN r : r[i].device = r[j].device => i = j
<1> DEFINE places == {i \in DOMAIN pending : pending[i].device = row.device}
           r == Append(Without(pending, places), row)
<1>1. pending \in Seq(Row) /\ DOMAIN pending = 1 .. Len(pending) /\ Len(pending) \in Nat /\ BatchMax \in Nat
      /\ Len(pending) <= BatchMax
  BY Limits DEF BatchTypeOK
<1>2. \A i, j \in places : i = j
  BY DEF BatchTypeOK
<1>3. places = {} => Len(pending) < BatchMax
  BY <1>1 DEF NoRoomFor
<1>4. places \in SUBSET DOMAIN pending /\ \A i \in DOMAIN pending : i \in places <=> pending[i].device = row.device
  OBVIOUS
<1>0. PutRow(pending, row) = r
  BY DEF PutRow
<1> HIDE DEF places
<1>9. r \in Seq(Row)
  BY <1>1, <1>2, <1>4, MovedToEnd
<1>10. PICK k \in 1 .. Len(pending) + 1 : Moved(pending, places, row, r, k)
  BY <1>1, <1>2, <1>4, MovedToEnd
<1>5. /\ r \in Seq(Row) /\ Len(r) = (IF places = {} THEN Len(pending) + 1 ELSE Len(pending))
      /\ r[Len(r)] = row
      /\ \A j \in 1 .. Len(r) - 1 : r[j] = pending[Old(j, k)] /\ Old(j, k) \in DOMAIN pending \ places
  BY <1>9, <1>10 DEF Moved
<1> HIDE DEF r
<1>6. Len(r) <= BatchMax /\ Len(r) \in Nat /\ DOMAIN r = 1 .. Len(r) /\ k \in Nat
  BY <1>1, <1>3, <1>5
<1>7. ASSUME NEW i \in DOMAIN r, NEW j \in DOMAIN r, i < j
      PROVE  r[i].device # r[j].device
  <2>1. i \in Nat /\ j \in Nat /\ i \in 1 .. Len(r) - 1
    BY <1>6, <1>7
  <2>2. r[i] = pending[Old(i, k)] /\ Old(i, k) \in DOMAIN pending /\ r[i].device # row.device
    BY <1>4, <1>5, <2>1
  <2>3. CASE j = Len(r)
    BY <1>5, <2>2, <2>3
  <2>4. CASE j # Len(r)
    <3>1. j \in 1 .. Len(r) - 1
      BY <1>6, <2>1, <2>4
    <3>2. r[j] = pending[Old(j, k)] /\ Old(j, k) \in DOMAIN pending
      BY <1>5, <3>1
    <3>3. Old(i, k) # Old(j, k)
      <4>1. Old(i, k) < Old(j, k) /\ Old(i, k) \in Nat /\ Old(j, k) \in Nat
        BY <1>6, <1>7, <2>1, OldIsOrdered
      <4> QED
        BY <4>1
    <3> QED
      BY <2>2, <3>2, <3>3 DEF BatchTypeOK
  <2> QED
    BY <2>3, <2>4
<1>8. ASSUME NEW i \in DOMAIN r, NEW j \in DOMAIN r, r[i].device = r[j].device
      PROVE  i = j
  <2>1. i \in Nat /\ j \in Nat
    BY <1>6
  <2>2. ~(i < j) /\ ~(j < i)
    BY <1>7, <1>8
  <2> QED
    BY <2>1, <2>2
<1> QED
  BY <1>0, <1>5, <1>6, <1>8

LEMMA EntryIsMemory ==
  ASSUME NEW q \in Seq(Memory), NEW i \in DOMAIN q
  PROVE  q[i] \in Memory /\ q[i].advert \in Adverts /\ q[i].at \in Nat
<1>1. q[i] \in Memory
  BY ElementOfSeq
<1> QED
  BY <1>1 DEF Memory

\* What is remembered of an advertisement that is heard.
LEMMA Recalling ==
  ASSUME BatchTypeOK, NEW a \in Adverts, NEW rssi \in Signals
  PROVE  /\ Recalled(a, rssi) \in Memory /\ Recalled(a, rssi).advert = a
         /\ Emitted(a, rssi) => Recalled(a, rssi).at = clock
         /\ ~Emitted(a, rssi) =>
              \E i \in DOMAIN dedupe : Recalled(a, rssi) = dedupe[i] /\ dedupe[i].advert = a /\ ~EmitDue(dedupe[i], rssi)
<1>1. CASE Emitted(a, rssi)
  BY <1>1 DEF Recalled, Memory, BatchTypeOK
<1>2. CASE ~Emitted(a, rssi)
  <2>1. PICK i \in DOMAIN dedupe : dedupe[i].advert = a /\ ~EmitDue(dedupe[i], rssi)
    BY <1>2 DEF Emitted
  <2>2. dedupe[i] \in ToSet(dedupe)
    BY DEF ToSet
  <2>3. ASSUME NEW m \in ToSet(dedupe), m.advert = a PROVE m = dedupe[i]
    <3>1. PICK j \in DOMAIN dedupe : m = dedupe[j]
      BY DEF ToSet
    <3> QED
      BY <2>1, <2>3, <3>1 DEF BatchTypeOK
  <2>4. Recalled(a, rssi) = dedupe[i]
    BY <1>2, <2>1, <2>2, <2>3 DEF Recalled
  <2>5. dedupe[i] \in Memory
    BY DEF BatchTypeOK
  <2> QED
    BY <1>2, <2>1, <2>4, <2>5
<1> QED
  BY <1>1, <1>2

\* What of the entries is still remembered, and in which order.
Remembered(q, m, k, d) ==
  /\ q \in Seq(Memory) /\ Len(q) \in 1 .. DedupeMax /\ q[Len(q)] = m
  /\ \A j \in 1 .. Len(q) - 1 :
       /\ Old(j + d, k) \in DOMAIN dedupe /\ q[j] = dedupe[Old(j + d, k)]
       /\ q[j].advert # m.advert
  /\ \A i \in DOMAIN dedupe :
       \/ dedupe[i].advert = m.advert
       \/ d = 1 /\ i = 1
       \/ \E j \in 1 .. Len(q) - 1 : q[j] = dedupe[i]
  /\ d = 1 => Len(dedupe) = DedupeMax /\ \A i \in DOMAIN dedupe : dedupe[i].advert # m.advert

LEMMA Remembering ==
  ASSUME BatchTypeOK, NEW m \in Memory
  PROVE  \E k \in Nat, d \in {0, 1} : Remembered(Remember(dedupe, m), m, k, d)
<1> DEFINE places == {i \in DOMAIN dedupe : dedupe[i].advert = m.advert}
           r == Append(Without(dedupe, places), m)
           q == Newest(r)
<1>1. /\ dedupe \in Seq(Memory) /\ DOMAIN dedupe = 1 .. Len(dedupe) /\ Len(dedupe) \in Nat
      /\ DedupeMax \in Nat \ {0} /\ Len(dedupe) <= DedupeMax
  BY Limits DEF BatchTypeOK
<1>2. \A i, j \in places : i = j
  BY DEF BatchTypeOK
<1>3. places \in SUBSET DOMAIN dedupe /\ \A i \in DOMAIN dedupe : i \in places <=> dedupe[i].advert = m.advert
  OBVIOUS
<1>4. Remember(dedupe, m) = q
  BY DEF Remember
<1> HIDE DEF places
<1>9. r \in Seq(Memory)
  BY <1>1, <1>2, <1>3, MovedToEnd
<1>10. PICK k \in 1 .. Len(dedupe) + 1 : Moved(dedupe, places, m, r, k)
  BY <1>1, <1>2, <1>3, MovedToEnd
<1>5. /\ r \in Seq(Memory) /\ Len(r) = (IF places = {} THEN Len(dedupe) + 1 ELSE Len(dedupe))
      /\ r[Len(r)] = m /\ (places = {} => k = Len(dedupe) + 1)
      /\ \A j \in 1 .. Len(r) - 1 : r[j] = dedupe[Old(j, k)] /\ Old(j, k) \in DOMAIN dedupe \ places
      /\ \A i \in DOMAIN dedupe \ places : \E j \in 1 .. Len(r) - 1 : Old(j, k) = i
  BY <1>9, <1>10 DEF Moved
<1> HIDE DEF r
<1>6. k \in Nat /\ Len(r) \in Nat /\ Len(r) >= 1
  <2>1. places # {} => Len(dedupe) >= 1
    BY <1>1, <1>3
  <2> QED
    BY <1>1, <1>5, <2>1
<1>7. CASE ~(Len(r) > DedupeMax)
  <2>1. q = r
    BY <1>7 DEF Newest
  <2>2. Len(r) \in 1 .. DedupeMax
    BY <1>1, <1>6, <1>7
  <2>3. \A j \in 1 .. Len(r) - 1 : j + 0 = j
    BY <1>6
  <2>4. \A j \in 1 .. Len(r) - 1 :
          /\ Old(j + 0, k) \in DOMAIN dedupe /\ r[j] = dedupe[Old(j + 0, k)]
          /\ r[j].advert # m.advert
    BY <1>3, <1>5, <2>3
  <2>5. \A i \in DOMAIN dedupe : dedupe[i].advert = m.advert \/ \E j \in 1 .. Len(r) - 1 : r[j] = dedupe[i]
    BY <1>3, <1>5
  <2>6. Remembered(r, m, k, 0)
    BY <1>5, <2>2, <2>4, <2>5, SMTT(30) DEF Remembered
  <2> QED
    BY <1>4, <1>6, <2>1, <2>6
<1>8. CASE Len(r) > DedupeMax
  <2>1. places = {} /\ Len(dedupe) = DedupeMax /\ Len(r) = DedupeMax + 1 /\ k = DedupeMax + 1
    BY <1>1, <1>5, <1>8
  <2>2. q = Tail(r)
    BY <1>8 DEF Newest
  <2>3. q \in Seq(Memory) /\ Len(q) = Len(r) - 1 /\ \A j \in 1 .. Len(r) - 1 : q[j] = r[j + 1]
    BY <1>5, <1>6, <2>2
  <2> HIDE DEF q
  <2>4. Len(q) = DedupeMax /\ Len(q) \in 1 .. DedupeMax /\ q[Len(q)] = m
    BY <1>1, <1>5, <2>1, <2>3
  <2>5. ASSUME NEW j \in 1 .. Len(q) - 1
        PROVE  /\ Old(j + 1, k) \in DOMAIN dedupe /\ q[j] = dedupe[Old(j + 1, k)]
               /\ q[j].advert # m.advert
    <3>1. j + 1 \in 1 .. Len(r) - 1 /\ j \in 1 .. Len(r) - 1
      BY <1>1, <2>1, <2>4
    <3> QED
      BY <1>3, <1>5, <2>3, <3>1, SMTT(30)
  <2>6. ASSUME NEW i \in DOMAIN dedupe, i # 1
        PROVE  \E j \in 1 .. Len(q) - 1 : q[j] = dedupe[i]
    <3>1. i \in Nat /\ i > 1 /\ i <= DedupeMax
      BY <1>1, <2>1, <2>6
    <3>2. i - 1 \in 1 .. Len(q) - 1 /\ (i - 1) + 1 = i
      BY <1>1, <2>4, <3>1
    <3>3. Old(i, k) = i
      BY <2>1, <1>1, <3>1 DEF Old
    <3>4. i - 1 \in 1 .. Len(r) - 1 /\ i \in 1 .. Len(r) - 1
      BY <1>1, <2>1, <3>1
    <3>5. q[i - 1] = dedupe[i]
      BY <1>5, <2>3, <3>2, <3>3, <3>4
    <3> QED
      BY <3>2, <3>5
  <2>7. \A i \in DOMAIN dedupe : dedupe[i].advert # m.advert
    BY <1>3, <2>1
  <2>8. Remembered(q, m, k, 1)
    BY <2>1, <2>3, <2>4, <2>5, <2>6, <2>7 DEF Remembered
  <2> QED
    BY <1>4, <1>6, <2>8
<1> QED
  BY <1>7, <1>8

-----------------------------------------------------------------------------
\* An advertisement is heard.

\* When the oldest entry is forgotten, all others were heard since, and the new
\* one is.
LEMMA TableHeardSince ==
  ASSUME BatchTypeOK, HistoryType, HeardBehind, NEW a \in Adverts,
         Len(dedupe) = DedupeMax, \A i \in DOMAIN dedupe : dedupe[i].advert # a,
         NEW T, IsFiniteSet(T), heardSince[dedupe[1].advert] \union {a} \subseteq T
  PROVE  Cardinality(T) >= DedupeMax
<1>1. DedupeMax \in Nat \ {0} /\ DOMAIN dedupe = 1 .. DedupeMax
  BY Limits DEF BatchTypeOK
<1>2. IsFiniteSet(1 .. DedupeMax) /\ Cardinality(1 .. DedupeMax) = DedupeMax
  BY <1>1, FS_Interval
<1>3. Cardinality(T) \in Nat
  BY FS_CardinalityType
<1> DEFINE f == [j \in 1 .. DedupeMax |-> IF j = 1 THEN a ELSE dedupe[j].advert]
<1>4. f \in [1 .. DedupeMax -> T]
  <2>1. \A j \in 1 .. DedupeMax : j # 1 => dedupe[j].advert \in heardSince[dedupe[1].advert]
    BY <1>1 DEF HeardBehind
  <2> QED
    BY <2>1
<1>5. ASSUME NEW x \in 1 .. DedupeMax, NEW y \in 1 .. DedupeMax, x # y
      PROVE  f[x] # f[y]
  BY <1>1, <1>5 DEF BatchTypeOK
<1> HIDE DEF f
<1>6. ~(Cardinality(T) < DedupeMax)
  <2> SUFFICES ASSUME Cardinality(T) < DedupeMax PROVE FALSE
    OBVIOUS
  <2>1. \E x, y \in 1 .. DedupeMax : x # y /\ f[x] = f[y]
    BY <1>2, <1>4, FS_PigeonHole
  <2> QED
    BY <1>5, <2>1
<1> QED
  BY <1>1, <1>3, <1>6

LEMMA IngestKeeps ==
  ASSUME BatchInv, NEW a \in Adverts, NEW rssi \in Signals, Ingest(a, rssi)
  PROVE  BatchInv'
<1> DEFINE m == Recalled(a, rssi)
<1>1. BatchTypeOK /\ HistoryType /\ TimesKept /\ HeardBehind /\ Forgotten
  BY DEF BatchInv
<1>2. /\ m \in Memory /\ m.advert = a
      /\ Emitted(a, rssi) => m.at = clock
      /\ ~Emitted(a, rssi) => \E i \in DOMAIN dedupe : m = dedupe[i] /\ dedupe[i].advert = a
  BY <1>1, Recalling
<1>3. dedupe' = Remember(dedupe, m) /\ UNCHANGED <<clock, lastFlush, batchId>>
  BY DEF Ingest
<1>4. heardSince' = [b \in Adverts |-> IF b = a THEN {} ELSE heardSince[b] \union {a}]
  BY DEF Ingest
<1> HIDE DEF m
<1>5. PICK k \in Nat, d \in {0, 1} : Remembered(dedupe', m, k, d)
  BY <1>1, <1>2, <1>3, Remembering
<1>6. /\ dedupe' \in Seq(Memory) /\ Len(dedupe') \in 1 .. DedupeMax /\ dedupe'[Len(dedupe')] = m
      /\ \A j \in 1 .. Len(dedupe') - 1 :
           /\ Old(j + d, k) \in DOMAIN dedupe /\ dedupe'[j] = dedupe[Old(j + d, k)]
           /\ dedupe'[j].advert # a
      /\ \A i \in DOMAIN dedupe :
           \/ dedupe[i].advert = a
           \/ d = 1 /\ i = 1
           \/ \E j \in 1 .. Len(dedupe') - 1 : dedupe'[j] = dedupe[i]
      /\ d = 1 => Len(dedupe) = DedupeMax /\ \A i \in DOMAIN dedupe : dedupe[i].advert # a
  BY <1>2, <1>5 DEF Remembered
<1>7. /\ DOMAIN dedupe' = 1 .. Len(dedupe') /\ Len(dedupe') \in Nat
      /\ DOMAIN dedupe = 1 .. Len(dedupe) /\ Len(dedupe) \in Nat
  BY <1>1, <1>6 DEF BatchTypeOK
<1>8. ASSUME NEW i \in DOMAIN dedupe', NEW j \in DOMAIN dedupe', i < j
      PROVE  /\ i \in 1 .. Len(dedupe') - 1 /\ i \in Nat /\ j \in Nat
             /\ j = Len(dedupe') \/ (j \in 1 .. Len(dedupe') - 1 /\ Old(i + d, k) < Old(j + d, k))
  <2>1. i \in Nat /\ j \in Nat /\ i \in 1 .. Len(dedupe') - 1 /\ (j = Len(dedupe') \/ j \in 1 .. Len(dedupe') - 1)
    BY <1>7, <1>8
  <2>2. i + d \in Nat /\ j + d \in Nat /\ i + d < j + d
    BY <1>8, <2>1
  <2>3. Old(i + d, k) < Old(j + d, k)
    BY <2>2, OldIsOrdered
  <2> QED
    BY <2>1, <2>3
<1>9. \A b \in Adverts : b # a => passed'[b] = passed[b] /\ refused'[b] = refused[b]
  BY <1>1 DEF Ingest, HistoryType
<1>10. BatchTypeOK'
  <2>1. pending' \in Seq(Row) /\ Len(pending') <= BatchMax
        /\ \A i, j \in DOMAIN pending' : pending'[i].device = pending'[j].device => i = j
    <3>1. CASE pending' = pending
      BY <1>1, <3>1 DEF BatchTypeOK
    <3>2. CASE pending' # pending
      <4> DEFINE row == [device |-> a[1], data |-> a[2], rssi |-> rssi, at |-> clock]
      <4>1. pending' = PutRow(pending, row) /\ ~NoRoomFor(a[1])
        BY <3>2 DEF Ingest
      <4>2. row \in Row /\ row.device = a[1]
        BY <1>1, BleBatcherAssumption DEF Row, BatchTypeOK
      <4> HIDE DEF row
      <4> QED
        BY <1>1, <4>1, <4>2, RowPut
    <3> QED
      BY <3>1, <3>2
  <2>2. ASSUME NEW i \in DOMAIN dedupe', NEW j \in DOMAIN dedupe', i < j
        PROVE  dedupe'[i].advert # dedupe'[j].advert
    <3>1. CASE j = Len(dedupe')
      BY <1>2, <1>6, <1>8, <2>2, <3>1
    <3>2. CASE j # Len(dedupe')
      <4>1. /\ Old(i + d, k) \in DOMAIN dedupe /\ Old(j + d, k) \in DOMAIN dedupe
            /\ Old(i + d, k) < Old(j + d, k)
            /\ dedupe'[i] = dedupe[Old(i + d, k)] /\ dedupe'[j] = dedupe[Old(j + d, k)]
        BY <1>6, <1>8, <2>2, <3>2
      <4>2. Old(i + d, k) # Old(j + d, k)
        BY <1>7, <4>1
      <4> QED
        BY <1>1, <4>1, <4>2 DEF BatchTypeOK
    <3> QED
      BY <3>1, <3>2
  <2>3. ASSUME NEW i \in DOMAIN dedupe', NEW j \in DOMAIN dedupe', dedupe'[i].advert = dedupe'[j].advert
        PROVE  i = j
    <3>1. i \in Nat /\ j \in Nat /\ ~(i < j) /\ ~(j < i)
      BY <1>7, <2>2, <2>3
    <3> QED
      BY <3>1
  <2>4. Len(dedupe') <= DedupeMax
    BY <1>6, Limits
  <2> QED
    BY <1>1, <1>3, <1>6, <2>1, <2>3, <2>4 DEF BatchTypeOK
<1>11. HistoryType'
  <2>1. passed' \in [Adverts -> Int] /\ refused' \in [Adverts -> Int]
        /\ \A b \in Adverts : passed'[b] <= clock' /\ refused'[b] <= clock'
    <3>1. CASE passed' = passed /\ refused' = refused
      BY <1>1, <1>3, <3>1 DEF HistoryType
    <3>2. CASE passed' = passed /\ refused' = [refused EXCEPT ![a] = clock]
      BY <1>1, <1>3, <3>2 DEF HistoryType, BatchTypeOK
    <3>3. CASE passed' = [passed EXCEPT ![a] = clock] /\ refused' = refused
      BY <1>1, <1>3, <3>3 DEF HistoryType, BatchTypeOK
    <3> QED
      BY <3>1, <3>2, <3>3 DEF Ingest
  <2>2. heardSince' \in [Adverts -> SUBSET Adverts]
    BY <1>1, <1>4 DEF HistoryType
  <2>3. \A b \in Adverts : IsFiniteSet(heardSince'[b])
    BY <1>1, <1>4, FS_EmptySet, FS_AddElement DEF HistoryType
  <2> QED
    BY <2>1, <2>2, <2>3 DEF HistoryType
<1>12. TimesKept'
  <2> SUFFICES ASSUME NEW i \in DOMAIN dedupe'
               PROVE  /\ dedupe'[i].at \in {passed'[dedupe'[i].advert], refused'[dedupe'[i].advert]}
                      /\ passed'[dedupe'[i].advert] <= dedupe'[i].at
    BY DEF TimesKept
  <2>1. CASE i = Len(dedupe')
    <3>1. dedupe'[i] = m
      BY <1>6, <2>1
    <3>2. CASE Emitted(a, rssi)
      <4>1. passed'[a] = clock \/ (refused'[a] = clock /\ passed'[a] = passed[a])
        <5>1. \/ refused' = [refused EXCEPT ![a] = clock] /\ passed' = passed
              \/ passed' = [passed EXCEPT ![a] = clock]
          BY <3>2 DEF Ingest
        <5> QED
          BY <1>1, <5>1 DEF HistoryType
      <4> QED
        BY <1>1, <1>2, <3>1, <3>2, <4>1 DEF HistoryType, BatchTypeOK
    <3>3. CASE ~Emitted(a, rssi)
      <4>1. passed' = passed /\ refused' = refused
        BY <3>3 DEF Ingest
      <4> QED
        BY <1>1, <1>2, <3>1, <3>3, <4>1 DEF TimesKept
    <3> QED
      BY <3>2, <3>3
  <2>2. CASE i # Len(dedupe')
    <3>1. i \in 1 .. Len(dedupe') - 1
      BY <1>7, <2>2
    <3>2. Old(i + d, k) \in DOMAIN dedupe /\ dedupe'[i] = dedupe[Old(i + d, k)] /\ dedupe'[i].advert # a
      BY <1>6, <3>1
    <3>3. dedupe'[i].advert \in Adverts
      BY <1>6, EntryIsMemory
    <3> QED
      BY <1>1, <1>9, <3>2, <3>3 DEF TimesKept
  <2> QED
    BY <2>1, <2>2
<1>13. HeardBehind'
  <2> SUFFICES ASSUME NEW i \in DOMAIN dedupe', NEW j \in DOMAIN dedupe', i < j
               PROVE  dedupe'[j].advert \in heardSince'[dedupe'[i].advert]
    BY DEF HeardBehind
  <2>1. i \in 1 .. Len(dedupe') - 1 /\ dedupe'[i].advert \in Adverts
    BY <1>6, <1>8, EntryIsMemory
  <2>2. heardSince'[dedupe'[i].advert] = heardSince[dedupe'[i].advert] \union {a}
    BY <1>4, <1>6, <2>1
  <2>3. CASE j = Len(dedupe')
    BY <1>2, <1>6, <2>2, <2>3
  <2>4. CASE j # Len(dedupe')
    <3>1. /\ Old(i + d, k) \in DOMAIN dedupe /\ Old(j + d, k) \in DOMAIN dedupe
          /\ Old(i + d, k) < Old(j + d, k)
          /\ dedupe'[i] = dedupe[Old(i + d, k)] /\ dedupe'[j] = dedupe[Old(j + d, k)]
      BY <1>6, <1>8, <2>4
    <3> QED
      BY <1>1, <2>2, <3>1 DEF HeardBehind
  <2> QED
    BY <2>3, <2>4
<1>14. Forgotten'
  <2> SUFFICES ASSUME NEW b \in Adverts, passed'[b] # Never, \A i \in DOMAIN dedupe' : dedupe'[i].advert # b
               PROVE  Cardinality(heardSince'[b]) >= DedupeMax
    BY DEF Forgotten
  <2>1. b # a
    <3>1. Len(dedupe') \in DOMAIN dedupe'
      BY <1>6, <1>7
    <3> QED
      BY <1>2, <1>6, <3>1
  <2>2. heardSince'[b] = heardSince[b] \union {a} /\ passed[b] # Never
    BY <1>4, <1>9, <2>1
  <2>3. IsFiniteSet(heardSince'[b]) /\ IsFiniteSet(heardSince[b])
    BY <1>1, <1>11 DEF HistoryType
  <2>4. CASE \A i \in DOMAIN dedupe : dedupe[i].advert # b
    <3>1. Cardinality(heardSince[b]) >= DedupeMax
      BY <1>1, <2>2, <2>4 DEF Forgotten
    <3>2. Cardinality(heardSince[b]) <= Cardinality(heardSince'[b])
      BY <2>2, <2>3, FS_Subset
    <3>3. Cardinality(heardSince[b]) \in Nat /\ Cardinality(heardSince'[b]) \in Nat
      BY <2>3, FS_CardinalityType
    <3> QED
      BY <3>1, <3>2, <3>3, Limits
  <2>5. CASE \E i \in DOMAIN dedupe : dedupe[i].advert = b
    <3>1. PICK i \in DOMAIN dedupe : dedupe[i].advert = b
      BY <2>5
    <3>2. ~\E j \in 1 .. Len(dedupe') - 1 : dedupe'[j] = dedupe[i]
      BY <1>7, <3>1
    <3>3. d = 1 /\ i = 1 /\ Len(dedupe) = DedupeMax /\ \A n \in DOMAIN dedupe : dedupe[n].advert # a
      BY <1>6, <2>1, <3>1, <3>2
    <3> QED
      BY <1>1, <2>2, <2>3, <3>1, <3>3, TableHeardSince
  <2> QED
    BY <2>4, <2>5
<1> QED
  BY <1>10, <1>11, <1>12, <1>13, <1>14 DEF BatchInv

-----------------------------------------------------------------------------
LEMMA BatchInitHolds == BatchInit => BatchInv
<1> SUFFICES ASSUME BatchInit PROVE BatchInv
  OBVIOUS
<1>1. BatchTypeOK
  BY Limits DEF BatchInit, BatchTypeOK
<1>2. HistoryType
  <2>1. passed \in [Adverts -> Int] /\ refused \in [Adverts -> Int] /\ heardSince \in [Adverts -> SUBSET Adverts]
    BY DEF BatchInit, Never
  <2>2. \A a \in Adverts : passed[a] <= clock /\ refused[a] <= clock /\ heardSince[a] = {}
    BY DEF BatchInit, Never
  <2> QED
    BY <2>1, <2>2, FS_EmptySet DEF HistoryType
<1>3. TimesKept /\ HeardBehind /\ Forgotten
  BY DEF BatchInit, TimesKept, HeardBehind, Forgotten
<1> QED
  BY <1>1, <1>2, <1>3 DEF BatchInv

LEMMA BatchNextKeeps == BatchInv /\ [BatchNext]_batchVars => BatchInv'
<1> SUFFICES ASSUME BatchInv, [BatchNext]_batchVars PROVE BatchInv'
  OBVIOUS
<1>1. CASE \E a \in Adverts, rssi \in Signals : Ingest(a, rssi)
  BY <1>1, IngestKeeps
<1>2. CASE Flush \/ ClearPending
  <2>1. pending' = <<>> /\ lastFlush' \in Nat /\ UNCHANGED <<clock, dedupe, passed, refused, heardSince>>
    BY <1>2 DEF Flush, ClearPending, BatchInv, BatchTypeOK
  <2>2. batchId' \in 0 .. IdModulus - 1
    BY <1>2, NextNumber, Limits DEF Flush, ClearPending, BatchInv, BatchTypeOK
  <2>3. BatchTypeOK'
    BY <2>1, <2>2, Limits DEF BatchInv, BatchTypeOK
  <2> QED
    BY <2>1, <2>3 DEF BatchInv, HistoryType, TimesKept, HeardBehind, Forgotten
<1>3. CASE Tick
  <2>1. clock' = clock + 1 /\ UNCHANGED <<pending, dedupe, lastFlush, batchId, passed, refused, heardSince>>
    BY <1>3 DEF Tick
  <2>2. BatchTypeOK'
    BY <2>1 DEF BatchInv, BatchTypeOK
  <2>3. \A a \in Adverts : passed[a] <= clock' /\ refused[a] <= clock'
    BY <2>1 DEF BatchInv, BatchTypeOK, HistoryType
  <2> QED
    BY <2>1, <2>2, <2>3 DEF BatchInv, HistoryType, TimesKept, HeardBehind, Forgotten
<1>4. CASE UNCHANGED batchVars
  BY <1>4 DEF batchVars, BatchInv, BatchTypeOK, HistoryType, TimesKept, HeardBehind, Forgotten
<1> QED
  BY <1>1, <1>2, <1>3, <1>4 DEF BatchNext

LEMMA BatchInvAlways == BatchSpec => []BatchInv
  BY BatchInitHolds, BatchNextKeeps, PTL DEF BatchSpec

\* Memory is fixed: neither the batch nor the memory of what was seen outgrows its
\* limit, one row a device and one entry an advertisement (ingest() in
\* ble_scanner.py).
THEOREM TablesAlwaysFit == BatchSpec => []BatchTypeOK
  BY BatchInvAlways, PTL DEF BatchInv

\* An advertisement is passed on again within EmitMin only if it had been forgotten,
\* after as many others as the table holds (ingest()).
THEOREM NeverRepeatsEarly == BatchSpec => NoEarlyRepeat
<1>1. ASSUME BatchInv, NEW a \in Adverts, NEW rssi \in Signals,
             Emitted(a, rssi), passed[a] # Never, clock - passed[a] < EmitMin
      PROVE  Cardinality(heardSince[a]) >= DedupeMax
  <2>1. ASSUME NEW i \in DOMAIN dedupe, dedupe[i].advert = a PROVE FALSE
    <3>1. EmitDue(dedupe[i], rssi)
      BY <1>1, <2>1 DEF Emitted
    <3>2. dedupe[i].at \in Nat /\ clock \in Nat /\ passed[a] \in Int /\ passed[a] <= dedupe[i].at
      <4>1. dedupe[i].at \in Nat
        BY <1>1, EntryIsMemory DEF BatchInv, BatchTypeOK
      <4> QED
        BY <1>1, <2>1, <4>1 DEF BatchInv, BatchTypeOK, HistoryType, TimesKept
    <3>3. clock - dedupe[i].at >= EmitMin
      BY <3>1, <3>2, Limits DEF EmitDue
    <3> QED
      BY <1>1, <3>2, <3>3, Limits
  <2> QED
    BY <1>1, <2>1 DEF BatchInv, Forgotten
<1>2. BatchInv => \A a \in Adverts, rssi \in Signals :
                (Ingest(a, rssi) /\ Emitted(a, rssi) /\ passed[a] # Never /\ clock - passed[a] < EmitMin)
                  => Cardinality(heardSince[a]) >= DedupeMax
  BY <1>1
<1> QED
  BY <1>2, BatchInvAlways, PTL DEF NoEarlyRepeat

\* An advertisement that is heard is passed on, was within EmitMax, or found the
\* batch full within EmitMax (ingest() remembers it as passed on before it looks for
\* room).
THEOREM SilenceIsAlwaysShort == BatchSpec => SilenceIsShort
<1>1. ASSUME BatchInv, NEW a \in Adverts, NEW rssi \in Signals, Ingest(a, rssi)
      PROVE  \/ passed'[a] # Never /\ clock - passed'[a] < EmitMax
             \/ refused'[a] # Never /\ clock - refused'[a] < EmitMax
  <2>1. BatchTypeOK /\ HistoryType /\ TimesKept /\ clock \in Nat /\ clock # Never /\ clock - clock = 0
    BY <1>1 DEF BatchInv, BatchTypeOK, Never
  <2>2. CASE Emitted(a, rssi)
    <3>1. passed'[a] = clock \/ refused'[a] = clock
      BY <1>1, <2>1, <2>2 DEF Ingest, HistoryType
    <3> QED
      BY <2>1, <3>1, Limits
  <2>3. CASE ~Emitted(a, rssi)
    <3>1. passed' = passed /\ refused' = refused
      BY <1>1, <2>3 DEF Ingest
    <3>2. PICK i \in DOMAIN dedupe : dedupe[i].advert = a /\ ~EmitDue(dedupe[i], rssi)
      BY <2>3 DEF Emitted
    <3>3. dedupe[i].at \in Nat /\ dedupe[i].at \in {passed[a], refused[a]} /\ dedupe[i].at # Never
      <4>1. dedupe[i].at \in Nat
        BY <2>1, EntryIsMemory DEF BatchTypeOK
      <4> QED
        BY <2>1, <3>2, <4>1 DEF TimesKept, Never
    <3>4. clock - dedupe[i].at < EmitMax
      BY <2>1, <3>2, <3>3, Limits DEF EmitDue
    <3> QED
      BY <3>1, <3>3, <3>4
  <2> QED
    BY <2>2, <2>3
<1>2. BatchInv => \A a \in Adverts :
                (\E rssi \in Signals : Ingest(a, rssi))
                  => \/ passed'[a] # Never /\ clock - passed'[a] < EmitMax
                     \/ refused'[a] # Never /\ clock - refused'[a] < EmitMax
  BY <1>1
<1> QED
  BY <1>2, BatchInvAlways, PTL DEF SilenceIsShort

-----------------------------------------------------------------------------
\* The observer: its state, its thread and its task.
Types ==
  /\ raw \in 0 .. MaxObservers /\ made \in 0 .. MaxObservers
  /\ pc \in [Observers -> {"none", "top", "opening", "opened", "receiving", "closing", "over"}]
  /\ stop \in [Observers -> BOOLEAN]
  /\ socket \in [Observers -> {"none", "private", "shared", "closed"}]
  /\ paused \in [Observers -> BOOLEAN]
  /\ radio \in BOOLEAN /\ rows \in BOOLEAN /\ wantPause \in BOOLEAN

\* How far stop() has come tells what there is to stop: a raw observer that was
\* asked, one that is over or was given up, or a task.
StopKnows ==
  /\ stopping \in {"no", "set", "join", "joined", "task"}
  /\ task \in {"none", "top", "scanning", "stopping", "cancelled", "done"}
  /\ raw # 0 => task = "none"
  /\ stopping \in {"set", "join"} => raw # 0
  /\ stopping = "joined" =>
       (raw # 0 /\ (pc[raw] = "over" \/ raw \in outlived)) \/ (raw = 0 /\ task = "done")
  /\ stopping = "task" <=> task = "cancelled"
  /\ task = "done" => stopping = "joined"

\* A thread that runs is that of the observer in use, or was given up; those
\* that are to be made have none.
Owned ==
  \A o \in Observers :
    /\ o > made => pc[o] = "none"
    /\ pc[o] \notin {"none", "over"} => o = raw \/ o \in outlived

\* The device was switched on for the socket that was just opened.
OpenedScans == \A o \in Observers : pc[o] = "opened" /\ outlived = {} => radio

\* Between two connections nothing is left.
NothingLeft == Idle /\ outlived = {} => ~rows /\ status = Off

Rest == StopKnows /\ Owned /\ OpenedScans /\ RadioAsBelieved /\ NothingLeft

ScannerInv == Types /\ Rest

LEMMA BoundIsNat == MaxObservers \in Nat /\ MaxFailures \in Nat
  BY BleScannerAssumption

LEMMA InitScannerInv == Init => ScannerInv
<1> SUFFICES ASSUME Init PROVE ScannerInv
  OBVIOUS
<1>1. Types
  <2>1. radio \in BOOLEAN /\ rows \in BOOLEAN /\ wantPause \in BOOLEAN
    BY Zenon DEF Init
  <2> QED
    BY <2>1, BoundIsNat DEF Init, Types, Observers
<1>2. StopKnows
  BY DEF Init, StopKnows
<1>3. Owned /\ OpenedScans /\ RadioAsBelieved /\ NothingLeft
  BY DEF Init, Owned, OpenedScans, RadioAsBelieved, NothingLeft
<1> QED
  BY <1>1, <1>2, <1>3 DEF ScannerInv, Rest

LEMMA StepTypes == ScannerInv /\ [Next]_vars => Types'
<1> SUFFICES ASSUME Types, StopKnows, [Next]_vars PROVE Types'
  BY DEF ScannerInv, Rest
<1> USE BoundIsNat DEF Types, Observers
<1>1. CASE StartRaw
  BY <1>1 DEF StartRaw, Goto
<1>2. CASE StartBluez
  BY <1>2 DEF StartBluez
<1>3. CASE StopBegin
  BY <1>3 DEF StopBegin
<1>4. CASE StopClose
  <2>1. raw \in Observers
    BY <1>4 DEF StopClose, StopKnows
  <2> QED
    BY <1>4, <2>1 DEF StopClose
<1>5. CASE StopJoin
  BY <1>5 DEF StopJoin
<1>5a. CASE StopEnd
  <2>1. rows' \in BOOLEAN
    BY <1>5a, Zenon DEF StopEnd
  <2> QED
    BY <1>5a, <2>1 DEF StopEnd
<1>6. ASSUME NEW o \in Observers, Works(o) \/ Breaks(o) \/ Receive(o) PROVE Types'
  BY <1>6 DEF Works, Breaks, RunTop, OpenSocket, ShareSocket, ReceiveEnds, FollowPause, CloseSocket,
              OpenFails, ReceiveFails, Receive, Goto, raws
<1>7. CASE Bluez \/ BluezReceive \/ TogglePause \/ UNCHANGED vars
  BY <1>7 DEF Bluez, BluezTop, BluezFinally, BluezStopped, BluezCancelled, BluezReceive, TogglePause, vars, raws
<1> QED
  BY <1>1, <1>2, <1>3, <1>4, <1>5, <1>5a, <1>6, <1>7 DEF Next, Scanner, Stopping

\* What a thread does disturbs neither stop() nor the other threads.
LEMMA WorkKeepsOwners ==
  ASSUME Types, Types', StopKnows, Owned, NEW o \in Observers, Works(o) \/ Breaks(o) \/ Receive(o)
  PROVE  StopKnows' /\ Owned'
<1>1. /\ UNCHANGED <<raw, made, stopping, task, outlived>> /\ \A p \in Observers \ {o} : pc'[p] = pc[p]
      /\ pc'[o] # pc[o] => pc[o] \notin {"none", "over"} /\ pc'[o] # "none"
  BY DEF Works, Breaks, RunTop, OpenSocket, ShareSocket, ReceiveEnds, FollowPause, CloseSocket,
         OpenFails, ReceiveFails, Receive, Goto, raws, Types
<1>2. StopKnows'
  BY <1>1 DEF StopKnows, Types, Observers
<1>3. Owned'
  BY <1>1 DEF Owned, Types, Observers
<1> QED
  BY <1>2, <1>3

\* A thread that runs while none was given up is that of raw, and raw is in use.
LEMMA RunsForRaw ==
  ASSUME Types, Owned, outlived = {}, NEW o \in Observers, pc[o] \notin {"none", "over"}
  PROVE  o = raw /\ raw # 0
  BY DEF Types, Owned, Observers

LEMMA WorkKeepsRadio ==
  ASSUME Types, Types', Rest, NEW o \in Observers, Works(o) \/ Breaks(o) \/ Receive(o)
  PROVE  (OpenedScans /\ RadioAsBelieved /\ NothingLeft)'
<1>1. /\ pc[o] \notin {"none", "over"} /\ UNCHANGED <<raw, outlived, stopping, task>>
      /\ \A p \in Observers \ {o} : pc'[p] = pc[p] /\ socket'[p] = socket[p] /\ paused'[p] = paused[p]
  BY DEF Works, Breaks, RunTop, OpenSocket, ShareSocket, ReceiveEnds, FollowPause, CloseSocket,
         OpenFails, ReceiveFails, Receive, Goto, raws, Types
<1> SUFFICES ASSUME outlived = {} PROVE (OpenedScans /\ RadioAsBelieved /\ NothingLeft)'
  BY <1>1 DEF OpenedScans, RadioAsBelieved, NothingLeft
<1>2. o = raw /\ raw # 0 /\ \A p \in Observers \ {o} : pc[p] \in {"none", "over"}
  BY <1>1, RunsForRaw DEF Rest
<1>3. NothingLeft'
  BY <1>1, <1>2 DEF NothingLeft, Idle
<1>4. pc'[o] = "opened" => radio'
  BY DEF Works, Breaks, RunTop, OpenSocket, ShareSocket, ReceiveEnds, FollowPause, CloseSocket,
         OpenFails, ReceiveFails, Receive, Goto, raws, Types, Rest, OpenedScans
<1>5. ASSUME pc'[o] = "receiving", socket'[o] = "shared"
      PROVE  radio' = ~paused'[o] /\ (paused'[o] => ~rows')
  <2>1. CASE ShareSocket(o)
    BY <2>1 DEF ShareSocket, Types, Rest, OpenedScans
  <2>2. CASE FollowPause(o) \/ Receive(o)
    BY <2>2 DEF FollowPause, Receive, raws, Types, Rest, RadioAsBelieved
  <2>3. CASE RunTop(o) \/ OpenSocket(o) \/ ReceiveEnds(o) \/ CloseSocket(o) \/ Breaks(o)
    BY <1>5, <2>3 DEF RunTop, OpenSocket, ReceiveEnds, CloseSocket, Breaks, OpenFails, ReceiveFails, Goto, Types
  <2> QED
    BY <2>1, <2>2, <2>3 DEF Works
<1> QED
  BY <1>1, <1>2, <1>3, <1>4, <1>5 DEF OpenedScans, RadioAsBelieved

LEMMA StepRest == ScannerInv /\ [Next]_vars => Rest'
<1> SUFFICES ASSUME ScannerInv, [Next]_vars PROVE Rest'
  OBVIOUS
<1>1. Types /\ Types' /\ Rest
  BY StepTypes DEF ScannerInv
<1> USE <1>1, BoundIsNat
    DEF Types, Observers, Rest, StopKnows, Owned, OpenedScans, RadioAsBelieved, NothingLeft, Idle
<1>2. CASE StartRaw
  BY <1>2 DEF StartRaw, Goto
<1>3. CASE StartBluez
  BY <1>3 DEF StartBluez
<1>4. CASE StopBegin
  BY <1>4 DEF StopBegin
<1>5. CASE StopClose
  BY <1>5 DEF StopClose
<1>6. CASE StopJoin
  BY <1>6 DEF StopJoin
<1>7. CASE StopEnd
  BY <1>7 DEF StopEnd
<1>8. CASE BluezTop \/ BluezReceive \/ BluezFinally
  BY <1>8 DEF BluezTop, BluezReceive, BluezFinally, raws
<1>9. CASE BluezStopped \/ BluezCancelled
  BY <1>9 DEF BluezStopped, BluezCancelled, raws
<1>10. CASE TogglePause \/ UNCHANGED vars
  BY <1>10 DEF TogglePause, vars, raws
<1>11. CASE \E o \in Observers : Works(o) \/ Breaks(o) \/ Receive(o)
  BY <1>11, WorkKeepsOwners, WorkKeepsRadio
<1> QED
  BY <1>2, <1>3, <1>4, <1>5, <1>6, <1>7, <1>8, <1>9, <1>10, <1>11 DEF Next, Scanner, Stopping, Bluez

LEMMA StepScannerInv == ScannerInv /\ [Next]_vars => ScannerInv'
  BY StepTypes, StepRest DEF ScannerInv

(* The observer in use has the radio on while it receives, and off with no  *)
(* rows while it pauses, as long as no thread outlived its stop             *)
(* (_RawHciObserver._receive_loop).                                         *)
THEOREM RadioAlwaysAsBelieved == Spec => []RadioAsBelieved
<1>1. ScannerInv => RadioAsBelieved
  BY DEF ScannerInv, Rest
<1> QED
  BY <1>1, InitScannerInv, StepScannerInv, PTL DEF Spec

(* One thread observes at a time but for those that outlived their stop, and *)
(* nothing heard on one connection is left for the next (LinuxBleScanner     *)
(* start() and stop()).                                                      *)
THEOREM AlwaysOneObserver == Spec => []OneObserver
<1>1. ScannerInv => OneObserver
  BY DEF ScannerInv, Rest, Owned, NothingLeft, OneObserver
<1> QED
  BY <1>1, InitScannerInv, StepScannerInv, PTL DEF Spec

=============================================================================
