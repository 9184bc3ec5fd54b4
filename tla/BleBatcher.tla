----------------------------- MODULE BleBatcher -----------------------------
(***************************************************************************)
(* The batch of Bluetooth advertisements and the memory of those seen      *)
(* (BleAdvertisementBatcher in ble_scanner.py).  An advertisement is       *)
(* passed on when it is new, when it was passed on EmitMax ago, or when    *)
(* its signal moved and it was passed on EmitMin ago; the rows of a batch  *)
(* are one per device; both tables are of fixed size.                      *)
(*                                                                         *)
(* A device stands for an address with its event type (the key of a row),  *)
(* a device with its data for the key under which an advertisement is      *)
(* remembered.  Time is counted in steps of 250 ms.                        *)
(***************************************************************************)
EXTENDS Integers, FiniteSets, SequencesExt

CONSTANTS
  Devices, Data,
  Adverts,                 \* what is on the air: devices with their data
  Signals,                 \* strengths of a signal
  BatchMax,                \* rows of a batch (24 in the source)
  DedupeMax,               \* advertisements remembered (48)
  RssiDelta,               \* a signal that moved (3 dB)
  EmitMin, EmitMax,        \* 250 ms and 1 s
  FlushAfter,              \* 500 ms
  IdModulus,               \* 2^32
  MaxClock                 \* bound on time, for TLC

ASSUME BleBatcherAssumption ==
  /\ Adverts \subseteq Devices \X Data
  /\ Signals \subseteq Int
  /\ {BatchMax, DedupeMax, EmitMin, EmitMax, FlushAfter} \subseteq Nat \ {0}
  /\ EmitMin <= EmitMax
  /\ RssiDelta \in Nat /\ MaxClock \in Nat
  /\ IdModulus \in Nat /\ IdModulus > 2

VARIABLES
  clock,       \* time.monotonic()
  pending,     \* the rows of the next batch, in order
  dedupe,      \* the advertisements remembered, the last one heard at the end
  lastFlush,
  batchId,
  passed,      \* history: when an advertisement was passed on last
  refused,     \* history: when it found no room in the batch last
  heardSince   \* history: the other advertisements heard since this one was

batchVars == <<clock, pending, dedupe, lastFlush, batchId, passed, refused, heardSince>>

Never == -1

Row == [device : Devices, data : Data, rssi : Signals, at : Nat]

Memory == [advert : Adverts, at : Nat, rssi : Signals]

Abs(n) == IF n < 0 THEN -n ELSE n

BatchInit ==
  /\ clock = 0
  /\ pending = <<>> /\ dedupe = <<>>
  /\ lastFlush = 0 /\ batchId = 0
  /\ passed = [a \in Adverts |-> Never]
  /\ refused = [a \in Adverts |-> Never]
  /\ heardSince = [a \in Adverts |-> {}]

-----------------------------------------------------------------------------
\* Mutant of EmitDue: a signal that moved is passed on at once.
EmitDueAtOnce(m, rssi) ==
  clock - m.at >= EmitMax \/ Abs(rssi - m.rssi) >= RssiDelta

EmitDue(m, rssi) ==
  \/ clock - m.at >= EmitMax
  \/ Abs(rssi - m.rssi) >= RssiDelta /\ clock - m.at >= EmitMin

Emitted(a, rssi) ==
  \A i \in DOMAIN dedupe : dedupe[i].advert = a => EmitDue(dedupe[i], rssi)

\* The entry with a key is taken out, if there is one; the places of the key in s
\* are one at most, for both tables are dictionaries.
Without(s, places) == IF places = {} THEN s ELSE RemoveAt(s, CHOOSE i \in places : TRUE)

\* Mutant of Newest: a full table keeps one entry too many.
NewestOffByOne(s) == IF Len(s) > DedupeMax + 1 THEN Tail(s) ELSE s

\* The oldest entry makes room.
Newest(s) == IF Len(s) > DedupeMax THEN Tail(s) ELSE s

Remember(s, m) == Newest(Append(Without(s, {i \in DOMAIN s : s[i].advert = m.advert}), m))

\* Mutant of Recalled: the time is taken whenever the advertisement is heard.
RecalledAnew(a, rssi) == [advert |-> a, at |-> clock, rssi |-> rssi]

\* What is not passed on keeps the time it was passed on last.
Recalled(a, rssi) ==
  IF Emitted(a, rssi)
    THEN [advert |-> a, at |-> clock, rssi |-> rssi]
    ELSE CHOOSE m \in ToSet(dedupe) : m.advert = a

NoRoomFor(d) ==
  /\ \A i \in DOMAIN pending : pending[i].device # d
  /\ Len(pending) >= BatchMax

PutRow(s, row) == Append(Without(s, {i \in DOMAIN s : s[i].device = row.device}), row)

\* ingest(): whether there is room is only asked after the advertisement was
\* remembered as passed on.
Ingest(a, rssi) ==
  /\ dedupe' = Remember(dedupe, Recalled(a, rssi))
  /\ heardSince' = [b \in Adverts |-> IF b = a THEN {} ELSE heardSince[b] \union {a}]
  /\ \/ /\ ~Emitted(a, rssi)
        /\ UNCHANGED <<pending, passed, refused>>
     \/ /\ Emitted(a, rssi) /\ NoRoomFor(a[1])
        /\ refused' = [refused EXCEPT ![a] = clock]
        /\ UNCHANGED <<pending, passed>>
     \/ /\ Emitted(a, rssi) /\ ~NoRoomFor(a[1])
        /\ pending' = PutRow(pending, [device |-> a[1], data |-> a[2], rssi |-> rssi, at |-> clock])
        /\ passed' = [passed EXCEPT ![a] = clock]
        /\ UNCHANGED refused
  /\ UNCHANGED <<clock, lastFlush, batchId>>

\* Batch 0 is skipped when the number wraps.
NextBatchId(n) == IF (n + 1) % IdModulus = 0 THEN 1 ELSE (n + 1) % IdModulus

FlushDue == Len(pending) >= BatchMax \/ clock - lastFlush >= FlushAfter

\* flush(): the rows go to on_batch; if that fails they are lost as well.
Flush ==
  /\ pending # <<>>
  /\ FlushDue
  /\ pending' = <<>>
  /\ lastFlush' = clock
  /\ batchId' = NextBatchId(batchId)
  /\ UNCHANGED <<clock, dedupe, passed, refused, heardSince>>

\* clear_pending(), when the observer pauses or stops.
ClearPending ==
  /\ pending # <<>>
  /\ pending' = <<>>
  /\ UNCHANGED <<clock, dedupe, lastFlush, batchId, passed, refused, heardSince>>

Tick ==
  /\ clock < MaxClock
  /\ clock' = clock + 1
  /\ UNCHANGED <<pending, dedupe, lastFlush, batchId, passed, refused, heardSince>>

BatchNext ==
  \/ \E a \in Adverts, rssi \in Signals : Ingest(a, rssi)
  \/ Flush
  \/ ClearPending
  \/ Tick

BatchSpec == BatchInit /\ [][BatchNext]_batchVars

-----------------------------------------------------------------------------
\* Memory is fixed, whatever is on the air ("fixed-memory formatter"): neither
\* table outgrows its limit, a batch has one row for a device, and nothing is
\* remembered twice although entries move when they are heard again.
BatchTypeOK ==
  /\ clock \in Nat /\ lastFlush \in Nat /\ batchId \in 0 .. IdModulus - 1
  /\ pending \in Seq(Row) /\ Len(pending) <= BatchMax
  /\ dedupe \in Seq(Memory) /\ Len(dedupe) <= DedupeMax
  /\ \A i, j \in DOMAIN pending : pending[i].device = pending[j].device => i = j
  /\ \A i, j \in DOMAIN dedupe : dedupe[i].advert = dedupe[j].advert => i = j

\* An advertisement is passed on again within EmitMin only after so many others
\* were heard that it had been forgotten.
NoEarlyRepeat ==
  [][\A a \in Adverts, rssi \in Signals :
       (Ingest(a, rssi) /\ Emitted(a, rssi) /\ passed[a] # Never /\ clock - passed[a] < EmitMin)
         => Cardinality(heardSince[a]) >= DedupeMax]_batchVars

\* An advertisement that is heard is passed on, or was within the last EmitMax,
\* or found the batch full within the last EmitMax.  (The last is what a reader
\* would not expect: it is remembered as if it had been passed on.)
SilenceIsShort ==
  [][\A a \in Adverts :
       (\E rssi \in Signals : Ingest(a, rssi))
         => \/ passed'[a] # Never /\ clock - passed'[a] < EmitMax
            \/ refused'[a] # Never /\ clock - refused'[a] < EmitMax]_batchVars

\* A batch is told from the one before by its number, which is never 0, also
\* when the number wraps.
BatchNumbersTell ==
  [][Flush => batchId' \notin {batchId, 0}]_batchVars

=============================================================================
