-------------------------- MODULE FileJournalProofs --------------------------
(***************************************************************************)
(* Proofs about FileJournal, for any number of records, any size at which    *)
(* the file rotates and any number of archives: one writer at a time, the     *)
(* order on disk through rotations that are interrupted, the drain of        *)
(* close() and the independence of failures.                               *)
(***************************************************************************)
EXTENDS FileJournal, SequenceTheorems, TLAPS

\* Calls are made in the order of their numbers.
InOrder == \A q, r \in Records : q < r /\ pc[q] = "new" => pc[r] = "new"

\* While a call is pending no later one has begun to write, and each later one is chained to
\* it or to a call after it.
Chained ==
  \A q \in Pending, r \in Records : q < r =>
    /\ pc[r] \in {"new", "waiting", "refused"}
    /\ pc[r] = "waiting" => q <= after[r]

\* The tail of the queue is the last call pending, or one after it.
TailIsLast == \A q \in Pending : q <= writeQueue

\* close() awaits the tail, which no record moves any more.
Closing ==
  /\ closeCall.status # "none" => closed
  /\ closeCall.status = "draining" => closeCall.tail = writeQueue

\* A rotation has emptied the archive it renames to, unless that is the oldest.
RoomBehind ==
  \A r \in Records : pc[r] = "rename" => slot[r] + 1 = MaxFiles \/ files[slot[r] + 1] = <<>>

Suffix == \E start \in [0..MaxFiles -> 0..Len(written)] : OnDisk(start)

QueueInv == InOrder /\ Chained /\ TailIsLast /\ Closing /\ ClosedIsQuiet /\ FailureIsOwn

JournalInv == TypeOK /\ QueueInv /\ RoomBehind /\ Suffix

-----------------------------------------------------------------------------
(* Type correctness.                                                       *)

\* A rename keeps the shape of the files.
LEMMA RenameTyped ==
  ASSUME NEW f \in [0..MaxFiles -> Seq(Piece)], NEW i \in 0..(MaxFiles - 1)
  PROVE  [f EXCEPT ![i + 1] = f[i], ![i] = <<>>] \in [0..MaxFiles -> Seq(Piece)]
<1>1. i \in 0..MaxFiles /\ i + 1 \in 0..MaxFiles
  BY JournalAssumption
<1>2. f[i] \in Seq(Piece) /\ <<>> \in Seq(Piece)
  BY <1>1
<1>3. QED
  BY <1>1, <1>2

\* So does what an append leaves on the disk.
LEMMA PutTyped ==
  ASSUME files \in [0..MaxFiles -> Seq(Piece)], written \in Seq(Piece), NEW p \in Piece, Put(p)
  PROVE  written' \in Seq(Piece) /\ files' \in [0..MaxFiles -> Seq(Piece)]
<1>1. 0 \in 0..MaxFiles
  BY JournalAssumption
<1>2. Append(files[0], p) \in Seq(Piece) /\ Append(written, p) \in Seq(Piece)
  BY <1>1, AppendProperties
<1>3. QED
  BY <1>2 DEF Put

\* Every kind of step keeps the declared shape.
LEMMA TypeStep ==
  ASSUME TypeOK, [Next]_vars
  PROVE  TypeOK'
<1>1. ASSUME NEW r \in Records, record(r) PROVE TypeOK'
  BY <1>1 DEF record, TypeOK
<1>2. ASSUME NEW r \in Records, rotateIfNeeded(r) PROVE TypeOK'
  <2>1. MaxFiles - 1 \in 0..(MaxFiles - 1)
    BY JournalAssumption
  <2>2. slot' \in [Records -> 0..(MaxFiles - 1)]
    BY <1>2, <2>1 DEF rotateIfNeeded, TypeOK
  <2>3. QED
    BY <1>2, <2>2 DEF rotateIfNeeded, TypeOK
<1>3. ASSUME NEW r \in Records, rotate(r) PROVE TypeOK'
  <2>1. files \in [0..MaxFiles -> Seq(Piece)] /\ slot \in [Records -> 0..(MaxFiles - 1)]
    BY DEF TypeOK
  <2>2. files' \in [0..MaxFiles -> Seq(Piece)]
    <3>1. files' = files
            \/ files' = [files EXCEPT ![slot[r] + 1] = files[slot[r]], ![slot[r]] = <<>>]
      BY <1>3 DEF rotate
    <3>2. slot[r] \in 0..(MaxFiles - 1)
      BY <2>1
    <3>3. [files EXCEPT ![slot[r] + 1] = files[slot[r]], ![slot[r]] = <<>>]
            \in [0..MaxFiles -> Seq(Piece)]
      BY <2>1, <3>2, RenameTyped
    <3>4. QED
      BY <2>1, <3>1, <3>3, Zenon
  <2>3. slot' \in [Records -> 0..(MaxFiles - 1)]
    <3>1. slot' = slot \/ (slot[r] # 0 /\ slot' = [slot EXCEPT ![r] = slot[r] - 1])
      BY <1>3 DEF rotate
    <3>2. slot[r] # 0 => slot[r] - 1 \in 0..(MaxFiles - 1)
      BY <2>1, JournalAssumption
    <3>3. QED
      BY <2>1, <3>1, <3>2
  <2>4. /\ pc' = pc \/ pc' = [pc EXCEPT ![r] = "append"]
        /\ UNCHANGED <<closed, writeQueue, after, closeCall, written, failed>>
    BY <1>3 DEF rotate
  <2>5. QED
    BY <2>2, <2>3, <2>4 DEF TypeOK
<1>4. ASSUME NEW p \in Piece, Put(p)
      PROVE  written' \in Seq(Piece) /\ files' \in [0..MaxFiles -> Seq(Piece)]
  BY <1>4, PutTyped DEF TypeOK
<1>5. ASSUME NEW r \in Records, NEW whole \in BOOLEAN
      PROVE  [record |-> r, whole |-> whole] \in Piece
  BY DEF Piece
<1>6. ASSUME NEW r \in Records, writeOnce(r) PROVE TypeOK'
  BY <1>4, <1>5, <1>6 DEF writeOnce, TypeOK
<1>7. ASSUME NEW r \in Records, FsFails(r) PROVE TypeOK'
  <2>1. written' \in Seq(Piece) /\ files' \in [0..MaxFiles -> Seq(Piece)]
    BY <1>4, <1>5, <1>7 DEF FsFails, TypeOK
  <2>2. QED
    BY <1>7, <2>1 DEF FsFails, TypeOK
<1>8. CASE close
  BY <1>8 DEF close, TypeOK
<1>9. CASE closeReturns
  BY <1>9 DEF closeReturns, TypeOK
<1>10. CASE Crash
  <2>1. written' \in Seq(Piece) /\ files' \in [0..MaxFiles -> Seq(Piece)]
    BY <1>4, <1>5, <1>10 DEF Crash, TypeOK
  <2>2. QED
    BY <1>10, <2>1 DEF Crash, TypeOK
<1>11. CASE UNCHANGED vars
  BY <1>11 DEF vars, queueVars, TypeOK
<1>12. QED
  BY <1>1, <1>2, <1>3, <1>6, <1>7, <1>8, <1>9, <1>10, <1>11 DEF Next, Write

-----------------------------------------------------------------------------
(* The queue.                                                              *)

\* The part of the type invariant that is about the queue.
QueueTyped ==
  /\ closed \in BOOLEAN
  /\ writeQueue \in Records \cup {None}
  /\ pc \in [Records -> {"new", "waiting", "rename", "append",
                         "resolved", "rejected", "refused", "lost"}]
  /\ after \in [Records -> Records \cup {None}]

LEMMA TypedQueue == ASSUME TypeOK PROVE QueueTyped
BY DEF TypeOK, QueueTyped

\* A call that may write is the first of those pending.
LEMMA FirstInLine ==
  ASSUME QueueTyped, Chained, NEW r \in Records,
         pc[r] \in {"rename", "append"} \/ (pc[r] = "waiting" /\ settled(after[r]))
  PROVE  \A q \in Pending : r <= q
<1> SUFFICES ASSUME NEW q \in Pending, q < r PROVE FALSE
  BY JournalAssumption DEF Pending, Records
<1>1. pc[r] = "waiting" /\ q <= after[r] /\ settled(after[r])
  BY DEF Chained
<1>2. after[r] \in Records /\ pc[after[r]] \in {"resolved", "rejected"}
  BY <1>1, JournalAssumption DEF settled, QueueTyped, Pending, Records, None
<1>3. CASE after[r] = q
  BY <1>2, <1>3 DEF Pending
<1>4. CASE q < after[r]
  BY <1>2, <1>4 DEF Chained
<1>5. QED
  BY <1>1, <1>2, <1>3, <1>4, JournalAssumption DEF Pending, Records

\* Two calls never write at the same time.
LEMMA OneAtATime ==
  ASSUME QueueTyped, Chained
  PROVE  OneWriter
<1> SUFFICES ASSUME NEW r \in Records, NEW q \in Records,
                    pc[r] \in {"rename", "append"}, pc[q] \in {"rename", "append"}
             PROVE  r = q
  BY DEF OneWriter
<1>1. r \in Pending /\ q \in Pending
  BY DEF Pending
<1>2. r <= q /\ q <= r
  BY <1>1, FirstInLine
<1>3. QED
  BY <1>2, JournalAssumption DEF Records

\* The call at the head of the queue goes on, or leaves it.
Proceeds(r) ==
  /\ pc[r] \in {"rename", "append"} \/ (pc[r] = "waiting" /\ settled(after[r]))
  /\ \E s \in {"rename", "append", "resolved", "rejected"} :
       /\ pc' = [pc EXCEPT ![r] = s]
       /\ s = "rejected" => r \in failed'
  /\ failed \subseteq failed'
  /\ UNCHANGED <<closed, writeQueue, after, closeCall>>

LEMMA WriteProceeds ==
  ASSUME QueueTyped, NEW r \in Records, Write(r)
  PROVE  Proceeds(r)
<1>1. CASE rotateIfNeeded(r)
  BY <1>1 DEF rotateIfNeeded, Proceeds
<1>2. CASE rotate(r)
  BY <1>2 DEF rotate, Proceeds, QueueTyped
<1>3. CASE writeOnce(r)
  BY <1>3 DEF writeOnce, Proceeds
<1>4. CASE FsFails(r)
  BY <1>4 DEF FsFails, Proceeds
<1>5. QED
  BY <1>1, <1>2, <1>3, <1>4 DEF Write

LEMMA QueueStep ==
  ASSUME QueueTyped, QueueInv, [Next]_vars
  PROVE  QueueInv'
<1> USE JournalAssumption DEF QueueInv, Records, None
<1>1. ASSUME NEW r \in Records, record(r) PROVE QueueInv'
  <2>1. \A q \in Records : q > r => pc[q] = "new"
    BY <1>1 DEF record, InOrder
  <2>0. \A q \in Records : q < r => pc[q] # "new"
    BY <1>1 DEF record
  <2>2. CASE closed
    <3>1. pc' = [pc EXCEPT ![r] = "refused"] /\ Pending' = Pending
      BY <1>1, <2>2 DEF record, Pending, QueueTyped
    <3>2. InOrder' /\ FailureIsOwn'
      <4>1. InOrder'
        BY <2>0, <2>1, <3>1 DEF InOrder, QueueTyped
      <4>2. FailureIsOwn'
        BY <1>1, <3>1 DEF record, FailureIsOwn, QueueTyped
      <4>3. QED
        BY <4>1, <4>2
    <3>3. Chained' /\ TailIsLast'
      BY <1>1, <2>2, <3>1 DEF record, Chained, TailIsLast, QueueTyped
    <3>4. Closing' /\ ClosedIsQuiet'
      BY <1>1, <2>2, <3>1 DEF record, Closing, ClosedIsQuiet
    <3>5. QED
      BY <3>2, <3>3, <3>4
  <2>3. CASE ~closed
    <3>1. /\ pc' = [pc EXCEPT ![r] = "waiting"] /\ Pending' = Pending \cup {r}
          /\ after' = [after EXCEPT ![r] = writeQueue] /\ writeQueue' = r
      BY <1>1, <2>3 DEF record, Pending, QueueTyped
    <3>2. InOrder' /\ FailureIsOwn'
      <4>1. InOrder'
        BY <2>0, <2>1, <3>1 DEF InOrder, QueueTyped
      <4>2. FailureIsOwn'
        BY <1>1, <3>1 DEF record, FailureIsOwn, QueueTyped
      <4>3. QED
        BY <4>1, <4>2
    <3>3. \A q \in Pending : q < r
      BY <1>1, <2>1 DEF record, Pending
    <3>4. Chained'
      <4> SUFFICES ASSUME NEW q \in Pending', NEW p \in Records, q < p
                   PROVE  /\ pc'[p] \in {"new", "waiting", "refused"}
                          /\ pc'[p] = "waiting" => q <= after'[p]
        BY DEF Chained
      <4>1. CASE p = r
        BY <3>1, <4>1 DEF QueueTyped, TailIsLast, Pending
      <4>2. CASE p > r
        BY <2>1, <3>1, <4>2 DEF QueueTyped
      <4>3. CASE p < r
        <5>1. q \in Pending /\ p # r
          BY <3>1, <4>3 DEF Pending
        <5>2. pc'[p] = pc[p] /\ after'[p] = after[p]
          BY <3>1, <5>1 DEF QueueTyped
        <5>3. QED
          BY <5>1, <5>2 DEF Chained
      <4>4. QED
        BY <4>1, <4>2, <4>3
    <3>5. TailIsLast'
      BY <3>1, <3>3 DEF TailIsLast, Pending
    <3>6. Closing' /\ ClosedIsQuiet'
      BY <1>1, <2>3 DEF record, Closing, ClosedIsQuiet, QueueTyped
    <3>7. QED
      BY <3>2, <3>4, <3>5, <3>6
  <2>4. QED
    BY <2>2, <2>3
<1>2. ASSUME NEW r \in Records, Write(r) PROVE QueueInv'
  <2>1. PICK s \in {"rename", "append", "resolved", "rejected"} :
          pc' = [pc EXCEPT ![r] = s] /\ (s = "rejected" => r \in failed')
    BY <1>2, WriteProceeds DEF Proceeds
  <2>2. failed \subseteq failed' /\ UNCHANGED <<closed, writeQueue, after, closeCall>>
    BY <1>2, WriteProceeds DEF Proceeds
  <2>3. r \in Pending /\ \A q \in Pending : r <= q
    BY <1>2, WriteProceeds, FirstInLine DEF Proceeds, Pending
  <2>4. Pending' \subseteq Pending
    BY <2>1, <2>3 DEF Pending, QueueTyped
  <2>5. InOrder' /\ FailureIsOwn'
    BY <2>1, <2>2, <2>3 DEF InOrder, FailureIsOwn, QueueTyped, Pending
  <2>6. Chained'
    <3> SUFFICES ASSUME NEW q \in Pending', NEW p \in Records, q < p
                 PROVE  /\ pc'[p] \in {"new", "waiting", "refused"}
                        /\ pc'[p] = "waiting" => q <= after'[p]
      BY DEF Chained
    <3>1. q \in Pending /\ p # r
      BY <2>3, <2>4 DEF Pending
    <3>2. pc'[p] = pc[p] /\ after'[p] = after[p]
      BY <2>1, <2>2, <3>1 DEF QueueTyped
    <3>3. QED
      BY <3>1, <3>2 DEF Chained
  <2>7. TailIsLast' /\ Closing' /\ ClosedIsQuiet'
    BY <2>2, <2>3, <2>4 DEF TailIsLast, Closing, ClosedIsQuiet
  <2>8. QED
    BY <2>5, <2>6, <2>7
<1>3. CASE close
  BY <1>3 DEF close, QueueTyped, InOrder, Chained, TailIsLast, Closing, ClosedIsQuiet, FailureIsOwn, Pending
<1>4. CASE closeReturns
  <2>1. settled(writeQueue) /\ closed
    BY <1>4 DEF closeReturns, Closing
  <2>2. ASSUME NEW q \in Pending PROVE FALSE
    <3>1. q \in Records /\ q <= writeQueue /\ writeQueue \in Records
      BY DEF Pending, TailIsLast, QueueTyped
    <3>2. pc[writeQueue] \in {"resolved", "rejected"}
      BY <2>1, <3>1 DEF settled
    <3>3. q < writeQueue
      BY <3>1, <3>2 DEF Pending
    <3>4. QED
      BY <3>1, <3>2, <3>3 DEF Chained
  <2>3. QED
    BY <1>4, <2>1, <2>2 DEF closeReturns, InOrder, Chained, TailIsLast, Closing, ClosedIsQuiet,
                            FailureIsOwn, Pending
<1>5. CASE Crash
  <2>1. Pending' = {} /\ \A r \in Records : pc'[r] = IF r \in Pending THEN "lost" ELSE pc[r]
    BY <1>5 DEF Crash, Pending
  <2>2. InOrder' /\ FailureIsOwn'
    BY <1>5, <2>1 DEF Crash, InOrder, FailureIsOwn, Pending
  <2>3. QED
    BY <1>5, <2>1, <2>2 DEF Crash, Chained, TailIsLast, Closing, ClosedIsQuiet
<1>6. CASE UNCHANGED vars
  BY <1>6 DEF vars, queueVars, InOrder, Chained, TailIsLast, Closing, ClosedIsQuiet, FailureIsOwn,
              Pending
<1>7. QED
  BY <1>1, <1>2, <1>3, <1>4, <1>5, <1>6 DEF Next

-----------------------------------------------------------------------------
(* The disk.                                                               *)

\* A piece written extends the part of the current file, and no other.
LEMMA PartsOfAppend ==
  ASSUME NEW w \in Seq(Piece), NEW p \in Piece, NEW a \in 0..Len(w)
  PROVE  /\ SubSeq(Append(w, p), a + 1, Len(w) + 1) = Append(SubSeq(w, a + 1, Len(w)), p)
         /\ \A b \in a..Len(w) : SubSeq(Append(w, p), a + 1, b) = SubSeq(w, a + 1, b)
<1> DEFINE v == Append(w, p)
<1> DEFINE part == SubSeq(w, a + 1, Len(w))
<1>1. v \in Seq(Piece) /\ Len(w) \in Nat /\ Len(v) = Len(w) + 1
  BY AppendProperties, LenProperties
<1>2. \A i \in 1..Len(w) : v[i] = w[i] /\ w[i] \in Piece
  BY AppendProperties, ElementOfSeq
<1>3. v[Len(w) + 1] = p
  BY AppendProperties
<1>4. /\ part \in Seq(Piece) /\ Len(part) = Len(w) - a
      /\ \A i \in 1..(Len(w) - a) : part[i] = w[a + i]
  <2>1. \A i \in (a + 1)..Len(w) : w[i] \in Piece
    BY <1>1, <1>2
  <2>2. QED
    BY <1>1, <2>1, SubSeqProperties
<1>5. /\ SubSeq(v, a + 1, Len(w) + 1) \in Seq(Piece)
      /\ Len(SubSeq(v, a + 1, Len(w) + 1)) = Len(w) + 1 - a
      /\ \A i \in 1..(Len(w) + 1 - a) : SubSeq(v, a + 1, Len(w) + 1)[i] = v[a + i]
  <2>1. \A i \in (a + 1)..(Len(w) + 1) : v[i] \in Piece
    BY <1>1, ElementOfSeq
  <2> HIDE DEF v
  <2>2. QED
    BY <1>1, <2>1, SubSeqProperties
<1>6. /\ Append(part, p) \in Seq(Piece) /\ Len(Append(part, p)) = Len(w) + 1 - a
      /\ \A i \in 1..(Len(w) - a) : Append(part, p)[i] = part[i]
      /\ Append(part, p)[Len(w) - a + 1] = p
  <2> HIDE DEF part
  <2>1. QED
    BY <1>1, <1>4, AppendProperties
<1>7. SubSeq(v, a + 1, Len(w) + 1) = Append(part, p)
  <2> HIDE DEF v, part
  <2>1. ASSUME NEW i \in 1..(Len(w) + 1 - a)
        PROVE  SubSeq(v, a + 1, Len(w) + 1)[i] = Append(part, p)[i]
    <3>1. SubSeq(v, a + 1, Len(w) + 1)[i] = v[a + i]
      BY <1>5
    <3>2. CASE i = Len(w) - a + 1
      <4>1. a + i = Len(w) + 1
        BY <1>1, <3>2
      <4>2. QED
        BY <1>3, <1>6, <3>1, <3>2, <4>1
    <3>3. CASE i # Len(w) - a + 1
      <4>1. i \in 1..(Len(w) - a) /\ a + i \in 1..Len(w)
        BY <1>1, <3>3
      <4>2. v[a + i] = w[a + i]
        BY <1>2, <4>1
      <4>3. Append(part, p)[i] = w[a + i]
        BY <1>4, <1>6, <4>1
      <4>4. QED
        BY <3>1, <4>2, <4>3
    <3>4. QED
      BY <3>2, <3>3
  <2>2. QED
    BY <1>5, <1>6, <2>1, SeqEqual
<1>8. ASSUME NEW b \in a..Len(w) PROVE SubSeq(v, a + 1, b) = SubSeq(w, a + 1, b)
  <2> HIDE DEF v
  <2>1. \A i \in (a + 1)..b : v[i] \in Piece /\ w[i] \in Piece /\ v[i] = w[i]
    BY <1>1, <1>2
  <2>2. a + 1 \in Int /\ b \in Int
    BY <1>1
  <2>3. /\ SubSeq(v, a + 1, b) \in Seq(Piece)
        /\ Len(SubSeq(v, a + 1, b)) = IF a + 1 <= b THEN b - (a + 1) + 1 ELSE 0
        /\ \A i \in 1..(b - (a + 1) + 1) : SubSeq(v, a + 1, b)[i] = v[a + 1 + i - 1]
    BY <2>1, <2>2, SubSeqProperties
  <2>4. /\ SubSeq(w, a + 1, b) \in Seq(Piece)
        /\ Len(SubSeq(w, a + 1, b)) = IF a + 1 <= b THEN b - (a + 1) + 1 ELSE 0
        /\ \A i \in 1..(b - (a + 1) + 1) : SubSeq(w, a + 1, b)[i] = w[a + 1 + i - 1]
    BY <2>1, <2>2, SubSeqProperties
  <2>5. ASSUME NEW i \in 1..Len(SubSeq(v, a + 1, b))
        PROVE  SubSeq(v, a + 1, b)[i] = SubSeq(w, a + 1, b)[i]
    <3>1. i \in 1..(b - (a + 1) + 1) /\ a + 1 + i - 1 \in (a + 1)..b
      BY <1>1, <2>3
    <3>2. QED
      BY <2>1, <2>3, <2>4, <3>1
  <2>6. QED
    BY <2>3, <2>4, <2>5, SeqEqual
<1>9. QED
  BY <1>7, <1>8

\* A piece written goes where the disk keeps the last of what was written.
LEMMA AppendKeepsSuffix ==
  ASSUME TypeOK, Suffix, NEW p \in Piece, Put(p)
  PROVE  Suffix'
<1>1. PICK start \in [0..MaxFiles -> 0..Len(written)] : OnDisk(start)
  BY DEF Suffix
<1>2. /\ written \in Seq(Piece) /\ files \in [0..MaxFiles -> Seq(Piece)] /\ 0 \in 0..MaxFiles
      /\ Len(written) \in Nat /\ Len(written') = Len(written) + 1
  BY JournalAssumption, AppendProperties, LenProperties DEF TypeOK, Put
<1>3. ASSUME NEW i \in 0..MaxFiles PROVE HoldsPart(start, i)'
  <2>1. start[i] \in 0..Len(written) /\ HoldsPart(start, i)
    BY <1>1 DEF OnDisk
  <2>2. CASE i = 0
    <3>1. files'[0] = Append(files[0], p) /\ files[0] = SubSeq(written, start[0] + 1, Len(written))
      BY <1>2, <2>1, <2>2 DEF Put, HoldsPart, End
    <3>2. files'[0] = SubSeq(written', start[0] + 1, Len(written'))
      BY <1>2, <2>1, <2>2, <3>1, PartsOfAppend DEF Put
    <3>3. QED
      BY <1>2, <2>1, <2>2, <3>2 DEF HoldsPart, End
  <2>3. CASE i # 0
    <3>1. i - 1 \in 0..MaxFiles /\ start[i - 1] \in 0..Len(written)
      BY <2>3, JournalAssumption
    <3>2. /\ files'[i] = files[i]
          /\ start[i] <= start[i - 1] /\ files[i] = SubSeq(written, start[i] + 1, start[i - 1])
      BY <1>2, <2>1, <2>3 DEF Put, HoldsPart, End
    <3>3. start[i - 1] \in start[i]..Len(written)
      BY <1>2, <2>1, <3>1, <3>2
    <3>4. files'[i] = SubSeq(written', start[i] + 1, start[i - 1])
      BY <1>2, <2>1, <3>2, <3>3, PartsOfAppend DEF Put
    <3>5. QED
      BY <2>3, <3>2, <3>4 DEF HoldsPart, End
  <2>4. QED
    BY <2>2, <2>3
<1>4. start \in [0..MaxFiles -> 0..Len(written')]
  <2>1. 0..Len(written) \subseteq 0..Len(written')
    BY <1>2
  <2>2. QED
    BY <2>1
<1>5. QED
  BY <1>3, <1>4 DEF Suffix, OnDisk

\* A file that is not empty takes the empty place behind it, or that of the oldest.
LEMMA RenameKeepsSuffix ==
  ASSUME TypeOK, Suffix, UNCHANGED written, NEW i \in 0..(MaxFiles - 1),
         i + 1 = MaxFiles \/ files[i + 1] = <<>>,
         files' = [files EXCEPT ![i + 1] = files[i], ![i] = <<>>]
  PROVE  Suffix'
<1>1. PICK start \in [0..MaxFiles -> 0..Len(written)] : OnDisk(start)
  BY DEF Suffix
<1>2. /\ written \in Seq(Piece) /\ files \in [0..MaxFiles -> Seq(Piece)] /\ Len(written) \in Nat
      /\ i \in 0..MaxFiles /\ i + 1 \in 0..MaxFiles /\ i + 1 # i
  BY JournalAssumption, LenProperties DEF TypeOK
<1>3. \A j \in 0..MaxFiles : start[j] \in 0..Len(written) /\ End(start, j) \in 0..Len(written)
  BY <1>2, JournalAssumption DEF End
<1>4. \A j \in 0..MaxFiles :
        start[j] <= End(start, j) /\ files[j] = SubSeq(written, start[j] + 1, End(start, j))
  BY <1>1 DEF OnDisk, HoldsPart
<1>5. PICK moved \in [0..MaxFiles -> 0..Len(written)] :
        /\ moved[i] = End(start, i) /\ moved[i + 1] = start[i]
        /\ \A j \in 0..MaxFiles : j # i /\ j # i + 1 => moved[j] = start[j]
  <2>1. [start EXCEPT ![i + 1] = start[i], ![i] = End(start, i)]
          \in [0..MaxFiles -> 0..Len(written)]
    BY <1>2, <1>3
  <2>2. QED
    BY <1>2, <2>1
<1>6. /\ files'[i] = <<>> /\ files'[i + 1] = files[i]
      /\ \A j \in 0..MaxFiles : j # i /\ j # i + 1 => files'[j] = files[j]
  BY <1>2
<1>7. ASSUME NEW j \in 0..MaxFiles PROVE HoldsPart(moved, j)'
  <2>1. CASE j = i
    <3>1. End(moved, i)' = End(start, i)
      <4>1. i # 0 => i - 1 \in 0..MaxFiles /\ i - 1 # i /\ i - 1 # i + 1
        BY JournalAssumption
      <4>2. QED
        BY <1>5, <4>1 DEF End
    <3>2. SubSeq(written, End(start, i) + 1, End(start, i)) = <<>>
      BY <1>2, <1>3, SubSeqEmpty
    <3>3. QED
      BY <1>2, <1>3, <1>5, <1>6, <2>1, <3>1, <3>2 DEF HoldsPart
  <2>2. CASE j = i + 1
    <3>1. End(moved, i + 1)' = End(start, i)
      BY <1>2, <1>5 DEF End
    <3>2. QED
      BY <1>2, <1>4, <1>5, <1>6, <2>2, <3>1 DEF HoldsPart
  <2>3. CASE j = i + 2
    <3>1. files[i + 1] = <<>>
      BY <2>3, JournalAssumption
    <3>2. files[i + 1] = SubSeq(written, start[i + 1] + 1, start[i]) /\ start[i + 1] <= start[i]
      BY <1>2, <1>4 DEF End
    <3>3. start[i + 1] = start[i]
      <4>1. SUFFICES ASSUME start[i + 1] < start[i] PROVE FALSE
        BY <1>2, <1>3, <3>2
      <4>2. \A k \in (start[i + 1] + 1)..start[i] : written[k] \in Piece
        BY <1>2, <1>3, ElementOfSeq
      <4>3. Len(files[i + 1]) = start[i] - start[i + 1]
        BY <1>2, <1>3, <3>2, <4>1, <4>2, SubSeqProperties
      <4>4. QED
        BY <1>2, <1>3, <3>1, <4>1, <4>3, EmptySeq
    <3>4. End(moved, j)' = End(start, j) /\ moved[j] = start[j] /\ files'[j] = files[j]
      BY <1>2, <1>5, <1>6, <2>3, <3>3 DEF End
    <3>5. QED
      BY <1>4, <3>4 DEF HoldsPart
  <2>4. CASE j \notin {i, i + 1, i + 2}
    <3>1. End(moved, j)' = End(start, j)
      BY <1>2, <1>5, <2>4, JournalAssumption DEF End
    <3>2. QED
      BY <1>4, <1>5, <1>6, <2>4, <3>1 DEF HoldsPart
  <2>5. QED
    BY <2>1, <2>2, <2>3, <2>4
<1>8. QED
  BY <1>5, <1>7 DEF Suffix, OnDisk

\* Every kind of step leaves the last pieces written on disk, in order.
LEMMA DiskStep ==
  ASSUME TypeOK, Chained, RoomBehind, Suffix, TypeOK', Chained', [Next]_vars
  PROVE  RoomBehind' /\ Suffix'
<1>0. \A q \in Records : slot[q] \in 0..(MaxFiles - 1)
  BY DEF TypeOK
<1>1. UNCHANGED <<files, written>> => Suffix'
  BY DEF Suffix, OnDisk, HoldsPart, End
<1>2. ASSUME NEW r \in Records, record(r) PROVE RoomBehind' /\ Suffix'
  BY <1>1, <1>2 DEF record, RoomBehind, TypeOK
<1>3. ASSUME NEW r \in Records, rotateIfNeeded(r) PROVE RoomBehind' /\ Suffix'
  <2>1. ASSUME NEW q \in Records, pc'[q] = "rename"
        PROVE  slot'[q] + 1 = MaxFiles \/ files'[slot'[q] + 1] = <<>>
    <3>1. CASE q = r
      <4>1. slot'[r] = MaxFiles - 1
        BY <1>3, <2>1, <3>1 DEF rotateIfNeeded, TypeOK
      <4>2. QED
        BY <3>1, <4>1, JournalAssumption
    <3>2. CASE q # r
      BY <1>3, <2>1, <3>2 DEF rotateIfNeeded, TypeOK, RoomBehind
    <3>3. QED
      BY <3>1, <3>2
  <2>2. QED
    BY <1>1, <1>3, <2>1 DEF rotateIfNeeded, RoomBehind
<1>4. ASSUME NEW r \in Records, rotate(r) PROVE RoomBehind' /\ Suffix'
  <2> DEFINE i == slot[r]
  <2>1. /\ i \in 0..(MaxFiles - 1) /\ i \in 0..MaxFiles /\ i + 1 \in 0..MaxFiles /\ i + 1 # i
        /\ i + 1 = MaxFiles \/ files[i + 1] = <<>>
    BY <1>0, <1>4, JournalAssumption DEF rotate, RoomBehind
  <2>2. files'[i] = <<>>
    BY <1>4, <2>1 DEF rotate, TypeOK
  <2>3. ASSUME NEW q \in Records, pc'[q] = "rename" PROVE slot'[q] + 1 = MaxFiles \/ files'[slot'[q] + 1] = <<>>
    <3>1. pc[q] = "rename"
      BY <1>4, <2>3 DEF rotate, TypeOK
    <3>2. q = r
      BY <1>4, <3>1, OneAtATime, TypedQueue DEF rotate, OneWriter
    <3>3. slot[r] # 0
      BY <1>4, <2>3, <3>2 DEF rotate, TypeOK
    <3>4. slot'[r] = i - 1
      BY <1>4, <3>3 DEF rotate, TypeOK
    <3>5. slot'[r] + 1 = i
      BY <2>1, <3>4
    <3>6. QED
      BY <2>2, <3>2, <3>5
  <2>4. Suffix'
    <3>1. CASE files[i] = <<>>
      BY <1>1, <1>4, <3>1 DEF rotate
    <3>2. CASE files[i] # <<>>
      BY <1>4, <2>1, <3>2, RenameKeepsSuffix DEF rotate
    <3>3. QED
      BY <3>1, <3>2
  <2>5. QED
    BY <2>3, <2>4 DEF RoomBehind
<1>5. ASSUME NEW r \in Records, NEW whole \in BOOLEAN,
             Put([record |-> r, whole |-> whole])
      PROVE  Suffix' /\ \A j \in 1..MaxFiles : files'[j] = files[j]
  <2>1. [record |-> r, whole |-> whole] \in Piece
    BY DEF Piece
  <2>2. \A j \in 1..MaxFiles : files'[j] = files[j]
    BY <1>5, JournalAssumption DEF Put, TypeOK
  <2>3. QED
    BY <1>5, <2>1, <2>2, AppendKeepsSuffix
<1>6. ASSUME UNCHANGED slot, \A q \in Records : pc'[q] = "rename" => pc[q] = "rename",
             \A j \in 1..MaxFiles : files'[j] = files[j]
      PROVE  RoomBehind'
  <2>1. \A q \in Records : slot[q] + 1 \in 1..MaxFiles
    BY <1>0, JournalAssumption
  <2>2. QED
    BY <1>6, <2>1 DEF RoomBehind
<1>7. ASSUME NEW r \in Records, writeOnce(r) PROVE RoomBehind' /\ Suffix'
  <2>1. UNCHANGED slot /\ \A q \in Records : pc'[q] = "rename" => pc[q] = "rename"
    BY <1>7 DEF writeOnce, TypeOK
  <2>2. Suffix' /\ \A j \in 1..MaxFiles : files'[j] = files[j]
    BY <1>5, <1>7 DEF writeOnce
  <2>3. QED
    BY <1>6, <2>1, <2>2
<1>8. ASSUME NEW r \in Records, FsFails(r) PROVE RoomBehind' /\ Suffix'
  <2>1. UNCHANGED slot /\ \A q \in Records : pc'[q] = "rename" => pc[q] = "rename"
    BY <1>8 DEF FsFails, TypeOK
  <2>2. Suffix' /\ \A j \in 1..MaxFiles : files'[j] = files[j]
    BY <1>1, <1>5, <1>8 DEF FsFails
  <2>3. QED
    BY <1>6, <2>1, <2>2
<1>9. CASE close
  BY <1>1, <1>9 DEF close, RoomBehind
<1>10. CASE closeReturns
  BY <1>1, <1>10 DEF closeReturns, RoomBehind
<1>11. CASE Crash
  <2>1. UNCHANGED slot /\ \A q \in Records : pc'[q] = "rename" => pc[q] = "rename"
    BY <1>11 DEF Crash, TypeOK
  <2>2. Suffix' /\ \A j \in 1..MaxFiles : files'[j] = files[j]
    BY <1>1, <1>5, <1>11 DEF Crash
  <2>3. QED
    BY <1>6, <2>1, <2>2
<1>12. CASE UNCHANGED vars
  BY <1>1, <1>12 DEF vars, queueVars, RoomBehind
<1>13. QED
  BY <1>2, <1>3, <1>4, <1>7, <1>8, <1>9, <1>10, <1>11, <1>12 DEF Next, Write

-----------------------------------------------------------------------------
(* The specification.                                                      *)

LEMMA JournalInit ==
  ASSUME Init
  PROVE  JournalInv
<1> USE JournalAssumption DEF Init
<1>1. TypeOK
  <2>1. <<>> \in Seq(Piece) /\ 0 \in 0..(MaxFiles - 1)
    BY EmptySeq
  <2>2. QED
    BY <2>1 DEF TypeOK, None
<1>2. QueueInv
  BY DEF QueueInv, InOrder, Chained, TailIsLast, Closing, ClosedIsQuiet, FailureIsOwn, Pending
<1>3. RoomBehind
  BY DEF RoomBehind
<1>4. Suffix
  <2> DEFINE start == [i \in 0..MaxFiles |-> 0]
  <2>1. Len(written) = 0 /\ SubSeq(written, 1, 0) = <<>>
    BY SubSeqEmpty
  <2>2. start \in [0..MaxFiles -> 0..Len(written)]
    BY <2>1
  <2>3. ASSUME NEW i \in 0..MaxFiles PROVE HoldsPart(start, i)
    <3>1. start[i] = 0 /\ End(start, i) = 0
      BY <2>1 DEF End
    <3> HIDE DEF start
    <3>2. QED
      BY <2>1, <3>1 DEF HoldsPart
  <2>4. QED
    BY <2>2, <2>3 DEF Suffix, OnDisk
<1>5. QED
  BY <1>1, <1>2, <1>3, <1>4 DEF JournalInv

\* The invariant of the journal holds whatever fails and whenever the process crashes.
THEOREM JournalInductive == Spec => []JournalInv
<1>1. ASSUME JournalInv, [Next]_vars PROVE JournalInv'
  <2>1. TypeOK' /\ QueueInv'
    BY <1>1, TypeStep, QueueStep, TypedQueue DEF JournalInv
  <2>2. RoomBehind' /\ Suffix'
    BY <1>1, <2>1, DiskStep DEF JournalInv, QueueInv
  <2>3. QED
    BY <2>1, <2>2 DEF JournalInv
<1>2. QED
  BY <1>1, JournalInit, PTL DEF Spec

\* Read from the oldest archive to the current file the disk holds the last pieces written,
\* in order and without a hole, through rotations interrupted by failures and crashes and
\* resumed by later ones (rotate, rotateIfNeeded), and one call writes at a time.
THEOREM DiskKeepsOrder == Spec => []DiskIsSuffix
<1>1. JournalInv => DiskIsSuffix
  BY OneAtATime, TypedQueue DEF JournalInv, QueueInv, DiskIsSuffix, Suffix
<1>2. QED
  BY <1>1, JournalInductive, PTL

\* When close() has returned, no record is queued or being written.
THEOREM CloseDrains == Spec => []ClosedIsQuiet
<1>1. JournalInv => ClosedIsQuiet
  BY DEF JournalInv, QueueInv
<1>2. QED
  BY <1>1, JournalInductive, PTL

\* record() rejects only for a file-system call of its own: the queue passes no failure on.
THEOREM FailuresAreOwn == Spec => []FailureIsOwn
<1>1. JournalInv => FailureIsOwn
  BY DEF JournalInv, QueueInv
<1>2. QED
  BY <1>1, JournalInductive, PTL
=============================================================================
