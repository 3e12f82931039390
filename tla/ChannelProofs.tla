---------------------------- MODULE ChannelProofs ----------------------------
(***************************************************************************)
(* The two channels that JavaScript and the threads of Rust share: the     *)
(* queue through which an isolate gets the responses of its ops, and the   *)
(* channels between a worker and its host.                                 *)
(*                                                                         *)
(* The shared queue is proved for every capacity, every number of record   *)
(* slots and every set of records: its layout invariants, and that it      *)
(* implements the FIFO queue of OpQueue.  One worker and its host are      *)
(* proved for any number of messages and events and for whatever the       *)
(* program calls.                                                          *)
(***************************************************************************)
EXTENDS SharedQueue, Workers, SequenceTheorems, TLAPS

-----------------------------------------------------------------------------
(* The shared queue.                                                       *)

Inv == TypeOK /\ Layout /\ EmptyIsReset /\ ViewBelowHead

-----------------------------------------------------------------------------
(* Arithmetic of the alignment to four bytes.                              *)

\* (n + 3) & !3 is the next multiple of four.
LEMMA AlignUp ==
  ASSUME NEW n \in Nat
  PROVE  /\ Align(n) \in Nat
         /\ n <= Align(n)
         /\ Align(n) <= n + 3
         /\ Align(n) % 4 = 0
  BY DEF Align

\* Aligning an address is aligning its distance from an aligned address.
LEMMA AlignOffset ==
  ASSUME NEW m \in Nat, NEW n \in Nat, m % 4 = 0
  PROVE  Align(m + n) = m + Align(n)
  BY DEF Align

\* The records area starts at an aligned address.
LEMMA HeadInitAligned == HeadInit \in Nat /\ HeadInit % 4 = 0
  BY SharedQueueAssumption DEF HeadInit, IndexRecords, IndexOffsets

\* The buffer begins with its head, and is no shorter.
LEMMA ByteLengthNat == ByteLength \in Nat /\ HeadInit <= ByteLength
  BY HeadInitAligned, SharedQueueAssumption DEF ByteLength

-----------------------------------------------------------------------------
(* The inductive invariant.                                                *)

\* Under the invariant the record to be shifted, and every pending one, lies in
\* the records area.
LEMMA OffsetRange ==
  ASSUME TypeOK, Layout, NEW i \in 0 .. (numRecords - 1)
  PROVE  /\ i \in Slots
         /\ GetOffset(i) \in Nat
         /\ HeadInit <= GetOffset(i)
         /\ GetOffset(i) <= meta[i].end
         /\ meta[i].end \in Nat
         /\ meta[i].end <= head
         /\ meta[i].op \in OpIds
<1>1. i \in Slots
  BY SharedQueueAssumption DEF TypeOK, Slots
<1>2. meta[i].end \in Nat
  BY <1>1 DEF TypeOK
<1>3. GetOffset(i) \in Nat
  <2>1. CASE i = 0
    BY <2>1, HeadInitAligned DEF GetOffset
  <2>2. CASE i # 0
    <3>1. i - 1 \in Slots
      BY <1>1, <2>2, SharedQueueAssumption DEF Slots
    <3>2. meta[i - 1].end \in Nat
      BY <3>1 DEF TypeOK
    <3> QED
      BY <2>2, <3>2, AlignUp DEF GetOffset
  <2> QED
    BY <2>1, <2>2
<1> QED
  BY <1>1, <1>2, <1>3 DEF Layout

\* The initial buffer is empty.
LEMMA InitInv == Init => Inv
<1> SUFFICES ASSUME Init PROVE Inv
  OBVIOUS
<1>1. TypeOK
  <2>1. view \in Seq([op : OpIds, off : Nat, end : Nat]) /\ Len(view) <= 1
    BY DEF Init
  <2>2. meta \in [Slots -> [end : Nat, op : OpIds \cup {0}]]
    BY DEF Init
  <2>3. bytes \in [Addresses -> Bytes]
    BY SharedQueueAssumption DEF Init
  <2> QED
    BY <2>1, <2>2, <2>3, HeadInitAligned, ByteLengthNat, SharedQueueAssumption
    DEF Init, TypeOK
<1>2. Layout /\ EmptyIsReset /\ ViewBelowHead
  BY HeadInitAligned DEF Init, Layout, EmptyIsReset, ViewBelowHead, size
<1> QED
  BY <1>1, <1>2 DEF Inv

\* A push writes behind the pending records and keeps them as they are.
LEMMA PushInv ==
  ASSUME Inv, NEW op \in OpIds, NEW record \in Records, Push(op, record)
  PROVE  Inv'
<1> DEFINE off == head
           end == off + Len(record)
<1>1. record \in Seq(Bytes) /\ Len(record) \in Nat
  BY SharedQueueAssumption
<1>2. head \in Nat /\ HeadInit <= head /\ head % 4 = 0
  <2>0. head \in Nat /\ HeadInit <= head
    BY HeadInitAligned, ByteLengthNat DEF Inv, TypeOK
  <2>1. CASE numRecords = 0
    BY <2>0, <2>1, HeadInitAligned DEF Inv, Layout
  <2>2. CASE numRecords # 0
    <3>1. numRecords - 1 \in Slots
      BY <2>2, SharedQueueAssumption DEF Inv, TypeOK, Slots
    <3>2. meta[numRecords - 1].end \in Nat
      BY <3>1 DEF Inv, TypeOK
    <3>3. head = Align(meta[numRecords - 1].end)
      BY <2>2 DEF Inv, Layout
    <3>4. Align(meta[numRecords - 1].end) % 4 = 0
      BY <3>2, AlignUp
    <3> QED
      BY <2>0, <3>3, <3>4
  <2> QED
    BY <2>1, <2>2
<1>3. end \in Nat /\ head <= end /\ end = head + Len(record)
  BY <1>1, <1>2
<1>4. /\ ~ (Align(end) > ByteLength)
      /\ ~ (numRecords >= MaxRecords)
      /\ numShiftedOff' = numShiftedOff
      /\ numRecords' = numRecords + 1
      /\ head' = Align(end)
      /\ meta' = [meta EXCEPT ![numRecords] = [end |-> end, op |-> op]]
      /\ bytes' = [a \in Addresses |->
                     IF a \in off .. (end - 1) THEN record[a - off + 1] ELSE bytes[a]]
  BY DEF Push, Overflows
<1> HIDE DEF end
<1>5. end \in Nat /\ head <= end /\ end <= Align(end) /\ Align(end) \in Nat
  BY <1>3, AlignUp
<1>6. /\ numRecords \in Slots
      /\ Align(end) <= ByteLength
      /\ numShiftedOff' = numShiftedOff
      /\ numRecords' = numRecords + 1
      /\ head' = Align(end)
      /\ meta' = [meta EXCEPT ![numRecords] = [end |-> end, op |-> op]]
  BY <1>4, <1>5, SharedQueueAssumption, ByteLengthNat DEF Inv, TypeOK, Slots
<1>7. /\ meta'[numRecords] = [end |-> end, op |-> op]
      /\ \A i \in Slots : i # numRecords => meta'[i] = meta[i]
  BY <1>6 DEF Inv, TypeOK
<1>8. TypeOK'
  <2>1. numRecords' \in 0 .. MaxRecords /\ numShiftedOff' \in 0 .. MaxRecords
    BY <1>6, SharedQueueAssumption DEF Slots, Inv, TypeOK
  <2>2. head' \in HeadInit .. ByteLength
    BY <1>6, <1>2, <1>5, HeadInitAligned, ByteLengthNat
  <2>3. meta' \in [Slots -> [end : Nat, op : OpIds \cup {0}]]
    BY <1>6, <1>5 DEF Inv, TypeOK
  <2>4. bytes' \in [Addresses -> Bytes]
    <3>1. \A a \in Addresses : a \in off .. (end - 1) => record[a - off + 1] \in Bytes
      <4> SUFFICES ASSUME NEW a \in Addresses, a \in off .. (end - 1)
                   PROVE  record[a - off + 1] \in Bytes
        OBVIOUS
      <4>1. a - off + 1 \in 1 .. Len(record)
        BY <1>1, <1>2, <1>3
      <4> QED
        BY <1>1, <4>1, ElementOfSeq
    <3>2. \A a \in Addresses : bytes[a] \in Bytes
      BY DEF Inv, TypeOK
    <3>3. bytes' = [a \in Addresses |->
                      IF a \in off .. (end - 1) THEN record[a - off + 1] ELSE bytes[a]]
      BY <1>4
    <3> QED
      BY <3>1, <3>2, <3>3
  <2>5. view' \in Seq([op : OpIds, off : Nat, end : Nat]) /\ Len(view') <= 1
    BY DEF Push, Inv, TypeOK
  <2> QED
    BY <2>1, <2>2, <2>3, <2>4, <2>5 DEF TypeOK
<1>9. Layout'
  <2>1. head' = Align(meta'[numRecords' - 1].end)
    BY <1>6, <1>7, SharedQueueAssumption DEF Slots
  <2>2. ASSUME NEW i \in 0 .. numRecords
        PROVE  /\ GetOffset(i)' % 4 = 0
               /\ HeadInit <= GetOffset(i)'
               /\ GetOffset(i)' <= meta'[i].end
               /\ meta'[i].end <= head'
               /\ meta'[i].op \in OpIds
    <3>1. CASE i = numRecords
      <4>1. GetOffset(i)' = head
        <5>1. CASE i = 0
          BY <5>1, <3>1 DEF GetOffset, Inv, Layout
        <5>2. CASE i # 0
          <6>1. i - 1 \in Slots /\ i - 1 # numRecords
            BY <5>2, <3>1, <1>6, SharedQueueAssumption DEF Slots
          <6> QED
            BY <6>1, <5>2, <3>1, <1>7 DEF GetOffset, Inv, Layout
        <5> QED
          BY <5>1, <5>2
      <4> QED
        BY <3>1, <4>1, <1>6, <1>2, <1>5, <1>7
    <3>2. CASE i # numRecords
      <4>0. i \in 0 .. (numRecords - 1)
        BY <3>2, <1>6 DEF Slots
      <4>1. GetOffset(i)' = GetOffset(i)
        <5>1. CASE i = 0
          BY <5>1 DEF GetOffset
        <5>2. CASE i # 0
          <6>1. i - 1 \in Slots /\ i - 1 # numRecords
            BY <5>2, <4>0, <1>6, SharedQueueAssumption DEF Slots
          <6> QED
            BY <6>1, <5>2, <1>7 DEF GetOffset
        <5> QED
          BY <5>1, <5>2
      <4>2. meta'[i] = meta[i] /\ GetOffset(i) % 4 = 0
        BY <4>0, <1>6, <1>7, OffsetRange DEF Inv, Layout
      <4> QED
        BY <4>0, <4>1, <4>2, <1>6, <1>2, <1>5, OffsetRange DEF Inv
    <3> QED
      BY <3>1, <3>2
  <2>3. numShiftedOff' <= numRecords' /\ numRecords' # 0 /\ numRecords' - 1 = numRecords
    BY <1>6 DEF Inv, Layout, TypeOK, Slots
  <2> QED
    BY <2>1, <2>2, <2>3 DEF Layout
<1>10. EmptyIsReset'
  BY <1>6 DEF Inv, EmptyIsReset, Layout, TypeOK, Slots, size
<1>11. ViewBelowHead'
  <2>1. CASE size = 0
    BY <2>1 DEF Push, ViewBelowHead
  <2>2. CASE size # 0
    <3>1. view' = view /\ numRecords # 0
      BY <2>2 DEF Push, size, Inv, Layout, TypeOK
    <3>2. \A k \in 1 .. Len(view) : view[k].end \in Nat
      <4> SUFFICES ASSUME NEW k \in 1 .. Len(view) PROVE view[k].end \in Nat
        OBVIOUS
      <4>1. view \in Seq([op : OpIds, off : Nat, end : Nat])
        BY DEF Inv, TypeOK
      <4>2. view[k] \in [op : OpIds, off : Nat, end : Nat]
        BY <4>1, ElementOfSeq
      <4> QED
        BY <4>2
    <3> QED
      BY <3>1, <3>2, <1>6, <1>2, <1>5 DEF Inv, ViewBelowHead
  <2> QED
    BY <2>1, <2>2
<1> QED
  BY <1>8, <1>9, <1>10, <1>11 DEF Inv

\* The record taken stays where it is; with the last one the space is given back.
LEMMA ShiftInv ==
  ASSUME Inv, Shift
  PROVE  Inv'
<1>1. numShiftedOff \in 0 .. (numRecords - 1)
  BY DEF Shift, size, Inv, TypeOK, Layout
<1> DEFINE v == [op  |-> meta[numShiftedOff].op,
                 off |-> GetOffset(numShiftedOff),
                 end |-> meta[numShiftedOff].end]
<1>2. /\ v \in [op : OpIds, off : Nat, end : Nat]
      /\ HeadInit <= v.off
      /\ v.off <= v.end
      /\ v.end <= head
  BY <1>1, OffsetRange DEF Inv
<1> HIDE DEF v
<1>3. view' = <<v>> /\ meta' = meta /\ bytes' = bytes
  BY DEF Shift, v
<1>4. head <= ByteLength
  BY HeadInitAligned, ByteLengthNat DEF Inv, TypeOK
<1>5. view' \in Seq([op : OpIds, off : Nat, end : Nat]) /\ Len(view') <= 1
  BY <1>2, <1>3
<1>6. CASE size > 1
  <2>1. /\ numShiftedOff' = numShiftedOff + 1
        /\ numRecords' = numRecords
        /\ head' = head
    BY <1>6 DEF Shift
  <2>2. TypeOK'
    BY <1>1, <1>3, <1>5, <2>1, SharedQueueAssumption DEF Inv, TypeOK
  <2>3. Layout'
    BY <1>1, <1>3, <2>1 DEF Inv, TypeOK, Layout, GetOffset
  <2>4. EmptyIsReset'
    BY <1>6, <2>1, <1>1 DEF EmptyIsReset, size, Inv, TypeOK
  <2>5. ViewBelowHead'
    <3>1. Len(view') = 1 /\ view'[1] = v
      BY <1>3
    <3> QED
      BY <1>2, <1>4, <2>1, <3>1, HeadInitAligned, ByteLengthNat
      DEF ViewBelowHead, Inv, TypeOK
  <2> QED
    BY <2>2, <2>3, <2>4, <2>5 DEF Inv
<1>7. CASE ~ (size > 1)
  <2>1. numShiftedOff' = 0 /\ numRecords' = 0 /\ head' = HeadInit
    BY <1>7 DEF Shift, ResetCounters
  <2>2. TypeOK'
    BY <1>3, <1>5, <2>1, HeadInitAligned, ByteLengthNat, SharedQueueAssumption
    DEF Inv, TypeOK
  <2>3. Layout' /\ EmptyIsReset'
    BY <2>1 DEF Layout, EmptyIsReset, size
  <2>4. ViewBelowHead'
    <3>1. Len(view') = 1 /\ view'[1] = v
      BY <1>3
    <3> QED
      BY <1>2, <1>4, <2>1, <3>1, HeadInitAligned, ByteLengthNat
      DEF ViewBelowHead, Inv, TypeOK
  <2> QED
    BY <2>2, <2>3, <2>4 DEF Inv
<1> QED
  BY <1>6, <1>7

\* sharedQueue.reset drops whatever was pending.
LEMMA ResetInv ==
  ASSUME Inv, Reset
  PROVE  Inv'
<1>1. /\ numShiftedOff' = 0 /\ numRecords' = 0 /\ head' = HeadInit
      /\ meta' = meta /\ bytes' = bytes /\ view' = view
  BY DEF Reset, ResetCounters
<1>2. TypeOK'
  BY <1>1, HeadInitAligned, ByteLengthNat, SharedQueueAssumption DEF Inv, TypeOK
<1>3. Layout' /\ EmptyIsReset' /\ ViewBelowHead'
  BY <1>1 DEF Inv, Layout, EmptyIsReset, ViewBelowHead, size
<1> QED
  BY <1>2, <1>3 DEF Inv

\* The invariant holds in every reachable state, whatever the buffer's dimensions.
THEOREM InvHolds == Spec => []Inv
<1>1. Inv /\ [Next]_vars => Inv'
  <2> SUFFICES ASSUME Inv, [Next]_vars PROVE Inv'
    OBVIOUS
  <2>1. ASSUME NEW op \in OpIds, NEW record \in Records, Push(op, record)
        PROVE  Inv'
    BY <2>1, PushInv
  <2>2. CASE Shift
    BY <2>2, ShiftInv
  <2>3. CASE Reset
    BY <2>3, ResetInv
  <2>4. CASE UNCHANGED vars
    BY <2>4 DEF vars, Inv, TypeOK, Layout, EmptyIsReset, ViewBelowHead, size, GetOffset
  <2> QED
    BY <2>1, <2>2, <2>3, <2>4 DEF Next
<1> QED
  BY InitInv, <1>1, PTL DEF Spec

\* The counters and tables of the buffer keep their types: in particular a push
\* never leaves the head behind the end of the buffer.
THEOREM TypeCorrect == Spec => []TypeOK
  BY InvHolds, PTL DEF Inv

\* The records are aligned, in order, inside the buffer and below the head, and a
\* subarray given to JavaScript does not reach into space a push may write.
THEOREM BufferStaysIntact == Spec => []BufferIntact
<1>1. Inv => BufferIntact
  BY DEF Inv, BufferIntact
<1> QED
  BY <1>1, InvHolds, PTL

\* A drained queue always has its full capacity back.
THEOREM DrainedIsReset == Spec => []EmptyIsReset
  BY InvHolds, PTL DEF Inv

-----------------------------------------------------------------------------
(* The refinement: every step of the buffer is a step of the FIFO queue.   *)

\* The abstract queue has as many responses as the counters say.
LEMMA PendingLength ==
  ASSUME Inv
  PROVE  /\ size \in Nat
         /\ Len(pending) = size
         /\ pending = <<>> <=> size = 0
<1>1. size \in Nat
  BY DEF size, Inv, TypeOK, Layout
<1>2. Len(pending) = size
  BY <1>1 DEF pending
<1>3. size = 0 => pending = <<>>
  BY <1>1 DEF pending
<1> QED
  BY <1>1, <1>2, <1>3

\* The functions the refinement mapping is made of are sequences.
LEMMA FunctionIsSeq ==
  ASSUME NEW n \in Nat, NEW f, NEW S, \A i \in 1 .. n : f[i] \in S
  PROVE  /\ [i \in 1 .. n |-> f[i]] \in Seq(S)
         /\ Len([i \in 1 .. n |-> f[i]]) = n
  OBVIOUS

\* A sequence of images, with one more.
LEMMA AppendFunction ==
  ASSUME NEW n \in Nat, NEW f, NEW g, NEW x,
         \A i \in 1 .. n : g[i] = f[i],
         g[n + 1] = x
  PROVE  [i \in 1 .. (n + 1) |-> g[i]] = Append([i \in 1 .. n |-> f[i]], x)
<1> DEFINE S == {f[i] : i \in 1 .. n} \cup {x}
<1>1. [i \in 1 .. n |-> f[i]] \in Seq(S)
  OBVIOUS
<1> HIDE DEF S
<1> QED
  BY <1>1

\* A sequence of images, without the first.
LEMMA TailFunction ==
  ASSUME NEW n \in Nat \ {0}, NEW f, NEW g,
         \A i \in 1 .. (n - 1) : g[i] = f[i + 1]
  PROVE  /\ [i \in 1 .. (n - 1) |-> g[i]] = Tail([i \in 1 .. n |-> f[i]])
         /\ Head([i \in 1 .. n |-> f[i]]) = f[1]
<1> DEFINE S == {f[i] : i \in 1 .. n}
<1>1. [i \in 1 .. n |-> f[i]] \in Seq(S)
  OBVIOUS
<1> HIDE DEF S
<1> QED
  BY <1>1

\* The bytes below the head are not touched by a push.
LEMMA ContentsKept ==
  ASSUME Inv, NEW op \in OpIds, NEW record \in Records, Push(op, record),
         NEW off \in Nat, NEW end \in Nat, HeadInit <= off, end <= head
  PROVE  Contents(off, end)' = Contents(off, end)
<1>1. head \in Nat /\ HeadInit <= head /\ head <= ByteLength
  BY HeadInitAligned, ByteLengthNat DEF Inv, TypeOK
<1>2. ASSUME NEW k \in 1 .. (end - off)
      PROVE  bytes'[off + k - 1] = bytes[off + k - 1]
  <2>1. off + k - 1 \in Addresses /\ ~ (off + k - 1 >= head)
    BY <1>1, HeadInitAligned, ByteLengthNat DEF Addresses
  <2>2. off + k - 1 \notin head .. (head + Len(record) - 1)
    BY <1>1, <2>1
  <2> QED
    BY <2>1, <2>2 DEF Push
<1> QED
  BY <1>2 DEF Contents

\* A push keeps the records of the slots in use.
LEMMA RecordKept ==
  ASSUME Inv, NEW op \in OpIds, NEW record \in Records, Push(op, record),
         NEW i \in 0 .. (numRecords - 1)
  PROVE  i \in Slots /\ stored'[i] = stored[i]
<1>1. /\ i \in Slots
      /\ GetOffset(i) \in Nat /\ HeadInit <= GetOffset(i)
      /\ meta[i].end \in Nat /\ meta[i].end <= head
  BY OffsetRange DEF Inv
<1>2. \A j \in Slots : j # numRecords => meta'[j] = meta[j]
  BY DEF Push, Inv, TypeOK
<1>3. numRecords \in Nat
  BY SharedQueueAssumption DEF Inv, TypeOK
<1>4. meta'[i] = meta[i]
  BY <1>1, <1>2, <1>3
<1>5. GetOffset(i)' = GetOffset(i)
  <2>1. CASE i = 0
    BY <2>1 DEF GetOffset
  <2>2. CASE i # 0
    <3>1. i - 1 \in Slots /\ i - 1 # numRecords
      BY <1>1, <1>3, <2>2, SharedQueueAssumption DEF Slots
    <3> QED
      BY <1>2, <2>2, <3>1 DEF GetOffset
  <2> QED
    BY <2>1, <2>2
<1>6. PICK o \in Nat : o = GetOffset(i)
  BY <1>1
<1>7. PICK e \in Nat : e = meta[i].end
  BY <1>1
<1>8. Contents(o, e)' = Contents(o, e)
  BY <1>1, <1>6, <1>7, ContentsKept
<1>9. Contents(GetOffset(i), meta[i].end)' = Contents(o, e)
  BY <1>4, <1>5, <1>6, <1>7, <1>8 DEF Contents
<1> QED
  BY <1>1, <1>4, <1>6, <1>7, <1>9 DEF stored

\* A push stores its own record, byte for byte, in the next slot.
LEMMA RecordPushed ==
  ASSUME Inv, NEW op \in OpIds, NEW record \in Records, Push(op, record)
  PROVE  numRecords \in Slots /\ stored'[numRecords] = <<op, record>>
<1>1. record \in Seq(Bytes) /\ Len(record) \in Nat
  BY SharedQueueAssumption
<1>2. /\ numRecords \in Slots
      /\ head \in Nat /\ HeadInit <= head
  BY HeadInitAligned, ByteLengthNat, SharedQueueAssumption
  DEF Inv, TypeOK, Push, Overflows, Slots
<1>3. PICK n \in Slots : n = numRecords
  BY <1>2
<1>4. PICK o \in Nat : o = head
  BY <1>2
<1>5. head + Len(record) <= ByteLength
  <2>1. head + Len(record) \in Nat
    BY <1>1, <1>2
  <2>2. /\ Align(head + Len(record)) \in Nat
        /\ head + Len(record) <= Align(head + Len(record))
    BY <2>1, AlignUp
  <2> QED
    BY <2>1, <2>2, ByteLengthNat DEF Push, Overflows
<1>6. meta'[n] = [end |-> o + Len(record), op |-> op]
  BY <1>3, <1>4 DEF Push, Inv, TypeOK
<1>7. GetOffset(n)' = o
  <2>1. CASE n = 0
    BY <1>3, <1>4, <2>1 DEF GetOffset, Inv, Layout
  <2>2. CASE n # 0
    <3>1. n - 1 \in Slots /\ n - 1 # n
      BY <2>2, <1>3, SharedQueueAssumption DEF Slots
    <3>2. meta'[n - 1] = meta[n - 1]
      BY <1>3, <3>1 DEF Push, Inv, TypeOK
    <3>3. head = Align(meta[n - 1].end)
      BY <1>3, <2>2 DEF Inv, Layout
    <3> QED
      BY <1>4, <2>2, <3>2, <3>3 DEF GetOffset
  <2> QED
    BY <2>1, <2>2
<1>8. ASSUME NEW k \in 1 .. Len(record)
      PROVE  bytes'[o + k - 1] = record[k]
  <2>1. PICK a \in Addresses : a = o + k - 1
    BY <1>1, <1>2, <1>4, <1>5, HeadInitAligned, ByteLengthNat DEF Addresses
  <2> DEFINE off == head
             end == off + Len(record)
  <2>2. a \in off .. (end - 1) /\ a - off + 1 = k
    BY <1>1, <1>2, <1>4, <2>1
  <2>3. bytes' = [b \in Addresses |->
                    IF b \in off .. (end - 1) THEN record[b - off + 1] ELSE bytes[b]]
    BY Zenon DEF Push
  <2> HIDE DEF off, end
  <2>4. bytes'[a] = IF a \in off .. (end - 1) THEN record[a - off + 1] ELSE bytes[a]
    BY <2>1, <2>3
  <2> QED
    BY <2>1, <2>2, <2>4
<1>9. record = [k \in 1 .. Len(record) |-> record[k]]
  BY <1>1
<1>10. Contents(GetOffset(n), meta[n].end)' = record
  <2>1. meta'[n].end = o + Len(record)
    BY <1>6
  <2>2. Contents(GetOffset(n), meta[n].end)'
          = [k \in 1 .. (meta'[n].end - GetOffset(n)') |-> bytes'[GetOffset(n)' + k - 1]]
    BY DEF Contents
  <2>3. Contents(GetOffset(n), meta[n].end)'
          = [k \in 1 .. ((o + Len(record)) - o) |-> bytes'[o + k - 1]]
    BY <1>7, <2>1, <2>2
  <2>4. (o + Len(record)) - o = Len(record)
    BY <1>1
  <2> QED
    BY <1>8, <1>9, <2>3, <2>4
<1>11. stored'[n] = <<op, record>>
  BY <1>6, <1>10 DEF stored
<1> QED
  BY <1>2, <1>3, <1>11

\* The initial buffer is the empty queue.
LEMMA InitRefines == Init => Q!Init
<1> SUFFICES ASSUME Init PROVE Q!Init
  OBVIOUS
<1>1. pending = <<>>
  BY InitInv, PendingLength DEF Init, size
<1>2. viewed = <<>>
  BY DEF Init, viewed
<1> QED
  BY <1>1, <1>2, HeadInitAligned DEF Init, Q!Init

\* A push appends the record to the queue, and leaves the pending ones readable.
LEMMA PushRefines ==
  ASSUME Inv, NEW op \in OpIds, NEW record \in Records, Push(op, record)
  PROVE  Q!Enqueue(<<op, record>>)
<1> DEFINE item == <<op, record>>
<1>1. /\ item \in OpIds \X Records
      /\ item[1] = op
      /\ item[2] = record
  OBVIOUS
<1>2. record \in Seq(Bytes) /\ Len(record) \in Nat
  BY SharedQueueAssumption
<1>3. numRecords \in Nat /\ numShiftedOff \in Nat /\ head \in Nat /\ HeadInit <= head
  BY HeadInitAligned, ByteLengthNat, SharedQueueAssumption DEF Inv, TypeOK
<1>4. Align(head + Len(record)) = HeadInit + Q!Align(head - HeadInit + Len(record))
  <2>1. head - HeadInit + Len(record) \in Nat
    BY <1>2, <1>3, HeadInitAligned
  <2>2. Align(HeadInit + (head - HeadInit + Len(record)))
          = HeadInit + Align(head - HeadInit + Len(record))
    BY <2>1, HeadInitAligned, AlignOffset
  <2>3. HeadInit + (head - HeadInit + Len(record)) = head + Len(record)
    BY <1>2, <1>3, HeadInitAligned
  <2>4. Q!Align(head - HeadInit + Len(record)) = Align(head - HeadInit + Len(record))
    BY DEF Q!Align, Align
  <2> QED
    BY <2>2, <2>3, <2>4
<1>5. /\ Align(head + Len(record)) \in Nat
      /\ ~ (Align(head + Len(record)) > ByteLength)
      /\ ~ (numRecords >= MaxRecords)
      /\ head' = Align(head + Len(record))
      /\ numRecords' = numRecords + 1
      /\ numShiftedOff' = numShiftedOff
  BY <1>2, <1>3, AlignUp DEF Push, Overflows
<1>6. Q!Fits(item)
  <2>1. Q!Align(head - HeadInit + Len(record)) <= Capacity
    <3> DEFINE a == Q!Align(head - HeadInit + Len(record))
    <3>1. a = Align(head + Len(record)) - HeadInit
      BY <1>2, <1>3, <1>4, HeadInitAligned DEF Q!Align
    <3> QED
      BY <3>1, <1>5, HeadInitAligned, SharedQueueAssumption DEF ByteLength
  <2> QED
    BY <1>1, <1>3, <1>5, <2>1, SharedQueueAssumption DEF Q!Fits
<1>7. head' - HeadInit = Q!Align((head - HeadInit) + Len(record))
  BY <1>2, <1>3, <1>4, <1>5, HeadInitAligned DEF Q!Align
<1>8. pending' = Append(pending, item)
  <2>1. size \in Nat /\ size' = size + 1 /\ numShiftedOff + size = numRecords
    BY <1>3, <1>5, PendingLength DEF size
  <2> DEFINE f == [k \in 1 .. (size + 1) |-> stored[numShiftedOff + k - 1]]
             g == [k \in 1 .. (size + 1) |-> stored'[numShiftedOff + k - 1]]
  <2>2. ASSUME NEW k \in 1 .. size PROVE g[k] = f[k]
    <3>1. numShiftedOff + k - 1 \in 0 .. (numRecords - 1)
      BY <1>3, <2>1
    <3> QED
      BY <2>1, <3>1, RecordKept
  <2>3. g[size + 1] = item
    <3>1. numShiftedOff + (size + 1) - 1 = numRecords
      BY <1>3, <2>1
    <3> QED
      BY <2>1, <3>1, RecordPushed
  <2>4. /\ pending' = [k \in 1 .. (size + 1) |-> g[k]]
        /\ pending = [k \in 1 .. size |-> f[k]]
    BY <2>1, <1>5 DEF pending
  <2> HIDE DEF f, g
  <2>5. [k \in 1 .. (size + 1) |-> g[k]] = Append([k \in 1 .. size |-> f[k]], item)
    BY <2>1, <2>2, <2>3, AppendFunction
  <2> QED
    BY <2>4, <2>5
<1>9. viewed' = IF pending = <<>> THEN <<>> ELSE viewed
  <2>1. CASE size = 0
    BY <2>1, PendingLength DEF Push, viewed
  <2>2. CASE size # 0
    <3>1. view' = view /\ numRecords # 0 /\ pending # <<>>
      BY <2>2, PendingLength DEF Push, size, Inv, Layout, TypeOK
    <3>2. ASSUME NEW k \in 1 .. Len(view)
          PROVE  Contents(view[k].off, view[k].end)' = Contents(view[k].off, view[k].end)
      <4>1. view[k] \in [op : OpIds, off : Nat, end : Nat]
        <5>1. view \in Seq([op : OpIds, off : Nat, end : Nat])
          BY DEF Inv, TypeOK
        <5> QED
          BY <5>1, ElementOfSeq
      <4>2. HeadInit <= view[k].off /\ view[k].end <= head
        BY <3>1 DEF Inv, ViewBelowHead
      <4>3. PICK o \in Nat, e \in Nat : o = view[k].off /\ e = view[k].end
        BY <4>1
      <4>4. Contents(o, e)' = Contents(o, e)
        BY <4>2, <4>3, ContentsKept
      <4> QED
        BY <3>1, <4>3, <4>4 DEF Contents
    <3>3. viewed' = viewed
      BY <3>1, <3>2 DEF viewed
    <3> QED
      BY <3>1, <3>3
  <2> QED
    BY <2>1, <2>2
<1> QED
  BY <1>1, <1>5, <1>6, <1>7, <1>8, <1>9 DEF Q!Enqueue

\* A shift takes the head of the queue.
LEMMA ShiftRefines ==
  ASSUME Inv, Shift
  PROVE  Q!Dequeue
<1>1. /\ size \in Nat \ {0} /\ Len(pending) = size /\ pending # <<>>
      /\ numShiftedOff \in Nat
      /\ meta' = meta /\ bytes' = bytes
  BY PendingLength, SharedQueueAssumption DEF Shift, Inv, TypeOK
<1>2. stored' = stored
  BY <1>1 DEF stored, GetOffset, Contents
<1> DEFINE f == [k \in 1 .. size |-> stored[numShiftedOff + k - 1]]
           g == [k \in 1 .. size |-> stored[(numShiftedOff + 1) + k - 1]]
<1>3. pending = [k \in 1 .. size |-> f[k]]
  BY DEF pending
<1>4. \A k \in 1 .. (size - 1) : g[k] = f[k + 1]
  <2> SUFFICES ASSUME NEW k \in 1 .. (size - 1) PROVE g[k] = f[k + 1]
    OBVIOUS
  <2>1. (numShiftedOff + 1) + k - 1 = numShiftedOff + (k + 1) - 1
    BY <1>1
  <2> QED
    BY <1>1, <2>1
<1>5. /\ [k \in 1 .. (size - 1) |-> g[k]] = Tail(pending)
      /\ Head(pending) = stored[numShiftedOff]
  <2>1. f[1] = stored[numShiftedOff]
    BY <1>1
  <2> HIDE DEF f, g
  <2> QED
    BY <1>1, <1>3, <1>4, <2>1, TailFunction
<1>6. pending' = Tail(pending) /\ IF Len(pending) > 1
                                   THEN UNCHANGED <<numRecords, head - HeadInit>>
                                   ELSE numRecords' = 0 /\ head' - HeadInit = 0
  <2>1. CASE size > 1
    <3>1. numShiftedOff' = numShiftedOff + 1 /\ numRecords' = numRecords /\ head' = head
      BY <2>1 DEF Shift
    <3>2. size' = size - 1
      BY <3>1, SharedQueueAssumption DEF size, Inv, TypeOK
    <3>3. pending' = [k \in 1 .. (size - 1) |-> g[k]]
      BY <1>1, <1>2, <3>1, <3>2 DEF pending
    <3> QED
      BY <1>1, <1>5, <2>1, <3>1, <3>3
  <2>2. CASE ~ (size > 1)
    <3>1. numShiftedOff' = 0 /\ numRecords' = 0 /\ head' = HeadInit
      BY <2>2 DEF Shift, ResetCounters
    <3>2. size' = 0 /\ size - 1 = 0
      BY <1>1, <2>2, <3>1 DEF size
    <3>3. pending' = [k \in 1 .. (size - 1) |-> g[k]]
      BY <3>2 DEF pending
    <3> QED
      BY <1>1, <1>5, <2>2, <3>1, <3>3, HeadInitAligned
  <2> QED
    BY <2>1, <2>2
<1>7. viewed' = <<Head(pending)>>
  <2>1. numShiftedOff \in Slots
    <3>1. numShiftedOff \in 0 .. (numRecords - 1)
      BY DEF Shift, size, Inv, TypeOK, Layout
    <3> QED
      BY <3>1, OffsetRange DEF Inv
  <2>2. PICK v : v = [op  |-> meta[numShiftedOff].op,
                      off |-> GetOffset(numShiftedOff),
                      end |-> meta[numShiftedOff].end]
    OBVIOUS
  <2>3. view' = <<v>>
    BY <2>2 DEF Shift
  <2>4. viewed' = [k \in 1 .. Len(<<v>>) |-> <<v.op, Contents(v.off, v.end)>>]
    BY <1>1, <2>3 DEF viewed, Contents
  <2>5. stored[numShiftedOff] = <<v.op, Contents(v.off, v.end)>>
    BY <2>1, <2>2 DEF stored
  <2> QED
    BY <1>5, <2>4, <2>5
<1> QED
  BY <1>1, <1>6, <1>7 DEF Q!Dequeue

\* A reset clears the queue.
LEMMA ResetRefines ==
  ASSUME Inv, Reset
  PROVE  Q!Clear
<1>1. /\ numShiftedOff' = 0 /\ numRecords' = 0 /\ head' = HeadInit
      /\ meta' = meta /\ bytes' = bytes /\ view' = view
  BY DEF Reset, ResetCounters
<1>2. pending' = <<>>
  BY <1>1, ResetInv, PendingLength DEF size, pending
<1>3. viewed' = viewed
  BY <1>1 DEF viewed, Contents
<1> QED
  BY <1>1, <1>2, <1>3, HeadInitAligned DEF Q!Clear

\* The buffer that Rust and JavaScript share is a bounded FIFO queue of op
\* responses, for every number of slots, every capacity and all responses.
THEOREM Refinement == Spec => IsOpQueue
<1>1. Inv /\ [Next]_vars => [Q!Next]_(Q!queueVars)
  <2> SUFFICES ASSUME Inv, [Next]_vars PROVE [Q!Next]_(Q!queueVars)
    OBVIOUS
  <2>1. ASSUME NEW op \in OpIds, NEW record \in Records, Push(op, record)
        PROVE  Q!Next
    <3>1. Q!Enqueue(<<op, record>>)
      BY <2>1, PushRefines
    <3> QED
      BY <3>1 DEF Q!Next
  <2>2. CASE Shift
    BY <2>2, ShiftRefines DEF Q!Next
  <2>3. CASE Reset
    BY <2>3, ResetRefines DEF Q!Next
  <2>4. CASE UNCHANGED vars
    BY <2>4 DEF vars, Q!queueVars, pending, viewed, stored, Contents, GetOffset, size
  <2> QED
    BY <2>1, <2>2, <2>3, <2>4 DEF Next
<1> QED
  BY InvHolds, InitRefines, <1>1, PTL DEF Spec, IsOpQueue, Q!Spec

-----------------------------------------------------------------------------
(* A worker and its host.                                                  *)

Flags ==
  /\ inTable \in BOOLEAN /\ jsTerminated \in BOOLEAN
  /\ terminated \in BOOLEAN /\ terminateSent \in BOOLEAN /\ interrupted \in BOOLEAN
  /\ inClosed \in BOOLEAN /\ outClosed \in BOOLEAN
  /\ idle \in BOOLEAN /\ listening \in BOOLEAN /\ woken \in BOOLEAN

Places ==
  /\ host \in {"js", "interrupt", "send", "join", "reap", "ended", "panicked"}
  /\ request \in {"idle", "waiting", "answered", "done"}
  /\ worker \in {"loading", "script", "closing", "failed", "poll", "loop", "check",
                 "inbox", "message", "asleep", "gone", "panicked"}
  /\ back \in {"loading", "script", "loop", "message"}

\* What the worker's program and its end put into the outbox, and no error that
\* only says that the worker was terminated.  Its end is the end of the thread.
Reports == {"msg", "error", "terminal"}
Events ==
  /\ outbox \in Seq(Reports)
  /\ \A i \in 1 .. Len(outbox) : outbox[i] = "terminal" => Dropped
  /\ answer \in Reports \cup {"none", "close"}

\* Every message was posted, every event but the last was counted.
Counts ==
  /\ posts \in 0 .. MaxPosts /\ inbox \in Nat /\ inbox <= posts
  /\ events \in 0 .. MaxEvents
  /\ Len(outbox) <= events + 1 /\ (~ Dropped => Len(outbox) <= events)

\* The host is past its part of a termination only when the thread is gone, and a
\* worker that has left the table never comes back.
HostParts ==
  /\ jsTerminated => ~ inTable
  /\ host \in {"interrupt", "send", "join", "reap"} => ~ inTable
  /\ host = "js" /\ ~ inTable => Dropped
  /\ request = "answered" /\ Ends(answer) => ~ inTable

\* JavaScript is interrupted only after the flag was raised.
FlagFirst ==
  /\ interrupted => terminated
  /\ host \in {"interrupt", "send"} => terminated

\* While the worker is in the table, it is terminated by itself or not at all, and
\* then the message to its task was sent with the flag.
ByItself ==
  /\ worker = "closing" => outClosed
  /\ inTable /\ terminated => outClosed /\ worker # "closing"
  /\ inTable /\ outClosed /\ worker # "closing" => terminateSent

\* The inbox is closed only behind a worker that does not come back to it.
InboxClosed ==
  /\ inClosed => ~ inTable
  /\ inClosed => Dropped \/ (outClosed /\ (terminateSent \/ (worker = "closing" /\ ~ terminated)))
  /\ worker = "inbox" => ~ inClosed /\ (outClosed => ~ inTable)

WorkersInv ==
  /\ Flags /\ Places /\ Events /\ Counts
  /\ HostParts /\ FlagFirst /\ ByItself /\ InboxClosed

-----------------------------------------------------------------------------
(* Lemmas about the outbox.                                                *)

\* A report is put behind the others.
LEMMA Reported ==
  ASSUME NEW q \in Seq(Reports), NEW e \in Reports
  PROVE  /\ Append(q, e) \in Seq(Reports) /\ Len(q) \in Nat
         /\ Len(Append(q, e)) = Len(q) + 1
         /\ \A i \in 1 .. Len(Append(q, e)) :
              Append(q, e)[i] = e \/ (i \in 1 .. Len(q) /\ Append(q, e)[i] = q[i])
  OBVIOUS

\* The host takes the first.
LEMMA Taken ==
  ASSUME NEW q \in Seq(Reports), q # <<>>
  PROVE  /\ Tail(q) \in Seq(Reports) /\ Head(q) \in Reports
         /\ Len(q) \in Nat \ {0} /\ Len(Tail(q)) = Len(q) - 1
         /\ Head(q) = q[1] /\ 1 \in 1 .. Len(q)
         /\ \A i \in 1 .. Len(Tail(q)) : i + 1 \in 1 .. Len(q) /\ Tail(q)[i] = q[i + 1]
  OBVIOUS

\* Tell puts an event into the outbox that is still open, or panics.
LEMMA Told ==
  ASSUME Events, NEW e \in Reports, NEW next, Tell(e, next), ~ Dropped,
         e = "terminal" => next = "gone", UNCHANGED answer
  PROVE  Events'
<1>1. outbox \in Seq(Reports) /\ \A i \in 1 .. Len(outbox) : outbox[i] # "terminal"
  BY DEF Events
<1>2. CASE outClosed
  BY <1>1, <1>2 DEF Tell, Events
<1>3. CASE ~ outClosed
  <2>1. outbox' = Append(outbox, e) /\ worker' = next
    BY <1>3 DEF Tell
  <2>2. \A i \in 1 .. Len(outbox') : outbox'[i] = "terminal" => e = "terminal"
    BY <1>1, <2>1, Reported
  <2>3. outbox' \in Seq(Reports)
    BY <1>1, <2>1, Reported
  <2> QED
    BY <2>1, <2>2, <2>3 DEF Events, Dropped
<1> QED
  BY <1>2, <1>3

-----------------------------------------------------------------------------
(* Every step keeps the types and the counts.                              *)

\* The flags stay booleans.
LEMMA KeepFlags == ASSUME Flags, WorkersNext PROVE Flags'
<1> USE DEF Flags, hostVars, handleVars, channelVars, workerVars, history
<1>1. CASE HandleEvent
  <2>1. jsTerminated' = jsTerminated \/ jsTerminated' = IsLast(answer)
    BY <1>1 DEF HandleEvent
  <2>2. IsLast(answer) \in BOOLEAN
    BY DEF IsLast
  <2>3. jsTerminated' \in BOOLEAN
    BY <2>1, <2>2
  <2> QED
    BY <1>1, <2>3 DEF HandleEvent
<1>2. CASE Host /\ ~ HandleEvent
  BY <1>2, ZenonT(60) DEF Host, HostRust, HostJS, PostMessage, Terminate, Swap, Interrupt,
     TerminateExecution, SendTerminate, Join, Ask, Receive, Answer
<1>3. CASE PostToHost \/ Close \/ LoopPending \/ OpCompletes
  BY <1>3, ZenonT(60) DEF PostToHost, Close, LoopPending, OpCompletes
<1>4. CASE CloseTerminates
  BY <1>4 DEF CloseTerminates
<1>6. CASE Thread /\ ~ CloseTerminates
  BY <1>6 DEF Thread, Loaded, ReportTerminal, StartPoll, Check, TakeMessage
<1>5. CASE JSEnds
  BY <1>5, ZenonT(60) DEF JSEnds, ScriptEnds, LoopEnds, MessageEnds, PollAgain
<1> QED
  BY <1>1, <1>2, <1>3, <1>4, <1>5, <1>6 DEF WorkersNext

\* Every thread goes on to a place that it has.
LEMMA KeepPlaces == ASSUME Places, WorkersNext PROVE Places'
<1> USE DEF Places, hostVars, handleVars, channelVars, workerVars, history
<1>1. CASE Host
  BY <1>1 DEF Host, HostRust, HostJS, PostMessage, Terminate, Interrupt, SendTerminate,
     Join, Ask, Receive, Answer, HandleEvent
<1>2. CASE PostToHost \/ Close \/ LoopPending \/ OpCompletes
  BY <1>2 DEF PostToHost, Close, JSRuns, LoopPending, OpCompletes
<1>3. CASE Thread
  BY <1>3 DEF Thread, Loaded, CloseTerminates, ReportTerminal, Tell, StartPoll, Check,
     TakeMessage
<1>4. CASE JSEnds
  BY <1>4 DEF JSEnds, ScriptEnds, LoopEnds, MessageEnds, Tell
<1> QED
  BY <1>1, <1>2, <1>3, <1>4 DEF WorkersNext

\* An event that ends the worker is its last, and no termination becomes an error:
\* what interrupts JavaScript has raised the flag before.
LEMMA KeepEvents == ASSUME Places, Events, FlagFirst, WorkersNext PROVE Events'
<1> USE DEF hostVars, handleVars, channelVars, workerVars, history
<1>1. CASE Receive
  <2>1. CASE outbox = <<>>
    BY <1>1, <2>1 DEF Receive, Answer, Events, Dropped
  <2>2. CASE outbox # <<>>
    <3>1. outbox' = Tail(outbox) /\ answer' = Head(outbox) /\ UNCHANGED worker
      BY <1>1, <2>2 DEF Receive, Answer
    <3>2. outbox \in Seq(Reports)
      BY DEF Events
    <3>3. outbox' \in Seq(Reports) /\ answer' \in Reports
      BY <2>2, <3>1, <3>2, Taken
    <3>4. \A i \in 1 .. Len(outbox') : outbox'[i] = "terminal" => Dropped
      BY <2>2, <3>1, <3>2, Taken DEF Events
    <3> QED
      BY <3>1, <3>3, <3>4 DEF Events, Dropped
  <2> QED
    BY <2>1, <2>2
<1>2. CASE PostToHost
  <2>1. /\ outbox' = Append(outbox, "msg") /\ UNCHANGED <<worker, answer>>
        /\ outbox \in Seq(Reports) /\ "msg" \in Reports
    BY <1>2 DEF PostToHost, Events, Reports
  <2>2. \A i \in 1 .. Len(outbox') : outbox'[i] = "terminal" => Dropped
    BY <2>1, Reported DEF Events
  <2> QED
    BY <2>1, <2>2, Reported DEF Events, Dropped
<1>3. CASE ReportTerminal
  BY <1>3, Told DEF ReportTerminal, Dropped, Reports
<1>4. ASSUME NEW kind \in Endings, LoopEnds(kind) \/ MessageEnds(kind) PROVE Events'
  <2>1. CASE UNCHANGED outbox
    BY <1>4, <2>1 DEF LoopEnds, MessageEnds, Events, Dropped
  <2>2. CASE outbox' # outbox
    <3>1. ~ terminated
      BY <1>4, <2>2, FlagFirst DEF LoopEnds, MessageEnds, FlagFirst, Ending, Tell
    <3>2. kind = "throws"
      BY <1>4, <2>2, <3>1 DEF LoopEnds, MessageEnds, FlagFirst, Ending, Endings, Tell
    <3>3. Tell("error", "check") \/ Tell("error", "asleep")
      BY <1>4, <3>1, <3>2 DEF LoopEnds, MessageEnds, ErrorOf
    <3>4. ~ Dropped /\ UNCHANGED answer
      BY <1>4 DEF LoopEnds, MessageEnds, Dropped
    <3> QED
      BY <3>3, <3>4, Told DEF Reports
  <2> QED
    BY <2>1, <2>2
<1>5. CASE PostMessage \/ Terminate \/ Interrupt \/ SendTerminate \/ Join \/ HostJS
  BY <1>5 DEF HostJS, PostMessage, Terminate, Interrupt, SendTerminate, Join, Ask,
     HandleEvent, Events, Dropped
<1>6. CASE Close \/ LoopPending \/ OpCompletes
  BY <1>6 DEF Close, JSRuns, LoopPending, OpCompletes, Events, Dropped
<1>7. CASE Loaded \/ CloseTerminates \/ StartPoll \/ Check \/ TakeMessage
  BY <1>7 DEF Loaded, CloseTerminates, StartPoll, Check, TakeMessage, Events, Dropped
<1>8. ASSUME NEW kind \in Endings, ScriptEnds(kind) PROVE Events'
  BY <1>8 DEF ScriptEnds, Events, Dropped
<1> QED
  BY <1>1, <1>2, <1>3, <1>4, <1>5, <1>6, <1>7, <1>8 DEF WorkersNext, Host, HostRust, Thread, JSEnds

\* Messages are counted when they are posted, and reports by the program's bound.
LEMMA KeepCounts == ASSUME Places, Events, Counts, FlagFirst, WorkersNext PROVE Counts'
<1> USE DEF hostVars, handleVars, channelVars, workerVars, history
<1>0. /\ MaxPosts \in Nat /\ MaxEvents \in Nat /\ posts \in Nat /\ events \in Nat
      /\ outbox \in Seq(Reports) /\ Len(outbox) \in Nat
  BY WorkersAssumption DEF Counts, Events
<1>1. CASE PostMessage
  <2>1. posts' \in 0 .. MaxPosts /\ posts' = posts + 1
    BY <1>0, <1>1 DEF PostMessage
  <2>2. inbox' \in Nat /\ inbox' <= posts'
    BY <1>0, <1>1, <2>1 DEF PostMessage, Counts
  <2> QED
    BY <1>1, <2>1, <2>2 DEF PostMessage, Counts, Dropped
<1>2. CASE Receive
  <2>1. Len(outbox') \in Nat /\ Len(outbox') <= Len(outbox)
    <3>1. outbox' = outbox \/ (outbox # <<>> /\ outbox' = Tail(outbox))
      BY <1>2 DEF Receive
    <3> QED
      BY <1>0, <3>1, Taken
  <2> QED
    BY <1>0, <1>2, <2>1 DEF Receive, Answer, Counts, Dropped
<1>3. CASE PostToHost
  <2>1. /\ events' \in 0 .. MaxEvents /\ events' = events + 1
        /\ outbox' = Append(outbox, "msg") /\ ~ Dropped
    BY <1>0, <1>3 DEF PostToHost, JSRuns, Dropped
  <2>2. Len(outbox') = Len(outbox) + 1
    BY <1>0, <2>1, Reported DEF Reports
  <2> QED
    BY <1>0, <1>3, <2>1, <2>2 DEF PostToHost, Counts, Dropped
<1>4. CASE ReportTerminal
  <2>1. Len(outbox') = Len(outbox) \/ (Len(outbox') = Len(outbox) + 1 /\ worker' = "gone")
    BY <1>0, <1>4, Reported DEF ReportTerminal, Tell, Reports
  <2>2. worker' \in {"gone", "panicked"} /\ ~ Dropped
    BY <1>4 DEF ReportTerminal, Tell, Dropped
  <2> QED
    BY <1>0, <1>4, <2>1, <2>2 DEF ReportTerminal, Counts, Dropped
<1>5. ASSUME NEW kind \in Endings, ScriptEnds(kind) \/ LoopEnds(kind) \/ MessageEnds(kind)
      PROVE  Counts'
  <2>1. \/ events' = events
        \/ kind = "throws" /\ events < MaxEvents /\ events' = events + 1
    BY <1>5 DEF ScriptEnds, LoopEnds, MessageEnds, Ending
  <2>2. events' \in 0 .. MaxEvents
    BY <1>0, <2>1 DEF Counts
  <2>3. ~ Dropped
    BY <1>5 DEF ScriptEnds, LoopEnds, MessageEnds, Dropped
  <2>4. UNCHANGED outbox \/ (kind = "throws" /\ outbox' = Append(outbox, "error"))
    BY <1>5 DEF ScriptEnds, LoopEnds, MessageEnds, Endings, Ending, Tell, ErrorOf, FlagFirst
  <2>5. Len(outbox') <= events'
    <3>1. CASE UNCHANGED outbox
      BY <1>0, <2>1, <2>3, <3>1 DEF Counts
    <3>2. CASE kind = "throws" /\ outbox' = Append(outbox, "error")
      <4>1. events' = events + 1
        BY <1>5, <3>2 DEF ScriptEnds, LoopEnds, MessageEnds, Ending
      <4>2. Len(outbox') = Len(outbox) + 1
        BY <1>0, <3>2, Reported DEF Reports
      <4> QED
        BY <1>0, <2>3, <4>1, <4>2 DEF Counts
    <3> QED
      BY <2>4, <3>1, <3>2
  <2>6. UNCHANGED <<posts, inbox>> /\ events' \in Nat /\ Len(outbox') \in Nat
    <3>1. outbox' \in Seq(Reports)
      BY <1>0, <2>4, Reported DEF Reports
    <3> QED
      BY <1>0, <1>5, <2>1, <3>1 DEF ScriptEnds, LoopEnds, MessageEnds
  <2> QED
    BY <2>2, <2>5, <2>6 DEF Counts
<1>6. CASE TakeMessage
  BY <1>6 DEF TakeMessage, HasMessage, Counts, Dropped
<1>7. CASE Terminate \/ Interrupt \/ SendTerminate \/ Join \/ HostJS
  BY <1>7 DEF HostJS, Terminate, Interrupt, SendTerminate, Join, Ask, HandleEvent,
     Counts, Dropped
<1>8. CASE Close \/ LoopPending \/ OpCompletes
  BY <1>8 DEF Close, JSRuns, LoopPending, OpCompletes, Counts, Dropped
<1>9. CASE Loaded \/ CloseTerminates \/ StartPoll \/ Check
  BY <1>9 DEF Loaded, CloseTerminates, StartPoll, Check, Counts, Dropped
<1> QED
  BY <1>1, <1>2, <1>3, <1>4, <1>5, <1>6, <1>7, <1>8, <1>9
     DEF WorkersNext, Host, HostRust, Thread, JSEnds

-----------------------------------------------------------------------------
(* Every step keeps the order in which host and worker end.                *)

\* The host leaves a termination or a join behind only when the thread is gone.
LEMMA KeepHostParts == ASSUME HostParts, WorkersNext PROVE HostParts'
<1> USE DEF HostParts, Dropped, Ends, hostVars, handleVars, channelVars, workerVars, history
<1>1. CASE PostMessage
  BY <1>1 DEF PostMessage
<1>7. CASE Terminate
  BY <1>7 DEF Terminate, Swap
<1>9. CASE Interrupt
  BY <1>9 DEF Interrupt, TerminateExecution
<1>10. CASE SendTerminate
  BY <1>10 DEF SendTerminate
<1>8. CASE Join
  BY <1>8 DEF Join
<1>2. CASE Receive
  BY <1>2 DEF Receive, Answer
<1>11. CASE Ask
  BY <1>11 DEF Ask
<1>3. CASE HandleEvent
  <2>1. host = "js" /\ request = "answered" /\ UNCHANGED <<inTable, worker>>
    BY <1>3 DEF HandleEvent
  <2>2. jsTerminated' => jsTerminated \/ jsTerminated' = IsLast(answer)
    BY <1>3 DEF HandleEvent
  <2>3. jsTerminated' => jsTerminated \/ Ends(answer)
    BY <2>2 DEF IsLast
  <2>4. jsTerminated' => ~ inTable
    BY <2>1, <2>3
  <2>5. request' \in {"done", "idle"} /\ host' \in {"js", "ended"}
    BY <1>3, <2>1, Zenon DEF HandleEvent
  <2> QED
    BY <2>1, <2>4, <2>5
<1>4. CASE PostToHost \/ Close \/ LoopPending \/ OpCompletes
  BY <1>4 DEF PostToHost, Close, JSRuns, LoopPending, OpCompletes
<1>5. CASE Thread
  BY <1>5 DEF Thread, Loaded, CloseTerminates, ReportTerminal, Tell, StartPoll, Check,
     TakeMessage
<1>6. CASE JSEnds
  BY <1>6 DEF JSEnds, ScriptEnds, LoopEnds, MessageEnds
<1> QED
  BY <1>1, <1>2, <1>3, <1>4, <1>5, <1>6, <1>7, <1>8, <1>9, <1>10, <1>11
     DEF WorkersNext, Host, HostRust, HostJS

\* WebWorkerHandle::terminate raises the flag before it interrupts anything.
LEMMA KeepFlagFirst == ASSUME FlagFirst, WorkersNext PROVE FlagFirst'
<1> USE DEF FlagFirst, hostVars, handleVars, channelVars, workerVars, history
<1>1. CASE Host
  BY <1>1 DEF Host, HostRust, HostJS, PostMessage, Terminate, Swap, Interrupt,
     SendTerminate, Join, Ask, Receive, Answer, HandleEvent
<1>2. CASE PostToHost \/ Close \/ LoopPending \/ OpCompletes
  BY <1>2 DEF PostToHost, Close, LoopPending, OpCompletes
<1>3. CASE Thread
  BY <1>3 DEF Thread, Loaded, CloseTerminates, ReportTerminal, StartPoll, Check, TakeMessage
<1>4. CASE JSEnds
  BY <1>4 DEF JSEnds, ScriptEnds, LoopEnds, MessageEnds
<1> QED
  BY <1>1, <1>2, <1>3, <1>4 DEF WorkersNext

\* A flag that is up while the worker is in the table was raised by close().
LEMMA KeepByItself == ASSUME Places, ByItself, WorkersNext PROVE ByItself'
<1> USE DEF ByItself, hostVars, handleVars, channelVars, workerVars, history
<1>1. CASE Host
  BY <1>1 DEF Host, HostRust, HostJS, PostMessage, Terminate, Interrupt, SendTerminate,
     Join, Ask, Receive, Answer, HandleEvent
<1>2. CASE PostToHost \/ Close \/ LoopPending \/ OpCompletes
  BY <1>2 DEF PostToHost, Close, JSRuns, LoopPending, OpCompletes
<1>3. CASE CloseTerminates
  BY <1>3 DEF CloseTerminates, Places
<1>4. CASE Loaded \/ ReportTerminal \/ StartPoll \/ Check \/ TakeMessage
  BY <1>4 DEF Loaded, ReportTerminal, Tell, StartPoll, Check, TakeMessage
<1>5. CASE JSEnds
  BY <1>5 DEF JSEnds, ScriptEnds, LoopEnds, MessageEnds, Tell
<1> QED
  BY <1>1, <1>2, <1>3, <1>4, <1>5 DEF WorkersNext, Thread

\* The host closes the inbox when the thread has ended, or when it is on its way
\* from close() to its next look at terminate_rx, which comes before the inbox.
LEMMA KeepInboxClosed ==
  ASSUME Places, Events, ByItself, InboxClosed, WorkersNext PROVE InboxClosed'
<1> USE DEF InboxClosed, Dropped, hostVars, handleVars, channelVars, workerVars, history
<1>1. CASE Receive
  <2>1. CASE outbox # <<>> /\ Head(outbox) = "terminal"
    <3>1. Dropped
      BY <2>1, Taken DEF Events
    <3> QED
      BY <1>1, <3>1 DEF Receive, Answer
  <2>2. CASE outbox # <<>> /\ Head(outbox) # "terminal"
    <3>1. Head(outbox) # "close"
      BY <2>2, Taken DEF Events, Reports
    <3> QED
      BY <1>1, <2>2, <3>1 DEF Receive, Answer, Ends
  <2>3. CASE outbox = <<>>
    BY <1>1, <2>3 DEF Receive, Answer, Ends, ByItself
  <2> QED
    BY <2>1, <2>2, <2>3
<1>2. CASE PostMessage
  BY <1>2 DEF PostMessage
<1>9. CASE Terminate
  BY <1>9 DEF Terminate, Swap
<1>10. CASE Interrupt \/ SendTerminate
  BY <1>10 DEF Interrupt, SendTerminate
<1>11. CASE Join
  BY <1>11 DEF Join
<1>8. CASE HostJS
  <2>1. UNCHANGED <<inTable, inClosed, outClosed, terminated, terminateSent, worker>>
    BY <1>8 DEF HostJS, Ask, HandleEvent
  <2> QED
    BY <2>1
<1>12. CASE Close
  BY <1>12 DEF Close, JSRuns
<1>3. CASE PostToHost \/ LoopPending \/ OpCompletes
  BY <1>3 DEF PostToHost, JSRuns, LoopPending, OpCompletes
<1>4. CASE CloseTerminates
  BY <1>4 DEF CloseTerminates, ByItself, Places
<1>5. CASE Check
  <2>1. worker = "check" /\ UNCHANGED <<inTable, inClosed, outClosed, terminateSent>>
    BY <1>5 DEF Check
  <2>2. CASE terminateSent
    <3>1. worker' = "gone"
      BY <1>5, <2>2 DEF Check, TerminateReceived
    <3> QED
      BY <2>1, <3>1
  <2>3. CASE ~ terminateSent
    <3>1. worker' = "inbox"
      BY <1>5, <2>3 DEF Check, TerminateReceived
    <3>2. ~ inClosed /\ (outClosed => ~ inTable)
      BY <2>1, <2>3 DEF ByItself
    <3> QED
      BY <2>1, <3>1, <3>2
  <2> QED
    BY <2>2, <2>3
<1>6. CASE Loaded \/ ReportTerminal \/ StartPoll \/ TakeMessage
  BY <1>6 DEF Loaded, ReportTerminal, Tell, StartPoll, TakeMessage
<1>7. CASE JSEnds
  BY <1>7 DEF JSEnds, ScriptEnds, LoopEnds, MessageEnds, Tell
<1> QED
  BY <1>1, <1>2, <1>3, <1>4, <1>5, <1>6, <1>7, <1>8, <1>9, <1>10, <1>11, <1>12
     DEF WorkersNext, Host, HostRust, Thread

-----------------------------------------------------------------------------
(* What holds in every state.                                              *)

\* A worker is created in the table, with open channels.
LEMMA WorkersInitInv == WorkersInit => WorkersInv
<1> SUFFICES ASSUME WorkersInit PROVE WorkersInv
  OBVIOUS
<1>1. Flags /\ Places /\ HostParts /\ FlagFirst /\ ByItself /\ InboxClosed
  BY DEF WorkersInit, Flags, Places, HostParts, FlagFirst, ByItself, InboxClosed, Ends
<1>2. Events /\ Counts
  BY WorkersAssumption DEF WorkersInit, Events, Counts, Reports
<1> QED
  BY <1>1, <1>2 DEF WorkersInv

\* Every step of the host, of the worker and of the loop keeps the invariant.
LEMMA StepInv == WorkersInv /\ [WorkersNext]_allVars => WorkersInv'
<1> SUFFICES ASSUME WorkersInv, [WorkersNext]_allVars PROVE WorkersInv'
  OBVIOUS
<1>1. CASE WorkersNext
  BY <1>1, KeepFlags, KeepPlaces, KeepEvents, KeepCounts, KeepHostParts, KeepFlagFirst,
     KeepByItself, KeepInboxClosed DEF WorkersInv
<1>2. CASE UNCHANGED allVars
  BY <1>2 DEF WorkersInv, allVars, hostVars, handleVars, channelVars, workerVars, history, Flags,
     Places, Events, Counts, HostParts, FlagFirst, ByItself, InboxClosed, Dropped, Ends
<1> QED
  BY <1>1, <1>2

\* The invariant holds in every state of every behavior.
LEMMA WorkersInvHolds == WorkersSpec => []WorkersInv
  BY WorkersInitInv, StepInv, PTL DEF WorkersSpec

\* The variables of host and worker keep their types, and no channel holds more than
\* was posted to it: the outbox at most the reports of the program and one of its end.
THEOREM WorkersTypeCorrect == WorkersSpec => []WorkersTypeOK
<1>1. WorkersInv => WorkersTypeOK
  <2> SUFFICES ASSUME WorkersInv PROVE WorkersTypeOK
    OBVIOUS
  <2>1. /\ inbox \in 0 .. MaxPosts /\ posts \in 0 .. MaxPosts /\ events \in 0 .. MaxEvents
        /\ Len(outbox) <= MaxEvents + 1
    BY WorkersAssumption DEF WorkersInv, Counts, Events
  <2>2. {inTable, jsTerminated, terminated, terminateSent, interrupted, inClosed,
         outClosed, idle, listening, woken} \subseteq BOOLEAN
    BY DEF WorkersInv, Flags
  <2> QED
    BY <2>1, <2>2 DEF WorkersInv, Places, Events, Reports, WorkersTypeOK
<1> QED
  BY <1>1, WorkersInvHolds, PTL

\* When terminate() has returned to the program, or an event told it that its worker
\* has ended, the worker's thread is gone and the worker has left the table.
THEOREM TerminatedIsReaped == WorkersSpec => []Reaped
<1>1. WorkersInv => Reaped
  BY DEF WorkersInv, HostParts, Reaped
<1> QED
  BY <1>1, WorkersInvHolds, PTL

\* The unreachable!() of WebWorker::poll is unreachable, wherever close() and
\* terminate() overtake each other.
THEOREM InboxStaysOpen == WorkersSpec => []InboxOpen
<1>1. WorkersInv => InboxOpen
  BY DEF WorkersInv, InboxClosed, InboxOpen
<1> QED
  BY <1>1, WorkersInvHolds, PTL

\* The interruption of a worker's JavaScript never reaches the program as an error.
THEOREM TerminationIsNoError == WorkersSpec => []NoSpuriousError
<1>1. WorkersInv => NoSpuriousError
  <2> SUFFICES ASSUME WorkersInv PROVE NoSpuriousError
    OBVIOUS
  <2>1. outbox \in Seq(Reports) /\ answer # "interruption"
    BY DEF WorkersInv, Events, Reports
  <2>2. \A i \in 1 .. Len(outbox) : outbox[i] \in Reports
    BY <2>1
  <2> QED
    BY <2>1, <2>2 DEF NoSpuriousError, Reports
<1> QED
  BY <1>1, WorkersInvHolds, PTL
==============================================================================
