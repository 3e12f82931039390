----------------------------- MODULE SharedQueue -----------------------------
(***************************************************************************)
(* The shared memory that carries the responses of asynchronous ops from   *)
(* Rust to JavaScript.  Both languages operate on one buffer: three        *)
(* counters, a table with the end and the op id of every record, and the   *)
(* bytes of the records.                                                   *)
(*   core/shared_queue.rs  push, reset and (in its tests) shift            *)
(*   core/core.js          the same three on the JavaScript side           *)
(* The two never run at once: Rust pushes before it calls into JavaScript. *)
(***************************************************************************)
EXTENDS Integers, Sequences

CONSTANTS
  OpIds,       \* ids of the ops that answer through the queue
  Bytes,       \* byte values, with the 0 a fresh buffer holds
  Records,     \* the responses pushed, sequences of bytes
  MaxRecords,  \* MAX_RECORDS
  Capacity     \* bytes for records, the argument of SharedQueue::new

ASSUME SharedQueueAssumption ==
  /\ OpIds \subseteq Nat
  /\ 0 \in Bytes
  /\ Records \subseteq Seq(Bytes)
  /\ MaxRecords \in Nat \ {0}
  /\ Capacity \in Nat

IndexOffsets == 3
IndexRecords == IndexOffsets + 2 * MaxRecords
HeadInit     == 4 * IndexRecords
ByteLength   == HeadInit + Capacity

\* (n + 3) & !3
Align(n) == ((n + 3) \div 4) * 4

Slots     == 0 .. (MaxRecords - 1)
Addresses == HeadInit .. (ByteLength - 1)

VARIABLES
  numRecords,     \* INDEX_NUM_RECORDS: records added since the last reset
  numShiftedOff,  \* INDEX_NUM_SHIFTED_OFF: of these, the ones taken
  head,           \* INDEX_HEAD: where the next record goes
  meta,           \* per slot, where the record ends and its op id
  bytes,          \* the bytes of the records
  view            \* <<>>, or <<[op, off, end]>>: the subarray shift returned last,
                  \* while its bytes are those of the record it was taken for

vars == <<numRecords, numShiftedOff, head, meta, bytes, view>>

Init ==
  /\ numRecords = 0
  /\ numShiftedOff = 0
  /\ head = HeadInit
  /\ meta = [i \in Slots |-> [end |-> 0, op |-> 0]]
  /\ bytes = [a \in Addresses |-> 0]
  /\ view = <<>>

-----------------------------------------------------------------------------
size == numRecords - numShiftedOff

\* Mutants: the offset of the record behind, and one that is not aligned.
GetOffsetBehind(i)    == IF i = 0 THEN HeadInit ELSE Align(meta[i].end)
GetOffsetUnaligned(i) == IF i = 0 THEN HeadInit ELSE meta[i - 1].end

GetOffset(i) == IF i = 0 THEN HeadInit ELSE Align(meta[i - 1].end)

ResetCounters ==
  /\ numRecords' = 0
  /\ numShiftedOff' = 0
  /\ head' = HeadInit

\* Mutant: only the record slots are checked.
OverflowsBySlots(record) == numRecords >= MaxRecords

\* push returns false, and the caller has to send the response another way.
Overflows(record) ==
  \/ Align(head + Len(record)) > ByteLength
  \/ numRecords >= MaxRecords

\* Mutant: the head is left where the record ends.
PushUnaligned(op, record) ==
  LET end == head + Len(record)
  IN /\ ~ Overflows(record)
     /\ meta' = [meta EXCEPT ![numRecords] = [end |-> end, op |-> op]]
     /\ bytes' = [a \in Addresses |->
                    IF a \in head .. (end - 1) THEN record[a - head + 1] ELSE bytes[a]]
     /\ numRecords' = numRecords + 1
     /\ head' = end
     /\ view' = IF size = 0 THEN <<>> ELSE view
     /\ UNCHANGED numShiftedOff

Push(op, record) ==
  LET off == head
      end == off + Len(record)
  IN /\ ~ Overflows(record)
     /\ meta' = [meta EXCEPT ![numRecords] = [end |-> end, op |-> op]]
     /\ bytes' = [a \in Addresses |->
                    IF a \in off .. (end - 1) THEN record[a - off + 1] ELSE bytes[a]]
     /\ numRecords' = numRecords + 1
     /\ head' = Align(end)
     /\ view' = IF size = 0 THEN <<>> ELSE view
     /\ UNCHANGED numShiftedOff

\* A record is taken by reference: only the counters move.
Shift ==
  /\ size # 0
  /\ view' = <<[op  |-> meta[numShiftedOff].op,
                off |-> GetOffset(numShiftedOff),
                end |-> meta[numShiftedOff].end]>>
  /\ IF size > 1 THEN /\ numShiftedOff' = numShiftedOff + 1
                      /\ UNCHANGED <<numRecords, head>>
                 ELSE ResetCounters
  /\ UNCHANGED <<meta, bytes>>

\* sharedQueue.reset, which core.js exposes.
Reset == ResetCounters /\ UNCHANGED <<meta, bytes, view>>

Next ==
  \/ \E op \in OpIds, record \in Records : Push(op, record)
  \/ Shift
  \/ Reset

Spec == Init /\ [][Next]_vars

-----------------------------------------------------------------------------
\* The counters stay in their 32-bit words' meaning and the tables keep their shape.
TypeOK ==
  /\ numRecords \in 0 .. MaxRecords
  /\ numShiftedOff \in 0 .. MaxRecords
  /\ head \in HeadInit .. ByteLength
  /\ meta \in [Slots -> [end : Nat, op : OpIds \cup {0}]]
  /\ bytes \in [Addresses -> Bytes]
  /\ view \in Seq([op : OpIds, off : Nat, end : Nat])
  /\ Len(view) <= 1

\* A queue without pending records has been reset, so that its whole capacity is
\* free again: what shift asserts of an empty queue (i == 0).
EmptyIsReset ==
  size = 0 => numShiftedOff = 0 /\ numRecords = 0 /\ head = HeadInit

\* The records lie one behind the other, each aligned for an Int32Array view,
\* inside the buffer and below the head, where the next push will write.
Layout ==
  /\ numShiftedOff <= numRecords
  /\ head = IF numRecords = 0 THEN HeadInit ELSE Align(meta[numRecords - 1].end)
  /\ \A i \in 0 .. (numRecords - 1) :
       /\ GetOffset(i) % 4 = 0
       /\ HeadInit <= GetOffset(i)
       /\ GetOffset(i) <= meta[i].end
       /\ meta[i].end <= head
       /\ meta[i].op \in OpIds

\* The subarray handed to JavaScript never reaches into space that a push may
\* still write, unless the queue has drained.
ViewBelowHead ==
  \A k \in 1 .. Len(view) :
    /\ HeadInit <= view[k].off
    /\ view[k].off <= view[k].end
    /\ view[k].end <= ByteLength
    /\ numRecords # 0 => view[k].end <= head

\* Both: the records of the queue, and the one that JavaScript still reads, are below
\* the head, and no push writes over them.
BufferIntact == Layout /\ ViewBelowHead

-----------------------------------------------------------------------------
\* Refinement: the buffer as the queue of the records it holds.
Contents(off, end) == [k \in 1 .. (end - off) |-> bytes[off + k - 1]]

stored == [i \in Slots |-> <<meta[i].op, Contents(GetOffset(i), meta[i].end)>>]

pending == [k \in 1 .. size |-> stored[numShiftedOff + k - 1]]

viewed == [k \in 1 .. Len(view) |->
             <<view[k].op, Contents(view[k].off, view[k].end)>>]

Q == INSTANCE OpQueue WITH
       Items      <- OpIds \X Records,
       Size       <- [item \in OpIds \X Records |-> Len(item[2])],
       queue      <- pending,
       count      <- numRecords,
       used       <- head - HeadInit,
       last       <- viewed

\* The buffer behaves as a bounded FIFO queue: what JavaScript shifts is what Rust
\* pushed, in that order, with its op id and its bytes, whatever the lengths.
IsOpQueue == Q!Spec
=============================================================================
