------------------------------- MODULE OpQueue -------------------------------
(***************************************************************************)
(* What the shared queue between Rust and JavaScript promises to its two   *)
(* users, without its memory layout: a first-in first-out queue of op      *)
(* responses, bounded in records and in bytes.  Space is not recycled      *)
(* while the queue is in use: the bytes and record slots of responses that *)
(* were taken come back only when the queue drains.                        *)
(*                                                                         *)
(* SharedQueue implements this module; CoreIsolate uses it.                *)
(***************************************************************************)
EXTENDS Naturals, Sequences

CONSTANTS
  Items,       \* the responses that may be queued
  Size,        \* [Items -> Nat], the length of a response in bytes
  MaxRecords,  \* record slots (MAX_RECORDS in the code)
  Capacity     \* bytes for records (the argument of SharedQueue::new)

VARIABLES
  queue,     \* the responses pushed and not yet taken
  count,     \* record slots in use
  used,      \* bytes in use
  last       \* sequence of length <= 1: the response a reader still looks at

queueVars == <<queue, count, used, last>>

\* Every response starts at a multiple of four bytes.
Align(n) == ((n + 3) \div 4) * 4

Fits(item) == /\ count < MaxRecords
              /\ Align(used + Size[item]) <= Capacity

Init == queue = <<>> /\ count = 0 /\ used = 0 /\ last = <<>>

\* Appends a response that fits.  The response a reader still looks at is
\* overwritten when the queue was empty, since its bytes were free.
Enqueue(item) ==
  /\ Fits(item)
  /\ queue' = Append(queue, item)
  /\ count' = count + 1
  /\ used' = Align(used + Size[item])
  /\ last' = IF queue = <<>> THEN <<>> ELSE last

\* Hands out the oldest response; the last one gives all the space back.
Dequeue ==
  /\ queue # <<>>
  /\ queue' = Tail(queue)
  /\ last' = <<Head(queue)>>
  /\ IF Len(queue) > 1 THEN UNCHANGED <<count, used>>
                       ELSE count' = 0 /\ used' = 0

\* Drops every response and gives all the space back.
Clear ==
  /\ queue' = <<>> /\ count' = 0 /\ used' = 0
  /\ UNCHANGED last

Next == (\E item \in Items : Enqueue(item)) \/ Dequeue \/ Clear

Spec == Init /\ [][Next]_queueVars
=============================================================================
