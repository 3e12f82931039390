------------------------------ MODULE Delivery ------------------------------
(***************************************************************************)
(* What pipeTo() promises to the two streams it connects and to its        *)
(* caller: the sink gets what the source offers, in order, until the pipe  *)
(* settles or the sink ends, and a pipe that succeeds has left nothing     *)
(* behind.  How reads, writes, closes, aborts and errors get through the   *)
(* turns of the microtask queue is PipeTo's business.                      *)
(***************************************************************************)
EXTENDS Naturals, Sequences

CONSTANT Chunks  \* what the source offers, one after the other

VARIABLES
    offered,    \* how many chunks the source has offered
    delivered,  \* the chunks the sink was called with
    sink,       \* "open", told to close ("closed"), or "failed"
    result      \* of the pipe: "none", "ok" or "error"

vars == <<offered, delivered, sink, result>>

Init ==
    /\ offered = 0
    /\ delivered = <<>>
    /\ sink = "open"
    /\ result = "none"

Offer ==
    /\ offered < Len(Chunks)
    /\ offered' = offered + 1
    /\ UNCHANGED <<delivered, sink, result>>

(* A program that cancels its source gives up what was not delivered. *)
Withdraw ==
    /\ offered' = Len(delivered)
    /\ UNCHANGED <<delivered, sink, result>>

Deliver ==
    /\ result = "none" /\ sink = "open"
    /\ Len(delivered) < offered
    /\ delivered' = Append(delivered, Chunks[Len(delivered) + 1])
    /\ UNCHANGED <<offered, sink, result>>

(* The sink ends; a close under way when it fails may still succeed. *)
SinkEnds ==
    /\ sink' \in {"closed", "failed"}
    /\ UNCHANGED <<offered, delivered, result>>

Succeed ==
    /\ result = "none" /\ sink = "closed"
    /\ Len(delivered) = offered
    /\ result' = "ok"
    /\ UNCHANGED <<offered, delivered, sink>>

Fail ==
    /\ result = "none"
    /\ result' = "error"
    /\ UNCHANGED <<offered, delivered, sink>>

Next == Offer \/ Withdraw \/ Deliver \/ SinkEnds \/ Succeed \/ Fail

Spec == Init /\ [][Next]_vars
=============================================================================
