----------------------------- MODULE CoreIsolate -----------------------------
(***************************************************************************)
(* The event loop of one V8 isolate, core/core_isolate.rs: JavaScript      *)
(* dispatches asynchronous ops, their futures complete on other threads,   *)
(* and each poll of the isolate moves the finished responses through the   *)
(* shared queue (or, when one does not fit, through a function argument)   *)
(* to JavaScript's handlers, runs microtasks and macrotasks, and tells the *)
(* executor whether to come back.                                          *)
(*                                                                         *)
(* The shared queue is the one of OpQueue, which SharedQueue implements.   *)
(***************************************************************************)
EXTENDS Integers, Sequences, SequencesExt, FiniteSets

CONSTANTS
  Ops,            \* the asynchronous ops JavaScript may dispatch, each once
  UnrefOps,       \* the ones whose future does not keep the loop alive
  Size,           \* [Ops -> Nat], bytes of an op's response
  MaxRecords,     \* slots of the shared queue
  Capacity,       \* bytes of the shared queue
  MaxThrows,      \* bound: exceptions thrown by handlers and macrotasks
  MaxRejections   \* bound: promises rejected without a handler

ASSUME CoreIsolateAssumption ==
  /\ IsFiniteSet(Ops)
  /\ UnrefOps \subseteq Ops
  /\ Size \in [Ops -> Nat]
  /\ MaxRecords \in Nat \ {0}
  /\ Capacity \in Nat
  /\ MaxThrows \in Nat
  /\ MaxRejections \in Nat

\* The two FuturesUnordered of the isolate, pending_ops and pending_unref_ops,
\* which poll drains one after the other.
Classes == {"ref", "unref"}
ClassOf(op) == IF op \in UnrefOps THEN "unref" ELSE "ref"

VARIABLES
  pc,            \* "idle", or where poll or a script of the embedder is
  outcome,       \* what the last poll returned: "pending", "ok" or "err"
  woken,         \* the executor has been told to poll the isolate
  dispatched,    \* ops dispatched so far
  resolved,      \* dispatched ops whose future would return its response
  pending,       \* per class, the ops whose future has not returned yet
  ready,         \* per class, the futures to poll, in order
  haveUnpolled,  \* have_unpolled_ops
  queue, count, used, last,  \* the shared queue
  overflow,      \* overflow_response, a sequence of length <= 1
  exceptions,    \* number of pending_promise_exceptions
  failed,        \* JavaScript threw since poll called it
  throws, rejections,        \* history: bounds of the exceptions and rejections
  taken,         \* history: ops whose response a future returned, in order
  delivered,     \* history: ops whose handler was called, in order
  overflowed     \* history: a response went to overflow_response

queueVars == <<queue, count, used, last>>
opVars    == <<dispatched, resolved, pending, ready, haveUnpolled>>
jsVars    == <<exceptions, failed, throws, rejections>>
history   == <<taken, delivered, overflowed>>
vars == <<pc, outcome, woken, opVars, queueVars, overflow, jsVars, history>>

Q == INSTANCE OpQueue WITH Items <- Ops

Init ==
  /\ pc = "idle" /\ outcome = "ok" /\ woken = FALSE
  /\ dispatched = {} /\ resolved = {}
  /\ pending = [c \in Classes |-> {}]
  /\ ready = [c \in Classes |-> <<>>]
  /\ haveUnpolled = FALSE
  /\ Q!Init
  /\ overflow = <<>>
  /\ exceptions = 0 /\ failed = FALSE /\ throws = 0 /\ rejections = 0
  /\ taken = <<>> /\ delivered = <<>> /\ overflowed = FALSE

-----------------------------------------------------------------------------
(* JavaScript.  It runs in a script of the embedder and inside poll: in    *)
(* the microtasks that follow every call into JavaScript, and in the       *)
(* macrotask callback.                                                     *)

JSRuns == pc \in {"script", "microtasks", "overflow microtasks", "macrotasks"}

Due == outcome = "pending" /\ woken

\* The embedder executes a script: the program, or a message for a worker.  It
\* polls the isolate afterwards, before the next script.
Execute ==
  /\ pc = "idle" /\ ~ Due
  /\ dispatched # Ops
  /\ pc' = "script" /\ outcome' = "pending" /\ woken' = TRUE
  /\ UNCHANGED <<opVars, queueVars, overflow, jsVars, history>>

\* Mutant: dispatching an op does not ask for another poll.
KeepUnpolled == haveUnpolled' = haveUnpolled

\* An op was added that no poll of its set has seen.
MarkUnpolled == haveUnpolled' = TRUE

\* dispatch_op for an Op::Async or Op::AsyncUnref: the future is queued to be
\* polled, and the executor is not told before the end of poll.
DispatchOp(op) ==
  LET c == ClassOf(op)
  IN /\ JSRuns
     /\ op \notin dispatched
     /\ dispatched' = dispatched \cup {op}
     /\ pending' = [pending EXCEPT ![c] = @ \cup {op}]
     /\ ready' = [ready EXCEPT ![c] = Append(@, op)]
     /\ MarkUnpolled
     /\ UNCHANGED <<pc, outcome, woken, resolved, queueVars, overflow, jsVars, history>>

\* promise_reject_callback: a promise is rejected without a handler, or gets its
\* handler late.
Reject ==
  /\ JSRuns
  /\ rejections < MaxRejections
  /\ rejections' = rejections + 1
  /\ exceptions' = exceptions + 1
  /\ UNCHANGED <<pc, outcome, woken, opVars, queueVars, overflow, failed, throws, history>>

HandleLate ==
  /\ JSRuns
  /\ exceptions > 0
  /\ exceptions' = exceptions - 1
  /\ UNCHANGED <<pc, outcome, woken, opVars, queueVars, overflow, failed, throws,
                 rejections, history>>

\* A handler or a macrotask may throw; poll learns of it when JavaScript returns.
MayThrow ==
  \/ failed' = failed /\ UNCHANGED throws
  \/ /\ throws < MaxThrows /\ throws' = throws + 1
     /\ failed' = TRUE

-----------------------------------------------------------------------------
(* The futures of ops (FuturesUnordered of the futures crate).             *)

\* The future was polled, and left its waker with the op.
Waits(op) == op \in pending[ClassOf(op)] /\ ~ Contains(ready[ClassOf(op)], op)

\* Another thread finishes an op.  A future that was polled before wakes its task,
\* which goes to the end of the futures to poll, and the executor with it; one
\* that was not polled yet has nobody to wake.
Complete(op) ==
  LET c == ClassOf(op)
  IN /\ op \in dispatched \ resolved
     /\ resolved' = resolved \cup {op}
     /\ IF Waits(op) THEN ready' = [ready EXCEPT ![c] = Append(@, op)] /\ woken' = TRUE
                 ELSE UNCHANGED <<ready, woken>>
     /\ UNCHANGED <<pc, outcome, dispatched, pending, haveUnpolled, queueVars, overflow,
                    jsVars, history>>

-----------------------------------------------------------------------------
(* CoreIsolate::poll.                                                      *)

Fail ==
  /\ pc' = "idle" /\ outcome' = "err" /\ failed' = FALSE
  /\ overflow' = <<>>

\* The executor polls; a rejected promise ends the poll before it starts.
StartPoll ==
  /\ pc = "idle" /\ outcome = "pending"
  /\ woken' = FALSE
  /\ IF exceptions > 0
     THEN exceptions' = exceptions - 1 /\ Fail
     ELSE pc' = "ref" /\ UNCHANGED <<outcome, exceptions, failed, overflow>>
  /\ UNCHANGED <<opVars, queueVars, throws, rejections, history>>

After(c) == IF c = "ref" THEN "unref" ELSE "queued"

\* Mutant: the loop goes on after a response that did not fit.
AfterOverflowContinue(c) == c

\* A response that does not fit ends the loop.
AfterOverflow(c) == After(c)

\* The loop over pending_ops clears have_unpolled_ops in every round.
UnpolledAfterRound(c) == haveUnpolled' = IF c = "ref" THEN FALSE ELSE haveUnpolled

\* One future is polled.  A response goes to the shared queue if it fits, and
\* otherwise into overflow_response, which ends the loop.
PollFuture(c) ==
  /\ pc = c
  /\ ready[c] # <<>>
  /\ ready' = [ready EXCEPT ![c] = Tail(@)]
  /\ UnpolledAfterRound(c)
  /\ LET op == Head(ready[c])
     IN IF op \notin resolved
        THEN UNCHANGED <<pc, pending, queueVars, overflow, taken, overflowed>>
        ELSE /\ pending' = [pending EXCEPT ![c] = @ \ {op}]
             /\ taken' = Append(taken, op)
             /\ IF Q!Fits(op)
                THEN Q!Enqueue(op) /\ UNCHANGED <<pc, overflow, overflowed>>
                ELSE /\ overflow' = <<op>> /\ overflowed' = TRUE
                     /\ pc' = AfterOverflow(c)
                     /\ UNCHANGED queueVars
  /\ UNCHANGED <<outcome, woken, dispatched, resolved, jsVars, delivered>>

\* No future is left to poll.
PollDone(c) ==
  /\ pc = c
  /\ ready[c] = <<>>
  /\ pc' = After(c)
  /\ UnpolledAfterRound(c)
  /\ UNCHANGED <<outcome, woken, dispatched, resolved, pending, ready, queueVars,
                 overflow, jsVars, history>>

\* handleAsyncMsgFromRust returns when the queue is empty or a handler threw.
LeaveHandlers == failed' \/ Len(queue) = 1

\* async_op_response without an argument, when the shared queue holds responses:
\* handleAsyncMsgFromRust shifts them and calls their handlers one by one.  An
\* exception leaves the others in the queue.
Handle ==
  /\ pc \in {"queued", "receiving"} /\ queue # <<>> /\ ~ failed
  /\ Q!Dequeue
  /\ delivered' = Append(delivered, Head(queue))
  /\ MayThrow
  /\ pc' = IF LeaveHandlers THEN "microtasks" ELSE "receiving"
  /\ UNCHANGED <<outcome, woken, opVars, overflow, exceptions, rejections, taken,
                 overflowed>>

NothingQueued ==
  /\ pc = "queued" /\ queue = <<>>
  /\ pc' = "overflow"
  /\ UNCHANGED <<outcome, woken, opVars, queueVars, overflow, jsVars, history>>

\* JavaScript returns to Rust; an exception ends the poll.
Return(from, to) ==
  /\ pc = from
  /\ IF failed THEN Fail ELSE pc' = to /\ UNCHANGED <<outcome, failed, overflow>>
  /\ UNCHANGED <<woken, opVars, queueVars, exceptions, throws, rejections, history>>

\* Mutant: the response that did not fit is forgotten.
ForgetOverflow == UNCHANGED delivered

AnswerOverflow == delivered' = delivered \o overflow

\* async_op_response with the response that did not fit.
HandleOverflow ==
  /\ pc = "overflow"
  /\ IF overflow = <<>>
     THEN pc' = "macrotasks" /\ UNCHANGED <<overflow, failed, throws, delivered>>
     ELSE /\ AnswerOverflow
          /\ overflow' = <<>>
          /\ MayThrow
          /\ pc' = "overflow microtasks"
  /\ UNCHANGED <<outcome, woken, opVars, queueVars, exceptions, rejections, taken,
                 overflowed>>

\* drain_macrotasks, as one run of the callback and its microtasks.
Macrotask ==
  /\ pc = "macrotasks" /\ ~ failed
  /\ MayThrow
  /\ pc' = "macrotasks"
  /\ UNCHANGED <<outcome, woken, opVars, queueVars, overflow, exceptions, rejections,
                 history>>

\* Mutants: rejections are only looked at when a poll starts; the wrong set is asked.
NeverRejected == FALSE
UnrefOpsDone  == pending["unref"] = {}

\* What check_promise_exceptions finds at the end of poll, and when poll is Ready.
Rejected == exceptions > 0
OpsDone  == pending["ref"] = {}

\* The end of poll: a rejected promise is an error; without pending ops the
\* isolate is done; ops dispatched meanwhile make the executor poll again.
EndPoll ==
  /\ pc = "end"
  /\ IF Rejected
     THEN /\ exceptions' = exceptions - 1
          /\ Fail
          /\ UNCHANGED woken
     ELSE /\ pc' = "idle"
          /\ IF OpsDone
             THEN outcome' = "ok" /\ UNCHANGED woken
             ELSE /\ outcome' = "pending"
                  /\ woken' = (woken \/ haveUnpolled)
          /\ UNCHANGED <<exceptions, failed, overflow>>
  /\ UNCHANGED <<opVars, queueVars, throws, rejections, history>>

PollStep ==
  \/ \E c \in Classes : PollFuture(c) \/ PollDone(c)
  \/ Handle \/ NothingQueued
  \/ Return("microtasks", "overflow")
  \/ HandleOverflow
  \/ Return("overflow microtasks", "macrotasks")
  \/ Return("macrotasks", "end")
  \/ EndPoll

JavaScript ==
  \/ \E op \in Ops : DispatchOp(op)
  \/ Reject \/ HandleLate \/ Macrotask
  \/ Return("script", "idle")

Next ==
  \/ Execute
  \/ JavaScript
  \/ \E op \in Ops : Complete(op)
  \/ StartPoll
  \/ PollStep

Spec == Init /\ [][Next]_vars

\* The executor polls a task that was woken, poll runs to its end, and scripts and
\* callbacks return.  Nothing forces an op to complete.
Fairness ==
  /\ WF_vars(Due /\ StartPoll)
  /\ WF_vars(PollStep)
  /\ WF_vars(Return("script", "idle"))

FairSpec == Spec /\ Fairness

-----------------------------------------------------------------------------
PCs == {"idle", "script", "ref", "unref", "queued", "receiving", "microtasks",
        "overflow", "overflow microtasks", "macrotasks", "end"}

\* The variables keep their types: futures live in one of the two sets, and the
\* shared queue stays within its bounds.
TypeOK ==
  /\ pc \in PCs /\ outcome \in {"pending", "ok", "err"} /\ woken \in BOOLEAN
  /\ resolved \subseteq dispatched /\ dispatched \subseteq Ops
  /\ pending \in [Classes -> SUBSET dispatched]
  /\ \A c \in Classes : ready[c] \in Seq(pending[c])
  /\ haveUnpolled \in BOOLEAN
  /\ queue \in Seq(Ops) /\ count \in 0 .. MaxRecords /\ used \in 0 .. Capacity
  /\ last \in Seq(Ops) /\ overflow \in Seq(Ops)
  /\ exceptions \in 0 .. MaxRejections /\ failed \in BOOLEAN
  /\ throws \in 0 .. MaxThrows /\ rejections \in 0 .. MaxRejections
  /\ taken \in Seq(Ops) /\ delivered \in Seq(Ops) /\ overflowed \in BOOLEAN

\* Two things go wrong after a response that did not fit into the shared queue, which
\* the other properties leave aside: the loop ended by it may leave a woken future
\* behind, with have_unpolled_ops cleared, and an exception of another handler in the
\* same poll drops the response.
Undisturbed == throws = 0 \/ ~ overflowed

\* A response that a future has returned is never lost: it was handed to its
\* handler, or it waits in the shared queue or in overflow_response.
NoResponseLost ==
  Undisturbed =>
    ToSet(taken) \subseteq ToSet(delivered) \cup ToSet(queue) \cup ToSet(overflow)

\* Handlers are called once per response, and for the ops of one set in the order
\* in which their futures finished, also when some responses overflow.
Ordered ==
  Undisturbed =>
    /\ ToSet(delivered) \subseteq ToSet(taken)
    /\ \A m, n \in DOMAIN delivered : delivered[m] = delivered[n] => m = n
    /\ \A i, k \in DOMAIN taken, n \in DOMAIN delivered :
         i < k /\ ClassOf(taken[i]) = ClassOf(taken[k]) /\ delivered[n] = taken[k] =>
           \E m \in 1 .. n - 1 : delivered[m] = taken[i]

\* When the isolate reports that it is done, every op that keeps the loop alive has
\* been answered ("completes when ... all pending ops have completed").
DoneMeansAnswered ==
  pc = "idle" /\ outcome = "ok" /\ Undisturbed =>
    dispatched \ UnrefOps \subseteq ToSet(delivered)

\* While the executor is not going to poll the isolate, no finished op waits.
NoLostWakeup ==
  pc = "idle" /\ outcome = "pending" /\ ~ Due /\ ~ overflowed =>
    resolved \subseteq ToSet(taken)

\* The isolate does not go to sleep on a promise rejected without a handler.
RejectionReported ==
  pc = "idle" /\ outcome # "err" /\ ~ Due => exceptions = 0

\* A finished op is answered, unless the isolate ends before.
Answered ==
  \A op \in Ops :
    op \in resolved ~> op \in ToSet(delivered) \/ outcome # "pending" \/ overflowed
=============================================================================
