--------------------------- MODULE WritableStream ---------------------------
(***************************************************************************)
(* The writable half of src/cli/js/web/streams/internals.ts: a stream, its *)
(* controller and its writer as one record, every abstract operation as an *)
(* operator from records to records, and the sink as the call it has not   *)
(* answered.  A promise that settles is put into "news", in the order in   *)
(* which its reactions are queued; the owner of the record, PipeTo here,   *)
(* turns news into microtasks.  A failing assert(), or a call of an        *)
(* algorithm that has been cleared, clears "asserts".                      *)
(*                                                                         *)
(* Chunks have size one, the default size algorithm.  The sink answers in  *)
(* a later step than the one that calls it.                                *)
(***************************************************************************)
EXTENDS Naturals, Sequences, FiniteSets

CONSTANTS
    WritableHWM,    \* the sink's high water mark, in chunks
    CloseSentinel,  \* the record that follows the last chunk
    NoWrite         \* no write is in flight

(* A stream just constructed: its start algorithm has not answered.        *)
NewWritable ==
    [state |-> "writable", started |-> FALSE, queue |-> <<>>,
     writeRequests |-> <<>>, inFlightWrite |-> NoWrite,
     closeRequest |-> FALSE, inFlightClose |-> FALSE,
     pendingAbort |-> "none",  \* "late": the stream was already erroring
     storedError |-> FALSE, backpressure |-> WritableHWM = 0,
     writer |-> FALSE, ready |-> "none", closed |-> "none",
     hasAlgorithms |-> TRUE,
     sink |-> "start",         \* the algorithm that has not answered
     calls |-> <<>>,           \* what write, close and abort were called with
     overlap |-> FALSE,        \* an algorithm called before another answered
     asserts |-> TRUE, news |-> <<>>]

Assert_(w, condition) == [w EXCEPT !.asserts = @ /\ condition]
Tell(w, event) == [w EXCEPT !.news = Append(@, event)]

CloseQueuedOrInFlight(w) == w.closeRequest \/ w.inFlightClose
HasOperationInFlight(w) == w.inFlightWrite # NoWrite \/ w.inFlightClose
HasBackpressure(w) ==
    Cardinality({i \in DOMAIN w.queue : w.queue[i] # CloseSentinel}) >= WritableHWM

CallSink(w, algorithm, argument) ==
    [Assert_(w, w.hasAlgorithms) EXCEPT
       !.sink = algorithm, !.calls = Append(@, argument),
       !.overlap = @ \/ w.sink # "idle"]

(* A pending promise of the writer settles; a settled one is replaced, or  *)
(* settling it again does nothing.                                         *)
Settle(w, promise, how) ==
    IF ~w.writer THEN w
    ELSE IF w[promise] = "pending"
         THEN Tell([w EXCEPT ![promise] = how], <<promise, how>>)
         ELSE w
EnsureReadyRejected(w) ==
    IF w.writer THEN [Settle(w, "ready", "rejected") EXCEPT !.ready = "rejected"]
                ELSE w

(* writableStreamRejectCloseAndClosedPromiseIfNeeded *)
RejectCloseAndClosed(w) ==
    LET v == Assert_(w, w.state = "errored" /\ (w.closeRequest => ~w.inFlightClose))
    IN  Settle(IF v.closeRequest
               THEN Tell([v EXCEPT !.closeRequest = FALSE], <<"close", "rejected">>)
               ELSE v,
               "closed", "rejected")

FinishErroring(w) ==
    LET rejected == [i \in 1..Len(w.writeRequests) |->
                        <<"write", w.writeRequests[i]>>]
        v == [Assert_(w, w.state = "erroring" /\ ~HasOperationInFlight(w))
              EXCEPT !.state = "errored", !.queue = <<>>, !.writeRequests = <<>>,
                     !.news = @ \o rejected, !.pendingAbort = "none"]
    IN  CASE w.pendingAbort = "none" -> RejectCloseAndClosed(v)
          [] w.pendingAbort = "late" ->
                RejectCloseAndClosed(Tell(v, <<"abort", "rejected">>))
          [] w.pendingAbort = "first" ->
                [CallSink(v, "abort", "abort")
                 EXCEPT !.hasAlgorithms = FALSE]

(* Mutant: the stream errors at once, though the sink has not answered. *)
StartErroringAtOnce(w) ==
    LET v == EnsureReadyRejected(
               [Assert_(w, w.state = "writable" /\ ~w.storedError)
                EXCEPT !.state = "erroring", !.storedError = TRUE])
    IN  IF v.started THEN FinishErroring(v) ELSE v

StartErroring(w) ==
    LET v == EnsureReadyRejected(
               [Assert_(w, w.state = "writable" /\ ~w.storedError)
                EXCEPT !.state = "erroring", !.storedError = TRUE])
    IN  IF ~HasOperationInFlight(v) /\ v.started THEN FinishErroring(v) ELSE v

DealWithRejection(w) ==
    IF w.state = "writable" THEN StartErroring(w)
                            ELSE FinishErroring(w)

ControllerError(w) ==
    StartErroring([w EXCEPT !.hasAlgorithms = FALSE])
ErrorIfNeeded(w) == IF w.state = "writable" THEN ControllerError(w) ELSE w

(* writableStreamUpdateBackpressure *)
UpdateBackpressure(w) ==
    LET b == HasBackpressure(w)
        v == [Assert_(w, w.state = "writable" /\ ~CloseQueuedOrInFlight(w))
              EXCEPT !.backpressure = b]
    IN  IF ~w.writer \/ b = w.backpressure THEN v
        ELSE IF b THEN [v EXCEPT !.ready = "pending"]
             ELSE Settle(Assert_(v, v.ready = "pending"), "ready", "resolved")

UpdateIfOpen(w) ==
    IF w.state = "writable" /\ ~CloseQueuedOrInFlight(w)
    THEN UpdateBackpressure(w) ELSE w

ProcessClose(w) ==
    [CallSink([Assert_(w, w.closeRequest /\ ~w.inFlightClose /\ Len(w.queue) = 1)
               EXCEPT !.inFlightClose = TRUE, !.closeRequest = FALSE,
                      !.queue = Tail(@)],
              "close", "close")
     EXCEPT !.hasAlgorithms = FALSE]

ProcessWrite(w) ==
    CallSink([Assert_(w, w.writeRequests # <<>>)
              EXCEPT !.inFlightWrite = Head(w.writeRequests),
                     !.writeRequests = Tail(@)],
             "write", Head(w.queue))

(* Mutant: the write in flight is not looked at. *)
AdvanceQueueAlways(w) ==
    IF ~w.started \/ w.state \notin {"writable", "erroring"} THEN w
    ELSE CASE w.state = "erroring" -> FinishErroring(w)
           [] w.state # "erroring" /\ w.queue = <<>> -> w
           [] w.state # "erroring" /\ w.queue # <<>>
                /\ Head(w.queue) = CloseSentinel -> ProcessClose(w)
           [] OTHER -> IF w.writeRequests = <<>> THEN w ELSE ProcessWrite(w)

AdvanceQueueIfNeeded(w) ==
    IF ~w.started \/ w.inFlightWrite # NoWrite THEN w
    ELSE LET v == Assert_(w, w.state \notin {"closed", "errored"})
         IN  CASE v.state = "erroring" -> FinishErroring(v)
               [] v.state # "erroring" /\ v.queue = <<>> -> v
               [] v.state # "erroring" /\ v.queue # <<>>
                    /\ Head(v.queue) = CloseSentinel -> ProcessClose(v)
               [] OTHER -> ProcessWrite(v)

-----------------------------------------------------------------------------
(* The writer and the stream's own methods.                                *)

(* writer.write(): a cleared size algorithm throws, which errors the       *)
(* stream.  A write that is refused is rejected at once.                   *)
WriterWrite(w, chunk) ==
    LET v == IF w.hasAlgorithms THEN w ELSE ErrorIfNeeded(w)
    IN  IF v.state # "writable" \/ CloseQueuedOrInFlight(v)
        THEN Tell(v, <<"write", chunk>>)
        ELSE AdvanceQueueIfNeeded(UpdateIfOpen(
               [v EXCEPT !.writeRequests = Append(@, chunk),
                         !.queue = Append(@, chunk)]))

StreamClose(w) ==
    IF w.state \in {"closed", "errored"} THEN Tell(w, <<"close", "rejected">>)
    ELSE LET v == [Assert_(w, ~CloseQueuedOrInFlight(w)) EXCEPT !.closeRequest = TRUE]
             u == IF v.backpressure /\ v.state = "writable"
                  THEN Settle(v, "ready", "resolved") ELSE v
         IN  AdvanceQueueIfNeeded([u EXCEPT !.queue = Append(@, CloseSentinel)])

(* An abort of a stream that is being aborted shares its promise.          *)
StreamAbort(w) ==
    IF w.state \in {"closed", "errored"} THEN Tell(w, <<"abort", "resolved">>)
    ELSE IF w.pendingAbort # "none" THEN w
    ELSE IF w.state = "erroring" THEN [w EXCEPT !.pendingAbort = "late"]
         ELSE StartErroring([w EXCEPT !.pendingAbort = "first"])

CloseWithErrorPropagation(w) ==
    IF CloseQueuedOrInFlight(w) \/ w.state = "closed"
    THEN Tell(w, <<"close", "resolved">>)
    ELSE IF w.state = "errored" THEN Tell(w, <<"close", "rejected">>)
         ELSE StreamClose(w)

AcquireWriter(w) ==
    [w EXCEPT
       !.writer = TRUE,
       !.ready  = CASE w.state \in {"erroring", "errored"} -> "rejected"
                    [] w.state = "writable" /\ w.backpressure
                         /\ ~CloseQueuedOrInFlight(w) -> "pending"
                    [] OTHER -> "resolved",
       !.closed = CASE w.state = "closed" -> "resolved"
                    [] w.state = "errored" -> "rejected"
                    [] OTHER -> "pending"]

WriterRelease(w) ==
    [Settle(EnsureReadyRejected(Assert_(w, w.writer)), "closed", "rejected")
     EXCEPT !.writer = FALSE, !.ready = "none", !.closed = "none"]

-----------------------------------------------------------------------------
(* The sink answers: "ok", or a rejection.                                 *)

FinishInFlightWrite(w, ok) ==
    LET done == Tell([w EXCEPT !.inFlightWrite = NoWrite, !.sink = "idle"],
                     <<"write", w.inFlightWrite>>)
        v == Assert_(done, w.inFlightWrite # NoWrite
                             /\ w.state \in {"writable", "erroring"})
    IN  IF ok
        THEN AdvanceQueueIfNeeded(UpdateIfOpen([v EXCEPT !.queue = Tail(@)]))
        ELSE DealWithRejection(
               [v EXCEPT !.hasAlgorithms = @ /\ w.state # "writable"])

FinishInFlightClose(w, ok) ==
    LET how == IF ok THEN "resolved" ELSE "rejected"
        done == Tell([Assert_(w, w.inFlightClose /\ w.state \in {"writable", "erroring"})
                      EXCEPT !.inFlightClose = FALSE, !.sink = "idle"],
                     <<"close", how>>)
        v == IF w.pendingAbort # "none"
             THEN Tell([done EXCEPT !.pendingAbort = "none"], <<"abort", how>>)
             ELSE done
    IN  IF ok
        THEN Settle([Assert_(v, w.state = "writable" => w.pendingAbort = "none")
                     EXCEPT !.state = "closed", !.storedError = FALSE],
                    "closed", "resolved")
        ELSE DealWithRejection(v)

FinishAbort(w, ok) ==
    RejectCloseAndClosed(
        Tell([w EXCEPT !.sink = "idle"],
             <<"abort", IF ok THEN "resolved" ELSE "rejected">>))

FinishStart(w, ok) ==
    LET v == [Assert_(w, w.state \in {"writable", "erroring"})
              EXCEPT !.started = TRUE, !.sink = "idle"]
    IN  IF ok THEN AdvanceQueueIfNeeded(v) ELSE DealWithRejection(v)

SinkAnswers(w, ok) ==
    CASE w.sink = "start" -> FinishStart(w, ok)
      [] w.sink = "write" -> FinishInFlightWrite(w, ok)
      [] w.sink = "close" -> FinishInFlightClose(w, ok)
      [] w.sink = "abort" -> FinishAbort(w, ok)
=============================================================================
