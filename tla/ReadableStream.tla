--------------------------- MODULE ReadableStream ---------------------------
(***************************************************************************)
(* The readable half of src/cli/js/web/streams/internals.ts and its        *)
(* default controller and reader, in the style of WritableStream: a record *)
(* for the stream, operators for the abstract operations, "news" for the   *)
(* promises that settle, "asserts" for the assert() calls.  Byte streams   *)
(* and tee() are left out.  The source answers a pull, and enqueues or     *)
(* closes, in a later step than the one that calls it.                     *)
(***************************************************************************)
EXTENDS Naturals, Sequences

CONSTANT ReadableHWM  \* the source's high water mark, in chunks

NewReadable ==
    [state |-> "readable", started |-> FALSE, queue |-> <<>>,
     closeRequested |-> FALSE, pulling |-> FALSE, pullAgain |-> FALSE,
     reader |-> FALSE, readRequests |-> 0,
     cancelling |-> FALSE,     \* the cancel algorithm has not answered
     asserts |-> TRUE, news |-> <<>>]

Assert_(r, condition) == [r EXCEPT !.asserts = @ /\ condition]
Tell(r, event) == [r EXCEPT !.news = Append(@, event)]

CanCloseOrEnqueue(r) == ~r.closeRequested /\ r.state = "readable"

ShouldCallPull(r) ==
    /\ CanCloseOrEnqueue(r)
    /\ r.started
    /\ \/ r.reader /\ r.readRequests > 0
       \/ Len(r.queue) < ReadableHWM

CallPullIfNeeded(r) ==
    IF ~ShouldCallPull(r) THEN r
    ELSE IF r.pulling THEN [r EXCEPT !.pullAgain = TRUE]
         ELSE [Assert_(r, ~r.pullAgain) EXCEPT !.pulling = TRUE]

(* The stream ends: the pending reads settle before the reader's closed    *)
(* promise does.                                                           *)
EndStream(r, state, read, closed) ==
    LET v == [Assert_(r, r.state = "readable") EXCEPT !.state = state]
    IN  IF ~v.reader THEN v
        ELSE [v EXCEPT !.readRequests = 0,
                       !.news = @ \o [i \in 1..r.readRequests |-> <<"read", read>>]
                                  \o << <<"closed", closed>> >>]
CloseStream(r) == EndStream(r, "closed", "done", "resolved")

ControllerError(r) ==
    IF r.state # "readable" THEN r
    ELSE EndStream([r EXCEPT !.queue = <<>>], "errored", "failed", "rejected")

Enqueue(r, chunk) ==
    IF ~CanCloseOrEnqueue(r) THEN r
    ELSE CallPullIfNeeded(
           IF r.reader /\ r.readRequests > 0
           THEN Tell([r EXCEPT !.readRequests = @ - 1], <<"read", chunk>>)
           ELSE [r EXCEPT !.queue = Append(@, chunk)])

(* Mutant: the chunks that are still queued are not waited for. *)
ControllerCloseAtOnce(r) ==
    IF ~CanCloseOrEnqueue(r) THEN r
    ELSE CloseStream([r EXCEPT !.closeRequested = TRUE])

ControllerClose(r) ==
    IF ~CanCloseOrEnqueue(r) THEN r
    ELSE LET v == [r EXCEPT !.closeRequested = TRUE]
         IN  IF v.queue = <<>> THEN CloseStream(v) ELSE v

(* reader.read(): the last chunk of a closing stream closes it, before the *)
(* read itself resolves.                                                   *)
Read(r) ==
    CASE r.state = "closed"  -> Tell(r, <<"read", "done">>)
      [] r.state = "errored" -> Tell(r, <<"read", "failed">>)
      [] r.state = "readable" /\ r.queue # <<>> ->
           LET v == [r EXCEPT !.queue = Tail(@)]
           IN  Tell(IF v.closeRequested /\ v.queue = <<>>
                    THEN CloseStream(v) ELSE CallPullIfNeeded(v),
                    <<"read", Head(r.queue)>>)
      [] OTHER ->
           CallPullIfNeeded([Assert_(r, r.reader) EXCEPT !.readRequests = @ + 1])

StreamCancel(r) ==
    CASE r.state = "closed"  -> Tell(r, <<"cancel", "resolved">>)
      [] r.state = "errored" -> Tell(r, <<"cancel", "rejected">>)
      [] OTHER -> [CloseStream(r) EXCEPT !.queue = <<>>, !.cancelling = TRUE]

AcquireReader(r) == [r EXCEPT !.reader = TRUE, !.readRequests = 0]
ReaderRelease(r) ==
    [Assert_(r, r.reader) EXCEPT !.reader = FALSE, !.readRequests = 0,
       !.news = IF r.state = "readable" THEN Append(@, <<"closed", "rejected">>)
                                        ELSE @]

-----------------------------------------------------------------------------
(* The source answers.                                                     *)

FinishStart(r, ok) ==
    IF ok THEN CallPullIfNeeded([Assert_(r, ~r.pulling /\ ~r.pullAgain)
                                 EXCEPT !.started = TRUE])
          ELSE ControllerError(r)

FinishPull(r, ok) ==
    IF ~ok THEN ControllerError(r)
    ELSE LET v == [r EXCEPT !.pulling = FALSE, !.pullAgain = FALSE]
         IN  IF r.pullAgain THEN CallPullIfNeeded(v) ELSE v

FinishCancel(r, ok) ==
    Tell([r EXCEPT !.cancelling = FALSE],
         <<"cancelled", IF ok THEN "resolved" ELSE "rejected">>)
=============================================================================
