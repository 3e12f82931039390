------------------------------- MODULE PipeTo -------------------------------
(***************************************************************************)
(* readableStreamPipeTo of src/cli/js/web/streams/internals.ts, with the   *)
(* two streams it connects, the program that owns them and the microtask   *)
(* queue.  One step runs one microtask to its end, or lets the source, the *)
(* sink, the abort signal or the program act: their code runs in tasks of  *)
(* its own and may come between any two microtasks.                        *)
(*                                                                         *)
(* Every .then() between a promise and its reaction is a turn of the queue *)
(* and the order of the turns is what the pipe depends on, so a job that   *)
(* stands for the end of a chain carries the "hops" still to come.         *)
(***************************************************************************)
EXTENDS Naturals, Sequences, SequencesExt, FiniteSets

CONSTANTS
    ReadableHWM, WritableHWM, CloseSentinel, NoWrite,
    Chunks,      \* what the source enqueues, one after the other
    UserChunk,   \* what the program writes while the sink is not locked
    PipeOptions, \* the sets of prevent options a pipe may be given
    ProgramActs  \* what the program may do to the streams, each once

(* The records of the streams hold chunks next to marks of their own, and  *)
(* what the pipe writes is told from what the program writes; a chunk also *)
(* stands for the promise of its write, and every write has its own.       *)
ASSUME ChunksAssumption ==
    /\ Chunks \in Seq(ToSet(Chunks)) /\ IsInjective(Chunks)
    /\ UserChunk \notin ToSet(Chunks)
    /\ \A c \in ToSet(Chunks) \cup {UserChunk} :
          c \notin {CloseSentinel, NoWrite, "close", "abort", "done", "failed"}
ASSUME MarksAssumption == WritableHWM \in Nat

R == INSTANCE ReadableStream
W == INSTANCE WritableStream

VARIABLES
    source, dest,  \* the streams
    pipe,          \* the closure of readableStreamPipeTo
    jobs,          \* the microtask queue
    enqueued,      \* how many of Chunks the source has enqueued
    program        \* what the program did to the streams itself

vars == <<source, dest, pipe, jobs, enqueued, program>>

IdlePipe ==
    [lock |-> "idle",          \* then "held", then "released"
     options |-> {}, shuttingDown |-> FALSE, signalled |-> FALSE,
     waitsReady |-> FALSE,     \* pipeStep waits for the writer to be ready
     currentWrite |-> NoWrite, currentDone |-> TRUE,
     waitsOn |-> NoWrite,      \* the write waitForWritesToFinish waits for
     depth |-> 0,              \* how often it called itself
     action |-> "none", isError |-> FALSE,
     parts |-> {},             \* the promises of the action not settled yet
     outcome |-> "none",       \* how the promise of pipeTo settled
     asserts |-> TRUE]

Init ==
    /\ source = R!NewReadable
    /\ dest = W!NewWritable
    /\ pipe = IdlePipe
    /\ jobs = <<>>
    /\ enqueued = 0
    /\ program = {}

-----------------------------------------------------------------------------
(* One turn of JavaScript is a function of these four.                     *)

Now == [source |-> source, dest |-> dest, pipe |-> pipe, jobs |-> jobs]
Become(after) ==
    \E s \in {after} :
        /\ source' = s.source
        /\ dest' = s.dest
        /\ pipe' = s.pipe
        /\ jobs' = s.jobs

Queue(s, kind, arg, hops) ==
    [s EXCEPT !.jobs = Append(@, [kind |-> kind, arg |-> arg, hops |-> hops])]

(* A promise of the shutdown action settles: the action is Promise.all()   *)
(* for an abort signal, and the promise itself otherwise.                  *)
PartSettled(s, part, how, hops) ==
    IF part \notin s.pipe.parts THEN s
    ELSE IF s.pipe.action = "signal" THEN Queue(s, "part", <<part, how>>, hops)
         ELSE Queue([s EXCEPT !.pipe.parts = {}], "acted", how, hops)

(* The reactions the pipe has registered on the promises of the writer and *)
(* the reader.  While it shuts down, those that would start a shutdown do  *)
(* nothing.                                                                *)
HearDest(s, e) ==
    CASE e[1] = "write" -> IF e[2] \in ToSet(Chunks) THEN Queue(s, "written", e[2], 0) ELSE s
      [] e[1] = "ready" ->
           IF ~s.pipe.waitsReady THEN s
           ELSE LET v == [s EXCEPT !.pipe.waitsReady = FALSE]
                IN  IF e[2] = "resolved" THEN Queue(v, "read", NoWrite, 0) ELSE v
      [] e[1] = "closed" ->
           IF e[2] = "rejected" /\ s.pipe.lock = "held" /\ ~s.pipe.shuttingDown
           THEN Queue(s, "destErrored", NoWrite, 0) ELSE s
      [] OTHER -> PartSettled(s, e[1], e[2], 0)

HearSource(s, e) ==
    CASE e[1] = "read" -> Queue(s, "chunk", e[2], 0)
      [] e[1] = "closed" ->
           IF s.pipe.lock # "held" \/ s.pipe.shuttingDown THEN s
           ELSE Queue(s, IF e[2] = "resolved" THEN "sourceClosed" ELSE "sourceErrored",
                      NoWrite, 0)
      [] e[1] = "cancel" -> PartSettled(s, "cancel", e[2], 0)
      [] e[1] = "cancelled" -> PartSettled(s, "cancel", e[2], 1)

(* The reactions to news are queued one after the other.                   *)
DestTold(s, news) ==
    LET told[n \in 0..Len(news)] ==
          IF n = 0 THEN s ELSE HearDest(told[n - 1], news[n])
    IN  told[Len(news)]
SourceTold(s, news) ==
    LET told[n \in 0..Len(news)] ==
          IF n = 0 THEN s ELSE HearSource(told[n - 1], news[n])
    IN  told[Len(news)]

(* Reactions are queued as jobs; of the closure only what waits for a      *)
(* promise changes, and no stream does.                                    *)
Heard(s, heard) ==
    [s EXCEPT !.jobs = heard.jobs, !.pipe.parts = heard.pipe.parts,
              !.pipe.waitsReady = heard.pipe.waitsReady]
WithDest(s, w) ==
    Heard([s EXCEPT !.dest = [w EXCEPT !.news = <<>>]], DestTold(s, w.news))
WithSource(s, r) ==
    Heard([s EXCEPT !.source = [r EXCEPT !.news = <<>>]], SourceTold(s, r.news))

-----------------------------------------------------------------------------
(* Shutting down.                                                          *)

Finalize(s, isError) ==
    IF s.pipe.lock # "held" THEN [s EXCEPT !.pipe.asserts = FALSE]
    ELSE LET v == WithDest(s, W!WriterRelease(s.dest))
             u == WithSource(v, R!ReaderRelease(v.source))
         IN  [u EXCEPT !.pipe.lock = "released",
                       !.pipe.outcome = IF isError THEN "error" ELSE "ok"]

WaitForWritesToFinish(s) ==
    IF s.pipe.currentDone THEN Queue(s, "waited", s.pipe.currentWrite, 0)
    ELSE [s EXCEPT !.pipe.waitsOn = s.pipe.currentWrite]

AbortIfWritable(s) ==
    IF "preventAbort" \in s.pipe.options THEN s
    ELSE IF s.dest.state = "writable" THEN WithDest(s, W!StreamAbort(s.dest))
         ELSE PartSettled(s, "abort", "resolved", 0)
CancelIfReadable(s) ==
    IF "preventCancel" \in s.pipe.options THEN s
    ELSE IF s.source.state = "readable" THEN WithSource(s, R!StreamCancel(s.source))
         ELSE PartSettled(s, "cancel", "resolved", 0)

DoTheRest(s) ==
    LET action == s.pipe.action
        Await(parts) == [s EXCEPT !.pipe.parts = parts]
        allowed == (IF "preventAbort" \in s.pipe.options THEN {} ELSE {"abort"})
                     \cup (IF "preventCancel" \in s.pipe.options THEN {} ELSE {"cancel"})
    IN  CASE action = "abort" -> WithDest(Await({"abort"}), W!StreamAbort(s.dest))
          [] action = "cancel" -> WithSource(Await({"cancel"}), R!StreamCancel(s.source))
          [] action = "close" ->
               WithDest(Await({"close"}), W!CloseWithErrorPropagation(s.dest))
          [] action = "signal" /\ allowed # {} ->
               CancelIfReadable(AbortIfWritable(Await(allowed)))
          [] action = "signal" /\ allowed = {} -> Queue(s, "acted", "resolved", 0)
          [] OTHER -> Finalize(s, s.pipe.isError)

DestTakesWrites(s) == s.dest.state = "writable" /\ ~W!CloseQueuedOrInFlight(s.dest)

ShutdownWithAction(s, action, isError) ==
    IF s.pipe.shuttingDown THEN s
    ELSE LET v == [s EXCEPT !.pipe.shuttingDown = TRUE, !.pipe.action = action,
                            !.pipe.isError = isError]
         IN  IF DestTakesWrites(v) THEN WaitForWritesToFinish(v) ELSE DoTheRest(v)

(* The code waits for the writes and finalizes at once all the same.       *)
Shutdown(s, isError) ==
    IF s.pipe.shuttingDown THEN s
    ELSE LET v == [s EXCEPT !.pipe.shuttingDown = TRUE, !.pipe.action = "release",
                            !.pipe.isError = isError]
         IN  Finalize(IF DestTakesWrites(v) THEN WaitForWritesToFinish(v) ELSE v, isError)

End(s, prevented, action) ==
    IF prevented \in s.pipe.options THEN Shutdown(s, TRUE)
    ELSE ShutdownWithAction(s, action, TRUE)

(* Mutant: the stream that has ended already is the one that is ended. *)
SourceErroredItself(s) == End(s, "preventAbort", "cancel")

SourceErrored(s) == End(s, "preventAbort", "abort")
DestErrored(s) == End(s, "preventCancel", "cancel")
SourceClosed(s) ==
    IF "preventClose" \in s.pipe.options THEN s
    ELSE ShutdownWithAction(s, "close", FALSE)

-----------------------------------------------------------------------------
(* The loop, and the microtasks.                                           *)

(* Mutant: the loop does not wait for the writer to be ready. *)
PipeStepHasty(s) ==
    IF s.pipe.shuttingDown THEN s ELSE Queue(s, "read", NoWrite, 0)

PipeStep(s) ==
    IF s.pipe.shuttingDown THEN s
    ELSE CASE s.dest.ready = "resolved" -> Queue(s, "read", NoWrite, 0)
           [] s.dest.ready = "pending" -> [s EXCEPT !.pipe.waitsReady = TRUE]
           [] OTHER -> s

ReadChunk(s) ==
    IF s.pipe.lock # "held" THEN [s EXCEPT !.pipe.asserts = FALSE]
    ELSE WithSource(s, R!Read(s.source))

(* A read that found the end, or failed, ends the loop. *)
WriteChunk(s, chunk) ==
    IF chunk \notin ToSet(Chunks) THEN s
    ELSE IF s.pipe.lock # "held" THEN [s EXCEPT !.pipe.asserts = FALSE]
    ELSE LET v == [s EXCEPT !.pipe.currentWrite = chunk, !.pipe.currentDone = FALSE]
         IN  Queue(WithDest(v, W!WriterWrite(v.dest, chunk)), "next", NoWrite, 1)

(* Mutant: the wait for the writes is not told. *)
WrittenUnheard(s, chunk) ==
    [s EXCEPT !.pipe.currentDone = @ \/ chunk = s.pipe.currentWrite]

Written(s, chunk) ==
    LET v == [s EXCEPT !.pipe.currentDone = @ \/ chunk = s.pipe.currentWrite]
    IN  IF v.pipe.waitsOn # chunk THEN v
        ELSE Queue([v EXCEPT !.pipe.waitsOn = NoWrite], "waited", chunk, 0)

Waited(s, old) ==
    IF old # s.pipe.currentWrite
    THEN WaitForWritesToFinish([s EXCEPT !.pipe.depth = @ + 1])
    ELSE Queue(s, "rest", NoWrite, s.pipe.depth)

PartOfAll(s, part, how) ==
    IF part \notin s.pipe.parts THEN s
    ELSE LET left == IF how = "rejected" THEN {} ELSE s.pipe.parts \ {part}
             v == [s EXCEPT !.pipe.parts = left]
         IN  IF left = {} THEN Queue(v, "acted", how, 0) ELSE v

Perform(s, job) ==
    IF job.hops > 0 THEN Queue(s, job.kind, job.arg, job.hops - 1)
    ELSE CASE job.kind = "read" -> ReadChunk(s)
           [] job.kind = "chunk" -> WriteChunk(s, job.arg)
           [] job.kind = "next" -> PipeStep(s)
           [] job.kind = "written" -> Written(s, job.arg)
           [] job.kind = "waited" -> Waited(s, job.arg)
           [] job.kind = "rest" -> DoTheRest(s)
           [] job.kind = "part" -> PartOfAll(s, job.arg[1], job.arg[2])
           [] job.kind = "acted" ->
           Finalize(s, s.pipe.isError \/ job.arg = "rejected")
           [] job.kind = "sourceErrored" -> SourceErrored(s)
           [] job.kind = "destErrored" -> DestErrored(s)
           [] OTHER -> SourceClosed(s)

RunJob ==
    /\ jobs # <<>>
    /\ Become(Perform([Now EXCEPT !.jobs = Tail(@)], Head(jobs)))
    /\ UNCHANGED <<enqueued, program>>

(* pipeTo() refuses locked streams.  Streams that have ended already end   *)
(* the pipe before the loop starts.                                        *)
PipeStreams ==
    /\ pipe.lock = "idle" /\ ~source.reader /\ ~dest.writer
    /\ \E options \in PipeOptions :
         LET s1 == [Now EXCEPT !.pipe.lock = "held", !.pipe.options = options,
                               !.source = R!AcquireReader(@),
                               !.dest = W!AcquireWriter(@)]
             s2 == IF s1.source.state = "errored" THEN SourceErrored(s1) ELSE s1
             s3 == IF s2.dest.state = "errored" THEN DestErrored(s2) ELSE s2
             s4 == IF s3.source.state = "closed" THEN SourceClosed(s3) ELSE s3
             s5 == IF W!CloseQueuedOrInFlight(s4.dest) \/ s4.dest.state = "closed"
                   THEN DestErrored(s4) ELSE s4
         IN  Become(PipeStep(s5))
    /\ UNCHANGED <<enqueued, program>>

(* The listener is there from the start of the pipe to its end.            *)
SignalAborts ==
    /\ pipe.lock = "held" /\ ~pipe.signalled
    /\ Become(ShutdownWithAction([Now EXCEPT !.pipe.signalled = TRUE], "signal", TRUE))
    /\ UNCHANGED <<enqueued, program>>

-----------------------------------------------------------------------------
(* The source, the sink and the program.                                   *)

SourceDoes(r) == Become(WithSource(Now, r)) /\ UNCHANGED program
DestDoes(w) == Become(WithDest(Now, w)) /\ UNCHANGED <<enqueued, program>>

SourceEnqueues ==
    /\ R!CanCloseOrEnqueue(source) /\ enqueued < Len(Chunks)
    /\ enqueued' = enqueued + 1
    /\ SourceDoes(R!Enqueue(source, Chunks[enqueued']))

SourceCloses ==
    /\ R!CanCloseOrEnqueue(source)
    /\ SourceDoes(R!ControllerClose(source))
    /\ UNCHANGED enqueued

SourceErrors ==
    /\ source.state = "readable"
    /\ SourceDoes(R!ControllerError(source))
    /\ UNCHANGED enqueued

(* An answer of start or pull after the stream has ended changes nothing.  *)
SourceStarts ==
    /\ ~source.started /\ source.state = "readable"
    /\ \E ok \in BOOLEAN : SourceDoes(R!FinishStart(source, ok))
    /\ UNCHANGED enqueued

SourcePulled ==
    /\ source.pulling /\ source.state = "readable"
    /\ \E ok \in BOOLEAN : SourceDoes(R!FinishPull(source, ok))
    /\ UNCHANGED enqueued

SourceCancelled ==
    /\ source.cancelling
    /\ \E ok \in BOOLEAN : SourceDoes(R!FinishCancel(source, ok))
    /\ UNCHANGED enqueued

SinkAnswers ==
    /\ dest.sink # "idle"
    /\ \E ok \in BOOLEAN : DestDoes(W!SinkAnswers(dest, ok))

(* controller.error() of the sink. *)
SinkErrors ==
    /\ dest.state = "writable"
    /\ DestDoes(W!ControllerError(dest))

(* The program uses a stream that is not locked, through its own methods   *)
(* or a writer that it releases again.                                     *)
Program(act) ==
    /\ act \in ProgramActs \ program
    /\ program' = program \cup {act}
    /\ UNCHANGED enqueued

ProgramWrites ==
    /\ ~dest.writer /\ Program("write")
    /\ Become(WithDest(Now, W!WriterRelease(
           W!WriterWrite(W!AcquireWriter(dest), UserChunk))))

ProgramCloses ==
    /\ ~dest.writer /\ ~W!CloseQueuedOrInFlight(dest) /\ Program("close")
    /\ Become(WithDest(Now, W!StreamClose(dest)))

ProgramAborts ==
    /\ ~dest.writer /\ Program("abort")
    /\ Become(WithDest(Now, W!StreamAbort(dest)))

ProgramCancels ==
    /\ ~source.reader /\ Program("cancel")
    /\ Become(WithSource(Now, R!StreamCancel(source)))

Next ==
    \/ RunJob \/ PipeStreams \/ SignalAborts
    \/ SourceEnqueues \/ SourceCloses \/ SourceErrors
    \/ SourceStarts \/ SourcePulled \/ SourceCancelled
    \/ SinkAnswers \/ SinkErrors
    \/ ProgramWrites \/ ProgramCloses \/ ProgramAborts \/ ProgramCancels

(* Microtasks run until the queue is empty; an algorithm of the sink, and  *)
(* the cancel algorithm of the source, settle the promise they return.     *)
(* Nothing else has to happen: a source may enqueue nothing for ever.      *)
(* These are WF_vars(RunJob), WF_vars(SinkAnswers) and                     *)
(* WF_vars(SourceCancelled), with the guard for ENABLED and the one thing  *)
(* only that action does for the action: only RunJob takes a job from the  *)
(* queue, and an algorithm that has not answered is followed by another,   *)
(* or by none, only when it answers.                                       *)
JobsRun ==
    []<>(jobs = <<>>) \/ []<><<~IsPrefix(jobs, jobs')>>_vars
SinkKeepsAnswering ==
    []<>(dest.sink = "idle")
      \/ []<><<dest.sink # "idle"
                 /\ <<dest.sink, dest.calls>> # <<dest'.sink, dest'.calls>> >>_vars
CancelAnswers ==
    []<>(~source.cancelling) \/ []<><<source.cancelling /\ ~source'.cancelling>>_vars

Spec == Init /\ [][Next]_vars /\ JobsRun /\ SinkKeepsAnswering /\ CancelAnswers

-----------------------------------------------------------------------------
(* Properties.                                                             *)

(* What the sink was called with, without what is not the pipe's.          *)
PipedTo(w) ==
    LET piped[n \in 0..Len(w.calls)] ==
          IF n = 0 THEN <<>>
          ELSE IF w.calls[n] \in ToSet(Chunks) THEN Append(piped[n - 1], w.calls[n])
               ELSE piped[n - 1]
    IN  piped[Len(w.calls)]

(* No assert() about the state of either stream fails and no cleared       *)
(* algorithm is called, whatever the pipe is to prevent.                   *)
StreamAsserts == source.asserts /\ dest.asserts

(* No assert() of the streams or the pipe fails:                           *)
(* setPromiseIsHandledToTrue calls it "an assertion failure, which         *)
(* shouldn't happen".  They guard the hand-over of every promise between   *)
(* writes, closes and aborts of the sink and the end of the pipe.          *)
NoAssertionFails == StreamAsserts /\ pipe.asserts

(* The sink is called for one thing at a time, the program's chunks and    *)
(* the pipe's, and for nothing after close or abort, whatever error or     *)
(* abort comes between two calls.                                          *)
SinkProtocol ==
    /\ ~dest.overlap
    /\ \A i \in 1..Len(dest.calls) :
          dest.calls[i] \in {"close", "abort"} => i = Len(dest.calls)

(* The pipe is a Delivery: it passes on what the source enqueued in order  *)
(* and without a gap, calls the sink with none of it after it has settled  *)
(* or the sink was told to close, and succeeds only when nothing is left   *)
(* over and the sink is closing or closed, by the pipe or the program.     *)
D == INSTANCE Delivery WITH
       offered   <- IF "cancel" \in program THEN Len(PipedTo(dest)) ELSE enqueued,
       delivered <- PipedTo(dest),
       sink      <- CASE dest.state = "closed" \/ W!CloseQueuedOrInFlight(dest)
                           \/ "close" \in program -> "closed"
                      [] dest.state = "writable" /\ ~W!CloseQueuedOrInFlight(dest)
                           /\ "close" \notin program -> "open"
                      [] OTHER -> "failed",
       result    <- pipe.outcome
Delivers == D!Spec

(* A pipe that has settled has let go of both streams, and unless the      *)
(* program had its hand in it both have ended: the error of one has been   *)
(* passed on to the other, and no write of the pipe is still under way in  *)
(* a stream that takes writes.                                             *)
SettledIsOver ==
    /\ (pipe.outcome # "none") <=> (pipe.lock = "released")
    /\ pipe.outcome # "none" =>
          /\ source.state # "readable"
          /\ dest.state # "writable" \/ W!CloseQueuedOrInFlight(dest)
          /\ dest.inFlightWrite \in ToSet(Chunks) => dest.state = "erroring"

(* Backpressure reaches the source: at most a high water mark of the       *)
(* pipe's chunks is queued in the sink, though the pipe reads and writes   *)
(* in different turns.                                                     *)
Backpressure ==
    Cardinality({i \in DOMAIN dest.queue : dest.queue[i] \in ToSet(Chunks)})
      <= WritableHWM

(* Something has happened that ends the pipe.  With preventClose nothing   *)
(* in the code ends it when its source closes.                             *)
MustEnd ==
    /\ pipe.lock = "held"
    /\ \/ source.state = "errored" \/ dest.state # "writable" \/ pipe.signalled
       \/ "preventClose" \notin pipe.options
            /\ (source.state = "closed" \/ source.closeRequested)

(* The pipe then settles, if the sink and the source's cancel answer: no   *)
(* wait for a write, an action or the writer to be ready is left behind.   *)
PipeSettles == MustEnd ~> pipe.outcome # "none"
=============================================================================
