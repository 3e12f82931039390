---------------------------- MODULE PipeToProofs ----------------------------
(***************************************************************************)
(* The streams of a pipe, for any chunks and high water marks, whatever    *)
(* the pipe is to prevent and whatever the program does.                   *)
(***************************************************************************)
EXTENDS PipeTo, TLAPS, WellFoundedInduction, FiniteSetTheorems

\* What is written, by the pipe and the program.
AllChunks == ToSet(Chunks) \cup {UserChunk}
Endings == {"close", "abort"}

-----------------------------------------------------------------------------
(* The writable stream.                                                    *)

\* The fields of the record, but for the promises and what they tell.
Shape(w) ==
  /\ DOMAIN w = DOMAIN W!NewWritable
  /\ w.state \in {"writable", "erroring", "errored", "closed"}
  /\ w.queue \in Seq(AllChunks \cup {CloseSentinel}) /\ w.writeRequests \in Seq(AllChunks)
  /\ w.inFlightWrite \in AllChunks \cup {NoWrite}
  /\ w.started \in BOOLEAN /\ w.closeRequest \in BOOLEAN /\ w.inFlightClose \in BOOLEAN
  /\ w.storedError \in BOOLEAN /\ w.backpressure \in BOOLEAN /\ w.writer \in BOOLEAN
  /\ w.hasAlgorithms \in BOOLEAN
  /\ w.pendingAbort \in {"none", "late", "first"}
  /\ w.sink \in {"start", "idle", "write", "close", "abort"}
  /\ w.calls \in Seq(AllChunks \cup Endings)

Open(w) == w.state \in {"writable", "erroring"}

\* The sink is at work on what is in flight, or starts, or aborts.
Sink(w) ==
  /\ w.sink = "start" <=> ~ w.started
  /\ w.sink = "write" <=> w.inFlightWrite # NoWrite
  /\ w.sink = "close" <=> w.inFlightClose
  /\ w.sink = "abort" => w.state = "errored"
  /\ w.sink \in {"start", "write", "close"} => Open(w)

\* The algorithms are cleared when the sink is called for the last time.
Called(w) ==
  /\ w.asserts = TRUE /\ w.overlap = FALSE
  /\ \A i \in 1 .. Len(w.calls) :
       w.calls[i] \in Endings => i = Len(w.calls) /\ ~ w.hasAlgorithms

\* How many entries of the queue have no request: the write in flight, the sentinel.
InFlight(w) == IF w.inFlightWrite # NoWrite THEN 1 ELSE 0
Closing(w) == IF w.closeRequest THEN 1 ELSE 0

\* The queue holds the chunk in flight, one chunk for each request, and the sentinel
\* behind them; while the close is in flight it is empty.
Queued(w) ==
  Open(w) =>
    /\ Len(w.queue) = Len(w.writeRequests) + InFlight(w) + Closing(w)
    /\ \A i \in 1 .. Len(w.queue) :
         w.queue[i] = CloseSentinel <=> w.closeRequest /\ i = Len(w.queue)
    /\ w.inFlightClose => w.queue = <<>>

\* What may be called still: everything while the stream is writable and not closing,
\* and abort when that is what the stream waits for.
Callable(w) ==
  /\ w.state = "writable" =>
       /\ w.pendingAbort = "none" /\ ~ w.storedError
       /\ ~ w.inFlightClose => w.hasAlgorithms
  /\ w.pendingAbort = "first" /\ ~ w.inFlightClose => w.hasAlgorithms

\* A writer that is told of backpressure waits.
Waits(w) ==
  w.writer /\ w.state = "writable" /\ ~ W!CloseQueuedOrInFlight(w) /\ w.backpressure
    => w.ready = "pending"

\* The fields that settling a promise leaves alone.
Alike(v, w) ==
  /\ DOMAIN v = DOMAIN w /\ v.state = w.state /\ v.started = w.started
  /\ v.queue = w.queue /\ v.writeRequests = w.writeRequests
  /\ v.inFlightWrite = w.inFlightWrite /\ v.inFlightClose = w.inFlightClose
  /\ v.closeRequest = w.closeRequest /\ v.pendingAbort = w.pendingAbort
  /\ v.storedError = w.storedError /\ v.backpressure = w.backpressure
  /\ v.writer = w.writer /\ v.hasAlgorithms = w.hasAlgorithms /\ v.sink = w.sink
  /\ v.calls = w.calls /\ v.overlap = w.overlap /\ v.asserts = w.asserts

WInv(w) == Shape(w) /\ Sink(w) /\ Called(w) /\ Queued(w) /\ Callable(w) /\ Waits(w)

-----------------------------------------------------------------------------
(* The readable stream.                                                    *)

RInv(r) ==
  /\ DOMAIN r = DOMAIN R!NewReadable
  /\ r.state \in {"readable", "errored", "closed"}
  /\ r.reader \in BOOLEAN /\ r.asserts = TRUE
  /\ r.pulling \in BOOLEAN /\ r.pullAgain \in BOOLEAN /\ r.started \in BOOLEAN
  /\ r.pullAgain => r.pulling
  /\ r.pulling => r.started

\* A pipe that is under way has locked both streams, and no other has; one that has
\* settled has let go of them.
Locks(p, w, r) ==
  /\ p.lock \in {"idle", "held", "released"}
  /\ w.writer <=> p.lock = "held"
  /\ r.reader <=> p.lock = "held"
  /\ p.outcome # "none" <=> p.lock = "released"

Inv ==
  /\ WInv(dest) /\ RInv(source)
  /\ DOMAIN pipe = DOMAIN IdlePipe
  /\ Locks(pipe, dest, source)

-----------------------------------------------------------------------------
(* Promises settle.                                                        *)

\* The fields of a writable stream.
LEMMA Fields ==
  DOMAIN W!NewWritable =
    {"state", "started", "queue", "writeRequests", "inFlightWrite", "closeRequest",
     "inFlightClose", "pendingAbort", "storedError", "backpressure", "writer", "ready",
     "closed", "hasAlgorithms", "sink", "calls", "overlap", "asserts", "news"}
  BY DEF W!NewWritable

\* News changes nothing else.
LEMMA TellAlike ==
  ASSUME NEW w, DOMAIN w = DOMAIN W!NewWritable, NEW e
  PROVE  Alike(W!Tell(w, e), w) /\ W!Tell(w, e).ready = w.ready
  BY Fields DEF Alike, W!Tell

\* A promise that settles changes nothing but itself and the news.
LEMMA SettleAlike ==
  ASSUME NEW w, DOMAIN w = DOMAIN W!NewWritable, NEW how
  PROVE  /\ Alike(W!Settle(w, "ready", how), w) /\ Alike(W!Settle(w, "closed", how), w)
         /\ W!Settle(w, "closed", how).ready = w.ready
  BY Fields DEF Alike, W!Settle, W!Tell

\* The same of the ready promise that is replaced by a rejected one.
LEMMA EnsureAlike ==
  ASSUME NEW w, DOMAIN w = DOMAIN W!NewWritable
  PROVE  Alike(W!EnsureReadyRejected(w), w)
  BY Fields, SettleAlike DEF Alike, W!EnsureReadyRejected

\* What holds of a stream holds of one that differs in its promises; Waits needs ready to
\* be as it was.
LEMMA AlikeInv ==
  ASSUME NEW v, NEW w, Alike(v, w)
  PROVE  /\ Shape(w) => Shape(v)
         /\ Sink(w) => Sink(v)
         /\ Called(w) => Called(v)
         /\ Queued(w) => Queued(v)
         /\ Callable(w) => Callable(v)
         /\ Waits(w) /\ v.ready = w.ready => Waits(v)
  BY DEF Alike, Shape, Sink, Called, Queued, InFlight, Closing, Callable, Waits, Open,
         W!CloseQueuedOrInFlight

-----------------------------------------------------------------------------
(* The stream fails.                                                       *)

Failed(w) == Shape(w) /\ Sink(w) /\ Called(w) /\ Callable(w) /\ w.state = "errored"

\* An errored stream rejects the pending close and the closed promise.
LEMMA RejectCloseInv ==
  ASSUME NEW w, Failed(w)
  PROVE  LET v == W!RejectCloseAndClosed(w)
         IN  WInv(v) /\ v.writer = w.writer /\ v.state = "errored"
<1> DEFINE a == W!Assert_(w, w.state = "errored" /\ (w.closeRequest => ~ w.inFlightClose))
           b == W!Tell([a EXCEPT !.closeRequest = FALSE], <<"close", "rejected">>)
           c == IF a.closeRequest THEN b ELSE a
<1>1. Failed(a) /\ a.writer = w.writer
  BY Fields DEF Failed, W!Assert_, Shape, Sink, Called, Callable, Open
<1>2. Failed(b) /\ b.writer = w.writer
  BY <1>1, Fields DEF Failed, W!Tell, Shape, Sink, Called, Callable, Open
<1> HIDE DEF a, b
<1>3. Failed(c) /\ c.writer = w.writer
  BY <1>1, <1>2
<1>4. W!RejectCloseAndClosed(w) = W!Settle(c, "closed", "rejected")
  BY DEF W!RejectCloseAndClosed, a, b
<1> HIDE DEF c
<1>5. Alike(W!Settle(c, "closed", "rejected"), c)
  BY <1>3, SettleAlike DEF Failed, Shape
<1>6. Failed(W!RejectCloseAndClosed(w)) /\ W!RejectCloseAndClosed(w).writer = w.writer
  BY <1>3, <1>4, <1>5, AlikeInv DEF Failed, Alike
<1> QED
  BY <1>6 DEF Failed, WInv, Queued, Waits, Open

\* Nothing is in flight in a stream that is about to fail for good.
Failing(w) ==
  /\ Shape(w) /\ Sink(w) /\ Called(w) /\ w.state = "erroring" /\ w.started
  /\ w.inFlightWrite = NoWrite /\ ~ w.inFlightClose
  /\ w.pendingAbort = "first" => w.hasAlgorithms

\* The stream errors for good and rejects every request, or calls abort of the sink, the
\* last call.
LEMMA FinishErroringInv ==
  ASSUME NEW w, Failing(w)
  PROVE  LET v == W!FinishErroring(w)
         IN  WInv(v) /\ v.writer = w.writer /\ v.state = "errored"
<1> DEFINE rejected == [i \in 1 .. Len(w.writeRequests) |-> <<"write", w.writeRequests[i]>>]
           a == W!Assert_(w, w.state = "erroring" /\ ~ W!HasOperationInFlight(w))
           b == [a EXCEPT !.state = "errored", !.queue = <<>>, !.writeRequests = <<>>,
                          !.news = @ \o rejected, !.pendingAbort = "none"]
<1>1. a.hasAlgorithms = w.hasAlgorithms /\ a.writer = w.writer /\ Failing(a)
  BY Fields DEF Failing, W!Assert_, Shape, Sink, Called, Open, W!HasOperationInFlight
<1> HIDE DEF a
<1>2. b.hasAlgorithms = w.hasAlgorithms /\ b.writer = w.writer /\ Failed(b) /\ b.sink = "idle"
      /\ b.pendingAbort = "none"
  <2>1. /\ Alike([b EXCEPT !.state = a.state, !.queue = a.queue,
                           !.writeRequests = a.writeRequests,
                           !.pendingAbort = a.pendingAbort], a)
        /\ DOMAIN b = DOMAIN a /\ b.state = "errored" /\ b.queue = <<>>
        /\ b.writeRequests = <<>> /\ b.pendingAbort = "none"
    BY <1>1, Fields DEF Failing, Shape, Alike
  <2> HIDE DEF b
  <2>3. /\ b.hasAlgorithms = a.hasAlgorithms /\ b.writer = a.writer /\ b.sink = a.sink
        /\ b.calls = a.calls /\ b.started = a.started /\ b.asserts = a.asserts
        /\ b.overlap = a.overlap /\ b.inFlightWrite = a.inFlightWrite
        /\ b.inFlightClose = a.inFlightClose /\ b.closeRequest = a.closeRequest
        /\ b.storedError = a.storedError /\ b.backpressure = a.backpressure
    BY <1>1, <2>1, Fields, ZenonT(60) DEF Failing, Shape, Alike
  <2>4. Shape(b)
    BY <1>1, <2>1, <2>3 DEF Failing, Shape
  <2> QED
    BY <1>1, <2>1, <2>3, <2>4 DEF Failing, Failed, Shape, Sink, Called, Callable, Open
<1> HIDE DEF b
<1>3. CASE w.pendingAbort = "none"
  <2>1. W!FinishErroring(w) = W!RejectCloseAndClosed(b)
    BY <1>3 DEF W!FinishErroring, a, b
  <2> QED
    BY <1>2, <2>1, RejectCloseInv
<1>4. CASE w.pendingAbort = "late"
  <2>1. W!FinishErroring(w) = W!RejectCloseAndClosed(W!Tell(b, <<"abort", "rejected">>))
    BY <1>4 DEF W!FinishErroring, a, b
  <2>2. Alike(W!Tell(b, <<"abort", "rejected">>), b)
    BY <1>2, TellAlike DEF Failed, Shape
  <2>3. Failed(W!Tell(b, <<"abort", "rejected">>))
    BY <1>2, <2>2, AlikeInv DEF Failed, Alike
  <2> QED
    BY <1>2, <2>1, <2>2, <2>3, RejectCloseInv DEF Alike
<1>5. CASE w.pendingAbort = "first"
  <2> DEFINE c == W!CallSink(b, "abort", "abort")
             d == [c EXCEPT !.hasAlgorithms = FALSE]
  <2>1. W!FinishErroring(w) = d
    BY <1>5 DEF W!FinishErroring, a, b
  <2>2. b.hasAlgorithms
    BY <1>2, <1>5 DEF Failing
  <2>3. /\ DOMAIN d = DOMAIN b /\ d.calls = Append(b.calls, "abort") /\ d.sink = "abort"
        /\ d.asserts = TRUE /\ d.overlap = FALSE /\ d.hasAlgorithms = FALSE
        /\ d.state = "errored" /\ d.writer = b.writer
    BY <1>2, <2>2, Fields DEF W!CallSink, W!Assert_, Failed, Shape, Called
  <2>4. /\ d.started = b.started /\ d.inFlightWrite = b.inFlightWrite
        /\ d.inFlightClose = b.inFlightClose /\ d.closeRequest = b.closeRequest
        /\ d.storedError = b.storedError /\ d.backpressure = b.backpressure
        /\ d.queue = b.queue /\ d.writeRequests = b.writeRequests
        /\ d.pendingAbort = b.pendingAbort
    BY <1>2, Fields DEF W!CallSink, W!Assert_, Failed, Shape
  <2> HIDE DEF c, d
  <2>5. d.calls \in Seq(AllChunks \cup Endings)
    BY <1>2, <2>3 DEF Failed, Shape, Endings
  <2>6. Shape(d)
    BY <1>2, <2>3, <2>4, <2>5 DEF Failed, Shape
  <2>7. Sink(d) /\ Callable(d)
    BY <1>1, <1>2, <2>3, <2>4 DEF Failing, Failed, Shape, Sink, Callable, Open
  <2>8. Called(d)
    BY <1>2, <2>2, <2>3 DEF Failed, Shape, Called
  <2> QED
    BY <1>2, <2>1, <2>3, <2>6, <2>7, <2>8 DEF WInv, Queued, Waits, Open
<1> QED
  BY <1>3, <1>4, <1>5 DEF Failing, Shape

\* A stream that is to fail, when what is in flight has been answered.
Erring(w) ==
  /\ Shape(w) /\ Sink(w) /\ Called(w) /\ w.state = "writable" /\ ~ w.storedError
  /\ w.pendingAbort = "first" /\ ~ w.inFlightClose => w.hasAlgorithms
  /\ Queued(w) \/ (w.started /\ w.inFlightWrite = NoWrite /\ ~ w.inFlightClose)

\* An error waits for what is in flight, and otherwise takes effect at once.
LEMMA StartErroringInv ==
  ASSUME NEW w, Erring(w)
  PROVE  LET v == W!StartErroring(w) IN WInv(v) /\ v.writer = w.writer
<1> DEFINE a == [W!Assert_(w, w.state = "writable" /\ ~ w.storedError)
                 EXCEPT !.state = "erroring", !.storedError = TRUE]
           b == W!EnsureReadyRejected(a)
<1>1. /\ DOMAIN a = DOMAIN w /\ a.state = "erroring" /\ a.storedError = TRUE /\ a.asserts = TRUE
      /\ a.queue = w.queue /\ a.writeRequests = w.writeRequests /\ a.calls = w.calls
      /\ a.started = w.started /\ a.sink = w.sink /\ a.inFlightWrite = w.inFlightWrite
      /\ a.inFlightClose = w.inFlightClose /\ a.closeRequest = w.closeRequest
      /\ a.pendingAbort = w.pendingAbort /\ a.hasAlgorithms = w.hasAlgorithms
      /\ a.backpressure = w.backpressure /\ a.writer = w.writer /\ a.overlap = w.overlap
  BY Fields DEF Erring, Shape, Called, W!Assert_
<1> HIDE DEF a
<1>2. /\ Shape(a) /\ Sink(a) /\ Called(a) /\ a.writer = w.writer
      /\ a.pendingAbort = "first" /\ ~ a.inFlightClose => a.hasAlgorithms
      /\ Queued(a) \/ (a.started /\ a.inFlightWrite = NoWrite /\ ~ a.inFlightClose)
  BY <1>1, ZenonT(60) DEF Erring, Shape, Sink, Called, Queued, InFlight, Closing, Open
<1>3. Alike(b, a)
  BY <1>2, EnsureAlike DEF Shape
<1>4. W!StartErroring(w) = IF ~ W!HasOperationInFlight(b) /\ b.started
                           THEN W!FinishErroring(b) ELSE b
  BY DEF W!StartErroring, a, b
<1> HIDE DEF b
<1>5. /\ Shape(b) /\ Sink(b) /\ Called(b) /\ b.writer = w.writer /\ b.state = "erroring"
      /\ b.pendingAbort = "first" /\ ~ b.inFlightClose => b.hasAlgorithms
      /\ Queued(b) \/ (b.started /\ b.inFlightWrite = NoWrite /\ ~ b.inFlightClose)
  BY <1>1, <1>2, <1>3, AlikeInv DEF Alike
<1>6. CASE ~ W!HasOperationInFlight(b) /\ b.started
  <2>1. Failing(b)
    BY <1>5, <1>6 DEF Failing, W!HasOperationInFlight
  <2> QED
    BY <1>4, <1>5, <1>6, <2>1, FinishErroringInv
<1>7. CASE ~ (~ W!HasOperationInFlight(b) /\ b.started)
  <2>1. Queued(b)
    BY <1>5, <1>7 DEF W!HasOperationInFlight
  <2> QED
    BY <1>4, <1>5, <1>7, <2>1 DEF WInv, Callable, Waits
<1> QED
  BY <1>6, <1>7

\* A rejection of the sink errors a writable stream and finishes an erroring one.
LEMMA RejectionInv ==
  ASSUME NEW w, Erring(w) \/ Failing(w)
  PROVE  LET v == W!DealWithRejection(w) IN WInv(v) /\ v.writer = w.writer
  BY StartErroringInv, FinishErroringInv DEF W!DealWithRejection, Erring, Failing

\* error() of the controller clears the algorithms of a stream that waits for no abort.
LEMMA ControllerErrorInv ==
  ASSUME NEW w, WInv(w), w.state = "writable"
  PROVE  LET v == W!ControllerError(w) IN WInv(v) /\ v.writer = w.writer
<1> DEFINE a == [w EXCEPT !.hasAlgorithms = FALSE]
<1>1. Erring(a) /\ a.writer = w.writer
  BY Fields DEF WInv, Erring, Shape, Sink, Called, Queued, InFlight, Closing, Callable, Open
<1> QED
  BY <1>1, StartErroringInv DEF W!ControllerError

-----------------------------------------------------------------------------
(* Backpressure, and the queue advances.                                   *)

\* Backpressure that begins makes the writer wait, and one that ends finds it waiting.
LEMMA UpdateInv ==
  ASSUME NEW w, WInv(w)
  PROVE  LET v == W!UpdateIfOpen(w)
         IN  /\ WInv(v) /\ v.writer = w.writer /\ v.state = w.state
             /\ v.inFlightWrite = w.inFlightWrite /\ v.inFlightClose = w.inFlightClose
<1> DEFINE b == W!HasBackpressure(w)
           a == [W!Assert_(w, w.state = "writable" /\ ~ W!CloseQueuedOrInFlight(w))
                 EXCEPT !.backpressure = b]
           c == W!Assert_(a, a.ready = "pending")
<1>1. CASE ~ (w.state = "writable" /\ ~ W!CloseQueuedOrInFlight(w))
  BY <1>1 DEF W!UpdateIfOpen
<1>2. CASE w.state = "writable" /\ ~ W!CloseQueuedOrInFlight(w)
  <2>1. b \in BOOLEAN
    BY DEF W!HasBackpressure
  <2>2. W!UpdateIfOpen(w) = IF ~ w.writer \/ b = w.backpressure THEN a
                            ELSE IF b THEN [a EXCEPT !.ready = "pending"]
                                 ELSE W!Settle(c, "ready", "resolved")
    BY <1>2 DEF W!UpdateIfOpen, W!UpdateBackpressure
  <2> HIDE DEF b
  <2>3. /\ DOMAIN a = DOMAIN w /\ a.ready = w.ready /\ a.backpressure = b
        /\ a.state = w.state /\ a.started = w.started
        /\ a.queue = w.queue /\ a.writeRequests = w.writeRequests
        /\ a.inFlightWrite = w.inFlightWrite /\ a.inFlightClose = w.inFlightClose
        /\ a.closeRequest = w.closeRequest /\ a.pendingAbort = w.pendingAbort
        /\ a.storedError = w.storedError /\ a.writer = w.writer
        /\ a.hasAlgorithms = w.hasAlgorithms /\ a.sink = w.sink
        /\ a.calls = w.calls /\ a.overlap = w.overlap /\ a.asserts = w.asserts
    BY <1>2, Fields DEF WInv, Shape, Called, W!Assert_
  <2> HIDE DEF a
  <2>4. Shape(a) /\ Sink(a) /\ Called(a) /\ Queued(a) /\ Callable(a)
    <3>1. Shape(a)
      BY <2>1, <2>3 DEF WInv, Shape
    <3>2. Sink(a) /\ Called(a)
      BY <2>3 DEF WInv, Sink, Called, Open
    <3>3. Queued(a)
      BY <2>3 DEF WInv, Queued, InFlight, Closing, Open
    <3>4. Callable(a)
      BY <2>3 DEF WInv, Callable
    <3> QED
      BY <3>1, <3>2, <3>3, <3>4
  <2>5. CASE ~ w.writer \/ b = w.backpressure
    BY <1>2, <2>2, <2>3, <2>4, <2>5 DEF WInv, Waits, W!CloseQueuedOrInFlight
  <2>6. CASE w.writer /\ b # w.backpressure /\ b
    <3> DEFINE d == [a EXCEPT !.ready = "pending"]
    <3>1. Alike(d, a) /\ d.ready = "pending"
      BY <2>4, Fields DEF Shape, Alike
    <3> HIDE DEF d
    <3>2. WInv(d)
      BY <2>4, <3>1, AlikeInv DEF WInv, Waits
    <3> QED
      BY <2>2, <2>3, <2>6, <3>1, <3>2 DEF d, Alike
  <2>7. CASE w.writer /\ b # w.backpressure /\ ~ b
    <3>1. w.ready = "pending"
      BY <1>2, <2>1, <2>7 DEF WInv, Waits, Shape
    <3>2. Alike(c, a)
      BY <2>3, <2>4, <3>1, Fields DEF Shape, Called, Alike, W!Assert_
    <3> HIDE DEF c
    <3>3. Alike(W!Settle(c, "ready", "resolved"), c)
      BY <2>4, <3>2, SettleAlike DEF Shape, Alike
    <3> DEFINE d == W!Settle(c, "ready", "resolved")
    <3> HIDE DEF d
    <3>4. Alike(d, a)
      BY <3>2, <3>3 DEF Alike, d
    <3>5. WInv(d)
      BY <2>1, <2>3, <2>4, <2>7, <3>4, AlikeInv DEF WInv, Waits, Alike
    <3> QED
      BY <2>2, <2>3, <2>7, <3>4, <3>5 DEF d, Alike
  <2> QED
    BY <2>1, <2>5, <2>6, <2>7
<1> QED
  BY <1>1, <1>2

\* An empty sequence.
LEMMA EmptyLen ==
  ASSUME NEW S, NEW q \in Seq(S), Len(q) = 0
  PROVE  q = <<>>
  OBVIOUS

\* The rest of a sequence of one.
LEMMA TailOfOne ==
  ASSUME NEW S, NEW q \in Seq(S), Len(q) = 1
  PROVE  Tail(q) = <<>>
<1>1. q # <<>>
  OBVIOUS
<1>2. Tail(q) \in Seq(S) /\ Len(Tail(q)) = 0
  BY <1>1
<1> QED
  BY <1>2, EmptyLen

\* The stream has started and waits for no write.
Idle(w) == WInv(w) /\ w.started /\ w.inFlightWrite = NoWrite /\ Open(w)

\* The parts of the equation of Queued, case by case.
LEMMA Counts ==
  ASSUME NEW w
  PROVE  /\ InFlight(w) \in Nat /\ Closing(w) \in Nat
         /\ w.inFlightWrite = NoWrite => InFlight(w) = 0
         /\ w.inFlightWrite # NoWrite => InFlight(w) = 1
         /\ ~ w.closeRequest => Closing(w) = 0
         /\ w.closeRequest => Closing(w) = 1
  BY DEF InFlight, Closing

\* At the sentinel no request is left and the queue is empty: close is the last call.
LEMMA ProcessCloseInv ==
  ASSUME NEW w, Idle(w), w.state = "writable", w.queue # <<>>, Head(w.queue) = CloseSentinel
  PROVE  LET v == W!ProcessClose(w) IN WInv(v) /\ v.writer = w.writer
<1> DEFINE a == [W!Assert_(w, w.closeRequest /\ ~ w.inFlightClose /\ Len(w.queue) = 1)
                 EXCEPT !.inFlightClose = TRUE, !.closeRequest = FALSE, !.queue = Tail(@)]
           b == W!CallSink(a, "close", "close")
           d == [b EXCEPT !.hasAlgorithms = FALSE]
<1>1. w.queue[1] = CloseSentinel /\ 1 \in 1 .. Len(w.queue)
  BY DEF Idle, WInv, Shape
<1>2. /\ w.closeRequest /\ Len(w.queue) = 1 /\ ~ w.inFlightClose /\ Len(w.writeRequests) = 0
      /\ Tail(w.queue) = <<>> /\ w.sink = "idle" /\ w.hasAlgorithms
  <2>1. w.closeRequest /\ Len(w.queue) = 1 /\ ~ w.inFlightClose
    BY <1>1 DEF Idle, WInv, Queued
  <2>2. Len(w.queue) = Len(w.writeRequests) + 1 /\ Len(w.writeRequests) \in Nat
    <3>1. InFlight(w) = 0 /\ Closing(w) = 1
      BY <2>1, Counts DEF Idle
    <3>2. Len(w.writeRequests) \in Nat
      BY DEF Idle, WInv, Shape
    <3>3. Len(w.queue) = Len(w.writeRequests) + InFlight(w) + Closing(w)
      BY DEF Idle, WInv, Queued
    <3> QED
      BY <3>1, <3>2, <3>3
  <2>3. w.queue \in Seq(AllChunks \cup {CloseSentinel})
    BY DEF Idle, WInv, Shape
  <2>4. Tail(w.queue) = <<>>
    BY <2>1, <2>3, TailOfOne
  <2> QED
    BY <2>1, <2>2, <2>4 DEF Idle, WInv, Shape, Sink, Callable
<1>3. /\ DOMAIN d = DOMAIN w /\ d.calls = Append(w.calls, "close") /\ d.sink = "close"
      /\ d.asserts = TRUE /\ d.overlap = FALSE /\ d.hasAlgorithms = FALSE
      /\ d.inFlightClose = TRUE /\ d.closeRequest = FALSE /\ d.queue = <<>>
      /\ d.state = w.state /\ d.writer = w.writer /\ d.started = w.started
      /\ d.writeRequests = w.writeRequests /\ d.inFlightWrite = w.inFlightWrite
      /\ d.pendingAbort = w.pendingAbort /\ d.storedError = w.storedError
      /\ d.backpressure = w.backpressure
  BY <1>2, Fields DEF Idle, WInv, Shape, Called, W!CallSink, W!Assert_
<1>4. W!ProcessClose(w) = d
  BY DEF W!ProcessClose
<1> HIDE DEF a, b, d
<1>5. d.calls \in Seq(AllChunks \cup Endings)
  BY <1>3 DEF Idle, WInv, Shape, Endings
<1>6. Shape(d)
  <2>1. d.queue \in Seq(AllChunks \cup {CloseSentinel})
    BY <1>3
  <2> QED
    BY <1>3, <1>5, <2>1 DEF Idle, WInv, Shape
<1>9. Sink(d)
  BY <1>3 DEF Idle, WInv, Shape, Sink, Open
<1>7. Called(d)
  BY <1>2, <1>3 DEF Idle, WInv, Shape, Called
<1>8. Queued(d)
  <2>1. Len(d.queue) = 0 /\ Len(d.writeRequests) = 0 /\ InFlight(d) = 0 /\ Closing(d) = 0
    BY <1>2, <1>3, Counts DEF Idle
  <2> QED
    BY <1>3, <2>1 DEF Queued
<1>10. Callable(d) /\ Waits(d)
  BY <1>3 DEF Idle, WInv, Shape, Callable, Waits, W!CloseQueuedOrInFlight
<1> QED
  BY <1>3, <1>4, <1>6, <1>7, <1>8, <1>9, <1>10 DEF WInv

\* A chunk at the head of the queue has a request, and the algorithm it needs is there.
LEMMA ProcessWriteInv ==
  ASSUME NEW w, Idle(w), w.state = "writable", w.queue # <<>>, Head(w.queue) # CloseSentinel
  PROVE  LET v == W!ProcessWrite(w) IN WInv(v) /\ v.writer = w.writer
<1> DEFINE h == Head(w.queue)
           a == [W!Assert_(w, w.writeRequests # <<>>)
                 EXCEPT !.inFlightWrite = Head(w.writeRequests), !.writeRequests = Tail(@)]
           d == W!CallSink(a, "write", h)
<1>1. /\ w.queue \in Seq(AllChunks \cup {CloseSentinel}) /\ w.writeRequests \in Seq(AllChunks)
      /\ w.calls \in Seq(AllChunks \cup Endings)
  BY DEF Idle, WInv, Shape
<1>2. /\ h = w.queue[1] /\ 1 \in 1 .. Len(w.queue) /\ Len(w.queue) \in Nat \ {0}
      /\ h \in AllChunks /\ Len(w.writeRequests) \in Nat
  BY <1>1
<1>3. ~ w.inFlightClose /\ w.hasAlgorithms /\ w.sink = "idle"
  BY DEF Idle, WInv, Shape, Queued, Callable, Sink
<1>4. w.writeRequests # <<>>
  <2>1. \/ ~ w.closeRequest /\ Len(w.queue) = Len(w.writeRequests)
        \/ w.closeRequest /\ Len(w.queue) = Len(w.writeRequests) + 1
    BY <1>2, Counts DEF Idle, WInv, Queued
  <2>2. ~ (w.closeRequest /\ 1 = Len(w.queue))
    BY <1>2 DEF Idle, WInv, Queued
  <2>3. SUFFICES ASSUME w.writeRequests = <<>>
                 PROVE  FALSE
    OBVIOUS
  <2>4. Len(w.writeRequests) = 0
    BY <2>3
  <2> QED
    BY <1>2, <2>1, <2>2, <2>4
<1>5. /\ Head(w.writeRequests) \in AllChunks /\ Tail(w.writeRequests) \in Seq(AllChunks)
      /\ Len(Tail(w.writeRequests)) = Len(w.writeRequests) - 1
  BY <1>1, <1>4
<1>6. h \notin Endings /\ Head(w.writeRequests) # NoWrite
  BY <1>2, <1>5, ChunksAssumption DEF AllChunks, Endings
<1>7. /\ DOMAIN d = DOMAIN w /\ d.calls = Append(w.calls, h) /\ d.sink = "write"
      /\ d.asserts = TRUE /\ d.overlap = FALSE /\ d.hasAlgorithms = w.hasAlgorithms
      /\ d.inFlightClose = w.inFlightClose /\ d.closeRequest = w.closeRequest
      /\ d.queue = w.queue /\ d.state = w.state /\ d.writer = w.writer
      /\ d.started = w.started /\ d.writeRequests = Tail(w.writeRequests)
      /\ d.inFlightWrite = Head(w.writeRequests) /\ d.pendingAbort = w.pendingAbort
      /\ d.storedError = w.storedError /\ d.backpressure = w.backpressure
      /\ d.ready = w.ready
  BY <1>3, <1>4, Fields, ZenonT(60) DEF Idle, WInv, Shape, Called, W!CallSink, W!Assert_
<1>8. W!ProcessWrite(w) = d
  BY DEF W!ProcessWrite
<1> HIDE DEF h, a, d
<1>9. d.calls \in Seq(AllChunks \cup Endings)
  BY <1>1, <1>2, <1>7
<1>10. Shape(d)
  BY <1>5, <1>7, <1>9 DEF Idle, WInv, Shape
<1>11. Sink(d)
  BY <1>3, <1>6, <1>7 DEF Idle, WInv, Sink, Open
<1>12. Called(d)
  BY <1>1, <1>2, <1>3, <1>6, <1>7 DEF Idle, WInv, Called
<1>13. Queued(d)
  <2>1. Len(d.writeRequests) \in Nat /\ Len(w.writeRequests) = Len(d.writeRequests) + 1
    BY <1>4, <1>5, <1>7
  <2>2. Len(w.queue) = Len(w.writeRequests) + 0 + Closing(w) /\ Closing(w) \in Nat
    BY Counts DEF Idle, WInv, Queued
  <2>3. InFlight(d) = 1 /\ Closing(d) = Closing(w)
    BY <1>6, <1>7, Counts DEF Closing
  <2>4. Len(d.queue) = Len(d.writeRequests) + InFlight(d) + Closing(d)
    BY <1>7, <2>1, <2>2, <2>3
  <2> QED
    BY <1>3, <1>7, <2>4 DEF Idle, WInv, Queued
<1>14. Callable(d) /\ Waits(d)
  BY <1>3, <1>7 DEF Idle, WInv, Callable, Waits, W!CloseQueuedOrInFlight
<1> QED
  BY <1>7, <1>8, <1>10, <1>11, <1>12, <1>13, <1>14 DEF WInv

\* The queue advances in a stream that is writable, or erroring without a close in
\* flight.
LEMMA AdvanceInv ==
  ASSUME NEW w, WInv(w),
         w.started /\ w.inFlightWrite = NoWrite =>
           w.state = "writable" \/ (w.state = "erroring" /\ ~ w.inFlightClose)
  PROVE  LET v == W!AdvanceQueueIfNeeded(w) IN WInv(v) /\ v.writer = w.writer
<1>1. CASE ~ w.started \/ w.inFlightWrite # NoWrite
  BY <1>1 DEF W!AdvanceQueueIfNeeded
<1>2. CASE w.started /\ w.inFlightWrite = NoWrite
  <2> DEFINE v == W!Assert_(w, w.state \notin {"closed", "errored"})
  <2>1. Alike(v, w) /\ v.ready = w.ready
    BY <1>2, Fields DEF WInv, Shape, Called, Alike, W!Assert_
  <2>2. W!AdvanceQueueIfNeeded(w) =
          CASE v.state = "erroring" -> W!FinishErroring(v)
            [] v.state # "erroring" /\ v.queue = <<>> -> v
            [] v.state # "erroring" /\ v.queue # <<>>
                 /\ Head(v.queue) = CloseSentinel -> W!ProcessClose(v)
            [] OTHER -> W!ProcessWrite(v)
    BY <1>2 DEF W!AdvanceQueueIfNeeded
  <2> HIDE DEF v
  <2>3. WInv(v) /\ v.writer = w.writer /\ Idle(v)
        /\ v.state \in {"writable", "erroring"} /\ (v.state = "erroring" => ~ v.inFlightClose)
    BY <1>2, <2>1, AlikeInv DEF Alike, WInv, Idle, Open
  <2>4. CASE v.state = "erroring"
    <3>1. Failing(v)
      BY <2>3, <2>4 DEF Failing, Idle, WInv, Callable
    <3> QED
      BY <2>2, <2>3, <2>4, <3>1, FinishErroringInv
  <2>5. CASE v.state = "writable" /\ v.queue = <<>>
    BY <2>2, <2>3, <2>5
  <2>6. CASE v.state = "writable" /\ v.queue # <<>> /\ Head(v.queue) = CloseSentinel
    BY <2>2, <2>3, <2>6, ProcessCloseInv
  <2>7. CASE v.state = "writable" /\ v.queue # <<>> /\ Head(v.queue) # CloseSentinel
    BY <2>2, <2>3, <2>7, ProcessWriteInv
  <2> QED
    BY <2>3, <2>4, <2>5, <2>6, <2>7
<1> QED
  BY <1>1, <1>2 DEF WInv, Shape

-----------------------------------------------------------------------------
(* The methods of the writer and the stream.                               *)

\* A chunk that is written is queued, with a request for it.
LEMMA QueueInv ==
  ASSUME NEW v, WInv(v), v.state = "writable", ~ W!CloseQueuedOrInFlight(v), NEW c \in AllChunks
  PROVE  LET a == [v EXCEPT !.writeRequests = Append(@, c), !.queue = Append(@, c)]
         IN  WInv(a) /\ a.writer = v.writer /\ a.state = "writable"
<1> DEFINE a == [v EXCEPT !.writeRequests = Append(@, c), !.queue = Append(@, c)]
<1>1. /\ DOMAIN a = DOMAIN v /\ a.writeRequests = Append(v.writeRequests, c)
      /\ a.queue = Append(v.queue, c) /\ a.state = v.state /\ a.started = v.started
      /\ a.inFlightWrite = v.inFlightWrite /\ a.inFlightClose = v.inFlightClose
      /\ a.closeRequest = v.closeRequest /\ a.pendingAbort = v.pendingAbort
      /\ a.storedError = v.storedError /\ a.backpressure = v.backpressure
      /\ a.writer = v.writer /\ a.hasAlgorithms = v.hasAlgorithms /\ a.sink = v.sink
      /\ a.calls = v.calls /\ a.overlap = v.overlap /\ a.asserts = v.asserts
      /\ a.ready = v.ready
  BY Fields DEF WInv, Shape
<1> HIDE DEF a
<1>2. Shape(a)
  <2>1. a.writeRequests \in Seq(AllChunks) /\ a.queue \in Seq(AllChunks \cup {CloseSentinel})
    BY <1>1 DEF WInv, Shape
  <2> QED
    BY <1>1, <2>1 DEF WInv, Shape
<1>3. Sink(a) /\ Called(a) /\ Callable(a) /\ Waits(a)
  BY <1>1 DEF WInv, Sink, Called, Callable, Waits, Open, W!CloseQueuedOrInFlight
<1>4. Queued(a)
  <2>1. c # CloseSentinel
    BY ChunksAssumption DEF AllChunks
  <2>2. v.writeRequests \in Seq(AllChunks) /\ v.queue \in Seq(AllChunks \cup {CloseSentinel})
    BY DEF WInv, Shape
  <2>3. /\ Len(a.queue) = Len(v.queue) + 1 /\ Len(a.writeRequests) = Len(v.writeRequests) + 1
        /\ Len(v.queue) \in Nat /\ Len(v.writeRequests) \in Nat
        /\ \A i \in 1 .. Len(a.queue) :
             a.queue[i] = c \/ (i \in 1 .. Len(v.queue) /\ a.queue[i] = v.queue[i])
    BY <1>1, <2>2
  <2>4. Queued(v) /\ ~ v.closeRequest /\ ~ v.inFlightClose /\ v.state = "writable"
    BY DEF WInv, W!CloseQueuedOrInFlight
  <2>8. InFlight(a) = InFlight(v) /\ Closing(a) = 0 /\ Closing(v) = 0 /\ InFlight(v) \in Nat
    BY <1>1, <2>4, Counts DEF InFlight
  <2>9. Len(v.queue) = Len(v.writeRequests) + InFlight(v) + Closing(v)
    BY <2>4 DEF Queued, Open
  <2>5. Len(a.queue) = Len(a.writeRequests) + InFlight(a) + Closing(a)
    BY <2>3, <2>8, <2>9
  <2>6. \A i \in 1 .. Len(a.queue) : a.queue[i] # CloseSentinel
    BY <2>1, <2>3, <2>4 DEF Queued, Open
  <2>7. Len(a.writeRequests) \in Nat
    BY <2>3
  <2> QED
    BY <1>1, <2>4, <2>5, <2>6, <2>7 DEF Queued
<1> QED
  BY <1>1, <1>2, <1>3, <1>4 DEF WInv, a

\* write() of a writer: refused, or one chunk and one request more.
LEMMA WriteInv ==
  ASSUME NEW w, WInv(w), NEW c \in AllChunks
  PROVE  LET v == W!WriterWrite(w, c) IN WInv(v) /\ v.writer = w.writer
<1> DEFINE v == IF w.hasAlgorithms THEN w ELSE W!ErrorIfNeeded(w)
           a == [v EXCEPT !.writeRequests = Append(@, c), !.queue = Append(@, c)]
           b == W!UpdateIfOpen(a)
<1>1. WInv(v) /\ v.writer = w.writer
  BY ControllerErrorInv DEF W!ErrorIfNeeded
<1>2. W!WriterWrite(w, c) = IF v.state # "writable" \/ W!CloseQueuedOrInFlight(v)
                            THEN W!Tell(v, <<"write", c>>) ELSE W!AdvanceQueueIfNeeded(b)
  BY DEF W!WriterWrite
<1> HIDE DEF v
<1>3. CASE v.state # "writable" \/ W!CloseQueuedOrInFlight(v)
  <2>1. Alike(W!Tell(v, <<"write", c>>), v) /\ W!Tell(v, <<"write", c>>).ready = v.ready
    BY <1>1, TellAlike DEF WInv, Shape
  <2> QED
    BY <1>1, <1>2, <1>3, <2>1, AlikeInv DEF WInv, Alike
<1>4. CASE v.state = "writable" /\ ~ W!CloseQueuedOrInFlight(v)
  <2>5. WInv(a) /\ a.writer = w.writer /\ a.state = "writable"
    BY <1>1, <1>4, QueueInv
  <2> HIDE DEF a
  <2>6. WInv(b) /\ b.writer = w.writer /\ b.state = "writable"
    BY <2>5, UpdateInv
  <2> HIDE DEF b
  <2> QED
    BY <1>2, <1>4, <2>6, AdvanceInv
<1> QED
  BY <1>3, <1>4

\* The sentinel is queued, and a writer that waits is let go on.
LEMMA SentinelInv ==
  ASSUME NEW w, WInv(w), Open(w), ~ w.closeRequest, ~ w.inFlightClose
  PROVE  LET v == [W!Assert_(w, ~ W!CloseQueuedOrInFlight(w)) EXCEPT !.closeRequest = TRUE]
             u == IF v.backpressure /\ v.state = "writable"
                  THEN W!Settle(v, "ready", "resolved") ELSE v
             a == [u EXCEPT !.queue = Append(@, CloseSentinel)]
         IN  /\ WInv(a) /\ a.writer = w.writer /\ a.state = w.state /\ a.closeRequest
             /\ a.inFlightClose = w.inFlightClose /\ a.inFlightWrite = w.inFlightWrite
             /\ a.queue = Append(w.queue, CloseSentinel) /\ a.writeRequests = w.writeRequests
             /\ a.backpressure = w.backpressure
<1> DEFINE v == [W!Assert_(w, ~ W!CloseQueuedOrInFlight(w)) EXCEPT !.closeRequest = TRUE]
           u == IF v.backpressure /\ v.state = "writable"
                THEN W!Settle(v, "ready", "resolved") ELSE v
           a == [u EXCEPT !.queue = Append(@, CloseSentinel)]
<1>3. /\ DOMAIN v = DOMAIN w /\ v.closeRequest = TRUE /\ v.asserts = TRUE
      /\ v.queue = w.queue /\ v.writeRequests = w.writeRequests /\ v.state = w.state
      /\ v.inFlightWrite = w.inFlightWrite /\ v.inFlightClose = w.inFlightClose
      /\ v.pendingAbort = w.pendingAbort /\ v.storedError = w.storedError
      /\ v.backpressure = w.backpressure /\ v.writer = w.writer
      /\ v.hasAlgorithms = w.hasAlgorithms /\ v.sink = w.sink /\ v.calls = w.calls
      /\ v.overlap = w.overlap /\ v.started = w.started
  BY Fields DEF WInv, Shape, Called, W!Assert_, W!CloseQueuedOrInFlight
<1> HIDE DEF v
<1>4. Alike(u, v)
  BY <1>3, SettleAlike DEF WInv, Shape, Alike
<1> HIDE DEF u
<1>5. /\ DOMAIN a = DOMAIN w /\ a.closeRequest = TRUE /\ a.asserts = TRUE
      /\ a.queue = Append(w.queue, CloseSentinel)
      /\ a.writeRequests = w.writeRequests /\ a.state = w.state
      /\ a.inFlightWrite = w.inFlightWrite /\ a.inFlightClose = w.inFlightClose
      /\ a.pendingAbort = w.pendingAbort /\ a.storedError = w.storedError
      /\ a.backpressure = w.backpressure /\ a.writer = w.writer
      /\ a.hasAlgorithms = w.hasAlgorithms /\ a.sink = w.sink /\ a.calls = w.calls
      /\ a.overlap = w.overlap /\ a.started = w.started
  BY <1>3, <1>4, Fields DEF WInv, Shape, Alike
<1> HIDE DEF a
<1>6. Shape(a)
  <2>1. a.queue \in Seq(AllChunks \cup {CloseSentinel})
    BY <1>5 DEF WInv, Shape
  <2> QED
    BY <1>5, <2>1 DEF WInv, Shape
<1>7. Sink(a) /\ Called(a) /\ Callable(a) /\ Waits(a)
  BY <1>5 DEF WInv, Sink, Called, Callable, Waits, Open, W!CloseQueuedOrInFlight
<1>8. Queued(a)
  <2>1. w.writeRequests \in Seq(AllChunks) /\ w.queue \in Seq(AllChunks \cup {CloseSentinel})
    BY DEF WInv, Shape
  <2>2. /\ Len(a.queue) = Len(w.queue) + 1
        /\ Len(w.queue) \in Nat /\ Len(w.writeRequests) \in Nat
        /\ a.queue[Len(w.queue) + 1] = CloseSentinel
        /\ \A i \in 1 .. Len(a.queue) :
             i = Len(w.queue) + 1 \/ (i \in 1 .. Len(w.queue) /\ a.queue[i] = w.queue[i])
    BY <1>5, <2>1
  <2>5. InFlight(a) = InFlight(w) /\ Closing(a) = 1 /\ Closing(w) = 0 /\ InFlight(w) \in Nat
    BY <1>5, Counts DEF InFlight
  <2>6. Len(w.queue) = Len(w.writeRequests) + InFlight(w) + Closing(w)
    BY DEF WInv, Queued
  <2>3. Len(a.queue) = Len(a.writeRequests) + InFlight(a) + Closing(a)
    BY <1>5, <2>2, <2>5, <2>6
  <2>4. \A i \in 1 .. Len(a.queue) : a.queue[i] = CloseSentinel <=> i = Len(a.queue)
    BY <2>2 DEF WInv, Queued
  <2> QED
    BY <1>5, <2>3, <2>4 DEF Queued
<1> QED
  BY <1>5, <1>6, <1>7, <1>8 DEF WInv, a, u, v

\* close() puts the sentinel behind the chunks.
LEMMA CloseInv ==
  ASSUME NEW w, WInv(w), Open(w) => ~ W!CloseQueuedOrInFlight(w)
  PROVE  LET v == W!StreamClose(w) IN WInv(v) /\ v.writer = w.writer
<1>1. CASE w.state \in {"closed", "errored"}
  <2>1. LET v == W!Tell(w, <<"close", "rejected">>) IN Alike(v, w) /\ v.ready = w.ready
    BY TellAlike DEF WInv, Shape
  <2> QED
    BY <1>1, <2>1, AlikeInv DEF WInv, Alike, W!StreamClose
<1>2. CASE w.state \notin {"closed", "errored"}
  <2> DEFINE v == [W!Assert_(w, ~ W!CloseQueuedOrInFlight(w)) EXCEPT !.closeRequest = TRUE]
             u == IF v.backpressure /\ v.state = "writable"
                  THEN W!Settle(v, "ready", "resolved") ELSE v
             a == [u EXCEPT !.queue = Append(@, CloseSentinel)]
  <2>1. Open(w) /\ ~ w.closeRequest /\ ~ w.inFlightClose
    BY <1>2 DEF WInv, Shape, Open, W!CloseQueuedOrInFlight
  <2>2. W!StreamClose(w) = W!AdvanceQueueIfNeeded(a)
    BY <1>2 DEF W!StreamClose
  <2>3. WInv(a) /\ a.writer = w.writer /\ a.state = w.state /\ a.inFlightClose = w.inFlightClose
    BY <2>1, SentinelInv
  <2> HIDE DEF a
  <2> QED
    BY <2>1, <2>2, <2>3, AdvanceInv DEF Open
<1> QED
  BY <1>1, <1>2

\* The close of a pipe that ends: nothing to do in a stream that closes or has ended.
LEMMA CloseWithErrorInv ==
  ASSUME NEW w, WInv(w)
  PROVE  LET v == W!CloseWithErrorPropagation(w) IN WInv(v) /\ v.writer = w.writer
<1>1. \A e : LET v == W!Tell(w, e) IN WInv(v) /\ v.writer = w.writer
  BY TellAlike, AlikeInv DEF WInv, Shape, Alike
<1> QED
  BY <1>1, CloseInv DEF W!CloseWithErrorPropagation

\* abort() errors the stream, or waits with the error that is there already.
LEMMA AbortInv ==
  ASSUME NEW w, WInv(w)
  PROVE  LET v == W!StreamAbort(w) IN WInv(v) /\ v.writer = w.writer
<1>1. CASE w.state \in {"closed", "errored"}
  <2>1. LET v == W!Tell(w, <<"abort", "resolved">>) IN Alike(v, w) /\ v.ready = w.ready
    BY TellAlike DEF WInv, Shape
  <2> QED
    BY <1>1, <2>1, AlikeInv DEF WInv, Alike, W!StreamAbort
<1>2. CASE w.state \notin {"closed", "errored"} /\ w.pendingAbort # "none"
  BY <1>2 DEF W!StreamAbort
<1>3. CASE w.state = "erroring" /\ w.pendingAbort = "none"
  <2> DEFINE a == [w EXCEPT !.pendingAbort = "late"]
  <2>1. WInv(a) /\ a.writer = w.writer
    BY <1>3, Fields DEF WInv, Shape, Sink, Called, Queued, InFlight, Closing, Callable,
                        Waits, Open, W!CloseQueuedOrInFlight
  <2> QED
    BY <1>3, <2>1 DEF W!StreamAbort
<1>4. CASE w.state = "writable" /\ w.pendingAbort = "none"
  <2> DEFINE a == [w EXCEPT !.pendingAbort = "first"]
  <2>1. Erring(a) /\ a.writer = w.writer
    BY <1>4, Fields DEF WInv, Erring, Shape, Sink, Called, Queued, InFlight, Closing, Callable, Open
  <2> QED
    BY <1>4, <2>1, StartErroringInv DEF W!StreamAbort
<1> QED
  BY <1>1, <1>2, <1>3, <1>4 DEF WInv, Shape

\* A new writer of a stream with backpressure waits.
LEMMA AcquireInv ==
  ASSUME NEW w, WInv(w)
  PROVE  LET v == W!AcquireWriter(w) IN WInv(v) /\ v.writer
<1> DEFINE v == W!AcquireWriter(w)
<1>1. /\ DOMAIN v = DOMAIN w /\ v.writer = TRUE /\ v.state = w.state
      /\ v.queue = w.queue /\ v.writeRequests = w.writeRequests
      /\ v.inFlightWrite = w.inFlightWrite /\ v.inFlightClose = w.inFlightClose
      /\ v.closeRequest = w.closeRequest /\ v.pendingAbort = w.pendingAbort
      /\ v.storedError = w.storedError /\ v.backpressure = w.backpressure
      /\ v.hasAlgorithms = w.hasAlgorithms /\ v.sink = w.sink /\ v.calls = w.calls
      /\ v.overlap = w.overlap /\ v.asserts = w.asserts /\ v.started = w.started
  BY Fields DEF WInv, Shape, W!AcquireWriter
<1>2. w.state = "writable" /\ w.backpressure /\ ~ W!CloseQueuedOrInFlight(w)
        => v.ready = "pending"
  BY Fields DEF WInv, Shape, W!AcquireWriter
<1> HIDE DEF v
<1>3. Shape(v)
  BY <1>1 DEF WInv, Shape
<1>4. Sink(v) /\ Called(v) /\ Callable(v)
  BY <1>1 DEF WInv, Sink, Called, Callable, Open
<1>5. Queued(v)
  BY <1>1 DEF WInv, Queued, InFlight, Closing, Open
<1>6. Waits(v)
  BY <1>1, <1>2 DEF Waits, W!CloseQueuedOrInFlight
<1> QED
  BY <1>1, <1>3, <1>4, <1>5, <1>6 DEF WInv, v

\* A stream without a writer tells no one of backpressure.
LEMMA ReleaseInv ==
  ASSUME NEW w, WInv(w), w.writer
  PROVE  WInv(W!WriterRelease(w)) /\ ~ W!WriterRelease(w).writer
<1> DEFINE a == W!Assert_(w, w.writer)
           b == W!EnsureReadyRejected(a)
           c == W!Settle(b, "closed", "rejected")
           d == [c EXCEPT !.writer = FALSE, !.ready = "none", !.closed = "none"]
<1>1. W!WriterRelease(w) = d
  BY DEF W!WriterRelease
<1>2. Alike(a, w)
  BY Fields DEF WInv, Shape, Called, Alike, W!Assert_
<1> HIDE DEF a
<1>3. Alike(b, a)
  BY <1>2, EnsureAlike DEF WInv, Shape, Alike
<1> HIDE DEF b
<1>4. Alike(c, b)
  <2>1. DOMAIN b = DOMAIN W!NewWritable
    BY <1>2, <1>3 DEF WInv, Shape, Alike
  <2> QED
    BY <2>1, SettleAlike
<1> HIDE DEF c
<1>5. Alike(c, w)
  BY <1>2, <1>3, <1>4 DEF Alike
<1>6. Shape(c) /\ Sink(c) /\ Called(c) /\ Queued(c) /\ Callable(c)
  BY <1>5, AlikeInv DEF WInv
<1>7. /\ DOMAIN d = DOMAIN c /\ d.writer = FALSE /\ d.state = c.state
      /\ d.queue = c.queue /\ d.writeRequests = c.writeRequests
      /\ d.inFlightWrite = c.inFlightWrite /\ d.inFlightClose = c.inFlightClose
      /\ d.closeRequest = c.closeRequest /\ d.pendingAbort = c.pendingAbort
      /\ d.storedError = c.storedError /\ d.backpressure = c.backpressure
      /\ d.hasAlgorithms = c.hasAlgorithms /\ d.sink = c.sink /\ d.calls = c.calls
      /\ d.overlap = c.overlap /\ d.asserts = c.asserts /\ d.started = c.started
  BY <1>6, Fields DEF Shape
<1> HIDE DEF d
<1>8. Shape(d)
  BY <1>6, <1>7 DEF Shape
<1>9. Sink(d) /\ Called(d) /\ Callable(d)
  BY <1>6, <1>7 DEF Sink, Called, Callable, Open
<1>10. Queued(d)
  <2>1. InFlight(d) = InFlight(c) /\ Closing(d) = Closing(c)
    BY <1>7 DEF InFlight, Closing
  <2> QED
    BY <1>6, <1>7, <2>1 DEF Queued, Open
<1> QED
  BY <1>1, <1>7, <1>8, <1>9, <1>10 DEF WInv, Waits

-----------------------------------------------------------------------------
(* The sink answers.                                                       *)

\* What has been written leaves the queue.
LEMMA UnqueueInv ==
  ASSUME NEW w, WInv(w), w.sink = "write"
  PROVE  LET done == W!Tell([w EXCEPT !.inFlightWrite = NoWrite, !.sink = "idle"],
                            <<"write", w.inFlightWrite>>)
             v == W!Assert_(done, w.inFlightWrite # NoWrite
                                    /\ w.state \in {"writable", "erroring"})
             a == [v EXCEPT !.queue = Tail(@)]
         IN  /\ WInv(a) /\ a.writer = w.writer /\ a.started
             /\ a.state = "writable" \/ (a.state = "erroring" /\ ~ a.inFlightClose)
<1> DEFINE done == W!Tell([w EXCEPT !.inFlightWrite = NoWrite, !.sink = "idle"],
                          <<"write", w.inFlightWrite>>)
           v == W!Assert_(done, w.inFlightWrite # NoWrite
                                  /\ w.state \in {"writable", "erroring"})
           a == [v EXCEPT !.queue = Tail(@)]
<1>1. Open(w) /\ w.started /\ w.inFlightWrite # NoWrite /\ ~ w.inFlightClose
  BY DEF WInv, Shape, Sink
<1>2. /\ DOMAIN v = DOMAIN w /\ v.inFlightWrite = NoWrite /\ v.sink = "idle"
      /\ v.state = w.state /\ v.queue = w.queue /\ v.writeRequests = w.writeRequests
      /\ v.inFlightClose = w.inFlightClose /\ v.closeRequest = w.closeRequest
      /\ v.pendingAbort = w.pendingAbort /\ v.storedError = w.storedError
      /\ v.backpressure = w.backpressure /\ v.hasAlgorithms = w.hasAlgorithms
      /\ v.calls = w.calls /\ v.overlap = w.overlap /\ v.asserts = TRUE
      /\ v.started = w.started /\ v.writer = w.writer /\ v.ready = w.ready
  BY <1>1, Fields DEF WInv, Shape, Called, Open, W!Tell, W!Assert_
<1> HIDE DEF done, v
<1>4. Shape(v) /\ Sink(v) /\ Called(v) /\ Callable(v) /\ Waits(v)
  <2>1. Shape(v)
    BY <1>2 DEF WInv, Shape
  <2>2. Sink(v) /\ Called(v)
    BY <1>1, <1>2 DEF WInv, Sink, Called, Open
  <2>3. Callable(v) /\ Waits(v)
    BY <1>2 DEF WInv, Callable, Waits, W!CloseQueuedOrInFlight
  <2> QED
    BY <2>1, <2>2, <2>3
<1>5. w.queue \in Seq(AllChunks \cup {CloseSentinel}) /\ Len(w.writeRequests) \in Nat
  BY DEF WInv, Shape
<1>6. Len(w.queue) = Len(w.writeRequests) + 1 + Closing(w) /\ Closing(w) \in Nat
  BY <1>1, Counts DEF WInv, Queued
<1>7. w.queue # <<>>
  BY <1>5, <1>6
<1>8. /\ Tail(w.queue) \in Seq(AllChunks \cup {CloseSentinel})
      /\ Len(w.queue) \in Nat /\ Len(Tail(w.queue)) = Len(w.queue) - 1
      /\ \A i \in 1 .. Len(Tail(w.queue)) :
           i + 1 \in 1 .. Len(w.queue) /\ Tail(w.queue)[i] = w.queue[i + 1]
  BY <1>5, <1>7
<1>9. /\ DOMAIN a = DOMAIN v /\ a.queue = Tail(w.queue)
      /\ a.state = v.state /\ a.writeRequests = v.writeRequests
      /\ a.inFlightWrite = v.inFlightWrite /\ a.inFlightClose = v.inFlightClose
      /\ a.closeRequest = v.closeRequest /\ a.pendingAbort = v.pendingAbort
      /\ a.storedError = v.storedError /\ a.backpressure = v.backpressure
      /\ a.hasAlgorithms = v.hasAlgorithms /\ a.sink = v.sink
      /\ a.calls = v.calls /\ a.overlap = v.overlap /\ a.asserts = v.asserts
      /\ a.started = v.started /\ a.writer = v.writer /\ a.ready = v.ready
  BY <1>2, <1>4, Fields DEF Shape
<1> HIDE DEF a
<1>10. Shape(a)
  BY <1>4, <1>8, <1>9 DEF Shape
<1>11. Sink(a) /\ Called(a) /\ Callable(a) /\ Waits(a)
  BY <1>4, <1>9 DEF Sink, Called, Callable, Waits, Open, W!CloseQueuedOrInFlight
<1>12. Queued(a)
  <2>1. InFlight(a) = 0 /\ Closing(a) = Closing(w)
    BY <1>2, <1>9, Counts DEF Closing
  <2>2. Len(a.queue) = Len(a.writeRequests) + InFlight(a) + Closing(a)
    BY <1>2, <1>5, <1>6, <1>8, <1>9, <2>1
  <2>3. \A i \in 1 .. Len(w.queue) :
          w.queue[i] = CloseSentinel <=> w.closeRequest /\ i = Len(w.queue)
    BY <1>1 DEF WInv, Queued
  <2>4. \A i \in 1 .. Len(a.queue) :
          a.queue[i] = CloseSentinel <=> a.closeRequest /\ i = Len(a.queue)
    BY <1>2, <1>8, <1>9, <2>3
  <2> QED
    BY <1>1, <1>2, <1>9, <2>2, <2>4 DEF Queued
<1>13. WInv(a) /\ a.writer = w.writer /\ a.started
      /\ (a.state = "writable" \/ (a.state = "erroring" /\ ~ a.inFlightClose))
  BY <1>1, <1>2, <1>9, <1>10, <1>11, <1>12 DEF WInv, Open
<1> QED
  BY <1>13 DEF a, v, done

\* The sink has written: one entry of the queue less, or an error.
LEMMA WrittenInv ==
  ASSUME NEW w, WInv(w), w.sink = "write", NEW ok
  PROVE  LET v == W!FinishInFlightWrite(w, ok) IN WInv(v) /\ v.writer = w.writer
<1> DEFINE done == W!Tell([w EXCEPT !.inFlightWrite = NoWrite, !.sink = "idle"],
                          <<"write", w.inFlightWrite>>)
           v == W!Assert_(done, w.inFlightWrite # NoWrite
                                  /\ w.state \in {"writable", "erroring"})
           a == [v EXCEPT !.queue = Tail(@)]
           b == [v EXCEPT !.hasAlgorithms = @ /\ w.state # "writable"]
<1>1. Open(w) /\ w.started /\ w.inFlightWrite # NoWrite /\ ~ w.inFlightClose
  BY DEF WInv, Shape, Sink
<1>2. /\ DOMAIN v = DOMAIN w /\ v.inFlightWrite = NoWrite /\ v.sink = "idle"
      /\ v.state = w.state /\ v.queue = w.queue /\ v.writeRequests = w.writeRequests
      /\ v.inFlightClose = w.inFlightClose /\ v.closeRequest = w.closeRequest
      /\ v.pendingAbort = w.pendingAbort /\ v.storedError = w.storedError
      /\ v.backpressure = w.backpressure /\ v.hasAlgorithms = w.hasAlgorithms
      /\ v.calls = w.calls /\ v.overlap = w.overlap /\ v.asserts = TRUE
      /\ v.started = w.started /\ v.writer = w.writer /\ v.ready = w.ready
  BY <1>1, Fields DEF WInv, Shape, Called, Open, W!Tell, W!Assert_
<1>3. W!FinishInFlightWrite(w, ok) = IF ok THEN W!AdvanceQueueIfNeeded(W!UpdateIfOpen(a))
                                     ELSE W!DealWithRejection(b)
  BY DEF W!FinishInFlightWrite
<1> HIDE DEF done, v
<1>4. Shape(v) /\ Sink(v) /\ Called(v) /\ Callable(v) /\ Waits(v)
  <2>1. Shape(v)
    BY <1>2 DEF WInv, Shape
  <2>2. Sink(v) /\ Called(v)
    BY <1>1, <1>2 DEF WInv, Sink, Called, Open
  <2>3. Callable(v) /\ Waits(v)
    BY <1>2 DEF WInv, Callable, Waits, W!CloseQueuedOrInFlight
  <2> QED
    BY <2>1, <2>2, <2>3
<1>5. CASE ok
  <2>1. /\ WInv(a) /\ a.writer = w.writer /\ a.started
        /\ a.state = "writable" \/ (a.state = "erroring" /\ ~ a.inFlightClose)
    BY UnqueueInv DEF v, done
  <2> HIDE DEF a
  <2> DEFINE u == W!UpdateIfOpen(a)
  <2>2. WInv(u) /\ u.writer = w.writer
         /\ (u.state = "writable" \/ (u.state = "erroring" /\ ~ u.inFlightClose))
    BY <2>1, UpdateInv
  <2> HIDE DEF u
  <2>3. WInv(W!AdvanceQueueIfNeeded(u)) /\ W!AdvanceQueueIfNeeded(u).writer = w.writer
    BY <2>2, AdvanceInv
  <2> QED
    BY <1>3, <1>5, <2>3 DEF u
<1>6. CASE ~ ok
  <2>1. /\ DOMAIN b = DOMAIN v /\ b.queue = v.queue
        /\ b.hasAlgorithms = (v.hasAlgorithms /\ w.state # "writable")
        /\ b.state = v.state /\ b.writeRequests = v.writeRequests
        /\ b.inFlightWrite = v.inFlightWrite /\ b.inFlightClose = v.inFlightClose
        /\ b.closeRequest = v.closeRequest /\ b.pendingAbort = v.pendingAbort
        /\ b.storedError = v.storedError /\ b.backpressure = v.backpressure
        /\ b.sink = v.sink /\ b.calls = v.calls /\ b.overlap = v.overlap
        /\ b.asserts = v.asserts /\ b.started = v.started /\ b.writer = v.writer
    BY <1>2, <1>4, Fields DEF Shape
  <2> HIDE DEF b
  <2>2. Shape(b)
    BY <1>4, <2>1 DEF Shape
  <2>3. Sink(b) /\ Called(b)
    BY <1>4, <2>1 DEF Shape, Sink, Called, Open
  <2>4. Erring(b) \/ Failing(b)
    BY <1>1, <1>2, <1>4, <2>1, <2>2, <2>3 DEF Erring, Failing, Callable, Open
  <2> QED
    BY <1>2, <1>3, <1>6, <2>1, <2>4, RejectionInv
<1> QED
  BY <1>5, <1>6

\* The sink has closed: the stream is closed, or errors; an abort that waited is settled.
LEMMA ClosedInv ==
  ASSUME NEW w, WInv(w), w.sink = "close", NEW ok
  PROVE  LET v == W!FinishInFlightClose(w, ok) IN WInv(v) /\ v.writer = w.writer
<1> DEFINE how == IF ok THEN "resolved" ELSE "rejected"
           a == W!Assert_(w, w.inFlightClose /\ w.state \in {"writable", "erroring"})
           done == W!Tell([a EXCEPT !.inFlightClose = FALSE, !.sink = "idle"],
                          <<"close", how>>)
           v == IF w.pendingAbort # "none"
                THEN W!Tell([done EXCEPT !.pendingAbort = "none"], <<"abort", how>>)
                ELSE done
           b == [W!Assert_(v, w.state = "writable" => w.pendingAbort = "none")
                 EXCEPT !.state = "closed", !.storedError = FALSE]
<1>1. Open(w) /\ w.started /\ w.inFlightWrite = NoWrite /\ w.inFlightClose
  BY DEF WInv, Shape, Sink
<1>2. /\ DOMAIN done = DOMAIN w /\ done.inFlightClose = FALSE /\ done.sink = "idle"
      /\ done.state = w.state /\ done.queue = w.queue
      /\ done.writeRequests = w.writeRequests /\ done.inFlightWrite = w.inFlightWrite
      /\ done.closeRequest = w.closeRequest /\ done.pendingAbort = w.pendingAbort
      /\ done.storedError = w.storedError /\ done.backpressure = w.backpressure
      /\ done.hasAlgorithms = w.hasAlgorithms /\ done.calls = w.calls
      /\ done.overlap = w.overlap /\ done.asserts = TRUE
      /\ done.started = w.started /\ done.writer = w.writer
  BY <1>1, Fields DEF WInv, Shape, Called, Open, W!Tell, W!Assert_
<1>3. W!FinishInFlightClose(w, ok) = IF ok THEN W!Settle(b, "closed", "resolved")
                                     ELSE W!DealWithRejection(v)
  BY DEF W!FinishInFlightClose
<1> HIDE DEF a, done
<1>4. /\ DOMAIN v = DOMAIN w /\ v.inFlightClose = FALSE /\ v.sink = "idle"
      /\ v.state = w.state /\ v.queue = w.queue
      /\ v.writeRequests = w.writeRequests /\ v.inFlightWrite = w.inFlightWrite
      /\ v.closeRequest = w.closeRequest /\ v.pendingAbort = "none"
      /\ v.storedError = w.storedError /\ v.backpressure = w.backpressure
      /\ v.hasAlgorithms = w.hasAlgorithms /\ v.calls = w.calls
      /\ v.overlap = w.overlap /\ v.asserts = TRUE
      /\ v.started = w.started /\ v.writer = w.writer
  <2>1. CASE w.pendingAbort = "none"
    BY <1>2, <2>1
  <2>2. CASE w.pendingAbort # "none"
    BY <1>2, <2>2, Fields DEF WInv, Shape, W!Tell
  <2> QED
    BY <2>1, <2>2
<1> HIDE DEF v
<1>5. Shape(v)
  BY <1>4 DEF WInv, Shape
<1>6. Sink(v) /\ Called(v)
  BY <1>1, <1>4 DEF WInv, Sink, Called, Open
<1>7. CASE ok
  <2>1. /\ DOMAIN b = DOMAIN v /\ b.state = "closed" /\ b.storedError = FALSE
        /\ b.queue = v.queue /\ b.writeRequests = v.writeRequests
        /\ b.inFlightWrite = v.inFlightWrite /\ b.inFlightClose = v.inFlightClose
        /\ b.closeRequest = v.closeRequest /\ b.pendingAbort = v.pendingAbort
        /\ b.backpressure = v.backpressure /\ b.hasAlgorithms = v.hasAlgorithms
        /\ b.sink = v.sink /\ b.calls = v.calls /\ b.overlap = v.overlap
        /\ b.asserts = TRUE /\ b.started = v.started /\ b.writer = v.writer
    BY <1>4, <1>5, Fields DEF WInv, Shape, Callable, W!Assert_
  <2> HIDE DEF b
  <2>2. Shape(b)
    BY <1>5, <2>1 DEF Shape
  <2>3. Sink(b) /\ Called(b) /\ Queued(b) /\ Callable(b)
    BY <1>1, <1>4, <1>6, <2>1 DEF Sink, Called, Queued, Callable, Open
  <2>4. Alike(W!Settle(b, "closed", "resolved"), b)
    BY <2>2, SettleAlike DEF Shape
  <2> DEFINE d == W!Settle(b, "closed", "resolved")
  <2>5. d.state = "closed" /\ d.writer = w.writer /\ Alike(d, b)
    BY <1>4, <2>1, <2>4 DEF Alike
  <2> HIDE DEF d
  <2>6. WInv(d)
    BY <2>2, <2>3, <2>5, AlikeInv DEF WInv, Waits
  <2> QED
    BY <1>3, <1>7, <2>5, <2>6 DEF d
<1>8. CASE ~ ok
  <2>1. Erring(v) \/ Failing(v)
    BY <1>1, <1>4, <1>5, <1>6 DEF WInv, Erring, Failing, Callable, Open
  <2> QED
    BY <1>3, <1>4, <1>8, <2>1, RejectionInv
<1> QED
  BY <1>7, <1>8

\* The sink has aborted: the stream had errored before.
LEMMA AbortedInv ==
  ASSUME NEW w, WInv(w), w.sink = "abort", NEW ok
  PROVE  LET v == W!FinishAbort(w, ok) IN WInv(v) /\ v.writer = w.writer
<1> DEFINE a == [w EXCEPT !.sink = "idle"]
           v == W!Tell(a, <<"abort", IF ok THEN "resolved" ELSE "rejected">>)
<1>1. Failed(a) /\ a.writer = w.writer
  BY Fields DEF WInv, Failed, Shape, Sink, Called, Callable, Open
<1>2. W!FinishAbort(w, ok) = W!RejectCloseAndClosed(v)
  BY DEF W!FinishAbort
<1> HIDE DEF a
<1>3. Alike(v, a)
  BY <1>1, TellAlike DEF Failed, Shape
<1> HIDE DEF v
<1>4. Failed(v) /\ v.writer = w.writer
  BY <1>1, <1>3, AlikeInv DEF Failed, Alike
<1> QED
  BY <1>2, <1>4, RejectCloseInv

\* A sink that has started is idle.
LEMMA StartInv ==
  ASSUME NEW w, WInv(w), w.sink = "start"
  PROVE  LET v == [W!Assert_(w, w.state \in {"writable", "erroring"})
                   EXCEPT !.started = TRUE, !.sink = "idle"]
         IN  WInv(v) /\ Open(v) /\ v.inFlightWrite = NoWrite /\ ~ v.inFlightClose
<1> DEFINE v == [W!Assert_(w, w.state \in {"writable", "erroring"})
                 EXCEPT !.started = TRUE, !.sink = "idle"]
<1>1. Open(w) /\ w.inFlightWrite = NoWrite /\ ~ w.inFlightClose
  BY DEF WInv, Shape, Sink
<1>2. /\ DOMAIN v = DOMAIN w /\ v.started = TRUE /\ v.sink = "idle"
      /\ v.state = w.state /\ v.queue = w.queue /\ v.writeRequests = w.writeRequests
      /\ v.inFlightWrite = w.inFlightWrite /\ v.inFlightClose = w.inFlightClose
      /\ v.closeRequest = w.closeRequest /\ v.pendingAbort = w.pendingAbort
      /\ v.storedError = w.storedError /\ v.backpressure = w.backpressure
      /\ v.hasAlgorithms = w.hasAlgorithms /\ v.calls = w.calls
      /\ v.overlap = w.overlap /\ v.asserts = TRUE /\ v.writer = w.writer
      /\ v.ready = w.ready
  BY <1>1, Fields DEF WInv, Shape, Called, Open, W!Assert_
<1> HIDE DEF v
<1>4. Shape(v)
  BY <1>2 DEF WInv, Shape
<1>5. Sink(v) /\ Called(v) /\ Callable(v) /\ Waits(v)
  BY <1>1, <1>2 DEF WInv, Sink, Called, Callable, Waits, Open, W!CloseQueuedOrInFlight
<1>6. Queued(v)
  <2>1. InFlight(v) = InFlight(w) /\ Closing(v) = Closing(w)
    BY <1>2 DEF InFlight, Closing
  <2> QED
    BY <1>2, <2>1 DEF WInv, Queued, Open
<1> QED
  BY <1>1, <1>2, <1>4, <1>5, <1>6 DEF WInv, Open, v

\* The sink has started: the queue advances, or the stream errors.
LEMMA StartedInv ==
  ASSUME NEW w, WInv(w), w.sink = "start", NEW ok
  PROVE  LET v == W!FinishStart(w, ok) IN WInv(v) /\ v.writer = w.writer
<1> DEFINE v == [W!Assert_(w, w.state \in {"writable", "erroring"})
                 EXCEPT !.started = TRUE, !.sink = "idle"]
<1>1. Open(w) /\ w.inFlightWrite = NoWrite /\ ~ w.inFlightClose
  BY DEF WInv, Shape, Sink
<1>2. /\ DOMAIN v = DOMAIN w /\ v.started = TRUE /\ v.sink = "idle"
      /\ v.state = w.state /\ v.queue = w.queue /\ v.writeRequests = w.writeRequests
      /\ v.inFlightWrite = w.inFlightWrite /\ v.inFlightClose = w.inFlightClose
      /\ v.closeRequest = w.closeRequest /\ v.pendingAbort = w.pendingAbort
      /\ v.storedError = w.storedError /\ v.backpressure = w.backpressure
      /\ v.hasAlgorithms = w.hasAlgorithms /\ v.calls = w.calls
      /\ v.overlap = w.overlap /\ v.asserts = TRUE /\ v.writer = w.writer
      /\ v.ready = w.ready
  BY <1>1, Fields DEF WInv, Shape, Called, Open, W!Assert_
<1>3. W!FinishStart(w, ok) = IF ok THEN W!AdvanceQueueIfNeeded(v) ELSE W!DealWithRejection(v)
  BY DEF W!FinishStart
<1> HIDE DEF v
<1>4. Shape(v)
  BY <1>2 DEF WInv, Shape
<1>5. Sink(v) /\ Called(v) /\ Callable(v) /\ Waits(v)
  BY <1>1, <1>2 DEF WInv, Sink, Called, Callable, Waits, Open, W!CloseQueuedOrInFlight
<1>6. Queued(v)
  <2>1. InFlight(v) = InFlight(w) /\ Closing(v) = Closing(w)
    BY <1>2 DEF InFlight, Closing
  <2> QED
    BY <1>2, <2>1 DEF WInv, Queued, Open
<1>7. CASE ok
  BY <1>1, <1>2, <1>3, <1>4, <1>5, <1>6, <1>7, AdvanceInv DEF WInv, Open
<1>8. CASE ~ ok
  <2>1. Erring(v) \/ Failing(v)
    BY <1>1, <1>2, <1>4, <1>5 DEF Erring, Failing, Callable, Open
  <2> QED
    BY <1>2, <1>3, <1>8, <2>1, RejectionInv
<1> QED
  BY <1>7, <1>8

\* The sink answers whatever it was called for.
LEMMA AnswersInv ==
  ASSUME NEW w, WInv(w), w.sink # "idle", NEW ok
  PROVE  LET v == W!SinkAnswers(w, ok) IN WInv(v) /\ v.writer = w.writer
<1>1. w.sink \in {"start", "write", "close", "abort"}
  BY DEF WInv, Shape
<1> QED
  BY <1>1, StartedInv, WrittenInv, ClosedInv, AbortedInv DEF W!SinkAnswers

\* A stream just constructed.
LEMMA NewInv == WInv(W!NewWritable)
<1> DEFINE w == W!NewWritable
<1>1. /\ w.state = "writable" /\ w.started = FALSE /\ w.queue = <<>>
      /\ w.writeRequests = <<>> /\ w.inFlightWrite = NoWrite /\ w.closeRequest = FALSE
      /\ w.inFlightClose = FALSE /\ w.pendingAbort = "none" /\ w.storedError = FALSE
      /\ w.backpressure \in BOOLEAN /\ w.writer = FALSE /\ w.hasAlgorithms = TRUE
      /\ w.sink = "start" /\ w.calls = <<>> /\ w.overlap = FALSE /\ w.asserts = TRUE
  BY DEF W!NewWritable
<1> HIDE DEF w
<1>2. /\ w.queue \in Seq(AllChunks \cup {CloseSentinel}) /\ w.writeRequests \in Seq(AllChunks)
      /\ w.calls \in Seq(AllChunks \cup Endings)
      /\ Len(w.queue) = 0 /\ Len(w.writeRequests) = 0 /\ Len(w.calls) = 0
  BY <1>1
<1>3. Shape(w)
  BY <1>1, <1>2 DEF Shape, w
<1>4. Queued(w)
  <2>1. InFlight(w) = 0 /\ Closing(w) = 0
    BY <1>1, Counts
  <2> QED
    BY <1>1, <1>2, <2>1 DEF Queued
<1>5. Sink(w) /\ Called(w) /\ Callable(w) /\ Waits(w)
  BY <1>1, <1>2 DEF Sink, Called, Callable, Waits, Open
<1> QED
  BY <1>3, <1>4, <1>5 DEF WInv, w

\* The owner of the stream has heard the news.
LEMMA HeardInv ==
  ASSUME NEW w, WInv(w)
  PROVE  LET v == [w EXCEPT !.news = <<>>] IN WInv(v) /\ v.writer = w.writer
<1> DEFINE v == [w EXCEPT !.news = <<>>]
<1>1. Alike(v, w) /\ v.ready = w.ready
  BY Fields DEF WInv, Shape, Alike
<1> HIDE DEF v
<1> QED
  BY <1>1, AlikeInv DEF WInv, Alike, v


-----------------------------------------------------------------------------
(* The readable stream, operation by operation.                            *)

\* The fields of a readable stream.
LEMMA ReadFields ==
  DOMAIN R!NewReadable =
    {"state", "started", "queue", "closeRequested", "pulling", "pullAgain", "reader",
     "readRequests", "cancelling", "asserts", "news"}
  BY DEF R!NewReadable

\* pull is called in a stream that has started, and again only after its answer.
LEMMA PullInv ==
  ASSUME NEW r, RInv(r)
  PROVE  LET v == R!CallPullIfNeeded(r) IN RInv(v) /\ v.reader = r.reader
<1>1. CASE ~ R!ShouldCallPull(r)
  BY <1>1 DEF R!CallPullIfNeeded
<1>2. CASE R!ShouldCallPull(r) /\ r.pulling
  BY <1>2, ReadFields DEF R!CallPullIfNeeded, RInv
<1>3. CASE R!ShouldCallPull(r) /\ ~ r.pulling
  <2> DEFINE v == [R!Assert_(r, ~ r.pullAgain) EXCEPT !.pulling = TRUE]
  <2>1. RInv(v) /\ v.reader = r.reader
    BY <1>3, ReadFields DEF R!Assert_, R!ShouldCallPull, RInv
  <2> QED
    BY <1>3, <2>1 DEF R!CallPullIfNeeded
<1> QED
  BY <1>1, <1>2, <1>3

\* A readable stream closes or errors.
LEMMA EndInv ==
  ASSUME NEW r, RInv(r), r.state = "readable", NEW state \in {"closed", "errored"},
         NEW read, NEW closed
  PROVE  LET v == R!EndStream(r, state, read, closed) IN RInv(v) /\ v.reader = r.reader
<1> DEFINE v == [R!Assert_(r, r.state = "readable") EXCEPT !.state = state]
           u == [v EXCEPT !.readRequests = 0,
                          !.news = @ \o [i \in 1 .. r.readRequests |-> <<"read", read>>]
                                     \o << <<"closed", closed>> >>]
<1>1. RInv(v) /\ v.reader = r.reader
  BY ReadFields DEF R!Assert_, RInv
<1>2. R!EndStream(r, state, read, closed) = IF ~ v.reader THEN v ELSE u
  BY DEF R!EndStream
<1> HIDE DEF v
<1>3. RInv(u) /\ u.reader = v.reader
  BY <1>1, ReadFields DEF RInv
<1> HIDE DEF u
<1> QED
  BY <1>1, <1>2, <1>3

\* error() of the source.
LEMMA SourceErrorInv ==
  ASSUME NEW r, RInv(r)
  PROVE  LET v == R!ControllerError(r) IN RInv(v) /\ v.reader = r.reader
<1> DEFINE a == [r EXCEPT !.queue = <<>>]
<1>1. RInv(a) /\ a.reader = r.reader /\ a.state = r.state
  BY ReadFields DEF RInv
<1> HIDE DEF a
<1>2. R!ControllerError(r) = IF r.state # "readable" THEN r
                             ELSE R!EndStream(a, "errored", "failed", "rejected")
  BY DEF R!ControllerError, a
<1> QED
  BY <1>1, <1>2, EndInv

\* close() of the source: at once, or after the chunks that are queued.
LEMMA SourceCloseInv ==
  ASSUME NEW r, RInv(r)
  PROVE  LET v == R!ControllerClose(r) IN RInv(v) /\ v.reader = r.reader
<1> DEFINE a == [r EXCEPT !.closeRequested = TRUE]
<1>1. RInv(a) /\ a.reader = r.reader /\ a.state = r.state
  BY ReadFields DEF RInv
<1>2. R!ControllerClose(r) = IF ~ R!CanCloseOrEnqueue(r) THEN r
                             ELSE IF a.queue = <<>>
                                  THEN R!EndStream(a, "closed", "done", "resolved") ELSE a
  BY DEF R!ControllerClose, R!CloseStream
<1> HIDE DEF a
<1>3. CASE ~ R!CanCloseOrEnqueue(r)
  BY <1>2, <1>3
<1>4. CASE R!CanCloseOrEnqueue(r)
  <2>1. r.state = "readable"
    BY <1>4 DEF R!CanCloseOrEnqueue
  <2> QED
    BY <1>1, <1>2, <1>4, <2>1, EndInv
<1> QED
  BY <1>3, <1>4

\* enqueue() of the source: for a read that waits, or for the queue.
LEMMA EnqueueInv ==
  ASSUME NEW r, RInv(r), NEW c
  PROVE  LET v == R!Enqueue(r, c) IN RInv(v) /\ v.reader = r.reader
<1> DEFINE a == R!Tell([r EXCEPT !.readRequests = @ - 1], <<"read", c>>)
           b == [r EXCEPT !.queue = Append(@, c)]
           d == IF r.reader /\ r.readRequests > 0 THEN a ELSE b
<1>1. RInv(a) /\ a.reader = r.reader
  BY ReadFields DEF RInv, R!Tell
<1>2. RInv(b) /\ b.reader = r.reader
  BY ReadFields DEF RInv
<1> HIDE DEF a, b
<1>3. RInv(d) /\ d.reader = r.reader
  BY <1>1, <1>2
<1>4. R!Enqueue(r, c) = IF ~ R!CanCloseOrEnqueue(r) THEN r ELSE R!CallPullIfNeeded(d)
  BY DEF R!Enqueue, a, b
<1> HIDE DEF d
<1> QED
  BY <1>3, <1>4, PullInv

\* read() of a reader.
LEMMA ReadInv ==
  ASSUME NEW r, RInv(r), r.reader
  PROVE  LET v == R!Read(r) IN RInv(v) /\ v.reader = r.reader
<1>1. ASSUME NEW u, RInv(u), NEW e
      PROVE  RInv(R!Tell(u, e)) /\ R!Tell(u, e).reader = u.reader
  BY <1>1, ReadFields DEF RInv, R!Tell
<1>2. CASE r.state = "closed"
  BY <1>1, <1>2 DEF R!Read
<1>3. CASE r.state = "errored"
  BY <1>1, <1>3 DEF R!Read
<1>4. CASE r.state = "readable" /\ r.queue # <<>>
  <2> DEFINE a == [r EXCEPT !.queue = Tail(@)]
             b == IF a.closeRequested /\ a.queue = <<>>
                  THEN R!CloseStream(a) ELSE R!CallPullIfNeeded(a)
  <2>1. RInv(a) /\ a.reader = r.reader /\ a.state = "readable"
    BY <1>4, ReadFields DEF RInv
  <2>2. R!Read(r) = R!Tell(b, <<"read", Head(r.queue)>>)
    BY <1>4 DEF R!Read
  <2> HIDE DEF a
  <2>3. RInv(b) /\ b.reader = r.reader
    BY <2>1, EndInv, PullInv DEF R!CloseStream
  <2> HIDE DEF b
  <2> QED
    BY <1>1, <2>2, <2>3
<1>5. CASE r.state = "readable" /\ r.queue = <<>>
  <2> DEFINE a == [R!Assert_(r, r.reader) EXCEPT !.readRequests = @ + 1]
  <2>1. RInv(a) /\ a.reader = r.reader
    BY ReadFields DEF RInv, R!Assert_
  <2>2. R!Read(r) = R!CallPullIfNeeded(a)
    BY <1>5 DEF R!Read
  <2> HIDE DEF a
  <2> QED
    BY <2>1, <2>2, PullInv
<1> QED
  BY <1>2, <1>3, <1>4, <1>5 DEF RInv

\* cancel() closes a readable stream.
LEMMA CancelInv ==
  ASSUME NEW r, RInv(r)
  PROVE  LET v == R!StreamCancel(r) IN RInv(v) /\ v.reader = r.reader
<1>1. \A e : RInv(R!Tell(r, e)) /\ R!Tell(r, e).reader = r.reader
  BY ReadFields DEF RInv, R!Tell
<1>2. CASE r.state \in {"closed", "errored"}
  BY <1>1, <1>2 DEF R!StreamCancel
<1>3. CASE r.state = "readable"
  <2> DEFINE a == R!CloseStream(r)
             b == [a EXCEPT !.queue = <<>>, !.cancelling = TRUE]
  <2>1. RInv(a) /\ a.reader = r.reader
    BY <1>3, EndInv DEF R!CloseStream
  <2>2. R!StreamCancel(r) = b
    BY <1>3 DEF R!StreamCancel
  <2> HIDE DEF a
  <2>3. RInv(b) /\ b.reader = a.reader
    BY <2>1, ReadFields DEF RInv
  <2> QED
    BY <2>1, <2>2, <2>3
<1> QED
  BY <1>2, <1>3 DEF RInv

\* Taking and leaving the stream, and what the source answers.
LEMMA SourceInv ==
  ASSUME NEW r, RInv(r)
  PROVE  /\ RInv(R!AcquireReader(r)) /\ R!AcquireReader(r).reader
         /\ r.reader => RInv(R!ReaderRelease(r)) /\ ~ R!ReaderRelease(r).reader
         /\ \A ok : LET v == R!FinishPull(r, ok) IN RInv(v) /\ v.reader = r.reader
         /\ \A ok : LET v == R!FinishCancel(r, ok) IN RInv(v) /\ v.reader = r.reader
         /\ ~ r.started =>
              \A ok : LET v == R!FinishStart(r, ok) IN RInv(v) /\ v.reader = r.reader
         /\ LET v == [r EXCEPT !.news = <<>>] IN RInv(v) /\ v.reader = r.reader
<1>1. RInv(R!AcquireReader(r)) /\ R!AcquireReader(r).reader
  BY ReadFields DEF RInv, R!AcquireReader
<1>2. r.reader => RInv(R!ReaderRelease(r)) /\ ~ R!ReaderRelease(r).reader
  <2> DEFINE a == R!Assert_(r, r.reader)
             news == IF r.state = "readable"
                     THEN Append(a.news, <<"closed", "rejected">>) ELSE a.news
             b == [a EXCEPT !.reader = FALSE, !.readRequests = 0, !.news = news]
  <2>1. R!ReaderRelease(r) = b
    BY DEF R!ReaderRelease
  <2>2. r.reader => RInv(a)
    BY ReadFields DEF RInv, R!Assert_
  <2> HIDE DEF a, news
  <2>3. RInv(a) => RInv(b) /\ ~ b.reader
    BY ReadFields DEF RInv
  <2> QED
    BY <2>1, <2>2, <2>3
<1>3. ASSUME NEW ok
      PROVE  LET v == R!FinishPull(r, ok) IN RInv(v) /\ v.reader = r.reader
  <2> DEFINE a == [r EXCEPT !.pulling = FALSE, !.pullAgain = FALSE]
  <2>1. RInv(a) /\ a.reader = r.reader
    BY ReadFields DEF RInv
  <2>2. R!FinishPull(r, ok) = IF ~ ok THEN R!ControllerError(r)
                              ELSE IF r.pullAgain THEN R!CallPullIfNeeded(a) ELSE a
    BY DEF R!FinishPull
  <2> HIDE DEF a
  <2> QED
    BY <2>1, <2>2, SourceErrorInv, PullInv
<1>4. ASSUME NEW ok
      PROVE  LET v == R!FinishCancel(r, ok) IN RInv(v) /\ v.reader = r.reader
  BY ReadFields DEF RInv, R!FinishCancel, R!Tell
<1>5. ASSUME ~ r.started, NEW ok
      PROVE  LET v == R!FinishStart(r, ok) IN RInv(v) /\ v.reader = r.reader
  <2> DEFINE a == [R!Assert_(r, ~ r.pulling /\ ~ r.pullAgain) EXCEPT !.started = TRUE]
  <2>1. RInv(a) /\ a.reader = r.reader
    BY <1>5, ReadFields DEF RInv, R!Assert_
  <2>2. R!FinishStart(r, ok) = IF ok THEN R!CallPullIfNeeded(a) ELSE R!ControllerError(r)
    BY DEF R!FinishStart
  <2> HIDE DEF a
  <2> QED
    BY <2>1, <2>2, SourceErrorInv, PullInv
<1>6. LET v == [r EXCEPT !.news = <<>>] IN RInv(v) /\ v.reader = r.reader
  BY ReadFields DEF RInv
<1> QED
  BY <1>1, <1>2, <1>3, <1>4, <1>5, <1>6

\* A stream just constructed.
LEMMA NewReadableInv == RInv(R!NewReadable)
  BY DEF RInv, R!NewReadable


-----------------------------------------------------------------------------
(* The pipe: a turn of JavaScript keeps what holds of the streams.         *)

Fit(s) ==
  /\ DOMAIN s = {"source", "dest", "pipe", "jobs"} /\ DOMAIN s.pipe = DOMAIN IdlePipe
  /\ WInv(s.dest) /\ RInv(s.source)

Good(s) == Fit(s) /\ Locks(s.pipe, s.dest, s.source)

\* The streams, and who holds them, are left alone.
Same(t, s) ==
  /\ DOMAIN t = DOMAIN s /\ DOMAIN t.pipe = DOMAIN s.pipe
  /\ t.source = s.source /\ t.dest = s.dest
  /\ t.pipe.lock = s.pipe.lock /\ t.pipe.outcome = s.pipe.outcome

\* The fields of the closure.
LEMMA PipeFields ==
  DOMAIN IdlePipe =
    {"lock", "options", "shuttingDown", "signalled", "waitsReady", "currentWrite",
     "currentDone", "waitsOn", "depth", "action", "isError", "parts", "outcome", "asserts"}
  BY DEF IdlePipe

\* What holds of the streams holds while they are left alone.
LEMMA SameFits ==
  ASSUME NEW s, NEW t, Same(t, s)
  PROVE  (Fit(s) => Fit(t)) /\ (Good(s) => Good(t))
  BY DEF Same, Fit, Good, Locks

\* Leaving the streams alone twice.
LEMMA SameTwice ==
  ASSUME NEW s, NEW t, NEW u, Same(t, s), Same(u, t)
  PROVE  Same(u, s)
  BY DEF Same

\* A microtask is queued.
LEMMA QueueSame ==
  ASSUME NEW s, Fit(s), NEW kind, NEW arg, NEW hops
  PROVE  Same(Queue(s, kind, arg, hops), s)
  BY DEF Same, Fit, Queue

\* What the closure changes of itself.
LEMMA ClosureSame ==
  ASSUME NEW s, Fit(s), NEW x, NEW y, NEW z
  PROVE  /\ Same([s EXCEPT !.pipe.parts = x], s)
         /\ Same([s EXCEPT !.pipe.waitsOn = x], s)
         /\ Same([s EXCEPT !.pipe.waitsReady = x], s)
         /\ Same([s EXCEPT !.pipe.currentDone = x], s)
         /\ Same([s EXCEPT !.pipe.depth = x], s)
         /\ Same([s EXCEPT !.pipe.asserts = x], s)
         /\ Same([s EXCEPT !.pipe.currentWrite = x, !.pipe.currentDone = y], s)
         /\ Same([s EXCEPT !.pipe.shuttingDown = x, !.pipe.action = y, !.pipe.isError = z], s)
         /\ Same([s EXCEPT !.jobs = x, !.pipe.parts = y, !.pipe.waitsReady = z], s)
         /\ Same([s EXCEPT !.jobs = x], s)
<1>1. Same([s EXCEPT !.pipe.parts = x], s)
  BY PipeFields DEF Same, Fit
<1>2. Same([s EXCEPT !.pipe.waitsOn = x], s)
  BY PipeFields DEF Same, Fit
<1>3. Same([s EXCEPT !.pipe.waitsReady = x], s)
  BY PipeFields DEF Same, Fit
<1>4. Same([s EXCEPT !.pipe.currentDone = x], s)
  BY PipeFields DEF Same, Fit
<1>5. Same([s EXCEPT !.pipe.depth = x], s)
  BY PipeFields DEF Same, Fit
<1>6. Same([s EXCEPT !.pipe.asserts = x], s)
  BY PipeFields DEF Same, Fit
<1>7. Same([s EXCEPT !.pipe.currentWrite = x, !.pipe.currentDone = y], s)
  BY PipeFields DEF Same, Fit
<1>8. Same([s EXCEPT !.pipe.shuttingDown = x, !.pipe.action = y, !.pipe.isError = z], s)
  BY PipeFields DEF Same, Fit
<1>9. Same([s EXCEPT !.jobs = x, !.pipe.parts = y, !.pipe.waitsReady = z], s)
  BY PipeFields DEF Same, Fit
<1>10. Same([s EXCEPT !.jobs = x], s)
  BY PipeFields DEF Same, Fit
<1> QED
  BY <1>1, <1>2, <1>3, <1>4, <1>5, <1>6, <1>7, <1>8, <1>9, <1>10

\* A promise of the shutdown action settles.
LEMMA PartSettledSame ==
  ASSUME NEW s, Fit(s), NEW part, NEW how, NEW hops
  PROVE  Same(PartSettled(s, part, how, hops), s)
<1> DEFINE t == [s EXCEPT !.pipe.parts = {}]
<1>1. Same(t, s) /\ Fit(t)
  BY ClosureSame, SameFits
<1>2. PartSettled(s, part, how, hops) =
        IF part \notin s.pipe.parts THEN s
        ELSE IF s.pipe.action = "signal" THEN Queue(s, "part", <<part, how>>, hops)
             ELSE Queue(t, "acted", how, hops)
  BY DEF PartSettled
<1> HIDE DEF t
<1>3. Same(s, s)
  BY DEF Same
<1> QED
  BY <1>1, <1>2, <1>3, QueueSame, SameTwice

\* The pipe waits for its last write.
LEMMA WaitSame ==
  ASSUME NEW s, Fit(s)
  PROVE  Same(WaitForWritesToFinish(s), s)
  BY QueueSame, ClosureSame DEF WaitForWritesToFinish

\* The writable stream changes and its news are heard.
LEMMA WithDestFits ==
  ASSUME NEW s, Fit(s), NEW w, WInv(w)
  PROVE  LET t == WithDest(s, w)
         IN  /\ Fit(t) /\ t.source = s.source /\ t.pipe.lock = s.pipe.lock
             /\ t.pipe.outcome = s.pipe.outcome /\ t.dest.writer = w.writer
<1> DEFINE v == [w EXCEPT !.news = <<>>]
           a == [s EXCEPT !.dest = v]
           h == DestTold(s, w.news)
<1>1. WInv(v) /\ v.writer = w.writer
  BY HeardInv
<1> HIDE DEF v
<1>2. Fit(a) /\ a.source = s.source /\ a.pipe = s.pipe /\ a.dest = v
  BY <1>1 DEF Fit
<1> HIDE DEF a, h
<1>3. Same(Heard(a, h), a)
  BY <1>2, ClosureSame DEF Heard
<1>4. WithDest(s, w) = Heard(a, h)
  BY DEF WithDest, a, h, v
<1>5. Fit(Heard(a, h))
  BY <1>2, <1>3, SameFits
<1> QED
  BY <1>1, <1>2, <1>3, <1>4, <1>5 DEF Same

\* The readable stream changes and its news are heard.
LEMMA WithSourceFits ==
  ASSUME NEW s, Fit(s), NEW r, RInv(r)
  PROVE  LET t == WithSource(s, r)
         IN  /\ Fit(t) /\ t.dest = s.dest /\ t.pipe.lock = s.pipe.lock
             /\ t.pipe.outcome = s.pipe.outcome /\ t.source.reader = r.reader
<1> DEFINE v == [r EXCEPT !.news = <<>>]
           a == [s EXCEPT !.source = v]
           h == SourceTold(s, r.news)
<1>1. RInv(v) /\ v.reader = r.reader
  BY SourceInv
<1> HIDE DEF v
<1>2. Fit(a) /\ a.dest = s.dest /\ a.pipe = s.pipe /\ a.source = v
  BY <1>1 DEF Fit
<1> HIDE DEF a, h
<1>3. Same(Heard(a, h), a)
  BY <1>2, ClosureSame DEF Heard
<1>4. WithSource(s, r) = Heard(a, h)
  BY DEF WithSource, a, h, v
<1>5. Fit(Heard(a, h))
  BY <1>2, <1>3, SameFits
<1> QED
  BY <1>1, <1>2, <1>3, <1>4, <1>5 DEF Same

\* The same while the writer stays.
LEMMA WithDestGood ==
  ASSUME NEW s, Good(s), NEW w, WInv(w), w.writer = s.dest.writer
  PROVE  Good(WithDest(s, w))
  BY WithDestFits DEF Good, Locks

\* The same while the reader stays.
LEMMA WithSourceGood ==
  ASSUME NEW s, Good(s), NEW r, RInv(r), r.reader = s.source.reader
  PROVE  Good(WithSource(s, r))
  BY WithSourceFits DEF Good, Locks


-----------------------------------------------------------------------------
(* The pipe shuts down.                                                    *)

\* The pipe lets go of both streams; the lock is what a second finalize fails on.
LEMMA FinalizeGood ==
  ASSUME NEW s, Good(s), NEW isError
  PROVE  Good(Finalize(s, isError))
<1>1. CASE s.pipe.lock # "held"
  BY <1>1, ClosureSame, SameFits DEF Finalize, Good
<1>2. CASE s.pipe.lock = "held"
  <2> DEFINE v == WithDest(s, W!WriterRelease(s.dest))
             u == WithSource(v, R!ReaderRelease(v.source))
             t == [u EXCEPT !.pipe.lock = "released",
                            !.pipe.outcome = IF isError THEN "error" ELSE "ok"]
  <2>1. Finalize(s, isError) = t
    BY <1>2 DEF Finalize
  <2>2. WInv(W!WriterRelease(s.dest)) /\ ~ W!WriterRelease(s.dest).writer
    BY <1>2, ReleaseInv DEF Good, Fit, Locks
  <2>3. Fit(v) /\ v.source = s.source /\ ~ v.dest.writer
    BY <2>2, WithDestFits DEF Good
  <2> HIDE DEF v
  <2>4. RInv(R!ReaderRelease(v.source)) /\ ~ R!ReaderRelease(v.source).reader
    BY <1>2, <2>3, SourceInv DEF Good, Fit, Locks
  <2>5. Fit(u) /\ ~ u.dest.writer /\ ~ u.source.reader
    BY <2>3, <2>4, WithSourceFits
  <2> HIDE DEF u
  <2>6. /\ DOMAIN t = DOMAIN u /\ DOMAIN t.pipe = DOMAIN u.pipe /\ t.pipe.lock = "released"
        /\ t.source = u.source /\ t.dest = u.dest /\ t.pipe.outcome # "none"
    BY <2>5, PipeFields DEF Fit
  <2> HIDE DEF t
  <2>7. Good(t)
    BY <2>5, <2>6 DEF Good, Fit, Locks
  <2> QED
    BY <2>1, <2>7
<1> QED
  BY <1>1, <1>2

\* The half of the abort signal that aborts.
LEMMA AbortIfGood ==
  ASSUME NEW s, Good(s)
  PROVE  Good(AbortIfWritable(s))
<1>1. Good(WithDest(s, W!StreamAbort(s.dest)))
  BY AbortInv, WithDestGood DEF Good, Fit
<1>2. Good(PartSettled(s, "abort", "resolved", 0))
  BY PartSettledSame, SameFits DEF Good
<1> QED
  BY <1>1, <1>2 DEF AbortIfWritable

\* The half of the abort signal that cancels.
LEMMA CancelIfGood ==
  ASSUME NEW s, Good(s)
  PROVE  Good(CancelIfReadable(s))
<1>1. Good(WithSource(s, R!StreamCancel(s.source)))
  BY CancelInv, WithSourceGood DEF Good, Fit
<1>2. Good(PartSettled(s, "cancel", "resolved", 0))
  BY PartSettledSame, SameFits DEF Good
<1> QED
  BY <1>1, <1>2 DEF CancelIfReadable

\* The shutdown action.
LEMMA DoTheRestGood ==
  ASSUME NEW s, Good(s)
  PROVE  Good(DoTheRest(s))
<1> DEFINE Await(parts) == [s EXCEPT !.pipe.parts = parts]
           allowed == (IF "preventAbort" \in s.pipe.options THEN {} ELSE {"abort"})
                        \cup (IF "preventCancel" \in s.pipe.options THEN {} ELSE {"cancel"})
<1>1. \A parts : Good(Await(parts)) /\ Await(parts).dest = s.dest
                 /\ Await(parts).source = s.source
  <2>1. \A parts : Same(Await(parts), s)
    BY ClosureSame DEF Good
  <2> QED
    BY <2>1, SameFits DEF Same
<1>2. DoTheRest(s) =
        CASE s.pipe.action = "abort" -> WithDest(Await({"abort"}), W!StreamAbort(s.dest))
          [] s.pipe.action = "cancel" ->
               WithSource(Await({"cancel"}), R!StreamCancel(s.source))
          [] s.pipe.action = "close" ->
               WithDest(Await({"close"}), W!CloseWithErrorPropagation(s.dest))
          [] s.pipe.action = "signal" /\ allowed # {} ->
               CancelIfReadable(AbortIfWritable(Await(allowed)))
          [] s.pipe.action = "signal" /\ allowed = {} -> Queue(s, "acted", "resolved", 0)
          [] OTHER -> Finalize(s, s.pipe.isError)
  BY DEF DoTheRest
<1> HIDE DEF Await, allowed
<1>3. Good(WithDest(Await({"abort"}), W!StreamAbort(s.dest)))
  BY <1>1, AbortInv, WithDestGood DEF Good, Fit
<1>4. Good(WithSource(Await({"cancel"}), R!StreamCancel(s.source)))
  BY <1>1, CancelInv, WithSourceGood DEF Good, Fit
<1>5. Good(WithDest(Await({"close"}), W!CloseWithErrorPropagation(s.dest)))
  BY <1>1, CloseWithErrorInv, WithDestGood DEF Good, Fit
<1>6. Good(CancelIfReadable(AbortIfWritable(Await(allowed))))
  BY <1>1, AbortIfGood, CancelIfGood
<1>7. Good(Queue(s, "acted", "resolved", 0))
  BY QueueSame, SameFits DEF Good
<1>8. Good(Finalize(s, s.pipe.isError))
  BY FinalizeGood
<1> QED
  BY <1>2, <1>3, <1>4, <1>5, <1>6, <1>7, <1>8

\* A shutdown with an action, now or after the last write.
LEMMA WithActionGood ==
  ASSUME NEW s, Good(s), NEW action, NEW isError
  PROVE  Good(ShutdownWithAction(s, action, isError))
<1> DEFINE v == [s EXCEPT !.pipe.shuttingDown = TRUE, !.pipe.action = action,
                          !.pipe.isError = isError]
<1>1. Same(v, s)
  BY ClosureSame DEF Good
<1>2. ShutdownWithAction(s, action, isError) =
        IF s.pipe.shuttingDown THEN s
        ELSE IF DestTakesWrites(v) THEN WaitForWritesToFinish(v) ELSE DoTheRest(v)
  BY DEF ShutdownWithAction
<1> HIDE DEF v
<1>3. Good(v)
  BY <1>1, SameFits
<1>4. Good(WaitForWritesToFinish(v))
  BY <1>3, WaitSame, SameFits DEF Good
<1> QED
  BY <1>2, <1>3, <1>4, DoTheRestGood

\* A shutdown without one: it finalizes also when it waits for the last write.
LEMMA ShutdownGood ==
  ASSUME NEW s, Good(s), NEW isError
  PROVE  Good(Shutdown(s, isError))
<1> DEFINE v == [s EXCEPT !.pipe.shuttingDown = TRUE, !.pipe.action = "release",
                          !.pipe.isError = isError]
           u == IF DestTakesWrites(v) THEN WaitForWritesToFinish(v) ELSE v
<1>1. Same(v, s)
  BY ClosureSame DEF Good
<1>2. Shutdown(s, isError) = IF s.pipe.shuttingDown THEN s ELSE Finalize(u, isError)
  BY DEF Shutdown
<1> HIDE DEF v
<1>3. Good(v)
  BY <1>1, SameFits
<1>4. Good(u)
  BY <1>3, WaitSame, SameFits DEF Good
<1> HIDE DEF u
<1> QED
  BY <1>2, <1>4, FinalizeGood

\* A stream that has ended, whatever the pipe is to prevent.
LEMMA EndsGood ==
  ASSUME NEW s, Good(s)
  PROVE  Good(SourceErrored(s)) /\ Good(DestErrored(s)) /\ Good(SourceClosed(s))
  BY WithActionGood, ShutdownGood DEF SourceErrored, DestErrored, SourceClosed, End

-----------------------------------------------------------------------------
(* The loop of the pipe.                                                   *)

\* The loop goes on when the writer is ready.
LEMMA StepGood ==
  ASSUME NEW s, Good(s)
  PROVE  Good(PipeStep(s))
<1>1. Good(Queue(s, "read", NoWrite, 0))
  BY QueueSame, SameFits DEF Good
<1>2. Good([s EXCEPT !.pipe.waitsReady = TRUE])
  <2>1. Same([s EXCEPT !.pipe.waitsReady = TRUE], s)
    BY ClosureSame DEF Good
  <2> QED
    BY <2>1, SameFits
<1> QED
  BY <1>1, <1>2 DEF PipeStep

\* The loop reads, from a stream the pipe holds.
LEMMA ReadChunkGood ==
  ASSUME NEW s, Good(s)
  PROVE  Good(ReadChunk(s))
<1>1. CASE s.pipe.lock # "held"
  <2>1. Same([s EXCEPT !.pipe.asserts = FALSE], s)
    BY ClosureSame DEF Good
  <2> QED
    BY <1>1, <2>1, SameFits DEF ReadChunk
<1>2. CASE s.pipe.lock = "held"
  <2>1. LET r == R!Read(s.source) IN RInv(r) /\ r.reader = s.source.reader
    BY <1>2, ReadInv DEF Good, Fit, Locks
  <2> QED
    BY <1>2, <2>1, WithSourceGood DEF ReadChunk
<1> QED
  BY <1>1, <1>2

\* The loop writes what it read.
LEMMA WriteChunkGood ==
  ASSUME NEW s, Good(s), NEW chunk
  PROVE  Good(WriteChunk(s, chunk))
<1> DEFINE v == [s EXCEPT !.pipe.currentWrite = chunk, !.pipe.currentDone = FALSE]
           u == WithDest(v, W!WriterWrite(v.dest, chunk))
<1>1. CASE chunk \notin ToSet(Chunks)
  BY <1>1 DEF WriteChunk
<1>2. CASE chunk \in ToSet(Chunks) /\ s.pipe.lock # "held"
  <2>1. Same([s EXCEPT !.pipe.asserts = FALSE], s)
    BY ClosureSame DEF Good
  <2> QED
    BY <1>2, <2>1, SameFits DEF WriteChunk
<1>3. CASE chunk \in ToSet(Chunks) /\ s.pipe.lock = "held"
  <2>1. WriteChunk(s, chunk) = Queue(u, "next", NoWrite, 1)
    BY <1>3 DEF WriteChunk
  <2>2. Same(v, s)
    BY ClosureSame DEF Good
  <2> HIDE DEF v
  <2>3. Good(v)
    BY <2>2, SameFits
  <2>4. chunk \in AllChunks
    BY <1>3 DEF AllChunks
  <2>5. Good(u)
    BY <2>3, <2>4, WriteInv, WithDestGood DEF Good, Fit
  <2> HIDE DEF u
  <2> QED
    BY <2>1, <2>5, QueueSame, SameFits DEF Good
<1> QED
  BY <1>1, <1>2, <1>3

\* A write of the pipe is finished.
LEMMA WrittenGood ==
  ASSUME NEW s, Good(s), NEW chunk
  PROVE  Good(Written(s, chunk))
<1> DEFINE v == [s EXCEPT !.pipe.currentDone = @ \/ chunk = s.pipe.currentWrite]
           u == [v EXCEPT !.pipe.waitsOn = NoWrite]
<1>1. Written(s, chunk) = IF v.pipe.waitsOn # chunk THEN v ELSE Queue(u, "waited", chunk, 0)
  BY DEF Written
<1>2. Same(v, s)
  BY PipeFields DEF Same, Good, Fit
<1> HIDE DEF v
<1>3. Good(v)
  BY <1>2, SameFits
<1>4. Same(u, v)
  BY <1>3, ClosureSame DEF Good
<1> HIDE DEF u
<1>5. Good(u)
  BY <1>3, <1>4, SameFits
<1> QED
  BY <1>1, <1>3, <1>5, QueueSame, SameFits DEF Good

\* The wait for the writes looks again.
LEMMA WaitedGood ==
  ASSUME NEW s, Good(s), NEW old
  PROVE  Good(Waited(s, old))
<1> DEFINE v == [s EXCEPT !.pipe.depth = @ + 1]
<1>1. Waited(s, old) = IF old # s.pipe.currentWrite THEN WaitForWritesToFinish(v)
                       ELSE Queue(s, "rest", NoWrite, s.pipe.depth)
  BY DEF Waited
<1>2. Same(v, s)
  BY PipeFields DEF Same, Good, Fit
<1> HIDE DEF v
<1>3. Good(v)
  BY <1>2, SameFits
<1>4. Good(WaitForWritesToFinish(v))
  BY <1>3, WaitSame, SameFits DEF Good
<1> QED
  BY <1>1, <1>4, QueueSame, SameFits DEF Good

\* One promise of Promise.all() settles.
LEMMA PartOfAllGood ==
  ASSUME NEW s, Good(s), NEW part, NEW how
  PROVE  Good(PartOfAll(s, part, how))
<1> DEFINE left == IF how = "rejected" THEN {} ELSE s.pipe.parts \ {part}
           v == [s EXCEPT !.pipe.parts = left]
<1>1. PartOfAll(s, part, how) = IF part \notin s.pipe.parts THEN s
                                ELSE IF left = {} THEN Queue(v, "acted", how, 0) ELSE v
  BY DEF PartOfAll
<1> HIDE DEF left
<1>2. Same(v, s)
  BY ClosureSame DEF Good
<1> HIDE DEF v
<1>3. Good(v)
  BY <1>2, SameFits
<1> QED
  BY <1>1, <1>3, QueueSame, SameFits DEF Good

\* A microtask, whichever it is.
LEMMA PerformGood ==
  ASSUME NEW s, Good(s), NEW job
  PROVE  Good(Perform(s, job))
<1>1. \A kind, arg, hops : Good(Queue(s, kind, arg, hops))
  BY QueueSame, SameFits DEF Good
<1>2. /\ Good(ReadChunk(s)) /\ Good(PipeStep(s)) /\ Good(DoTheRest(s))
      /\ Good(SourceErrored(s)) /\ Good(DestErrored(s)) /\ Good(SourceClosed(s))
  BY ReadChunkGood, StepGood, DoTheRestGood, EndsGood
<1>3. /\ Good(WriteChunk(s, job.arg)) /\ Good(Written(s, job.arg)) /\ Good(Waited(s, job.arg))
      /\ Good(PartOfAll(s, job.arg[1], job.arg[2]))
      /\ Good(Finalize(s, s.pipe.isError \/ job.arg = "rejected"))
  BY WriteChunkGood, WrittenGood, WaitedGood, PartOfAllGood, FinalizeGood
<1> QED
  BY <1>1, <1>2, <1>3 DEF Perform

-----------------------------------------------------------------------------
(* Every step.                                                             *)

\* The state is what a turn starts from.
LEMMA NowGood == Inv <=> Good(Now)
  BY DEF Inv, Good, Fit, Now

\* The state is what a turn ends in.
LEMMA BecomeInv ==
  ASSUME NEW after, Good(after), Become(after)
  PROVE  Inv'
  BY DEF Inv, Good, Fit, Become

\* The source acts, or the program on a stream without a reader.
LEMMA SourceDoesInv ==
  ASSUME Inv, NEW r, RInv(r), r.reader = source.reader, Become(WithSource(Now, r))
  PROVE  Inv'
<1>1. Good(Now) /\ Now.source = source
  BY NowGood DEF Now
<1>2. Good(WithSource(Now, r))
  BY <1>1, WithSourceGood
<1> QED
  BY <1>2, BecomeInv

\* The sink acts, or the program on a stream without a writer.
LEMMA DestDoesInv ==
  ASSUME Inv, NEW w, WInv(w), w.writer = dest.writer, Become(WithDest(Now, w))
  PROVE  Inv'
<1>1. Good(Now) /\ Now.dest = dest
  BY NowGood DEF Now
<1>2. Good(WithDest(Now, w))
  BY <1>1, WithDestGood
<1> QED
  BY <1>2, BecomeInv

\* A pipe starts, on streams that may have ended.
LEMMA PipeStreamsInv ==
  ASSUME Inv, PipeStreams
  PROVE  Inv'
<1>1. PICK options \in PipeOptions :
        LET s1 == [Now EXCEPT !.pipe.lock = "held", !.pipe.options = options,
                              !.source = R!AcquireReader(@), !.dest = W!AcquireWriter(@)]
            s2 == IF s1.source.state = "errored" THEN SourceErrored(s1) ELSE s1
            s3 == IF s2.dest.state = "errored" THEN DestErrored(s2) ELSE s2
            s4 == IF s3.source.state = "closed" THEN SourceClosed(s3) ELSE s3
            s5 == IF W!CloseQueuedOrInFlight(s4.dest) \/ s4.dest.state = "closed"
                  THEN DestErrored(s4) ELSE s4
        IN  Become(PipeStep(s5))
  BY DEF PipeStreams
<1> DEFINE s1 == [Now EXCEPT !.pipe.lock = "held", !.pipe.options = options,
                             !.source = R!AcquireReader(@), !.dest = W!AcquireWriter(@)]
           s2 == IF s1.source.state = "errored" THEN SourceErrored(s1) ELSE s1
           s3 == IF s2.dest.state = "errored" THEN DestErrored(s2) ELSE s2
           s4 == IF s3.source.state = "closed" THEN SourceClosed(s3) ELSE s3
           s5 == IF W!CloseQueuedOrInFlight(s4.dest) \/ s4.dest.state = "closed"
                 THEN DestErrored(s4) ELSE s4
<1>2. Become(PipeStep(s5))
  BY <1>1
<1>3. /\ DOMAIN s1 = {"source", "dest", "pipe", "jobs"} /\ DOMAIN s1.pipe = DOMAIN pipe
      /\ s1.pipe.lock = "held" /\ s1.pipe.outcome = pipe.outcome
      /\ s1.source = R!AcquireReader(source) /\ s1.dest = W!AcquireWriter(dest)
  BY PipeFields DEF Now, Inv
<1> HIDE DEF s1
<1>4. Good(s1)
  <2>1. WInv(s1.dest) /\ s1.dest.writer
    BY <1>3, AcquireInv DEF Inv
  <2>2. RInv(s1.source) /\ s1.source.reader
    <3>1. RInv(source)
      BY DEF Inv
    <3>2. RInv(R!AcquireReader(source)) /\ R!AcquireReader(source).reader
      BY <3>1, SourceInv
    <3> QED
      BY <1>3, <3>2
  <2>3. pipe.outcome = "none"
    BY DEF Inv, Locks, PipeStreams
  <2> QED
    BY <1>3, <2>1, <2>2, <2>3 DEF Inv, Good, Fit, Locks
<1>5. Good(s2)
  BY <1>4, EndsGood
<1> HIDE DEF s2
<1>6. Good(s3)
  BY <1>5, EndsGood
<1> HIDE DEF s3
<1>7. Good(s4)
  BY <1>6, EndsGood
<1> HIDE DEF s4
<1>8. Good(s5)
  BY <1>7, EndsGood
<1> HIDE DEF s5
<1> QED
  BY <1>2, <1>8, StepGood, BecomeInv

\* Every step, one case per action.
LEMMA StepInv ==
  ASSUME Inv, [Next]_vars
  PROVE  Inv'
<1>1. CASE RunJob
  <2> DEFINE s == [Now EXCEPT !.jobs = Tail(@)]
  <2>1. Become(Perform(s, Head(jobs)))
    BY <1>1 DEF RunJob
  <2>2. Good(s)
    BY DEF Inv, Good, Fit, Now
  <2> HIDE DEF s
  <2> QED
    BY <2>1, <2>2, PerformGood, BecomeInv
<1>2. CASE PipeStreams
  BY <1>2, PipeStreamsInv
<1>3. CASE SignalAborts
  <2> DEFINE s == [Now EXCEPT !.pipe.signalled = TRUE]
  <2>1. Become(ShutdownWithAction(s, "signal", TRUE))
    BY <1>3 DEF SignalAborts
  <2>2. Good(s)
    BY PipeFields DEF Inv, Good, Fit, Locks, Now
  <2> HIDE DEF s
  <2> QED
    BY <2>1, <2>2, WithActionGood, BecomeInv
<1>4. CASE SourceEnqueues
  BY <1>4, EnqueueInv, SourceDoesInv DEF SourceEnqueues, SourceDoes, Inv
<1>5. CASE SourceCloses
  BY <1>5, SourceCloseInv, SourceDoesInv DEF SourceCloses, SourceDoes, Inv
<1>6. CASE SourceErrors
  BY <1>6, SourceErrorInv, SourceDoesInv DEF SourceErrors, SourceDoes, Inv
<1>7. CASE SourceStarts
  <2>1. RInv(source) /\ ~ source.started
    BY <1>7 DEF SourceStarts, Inv
  <2>2. PICK ok \in BOOLEAN : Become(WithSource(Now, R!FinishStart(source, ok)))
    BY <1>7 DEF SourceStarts, SourceDoes
  <2>3. RInv(R!FinishStart(source, ok)) /\ R!FinishStart(source, ok).reader = source.reader
    BY <2>1, SourceInv
  <2> QED
    BY <2>2, <2>3, SourceDoesInv
<1>8. CASE SourcePulled
  BY <1>8, SourceInv, SourceDoesInv DEF SourcePulled, SourceDoes, Inv
<1>9. CASE SourceCancelled
  BY <1>9, SourceInv, SourceDoesInv DEF SourceCancelled, SourceDoes, Inv
<1>10. CASE SinkAnswers
  BY <1>10, AnswersInv, DestDoesInv DEF SinkAnswers, DestDoes, Inv
<1>11. CASE SinkErrors
  BY <1>11, ControllerErrorInv, DestDoesInv DEF SinkErrors, DestDoes, Inv
<1>12. CASE ProgramWrites
  <2> DEFINE a == W!AcquireWriter(dest)
             b == W!WriterWrite(a, UserChunk)
             d == W!WriterRelease(b)
  <2>1. ~ dest.writer /\ Become(WithDest(Now, d))
    BY <1>12 DEF ProgramWrites
  <2>2. WInv(a) /\ a.writer
    BY AcquireInv DEF Inv
  <2> HIDE DEF a
  <2>3. WInv(b) /\ b.writer
    BY <2>2, WriteInv DEF AllChunks
  <2> HIDE DEF b
  <2>4. WInv(d) /\ ~ d.writer
    BY <2>3, ReleaseInv
  <2> HIDE DEF d
  <2>5. Good(Now) /\ Now.dest = dest
    BY NowGood DEF Now
  <2>6. Good(WithDest(Now, d))
    BY <2>1, <2>4, <2>5, WithDestFits DEF Good, Locks
  <2> QED
    BY <2>1, <2>6, BecomeInv
<1>13. CASE ProgramCloses
  BY <1>13, CloseInv, DestDoesInv DEF ProgramCloses, Inv
<1>14. CASE ProgramAborts
  BY <1>14, AbortInv, DestDoesInv DEF ProgramAborts, Inv
<1>15. CASE ProgramCancels
  BY <1>15, CancelInv, SourceDoesInv DEF ProgramCancels, Inv
<1>16. CASE UNCHANGED vars
  BY <1>16 DEF vars, Inv
<1> QED
  BY <1>1, <1>2, <1>3, <1>4, <1>5, <1>6, <1>7, <1>8, <1>9, <1>10, <1>11, <1>12, <1>13,
     <1>14, <1>15, <1>16 DEF Next

\* The invariant of both streams and the pipe that holds them.
LEMMA InvHolds == Spec => []Inv
<1>1. Init => Inv
  BY NewInv, NewReadableInv DEF Init, Inv, Locks, IdlePipe, W!NewWritable, R!NewReadable
<1> QED
  BY <1>1, StepInv, PTL DEF Spec

(* The sink is called for one thing at a time, and for nothing after close or abort,       *)
(* whatever errors, aborts and closes come between two calls, for any chunks, high water   *)
(* marks and prevent options: algorithms are cleared when the last call is made.           *)
THEOREM SinkProtocolHolds == Spec => []SinkProtocol
<1>1. Inv => SinkProtocol
  BY DEF Inv, WInv, Called, SinkProtocol, Endings
<1> QED
  BY <1>1, InvHolds, PTL

(* No assert() about the state of either stream fails and no cleared algorithm is called,  *)
(* also in a pipe that prevents close, abort or cancel: each promise, request and queued   *)
(* chunk is handed over as the streams expect it.  What may fail there is the use of a     *)
(* reader or writer that a second finalize() finds released, which pipe.asserts counts.    *)
THEOREM StreamAssertsHold == Spec => []StreamAsserts
<1>1. Inv => StreamAsserts
  BY DEF Inv, WInv, Called, RInv, StreamAsserts
<1> QED
  BY <1>1, InvHolds, PTL

(* The streams of a pipe are locked exactly while it is under way, so that they are free    *)
(* once its promise has settled, and a program that waits for the promise may use them.     *)
THEOREM SettledLetsGo ==
  Spec => [](/\ dest.writer <=> pipe.lock = "held"
             /\ source.reader <=> pipe.lock = "held"
             /\ pipe.outcome # "none" <=> pipe.lock = "released")
<1>1. Inv => (/\ dest.writer <=> pipe.lock = "held"
              /\ source.reader <=> pipe.lock = "held"
              /\ pipe.outcome # "none" <=> pipe.lock = "released")
  BY DEF Inv, Locks
<1> QED
  BY <1>1, InvHolds, PTL

-----------------------------------------------------------------------------
(* What is told, and what an operation may not undo.                       *)

\* What the pipe writes.
Ours == ToSet(Chunks)

\* How a promise settles, and the news of the writable stream.
Hows == {"resolved", "rejected"}
WEvents == ({"write"} \X AllChunks) \cup ({"ready", "closed", "close", "abort"} \X Hows)
ReadyTold == <<"ready", "resolved">>
ClosedTold == <<"closed", "rejected">>

\* What a record of news tells, in whatever order.
NewsOf(w) == {w.news[i] : i \in 1 .. Len(w.news)}

\* A stream that takes writes; what is queued in it, and what of the pipe's.
Takes(w) == w.state = "writable" /\ ~ W!CloseQueuedOrInFlight(w)
QueuedIn(w, T) == {i \in DOMAIN w.queue : w.queue[i] \in T}
OursQueued(w) == QueuedIn(w, Ours)
HasOurs(w) ==
  \/ w.inFlightWrite \in Ours
  \/ \E i \in 1 .. Len(w.writeRequests) : w.writeRequests[i] \in Ours

\* A stream that is written to has room for a chunk.
Room(w) == Takes(w) => ~ W!HasBackpressure(w)

\* A stream that closes has chunks of the pipe to write first.
Stuck(w) == w.state = "writable" /\ W!CloseQueuedOrInFlight(w) /\ HasOurs(w)

\* The writer is ready, or has just been told.
Readies(w) == w.ready = "pending" \/ \E e \in NewsOf(w) : e[1] = "ready"

\* The writer waits exactly while it is told to, and no more than a high water mark of the
\* pipe's chunks is queued.
Prompt(w) ==
  /\ w.writer /\ Takes(w) /\ w.ready = "resolved" => ~ w.backpressure
  /\ w.ready = "pending" => w.writer /\ Takes(w) /\ w.backpressure
  /\ Cardinality(OursQueued(w)) <= WritableHWM

\* The backpressure that is told is that of the queue.
Level(w) == Prompt(w) /\ (Takes(w) => w.backpressure = W!HasBackpressure(w))

\* What is told is so: a writer that is told to be ready finds room, a stream that is told
\* to have closed has none of the pipe's chunks left, and one that failed has failed.
Told(w) ==
  /\ w.news \in Seq(WEvents)
  /\ ReadyTold \in NewsOf(w) =>
       Room(w) /\ w.state = "writable" /\ \A e \in NewsOf(w) : e[1] \notin {"close", "abort"}
  /\ ClosedTold \in NewsOf(w) => w.state = "errored" \/ ~ w.writer

\* News of a stream that closes come after the pipe's chunks; with the level, a stream
\* between two operations.
News(w) == Told(w) /\ \A e \in NewsOf(w) : e[1] = "close" => ~ Stuck(w)

Fine(w) == Level(w) /\ News(w)

\* What an operation may not undo.
Goes(v, w) ==
  /\ Readies(w) => Readies(v)
  /\ Takes(v) => Takes(w)
  /\ Stuck(v) => Stuck(w)
  /\ HasOurs(v) => HasOurs(w)
  /\ Room(w) => Room(v)

\* What a stream that fails keeps.
Kept(v, w) ==
  /\ DOMAIN v = DOMAIN w
  /\ v.news \in Seq(WEvents) /\ NewsOf(w) \subseteq NewsOf(v)
  /\ ReadyTold \in NewsOf(v) => ReadyTold \in NewsOf(w)
  /\ ClosedTold \in NewsOf(v) => ClosedTold \in NewsOf(w) \/ v.state = "errored"
  /\ w.state = "errored" => v.state = "errored"
  /\ v.inFlightWrite = w.inFlightWrite
  /\ v.writeRequests = w.writeRequests \/ v.writeRequests = <<>>
  /\ v.queue = w.queue \/ v.queue = <<>>
  /\ v.writer = w.writer
  /\ v.ready # w.ready =>
       v.ready = "rejected" /\ (w.ready = "pending" => <<"ready", "rejected">> \in NewsOf(v))

\* Keeping twice.
LEMMA KeptTwice ==
  ASSUME NEW w, NEW v, NEW u, Kept(v, w), Kept(u, v)
  PROVE  Kept(u, w)
  BY DEF Kept

\* The events are events.
LEMMA EventKinds ==
  /\ ReadyTold \in WEvents /\ ClosedTold \in WEvents
  /\ \A how \in Hows : /\ <<"ready", how>> \in WEvents /\ <<"closed", how>> \in WEvents
                       /\ <<"close", how>> \in WEvents /\ <<"abort", how>> \in WEvents
  /\ \A c \in AllChunks : <<"write", c>> \in WEvents
  BY DEF ReadyTold, ClosedTold, WEvents, Hows

\* An event is told.
LEMMA TellNews ==
  ASSUME NEW w, DOMAIN w = DOMAIN W!NewWritable, w.news \in Seq(WEvents), NEW e \in WEvents
  PROVE  LET v == W!Tell(w, e)
         IN  v.news \in Seq(WEvents) /\ NewsOf(v) = NewsOf(w) \cup {e}
<1> DEFINE v == W!Tell(w, e)
<1>1. v.news = Append(w.news, e)
  BY Fields DEF W!Tell
<1> HIDE DEF v
<1>2. v.news \in Seq(WEvents) /\ Len(v.news) = Len(w.news) + 1 /\ Len(w.news) \in Nat
      /\ v.news[Len(w.news) + 1] = e /\ \A i \in 1 .. Len(w.news) : v.news[i] = w.news[i]
  BY <1>1
<1>3. NewsOf(v) \subseteq NewsOf(w) \cup {e}
  BY <1>2 DEF NewsOf
<1>4. NewsOf(w) \subseteq NewsOf(v) /\ e \in NewsOf(v)
  <2>1. 1 .. Len(w.news) \subseteq 1 .. Len(v.news) /\ Len(w.news) + 1 \in 1 .. Len(v.news)
    BY <1>2
  <2> QED
    BY <1>2, <2>1 DEF NewsOf
<1> QED
  BY <1>2, <1>3, <1>4 DEF v

\* An event that is told, when it is true.
LEMMA TellKept ==
  ASSUME NEW w, DOMAIN w = DOMAIN W!NewWritable, w.news \in Seq(WEvents), NEW e \in WEvents,
         e # ReadyTold, e = ClosedTold => w.state = "errored"
  PROVE  Kept(W!Tell(w, e), w)
<1> DEFINE v == W!Tell(w, e)
<1>1. Alike(v, w) /\ v.ready = w.ready
  BY TellAlike
<1>2. v.news \in Seq(WEvents) /\ NewsOf(v) = NewsOf(w) \cup {e}
  BY TellNews
<1> HIDE DEF v
<1> QED
  BY <1>1, <1>2 DEF Kept, Alike, v

\* Settling the closed promise tells that, and nothing else.
LEMMA SettleClosedNews ==
  ASSUME NEW w, DOMAIN w = DOMAIN W!NewWritable, w.news \in Seq(WEvents), NEW how \in Hows
  PROVE  LET v == W!Settle(w, "closed", how)
         IN  /\ v.news \in Seq(WEvents) /\ NewsOf(w) \subseteq NewsOf(v)
             /\ NewsOf(v) \subseteq NewsOf(w) \cup {<<"closed", how>>}
<1> DEFINE a == [w EXCEPT !.closed = how]
           v == W!Settle(w, "closed", how)
           e == <<"closed", how>>
<1>1. v = w \/ v = W!Tell(a, e)
  BY Fields DEF W!Settle
<1>2. DOMAIN a = DOMAIN w /\ a.news = w.news
  BY Fields
<1> HIDE DEF a
<1>3. e \in WEvents
  BY EventKinds
<1>4. W!Tell(a, e).news \in Seq(WEvents) /\ NewsOf(W!Tell(a, e)) = NewsOf(a) \cup {e}
  BY <1>2, <1>3, TellNews
<1>5. NewsOf(a) = NewsOf(w)
  BY <1>2 DEF NewsOf
<1> HIDE DEF v, e
<1>6. CASE v = w
  BY <1>6 DEF v
<1>7. CASE v = W!Tell(a, e)
  BY <1>4, <1>5, <1>7 DEF v, e
<1> QED
  BY <1>1, <1>6, <1>7

\* Settling the closed promise of a stream that has failed.
LEMMA SettleClosedKept ==
  ASSUME NEW w, DOMAIN w = DOMAIN W!NewWritable, w.news \in Seq(WEvents), NEW how \in Hows,
         how = "rejected" => w.state = "errored"
  PROVE  LET v == W!Settle(w, "closed", how)
         IN  Kept(v, w) /\ v.state = w.state /\ v.ready = w.ready
<1> DEFINE a == [w EXCEPT !.closed = how]
           v == W!Settle(w, "closed", how)
           e == <<"closed", how>>
<1>1. v = w \/ v = W!Tell(a, e)
  BY Fields DEF W!Settle
<1>2. /\ DOMAIN a = DOMAIN w /\ a.news = w.news /\ a.state = w.state /\ a.queue = w.queue
      /\ a.writeRequests = w.writeRequests /\ a.inFlightWrite = w.inFlightWrite
      /\ a.writer = w.writer /\ a.ready = w.ready
  BY Fields
<1> HIDE DEF a
<1>3. e \in WEvents /\ e # ReadyTold /\ (e = ClosedTold => how = "rejected")
  BY EventKinds DEF ReadyTold, ClosedTold
<1>4. Kept(W!Tell(a, e), a) /\ Alike(W!Tell(a, e), a) /\ W!Tell(a, e).ready = a.ready
  BY <1>2, <1>3, TellKept, TellAlike
<1>5. Kept(a, w) /\ Kept(w, w)
  BY <1>2 DEF Kept, NewsOf
<1> HIDE DEF v, e
<1>6. Kept(W!Tell(a, e), w)
  BY <1>4, <1>5, KeptTwice
<1> QED
  BY <1>1, <1>2, <1>4, <1>5, <1>6 DEF v, Alike

\* A ready promise that is replaced by a rejected one.
LEMMA EnsureKept ==
  ASSUME NEW w, DOMAIN w = DOMAIN W!NewWritable, w.news \in Seq(WEvents)
  PROVE  LET v == W!EnsureReadyRejected(w)
         IN  /\ Kept(v, w) /\ v.state = w.state
             /\ v.ready = IF w.writer THEN "rejected" ELSE w.ready
             /\ NewsOf(v) \subseteq NewsOf(w) \cup {<<"ready", "rejected">>}
<1> DEFINE e == <<"ready", "rejected">>
           a == [w EXCEPT !.ready = "rejected"]
           t == W!Tell(a, e)
           v == W!EnsureReadyRejected(w)
<1>1. ~ w.writer => v = w
  BY DEF W!EnsureReadyRejected
<1>2. w.writer /\ w.ready = "pending" => v = [t EXCEPT !.ready = "rejected"]
  BY Fields DEF W!EnsureReadyRejected, W!Settle
<1>3. w.writer /\ w.ready # "pending" => v = a
  BY Fields DEF W!EnsureReadyRejected, W!Settle
<1>4. /\ DOMAIN a = DOMAIN w /\ a.news = w.news /\ a.state = w.state /\ a.queue = w.queue
      /\ a.writeRequests = w.writeRequests /\ a.inFlightWrite = w.inFlightWrite
      /\ a.writer = w.writer /\ a.ready = "rejected"
  BY Fields
<1> HIDE DEF a
<1>5. e \in WEvents /\ e # ReadyTold /\ e # ClosedTold
  BY EventKinds DEF ReadyTold, ClosedTold, Hows
<1>6. t.news \in Seq(WEvents) /\ NewsOf(t) = NewsOf(a) \cup {e}
  BY <1>4, <1>5, TellNews
<1>7. Alike(t, a) /\ t.ready = "rejected"
  BY <1>4, TellAlike
<1>8. [t EXCEPT !.ready = "rejected"].news = t.news
      /\ LET u == [t EXCEPT !.ready = "rejected"] IN Alike(u, t) /\ u.ready = "rejected"
  <2>1. DOMAIN t = DOMAIN W!NewWritable
    BY <1>4, <1>7 DEF Alike
  <2> HIDE DEF t
  <2> QED
    BY <2>1, Fields DEF Alike
<1> HIDE DEF t, v
<1> DEFINE u == [t EXCEPT !.ready = "rejected"]
<1> HIDE DEF u
<1>9. CASE ~ w.writer
  BY <1>1, <1>9 DEF Kept, v
<1>10. CASE w.writer /\ w.ready # "pending"
  BY <1>3, <1>4, <1>10 DEF Kept, NewsOf, v
<1>11. CASE w.writer /\ w.ready = "pending"
  <2>1. NewsOf(u) = NewsOf(w) \cup {e} /\ u.news \in Seq(WEvents)
    BY <1>4, <1>6, <1>8, ZenonT(60) DEF NewsOf, u
  <2>2. /\ DOMAIN u = DOMAIN w /\ u.state = w.state /\ u.queue = w.queue
        /\ u.writeRequests = w.writeRequests /\ u.inFlightWrite = w.inFlightWrite
        /\ u.writer = w.writer /\ u.ready = "rejected"
    BY <1>4, <1>7, <1>8 DEF Alike, u
  <2>3. Kept(u, w)
    BY <1>5, <1>11, <2>1, <2>2 DEF Kept
  <2>4. v = u
    BY <1>2, <1>11 DEF u
  <2> QED
    BY <1>11, <2>1, <2>2, <2>3, <2>4 DEF v, e
<1> QED
  BY <1>9, <1>10, <1>11

\* A stream that is down takes no writes and tells no one to go on.
LEMMA DownFine ==
  ASSUME NEW w, NEW v, Kept(v, w), v.state # "writable", v.ready # "pending",
         ReadyTold \notin NewsOf(w),
         ClosedTold \in NewsOf(w) => w.state = "errored" \/ ~ w.writer,
         w.queue \in Seq(AllChunks \cup {CloseSentinel}), w.writeRequests \in Seq(AllChunks),
         Cardinality(OursQueued(w)) <= WritableHWM
  PROVE  Fine(v) /\ Goes(v, w)
<1>1. Cardinality(OursQueued(v)) <= WritableHWM
  <2>1. v.queue = w.queue => OursQueued(v) = OursQueued(w)
    BY DEF OursQueued, QueuedIn
  <2>2. v.queue = <<>> => OursQueued(v) = {}
    BY DEF OursQueued, QueuedIn
  <2>3. Cardinality({}) = 0
    BY FS_EmptySet
  <2>4. CASE v.queue = w.queue
    BY <2>1, <2>4
  <2>5. CASE v.queue = <<>>
    <3>1. Cardinality(OursQueued(v)) = 0
      BY <2>2, <2>3, <2>5
    <3> QED
      BY <3>1, MarksAssumption
  <2> QED
    BY <2>4, <2>5 DEF Kept
<1>2. ~ Takes(v) /\ ~ Stuck(v) /\ Room(v)
  BY DEF Takes, Stuck, Room
<1>3. Level(v)
  BY <1>1, <1>2 DEF Level, Prompt
<1>4. News(v)
  BY <1>2 DEF News, Told, Kept
<1>5. Readies(w) => Readies(v)
  <2>1. ASSUME w.ready = "pending"
        PROVE  <<"ready", "rejected">> \in NewsOf(v)
    BY <2>1 DEF Kept
  <2>2. ASSUME NEW e \in NewsOf(w), e[1] = "ready"
        PROVE  Readies(v)
    BY <2>2 DEF Kept, Readies
  <2>3. <<"ready", "rejected">>[1] = "ready"
    OBVIOUS
  <2> QED
    BY <2>1, <2>2, <2>3 DEF Readies
<1>6. HasOurs(v) => HasOurs(w)
  <2>1. v.writeRequests = <<>> => Len(v.writeRequests) = 0
    OBVIOUS
  <2> QED
    BY <2>1 DEF HasOurs, Kept
<1> QED
  BY <1>2, <1>3, <1>4, <1>5, <1>6 DEF Fine, Goes

\* An index of the first part is one of both.
LEMMA EarlierPart == \A m, n \in Nat : 1 .. m \subseteq 1 .. m + n
  OBVIOUS

\* An index behind the first part.
LEMMA LaterPart ==
  ASSUME NEW S, NEW p \in Seq(S), NEW q \in Seq(S), NEW i \in 1 .. Len(p) + Len(q),
         i \notin 1 .. Len(p)
  PROVE  i - Len(p) \in 1 .. Len(q) /\ (p \o q)[i] = q[i - Len(p)]
  OBVIOUS

\* What an operation of a failing stream needs.
Typed(w) ==
  /\ DOMAIN w = DOMAIN W!NewWritable /\ w.news \in Seq(WEvents)
  /\ w.writeRequests \in Seq(AllChunks)

\* It stays so.
LEMMA KeptTyped ==
  ASSUME NEW w, NEW v, Typed(w), Kept(v, w)
  PROVE  Typed(v)
<1>1. <<>> \in Seq(AllChunks)
  OBVIOUS
<1> QED
  BY <1>1 DEF Typed, Kept

\* The operation changes none of the fields that are looked at.
LEMMA KeptOther ==
  ASSUME NEW w, Typed(w), NEW v, DOMAIN v = DOMAIN w, v.news = w.news, v.state = w.state,
         v.queue = w.queue, v.writeRequests = w.writeRequests,
         v.inFlightWrite = w.inFlightWrite, v.writer = w.writer, v.ready = w.ready
  PROVE  Kept(v, w)
  BY DEF Kept, NewsOf, Typed

\* A stream that has failed rejects the pending close.
LEMMA RejectCloseKept ==
  ASSUME NEW w, Typed(w), w.state = "errored"
  PROVE  LET v == W!RejectCloseAndClosed(w)
         IN  Kept(v, w) /\ v.state = "errored" /\ v.ready = w.ready
<1> DEFINE a == W!Assert_(w, w.state = "errored" /\ (w.closeRequest => ~ w.inFlightClose))
           b == [a EXCEPT !.closeRequest = FALSE]
           t == W!Tell(b, <<"close", "rejected">>)
           c == IF a.closeRequest THEN t ELSE a
<1>1. W!RejectCloseAndClosed(w) = W!Settle(c, "closed", "rejected")
  BY DEF W!RejectCloseAndClosed
<1>2. Kept(a, w) /\ a.state = w.state /\ a.ready = w.ready
  <2>1. /\ DOMAIN a = DOMAIN w /\ a.news = w.news /\ a.state = w.state
        /\ a.queue = w.queue /\ a.writeRequests = w.writeRequests
        /\ a.inFlightWrite = w.inFlightWrite /\ a.writer = w.writer /\ a.ready = w.ready
    BY Fields DEF Typed, W!Assert_
  <2> HIDE DEF a
  <2> QED
    BY <2>1, KeptOther
<1> HIDE DEF a
<1>3. Typed(a)
  BY <1>2, KeptTyped
<1>4. Kept(b, a) /\ b.state = a.state /\ b.ready = a.ready
  <2>1. /\ DOMAIN b = DOMAIN a /\ b.news = a.news /\ b.state = a.state
        /\ b.queue = a.queue /\ b.writeRequests = a.writeRequests
        /\ b.inFlightWrite = a.inFlightWrite /\ b.writer = a.writer /\ b.ready = a.ready
    BY <1>3, Fields DEF Typed
  <2> HIDE DEF b
  <2> QED
    BY <1>3, <2>1, KeptOther
<1> HIDE DEF b
<1>5. Typed(b)
  BY <1>3, <1>4, KeptTyped
<1>6. Kept(t, b) /\ t.state = b.state /\ t.ready = b.ready
  <2>1. LET e == <<"close", "rejected">> IN e \in WEvents /\ e # ReadyTold /\ e # ClosedTold
    BY EventKinds DEF ReadyTold, ClosedTold, Hows
  <2> QED
    BY <1>5, <2>1, TellKept, TellAlike DEF Typed, Alike
<1> HIDE DEF t
<1>7. Kept(c, w) /\ c.state = "errored" /\ c.ready = w.ready
  BY <1>2, <1>4, <1>6, KeptTwice
<1> HIDE DEF c
<1>8. Typed(c)
  BY <1>7, KeptTyped
<1>9. LET v == W!Settle(c, "closed", "rejected")
      IN  Kept(v, c) /\ v.state = c.state /\ v.ready = c.ready
  BY <1>7, <1>8, SettleClosedKept DEF Typed, Hows
<1> QED
  BY <1>1, <1>7, <1>9, KeptTwice

\* All requests are rejected at once.
LEMMA FinishErroringKept ==
  ASSUME NEW w, Typed(w)
  PROVE  LET v == W!FinishErroring(w)
         IN  w.pendingAbort \in {"none", "late", "first"} =>
               Kept(v, w) /\ v.state = "errored" /\ v.ready = w.ready
<1> DEFINE rejected == [i \in 1 .. Len(w.writeRequests) |-> <<"write", w.writeRequests[i]>>]
           a == W!Assert_(w, w.state = "erroring" /\ ~ W!HasOperationInFlight(w))
           b == [a EXCEPT !.state = "errored", !.queue = <<>>, !.writeRequests = <<>>,
                          !.news = @ \o rejected, !.pendingAbort = "none"]
<1>1. /\ DOMAIN b = DOMAIN w /\ b.news = w.news \o rejected /\ b.state = "errored"
      /\ b.queue = <<>> /\ b.writeRequests = <<>> /\ b.inFlightWrite = w.inFlightWrite
      /\ b.writer = w.writer /\ b.ready = w.ready
  BY Fields DEF Typed, W!Assert_
<1>2. Kept(b, w)
  <2>1. rejected \in Seq({"write"} \X AllChunks)
    BY DEF Typed
  <2>2. Len(rejected) = Len(w.writeRequests) /\ Len(rejected) \in Nat
    BY DEF Typed
  <2> HIDE DEF rejected, b
  <2>3. rejected \in Seq(WEvents)
    BY <2>1 DEF WEvents
  <2>4. /\ b.news \in Seq(WEvents) /\ Len(b.news) = Len(w.news) + Len(rejected)
        /\ Len(w.news) \in Nat
        /\ \A i \in 1 .. Len(w.news) : b.news[i] = w.news[i]
    BY <1>1, <2>3 DEF Typed
  <2>5. ASSUME NEW i \in 1 .. Len(b.news), i \notin 1 .. Len(w.news)
        PROVE  i - Len(w.news) \in 1 .. Len(rejected) /\ b.news[i] = rejected[i - Len(w.news)]
    <3>1. w.news \in Seq(WEvents) /\ i \in 1 .. Len(w.news) + Len(rejected)
      BY <2>4 DEF Typed
    <3> QED
      BY <1>1, <2>3, <2>5, <3>1, LaterPart
  <2>6. NewsOf(w) \subseteq NewsOf(b)
    <3>1. 1 .. Len(w.news) \subseteq 1 .. Len(b.news)
      BY <2>2, <2>4, EarlierPart
    <3> QED
      BY <2>4, <3>1 DEF NewsOf
  <2>7. \A e \in NewsOf(b) : e \in NewsOf(w) \/ e[1] = "write"
    <3>1. ASSUME NEW i \in 1 .. Len(b.news)
          PROVE  b.news[i] \in NewsOf(w) \/ b.news[i][1] = "write"
      <4>1. CASE i \in 1 .. Len(w.news)
        BY <2>4, <4>1 DEF NewsOf
      <4>2. CASE i \notin 1 .. Len(w.news)
        <5>1. rejected[i - Len(w.news)] \in {"write"} \X AllChunks
          BY <2>1, <2>5, <4>2
        <5> QED
          BY <2>5, <4>2, <5>1
      <4> QED
        BY <4>1, <4>2
    <3> QED
      BY <3>1 DEF NewsOf
  <2>8. ReadyTold[1] # "write" /\ ClosedTold[1] # "write"
    BY DEF ReadyTold, ClosedTold
  <2> QED
    BY <1>1, <2>4, <2>6, <2>7, <2>8 DEF Kept
<1> HIDE DEF rejected, a
<1>3. Typed(b)
  BY <1>2, KeptTyped
<1>4. W!FinishErroring(w) =
        CASE w.pendingAbort = "none" -> W!RejectCloseAndClosed(b)
          [] w.pendingAbort = "late" ->
               W!RejectCloseAndClosed(W!Tell(b, <<"abort", "rejected">>))
          [] w.pendingAbort = "first" ->
               [W!CallSink(b, "abort", "abort") EXCEPT !.hasAlgorithms = FALSE]
  BY DEF W!FinishErroring, a, rejected
<1> HIDE DEF b
<1>5. CASE w.pendingAbort = "none"
  BY <1>1, <1>2, <1>3, <1>4, <1>5, RejectCloseKept, KeptTwice
<1>6. CASE w.pendingAbort = "late"
  <2> DEFINE t == W!Tell(b, <<"abort", "rejected">>)
  <2>1. LET e == <<"abort", "rejected">> IN e \in WEvents /\ e # ReadyTold /\ e # ClosedTold
    BY EventKinds DEF ReadyTold, ClosedTold, Hows
  <2>2. Kept(t, b) /\ t.state = b.state /\ t.ready = b.ready
    BY <1>3, <2>1, TellKept, TellAlike DEF Typed, Alike
  <2>3. W!FinishErroring(w) = W!RejectCloseAndClosed(t)
    BY <1>4, <1>6
  <2> HIDE DEF t
  <2>4. Typed(t)
    BY <1>3, <2>2, KeptTyped
  <2>5. LET v == W!RejectCloseAndClosed(t)
        IN  Kept(v, t) /\ v.state = "errored" /\ v.ready = t.ready
    BY <1>1, <2>2, <2>4, RejectCloseKept
  <2>6. Kept(t, w)
    BY <1>2, <2>2, KeptTwice
  <2> QED
    BY <1>1, <2>2, <2>3, <2>5, <2>6, KeptTwice
<1>7. CASE w.pendingAbort = "first"
  <2> DEFINE d == [W!CallSink(b, "abort", "abort") EXCEPT !.hasAlgorithms = FALSE]
  <2>1. /\ DOMAIN d = DOMAIN b /\ d.news = b.news /\ d.state = b.state
        /\ d.queue = b.queue /\ d.writeRequests = b.writeRequests
        /\ d.inFlightWrite = b.inFlightWrite /\ d.writer = b.writer /\ d.ready = b.ready
    BY <1>3, Fields DEF Typed, W!CallSink, W!Assert_
  <2>2. W!FinishErroring(w) = d
    BY <1>4, <1>7
  <2> HIDE DEF d
  <2>3. Kept(d, b)
    BY <1>3, <2>1, KeptOther
  <2> QED
    BY <1>1, <1>2, <2>1, <2>2, <2>3, KeptTwice
<1> QED
  BY <1>5, <1>6, <1>7

\* The stream starts to fail: the writer is told.
LEMMA StartErroringKept ==
  ASSUME NEW w, Typed(w), w.pendingAbort \in {"none", "late", "first"},
         w.state = "writable"
  PROVE  LET v == W!StartErroring(w)
         IN  /\ Kept(v, w) /\ v.state # "writable"
             /\ v.ready = IF w.writer THEN "rejected" ELSE w.ready
<1> DEFINE a == [W!Assert_(w, w.state = "writable" /\ ~ w.storedError)
                 EXCEPT !.state = "erroring", !.storedError = TRUE]
           b == W!EnsureReadyRejected(a)
<1>1. /\ DOMAIN a = DOMAIN w /\ a.news = w.news /\ a.state = "erroring"
      /\ a.queue = w.queue /\ a.writeRequests = w.writeRequests
      /\ a.inFlightWrite = w.inFlightWrite /\ a.writer = w.writer /\ a.ready = w.ready
      /\ a.pendingAbort = w.pendingAbort
  BY Fields DEF Typed, W!Assert_
<1>2. W!StartErroring(w) = IF ~ W!HasOperationInFlight(b) /\ b.started
                           THEN W!FinishErroring(b) ELSE b
  BY DEF W!StartErroring
<1> HIDE DEF a
<1>3. Kept(a, w) /\ Typed(a)
  BY <1>1 DEF Kept, Typed, NewsOf
<1>4. /\ Kept(b, a) /\ b.state = "erroring"
      /\ b.ready = IF w.writer THEN "rejected" ELSE w.ready
  BY <1>1, <1>3, EnsureKept DEF Typed
<1>5. b.pendingAbort = w.pendingAbort
  BY <1>1, <1>3, EnsureAlike DEF Typed, Alike
<1> HIDE DEF b
<1>6. Typed(b)
  BY <1>3, <1>4, KeptTyped
<1>7. Kept(b, w)
  BY <1>3, <1>4, KeptTwice
<1>8. LET v == W!FinishErroring(b) IN Kept(v, b) /\ v.state = "errored" /\ v.ready = b.ready
  BY <1>5, <1>6, FinishErroringKept
<1> QED
  BY <1>2, <1>4, <1>7, <1>8, KeptTwice

\* The fields that what is told depends on.
Bare(v, w) ==
  /\ v.state = w.state /\ v.queue = w.queue /\ v.writeRequests = w.writeRequests
  /\ v.inFlightWrite = w.inFlightWrite /\ v.inFlightClose = w.inFlightClose
  /\ v.closeRequest = w.closeRequest /\ v.backpressure = w.backpressure
  /\ v.writer = w.writer /\ v.ready = w.ready

\* They differ in nothing that is said of a stream.
LEMMA BareSame ==
  ASSUME NEW v, NEW w, Bare(v, w)
  PROVE  /\ Takes(v) <=> Takes(w)
         /\ OursQueued(v) = OursQueued(w)
         /\ HasOurs(v) <=> HasOurs(w)
         /\ Room(v) <=> Room(w)
         /\ Stuck(v) <=> Stuck(w)
         /\ Level(w) => Level(v)
         /\ Prompt(w) => Prompt(v)
<1>1. Takes(v) <=> Takes(w)
  BY DEF Bare, Takes, W!CloseQueuedOrInFlight
<1>2. OursQueued(v) = OursQueued(w) /\ (HasOurs(v) <=> HasOurs(w))
  BY DEF Bare, OursQueued, QueuedIn, HasOurs
<1>3. W!HasBackpressure(v) = W!HasBackpressure(w)
  BY DEF Bare, W!HasBackpressure
<1>4. Stuck(v) <=> Stuck(w)
  BY <1>2 DEF Bare, Stuck, W!CloseQueuedOrInFlight
<1>5. Prompt(w) => Prompt(v)
  BY <1>1, <1>2 DEF Bare, Prompt
<1> QED
  BY <1>1, <1>2, <1>3, <1>4, <1>5 DEF Room, Level, Bare

\* So what holds of one holds of the other.
LEMMA BareFine ==
  ASSUME NEW v, NEW w, Bare(v, w), v.news = w.news
  PROVE  Goes(v, w) /\ (Fine(w) => Fine(v)) /\ (News(w) => News(v))
<1>1. NewsOf(v) = NewsOf(w) /\ v.state = w.state /\ v.ready = w.ready /\ v.writer = w.writer
  BY DEF NewsOf, Bare
<1>2. Goes(v, w)
  BY <1>1, BareSame DEF Goes, Readies
<1>3. News(w) => News(v)
  BY <1>1, BareSame DEF News, Told
<1> QED
  BY <1>2, <1>3, BareSame DEF Fine

\* One operation after the other.
LEMMA GoesTwice ==
  ASSUME NEW w, NEW v, NEW u, Goes(v, w), Goes(u, v)
  PROVE  Goes(u, w)
  BY DEF Goes

\* An event is told that is so.
LEMMA TellFine ==
  ASSUME NEW w, Typed(w), NEW e \in WEvents, e # ReadyTold,
         e = ClosedTold => w.state = "errored",
         e[1] \in {"close", "abort"} => ReadyTold \notin NewsOf(w),
         e[1] = "close" => ~ Stuck(w)
  PROVE  LET v == W!Tell(w, e)
         IN  Goes(v, w) /\ (Fine(w) => Fine(v)) /\ (News(w) => News(v)) /\ Bare(v, w)
<1> DEFINE v == W!Tell(w, e)
<1>1. Bare(v, w)
  BY TellAlike DEF Typed, Alike, Bare
<1>2. v.news \in Seq(WEvents) /\ NewsOf(v) = NewsOf(w) \cup {e}
  BY TellNews DEF Typed
<1> HIDE DEF v
<1>3. Goes(v, w)
  BY <1>1, <1>2, BareSame DEF Goes, Readies, Bare
<1>4. News(w) => News(v)
  BY <1>1, <1>2, BareSame DEF News, Told, Bare
<1> QED
  BY <1>1, <1>3, <1>4, BareSame DEF Fine, v

-----------------------------------------------------------------------------
(* Errors.                                                                 *)

\* A stream begins to fail.
LEMMA StartErroringFine ==
  ASSUME NEW w, Shape(w), Fine(w), w.state = "writable", ReadyTold \notin NewsOf(w)
  PROVE  LET v == W!StartErroring(w) IN Fine(v) /\ Goes(v, w) /\ v.state # "writable"
<1>1. Typed(w) /\ w.queue \in Seq(AllChunks \cup {CloseSentinel})
  BY DEF Fine, News, Told, Shape, Typed
<1>2. ClosedTold \in NewsOf(w) => w.state = "errored" \/ ~ w.writer
  BY DEF Fine, News, Told
<1> DEFINE v == W!StartErroring(w)
<1>3. /\ Kept(v, w) /\ v.state # "writable"
      /\ v.ready = IF w.writer THEN "rejected" ELSE w.ready
  BY <1>1, <1>2, StartErroringKept DEF Shape
<1> HIDE DEF v
<1>4. v.ready # "pending"
  BY <1>3 DEF Fine, Level, Prompt
<1>5. Cardinality(OursQueued(w)) <= WritableHWM /\ w.writeRequests \in Seq(AllChunks)
  BY <1>1 DEF Fine, Level, Prompt, Typed
<1> QED
  BY <1>1, <1>2, <1>3, <1>4, <1>5, DownFine DEF v

\* A stream fails for good.
LEMMA FinishErroringFine ==
  ASSUME NEW w, Shape(w), Fine(w), w.state = "erroring"
  PROVE  LET v == W!FinishErroring(w) IN Fine(v) /\ Goes(v, w) /\ v.state = "errored"
<1>1. Typed(w) /\ w.queue \in Seq(AllChunks \cup {CloseSentinel})
  BY DEF Fine, News, Told, Shape, Typed
<1>2. ReadyTold \notin NewsOf(w) /\ (ClosedTold \in NewsOf(w) => w.state = "errored" \/ ~ w.writer)
  BY DEF Fine, News, Told
<1> DEFINE v == W!FinishErroring(w)
<1>3. Kept(v, w) /\ v.state = "errored" /\ v.ready = w.ready
  BY <1>1, FinishErroringKept DEF Shape
<1> HIDE DEF v
<1>4. v.ready # "pending"
  BY <1>3 DEF Fine, Level, Prompt, Takes
<1>5. Cardinality(OursQueued(w)) <= WritableHWM /\ w.writeRequests \in Seq(AllChunks)
  BY <1>1 DEF Fine, Level, Prompt, Typed
<1> QED
  BY <1>1, <1>2, <1>3, <1>4, <1>5, DownFine DEF v

\* A stream that has failed rejects its promises.
LEMMA RejectCloseFine ==
  ASSUME NEW w, Shape(w), Fine(w), w.state = "errored"
  PROVE  LET v == W!RejectCloseAndClosed(w) IN Fine(v) /\ Goes(v, w)
<1>1. Typed(w) /\ w.queue \in Seq(AllChunks \cup {CloseSentinel})
  BY DEF Fine, News, Told, Shape, Typed
<1>2. ReadyTold \notin NewsOf(w)
  BY DEF Fine, News, Told
<1> DEFINE v == W!RejectCloseAndClosed(w)
<1>3. Kept(v, w) /\ v.state = "errored" /\ v.ready = w.ready
  BY <1>1, RejectCloseKept
<1> HIDE DEF v
<1>4. v.ready # "pending"
  BY <1>3 DEF Fine, Level, Prompt, Takes
<1>5. Cardinality(OursQueued(w)) <= WritableHWM /\ w.writeRequests \in Seq(AllChunks)
  BY <1>1 DEF Fine, Level, Prompt, Typed
<1> QED
  BY <1>1, <1>2, <1>3, <1>4, <1>5, DownFine DEF v

\* The sink rejects.
LEMMA RejectionFine ==
  ASSUME NEW w, Shape(w), Fine(w), w.state \in {"writable", "erroring"},
         ReadyTold \notin NewsOf(w)
  PROVE  LET v == W!DealWithRejection(w) IN Fine(v) /\ Goes(v, w)
  BY StartErroringFine, FinishErroringFine DEF W!DealWithRejection

\* error() of the controller, before anything is told.
LEMMA ControllerErrorFine ==
  ASSUME NEW w, Shape(w), Fine(w), w.state = "writable", ReadyTold \notin NewsOf(w)
  PROVE  LET v == W!ControllerError(w) IN Fine(v) /\ Goes(v, w) /\ v.state # "writable"
<1> DEFINE a == [w EXCEPT !.hasAlgorithms = FALSE]
<1>1. Bare(a, w) /\ a.news = w.news /\ Shape(a)
  BY Fields DEF Shape, Bare
<1> HIDE DEF a
<1>2. Fine(a) /\ Goes(a, w) /\ a.state = "writable" /\ ReadyTold \notin NewsOf(a)
  BY <1>1, BareFine DEF Bare, NewsOf
<1>3. LET v == W!StartErroring(a) IN Fine(v) /\ Goes(v, a) /\ v.state # "writable"
  BY <1>1, <1>2, StartErroringFine
<1> QED
  BY <1>2, <1>3, GoesTwice DEF W!ControllerError, a

-----------------------------------------------------------------------------
(* How many chunks are queued.                                             *)

\* A set of indexes that is shifted is no larger.
LEMMA ShiftCount ==
  ASSUME NEW m \in Nat, NEW I \in SUBSET (1 .. m), NEW J \in SUBSET Nat,
         \A j \in J : j + 1 \in I
  PROVE  IsFiniteSet(J) /\ Cardinality(J) <= Cardinality(I)
<1>1. IsFiniteSet(1 .. m)
  BY FS_Interval
<1>2. IsFiniteSet(I)
  BY <1>1, FS_Subset
<1> DEFINE f == [j \in J |-> j + 1]
<1>3. f \in Injection(J, I)
  BY DEF Injection, IsInjective
<1> QED
  BY <1>2, <1>3, FS_Injection

\* The entry at the head is taken off.
LEMMA TailCount ==
  ASSUME NEW w, NEW a, NEW S, w.queue \in Seq(S), w.queue # <<>>, a.queue = Tail(w.queue), NEW T
  PROVE  Cardinality(QueuedIn(a, T)) <= Cardinality(QueuedIn(w, T))
<1> DEFINE I == QueuedIn(w, T)
           J == QueuedIn(a, T)
<1>1. I \in SUBSET (1 .. Len(w.queue)) /\ Len(w.queue) \in Nat
  BY DEF QueuedIn
<1>2. /\ a.queue \in Seq(S) /\ Len(a.queue) = Len(w.queue) - 1
      /\ \A j \in 1 .. Len(a.queue) : a.queue[j] = w.queue[j + 1] /\ j + 1 \in 1 .. Len(w.queue)
  OBVIOUS
<1>3. J \in SUBSET Nat /\ \A j \in J : j + 1 \in I
  BY <1>2 DEF QueuedIn
<1> HIDE DEF I, J
<1>4. Cardinality(J) <= Cardinality(I)
  BY <1>1, <1>3, ShiftCount
<1> QED
  BY <1>4 DEF I, J

\* A chunk is put at the end.
LEMMA OursAppend ==
  ASSUME NEW w, NEW a, NEW S, w.queue \in Seq(S), NEW c \in S, a.queue = Append(w.queue, c)
  PROVE  /\ Cardinality(OursQueued(w)) \in Nat /\ Cardinality(OursQueued(a)) \in Nat
         /\ Cardinality(OursQueued(a)) <= Cardinality(OursQueued(w)) + 1
         /\ c \notin Ours => Cardinality(OursQueued(a)) = Cardinality(OursQueued(w))
<1> DEFINE I == OursQueued(w)
           J == OursQueued(a)
           n == Len(w.queue)
<1>1. /\ DOMAIN a.queue = 1 .. n + 1 /\ DOMAIN w.queue = 1 .. n /\ n \in Nat
      /\ \A i \in 1 .. n : a.queue[i] = w.queue[i]
      /\ a.queue[n + 1] = c
  OBVIOUS
<1> HIDE DEF n
<1>2. \A i : i \in 1 .. n + 1 <=> i \in 1 .. n \/ i = n + 1
  BY <1>1
<1>3. J = IF c \in Ours THEN I \cup {n + 1} ELSE I
  BY <1>1, <1>2 DEF OursQueued, QueuedIn
<1>4. IsFiniteSet(I)
  <2>1. IsFiniteSet(1 .. n) /\ I \subseteq 1 .. n
    BY <1>1, FS_Interval DEF OursQueued, QueuedIn
  <2> QED
    BY <2>1, FS_Subset
<1> HIDE DEF I, J
<1>5. Cardinality(I) \in Nat
  BY <1>4, FS_CardinalityType
<1>6. Cardinality(I \cup {n + 1}) = Cardinality(I)
      \/ Cardinality(I \cup {n + 1}) = Cardinality(I) + 1
  BY <1>4, FS_AddElement
<1>7. Cardinality(J) \in Nat /\ Cardinality(J) <= Cardinality(I) + 1
      /\ (c \notin Ours => Cardinality(J) = Cardinality(I))
  BY <1>3, <1>5, <1>6
<1> QED
  BY <1>5, <1>7 DEF I, J

-----------------------------------------------------------------------------
(* Backpressure of the writable stream.                                    *)

\* The writable stream counts as this module does.
LEMMA SameCount == \A S : W!Cardinality(S) = Cardinality(S)
  BY DEF W!Cardinality, Cardinality

\* The chunks that are queued, and those of the pipe among them.
LEMMA Filled ==
  ASSUME NEW w, Shape(w)
  PROVE  LET n == Cardinality({i \in DOMAIN w.queue : w.queue[i] \in AllChunks})
         IN  /\ W!HasBackpressure(w) <=> n >= WritableHWM
             /\ n \in Nat /\ Cardinality(OursQueued(w)) <= n
             /\ Cardinality(OursQueued(w)) \in Nat
<1> DEFINE A == {i \in DOMAIN w.queue : w.queue[i] \in AllChunks}
<1>1. CloseSentinel \notin AllChunks
  BY ChunksAssumption DEF AllChunks
<1>2. \A i \in DOMAIN w.queue : w.queue[i] \in AllChunks \cup {CloseSentinel}
  BY DEF Shape
<1>3. {i \in DOMAIN w.queue : w.queue[i] # CloseSentinel} = A
  BY <1>1, <1>2
<1>4. OursQueued(w) \subseteq A
  BY DEF OursQueued, QueuedIn, Ours, AllChunks
<1>5. IsFiniteSet(A)
  <2>1. DOMAIN w.queue = 1 .. Len(w.queue) /\ Len(w.queue) \in Nat
    BY DEF Shape
  <2>2. IsFiniteSet(1 .. Len(w.queue)) /\ A \subseteq 1 .. Len(w.queue)
    BY <2>1, FS_Interval
  <2> QED
    BY <2>2, FS_Subset
<1>8. W!HasBackpressure(w) <=> Cardinality(A) >= WritableHWM
  <2> DEFINE B == {i \in DOMAIN w.queue : w.queue[i] # CloseSentinel}
  <2>1. W!HasBackpressure(w) <=> Cardinality(B) >= WritableHWM
    BY SameCount DEF W!HasBackpressure
  <2>2. B = A
    BY <1>3
  <2> HIDE DEF A, B
  <2> QED
    BY <2>1, <2>2
<1> HIDE DEF A
<1>6. /\ IsFiniteSet(OursQueued(w)) /\ Cardinality(OursQueued(w)) <= Cardinality(A)
  BY <1>4, <1>5, FS_Subset
<1>7. Cardinality(A) \in Nat /\ Cardinality(OursQueued(w)) \in Nat
  BY <1>5, <1>6, FS_CardinalityType
<1> QED
  BY <1>6, <1>7, <1>8 DEF A

\* Backpressure is told as it is.
LEMMA UpdateFine ==
  ASSUME NEW w, WInv(w), Prompt(w), News(w),
         Takes(w) => \A e \in NewsOf(w) : e[1] \notin {"close", "abort"}
  PROVE  LET v == W!UpdateIfOpen(w) IN Fine(v) /\ Goes(v, w)
<1> DEFINE b == W!HasBackpressure(w)
           a == [W!Assert_(w, w.state = "writable" /\ ~ W!CloseQueuedOrInFlight(w))
                 EXCEPT !.backpressure = b]
           p == [a EXCEPT !.ready = "pending"]
           c == W!Assert_(a, a.ready = "pending")
           d == [c EXCEPT !.ready = "resolved"]
           v == W!UpdateIfOpen(w)
<1>1. CASE ~ Takes(w)
  <2>1. v = w
    BY <1>1 DEF W!UpdateIfOpen, Takes
  <2>2. Bare(w, w)
    BY DEF Bare
  <2> QED
    BY <1>1, <2>1, <2>2, BareFine DEF Fine, Level
<1>2. CASE Takes(w)
  <2>1. b \in BOOLEAN
    BY DEF W!HasBackpressure
  <2>2. v = IF ~ w.writer \/ b = w.backpressure THEN a
            ELSE IF b THEN p ELSE W!Settle(c, "ready", "resolved")
    BY <1>2 DEF W!UpdateIfOpen, W!UpdateBackpressure, Takes
  <2>3. DOMAIN w = DOMAIN W!NewWritable /\ w.backpressure \in BOOLEAN /\ w.writer \in BOOLEAN
    BY DEF WInv, Shape
  <2> HIDE DEF b
  <2>4. /\ DOMAIN a = DOMAIN w /\ a.news = w.news /\ a.ready = w.ready /\ a.backpressure = b
        /\ a.state = w.state /\ a.queue = w.queue /\ a.writeRequests = w.writeRequests
        /\ a.inFlightWrite = w.inFlightWrite /\ a.inFlightClose = w.inFlightClose
        /\ a.closeRequest = w.closeRequest /\ a.writer = w.writer
    BY <2>3, Fields DEF W!Assert_
  <2> HIDE DEF a
  \* What is as before whatever becomes of the ready promise.
  <2>5. ASSUME NEW u, u.state = w.state, u.queue = w.queue, u.writeRequests = w.writeRequests,
               u.inFlightWrite = w.inFlightWrite, u.inFlightClose = w.inFlightClose,
               u.closeRequest = w.closeRequest, u.writer = w.writer, u.backpressure = b
        PROVE  /\ Takes(u) /\ ~ Stuck(u) /\ (HasOurs(u) <=> HasOurs(w)) /\ (Room(u) <=> ~ b)
               /\ (Room(w) <=> ~ b) /\ W!HasBackpressure(u) = b /\ u.state = "writable"
               /\ Cardinality(OursQueued(u)) <= WritableHWM
    <3>1. Takes(u) /\ ~ Stuck(u) /\ u.state = "writable"
      BY <1>2, <2>5 DEF Takes, Stuck, W!CloseQueuedOrInFlight
    <3>2. W!HasBackpressure(u) = b
      BY <2>5 DEF b, W!HasBackpressure
    <3>3. HasOurs(u) <=> HasOurs(w)
      BY <2>5 DEF HasOurs
    <3>4. Cardinality(OursQueued(u)) <= WritableHWM
      BY <2>5 DEF OursQueued, QueuedIn, Prompt
    <3> QED
      BY <1>2, <2>1, <3>1, <3>2, <3>3, <3>4 DEF Room, b
  <2>6. CASE ~ w.writer \/ b = w.backpressure
    <3>1. Level(a)
      BY <1>2, <2>1, <2>4, <2>5, <2>6 DEF Level, Prompt
    <3>2. NewsOf(a) = NewsOf(w)
      BY <2>4 DEF NewsOf
    <3>3. Goes(a, w)
      BY <1>2, <2>1, <2>4, <2>5, <3>2 DEF Goes, Readies
    <3>4. News(a)
      BY <2>4, <2>5, <3>2 DEF News, Told
    <3> QED
      BY <2>2, <2>6, <3>1, <3>3, <3>4 DEF Fine
  <2>7. CASE w.writer /\ b # w.backpressure /\ b
    <3>1. /\ p.ready = "pending" /\ p.news = w.news /\ p.backpressure = b
          /\ p.state = w.state /\ p.queue = w.queue /\ p.writeRequests = w.writeRequests
          /\ p.inFlightWrite = w.inFlightWrite /\ p.inFlightClose = w.inFlightClose
          /\ p.closeRequest = w.closeRequest /\ p.writer = w.writer
      BY <2>3, <2>4, Fields
    <3> HIDE DEF p
    <3>2. Level(p)
      BY <1>2, <2>1, <2>5, <2>7, <3>1 DEF Level, Prompt
    <3>3. NewsOf(p) = NewsOf(w)
      BY <3>1 DEF NewsOf
    <3>4. Goes(p, w)
      BY <1>2, <2>1, <2>5, <3>1, <3>3 DEF Goes, Readies
    <3>5. News(p)
      BY <2>5, <3>1, <3>3 DEF News, Told
    <3> QED
      BY <2>2, <2>7, <3>2, <3>4, <3>5 DEF Fine
  <2>8. CASE w.writer /\ b # w.backpressure /\ ~ b
    <3>1. w.ready = "pending"
      BY <1>2, <2>1, <2>3, <2>8 DEF WInv, Waits, Takes
    <3> DEFINE t == W!Tell(d, ReadyTold)
    <3>2. /\ DOMAIN d = DOMAIN w /\ d.ready = "resolved" /\ d.news = w.news
          /\ d.backpressure = b
          /\ d.state = w.state /\ d.queue = w.queue /\ d.writeRequests = w.writeRequests
          /\ d.inFlightWrite = w.inFlightWrite /\ d.inFlightClose = w.inFlightClose
          /\ d.closeRequest = w.closeRequest /\ d.writer = w.writer
      BY <2>3, <2>4, Fields DEF W!Assert_
    <3>3. v = t
      <4>1. c.writer /\ c["ready"] = "pending"
        BY <2>3, <2>4, <2>8, <3>1, Fields DEF W!Assert_
      <4>2. W!Settle(c, "ready", "resolved") = t
        BY <4>1 DEF W!Settle, ReadyTold
      <4> QED
        BY <2>2, <2>8, <4>2
    <3> HIDE DEF c, d
    <3>4. t.news \in Seq(WEvents) /\ NewsOf(t) = NewsOf(d) \cup {ReadyTold}
      BY <2>3, <3>2, EventKinds, TellNews DEF News, Told
    <3>5. Alike(t, d) /\ t.ready = "resolved"
      BY <2>3, <3>2, TellAlike
    <3> HIDE DEF t
    <3>6. NewsOf(d) = NewsOf(w)
      BY <3>2 DEF NewsOf
    <3>7. /\ Takes(t) /\ ~ Stuck(t) /\ (HasOurs(t) <=> HasOurs(w)) /\ Room(t) /\ ~ b
          /\ W!HasBackpressure(t) = b /\ t.state = "writable"
          /\ Cardinality(OursQueued(t)) <= WritableHWM
      BY <2>5, <2>8, <3>2, <3>5 DEF Alike
    <3>8. Level(t)
      BY <2>8, <3>2, <3>5, <3>7 DEF Level, Prompt, Alike
    <3>9. Goes(t, w)
      <4>1. Readies(t)
        <5>1. ReadyTold[1] = "ready" /\ ReadyTold \in NewsOf(t)
          BY <3>4 DEF ReadyTold
        <5> QED
          BY <5>1 DEF Readies
      <4> QED
        BY <1>2, <3>7, <4>1 DEF Goes
    <3>10. News(t)
      <4>1. ReadyTold[1] = "ready" /\ ReadyTold # ClosedTold
        BY DEF ReadyTold, ClosedTold
      <4> QED
        BY <1>2, <2>8, <3>4, <3>6, <3>7, <4>1 DEF News, Told, Takes
    <3> QED
      BY <3>3, <3>8, <3>9, <3>10 DEF Fine
  <2> QED
    BY <2>1, <2>6, <2>7, <2>8
<1> QED
  BY <1>1, <1>2

\* At the sentinel.
LEMMA ProcessCloseFine ==
  ASSUME NEW w, Idle(w), Fine(w), w.state = "writable", w.queue # <<>>,
         Head(w.queue) = CloseSentinel
  PROVE  LET v == W!ProcessClose(w) IN Fine(v) /\ Goes(v, w)
<1> DEFINE v == W!ProcessClose(w)
<1>1. w.queue[1] = CloseSentinel /\ 1 \in 1 .. Len(w.queue)
  BY DEF Idle, WInv, Shape
<1>2. w.closeRequest
  BY <1>1 DEF Idle, WInv, Queued
<1>3. /\ v.inFlightClose = TRUE /\ v.closeRequest = FALSE /\ v.queue = Tail(w.queue)
      /\ v.news = w.news /\ v.ready = w.ready /\ v.backpressure = w.backpressure
      /\ v.state = w.state /\ v.writeRequests = w.writeRequests
      /\ v.inFlightWrite = w.inFlightWrite /\ v.writer = w.writer
  BY Fields DEF Idle, WInv, Shape, W!ProcessClose, W!CallSink, W!Assert_
<1> HIDE DEF v
<1>4. ~ Takes(v) /\ ~ Takes(w) /\ (Stuck(v) <=> Stuck(w)) /\ (HasOurs(v) <=> HasOurs(w))
  BY <1>2, <1>3 DEF Takes, Stuck, HasOurs, W!CloseQueuedOrInFlight
<1>5. Cardinality(OursQueued(v)) <= WritableHWM
  <2>1. w.queue \in Seq(AllChunks \cup {CloseSentinel})
    BY DEF Idle, WInv, Shape
  <2>2. Cardinality(OursQueued(v)) <= Cardinality(OursQueued(w))
    BY <1>3, <2>1, TailCount DEF OursQueued
  <2>3. Cardinality(OursQueued(w)) \in Nat
    BY Filled DEF Idle, WInv
  <2>4. Shape(v)
    BY ProcessCloseInv DEF WInv, v
  <2>5. Cardinality(OursQueued(v)) \in Nat
    BY <2>4, Filled
  <2> QED
    BY <2>2, <2>3, <2>5, MarksAssumption DEF Fine, Level, Prompt
<1>6. NewsOf(v) = NewsOf(w)
  BY <1>3 DEF NewsOf
<1>7. Level(v)
  BY <1>3, <1>4, <1>5 DEF Fine, Level, Prompt
<1>8. Goes(v, w)
  BY <1>3, <1>4, <1>6 DEF Goes, Readies, Room
<1>9. News(v)
  BY <1>3, <1>4, <1>6 DEF Fine, News, Told, Room
<1> QED
  BY <1>7, <1>8, <1>9 DEF Fine, v

\* A write is called for.
LEMMA ProcessWriteFine ==
  ASSUME NEW w, Idle(w), Fine(w), w.state = "writable", w.queue # <<>>,
         Head(w.queue) # CloseSentinel
  PROVE  LET v == W!ProcessWrite(w) IN Fine(v) /\ Goes(v, w)
<1> DEFINE v == W!ProcessWrite(w)
<1>1. w.writeRequests \in Seq(AllChunks) /\ w.queue \in Seq(AllChunks \cup {CloseSentinel})
  BY DEF Idle, WInv, Shape
<1>2. w.writeRequests # <<>>
  <2>1. w.queue[1] # CloseSentinel /\ Len(w.queue) \in Nat /\ Len(w.queue) # 0
    BY <1>1
  <2>2. Len(w.queue) = Len(w.writeRequests) + InFlight(w) + Closing(w)
    BY DEF Idle, WInv, Queued, Open
  <2>3. InFlight(w) = 0
    BY Counts DEF Idle
  <2>4. Closing(w) = 1 => w.closeRequest
    BY Counts
  <2>5. ASSUME w.writeRequests = <<>>
        PROVE  FALSE
    <3>1. Len(w.writeRequests) = 0
      BY <2>5
    <3>2. Len(w.queue) = Closing(w)
      BY <2>2, <2>3, <3>1, Counts
    <3>3. Len(w.queue) = 1 /\ w.closeRequest
      BY <2>1, <3>2, Counts
    <3>4. w.queue[1] = CloseSentinel
      BY <3>3 DEF Idle, WInv, Queued, Open
    <3> QED
      BY <2>1, <3>4
  <2> QED
    BY <2>5
<1>3. /\ v.inFlightWrite = Head(w.writeRequests) /\ v.writeRequests = Tail(w.writeRequests)
      /\ v.inFlightClose = w.inFlightClose /\ v.closeRequest = w.closeRequest
      /\ v.queue = w.queue
      /\ v.news = w.news /\ v.ready = w.ready /\ v.backpressure = w.backpressure
      /\ v.state = w.state /\ v.writer = w.writer
  BY Fields DEF Idle, WInv, Shape, W!ProcessWrite, W!CallSink, W!Assert_
<1> HIDE DEF v
<1>4. HasOurs(v) => HasOurs(w)
  <2>1. /\ Head(w.writeRequests) = w.writeRequests[1] /\ 1 \in 1 .. Len(w.writeRequests)
        /\ \A i \in 1 .. Len(Tail(w.writeRequests)) :
             i + 1 \in 1 .. Len(w.writeRequests)
               /\ Tail(w.writeRequests)[i] = w.writeRequests[i + 1]
    BY <1>1, <1>2
  <2> QED
    BY <1>3, <2>1 DEF HasOurs
<1>5. /\ (Takes(v) <=> Takes(w)) /\ (Stuck(v) => Stuck(w))
      /\ W!HasBackpressure(v) = W!HasBackpressure(w) /\ OursQueued(v) = OursQueued(w)
  BY <1>3, <1>4 DEF Takes, Stuck, W!CloseQueuedOrInFlight, W!HasBackpressure, OursQueued, QueuedIn
<1>6. NewsOf(v) = NewsOf(w)
  BY <1>3 DEF NewsOf
<1>7. Level(v)
  BY <1>3, <1>5 DEF Fine, Level, Prompt
<1>8. Goes(v, w)
  BY <1>3, <1>4, <1>5, <1>6 DEF Goes, Readies, Room
<1>9. News(v)
  BY <1>3, <1>5, <1>6 DEF Fine, News, Told, Room
<1> QED
  BY <1>7, <1>8, <1>9 DEF Fine, v

-----------------------------------------------------------------------------
(* Write, close and abort.                                                 *)

\* The queue advances.
LEMMA AdvanceFine ==
  ASSUME NEW w, WInv(w), Fine(w),
         w.started /\ w.inFlightWrite = NoWrite => w.state \in {"writable", "erroring"}
  PROVE  LET v == W!AdvanceQueueIfNeeded(w) IN Fine(v) /\ Goes(v, w)
<1>1. CASE ~ w.started \/ w.inFlightWrite # NoWrite
  <2>1. W!AdvanceQueueIfNeeded(w) = w
    BY <1>1 DEF W!AdvanceQueueIfNeeded
  <2> QED
    BY <2>1 DEF Goes
<1>2. CASE w.started /\ w.inFlightWrite = NoWrite
  <2> DEFINE v == W!Assert_(w, w.state \notin {"closed", "errored"})
  <2>1. Alike(v, w) /\ v.ready = w.ready /\ v.news = w.news
    BY <1>2, Fields DEF WInv, Shape, Called, Alike, W!Assert_
  <2>2. W!AdvanceQueueIfNeeded(w) =
          CASE v.state = "erroring" -> W!FinishErroring(v)
            [] v.state # "erroring" /\ v.queue = <<>> -> v
            [] v.state # "erroring" /\ v.queue # <<>>
                 /\ Head(v.queue) = CloseSentinel -> W!ProcessClose(v)
            [] OTHER -> W!ProcessWrite(v)
    BY <1>2 DEF W!AdvanceQueueIfNeeded
  <2> HIDE DEF v
  <2>3. Idle(v) /\ v.state \in {"writable", "erroring"} /\ Shape(v)
    BY <1>2, <2>1, AlikeInv DEF Alike, WInv, Idle, Open
  <2>4. Bare(v, w)
    BY <2>1 DEF Alike, Bare
  <2>5. Fine(v) /\ Goes(v, w)
    BY <2>1, <2>4, BareFine
  <2>6. CASE v.state = "erroring"
    <3>1. LET u == W!FinishErroring(v) IN Fine(u) /\ Goes(u, v)
      BY <2>3, <2>5, <2>6, FinishErroringFine
    <3> QED
      BY <2>2, <2>5, <2>6, <3>1, GoesTwice
  <2>7. CASE v.state = "writable" /\ v.queue = <<>>
    BY <2>2, <2>5, <2>7
  <2>8. CASE v.state = "writable" /\ v.queue # <<>> /\ Head(v.queue) = CloseSentinel
    <3>1. LET u == W!ProcessClose(v) IN Fine(u) /\ Goes(u, v)
      BY <2>3, <2>5, <2>8, ProcessCloseFine
    <3> QED
      BY <2>2, <2>5, <2>8, <3>1, GoesTwice
  <2>9. CASE v.state = "writable" /\ v.queue # <<>> /\ Head(v.queue) # CloseSentinel
    <3>1. LET u == W!ProcessWrite(v) IN Fine(u) /\ Goes(u, v)
      BY <2>3, <2>5, <2>9, ProcessWriteFine
    <3> QED
      BY <2>2, <2>5, <2>9, <3>1, GoesTwice
  <2> QED
    BY <2>3, <2>6, <2>7, <2>8, <2>9
<1> QED
  BY <1>1, <1>2 DEF WInv, Shape

\* A stream whose news have been heard.
LEMMA Unheard ==
  ASSUME NEW w, w.news = <<>>
  PROVE  NewsOf(w) = {} /\ News(w) /\ (Level(w) => Fine(w))
<1>1. NewsOf(w) = {}
  <2>1. Len(w.news) = 0
    OBVIOUS
  <2> QED
    BY <2>1 DEF NewsOf
<1>2. <<>> \in Seq(WEvents)
  OBVIOUS
<1> QED
  BY <1>1, <1>2 DEF News, Told, Fine

\* What a write by someone else than the pipe, or where there is room, does.
GoesOn(v, w) ==
  /\ Readies(w) => Readies(v)
  /\ Takes(v) => Takes(w)
  /\ Stuck(v) => Stuck(w)

\* write() of a writer: a chunk of the pipe finds room.
LEMMA WriteFine ==
  ASSUME NEW w, WInv(w), Level(w), w.news = <<>>, NEW c \in AllChunks, c \in Ours => Room(w)
  PROVE  LET v == W!WriterWrite(w, c)
         IN  Fine(v) /\ GoesOn(v, w) /\ (c \notin Ours /\ HasOurs(v) => HasOurs(w))
<1> DEFINE v == IF w.hasAlgorithms THEN w ELSE W!ErrorIfNeeded(w)
           a == [v EXCEPT !.writeRequests = Append(@, c), !.queue = Append(@, c)]
           b == W!UpdateIfOpen(a)
<1>1. WInv(v) /\ v.writer = w.writer
  BY ControllerErrorInv DEF W!ErrorIfNeeded
<1>2. W!WriterWrite(w, c) = IF v.state # "writable" \/ W!CloseQueuedOrInFlight(v)
                            THEN W!Tell(v, <<"write", c>>) ELSE W!AdvanceQueueIfNeeded(b)
  BY DEF W!WriterWrite
<1>3. NewsOf(w) = {} /\ Fine(w)
  BY Unheard
<1>4. Fine(v) /\ Goes(v, w) /\ (v.state = "writable" => v = w)
  <2>1. w.state = "writable" =>
          LET u == W!ControllerError(w) IN Fine(u) /\ Goes(u, w) /\ u.state # "writable"
    BY <1>3, ControllerErrorFine DEF WInv
  <2> QED
    BY <1>3, <2>1 DEF W!ErrorIfNeeded, Goes
<1> HIDE DEF v
<1>5. CASE v.state # "writable" \/ W!CloseQueuedOrInFlight(v)
  <2> DEFINE e == <<"write", c>>
             u == W!Tell(v, e)
  <2>1. e \in WEvents /\ e # ReadyTold /\ e # ClosedTold /\ e[1] = "write"
    BY EventKinds DEF ReadyTold, ClosedTold
  <2>2. Typed(v)
    BY <1>1, <1>4 DEF WInv, Shape, Typed, Fine, News, Told
  <2> HIDE DEF e
  <2>3. Goes(u, v) /\ Fine(u)
    BY <1>4, <2>1, <2>2, TellFine
  <2>4. Goes(u, w)
    BY <1>4, <2>3, GoesTwice
  <2> QED
    BY <1>2, <1>5, <2>3, <2>4 DEF Goes, GoesOn, e
<1>6. CASE v.state = "writable" /\ ~ W!CloseQueuedOrInFlight(v)
  <2>1. /\ DOMAIN a = DOMAIN v /\ a.writeRequests = Append(v.writeRequests, c)
        /\ a.queue = Append(v.queue, c) /\ a.state = v.state
        /\ a.inFlightWrite = v.inFlightWrite /\ a.inFlightClose = v.inFlightClose
        /\ a.closeRequest = v.closeRequest /\ a.backpressure = v.backpressure
        /\ a.writer = v.writer /\ a.ready = v.ready /\ a.news = v.news
    BY <1>1, Fields DEF WInv, Shape
  <2>2. WInv(a) /\ a.writer = v.writer /\ a.state = "writable"
    BY <1>1, <1>6, QueueInv
  <2> HIDE DEF a
  <2>3. v = w /\ a.news = <<>> /\ NewsOf(a) = {} /\ News(a)
    BY <1>4, <1>6, <2>1, Unheard
  <2>4. Takes(a) /\ Takes(w) /\ ~ Stuck(a)
    BY <1>6, <2>1, <2>3 DEF Takes, Stuck, W!CloseQueuedOrInFlight
  <2>5. Cardinality(OursQueued(a)) <= WritableHWM
    <3> DEFINE n == Cardinality(OursQueued(w))
               k == Cardinality(OursQueued(a))
    <3>1. w.queue \in Seq(AllChunks \cup {CloseSentinel}) /\ c \in AllChunks \cup {CloseSentinel}
      BY DEF WInv, Shape
    <3>2. n \in Nat /\ k \in Nat /\ k <= n + 1 /\ (c \notin Ours => k = n)
      BY <2>1, <2>3, <3>1, OursAppend
    <3>3. n <= WritableHWM
      BY DEF Level, Prompt
    <3> HIDE DEF n, k
    <3>4. CASE c \notin Ours
      BY <3>2, <3>3, <3>4 DEF k
    <3>5. CASE c \in Ours
      <4>1. ~ W!HasBackpressure(w)
        BY <2>4, <3>5 DEF Room
      <4> DEFINE all == Cardinality({i \in DOMAIN w.queue : w.queue[i] \in AllChunks})
      <4>2. (W!HasBackpressure(w) <=> all >= WritableHWM) /\ all \in Nat /\ n <= all
        BY Filled DEF WInv, n
      <4> HIDE DEF all
      <4> QED
        BY <3>2, <4>1, <4>2, MarksAssumption DEF k
    <3> QED
      BY <3>4, <3>5
  <2>6. Prompt(a)
    BY <2>1, <2>3, <2>4, <2>5 DEF Level, Prompt
  <2>7. Fine(b) /\ Goes(b, a)
    BY <2>2, <2>3, <2>6, UpdateFine
  <2>8. WInv(b) /\ b.state = "writable"
    BY <2>2, UpdateInv
  <2> HIDE DEF b
  <2> DEFINE u == W!AdvanceQueueIfNeeded(b)
  <2>9. Fine(u) /\ Goes(u, b)
    BY <2>7, <2>8, AdvanceFine
  <2> HIDE DEF u
  <2>10. Goes(u, a)
    BY <2>7, <2>9, GoesTwice
  <2>11. Readies(w) => Readies(a)
    BY <1>3, <2>1, <2>3 DEF Readies
  <2>12. c \notin Ours /\ HasOurs(a) => HasOurs(w)
    <3>1. w.writeRequests \in Seq(AllChunks)
      BY DEF WInv, Shape
    <3>2. \A i \in 1 .. Len(a.writeRequests) :
            a.writeRequests[i] = c \/ (i \in 1 .. Len(w.writeRequests)
                                         /\ a.writeRequests[i] = w.writeRequests[i])
      BY <2>1, <2>3, <3>1
    <3> QED
      BY <2>1, <2>3, <3>2 DEF HasOurs
  <2>13. W!WriterWrite(w, c) = u
    BY <1>2, <1>6 DEF u
  <2> QED
    BY <2>4, <2>9, <2>10, <2>11, <2>12, <2>13 DEF Goes, GoesOn
<1> QED
  BY <1>5, <1>6

\* What a close does: a stream that was writable may have chunks of the pipe left.
GoesToClose(v, w) ==
  /\ Readies(w) => Readies(v)
  /\ ~ Takes(v) /\ Room(v)
  /\ HasOurs(v) => HasOurs(w)
  /\ Stuck(v) => HasOurs(w) /\ w.state = "writable"

\* close() lets a writer that waits go on, to find the stream closing.
LEMMA CloseFine ==
  ASSUME NEW w, WInv(w), Level(w), w.news = <<>>, Open(w) => ~ W!CloseQueuedOrInFlight(w)
  PROVE  LET v == W!StreamClose(w) IN Fine(v) /\ GoesToClose(v, w)
<1>1. NewsOf(w) = {} /\ Fine(w)
  BY Unheard
<1>2. CASE w.state \in {"closed", "errored"}
  <2> DEFINE e == <<"close", "rejected">>
             u == W!Tell(w, e)
  <2>1. e \in WEvents /\ e # ReadyTold /\ e # ClosedTold
    BY EventKinds DEF ReadyTold, ClosedTold, Hows
  <2>2. Typed(w)
    BY <1>1 DEF WInv, Shape, Typed, Fine, News, Told
  <2>3. ~ Stuck(w) /\ ~ Takes(w)
    BY <1>2 DEF Stuck, Takes
  <2>4. W!StreamClose(w) = u
    BY <1>2 DEF W!StreamClose
  <2> HIDE DEF e
  <2>5. Goes(u, w) /\ Fine(u)
    BY <1>1, <2>1, <2>2, <2>3, TellFine
  <2> QED
    BY <2>3, <2>4, <2>5 DEF Goes, GoesToClose, Room
<1>3. CASE w.state \notin {"closed", "errored"}
  <2> DEFINE v == [W!Assert_(w, ~ W!CloseQueuedOrInFlight(w)) EXCEPT !.closeRequest = TRUE]
             u == IF v.backpressure /\ v.state = "writable"
                  THEN W!Settle(v, "ready", "resolved") ELSE v
             a == [u EXCEPT !.queue = Append(@, CloseSentinel)]
  <2>1. Open(w) /\ ~ w.closeRequest /\ ~ w.inFlightClose
    BY <1>3 DEF WInv, Shape, Open, W!CloseQueuedOrInFlight
  <2>2. W!StreamClose(w) = W!AdvanceQueueIfNeeded(a)
    BY <1>3 DEF W!StreamClose
  <2>3. /\ WInv(a) /\ a.writer = w.writer /\ a.state = w.state /\ a.closeRequest
        /\ a.inFlightClose = w.inFlightClose /\ a.inFlightWrite = w.inFlightWrite
        /\ a.queue = Append(w.queue, CloseSentinel) /\ a.writeRequests = w.writeRequests
        /\ a.backpressure = w.backpressure
    BY <2>1, SentinelInv
  <2>4. /\ DOMAIN v = DOMAIN w /\ v.ready = w.ready /\ v.news = w.news
        /\ v.backpressure = w.backpressure /\ v.state = w.state /\ v.writer = w.writer
    BY Fields DEF WInv, Shape, W!Assert_
  <2>5. a.ready = u.ready /\ a.news = u.news
    <3>1. DOMAIN u = DOMAIN W!NewWritable
      BY <2>4, SettleAlike DEF WInv, Shape, Alike
    <3> HIDE DEF u
    <3> QED
      BY <3>1, Fields
  <2> HIDE DEF v
  \* A writer that waits is told, and there is no other news.
  <2>6. \/ a.ready = w.ready /\ a.ready # "pending" /\ NewsOf(a) = {} /\ a.news = <<>>
        \/ /\ w.ready = "pending" /\ a.ready = "resolved" /\ w.state = "writable"
           /\ NewsOf(a) = {ReadyTold} /\ a.news \in Seq(WEvents)
    <3>1. w.ready = "pending" => w.writer /\ w.backpressure /\ w.state = "writable"
      BY DEF Level, Prompt, Takes
    <3>2. CASE w.ready # "pending"
      <4>1. u = v
        BY <2>4, <3>2 DEF W!Settle
      <4> QED
        BY <2>4, <2>5, <3>2, <4>1, Unheard
    <3>3. CASE w.ready = "pending"
      <4> DEFINE d == [v EXCEPT !.ready = "resolved"]
                 t == W!Tell(d, ReadyTold)
      <4>1. u = t
        BY <2>4, <3>1, <3>3 DEF W!Settle, ReadyTold
      <4>2. DOMAIN d = DOMAIN w /\ d.ready = "resolved" /\ d.news = w.news
        BY <2>4, Fields DEF WInv, Shape
      <4> HIDE DEF d, u
      <4>3. d.news \in Seq(WEvents)
        BY <1>1, <4>2 DEF Fine, News, Told
      <4>4. t.news \in Seq(WEvents) /\ NewsOf(t) = NewsOf(d) \cup {ReadyTold}
        BY <4>2, <4>3, EventKinds, TellNews DEF WInv, Shape
      <4>5. t.ready = "resolved"
        BY <4>2, TellAlike DEF WInv, Shape
      <4>6. NewsOf(d) = {} /\ NewsOf(a) = NewsOf(u)
        BY <1>1, <2>5, <4>2 DEF NewsOf
      <4> QED
        BY <2>5, <3>1, <3>3, <4>1, <4>4, <4>5, <4>6
    <3> QED
      BY <3>2, <3>3
  <2> HIDE DEF u, a
  <2>7. ~ Takes(a)
    BY <2>3 DEF Takes, W!CloseQueuedOrInFlight
  <2>8. Cardinality(OursQueued(a)) <= WritableHWM
    <3>1. CloseSentinel \notin Ours
      BY ChunksAssumption DEF Ours
    <3>2. w.queue \in Seq(AllChunks \cup {CloseSentinel})
      BY DEF WInv, Shape
    <3>3. Cardinality(OursQueued(a)) = Cardinality(OursQueued(w))
      BY <2>3, <3>1, <3>2, OursAppend
    <3> QED
      BY <3>3 DEF Level, Prompt
  <2>9. Level(a)
    BY <2>6, <2>7, <2>8 DEF Level, Prompt
  <2>10. News(a)
    <3>1. ReadyTold[1] = "ready" /\ ReadyTold # ClosedTold /\ Room(a)
      BY <2>7 DEF ReadyTold, ClosedTold, Room
    <3> QED
      BY <2>3, <2>6, <3>1, Unheard DEF News, Told
  <2> DEFINE x == W!AdvanceQueueIfNeeded(a)
  <2>11. Fine(x) /\ Goes(x, a)
    BY <2>1, <2>3, <2>9, <2>10, AdvanceFine DEF Fine, Open
  <2> HIDE DEF x
  <2>12. HasOurs(a) <=> HasOurs(w)
    BY <2>3 DEF HasOurs
  <2>13. Readies(w) => Readies(a)
    <3>1. ReadyTold[1] = "ready"
      BY DEF ReadyTold
    <3> QED
      BY <1>1, <2>6, <3>1 DEF Readies
  <2>14. Stuck(x) => HasOurs(w) /\ w.state = "writable"
    BY <2>3, <2>11, <2>12 DEF Goes, Stuck
  <2> QED
    BY <2>2, <2>7, <2>11, <2>12, <2>13, <2>14 DEF Goes, GoesToClose, Room, x
<1> QED
  BY <1>2, <1>3

\* The close of a pipe that ends.  It tells that the stream is closing already, too.
LEMMA CloseWithErrorFine ==
  ASSUME NEW w, WInv(w), Level(w), w.news = <<>>
  PROVE  LET v == W!CloseWithErrorPropagation(w)
         IN  Level(v) /\ Told(v) /\ GoesToClose(v, w) /\ (~ Stuck(w) => Fine(v))
<1>1. NewsOf(w) = {} /\ Fine(w) /\ Typed(w)
  BY Unheard DEF WInv, Shape, Typed, Fine, News, Told
<1>2. CASE W!CloseQueuedOrInFlight(w) \/ w.state = "closed" \/ w.state = "errored"
  <2>1. PICK how \in Hows : W!CloseWithErrorPropagation(w) = W!Tell(w, <<"close", how>>)
    BY <1>2 DEF W!CloseWithErrorPropagation, Hows
  <2> DEFINE e == <<"close", how>>
             u == W!Tell(w, e)
  <2>2. e \in WEvents /\ e # ReadyTold /\ e # ClosedTold
    BY EventKinds DEF ReadyTold, ClosedTold
  <2>3. ~ Takes(w) /\ Room(w)
    BY <1>2 DEF Takes, Room
  <2>4. ~ Stuck(w) => Fine(u)
    BY <1>1, <2>2, TellFine
  <2>5. u.news \in Seq(WEvents) /\ NewsOf(u) = {e}
    <3>1. u.news \in Seq(WEvents) /\ NewsOf(u) = NewsOf(w) \cup {e}
      BY <1>1, <2>2, TellNews DEF Typed
    <3> QED
      BY <1>1, <3>1
  <2>6. Bare(u, w)
    BY <1>1, TellAlike DEF Typed, Alike, Bare
  <2> HIDE DEF e, u
  <2>7. Level(u) /\ Told(u)
    BY <1>1, <2>2, <2>5, <2>6, BareSame DEF Fine, Told
  <2>8. GoesToClose(u, w)
    BY <1>1, <2>3, <2>6, BareSame DEF GoesToClose, Readies, Bare, Stuck
  <2> QED
    BY <2>1, <2>4, <2>7, <2>8 DEF u, e
<1>3. CASE ~ (W!CloseQueuedOrInFlight(w) \/ w.state = "closed" \/ w.state = "errored")
  <2>1. W!CloseWithErrorPropagation(w) = W!StreamClose(w)
    BY <1>3 DEF W!CloseWithErrorPropagation
  <2>2. LET v == W!StreamClose(w) IN Fine(v) /\ GoesToClose(v, w)
    BY <1>3, CloseFine
  <2> QED
    BY <2>1, <2>2 DEF Fine, News
<1> QED
  BY <1>2, <1>3

\* abort() leaves no stream that takes writes.
LEMMA AbortFine ==
  ASSUME NEW w, WInv(w), Level(w), w.news = <<>>
  PROVE  LET v == W!StreamAbort(w) IN Fine(v) /\ Goes(v, w) /\ v.state # "writable"
<1>1. NewsOf(w) = {} /\ Fine(w) /\ Typed(w)
  BY Unheard DEF WInv, Shape, Typed, Fine, News, Told
<1>2. CASE w.state \in {"closed", "errored"}
  <2> DEFINE e == <<"abort", "resolved">>
             u == W!Tell(w, e)
  <2>1. e \in WEvents /\ e # ReadyTold /\ e # ClosedTold /\ e[1] # "close"
    BY EventKinds DEF ReadyTold, ClosedTold, Hows
  <2>2. W!StreamAbort(w) = u
    BY <1>2 DEF W!StreamAbort
  <2> HIDE DEF e
  <2>3. Goes(u, w) /\ Fine(u) /\ Bare(u, w)
    BY <1>1, <2>1, TellFine
  <2> QED
    BY <1>2, <2>2, <2>3 DEF Bare
<1>3. CASE w.state \notin {"closed", "errored"} /\ w.pendingAbort # "none"
  <2>1. W!StreamAbort(w) = w /\ w.state # "writable"
    BY <1>3 DEF W!StreamAbort, WInv, Callable
  <2> QED
    BY <1>1, <2>1 DEF Goes
<1>4. CASE w.state = "erroring" /\ w.pendingAbort = "none"
  <2> DEFINE a == [w EXCEPT !.pendingAbort = "late"]
  <2>1. Bare(a, w) /\ a.news = w.news
    BY Fields DEF WInv, Shape, Bare
  <2>2. W!StreamAbort(w) = a
    BY <1>4 DEF W!StreamAbort
  <2> HIDE DEF a
  <2> QED
    BY <1>1, <1>4, <2>1, <2>2, BareFine DEF Bare
<1>5. CASE w.state = "writable" /\ w.pendingAbort = "none"
  <2> DEFINE a == [w EXCEPT !.pendingAbort = "first"]
             v == W!StartErroring(a)
  <2>1. Bare(a, w) /\ a.news = w.news /\ Shape(a)
    BY Fields DEF WInv, Shape, Bare
  <2>2. W!StreamAbort(w) = v
    BY <1>5 DEF W!StreamAbort
  <2> HIDE DEF a
  <2>3. Goes(a, w) /\ Fine(a) /\ a.state = "writable" /\ NewsOf(a) = {}
    BY <1>1, <1>5, <2>1, BareFine DEF Bare, NewsOf
  <2>4. Fine(v) /\ Goes(v, a) /\ v.state # "writable"
    BY <2>1, <2>3, StartErroringFine
  <2> QED
    BY <2>2, <2>3, <2>4, GoesTwice
<1> QED
  BY <1>2, <1>3, <1>4, <1>5 DEF WInv, Shape

\* error() of the controller.
LEMMA SinkErrorFine ==
  ASSUME NEW w, WInv(w), Level(w), w.news = <<>>, w.state = "writable"
  PROVE  LET v == W!ControllerError(w) IN Fine(v) /\ Goes(v, w)
<1>1. NewsOf(w) = {} /\ Fine(w)
  BY Unheard
<1> QED
  BY <1>1, ControllerErrorFine DEF WInv

\* A new writer waits exactly if there is backpressure.
LEMMA AcquireFine ==
  ASSUME NEW w, WInv(w), Level(w), w.news = <<>>, ~ w.writer
  PROVE  LET v == W!AcquireWriter(w)
         IN  /\ Level(v) /\ v.news = <<>> /\ (Takes(v) <=> Takes(w)) /\ (Room(v) <=> Room(w))
             /\ (HasOurs(v) <=> HasOurs(w)) /\ (Stuck(v) <=> Stuck(w)) /\ v.state = w.state
<1> DEFINE v == W!AcquireWriter(w)
<1>1. /\ v.writer = TRUE /\ v.state = w.state /\ v.news = w.news
      /\ v.queue = w.queue /\ v.writeRequests = w.writeRequests
      /\ v.inFlightWrite = w.inFlightWrite /\ v.inFlightClose = w.inFlightClose
      /\ v.closeRequest = w.closeRequest /\ v.backpressure = w.backpressure
      /\ v.ready = CASE w.state \in {"erroring", "errored"} -> "rejected"
                     [] w.state = "writable" /\ w.backpressure
                          /\ ~ W!CloseQueuedOrInFlight(w) -> "pending"
                     [] OTHER -> "resolved"
  BY Fields DEF WInv, Shape, W!AcquireWriter
<1> HIDE DEF v
<1>2. /\ Takes(v) <=> Takes(w)
      /\ OursQueued(v) = OursQueued(w) /\ (HasOurs(v) <=> HasOurs(w))
      /\ W!HasBackpressure(v) = W!HasBackpressure(w)
  BY <1>1 DEF Takes, OursQueued, QueuedIn, HasOurs, W!HasBackpressure, W!CloseQueuedOrInFlight
<1>3. (Stuck(v) <=> Stuck(w)) /\ (Room(v) <=> Room(w))
  BY <1>1, <1>2 DEF Stuck, Room, W!CloseQueuedOrInFlight
<1>4. v.ready = "pending" => Takes(w) /\ w.backpressure
  BY <1>1 DEF Takes
<1>5. Takes(w) /\ w.backpressure => v.ready = "pending"
  BY <1>1 DEF Takes
<1>6. Level(v)
  BY <1>1, <1>2, <1>4, <1>5 DEF Level, Prompt
<1> QED
  BY <1>1, <1>2, <1>3, <1>6 DEF v

\* A writer that is released is told so if it waits.
LEMMA ReleaseFine ==
  ASSUME NEW w, WInv(w), Fine(w), w.writer
  PROVE  LET v == W!WriterRelease(w) IN Fine(v) /\ Goes(v, w)
<1> DEFINE a == W!Assert_(w, w.writer)
           b == W!EnsureReadyRejected(a)
           c == W!Settle(b, "closed", "rejected")
           d == [c EXCEPT !.writer = FALSE, !.ready = "none", !.closed = "none"]
<1>1. W!WriterRelease(w) = d
  BY DEF W!WriterRelease
<1>2. /\ Alike(a, w) /\ a.ready = w.ready /\ a.news = w.news
      /\ DOMAIN a = DOMAIN W!NewWritable /\ a.news \in Seq(WEvents)
  BY Fields DEF WInv, Shape, Called, Alike, W!Assert_, Fine, News, Told
<1> HIDE DEF a
<1>3. /\ Alike(b, a) /\ DOMAIN b = DOMAIN W!NewWritable
      /\ Kept(b, a) /\ NewsOf(b) \subseteq NewsOf(a) \cup {<<"ready", "rejected">>}
  BY <1>2, EnsureAlike, EnsureKept DEF Alike
<1>4. w.ready = "pending" => <<"ready", "rejected">> \in NewsOf(b)
  <2>1. b.ready = "rejected" /\ a.writer
    BY <1>2, EnsureKept DEF Alike
  <2> QED
    BY <1>2, <1>3, <2>1 DEF Kept
<1>5. b.news \in Seq(WEvents) /\ NewsOf(a) \subseteq NewsOf(b)
  BY <1>3 DEF Kept
<1> HIDE DEF b
<1>6. /\ Alike(c, b)
      /\ c.news \in Seq(WEvents) /\ NewsOf(b) \subseteq NewsOf(c)
      /\ NewsOf(c) \subseteq NewsOf(b) \cup {<<"closed", "rejected">>}
  BY <1>3, <1>5, SettleAlike, SettleClosedNews DEF Hows
<1> HIDE DEF c
<1>7. Alike(c, w)
  BY <1>2, <1>3, <1>6 DEF Alike
<1>8. /\ d.writer = FALSE /\ d.ready = "none" /\ d.state = c.state /\ d.news = c.news
      /\ d.queue = c.queue /\ d.writeRequests = c.writeRequests
      /\ d.inFlightWrite = c.inFlightWrite /\ d.inFlightClose = c.inFlightClose
      /\ d.closeRequest = c.closeRequest /\ d.backpressure = c.backpressure
  BY <1>7, Fields DEF WInv, Shape, Alike
<1> HIDE DEF d
<1>9. /\ d.state = w.state /\ d.queue = w.queue /\ d.writeRequests = w.writeRequests
      /\ d.inFlightWrite = w.inFlightWrite /\ d.inFlightClose = w.inFlightClose
      /\ d.closeRequest = w.closeRequest /\ d.backpressure = w.backpressure
  BY <1>7, <1>8 DEF Alike
<1>10. /\ NewsOf(w) \subseteq NewsOf(d)
       /\ NewsOf(d) \subseteq NewsOf(w) \cup {<<"ready", "rejected">>, <<"closed", "rejected">>}
       /\ w.ready = "pending" => <<"ready", "rejected">> \in NewsOf(d)
  <2>1. NewsOf(d) = NewsOf(c) /\ NewsOf(a) = NewsOf(w)
    BY <1>2, <1>8 DEF NewsOf
  <2> QED
    BY <1>3, <1>4, <1>5, <1>6, <2>1
<1>11. /\ Takes(d) <=> Takes(w)
       /\ OursQueued(d) = OursQueued(w) /\ (HasOurs(d) <=> HasOurs(w))
       /\ W!HasBackpressure(d) = W!HasBackpressure(w)
  BY <1>9 DEF Takes, OursQueued, QueuedIn, HasOurs, W!HasBackpressure, W!CloseQueuedOrInFlight
<1>12. (Stuck(d) <=> Stuck(w)) /\ (Room(d) <=> Room(w))
  BY <1>9, <1>11 DEF Stuck, Room, W!CloseQueuedOrInFlight
<1>13. Level(d)
  BY <1>8, <1>9, <1>11 DEF Fine, Level, Prompt
<1>14. Readies(w) => Readies(d)
  <2>1. <<"ready", "rejected">>[1] = "ready"
    OBVIOUS
  <2> QED
    BY <1>10, <2>1 DEF Readies
<1>15. News(d)
  <2>1. <<"ready", "rejected">> # ReadyTold /\ <<"closed", "rejected">> # ReadyTold
    BY DEF ReadyTold
  <2>2. \A e \in NewsOf(d) : e \in NewsOf(w) \/ e[1] \in {"ready", "closed"}
    BY <1>10
  <2>3. ReadyTold \in NewsOf(d) =>
          Room(d) /\ d.state = "writable" /\ \A e \in NewsOf(d) : e[1] \notin {"close", "abort"}
    BY <1>9, <1>10, <1>12, <2>1, <2>2 DEF Fine, News, Told
  <2>4. \A e \in NewsOf(d) : e[1] = "close" => ~ Stuck(d)
    BY <1>12, <2>2 DEF Fine, News
  <2> QED
    BY <1>6, <1>8, <2>3, <2>4 DEF News, Told
<1>16. Goes(d, w)
  BY <1>11, <1>12, <1>14 DEF Goes
<1> QED
  BY <1>1, <1>13, <1>15, <1>16 DEF Fine

-----------------------------------------------------------------------------
(* The sink answers.                                                       *)

\* What has been written makes room.
LEMMA TailRoom ==
  ASSUME NEW w, NEW a, Shape(w), Shape(a), w.queue # <<>>, a.queue = Tail(w.queue)
  PROVE  /\ Cardinality(OursQueued(a)) <= Cardinality(OursQueued(w))
         /\ W!HasBackpressure(a) => W!HasBackpressure(w)
<1> DEFINE n == Cardinality(QueuedIn(w, AllChunks))
           k == Cardinality(QueuedIn(a, AllChunks))
<1>1. w.queue \in Seq(AllChunks \cup {CloseSentinel})
  BY DEF Shape
<1>2. Cardinality(OursQueued(a)) <= Cardinality(OursQueued(w)) /\ k <= n
  BY <1>1, TailCount DEF OursQueued
<1>3. (W!HasBackpressure(w) <=> n >= WritableHWM) /\ n \in Nat
  BY Filled DEF QueuedIn
<1>4. (W!HasBackpressure(a) <=> k >= WritableHWM) /\ k \in Nat
  BY Filled DEF QueuedIn
<1> HIDE DEF n, k
<1> QED
  BY <1>2, <1>3, <1>4, MarksAssumption

\* The write in flight is over.
LEMMA WrittenFine ==
  ASSUME NEW w, WInv(w), Level(w), w.news = <<>>, w.sink = "write", NEW ok
  PROVE  LET v == W!FinishInFlightWrite(w, ok) IN Fine(v) /\ Goes(v, w)
<1> DEFINE done == W!Tell([w EXCEPT !.inFlightWrite = NoWrite, !.sink = "idle"],
                          <<"write", w.inFlightWrite>>)
           v == W!Assert_(done, w.inFlightWrite # NoWrite
                                  /\ w.state \in {"writable", "erroring"})
           a == [v EXCEPT !.queue = Tail(@)]
           b == [v EXCEPT !.hasAlgorithms = @ /\ w.state # "writable"]
           e == <<"write", w.inFlightWrite>>
<1>1. Open(w) /\ w.started /\ w.inFlightWrite # NoWrite /\ ~ w.inFlightClose
  BY DEF WInv, Shape, Sink
<1>2. /\ DOMAIN v = DOMAIN w /\ v.inFlightWrite = NoWrite
      /\ v.state = w.state /\ v.queue = w.queue /\ v.writeRequests = w.writeRequests
      /\ v.inFlightClose = w.inFlightClose /\ v.closeRequest = w.closeRequest
      /\ v.backpressure = w.backpressure /\ v.writer = w.writer /\ v.ready = w.ready
      /\ v.news = Append(w.news, e)
  BY Fields DEF WInv, Shape, W!Tell, W!Assert_
<1>3. W!FinishInFlightWrite(w, ok) = IF ok THEN W!AdvanceQueueIfNeeded(W!UpdateIfOpen(a))
                                     ELSE W!DealWithRejection(b)
  BY DEF W!FinishInFlightWrite
<1>4. /\ WInv(a) /\ a.started /\ a.state \in {"writable", "erroring"}
  BY UnqueueInv
<1>5. Shape(v)
  <2>1. /\ v.started = w.started /\ v.storedError = w.storedError
        /\ v.hasAlgorithms = w.hasAlgorithms /\ v.pendingAbort = w.pendingAbort
        /\ v.sink = "idle" /\ v.calls = w.calls
    BY Fields DEF WInv, Shape, W!Tell, W!Assert_
  <2> HIDE DEF v
  <2> QED
    BY <1>2, <2>1 DEF WInv, Shape
<1> HIDE DEF done, v
<1>6. e \in WEvents /\ e[1] = "write" /\ NewsOf(w) = {}
  BY <1>1, EventKinds, Unheard DEF WInv, Shape
<1>7. v.news \in Seq(WEvents) /\ NewsOf(v) = {e}
  <2>1. v.news = <<e>>
    BY <1>2
  <2> HIDE DEF e
  <2>2. Len(v.news) = 1 /\ v.news[1] = e
    BY <2>1
  <2> QED
    BY <1>6, <2>1, <2>2 DEF NewsOf
<1>8. ReadyTold # e /\ ClosedTold # e
  BY <1>6 DEF ReadyTold, ClosedTold
<1> HIDE DEF e
<1>9. NoWrite \notin Ours
  BY ChunksAssumption DEF Ours
<1>10. HasOurs(v) => HasOurs(w)
  BY <1>2, <1>9 DEF HasOurs
<1>11. ASSUME NEW u, u.state = v.state, u.queue \in {v.queue, Tail(v.queue)},
              u.writeRequests = v.writeRequests, u.inFlightWrite = v.inFlightWrite,
              u.inFlightClose = v.inFlightClose, u.closeRequest = v.closeRequest,
              u.backpressure = v.backpressure, u.writer = v.writer, u.ready = v.ready,
              u.news = v.news, Shape(u)
       PROVE  Prompt(u) /\ News(u) /\ Goes(u, w) /\ (Takes(u) <=> Takes(w))
  <2>1. (Takes(u) <=> Takes(w)) /\ (HasOurs(u) => HasOurs(w)) /\ (Stuck(u) => Stuck(w))
    BY <1>2, <1>9, <1>11 DEF Takes, HasOurs, Stuck, W!CloseQueuedOrInFlight
  <2>2. w.queue # <<>>
    <3>1. Len(w.queue) = Len(w.writeRequests) + 1 + Closing(w) /\ Closing(w) \in Nat
      BY <1>1, Counts DEF WInv, Queued
    <3>2. Len(w.writeRequests) \in Nat
      BY DEF WInv, Shape
    <3>3. Len(w.queue) # 0
      BY <3>1, <3>2
    <3> QED
      BY <3>3
  <2>3. /\ Cardinality(OursQueued(u)) <= Cardinality(OursQueued(w))
        /\ W!HasBackpressure(u) => W!HasBackpressure(w)
    <3>1. CASE u.queue = w.queue
      <4>1. OursQueued(u) = OursQueued(w) /\ W!HasBackpressure(u) = W!HasBackpressure(w)
        BY <3>1 DEF OursQueued, QueuedIn, W!HasBackpressure
      <4>2. Cardinality(OursQueued(w)) \in Nat
        BY Filled DEF WInv
      <4> QED
        BY <4>1, <4>2
    <3>2. CASE u.queue = Tail(w.queue)
      BY <1>11, <2>2, <3>2, TailRoom DEF WInv
    <3> QED
      BY <1>2, <1>11, <3>1, <3>2
  <2>4. Cardinality(OursQueued(u)) <= WritableHWM
    <3>1. Cardinality(OursQueued(u)) \in Nat /\ Cardinality(OursQueued(w)) \in Nat
      BY <1>11, Filled DEF WInv
    <3> QED
      BY <2>3, <3>1, MarksAssumption DEF Level, Prompt
  <2>5. Prompt(u)
    BY <1>2, <1>11, <2>1, <2>4 DEF Level, Prompt
  <2>6. NewsOf(u) = {e}
    BY <1>7, <1>11 DEF NewsOf
  <2>7. News(u)
    BY <1>6, <1>7, <1>8, <1>11, <2>6 DEF News, Told
  <2>8. Readies(w) => Readies(u)
    BY <1>2, <1>6, <1>11 DEF Readies
  <2>9. Room(w) => Room(u)
    BY <2>1, <2>3 DEF Room
  <2> QED
    BY <2>1, <2>5, <2>7, <2>8, <2>9 DEF Goes
<1>12. CASE ok
  <2>1. /\ a.state = v.state /\ a.queue = Tail(v.queue)
        /\ a.writeRequests = v.writeRequests /\ a.inFlightWrite = v.inFlightWrite
        /\ a.inFlightClose = v.inFlightClose /\ a.closeRequest = v.closeRequest
        /\ a.backpressure = v.backpressure /\ a.writer = v.writer /\ a.ready = v.ready
        /\ a.news = v.news
    BY <1>5, Fields DEF Shape
  <2> HIDE DEF a
  <2>2. Prompt(a) /\ News(a) /\ Goes(a, w)
    BY <1>4, <1>11, <2>1 DEF WInv
  <2>3. \A x \in NewsOf(a) : x[1] \notin {"close", "abort"}
    BY <1>6, <1>7, <2>1 DEF NewsOf
  <2> DEFINE u == W!UpdateIfOpen(a)
             x == W!AdvanceQueueIfNeeded(u)
  <2>4. Fine(u) /\ Goes(u, a)
    BY <1>4, <2>2, <2>3, UpdateFine
  <2>5. WInv(u) /\ u.state \in {"writable", "erroring"}
    BY <1>4, UpdateInv
  <2> HIDE DEF u
  <2>6. Fine(x) /\ Goes(x, u)
    BY <2>4, <2>5, AdvanceFine
  <2>7. Goes(x, w)
    BY <2>2, <2>4, <2>6, GoesTwice
  <2> QED
    BY <1>3, <1>12, <2>6, <2>7 DEF u
<1>13. CASE ~ ok
  <2>1. /\ b.state = v.state /\ b.queue = v.queue
        /\ b.writeRequests = v.writeRequests /\ b.inFlightWrite = v.inFlightWrite
        /\ b.inFlightClose = v.inFlightClose /\ b.closeRequest = v.closeRequest
        /\ b.backpressure = v.backpressure /\ b.writer = v.writer /\ b.ready = v.ready
        /\ b.news = v.news /\ Shape(b)
    BY <1>5, Fields DEF Shape
  <2> HIDE DEF b
  <2>2. Prompt(b) /\ News(b) /\ Goes(b, w) /\ (Takes(b) <=> Takes(w))
    BY <1>11, <2>1
  <2>3. Fine(b)
    <3>1. W!HasBackpressure(b) = W!HasBackpressure(w) /\ b.backpressure = w.backpressure
      BY <1>2, <2>1 DEF W!HasBackpressure
    <3> QED
      BY <2>2, <3>1 DEF Fine, Level
  <2>4. ReadyTold \notin NewsOf(b)
    BY <1>7, <1>8, <2>1 DEF NewsOf
  <2>5. LET u == W!DealWithRejection(b) IN Fine(u) /\ Goes(u, b)
    BY <1>1, <1>2, <2>1, <2>3, <2>4, RejectionFine DEF Open
  <2> QED
    BY <1>3, <1>13, <2>2, <2>5, GoesTwice
<1> QED
  BY <1>12, <1>13

\* What a stream that is down has of the one it was.
LEMMA DownFrom ==
  ASSUME NEW w, NEW v, WInv(w), Level(w), w.news = <<>>, Kept(v, w),
         v.state # "writable", v.ready # "pending"
  PROVE  Fine(v) /\ Goes(v, w)
<1>1. NewsOf(w) = {}
  BY Unheard
<1>2. /\ w.queue \in Seq(AllChunks \cup {CloseSentinel}) /\ w.writeRequests \in Seq(AllChunks)
      /\ Cardinality(OursQueued(w)) <= WritableHWM
  BY DEF WInv, Shape, Level, Prompt
<1> QED
  BY <1>1, <1>2, DownFine

\* The sink has closed, or has not: the stream is down either way.
LEMMA ClosedFine ==
  ASSUME NEW w, WInv(w), Level(w), w.news = <<>>, w.sink = "close", NEW ok
  PROVE  LET v == W!FinishInFlightClose(w, ok) IN Fine(v) /\ Goes(v, w)
<1> DEFINE how == IF ok THEN "resolved" ELSE "rejected"
           a == W!Assert_(w, w.inFlightClose /\ w.state \in {"writable", "erroring"})
           d == [a EXCEPT !.inFlightClose = FALSE, !.sink = "idle"]
           done == W!Tell(d, <<"close", how>>)
           p == [done EXCEPT !.pendingAbort = "none"]
           v == IF w.pendingAbort # "none" THEN W!Tell(p, <<"abort", how>>) ELSE done
           b == [W!Assert_(v, w.state = "writable" => w.pendingAbort = "none")
                 EXCEPT !.state = "closed", !.storedError = FALSE]
<1>1. Open(w) /\ w.inFlightClose /\ Typed(w) /\ w.ready # "pending"
  <2>1. Typed(w)
    BY Unheard DEF WInv, Shape, Typed, News, Told
  <2> QED
    BY <2>1 DEF WInv, Shape, Sink, Level, Prompt, Takes, W!CloseQueuedOrInFlight
<1>2. how \in Hows
  BY DEF Hows
<1>3. W!FinishInFlightClose(w, ok) = IF ok THEN W!Settle(b, "closed", "resolved")
                                     ELSE W!DealWithRejection(v)
  BY DEF W!FinishInFlightClose
<1> HIDE DEF how
<1>4. /\ DOMAIN d = DOMAIN w /\ d.news = w.news /\ d.state = w.state /\ d.queue = w.queue
      /\ d.writeRequests = w.writeRequests /\ d.inFlightWrite = w.inFlightWrite
      /\ d.writer = w.writer /\ d.ready = w.ready /\ d.pendingAbort = w.pendingAbort
  BY <1>1, Fields DEF Typed, W!Assert_
<1> HIDE DEF a, d
<1>5. Kept(d, w) /\ Typed(d)
  BY <1>1, <1>4, KeptOther, KeptTyped
<1>6. /\ <<"close", how>> \in WEvents /\ <<"close", how>> # ReadyTold
      /\ <<"close", how>> # ClosedTold
      /\ <<"abort", how>> \in WEvents /\ <<"abort", how>> # ReadyTold
      /\ <<"abort", how>> # ClosedTold
  BY <1>2, EventKinds DEF ReadyTold, ClosedTold
<1>7. Kept(done, w) /\ Typed(done) /\ done.state = w.state /\ done.ready = w.ready
      /\ done.pendingAbort = w.pendingAbort
  <2>1. Kept(done, d)
    BY <1>5, <1>6, TellKept DEF Typed
  <2>2. Alike(done, d) /\ done.ready = d.ready
    BY <1>5, TellAlike DEF Typed
  <2> HIDE DEF done
  <2>3. Kept(done, w)
    BY <1>5, <2>1, KeptTwice
  <2>4. Typed(done)
    BY <1>5, <2>1, KeptTyped
  <2> QED
    BY <1>4, <2>2, <2>3, <2>4 DEF Alike
<1> HIDE DEF done
<1>8. Kept(v, w) /\ Typed(v) /\ v.state = w.state /\ v.ready = w.ready
      /\ v.pendingAbort = "none" /\ v.writer = w.writer
  <2>1. CASE w.pendingAbort = "none"
    BY <1>7, <2>1 DEF Kept
  <2>2. CASE w.pendingAbort # "none"
    <3> DEFINE t == W!Tell(p, <<"abort", how>>)
    <3>1. /\ DOMAIN p = DOMAIN done /\ p.news = done.news /\ p.state = done.state
          /\ p.queue = done.queue /\ p.writeRequests = done.writeRequests
          /\ p.inFlightWrite = done.inFlightWrite /\ p.writer = done.writer
          /\ p.ready = done.ready /\ p.pendingAbort = "none"
      BY <1>7, Fields DEF Typed
    <3> HIDE DEF p
    <3>2. Kept(p, done) /\ Typed(p)
      BY <1>7, <3>1, KeptOther, KeptTyped
    <3>3. Kept(t, p)
      BY <1>6, <3>2, TellKept DEF Typed
    <3>4. Alike(t, p) /\ t.ready = p.ready
      BY <3>2, TellAlike DEF Typed
    <3>5. v = t
      BY <2>2
    <3> HIDE DEF t, v
    <3>6. Kept(t, w)
      BY <1>7, <3>2, <3>3, KeptTwice
    <3>7. Typed(t)
      BY <3>2, <3>3, KeptTyped
    <3> QED
      BY <1>7, <3>1, <3>4, <3>5, <3>6, <3>7 DEF Alike, Kept
  <2> QED
    BY <2>1, <2>2
<1> HIDE DEF v
<1>9. CASE ok
  <2> DEFINE x == W!Settle(b, "closed", "resolved")
  <2>1. /\ DOMAIN b = DOMAIN v /\ b.news = v.news /\ b.state = "closed" /\ b.queue = v.queue
        /\ b.writeRequests = v.writeRequests /\ b.inFlightWrite = v.inFlightWrite
        /\ b.writer = v.writer /\ b.ready = v.ready
    BY <1>8, Fields DEF Typed, W!Assert_
  <2> HIDE DEF b
  <2>2. Kept(b, w)
    <3>1. NewsOf(b) = NewsOf(v)
      BY <2>1 DEF NewsOf
    <3>2. ClosedTold \in NewsOf(v) => FALSE
      BY <1>1, <1>8, Unheard DEF Kept, Open
    <3>3. w.state # "errored"
      BY <1>1 DEF Open
    <3> QED
      BY <1>8, <2>1, <3>1, <3>2, <3>3 DEF Kept
  <2>3. Typed(b)
    BY <1>1, <2>2, KeptTyped
  <2>4. Kept(x, b) /\ x.state = b.state /\ x.ready = b.ready
    BY <2>3, SettleClosedKept DEF Typed, Hows
  <2> HIDE DEF x
  <2>5. Kept(x, w)
    BY <2>2, <2>4, KeptTwice
  <2>6. Fine(x) /\ Goes(x, w)
    BY <1>1, <1>8, <2>1, <2>4, <2>5, DownFrom
  <2> QED
    BY <1>3, <1>9, <2>6 DEF x
<1>10. CASE ~ ok
  <2> DEFINE x == W!DealWithRejection(v)
  <2>1. CASE v.state = "writable"
    <3>1. x = W!StartErroring(v)
      BY <2>1 DEF W!DealWithRejection
    <3>2. /\ Kept(x, v) /\ x.state # "writable"
          /\ x.ready = IF v.writer THEN "rejected" ELSE v.ready
      BY <1>8, <2>1, <3>1, StartErroringKept
    <3> HIDE DEF x
    <3>3. Kept(x, w) /\ x.ready # "pending"
      BY <1>1, <1>8, <3>2, KeptTwice
    <3> QED
      BY <1>3, <1>10, <3>2, <3>3, DownFrom DEF x
  <2>2. CASE v.state = "erroring"
    <3>1. x = W!FinishErroring(v)
      BY <2>2 DEF W!DealWithRejection
    <3>2. Kept(x, v) /\ x.state = "errored" /\ x.ready = v.ready
      BY <1>8, <3>1, FinishErroringKept
    <3> HIDE DEF x
    <3>3. Kept(x, w) /\ x.ready # "pending"
      BY <1>1, <1>8, <3>2, KeptTwice
    <3> QED
      BY <1>3, <1>10, <3>2, <3>3, DownFrom DEF x
  <2> QED
    BY <1>1, <1>8, <2>1, <2>2 DEF Open
<1> QED
  BY <1>9, <1>10

\* The sink has aborted.
LEMMA AbortedFine ==
  ASSUME NEW w, WInv(w), Level(w), w.news = <<>>, w.sink = "abort", NEW ok
  PROVE  LET v == W!FinishAbort(w, ok) IN Fine(v) /\ Goes(v, w)
<1> DEFINE how == IF ok THEN "resolved" ELSE "rejected"
           a == [w EXCEPT !.sink = "idle"]
           v == W!Tell(a, <<"abort", how>>)
           x == W!RejectCloseAndClosed(v)
<1>1. W!FinishAbort(w, ok) = x
  BY DEF W!FinishAbort
<1>2. w.state = "errored" /\ Typed(w) /\ w.ready # "pending"
  <2>1. Typed(w)
    BY Unheard DEF WInv, Shape, Typed, News, Told
  <2> QED
    BY <2>1 DEF WInv, Sink, Level, Prompt, Takes
<1>3. <<"abort", how>> \in WEvents /\ <<"abort", how>> # ReadyTold /\ <<"abort", how>> # ClosedTold
  BY EventKinds DEF ReadyTold, ClosedTold, Hows
<1> HIDE DEF how
<1>4. /\ DOMAIN a = DOMAIN w /\ a.news = w.news /\ a.state = w.state /\ a.queue = w.queue
      /\ a.writeRequests = w.writeRequests /\ a.inFlightWrite = w.inFlightWrite
      /\ a.writer = w.writer /\ a.ready = w.ready
  BY <1>2, Fields DEF Typed
<1> HIDE DEF a
<1>5. Kept(a, w) /\ Typed(a)
  BY <1>2, <1>4, KeptOther, KeptTyped
<1>6. Kept(v, a) /\ v.state = a.state /\ v.ready = a.ready
  BY <1>3, <1>5, TellKept, TellAlike DEF Typed, Alike
<1> HIDE DEF v
<1>7. Kept(v, w) /\ Typed(v)
  BY <1>5, <1>6, KeptTwice, KeptTyped
<1>8. Kept(x, v) /\ x.state = "errored" /\ x.ready = v.ready
  BY <1>2, <1>4, <1>6, <1>7, RejectCloseKept
<1> HIDE DEF x
<1>9. Kept(x, w) /\ x.state # "writable" /\ x.ready # "pending"
  BY <1>2, <1>4, <1>6, <1>7, <1>8, KeptTwice
<1> QED
  BY <1>1, <1>9, DownFrom

\* The sink has started.
LEMMA StartedFine ==
  ASSUME NEW w, WInv(w), Level(w), w.news = <<>>, w.sink = "start", NEW ok
  PROVE  LET v == W!FinishStart(w, ok) IN Fine(v) /\ Goes(v, w)
<1> DEFINE v == [W!Assert_(w, w.state \in {"writable", "erroring"})
                 EXCEPT !.started = TRUE, !.sink = "idle"]
<1>1. W!FinishStart(w, ok) = IF ok THEN W!AdvanceQueueIfNeeded(v) ELSE W!DealWithRejection(v)
  BY DEF W!FinishStart
<1>2. WInv(v) /\ Open(v)
  BY StartInv
<1>3. Bare(v, w) /\ v.news = w.news
  BY Fields DEF WInv, Shape, Bare, W!Assert_
<1> HIDE DEF v
<1>4. NewsOf(w) = {} /\ Fine(w) /\ NewsOf(v) = {}
  BY <1>3, Unheard
<1>5. Fine(v) /\ Goes(v, w)
  BY <1>3, <1>4, BareFine
<1>6. LET x == W!AdvanceQueueIfNeeded(v) IN Fine(x) /\ Goes(x, v)
  BY <1>2, <1>5, AdvanceFine DEF Open
<1>7. LET x == W!DealWithRejection(v) IN Fine(x) /\ Goes(x, v)
  BY <1>2, <1>4, <1>5, RejectionFine DEF Open, WInv
<1> QED
  BY <1>1, <1>5, <1>6, <1>7, GoesTwice

\* The sink answers whatever it was called for.
LEMMA AnswersFine ==
  ASSUME NEW w, WInv(w), Level(w), w.news = <<>>, w.sink # "idle", NEW ok
  PROVE  LET v == W!SinkAnswers(w, ok) IN Fine(v) /\ Goes(v, w)
<1>1. w.sink \in {"start", "write", "close", "abort"}
  BY DEF WInv, Shape
<1> QED
  BY <1>1, StartedFine, WrittenFine, ClosedFine, AbortedFine DEF W!SinkAnswers

\* A stream just constructed.
LEMMA NewFine == Level(W!NewWritable) /\ W!NewWritable.news = <<>> /\ ~ HasOurs(W!NewWritable)
<1> DEFINE w == W!NewWritable
<1>1. /\ w.state = "writable" /\ w.queue = <<>> /\ w.writeRequests = <<>> /\ w.news = <<>>
      /\ w.inFlightWrite = NoWrite /\ w.ready = "none" /\ w.writer = FALSE
      /\ w.backpressure = (WritableHWM = 0)
  BY DEF W!NewWritable
<1> HIDE DEF w
<1>2. OursQueued(w) = {} /\ {i \in DOMAIN w.queue : w.queue[i] # CloseSentinel} = {}
  BY <1>1 DEF OursQueued, QueuedIn
<1>3. Cardinality({}) = 0 /\ W!Cardinality({}) = 0
  BY FS_EmptySet, SameCount
<1>4. W!HasBackpressure(w) <=> WritableHWM = 0
  BY <1>2, <1>3, MarksAssumption DEF W!HasBackpressure
<1>5. W!HasBackpressure(w) \in BOOLEAN
  BY DEF W!HasBackpressure
<1>6. Level(w)
  BY <1>1, <1>2, <1>3, <1>4, <1>5, MarksAssumption DEF Level, Prompt
<1>7. ~ HasOurs(w)
  <2>1. NoWrite \notin Ours /\ Len(w.writeRequests) = 0
    BY <1>1, ChunksAssumption DEF Ours
  <2> QED
    BY <1>1, <2>1 DEF HasOurs
<1> QED
  BY <1>1, <1>6, <1>7 DEF w

-----------------------------------------------------------------------------
(* The readable stream answers a read once.                                *)

\* What a readable stream tells.
RKinds == {"read", "closed", "cancel", "cancelled"}
Reading(r) == \E e \in NewsOf(r) : e[1] = "read"

\* An operation answers the read that waits, or the one it is, at most once; it tells that
\* the stream has ended when it has, and no chunk after that.
Serves(v, r, isRead) ==
  /\ \/ v.news = <<>>
     \/ \E e : v.news = <<e>> /\ e[1] \in RKinds
     \/ \E d, e : v.news = <<d, e>> /\ <<d[1], e[1]>> \in {<<"read", "closed">>, <<"closed", "read">>}
  /\ v.readRequests \in {0, 1}
  /\ Reading(v) => v.readRequests = 0
  /\ Reading(v) \/ v.readRequests # 0 => isRead \/ r.readRequests # 0
  /\ r.state # "readable" => v.state # "readable"
  /\ \A e \in NewsOf(v) :
       /\ e[1] = "read" /\ e[2] \in Ours => r.state = "readable"
       /\ e[1] = "closed" => v.state # "readable" \/ ~ v.reader

\* A stream whose news have been heard and that owes at most one read.
Heeded(r) == RInv(r) /\ r.news = <<>> /\ r.readRequests \in {0, 1}

\* What short news tell.
LEMMA NoNews == \A r : r.news = <<>> => NewsOf(r) = {}
<1>1. ASSUME NEW r, r.news = <<>>
      PROVE  NewsOf(r) = {}
  <2>1. Len(r.news) = 0
    BY <1>1
  <2> QED
    BY <2>1 DEF NewsOf
<1> QED
  BY <1>1

LEMMA OneNews == \A r, e : r.news = <<e>> => NewsOf(r) = {e}
<1>1. ASSUME NEW r, NEW e, r.news = <<e>>
      PROVE  NewsOf(r) = {e}
  <2>1. Len(r.news) = 1 /\ r.news[1] = e /\ 1 .. 1 = {1}
    BY <1>1
  <2> QED
    BY <2>1 DEF NewsOf
<1> QED
  BY <1>1

LEMMA TwoNews == \A r, d, e : r.news = <<d, e>> => NewsOf(r) = {d, e}
<1>1. ASSUME NEW r, NEW d, NEW e, r.news = <<d, e>>
      PROVE  NewsOf(r) = {d, e}
  <2>1. Len(r.news) = 2 /\ r.news[1] = d /\ r.news[2] = e /\ 1 .. 2 = {1, 2}
    BY <1>1
  <2> QED
    BY <2>1 DEF NewsOf
<1> QED
  BY <1>1

\* Two events, one after the other.
LEMMA AppendTwo ==
  ASSUME NEW x, NEW y
  PROVE  Append(<<x>>, y) = <<x, y>>
<1> DEFINE S == {x, y}
           p == <<x>>
           q == Append(p, y)
           t == <<x, y>>
<1>1. x \in S /\ y \in S
  OBVIOUS
<1>t. t \in Seq(S) /\ Len(t) = 2 /\ t[1] = x /\ t[2] = y
  <2> HIDE DEF S
  <2> QED BY <1>1
<1>p. p \in Seq(S) /\ Len(p) = 1 /\ p[1] = x
  <2> HIDE DEF S
  <2> QED BY <1>1
<1> HIDE DEF S, p, t
<1>0. p \in Seq(S) /\ y \in S
  BY <1>1, <1>p
<1>2. q \in Seq(S)
  BY <1>0
<1>l. Len(q) = Len(p) + 1
  BY <1>0
<1>m. Len(q) = 2
  BY <1>l, <1>p
<1>3. \A i \in 1 .. Len(p) : q[i] = p[i]
  BY <1>0
<1>n. q[Len(p) + 1] = y
  BY <1>0
<1> HIDE DEF q
<1>o. q[2] = y
  <2>1. Len(p) + 1 = 2
    BY <1>p
  <2> QED
    BY <2>1, <1>n
<1>q. q[1] = x
  <2>1. 1 \in 1 .. Len(p)
    BY <1>p
  <2> QED
    BY <2>1, <1>3, <1>p
<1>4. q = [i \in 1 .. 2 |-> q[i]] /\ t = [i \in 1 .. 2 |-> t[i]]
  BY <1>2, <1>m, <1>t
<1>5. \A i \in 1 .. 2 : i = 1 \/ i = 2
  OBVIOUS
<1>6. \A i \in 1 .. 2 : q[i] = t[i]
  BY <1>q, <1>o, <1>t, <1>5
<1>7. q = t
  BY <1>4, <1>6
<1> QED
  BY <1>7 DEF q, p, t

\* News of one event more, and those of a stream that ends.
LEMMA Joined ==
  ASSUME NEW x, NEW y
  PROVE  /\ Append(<<>>, x) = <<x>> /\ Append(<<x>>, y) = <<x, y>>
         /\ <<>> \o <<>> \o <<x>> = <<x>> /\ <<>> \o <<x>> \o <<y>> = <<x, y>>
<1>1. Append(<<>>, x) = <<x>>
  OBVIOUS
<1>2. Append(<<x>>, y) = <<x, y>>
  BY AppendTwo
<1>3. <<>> \o <<>> \o <<x>> = <<x>>
  OBVIOUS
<1>4. <<>> \o <<x>> \o <<y>> = <<x, y>>
  <2>1. <<>> \o <<x>> = <<x>>
    OBVIOUS
  <2>2. <<x>> \o <<y>> = Append(<<x>>, y)
    OBVIOUS
  <2> QED
    BY <1>2, <2>1, <2>2
<1> QED
  BY <1>1, <1>2, <1>3, <1>4

\* Nothing is told and no read is answered.
LEMMA QuietServes ==
  ASSUME NEW r, Heeded(r), NEW v, v.news = <<>>, v.state = r.state,
         v.readRequests \in {0, r.readRequests}, NEW isRead
  PROVE  Serves(v, r, isRead)
<1>1. NewsOf(v) = {}
  BY NoNews
<1>2. ~ Reading(v)
  BY <1>1 DEF Reading
<1> QED
  BY <1>1, <1>2 DEF Serves, Heeded

\* One thing is told that is no read.
LEMMA TellsServes ==
  ASSUME NEW r, Heeded(r), NEW v, NEW e, v.news = <<e>>, v.state = r.state,
         v.readRequests \in {0, r.readRequests}, e[1] \in RKinds \ {"read"},
         e[1] = "closed" => ~ v.reader
  PROVE  Serves(v, r, FALSE)
<1>1. NewsOf(v) = {e}
  BY OneNews
<1>2. ~ Reading(v)
  BY <1>1 DEF Reading
<1>3. e[1] \in RKinds
  OBVIOUS
<1> QED
  BY <1>1, <1>2, <1>3 DEF Serves, Heeded

\* pull is called or not: nothing is told.
LEMMA PullTells ==
  ASSUME NEW r, RInv(r)
  PROVE  LET v == R!CallPullIfNeeded(r)
         IN  /\ v.news = r.news /\ v.state = r.state /\ v.readRequests = r.readRequests
             /\ v.reader = r.reader
<1>1. CASE ~ R!ShouldCallPull(r)
  BY <1>1 DEF R!CallPullIfNeeded
<1>2. CASE R!ShouldCallPull(r) /\ r.pulling
  BY <1>2, ReadFields DEF R!CallPullIfNeeded, RInv
<1>3. CASE R!ShouldCallPull(r) /\ ~ r.pulling
  <2> DEFINE v == [R!Assert_(r, ~ r.pullAgain) EXCEPT !.pulling = TRUE]
  <2>1. /\ v.news = r.news /\ v.state = r.state /\ v.readRequests = r.readRequests
        /\ v.reader = r.reader
    BY ReadFields DEF R!Assert_, RInv
  <2> QED
    BY <1>3, <2>1 DEF R!CallPullIfNeeded
<1> QED
  BY <1>1, <1>2, <1>3

\* The end of the stream: the read that waits first.
LEMMA EndTells ==
  ASSUME NEW r, Heeded(r), r.state = "readable", NEW state, state # "readable",
         NEW read, NEW closed
  PROVE  LET v == R!EndStream(r, state, read, closed)
         IN  /\ v.state = state /\ v.reader = r.reader
             /\ v.readRequests = IF r.reader THEN 0 ELSE r.readRequests
             /\ v.news = IF ~ r.reader THEN <<>>
                         ELSE IF r.readRequests = 0 THEN << <<"closed", closed>> >>
                              ELSE << <<"read", read>>, <<"closed", closed>> >>
<1> DEFINE v == [R!Assert_(r, r.state = "readable") EXCEPT !.state = state]
           reads == [i \in 1 .. r.readRequests |-> <<"read", read>>]
           news == v.news \o reads \o << <<"closed", closed>> >>
           u == [v EXCEPT !.readRequests = 0, !.news = news]
<1>1. R!EndStream(r, state, read, closed) = IF ~ v.reader THEN v ELSE u
  BY DEF R!EndStream
<1>2. /\ DOMAIN v = DOMAIN r /\ v.state = state /\ v.reader = r.reader /\ v.news = <<>>
      /\ v.readRequests = r.readRequests
  BY ReadFields DEF R!Assert_, RInv, Heeded
<1> HIDE DEF v
<1>3. u.state = state /\ u.reader = r.reader /\ u.readRequests = 0 /\ u.news = news
  BY <1>2, ReadFields DEF RInv, Heeded
<1>4. r.readRequests = 0 => news = << <<"closed", closed>> >>
  <2>1. r.readRequests = 0 => reads = <<>>
    OBVIOUS
  <2> HIDE DEF reads
  <2> QED
    BY <1>2, <2>1, Joined
<1>5. r.readRequests = 1 => news = << <<"read", read>>, <<"closed", closed>> >>
  <2>1. r.readRequests = 1 => reads = << <<"read", read>> >>
    OBVIOUS
  <2> HIDE DEF reads
  <2> QED
    BY <1>2, <2>1, Joined
<1> HIDE DEF u, news
<1> QED
  BY <1>1, <1>2, <1>3, <1>4, <1>5 DEF Heeded

\* So an end of the stream answers the read that waits.
LEMMA EndServes ==
  ASSUME NEW r, Heeded(r), r.state = "readable", NEW state, state # "readable",
         NEW read, NEW closed, NEW v, v.state = state,
         v.readRequests = (IF r.reader THEN 0 ELSE r.readRequests),
         v.news = IF ~ r.reader THEN <<>>
                  ELSE IF r.readRequests = 0 THEN << <<"closed", closed>> >>
                       ELSE << <<"read", read>>, <<"closed", closed>> >>
  PROVE  Serves(v, r, FALSE)
<1> DEFINE d == <<"read", read>>
           e == <<"closed", closed>>
<1>1. d[1] = "read" /\ e[1] = "closed" /\ <<d[1], e[1]>> = <<"read", "closed">>
  OBVIOUS
<1> HIDE DEF d, e
<1>2. CASE ~ r.reader
  BY <1>2, NoNews DEF Serves, Reading, Heeded
<1>3. CASE r.reader /\ r.readRequests = 0
  <2>1. v.news = <<e>>
    BY <1>3 DEF e
  <2>2. NewsOf(v) = {e}
    BY <2>1, OneNews
  <2>3. ~ Reading(v)
    BY <1>1, <2>2 DEF Reading
  <2> QED
    BY <1>1, <1>3, <2>1, <2>2, <2>3 DEF Serves, RKinds, Heeded
<1>4. CASE r.reader /\ r.readRequests = 1
  <2>1. v.news = <<d, e>>
    BY <1>4 DEF d, e
  <2>2. NewsOf(v) = {d, e}
    BY <2>1, TwoNews
  <2> QED
    BY <1>1, <1>4, <2>1, <2>2 DEF Serves, Heeded
<1> QED
  BY <1>2, <1>3, <1>4 DEF Heeded, RInv

\* error() of the source.
LEMMA SourceErrorServes ==
  ASSUME NEW r, Heeded(r)
  PROVE  Serves(R!ControllerError(r), r, FALSE)
<1> DEFINE a == [r EXCEPT !.queue = <<>>]
           v == R!EndStream(a, "errored", "failed", "rejected")
<1>1. Heeded(a) /\ a.state = r.state /\ a.reader = r.reader /\ a.readRequests = r.readRequests
  BY ReadFields DEF Heeded, RInv
<1>2. R!ControllerError(r) = IF r.state # "readable" THEN r ELSE v
  BY DEF R!ControllerError
<1> HIDE DEF a
<1>3. r.state # "readable" => Serves(r, r, FALSE)
  BY QuietServes DEF Heeded
<1>4. CASE r.state = "readable"
  <2>1. /\ v.state = "errored" /\ v.readRequests = IF r.reader THEN 0 ELSE r.readRequests
        /\ v.news = IF ~ r.reader THEN <<>>
                    ELSE IF r.readRequests = 0 THEN << <<"closed", "rejected">> >>
                         ELSE << <<"read", "failed">>, <<"closed", "rejected">> >>
    BY <1>1, <1>4, EndTells
  <2> HIDE DEF v
  <2>2. Serves(v, r, FALSE)
    BY <1>4, <2>1, EndServes
  <2> QED
    BY <1>2, <1>4, <2>2 DEF v
<1> QED
  BY <1>2, <1>3, <1>4

\* close() of the source.
LEMMA SourceCloseServes ==
  ASSUME NEW r, Heeded(r)
  PROVE  Serves(R!ControllerClose(r), r, FALSE)
<1> DEFINE a == [r EXCEPT !.closeRequested = TRUE]
           v == R!EndStream(a, "closed", "done", "resolved")
<1>1. /\ Heeded(a) /\ a.state = r.state /\ a.reader = r.reader
      /\ a.readRequests = r.readRequests /\ a.news = <<>>
  BY ReadFields DEF Heeded, RInv
<1>2. R!ControllerClose(r) = IF ~ R!CanCloseOrEnqueue(r) THEN r
                             ELSE IF a.queue = <<>> THEN v ELSE a
  BY DEF R!ControllerClose, R!CloseStream
<1> HIDE DEF a
<1>3. Serves(r, r, FALSE) /\ Serves(a, r, FALSE)
  BY <1>1, QuietServes DEF Heeded
<1>4. CASE R!CanCloseOrEnqueue(r)
  <2>1. r.state = "readable"
    BY <1>4 DEF R!CanCloseOrEnqueue
  <2>2. /\ v.state = "closed" /\ v.readRequests = IF r.reader THEN 0 ELSE r.readRequests
        /\ v.news = IF ~ r.reader THEN <<>>
                    ELSE IF r.readRequests = 0 THEN << <<"closed", "resolved">> >>
                         ELSE << <<"read", "done">>, <<"closed", "resolved">> >>
    BY <1>1, <2>1, EndTells
  <2> HIDE DEF v
  <2>3. Serves(v, r, FALSE)
    BY <2>1, <2>2, EndServes
  <2> QED
    BY <1>2, <1>3, <1>4, <2>3 DEF v
<1> QED
  BY <1>2, <1>3, <1>4

\* enqueue() of the source: a chunk for the read that waits, or for the queue.
LEMMA EnqueueServes ==
  ASSUME NEW r, Heeded(r), NEW c
  PROVE  Serves(R!Enqueue(r, c), r, FALSE)
<1> DEFINE e == <<"read", c>>
           p == [r EXCEPT !.readRequests = @ - 1]
           a == R!Tell(p, e)
           b == [r EXCEPT !.queue = Append(@, c)]
           d == IF r.reader /\ r.readRequests > 0 THEN a ELSE b
           v == R!CallPullIfNeeded(d)
<1>1. R!Enqueue(r, c) = IF ~ R!CanCloseOrEnqueue(r) THEN r ELSE v
  BY DEF R!Enqueue
<1>2. Serves(r, r, FALSE)
  BY QuietServes DEF Heeded
<1>3. CASE R!CanCloseOrEnqueue(r)
  <2>1. r.state = "readable"
    BY <1>3 DEF R!CanCloseOrEnqueue
  <2>9. RInv(p) /\ p.state = "readable" /\ p.readRequests = r.readRequests - 1 /\ p.news = <<>>
    BY <2>1, ReadFields DEF Heeded, RInv
  <2>2. RInv(a) /\ a.state = "readable" /\ a.readRequests = r.readRequests - 1 /\ a.news = <<e>>
    <3> HIDE DEF p, e
    <3>1. a.news = Append(p.news, e)
      BY <2>9, ReadFields DEF RInv, R!Tell
    <3>2. RInv(a) /\ a.state = p.state /\ a.readRequests = p.readRequests
      BY <2>9, ReadFields DEF RInv, R!Tell
    <3> QED
      BY <2>9, <3>1, <3>2, Joined
  <2>3. RInv(b) /\ b.state = "readable" /\ b.readRequests = r.readRequests /\ b.news = <<>>
    BY <2>1, ReadFields DEF Heeded, RInv
  <2> HIDE DEF a, b
  <2>4. RInv(d)
    BY <2>2, <2>3
  <2>5. v.news = d.news /\ v.state = d.state /\ v.readRequests = d.readRequests
    BY <2>4, PullTells
  <2>6. e[1] = "read"
    OBVIOUS
  <2> HIDE DEF e, v
  <2>7. CASE r.reader /\ r.readRequests > 0
    <3>1. r.readRequests = 1 /\ v.news = <<e>> /\ v.state = "readable" /\ v.readRequests = 0
      BY <2>2, <2>5, <2>7 DEF Heeded
    <3>2. NewsOf(v) = {e}
      BY <3>1, OneNews
    <3> QED
      BY <1>1, <1>3, <2>1, <2>6, <3>1, <3>2 DEF Serves, RKinds, v
  <2>8. CASE ~ (r.reader /\ r.readRequests > 0)
    <3>1. v.news = <<>> /\ v.state = r.state /\ v.readRequests = r.readRequests
      BY <2>1, <2>3, <2>5, <2>8
    <3>2. Serves(v, r, FALSE)
      BY <3>1, QuietServes DEF Heeded
    <3> QED
      BY <1>1, <1>3, <3>2 DEF v
  <2> QED
    BY <2>7, <2>8
<1> QED
  BY <1>1, <1>2, <1>3

\* A stream that closes tells its reader, and answers the read that waits.
LEMMA ClosesTells ==
  ASSUME NEW r, Heeded(r), r.state = "readable"
  PROVE  LET x == R!CloseStream(r)
         IN  /\ x.state = "closed"
             /\ x.readRequests = IF r.reader THEN 0 ELSE r.readRequests
             /\ x.news = IF ~ r.reader THEN <<>>
                         ELSE IF r.readRequests = 0 THEN << <<"closed", "resolved">> >>
                              ELSE << <<"read", "done">>, <<"closed", "resolved">> >>
  BY EndTells DEF R!CloseStream

\* A stream that closes under a reader that waits for no chunk.
LEMMA ClosesIdle ==
  ASSUME NEW r, Heeded(r), r.state = "readable", r.reader, r.readRequests = 0
  PROVE  LET u == R!CloseStream(r)
         IN  /\ u.reader /\ u.readRequests = 0 /\ u.news = << <<"closed", "resolved">> >>
             /\ u.state = "closed"
<1> DEFINE x == R!CloseStream(r)
<1>1. /\ x.state = "closed"
      /\ x.readRequests = IF r.reader THEN 0 ELSE r.readRequests
      /\ x.news = IF ~ r.reader THEN <<>>
                  ELSE IF r.readRequests = 0 THEN << <<"closed", "resolved">> >>
                       ELSE << <<"read", "done">>, <<"closed", "resolved">> >>
  BY ClosesTells
<1>2. x.reader = r.reader
  BY EndTells DEF R!CloseStream
<1> HIDE DEF x
<1> QED
  BY <1>1, <1>2 DEF x

\* read() answers at once or leaves one read to be answered.
LEMMA ReadServes ==
  ASSUME NEW r, Heeded(r), r.readRequests = 0, r.reader
  PROVE  Serves(R!Read(r), r, TRUE)
<1>1. ASSUME NEW c, c \notin Ours, r.state # "readable", R!Read(r) = R!Tell(r, <<"read", c>>)
      PROVE  Serves(R!Read(r), r, TRUE)
  <2> DEFINE e == <<"read", c>>
             v == R!Tell(r, e)
  <2>1. v.news = <<e>> /\ v.state = r.state /\ v.readRequests = 0
    BY ReadFields DEF Heeded, RInv, R!Tell
  <2>2. e[1] = "read" /\ e[2] = c
    OBVIOUS
  <2> HIDE DEF e, v
  <2>3. NewsOf(v) = {e}
    BY <2>1, OneNews
  <2> QED
    BY <1>1, <2>1, <2>2, <2>3 DEF Serves, RKinds, v, e
<1>2. "done" \notin Ours /\ "failed" \notin Ours
  BY ChunksAssumption DEF Ours
<1>3. CASE r.state = "closed"
  BY <1>1, <1>2, <1>3 DEF R!Read
<1>4. CASE r.state = "errored"
  BY <1>1, <1>2, <1>4 DEF R!Read
<1>5. CASE r.state = "readable" /\ r.queue # <<>>
  <2> DEFINE a == [r EXCEPT !.queue = Tail(@)]
             b == IF a.closeRequested /\ a.queue = <<>>
                  THEN R!CloseStream(a) ELSE R!CallPullIfNeeded(a)
             e == <<"read", Head(r.queue)>>
             v == R!Tell(b, e)
  <2>1. RInv(a) /\ a.state = "readable" /\ a.news = <<>> /\ a.readRequests = 0 /\ a.reader
    BY <1>5, ReadFields DEF Heeded, RInv
  <2>2. R!Read(r) = v
    BY <1>5 DEF R!Read
  <2> HIDE DEF a
  <2>3. RInv(b) /\ b.reader /\ b.readRequests = 0
        /\ \/ b.news = << <<"closed", "resolved">> >> /\ b.state = "closed"
           \/ b.news = <<>> /\ b.state = "readable"
    <3>1. RInv(b)
      BY <2>1, EndInv, PullInv DEF R!CloseStream
    <3>2. LET u == R!CloseStream(a)
          IN  /\ u.reader /\ u.readRequests = 0 /\ u.news = << <<"closed", "resolved">> >>
              /\ u.state = "closed"
      <4>1. Heeded(a)
        BY <2>1 DEF Heeded
      <4> QED
        BY <2>1, <4>1, ClosesIdle
    <3>3. LET u == R!CallPullIfNeeded(a)
          IN  u.reader /\ u.readRequests = 0 /\ u.news = <<>> /\ u.state = "readable"
      BY <2>1, PullTells
    <3> QED
      BY <3>1, <3>2, <3>3
  <2> HIDE DEF b
  <2>4. v.news = Append(b.news, e) /\ v.state = b.state /\ v.readRequests = 0
    BY <2>3, ReadFields DEF RInv, R!Tell
  <2>5. e[1] = "read"
    OBVIOUS
  <2> HIDE DEF e, v
  <2>6. CASE b.news = <<>> /\ b.state = "readable"
    <3>1. v.news = <<e>>
      BY <2>4, <2>6
    <3>2. NewsOf(v) = {e}
      BY <3>1, OneNews
    <3> QED
      BY <1>5, <2>2, <2>4, <2>5, <3>1, <3>2 DEF Serves, RKinds
  <2>7. CASE b.news = << <<"closed", "resolved">> >> /\ b.state = "closed"
    <3> DEFINE d == <<"closed", "resolved">>
    <3>3. d[1] = "closed" /\ b.news = <<d>>
      BY <2>7
    <3> HIDE DEF d
    <3>4. v.news = <<d, e>>
      BY <2>4, <3>3, Joined
    <3>1. v.news = <<d, e>> /\ d[1] = "closed" /\ <<d[1], e[1]>> = <<"closed", "read">>
      BY <2>5, <3>3, <3>4
    <3>2. NewsOf(v) = {d, e}
      BY <3>1, TwoNews
    <3> QED
      BY <1>5, <2>2, <2>4, <2>5, <2>7, <3>1, <3>2 DEF Serves
  <2> QED
    BY <2>3, <2>6, <2>7
<1>6. CASE r.state = "readable" /\ r.queue = <<>>
  <2> DEFINE a == [R!Assert_(r, r.reader) EXCEPT !.readRequests = @ + 1]
             v == R!CallPullIfNeeded(a)
  <2>1. RInv(a) /\ a.state = "readable" /\ a.news = <<>> /\ a.readRequests = 1
    <3> DEFINE p == R!Assert_(r, r.reader)
    <3>1. RInv(p) /\ p.state = "readable" /\ p.news = <<>> /\ p.readRequests = 0
      BY <1>6, ReadFields DEF Heeded, RInv, R!Assert_
    <3>4. a = [p EXCEPT !.readRequests = @ + 1]
      OBVIOUS
    <3> HIDE DEF p, a
    <3>2. RInv(a)
      BY <3>1, <3>4, ReadFields DEF RInv
    <3>3. a.state = p.state /\ a.news = p.news /\ a.readRequests = 0 + 1
      BY <3>1, <3>4, ReadFields DEF RInv
    <3> QED
      BY <3>1, <3>2, <3>3
  <2>2. R!Read(r) = v
    BY <1>6 DEF R!Read
  <2> HIDE DEF a
  <2>3. v.news = <<>> /\ v.state = "readable" /\ v.readRequests = 1
    BY <2>1, PullTells
  <2> HIDE DEF v
  <2>4. NewsOf(v) = {} /\ ~ Reading(v)
    BY <2>3, NoNews DEF Reading
  <2> QED
    BY <1>6, <2>2, <2>3, <2>4 DEF Serves
<1> QED
  BY <1>3, <1>4, <1>5, <1>6 DEF Heeded, RInv

\* cancel() ends the stream.
LEMMA CancelServes ==
  ASSUME NEW r, Heeded(r)
  PROVE  LET v == R!StreamCancel(r) IN Serves(v, r, FALSE) /\ v.state # "readable"
<1>1. CASE r.state \in {"closed", "errored"}
  <2>1. PICK how : R!StreamCancel(r) = R!Tell(r, <<"cancel", how>>)
    BY <1>1 DEF R!StreamCancel
  <2> DEFINE e == <<"cancel", how>>
             v == R!Tell(r, e)
  <2>2. v.news = <<e>> /\ v.state = r.state /\ v.readRequests = r.readRequests
    BY ReadFields DEF Heeded, RInv, R!Tell
  <2>3. e[1] = "cancel"
    OBVIOUS
  <2> HIDE DEF e, v
  <2>4. Serves(v, r, FALSE)
    BY <2>2, <2>3, TellsServes DEF RKinds
  <2> QED
    BY <1>1, <2>1, <2>2, <2>4 DEF v, e
<1>2. CASE r.state = "readable"
  <2> DEFINE u == R!CloseStream(r)
             v == [u EXCEPT !.queue = <<>>, !.cancelling = TRUE]
  <2>1. /\ u.state = "closed" /\ u.readRequests = IF r.reader THEN 0 ELSE r.readRequests
        /\ u.news = IF ~ r.reader THEN <<>>
                    ELSE IF r.readRequests = 0 THEN << <<"closed", "resolved">> >>
                         ELSE << <<"read", "done">>, <<"closed", "resolved">> >>
    BY <1>2, EndTells DEF R!CloseStream
  <2>2. RInv(u)
    BY <1>2, EndInv DEF R!CloseStream, Heeded
  <2>3. R!StreamCancel(r) = v
    BY <1>2 DEF R!StreamCancel
  <2> HIDE DEF u
  <2>4. v.state = u.state /\ v.readRequests = u.readRequests /\ v.news = u.news
    BY <2>2, ReadFields DEF RInv
  <2> HIDE DEF v
  <2>5. Serves(v, r, FALSE)
    BY <1>2, <2>1, <2>4, EndServes
  <2> QED
    BY <2>1, <2>3, <2>4, <2>5
<1> QED
  BY <1>1, <1>2 DEF Heeded, RInv

\* A reader that is released is told so, and the read that waits is answered.
LEMMA ReleaseServes ==
  ASSUME NEW r, Heeded(r)
  PROVE  LET v == R!ReaderRelease(r)
         IN  Serves(v, r, FALSE) /\ v.readRequests = 0 /\ v.state = r.state
<1> DEFINE a == R!Assert_(r, r.reader)
           e == <<"closed", "rejected">>
           news == IF r.state = "readable" THEN Append(a.news, e) ELSE a.news
           v == [a EXCEPT !.reader = FALSE, !.readRequests = 0, !.news = news]
<1>1. R!ReaderRelease(r) = v
  BY DEF R!ReaderRelease
<1>2. DOMAIN a = DOMAIN r /\ a.news = <<>> /\ a.state = r.state
  BY ReadFields DEF Heeded, RInv, R!Assert_
<1> HIDE DEF a
<1>3. v.reader = FALSE /\ v.readRequests = 0 /\ v.news = news /\ v.state = r.state
  BY <1>2, ReadFields DEF Heeded, RInv
<1>4. news \in {<<>>, <<e>>} /\ e[1] = "closed"
  BY <1>2
<1> HIDE DEF v, news, e
<1>5. CASE news = <<>>
  BY <1>1, <1>3, <1>5, QuietServes
<1>6. CASE news = <<e>>
  BY <1>1, <1>3, <1>4, <1>6, TellsServes DEF RKinds
<1> QED
  BY <1>4, <1>5, <1>6

\* The source answers start, pull or cancel.
LEMMA AnswersServe ==
  ASSUME NEW r, Heeded(r), NEW ok
  PROVE  /\ Serves(R!FinishCancel(r, ok), r, FALSE)
         /\ Serves(R!FinishPull(r, ok), r, FALSE)
         /\ ~ r.started => Serves(R!FinishStart(r, ok), r, FALSE)
<1>1. Serves(R!FinishCancel(r, ok), r, FALSE)
  <2> DEFINE a == [r EXCEPT !.cancelling = FALSE]
             e == <<"cancelled", IF ok THEN "resolved" ELSE "rejected">>
             v == R!Tell(a, e)
  <2>1. R!FinishCancel(r, ok) = v
    BY DEF R!FinishCancel
  <2>4. DOMAIN a = DOMAIN r /\ a.news = <<>> /\ a.state = r.state /\ a.readRequests = r.readRequests
    BY ReadFields DEF Heeded, RInv
  <2>3. e[1] = "cancelled"
    OBVIOUS
  <2> HIDE DEF a, e
  <2>5. v.news = Append(a.news, e) /\ v.state = a.state /\ v.readRequests = a.readRequests
    BY <2>4, ReadFields DEF Heeded, RInv, R!Tell
  <2>2. v.news = <<e>> /\ v.state = r.state /\ v.readRequests = r.readRequests
    BY <2>4, <2>5, Joined
  <2> HIDE DEF e, v
  <2> QED
    BY <2>1, <2>2, <2>3, TellsServes DEF RKinds
<1>2. Serves(R!FinishPull(r, ok), r, FALSE)
  <2> DEFINE a == [r EXCEPT !.pulling = FALSE, !.pullAgain = FALSE]
             v == R!CallPullIfNeeded(a)
  <2>1. RInv(a) /\ a.state = r.state /\ a.readRequests = r.readRequests /\ a.news = <<>>
    BY ReadFields DEF Heeded, RInv
  <2>2. R!FinishPull(r, ok) = IF ~ ok THEN R!ControllerError(r)
                              ELSE IF r.pullAgain THEN v ELSE a
    BY DEF R!FinishPull
  <2> HIDE DEF a
  <2>3. v.news = <<>> /\ v.state = r.state /\ v.readRequests = r.readRequests
    BY <2>1, PullTells
  <2> HIDE DEF v
  <2>4. Serves(v, r, FALSE) /\ Serves(a, r, FALSE)
    BY <2>1, <2>3, QuietServes
  <2> QED
    BY <2>2, <2>4, SourceErrorServes
<1>3. ~ r.started => Serves(R!FinishStart(r, ok), r, FALSE)
  <2> DEFINE a == [R!Assert_(r, ~ r.pulling /\ ~ r.pullAgain) EXCEPT !.started = TRUE]
             v == R!CallPullIfNeeded(a)
  <2>1. /\ ~ r.started => RInv(a)
        /\ a.state = r.state /\ a.readRequests = r.readRequests /\ a.news = <<>>
    BY ReadFields DEF Heeded, RInv, R!Assert_
  <2>2. R!FinishStart(r, ok) = IF ok THEN v ELSE R!ControllerError(r)
    BY DEF R!FinishStart
  <2> HIDE DEF a
  <2>3. ~ r.started => v.news = <<>> /\ v.state = r.state /\ v.readRequests = r.readRequests
    BY <2>1, PullTells
  <2> HIDE DEF v
  <2>4. ~ r.started => Serves(v, r, FALSE)
    BY <2>3, QuietServes
  <2> QED
    BY <2>2, <2>4, SourceErrorServes
<1> QED
  BY <1>1, <1>2, <1>3

\* The reader of a stream that is taken has asked for nothing.
LEMMA AcquireHeeds ==
  ASSUME NEW r, Heeded(r)
  PROVE  LET v == R!AcquireReader(r) IN Heeded(v) /\ v.state = r.state /\ v.readRequests = 0
  BY SourceInv, ReadFields DEF Heeded, RInv, R!AcquireReader

-----------------------------------------------------------------------------
(* The microtask queue.                                                    *)

\* A queue, whether a microtask of a kind is in it, and whether there is at most one.
Line(q) == \E S : q \in Seq(S)
Has(q, K) == \E i \in 1 .. Len(q) : q[i].kind \in K
Single(q, K) == \A i, j \in 1 .. Len(q) : q[i].kind \in K /\ q[j].kind \in K => i = j

\* A queue with one microtask more.
LEMMA LongerLine ==
  ASSUME NEW q, Line(q), NEW j
  PROVE  /\ Line(Append(q, j)) /\ Len(Append(q, j)) = Len(q) + 1 /\ Len(q) \in Nat
         /\ Append(q, j)[Len(q) + 1] = j
         /\ \A i \in 1 .. Len(q) : Append(q, j)[i] = q[i]
<1>1. PICK S : q \in Seq(S)
  BY DEF Line
<1> DEFINE T == S \cup {j}
<1>2. q \in Seq(T) /\ j \in T
  BY <1>1
<1> HIDE DEF T
<1>3. Append(q, j) \in Seq(T)
  BY <1>2
<1>4. Len(Append(q, j)) = Len(q) + 1 /\ Len(q) \in Nat
  BY <1>2
<1>5. Append(q, j)[Len(q) + 1] = j
  BY <1>2
<1>6. \A i \in 1 .. Len(q) : Append(q, j)[i] = q[i]
  BY <1>2
<1> QED
  BY <1>3, <1>4, <1>5, <1>6 DEF Line

\* Of a kind there is one more, or the one.
LEMMA LongerHas ==
  ASSUME NEW q, Line(q), NEW j, NEW K
  PROVE  /\ Has(Append(q, j), K) <=> Has(q, K) \/ j.kind \in K
         /\ Single(q, K) /\ (j.kind \notin K \/ ~ Has(q, K)) => Single(Append(q, j), K)
<1> DEFINE t == Append(q, j)
           n == Len(q)
<1>1. /\ Len(t) = n + 1 /\ n \in Nat /\ t[n + 1] = j /\ \A i \in 1 .. n : t[i] = q[i]
  BY LongerLine
<1> HIDE DEF t
<1>2. ASSUME Has(t, K)
      PROVE  Has(q, K) \/ j.kind \in K
  BY <1>1, <1>2 DEF Has
<1>3. ASSUME Has(q, K)
      PROVE  Has(t, K)
  BY <1>1, <1>3 DEF Has
<1>4. ASSUME j.kind \in K
      PROVE  Has(t, K)
  <2>1. n + 1 \in 1 .. Len(t)
    BY <1>1
  <2> QED
    BY <1>1, <1>4, <2>1 DEF Has
<1>5. ASSUME Single(q, K), j.kind \notin K \/ ~ Has(q, K)
      PROVE  Single(t, K)
  <2>1. SUFFICES ASSUME NEW i \in 1 .. n + 1, NEW k \in 1 .. n + 1, t[i].kind \in K, t[k].kind \in K
                 PROVE  i = k
    BY <1>1 DEF Single
  <2>2. CASE j.kind \notin K
    <3>1. i # n + 1 /\ k # n + 1
      BY <1>1, <2>1, <2>2
    <3>2. i \in 1 .. n /\ k \in 1 .. n
      BY <1>1, <3>1
    <3> QED
      BY <1>1, <1>5, <2>1, <3>2 DEF Single
  <2>3. CASE ~ Has(q, K)
    <3>1. i \notin 1 .. n /\ k \notin 1 .. n
      BY <1>1, <2>1, <2>3 DEF Has
    <3> QED
      BY <1>1, <3>1
  <2> QED
    BY <1>5, <2>2, <2>3
<1> QED
  BY <1>2, <1>3, <1>4, <1>5 DEF t

\* The first microtask is taken out.
LEMMA ShorterHas ==
  ASSUME NEW q, Line(q), q # <<>>
  PROVE  /\ Line(Tail(q))
         /\ \A K : /\ Has(Tail(q), K) => Has(q, K)
                   /\ Single(q, K) => Single(Tail(q), K)
                   /\ Head(q).kind \in K => Has(q, K)
                   /\ Single(q, K) /\ Head(q).kind \in K => ~ Has(Tail(q), K)
<1> DEFINE t == Tail(q)
           n == Len(q)
<1>1. PICK S : q \in Seq(S)
  BY DEF Line
<1>2. t \in Seq(S)
  BY <1>1
<1>3. n \in Nat /\ n # 0
  BY <1>1, EmptyLen
<1>4. Len(t) = n - 1
  BY <1>1, <1>3
<1>5. \A i \in 1 .. n - 1 : t[i] = q[i + 1]
  BY <1>1, <1>3
<1>6. Head(q) = q[1]
  BY <1>1, <1>3
<1> HIDE DEF t
<1>7. ASSUME NEW K, Has(t, K)
      PROVE  \E i \in 2 .. n : q[i].kind \in K
  <2>1. PICK i \in 1 .. n - 1 : t[i].kind \in K
    BY <1>4, <1>7 DEF Has
  <2>2. i + 1 \in 2 .. n /\ q[i + 1].kind \in K
    BY <1>3, <1>5, <2>1
  <2> QED
    BY <2>2
<1>8. \A i \in 2 .. n : i \in 1 .. n /\ i # 1
  OBVIOUS
<1>9. ASSUME NEW K, Single(q, K)
      PROVE  Single(t, K)
  <2>1. SUFFICES ASSUME NEW i \in 1 .. n - 1, NEW k \in 1 .. n - 1, t[i].kind \in K, t[k].kind \in K
                 PROVE  i = k
    BY <1>4 DEF Single
  <2>2. i + 1 \in 1 .. n /\ k + 1 \in 1 .. n /\ q[i + 1].kind \in K /\ q[k + 1].kind \in K
    BY <1>3, <1>5, <2>1
  <2>3. i + 1 = k + 1
    BY <1>9, <2>2 DEF Single
  <2> QED
    BY <2>3
<1>10. 1 \in 1 .. n
  BY <1>3
<1>11. ASSUME NEW K
       PROVE  /\ Has(t, K) => Has(q, K)
              /\ Head(q).kind \in K => Has(q, K)
              /\ Single(q, K) /\ Head(q).kind \in K => ~ Has(t, K)
  BY <1>6, <1>7, <1>8, <1>10 DEF Has, Single
<1> QED
  BY <1>2, <1>9, <1>11 DEF Line, t

-----------------------------------------------------------------------------
(* What the pipe does about news.                                          *)

\* The fields of a turn and of the closure in it.
Turn(s) ==
  /\ DOMAIN s = {"source", "dest", "pipe", "jobs"} /\ DOMAIN s.pipe = DOMAIN IdlePipe
  /\ s.pipe.waitsReady \in BOOLEAN

\* What a reaction leaves alone.
Still(t, s) ==
  /\ t.source = s.source /\ t.dest = s.dest
  /\ t.pipe.lock = s.pipe.lock /\ t.pipe.shuttingDown = s.pipe.shuttingDown
  /\ t.pipe.action = s.pipe.action /\ t.pipe.waitsOn = s.pipe.waitsOn
  /\ t.pipe.asserts = s.pipe.asserts /\ t.pipe.options = s.pipe.options

\* A promise of the shutdown action has settled, for an abort signal one of two.
Settles(t, s, part) ==
  \E j : /\ t.jobs = Append(s.jobs, j) /\ part \in s.pipe.parts
         /\ \/ j.kind = "part" /\ t.pipe.parts = s.pipe.parts /\ s.pipe.action = "signal"
            \/ j.kind = "acted" /\ t.pipe.parts = {} /\ s.pipe.action # "signal"

\* Nothing is queued.
Silent(t, s) == t.jobs = s.jobs /\ t.pipe.parts = s.pipe.parts

\* What the pipe does about news of the writable stream.
Hears(t, s, e) ==
  /\ Turn(t) /\ Still(t, s)
  /\ t.pipe.waitsReady <=> s.pipe.waitsReady /\ e[1] # "ready"
  /\ \/ Silent(t, s)
     \/ e[1] \in Endings /\ Settles(t, s, e[1])
     \/ \E j : /\ t.jobs = Append(s.jobs, j) /\ t.pipe.parts = s.pipe.parts
               /\ \/ j.kind = "written" /\ j.arg \in Ours /\ e[1] = "write"
                  \/ j.kind = "read" /\ j.hops = 0 /\ s.pipe.waitsReady /\ e = ReadyTold
                  \/ /\ j.kind = "destErrored" /\ e = ClosedTold
                     /\ s.pipe.lock = "held" /\ ~ s.pipe.shuttingDown

\* A microtask is queued, and nothing else.
LEMMA QueueIs ==
  ASSUME NEW s, DOMAIN s = {"source", "dest", "pipe", "jobs"}, NEW kind, NEW arg, NEW hops
  PROVE  LET t == Queue(s, kind, arg, hops)
             j == [kind |-> kind, arg |-> arg, hops |-> hops]
         IN  /\ t.jobs = Append(s.jobs, j) /\ t.pipe = s.pipe /\ DOMAIN t = DOMAIN s
             /\ t.source = s.source /\ t.dest = s.dest
             /\ j.kind = kind /\ j.arg = arg /\ j.hops = hops
  BY DEF Queue

\* A promise of the shutdown action settles.
LEMMA PartIs ==
  ASSUME NEW s, Turn(s), NEW part, NEW how, NEW hops
  PROVE  LET t == PartSettled(s, part, how, hops)
         IN  /\ Turn(t) /\ Still(t, s) /\ t.pipe.waitsReady = s.pipe.waitsReady
             /\ Silent(t, s) \/ Settles(t, s, part)
<1> DEFINE v == [s EXCEPT !.pipe.parts = {}]
           t == PartSettled(s, part, how, hops)
           pair == <<part, how>>
           x == Queue(s, "part", pair, hops)
           y == Queue(v, "acted", how, hops)
<1>1. t = IF part \notin s.pipe.parts THEN s ELSE IF s.pipe.action = "signal" THEN x ELSE y
  BY DEF PartSettled
<1>2. /\ DOMAIN v = DOMAIN s /\ DOMAIN v.pipe = DOMAIN s.pipe
      /\ v.jobs = s.jobs /\ v.pipe.parts = {} /\ v.source = s.source /\ v.dest = s.dest
      /\ v.pipe.lock = s.pipe.lock /\ v.pipe.shuttingDown = s.pipe.shuttingDown
      /\ v.pipe.action = s.pipe.action /\ v.pipe.waitsOn = s.pipe.waitsOn
      /\ v.pipe.asserts = s.pipe.asserts /\ v.pipe.options = s.pipe.options
      /\ v.pipe.waitsReady = s.pipe.waitsReady
  BY PipeFields DEF Turn
<1> HIDE DEF v, t, pair
<1>3. CASE part \notin s.pipe.parts
  <2>1. t = s
    BY <1>1, <1>3
  <2> HIDE DEF t
  <2>2. /\ Turn(t) /\ Still(t, s) /\ t.pipe.waitsReady = s.pipe.waitsReady
        /\ Silent(t, s)
    BY <2>1 DEF Still, Silent
  <2> QED
    BY <2>2 DEF t
<1>4. CASE part \in s.pipe.parts /\ s.pipe.action = "signal"
  <2> DEFINE j == [kind |-> "part", arg |-> pair, hops |-> hops]
  <2>1. /\ x.jobs = Append(s.jobs, j) /\ x.pipe = s.pipe /\ DOMAIN x = DOMAIN s
        /\ x.source = s.source /\ x.dest = s.dest /\ j.kind = "part"
    BY QueueIs DEF Turn
  <2> HIDE DEF j, x
  <2>2. Settles(x, s, part)
    BY <1>4, <2>1 DEF Settles
  <2>3. Turn(x) /\ Still(x, s) /\ x.pipe.waitsReady = s.pipe.waitsReady
    BY <2>1 DEF Turn, Still
  <2> QED
    BY <1>1, <1>4, <2>2, <2>3 DEF t
<1>5. CASE part \in s.pipe.parts /\ s.pipe.action # "signal"
  <2> DEFINE j == [kind |-> "acted", arg |-> how, hops |-> hops]
  <2>1. /\ y.jobs = Append(v.jobs, j) /\ y.pipe = v.pipe /\ DOMAIN y = DOMAIN v
        /\ y.source = v.source /\ y.dest = v.dest /\ j.kind = "acted"
    BY <1>2, QueueIs DEF Turn
  <2> HIDE DEF j, y
  <2>2. Settles(y, s, part)
    BY <1>2, <1>5, <2>1 DEF Settles
  <2>3. Turn(y) /\ Still(y, s) /\ y.pipe.waitsReady = s.pipe.waitsReady
    BY <1>2, <2>1 DEF Turn, Still
  <2> QED
    BY <1>1, <1>5, <2>2, <2>3 DEF t
<1> QED
  BY <1>3, <1>4, <1>5 DEF t

\* The kinds of news, and what they are about.
LEMMA EventIs ==
  ASSUME NEW e \in WEvents
  PROVE  /\ e[1] \in {"write", "ready", "closed", "close", "abort"}
         /\ e[1] # "write" => e[2] \in Hows
         /\ e[1] = "ready" /\ e[2] = "resolved" => e = ReadyTold
         /\ e[1] = "closed" /\ e[2] = "rejected" => e = ClosedTold
<1>1. CASE e \in {"write"} \X AllChunks
  BY <1>1
<1>2. CASE e \in {"ready", "closed", "close", "abort"} \X Hows
  BY <1>2 DEF ReadyTold, ClosedTold
<1> QED
  BY <1>1, <1>2 DEF WEvents

\* The pipe hears one thing of the writable stream.
LEMMA HearDestIs ==
  ASSUME NEW s, Turn(s), NEW e \in WEvents
  PROVE  Hears(HearDest(s, e), s, e)
<1> DEFINE t == HearDest(s, e)
<1>1. e[1] \in {"write", "ready", "closed", "close", "abort"}
  BY EventIs
<1>2. CASE e[1] = "write"
  <2> DEFINE x == Queue(s, "written", e[2], 0)
             j == [kind |-> "written", arg |-> e[2], hops |-> 0]
  <2>1. t = s \/ (t = x /\ e[2] \in Ours)
    BY <1>2 DEF HearDest, Ours
  <2>2. /\ x.jobs = Append(s.jobs, j) /\ x.pipe = s.pipe /\ DOMAIN x = DOMAIN s
        /\ x.source = s.source /\ x.dest = s.dest /\ j.kind = "written" /\ j.arg = e[2]
    BY QueueIs DEF Turn
  <2> HIDE DEF x, j, t
  <2>3. Hears(s, s, e)
    BY <1>2 DEF Hears, Still, Silent
  <2>4. e[2] \in Ours => Hears(x, s, e)
    BY <1>2, <2>2 DEF Hears, Still, Turn
  <2> QED
    BY <2>1, <2>3, <2>4 DEF t
<1>3. CASE e[1] = "ready"
  <2> DEFINE v == [s EXCEPT !.pipe.waitsReady = FALSE]
             x == Queue(v, "read", NoWrite, 0)
             j == [kind |-> "read", arg |-> NoWrite, hops |-> 0]
  <2>1. t = IF ~ s.pipe.waitsReady THEN s ELSE IF e[2] = "resolved" THEN x ELSE v
    BY <1>3 DEF HearDest
  <2>2. /\ DOMAIN v = DOMAIN s /\ DOMAIN v.pipe = DOMAIN s.pipe
        /\ v.jobs = s.jobs /\ v.pipe.parts = s.pipe.parts
        /\ v.source = s.source /\ v.dest = s.dest
        /\ v.pipe.lock = s.pipe.lock /\ v.pipe.shuttingDown = s.pipe.shuttingDown
        /\ v.pipe.action = s.pipe.action /\ v.pipe.waitsOn = s.pipe.waitsOn
        /\ v.pipe.asserts = s.pipe.asserts /\ v.pipe.options = s.pipe.options
        /\ v.pipe.waitsReady = FALSE
    BY PipeFields DEF Turn
  <2> HIDE DEF v
  <2>3. /\ x.jobs = Append(v.jobs, j) /\ x.pipe = v.pipe /\ DOMAIN x = DOMAIN v
        /\ x.source = v.source /\ x.dest = v.dest /\ j.kind = "read" /\ j.hops = 0
    BY <2>2, QueueIs DEF Turn
  <2> HIDE DEF x, j, t
  <2>4. ~ s.pipe.waitsReady => Hears(s, s, e)
    BY <1>3 DEF Hears, Still, Silent
  <2>5. Hears(v, s, e)
    BY <1>3, <2>2 DEF Hears, Still, Silent, Turn
  <2>6. CASE s.pipe.waitsReady /\ e[2] = "resolved"
    <3>1. e = ReadyTold
      BY <1>3, <2>6, EventIs
    <3>2. Hears(x, s, e)
      BY <1>3, <2>2, <2>3, <2>6, <3>1, ZenonT(60) DEF Hears, Still, Turn
    <3> QED
      BY <2>1, <2>6, <3>2 DEF t
  <2> QED
    BY <2>1, <2>4, <2>5, <2>6 DEF t
<1>4. CASE e[1] = "closed"
  <2> DEFINE x == Queue(s, "destErrored", NoWrite, 0)
             j == [kind |-> "destErrored", arg |-> NoWrite, hops |-> 0]
  <2>1. t = IF e[2] = "rejected" /\ s.pipe.lock = "held" /\ ~ s.pipe.shuttingDown THEN x ELSE s
    BY <1>4 DEF HearDest
  <2>2. /\ x.jobs = Append(s.jobs, j) /\ x.pipe = s.pipe /\ DOMAIN x = DOMAIN s
        /\ x.source = s.source /\ x.dest = s.dest /\ j.kind = "destErrored"
    BY QueueIs DEF Turn
  <2> HIDE DEF x, j, t
  <2>3. Hears(s, s, e)
    BY <1>4 DEF Hears, Still, Silent
  <2>4. CASE e[2] = "rejected" /\ s.pipe.lock = "held" /\ ~ s.pipe.shuttingDown
    <3>1. e = ClosedTold
      BY <1>4, <2>4, EventIs
    <3>2. Hears(x, s, e)
      BY <1>4, <2>2, <2>4, <3>1 DEF Hears, Still, Turn
    <3> QED
      BY <2>1, <2>4, <3>2 DEF t
  <2> QED
    BY <2>1, <2>3, <2>4 DEF t
<1>5. CASE e[1] \in Endings
  <2>1. t = PartSettled(s, e[1], e[2], 0)
    BY <1>5 DEF HearDest, Endings
  <2> HIDE DEF t
  <2>2. /\ Turn(t) /\ Still(t, s) /\ t.pipe.waitsReady = s.pipe.waitsReady
        /\ Silent(t, s) \/ Settles(t, s, e[1])
    BY <2>1, PartIs
  <2>3. e[1] # "ready"
    BY <1>5 DEF Endings
  <2>4. Hears(t, s, e)
    BY <1>5, <2>2, <2>3 DEF Hears, Turn
  <2> QED
    BY <2>4 DEF t
<1> QED
  BY <1>1, <1>2, <1>3, <1>4, <1>5 DEF Endings

\* What goes on from each number to the next reaches the last.
LEMMA Upto ==
  ASSUME NEW m \in Nat, NEW K, 0 \in K, \A n \in 0 .. m : n < m /\ n \in K => n + 1 \in K
  PROVE  \A n \in 0 .. m : n \in K
<1> DEFINE S == {n \in Nat : n <= m /\ n \notin K}
<1>1. SUFFICES ASSUME S # {} PROVE FALSE
  OBVIOUS
<1>2. PICK x \in S : \A y \in Nat : ~ (y \in S /\ y < x)
  <2>1. PICK x \in S : \A y \in Nat : y \in SetLessThan(x, OpToRel(<, Nat), Nat) => y \notin S
    BY <1>1, NatLessThanWellFounded, WFMin DEF SetLessThan
  <2>2. \A y \in Nat : y < x => y \in SetLessThan(x, OpToRel(<, Nat), Nat)
    BY DEF SetLessThan, OpToRel
  <2> QED
    BY <2>1, <2>2
<1>3. x # 0
  OBVIOUS
<1>4. x - 1 \in Nat /\ x - 1 < x /\ x - 1 \in 0 .. m
  BY <1>3
<1>5. x - 1 \in K
  BY <1>2, <1>4
<1> QED
  BY <1>4, <1>5

\* The reactions to the news of the writable stream, one after the other.
LEMMA DestFold ==
  ASSUME NEW s, NEW news, Len(news) \in Nat
  PROVE \E f : /\ f[0] = s
               /\ \A n \in 1 .. Len(news) : f[n] = HearDest(f[n-1], news[n])
               /\ DestTold(s, news) = f[Len(news)]
<1> DEFINE m == Len(news)
           To(n, f) == /\ f = [k \in 0 .. n |-> f[k]] /\ f[0] = s
                       /\ \A k \in 1 .. n : f[k] = HearDest(f[k-1], news[k])
           K == {n \in 0 .. m : \E f : To(n, f)}
           Steps == 0 .. Len(news)
           told == CHOOSE f : f = [n \in Steps |-> IF n = 0 THEN s ELSE HearDest(f[n-1], news[n])]
<1>1. DestTold(s, news) = told[Len(news)]
  BY DEF DestTold
<1>2. m \in Nat
  OBVIOUS
<1> HIDE DEF m
<1>3. 0 \in K
  <2>1. To(0, [n \in 0 .. 0 |-> s])
    OBVIOUS
  <2> HIDE DEF To
  <2>2. 0 \in 0 .. m
    BY <1>2
  <2> QED
    BY <2>1, <2>2
<1>4. ASSUME NEW n \in 0 .. m, n < m, n \in K
      PROVE  n + 1 \in K
  <2>1. PICK f : To(n, f)
    BY <1>4
  <2> DEFINE g == [k \in 0 .. n + 1 |-> IF k <= n THEN f[k] ELSE HearDest(f[n], news[n + 1])]
  <2>2. To(n + 1, g)
    <3>1. g = [k \in 0 .. n + 1 |-> g[k]] /\ g[0] = s
      BY <2>1, <1>2
    <3>2. ASSUME NEW k \in 1 .. n + 1 PROVE g[k] = HearDest(g[k-1], news[k])
      <4>1. k - 1 \in 0 .. n + 1 /\ k - 1 <= n
        BY <1>2
      <4>2. g[k-1] = f[k-1]
        BY <4>1
      <4>3. CASE k <= n
        <5>1. k \in 1 .. n /\ g[k] = f[k]
          BY <4>3, <1>2
        <5> QED BY <5>1, <4>2, <2>1
      <4>4. CASE ~ (k <= n)
        <5>1. k = n + 1 /\ n = k - 1
          BY <4>4, <1>2
        <5>2. g[k] = HearDest(f[n], news[n+1])
          BY <4>4
        <5> QED BY <5>1, <5>2, <4>2
      <4> QED BY <4>3, <4>4
    <3> QED BY <3>1, <3>2
  <2> HIDE DEF g
  <2>3. n + 1 \in 0 .. m
    BY <1>4, <1>2
  <2> HIDE DEF To
  <2> QED BY <2>2, <2>3
<1>5. PICK f : To(m, f)
  <2>1. \A n \in 0 .. m : n \in K
    <3> HIDE DEF K
    <3> QED BY <1>2, <1>3, <1>4, Upto
  <2>2. m \in 0 .. m
    BY <1>2
  <2> QED BY <2>1, <2>2
<1>6. f = [n \in Steps |-> IF n = 0 THEN s ELSE HearDest(f[n-1], news[n])]
  <2> DEFINE g == [n \in Steps |-> IF n = 0 THEN s ELSE HearDest(f[n-1], news[n])]
  <2>1. DOMAIN g = DOMAIN f
    BY <1>5 DEF m
  <2>2. ASSUME NEW n \in Steps PROVE g[n] = f[n]
    <3>1. n = 0 \/ n \in 1 .. m
      BY <1>2 DEF m
    <3> QED BY <3>1, <1>5
  <2>3. f = [n \in DOMAIN f |-> f[n]]
    BY <1>5 
  <2> QED BY <2>1, <2>2, <2>3
<1>7. told = [n \in Steps |-> IF n = 0 THEN s ELSE HearDest(told[n-1], news[n])]
  <2> DEFINE Q(f_) == f_ = [n \in Steps |-> IF n = 0 THEN s ELSE HearDest(f_[n-1], news[n])]
  <2>1. Q(f) BY <1>6
  <2>2. told = CHOOSE f_ : Q(f_) OBVIOUS
  <2>3. Q(CHOOSE f_ : Q(f_))
    <3> HIDE DEF Q
    <3> QED BY <2>1
  <2> QED BY <2>2, <2>3
<1> HIDE DEF told
<1>8. told[0] = s /\ \A n \in 1 .. Len(news) : told[n] = HearDest(told[n-1], news[n])
  BY <1>7, <1>2 DEF m
<1> QED
  BY <1>1, <1>8

\* The reactions to the news of the readable stream, one after the other.
LEMMA SourceFold ==
  ASSUME NEW s, NEW news, Len(news) \in Nat
  PROVE \E f : /\ f[0] = s
               /\ \A n \in 1 .. Len(news) : f[n] = HearSource(f[n-1], news[n])
               /\ SourceTold(s, news) = f[Len(news)]
<1> DEFINE m == Len(news)
           To(n, f) == /\ f = [k \in 0 .. n |-> f[k]] /\ f[0] = s
                       /\ \A k \in 1 .. n : f[k] = HearSource(f[k-1], news[k])
           K == {n \in 0 .. m : \E f : To(n, f)}
           Steps == 0 .. Len(news)
           told == CHOOSE f : f = [n \in Steps |-> IF n = 0 THEN s ELSE HearSource(f[n-1], news[n])]
<1>1. SourceTold(s, news) = told[Len(news)]
  BY DEF SourceTold
<1>2. m \in Nat
  OBVIOUS
<1> HIDE DEF m
<1>3. 0 \in K
  <2>1. To(0, [n \in 0 .. 0 |-> s])
    OBVIOUS
  <2> HIDE DEF To
  <2>2. 0 \in 0 .. m
    BY <1>2
  <2> QED
    BY <2>1, <2>2
<1>4. ASSUME NEW n \in 0 .. m, n < m, n \in K
      PROVE  n + 1 \in K
  <2>1. PICK f : To(n, f)
    BY <1>4
  <2> DEFINE g == [k \in 0 .. n + 1 |-> IF k <= n THEN f[k] ELSE HearSource(f[n], news[n + 1])]
  <2>2. To(n + 1, g)
    <3>1. g = [k \in 0 .. n + 1 |-> g[k]] /\ g[0] = s
      BY <2>1, <1>2
    <3>2. ASSUME NEW k \in 1 .. n + 1 PROVE g[k] = HearSource(g[k-1], news[k])
      <4>1. k - 1 \in 0 .. n + 1 /\ k - 1 <= n
        BY <1>2
      <4>2. g[k-1] = f[k-1]
        BY <4>1
      <4>3. CASE k <= n
        <5>1. k \in 1 .. n /\ g[k] = f[k]
          BY <4>3, <1>2
        <5> QED BY <5>1, <4>2, <2>1
      <4>4. CASE ~ (k <= n)
        <5>1. k = n + 1 /\ n = k - 1
          BY <4>4, <1>2
        <5>2. g[k] = HearSource(f[n], news[n+1])
          BY <4>4
        <5> QED BY <5>1, <5>2, <4>2
      <4> QED BY <4>3, <4>4
    <3> QED BY <3>1, <3>2
  <2> HIDE DEF g
  <2>3. n + 1 \in 0 .. m
    BY <1>4, <1>2
  <2> HIDE DEF To
  <2> QED BY <2>2, <2>3
<1>5. PICK f : To(m, f)
  <2>1. \A n \in 0 .. m : n \in K
    <3> HIDE DEF K
    <3> QED BY <1>2, <1>3, <1>4, Upto
  <2>2. m \in 0 .. m
    BY <1>2
  <2> QED BY <2>1, <2>2
<1>6. f = [n \in Steps |-> IF n = 0 THEN s ELSE HearSource(f[n-1], news[n])]
  <2> DEFINE g == [n \in Steps |-> IF n = 0 THEN s ELSE HearSource(f[n-1], news[n])]
  <2>1. DOMAIN g = DOMAIN f
    BY <1>5 DEF m
  <2>2. ASSUME NEW n \in Steps PROVE g[n] = f[n]
    <3>1. n = 0 \/ n \in 1 .. m
      BY <1>2 DEF m
    <3> QED BY <3>1, <1>5
  <2>3. f = [n \in DOMAIN f |-> f[n]]
    BY <1>5 
  <2> QED BY <2>1, <2>2, <2>3
<1>7. told = [n \in Steps |-> IF n = 0 THEN s ELSE HearSource(told[n-1], news[n])]
  <2> DEFINE Q(f_) == f_ = [n \in Steps |-> IF n = 0 THEN s ELSE HearSource(f_[n-1], news[n])]
  <2>1. Q(f) BY <1>6
  <2>2. told = CHOOSE f_ : Q(f_) OBVIOUS
  <2>3. Q(CHOOSE f_ : Q(f_))
    <3> HIDE DEF Q
    <3> QED BY <2>1
  <2> QED BY <2>2, <2>3
<1> HIDE DEF told
<1>8. told[0] = s /\ \A n \in 1 .. Len(news) : told[n] = HearSource(told[n-1], news[n])
  BY <1>7, <1>2 DEF m
<1> QED
  BY <1>1, <1>8

\* Each is queued on top of those before.
LEMMA DestChain ==
  ASSUME NEW s, Turn(s), NEW news \in Seq(WEvents)
  PROVE  \E f : /\ f[0] = s /\ DestTold(s, news) = f[Len(news)]
                /\ \A n \in 1 .. Len(news) : Hears(f[n], f[n - 1], news[n])
<1>1. Len(news) \in Nat /\ \A n \in 1 .. Len(news) : news[n] \in WEvents
  OBVIOUS
<1>2. PICK f : /\ f[0] = s
               /\ \A n \in 1 .. Len(news) : f[n] = HearDest(f[n - 1], news[n])
               /\ DestTold(s, news) = f[Len(news)]
  BY <1>1, DestFold
<1> DEFINE m == Len(news)
           K == {n \in 0 .. m : Turn(f[n])}
<1> HIDE DEF m
<1>3. 0 \in K /\ m \in Nat
  BY <1>1, <1>2 DEF m
<1>4. ASSUME NEW n \in 0 .. m, n < m, n \in K
      PROVE  n + 1 \in K /\ Hears(f[n + 1], f[n], news[n + 1])
  <2>1. n + 1 \in 1 .. Len(news) /\ (n + 1) - 1 = n /\ n + 1 \in 0 .. m
    BY <1>4, <1>3 DEF m
  <2>2. f[n + 1] = HearDest(f[n], news[n + 1])
    BY <1>2, <2>1
  <2>3. Hears(f[n + 1], f[n], news[n + 1])
    BY <1>1, <1>4, <2>1, <2>2, HearDestIs
  <2> QED
    BY <2>1, <2>3 DEF Hears
<1>5. \A n \in 0 .. m : n \in K
  <2>1. \A n \in 0 .. m : n < m /\ n \in K => n + 1 \in K
    BY <1>4
  <2> HIDE DEF K
  <2> QED
    BY <1>3, <2>1, Upto
<1>6. ASSUME NEW n \in 1 .. Len(news)
      PROVE  Hears(f[n], f[n - 1], news[n])
  <2>1. n - 1 \in 0 .. m /\ n - 1 < m /\ (n - 1) + 1 = n
    BY <1>3 DEF m
  <2>2. Hears(f[(n - 1) + 1], f[n - 1], news[(n - 1) + 1])
    BY <1>4, <1>5, <2>1
  <2> QED
    BY <2>1, <2>2
<1> QED
  BY <1>2, <1>6

\* What the pipe does about news of the readable stream.
HearsFrom(t, s, e) ==
  /\ Turn(t) /\ Still(t, s) /\ t.pipe.waitsReady = s.pipe.waitsReady
  /\ \/ Silent(t, s)
     \/ e[1] \in {"cancel", "cancelled"} /\ Settles(t, s, "cancel")
     \/ \E j : /\ t.jobs = Append(s.jobs, j) /\ t.pipe.parts = s.pipe.parts
               /\ \/ j.kind = "chunk" /\ j.arg = e[2] /\ j.hops = 0 /\ e[1] = "read"
                  \/ /\ j.kind \in {"sourceClosed", "sourceErrored"} /\ e[1] = "closed"
                     /\ s.pipe.lock = "held" /\ ~ s.pipe.shuttingDown

\* The pipe hears one thing of the readable stream.
LEMMA HearSourceIs ==
  ASSUME NEW s, Turn(s), NEW e, e[1] \in RKinds
  PROVE  HearsFrom(HearSource(s, e), s, e)
<1> DEFINE t == HearSource(s, e)
<1>1. CASE e[1] = "read"
  <2> DEFINE j == [kind |-> "chunk", arg |-> e[2], hops |-> 0]
  <2>1. t = Queue(s, "chunk", e[2], 0)
    BY <1>1 DEF HearSource
  <2>2. /\ t.jobs = Append(s.jobs, j) /\ t.pipe = s.pipe /\ DOMAIN t = DOMAIN s
        /\ t.source = s.source /\ t.dest = s.dest
        /\ j.kind = "chunk" /\ j.arg = e[2] /\ j.hops = 0
    BY <2>1, QueueIs DEF Turn
  <2> HIDE DEF t, j
  <2>3. HearsFrom(t, s, e)
    BY <1>1, <2>2 DEF HearsFrom, Turn, Still
  <2> QED
    BY <2>3 DEF t
<1>2. CASE e[1] = "closed"
  <2> DEFINE k == IF e[2] = "resolved" THEN "sourceClosed" ELSE "sourceErrored"
             x == Queue(s, k, NoWrite, 0)
             j == [kind |-> k, arg |-> NoWrite, hops |-> 0]
  <2>1. t = IF s.pipe.lock # "held" \/ s.pipe.shuttingDown THEN s ELSE x
    BY <1>2 DEF HearSource
  <2>2. k \in {"sourceClosed", "sourceErrored"}
    OBVIOUS
  <2> HIDE DEF k
  <2>3. /\ x.jobs = Append(s.jobs, j) /\ x.pipe = s.pipe /\ DOMAIN x = DOMAIN s
        /\ x.source = s.source /\ x.dest = s.dest /\ j.kind = k
    BY QueueIs DEF Turn
  <2> HIDE DEF t, j, x
  <2>4. HearsFrom(s, s, e)
    BY DEF HearsFrom, Still, Silent
  <2>5. s.pipe.lock = "held" /\ ~ s.pipe.shuttingDown => HearsFrom(x, s, e)
    BY <1>2, <2>2, <2>3 DEF HearsFrom, Turn, Still
  <2> QED
    BY <2>1, <2>4, <2>5 DEF t
<1>3. CASE e[1] \in {"cancel", "cancelled"}
  <2>1. t = PartSettled(s, "cancel", e[2], 0) \/ t = PartSettled(s, "cancel", e[2], 1)
    BY <1>3 DEF HearSource
  <2> HIDE DEF t
  <2>2. /\ Turn(t) /\ Still(t, s) /\ t.pipe.waitsReady = s.pipe.waitsReady
        /\ Silent(t, s) \/ Settles(t, s, "cancel")
    BY <2>1, PartIs
  <2>3. HearsFrom(t, s, e)
    BY <1>3, <2>2 DEF HearsFrom
  <2> QED
    BY <2>3 DEF t
<1> QED
  BY <1>1, <1>2, <1>3 DEF RKinds

\* It tells nothing, one thing, or two.
LEMMA SourceChain ==
  ASSUME NEW s, Turn(s)
  PROVE  /\ SourceTold(s, <<>>) = s
         /\ \A e : e[1] \in RKinds => HearsFrom(SourceTold(s, <<e>>), s, e)
         /\ \A d, e : d[1] \in RKinds /\ e[1] \in RKinds =>
              \E v : HearsFrom(v, s, d) /\ HearsFrom(SourceTold(s, <<d, e>>), v, e)
<1>1. SourceTold(s, <<>>) = s
  <2> DEFINE q == <<>>
  <2>1. Len(q) = 0
    OBVIOUS
  <2> HIDE DEF q
  <2>2. PICK f : f[0] = s /\ SourceTold(s, q) = f[Len(q)]
    BY <2>1, SourceFold
  <2> QED
    BY <2>1, <2>2 DEF q
<1>2. ASSUME NEW e, e[1] \in RKinds
      PROVE  HearsFrom(SourceTold(s, <<e>>), s, e)
  <2> DEFINE q == <<e>>
  <2>1. Len(q) = 1 /\ q[1] = e
    OBVIOUS
  <2> HIDE DEF q
  <2>0. Len(q) \in Nat
    BY <2>1
  <2>2. PICK f : /\ f[0] = s
                 /\ \A n \in 1 .. Len(q) : f[n] = HearSource(f[n - 1], q[n])
                 /\ SourceTold(s, q) = f[Len(q)]
    BY ONLY <2>0, SourceFold
  <2>3. f[1] = HearSource(f[1 - 1], q[1]) /\ 1 - 1 = 0
    BY <2>1, <2>2
  <2>4. SourceTold(s, q) = HearSource(s, e)
    BY <2>1, <2>2, <2>3
  <2> QED
    BY <1>2, <2>4, HearSourceIs DEF q
<1>3. ASSUME NEW d, NEW e, d[1] \in RKinds, e[1] \in RKinds
      PROVE  \E v : HearsFrom(v, s, d) /\ HearsFrom(SourceTold(s, <<d, e>>), v, e)
  <2> DEFINE q == <<d, e>>
             v == HearSource(s, d)
  <2>1. Len(q) = 2 /\ q[1] = d /\ q[2] = e
    OBVIOUS
  <2> HIDE DEF q
  <2>0. Len(q) \in Nat
    BY <2>1
  <2>2. PICK f : /\ f[0] = s
                 /\ \A n \in 1 .. Len(q) : f[n] = HearSource(f[n - 1], q[n])
                 /\ SourceTold(s, q) = f[Len(q)]
    BY ONLY <2>0, SourceFold
  <2>3. f[1] = HearSource(f[1 - 1], q[1]) /\ f[2] = HearSource(f[2 - 1], q[2])
        /\ 1 - 1 = 0 /\ 2 - 1 = 1
    BY <2>1, <2>2
  <2>4. SourceTold(s, q) = HearSource(v, e)
    BY <2>1, <2>2, <2>3
  <2>5. HearsFrom(v, s, d)
    BY <1>3, HearSourceIs
  <2> HIDE DEF v
  <2>6. Turn(v)
    BY <2>5 DEF HearsFrom
  <2>7. HearsFrom(SourceTold(s, q), v, e)
    BY <1>3, <2>4, <2>6, HearSourceIs
  <2> QED
    BY <2>5, <2>7 DEF q
<1> QED
  BY <1>1, <1>2, <1>3

-----------------------------------------------------------------------------
(* The loop of the pipe is in one place.                                   *)

\* The turns of the loop: a read, the chunk it found, the step after the write.  Those
\* before the write hold the room that the step has found.
LoopKinds == {"read", "chunk", "next"}
RoomKinds == {"read", "chunk"}

\* The loop as a microtask, as a read that waits, and where it counts on room.
Going(s) == Has(s.jobs, LoopKinds)
Asked(s) == s.source.readRequests # 0
Holds(s) == s.pipe.lock = "held" /\ (Asked(s) \/ Has(s.jobs, RoomKinds))

\* The loop is in one place: a microtask, a read that waits for the source or a wait for
\* the writer.  Where it has found room there is room.
Places(s) ==
  /\ Single(s.jobs, LoopKinds)
  /\ Asked(s) => ~ Going(s) /\ ~ s.pipe.waitsReady
  /\ s.pipe.waitsReady => ~ Going(s) /\ s.pipe.lock = "held" /\ s.dest.ready = "pending"
  /\ s.pipe.lock # "held" => ~ Asked(s)
  /\ s.pipe.lock = "idle" => ~ Going(s)
  /\ Holds(s) => Room(s.dest)

\* What holds of the loop and the streams between two parts of a turn.
Loops(s) ==
  /\ Turn(s) /\ Line(s.jobs) /\ s.dest.news = <<>> /\ Level(s.dest) /\ Heeded(s.source)
  /\ Places(s)

\* The loop is nowhere.
Quiet(s) == ~ Going(s) /\ ~ Asked(s) /\ ~ s.pipe.waitsReady

\* What a part of a turn may do to the loop.
Onward(t, s) ==
  /\ Loops(t)
  /\ Quiet(s) => Quiet(t)
  /\ s.pipe.lock # "idle" => t.pipe.lock # "idle"

\* One part of a turn after the other.
LEMMA OnwardTwice ==
  ASSUME NEW s, NEW t, NEW u, Onward(t, s), Onward(u, t)
  PROVE  Onward(u, s)
  BY DEF Onward

\* The chunks that wait and the step belong to the loop.
LEMMA RoomFirst == \A q : Has(q, RoomKinds) => Has(q, LoopKinds)
  BY DEF Has, RoomKinds, LoopKinds

\* The news of the writable stream are heard: only a loop that waits goes on, once.
LEMMA DestHeard ==
  ASSUME NEW s, Turn(s), Line(s.jobs), Single(s.jobs, LoopKinds),
         s.pipe.waitsReady => ~ Going(s), NEW w, w.news \in Seq(WEvents)
  PROVE  LET h == DestTold(s, w.news)
         IN  /\ Turn(h) /\ Still(h, s) /\ Line(h.jobs) /\ Single(h.jobs, LoopKinds)
             /\ h.pipe.waitsReady =>
                  s.pipe.waitsReady /\ ~ Going(h) /\ \A e \in NewsOf(w) : e[1] # "ready"
             /\ Going(h) => Going(s) \/ (s.pipe.waitsReady /\ ReadyTold \in NewsOf(w))
             /\ Has(h.jobs, RoomKinds) =>
                  Has(s.jobs, RoomKinds) \/ (s.pipe.waitsReady /\ ReadyTold \in NewsOf(w))
<1>1. PICK f : /\ f[0] = s /\ DestTold(s, w.news) = f[Len(w.news)]
               /\ \A n \in 1 .. Len(w.news) : Hears(f[n], f[n - 1], w.news[n])
  BY DestChain
<1> DEFINE m == Len(w.news)
           told == s.pipe.waitsReady /\ ReadyTold \in NewsOf(w)
           P(n) == /\ Turn(f[n]) /\ Still(f[n], s) /\ Line(f[n].jobs)
                   /\ Single(f[n].jobs, LoopKinds)
                   /\ f[n].pipe.waitsReady =>
                        /\ s.pipe.waitsReady /\ ~ Going(f[n])
                        /\ \A k \in 1 .. n : w.news[k][1] # "ready"
                   /\ Going(f[n]) => Going(s) \/ told
                   /\ Has(f[n].jobs, RoomKinds) => Has(s.jobs, RoomKinds) \/ told
           K == {n \in 0 .. m : P(n)}
<1>2. m \in Nat /\ \A n \in 1 .. m : w.news[n] \in WEvents /\ w.news[n] \in NewsOf(w)
  BY DEF NewsOf
<1>3. P(0)
  BY <1>1 DEF Still
<1> HIDE DEF m, told
<1>4. ASSUME NEW n \in 0 .. m, n < m, P(n)
      PROVE  P(n + 1)
  <2> DEFINE a == f[n]
             b == f[n + 1]
             e == w.news[n + 1]
  <2>1. n + 1 \in 1 .. m /\ (n + 1) - 1 = n
    BY <1>2, <1>4
  <2>2. Hears(b, a, e) /\ e \in WEvents /\ e \in NewsOf(w)
    BY <1>1, <1>2, <2>1 DEF m
  <2>3. /\ Turn(a) /\ Still(a, s) /\ Line(a.jobs) /\ Single(a.jobs, LoopKinds)
        /\ a.pipe.waitsReady =>
             s.pipe.waitsReady /\ ~ Going(a) /\ \A k \in 1 .. n : w.news[k][1] # "ready"
        /\ Going(a) => Going(s) \/ told
        /\ Has(a.jobs, RoomKinds) => Has(s.jobs, RoomKinds) \/ told
    BY <1>4
  <2>4. /\ \A k \in 1 .. n + 1 : k \in 1 .. n \/ k = n + 1
    BY <1>2
  <2> HIDE DEF P
  <2>5. (\A k \in 1 .. n : w.news[k][1] # "ready") /\ e[1] # "ready" =>
          \A k \in 1 .. n + 1 : w.news[k][1] # "ready"
    BY <2>4
  <2>6. P(n + 1) <=> /\ Turn(b) /\ Still(b, s) /\ Line(b.jobs) /\ Single(b.jobs, LoopKinds)
                     /\ b.pipe.waitsReady =>
                          /\ s.pipe.waitsReady /\ ~ Going(b)
                          /\ \A k \in 1 .. n + 1 : w.news[k][1] # "ready"
                     /\ Going(b) => Going(s) \/ told
                     /\ Has(b.jobs, RoomKinds) => Has(s.jobs, RoomKinds) \/ told
    BY DEF P
  <2> HIDE DEF a, b, e
  <2>7. Turn(b) /\ Still(b, s) /\ (b.pipe.waitsReady <=> a.pipe.waitsReady /\ e[1] # "ready")
    BY <2>2, <2>3 DEF Hears, Still
  <2>8. CASE b.jobs = a.jobs
    BY <2>3, <2>5, <2>6, <2>7, <2>8 DEF Going
  <2>9. CASE \E j : b.jobs = Append(a.jobs, j) /\ j.kind \notin LoopKinds
    <3>1. PICK j : b.jobs = Append(a.jobs, j) /\ j.kind \notin LoopKinds
      BY <2>9
    <3>2. Line(b.jobs) /\ \A K_ : Has(b.jobs, K_) <=> Has(a.jobs, K_) \/ j.kind \in K_
      BY <2>3, <3>1, LongerLine, LongerHas
    <3>3. Single(b.jobs, LoopKinds)
      BY <2>3, <3>1, LongerHas
    <3>4. j.kind \notin RoomKinds
      BY <3>1 DEF LoopKinds, RoomKinds
    <3> QED
      BY <2>3, <2>5, <2>6, <2>7, <3>1, <3>2, <3>3, <3>4 DEF Going
  <2>10. CASE \E j : b.jobs = Append(a.jobs, j) /\ a.pipe.waitsReady /\ e = ReadyTold
    <3>1. PICK j : b.jobs = Append(a.jobs, j)
      BY <2>10
    <3>2. Line(b.jobs)
      BY <2>3, <3>1, LongerLine
    <3>3. Single(b.jobs, LoopKinds)
      BY <2>3, <2>10, <3>1, LongerHas DEF Going
    <3>4. told
      BY <2>2, <2>3, <2>10 DEF told
    <3>5. e[1] = "ready"
      BY <2>10 DEF ReadyTold
    <3> QED
      BY <2>6, <2>7, <3>2, <3>3, <3>4, <3>5
  <2>11. \/ b.jobs = a.jobs
         \/ \E j : b.jobs = Append(a.jobs, j) /\ j.kind \notin LoopKinds
         \/ \E j : b.jobs = Append(a.jobs, j) /\ a.pipe.waitsReady /\ e = ReadyTold
    BY <2>2 DEF Hears, Silent, Settles, LoopKinds
  <2> QED
    BY <2>8, <2>9, <2>10, <2>11
<1>5. P(m)
  <2>1. 0 \in K /\ m \in 0 .. m
    BY <1>2, <1>3
  <2>2. \A n \in 0 .. m : n < m /\ n \in K => n + 1 \in K
    <3> HIDE DEF P
    <3>1. \A n \in 0 .. m : n < m => n + 1 \in 0 .. m
      BY <1>2
    <3> QED
      BY <1>4, <3>1
  <2>3. \A n \in K : P(n)
    OBVIOUS
  <2> HIDE DEF K, P
  <2>4. m \in K
    BY <1>2, <2>1, <2>2, Upto
  <2> QED
    BY <2>3, <2>4
<1>6. \A e \in NewsOf(w) : \E k \in 1 .. m : e = w.news[k]
  BY DEF NewsOf, m
<1> QED
  BY <1>1, <1>5, <1>6 DEF m, told

\* The state after reactions were queued.
LEMMA HeardIs ==
  ASSUME NEW s, Turn(s), NEW h
  PROVE  LET t == Heard(s, h)
         IN  /\ DOMAIN t = DOMAIN s /\ DOMAIN t.pipe = DOMAIN s.pipe
             /\ Still(t, s) /\ t.jobs = h.jobs
             /\ t.pipe.parts = h.pipe.parts /\ t.pipe.waitsReady = h.pipe.waitsReady
  BY PipeFields DEF Heard, Turn, Still

\* The writable stream changes: the loop goes on where the change makes room, or keeps it.
LEMMA WithDestLoops ==
  ASSUME NEW s, Loops(s), NEW w, WInv(w), Level(w), Told(w),
         s.pipe.waitsReady => Readies(w), Holds(s) => Room(w)
  PROVE  LET t == WithDest(s, w)
         IN  /\ Onward(t, s) /\ t.source = s.source /\ t.dest = [w EXCEPT !.news = <<>>]
             /\ t.pipe.lock = s.pipe.lock /\ (t.pipe.waitsReady => s.pipe.waitsReady)
<1> DEFINE v == [w EXCEPT !.news = <<>>]
           a == [s EXCEPT !.dest = v]
           h == DestTold(s, w.news)
           t == WithDest(s, w)
<1>1. Bare(v, w) /\ v.news = <<>> /\ v.ready = w.ready
  BY Fields DEF Bare, WInv, Shape
<1>2. t = Heard(a, h)
  BY DEF WithDest
<1> HIDE DEF v
<1>3. Level(v) /\ (Room(v) <=> Room(w))
  BY <1>1, BareSame
<1>4. Turn(a) /\ a.source = s.source /\ a.dest = v /\ a.pipe = s.pipe
  BY DEF Loops, Turn
<1> HIDE DEF a, t
<1>5. w.news \in Seq(WEvents)
  BY DEF Told
<1>6. /\ Turn(h) /\ Still(h, s) /\ Line(h.jobs) /\ Single(h.jobs, LoopKinds)
      /\ h.pipe.waitsReady =>
           s.pipe.waitsReady /\ ~ Going(h) /\ \A e \in NewsOf(w) : e[1] # "ready"
      /\ Going(h) => Going(s) \/ (s.pipe.waitsReady /\ ReadyTold \in NewsOf(w))
      /\ Has(h.jobs, RoomKinds) =>
           Has(s.jobs, RoomKinds) \/ (s.pipe.waitsReady /\ ReadyTold \in NewsOf(w))
  BY <1>5, DestHeard DEF Loops, Places
<1> HIDE DEF h
<1>7. /\ DOMAIN t = DOMAIN a /\ DOMAIN t.pipe = DOMAIN a.pipe
      /\ Still(t, a) /\ t.jobs = h.jobs
      /\ t.pipe.parts = h.pipe.parts /\ t.pipe.waitsReady = h.pipe.waitsReady
  BY <1>2, <1>4, HeardIs
<1>8. /\ t.source = s.source /\ t.dest = v /\ t.pipe.lock = s.pipe.lock /\ Turn(t)
  BY <1>4, <1>6, <1>7 DEF Still, Turn
<1>9. (Going(t) <=> Going(h)) /\ (Asked(t) <=> Asked(s))
  BY <1>7, <1>8 DEF Going, Asked
<1>10. t.pipe.waitsReady =>
         /\ s.pipe.waitsReady /\ ~ Going(t) /\ t.pipe.lock = "held" /\ t.dest.ready = "pending"
  <2>1. t.pipe.waitsReady => s.pipe.waitsReady /\ ~ Going(t) /\ w.ready = "pending"
    BY <1>6, <1>7, <1>9 DEF Readies
  <2> QED
    BY <1>1, <1>8, <2>1 DEF Loops, Places
<1>11. Going(t) => Going(s) \/ s.pipe.waitsReady
  BY <1>6, <1>9
<1>12. Holds(t) => Room(t.dest)
  <2>1. CASE s.pipe.waitsReady /\ ReadyTold \in NewsOf(w)
    BY <1>3, <1>8, <2>1 DEF Told
  <2>2. CASE ~ (s.pipe.waitsReady /\ ReadyTold \in NewsOf(w))
    <3>1. Holds(t) => Holds(s)
      BY <1>6, <1>7, <1>8, <1>9, <2>2 DEF Holds
    <3> QED
      BY <1>3, <1>8, <3>1
  <2> QED
    BY <2>1, <2>2
<1>13. Asked(t) => ~ Going(t) /\ ~ t.pipe.waitsReady
  BY <1>9, <1>10, <1>11 DEF Loops, Places
<1>14. Places(t)
  BY <1>6, <1>7, <1>8, <1>9, <1>10, <1>11, <1>12, <1>13 DEF Loops, Places
<1>15. Loops(t)
  BY <1>1, <1>3, <1>6, <1>7, <1>8, <1>14 DEF Loops
<1>16. Quiet(s) => Quiet(t)
  BY <1>9, <1>10, <1>11 DEF Quiet
<1> QED
  BY <1>8, <1>10, <1>15, <1>16 DEF Onward, v, t

\* An operation that does not undo the wait for the writer or the room it found.
LEMMA WithDestOnward ==
  ASSUME NEW s, Loops(s), NEW w, WInv(w), Level(w), Told(w),
         Readies(s.dest) => Readies(w), Room(s.dest) => Room(w)
  PROVE  Onward(WithDest(s, w), s)
<1>1. s.pipe.waitsReady => Readies(w)
  BY DEF Loops, Places, Readies
<1>2. Holds(s) => Room(w)
  BY DEF Loops, Places
<1> QED
  BY <1>1, <1>2, WithDestLoops

\* The news of the readable stream are heard: a read that is answered is taken on.
LEMMA SourceHeard ==
  ASSUME NEW s, Turn(s), Line(s.jobs), NEW r, NEW v, NEW isRead, Serves(v, r, isRead)
  PROVE  LET h == SourceTold(s, v.news)
         IN  /\ Turn(h) /\ Still(h, s) /\ Line(h.jobs)
             /\ h.pipe.waitsReady = s.pipe.waitsReady
             /\ Single(s.jobs, LoopKinds) /\ (Reading(v) => ~ Going(s)) =>
                  Single(h.jobs, LoopKinds)
             /\ Going(h) => Going(s) \/ Reading(v)
             /\ Has(h.jobs, RoomKinds) => Has(s.jobs, RoomKinds) \/ Reading(v)
<1> DEFINE Step(u, a, read) ==
             /\ Turn(u) /\ Still(u, a) /\ Line(u.jobs) /\ u.pipe.waitsReady = a.pipe.waitsReady
             /\ Single(a.jobs, LoopKinds) /\ (read => ~ Going(a)) => Single(u.jobs, LoopKinds)
             /\ Going(u) => Going(a) \/ read
             /\ Has(u.jobs, RoomKinds) => Has(a.jobs, RoomKinds) \/ read
           h == SourceTold(s, v.news)
<1>1. ASSUME NEW a, NEW u, NEW e, Line(a.jobs), HearsFrom(u, a, e)
      PROVE  Step(u, a, e[1] = "read")
  <2>1. Turn(u) /\ Still(u, a) /\ u.pipe.waitsReady = a.pipe.waitsReady
    BY <1>1 DEF HearsFrom
  <2>2. CASE u.jobs = a.jobs
    BY <1>1, <2>1, <2>2 DEF Going
  <2>3. CASE \E j : u.jobs = Append(a.jobs, j) /\ (j.kind \in LoopKinds => e[1] = "read")
    <3>1. PICK j : u.jobs = Append(a.jobs, j) /\ (j.kind \in LoopKinds => e[1] = "read")
      BY <2>3
    <3>2. /\ Line(u.jobs)
          /\ Has(u.jobs, LoopKinds) <=> Has(a.jobs, LoopKinds) \/ j.kind \in LoopKinds
          /\ Has(u.jobs, RoomKinds) <=> Has(a.jobs, RoomKinds) \/ j.kind \in RoomKinds
      BY <1>1, <3>1, LongerLine, LongerHas
    <3>3. Single(a.jobs, LoopKinds) /\ (j.kind \notin LoopKinds \/ ~ Has(a.jobs, LoopKinds)) =>
            Single(u.jobs, LoopKinds)
      BY <1>1, <3>1, LongerHas
    <3>4. j.kind \in RoomKinds => j.kind \in LoopKinds
      BY DEF RoomKinds, LoopKinds
    <3> QED
      BY <2>1, <3>1, <3>2, <3>3, <3>4 DEF Going
  <2>4. \/ u.jobs = a.jobs
        \/ \E j : u.jobs = Append(a.jobs, j) /\ (j.kind \in LoopKinds => e[1] = "read")
    BY <1>1 DEF HearsFrom, Silent, Settles, LoopKinds
  <2> QED
    BY <2>2, <2>3, <2>4
<1>2. \/ v.news = <<>>
      \/ \E e : v.news = <<e>> /\ e[1] \in RKinds
      \/ \E d, e : v.news = <<d, e>> /\ <<d[1], e[1]>> \in {<<"read", "closed">>, <<"closed", "read">>}
  BY DEF Serves
<1>3. CASE v.news = <<>>
  <2>1. h = s
    BY <1>3, SourceChain
  <2> HIDE DEF h
  <2>2. Still(h, s)
    BY <2>1 DEF Still
  <2> QED
    BY <2>1, <2>2 DEF h
<1>4. CASE \E e : v.news = <<e>> /\ e[1] \in RKinds
  <2>1. PICK e : v.news = <<e>> /\ e[1] \in RKinds
    BY <1>4
  <2>2. HearsFrom(h, s, e)
    BY <2>1, SourceChain
  <2>3. Reading(v) <=> e[1] = "read"
    BY <2>1, OneNews DEF Reading
  <2>4. Step(h, s, e[1] = "read")
    BY <1>1, <2>2
  <2> QED
    BY <2>3, <2>4
<1>5. CASE \E d, e : v.news = <<d, e>> /\ <<d[1], e[1]>> \in {<<"read", "closed">>, <<"closed", "read">>}
  <2>1. PICK d, e : v.news = <<d, e>>
                    /\ <<d[1], e[1]>> \in {<<"read", "closed">>, <<"closed", "read">>}
    BY <1>5
  <2>2. \/ d[1] = "read" /\ e[1] = "closed"
        \/ d[1] = "closed" /\ e[1] = "read"
    BY <2>1
  <2>3. d[1] \in RKinds /\ e[1] \in RKinds
    BY <2>2 DEF RKinds
  <2>4. PICK u : HearsFrom(u, s, d) /\ HearsFrom(h, u, e)
    BY <2>1, <2>3, SourceChain
  <2>5. Reading(v)
    BY <2>1, <2>2, TwoNews DEF Reading
  <2>6. Step(u, s, d[1] = "read")
    BY <1>1, <2>4
  <2>7. Step(h, u, e[1] = "read")
    BY <1>1, <2>4, <2>6
  <2> HIDE DEF h
  <2>8. Turn(h) /\ Still(h, s) /\ Line(h.jobs) /\ h.pipe.waitsReady = s.pipe.waitsReady
    BY <2>6, <2>7 DEF Still
  <2>9. d[1] # "read" \/ e[1] # "read"
    BY <2>2
  <2>10. Single(s.jobs, LoopKinds) /\ ~ Going(s) => Single(h.jobs, LoopKinds)
    BY <2>6, <2>7, <2>9
  <2> QED
    BY <2>5, <2>8, <2>10 DEF h
<1> QED
  BY <1>2, <1>3, <1>4, <1>5

\* The readable stream changes: it answers the read that waits, or the one that is made
\* where the loop has found room.
LEMMA WithSourceLoops ==
  ASSUME NEW s, Loops(s), NEW v, RInv(v), NEW isRead, Serves(v, s.source, isRead),
         isRead => Quiet(s) /\ s.pipe.lock = "held" /\ Room(s.dest)
  PROVE  LET t == WithSource(s, v)
         IN  /\ Loops(t) /\ (~ isRead => Onward(t, s)) /\ t.dest = s.dest
             /\ t.pipe.lock = s.pipe.lock /\ t.pipe.waitsReady = s.pipe.waitsReady
             /\ t.source = [v EXCEPT !.news = <<>>]
<1> DEFINE x == [v EXCEPT !.news = <<>>]
           a == [s EXCEPT !.source = x]
           h == SourceTold(s, v.news)
           t == WithSource(s, v)
<1>1. x.readRequests = v.readRequests /\ x.news = <<>> /\ RInv(x)
  BY ReadFields, SourceInv DEF RInv
<1>2. t = Heard(a, h)
  BY DEF WithSource
<1> HIDE DEF x
<1>3. Heeded(x)
  BY <1>1 DEF Heeded, Serves
<1>4. Turn(a) /\ a.source = x /\ a.dest = s.dest /\ a.pipe = s.pipe
  BY DEF Loops, Turn
<1> HIDE DEF a, t
<1>5. Reading(v) \/ v.readRequests # 0 => isRead \/ Asked(s)
  BY DEF Serves, Asked
<1>6. isRead \/ Asked(s) =>
        /\ ~ Going(s) /\ ~ s.pipe.waitsReady /\ s.pipe.lock = "held" /\ Room(s.dest)
  BY DEF Loops, Places, Holds, Quiet
<1>7. /\ Turn(h) /\ Still(h, s) /\ Line(h.jobs) /\ h.pipe.waitsReady = s.pipe.waitsReady
      /\ Single(s.jobs, LoopKinds) /\ (Reading(v) => ~ Going(s)) => Single(h.jobs, LoopKinds)
      /\ Going(h) => Going(s) \/ Reading(v)
      /\ Has(h.jobs, RoomKinds) => Has(s.jobs, RoomKinds) \/ Reading(v)
  BY SourceHeard DEF Loops
<1> HIDE DEF h
<1>8. /\ DOMAIN t = DOMAIN a /\ DOMAIN t.pipe = DOMAIN a.pipe
      /\ Still(t, a) /\ t.jobs = h.jobs
      /\ t.pipe.parts = h.pipe.parts /\ t.pipe.waitsReady = h.pipe.waitsReady
  BY <1>2, <1>4, HeardIs
<1>9. /\ t.source = x /\ t.dest = s.dest /\ t.pipe.lock = s.pipe.lock /\ Turn(t)
      /\ t.pipe.waitsReady = s.pipe.waitsReady
  BY <1>4, <1>7, <1>8 DEF Still, Turn
<1>10. (Going(t) <=> Going(h)) /\ (Asked(t) <=> v.readRequests # 0)
  BY <1>1, <1>8, <1>9 DEF Going, Asked
<1>11. Single(t.jobs, LoopKinds)
  BY <1>5, <1>6, <1>7, <1>8 DEF Loops, Places
<1>12. Asked(t) => ~ Going(t) /\ ~ t.pipe.waitsReady /\ t.pipe.lock = "held"
  <2>1. v.readRequests # 0 => ~ Reading(v)
    BY DEF Serves
  <2> QED
    BY <1>5, <1>6, <1>7, <1>9, <1>10, <2>1
<1>13. t.pipe.waitsReady => ~ Going(t) /\ t.pipe.lock = "held" /\ t.dest.ready = "pending"
  BY <1>5, <1>6, <1>7, <1>9, <1>10 DEF Loops, Places
<1>14. t.pipe.lock = "idle" => ~ Going(t)
  <2>1. t.pipe.lock = "idle" => ~ Reading(v)
    BY <1>5, <1>6, <1>9
  <2> QED
    BY <1>7, <1>9, <1>10, <2>1 DEF Loops, Places
<1>15. Holds(t) => Room(t.dest)
  BY <1>5, <1>6, <1>7, <1>8, <1>9, <1>10 DEF Loops, Places, Holds
<1>16. Places(t)
  BY <1>11, <1>12, <1>13, <1>14, <1>15 DEF Places
<1>17. Loops(t)
  BY <1>3, <1>7, <1>8, <1>9, <1>16 DEF Loops
<1>18. ~ isRead /\ Quiet(s) => Quiet(t)
  BY <1>5, <1>7, <1>9, <1>10 DEF Quiet
<1> QED
  BY <1>9, <1>17, <1>18 DEF Onward, x, t

-----------------------------------------------------------------------------
(* The parts of a turn.                                                    *)

\* The closure changes, and not in what the loop is about.
LEMMA AsideOnward ==
  ASSUME NEW s, Loops(s), NEW t, Same(t, s), t.jobs = s.jobs,
         t.pipe.waitsReady = s.pipe.waitsReady
  PROVE  Onward(t, s)
<1>1. /\ (Going(t) <=> Going(s)) /\ (Asked(t) <=> Asked(s)) /\ (Holds(t) <=> Holds(s))
      /\ Turn(t) /\ t.pipe.lock = s.pipe.lock /\ t.dest = s.dest /\ t.source = s.source
  BY DEF Same, Going, Asked, Holds, Loops, Turn
<1>2. Places(t)
  BY <1>1 DEF Loops, Places
<1> QED
  BY <1>1, <1>2 DEF Loops, Onward, Quiet

\* What the closure changes besides the loop.
LEMMA ClosureOnward ==
  ASSUME NEW s, Loops(s), NEW x, NEW y, NEW z
  PROVE  /\ Onward([s EXCEPT !.pipe.parts = x], s)
         /\ Onward([s EXCEPT !.pipe.waitsOn = x], s)
         /\ Onward([s EXCEPT !.pipe.currentDone = x], s)
         /\ Onward([s EXCEPT !.pipe.depth = x], s)
         /\ Onward([s EXCEPT !.pipe.asserts = x], s)
         /\ Onward([s EXCEPT !.pipe.signalled = x], s)
         /\ Onward([s EXCEPT !.pipe.currentWrite = x, !.pipe.currentDone = y], s)
         /\ Onward([s EXCEPT !.pipe.shuttingDown = x, !.pipe.action = y, !.pipe.isError = z], s)
<1> USE PipeFields, AsideOnward DEF Same, Loops, Turn
<1>1. Onward([s EXCEPT !.pipe.parts = x], s)
  OBVIOUS
<1>2. Onward([s EXCEPT !.pipe.waitsOn = x], s)
  OBVIOUS
<1>3. Onward([s EXCEPT !.pipe.currentDone = x], s)
  OBVIOUS
<1>4. Onward([s EXCEPT !.pipe.depth = x], s)
  OBVIOUS
<1>5. Onward([s EXCEPT !.pipe.asserts = x], s)
  OBVIOUS
<1>6. Onward([s EXCEPT !.pipe.signalled = x], s)
  OBVIOUS
<1>7. Onward([s EXCEPT !.pipe.currentWrite = x, !.pipe.currentDone = y], s)
  OBVIOUS
<1>8. Onward([s EXCEPT !.pipe.shuttingDown = x, !.pipe.action = y, !.pipe.isError = z], s)
  OBVIOUS
<1> QED
  BY <1>1, <1>2, <1>3, <1>4, <1>5, <1>6, <1>7, <1>8

\* A microtask that is none of the loop is queued.
LEMMA QueueOnward ==
  ASSUME NEW s, Loops(s), NEW kind, kind \notin LoopKinds, NEW arg, NEW hops
  PROVE  Onward(Queue(s, kind, arg, hops), s)
<1> DEFINE t == Queue(s, kind, arg, hops)
           j == [kind |-> kind, arg |-> arg, hops |-> hops]
<1>1. /\ t.jobs = Append(s.jobs, j) /\ t.pipe = s.pipe /\ DOMAIN t = DOMAIN s
      /\ t.source = s.source /\ t.dest = s.dest /\ j.kind = kind
  BY QueueIs DEF Loops, Turn
<1> HIDE DEF t, j
<1>2. /\ Line(t.jobs) /\ \A K : Has(t.jobs, K) <=> Has(s.jobs, K) \/ kind \in K
      /\ Single(t.jobs, LoopKinds)
  BY <1>1, LongerLine, LongerHas DEF Loops, Places
<1>3. kind \notin RoomKinds
  BY DEF LoopKinds, RoomKinds
<1>4. (Going(t) <=> Going(s)) /\ (Asked(t) <=> Asked(s)) /\ (Holds(t) <=> Holds(s)) /\ Turn(t)
  BY <1>1, <1>2, <1>3 DEF Going, Asked, Holds, Loops, Turn
<1>5. Places(t)
  BY <1>1, <1>2, <1>4 DEF Loops, Places
<1>6. Onward(t, s)
  BY <1>1, <1>2, <1>4, <1>5 DEF Loops, Onward, Quiet
<1> QED
  BY <1>6 DEF t

\* A microtask of the loop is queued, where the loop is nowhere else.
LEMMA QueueLoops ==
  ASSUME NEW s, Loops(s), Quiet(s), s.pipe.lock # "idle", NEW kind, kind \in LoopKinds,
         kind \in RoomKinds /\ s.pipe.lock = "held" => Room(s.dest), NEW arg, NEW hops
  PROVE  Loops(Queue(s, kind, arg, hops))
<1> DEFINE t == Queue(s, kind, arg, hops)
           j == [kind |-> kind, arg |-> arg, hops |-> hops]
<1>1. /\ t.jobs = Append(s.jobs, j) /\ t.pipe = s.pipe /\ DOMAIN t = DOMAIN s
      /\ t.source = s.source /\ t.dest = s.dest /\ j.kind = kind
  BY QueueIs DEF Loops, Turn
<1> HIDE DEF t, j
<1>2. /\ Line(t.jobs) /\ \A K : Has(t.jobs, K) <=> Has(s.jobs, K) \/ kind \in K
      /\ Single(t.jobs, LoopKinds)
  BY <1>1, LongerLine, LongerHas DEF Loops, Places, Quiet, Going
<1>3. ~ Asked(t) /\ Turn(t) /\ ~ t.pipe.waitsReady
  BY <1>1 DEF Asked, Loops, Turn, Quiet
<1>4. Holds(t) => s.pipe.lock = "held" /\ kind \in RoomKinds
  BY <1>1, <1>2, <1>3, RoomFirst DEF Holds, Quiet, Going
<1>5. Places(t)
  BY <1>1, <1>2, <1>3, <1>4 DEF Loops, Places
<1>6. Loops(t)
  BY <1>1, <1>2, <1>3, <1>5 DEF Loops
<1> QED
  BY <1>6 DEF t

\* A promise of the shutdown action settles.
LEMMA PartOnward ==
  ASSUME NEW s, Loops(s), NEW part, NEW how, NEW hops
  PROVE  Onward(PartSettled(s, part, how, hops), s)
<1> DEFINE v == [s EXCEPT !.pipe.parts = {}]
           pair == <<part, how>>
<1>1. Onward(v, s)
  BY ClosureOnward
<1>2. PartSettled(s, part, how, hops) =
        IF part \notin s.pipe.parts THEN s
        ELSE IF s.pipe.action = "signal" THEN Queue(s, "part", pair, hops)
             ELSE Queue(v, "acted", how, hops)
  BY DEF PartSettled
<1> HIDE DEF v, pair
<1>3. Onward(s, s)
  BY DEF Onward
<1>4. Onward(Queue(s, "part", pair, hops), s)
  BY QueueOnward DEF LoopKinds
<1>5. Onward(Queue(v, "acted", how, hops), v)
  BY <1>1, QueueOnward DEF LoopKinds, Onward
<1>6. Onward(Queue(v, "acted", how, hops), s)
  BY <1>1, <1>5, OnwardTwice
<1> QED
  BY <1>2, <1>3, <1>4, <1>6

\* The pipe waits for its last write.
LEMMA WaitOnward ==
  ASSUME NEW s, Loops(s)
  PROVE  Onward(WaitForWritesToFinish(s), s)
  BY QueueOnward, ClosureOnward DEF WaitForWritesToFinish, LoopKinds

\* The pipe lets go of both streams: a loop that waits for either is told that it has.
LEMMA FinalizeOnward ==
  ASSUME NEW s, Good(s), Loops(s), NEW isError
  PROVE  Onward(Finalize(s, isError), s)
<1>1. CASE s.pipe.lock # "held"
  BY <1>1, ClosureOnward DEF Finalize
<1>2. CASE s.pipe.lock = "held"
  <2> DEFINE w == W!WriterRelease(s.dest)
             v == WithDest(s, w)
             r == R!ReaderRelease(v.source)
             u == WithSource(v, r)
             t == [u EXCEPT !.pipe.lock = "released",
                            !.pipe.outcome = IF isError THEN "error" ELSE "ok"]
  <2>1. Finalize(s, isError) = t
    BY <1>2 DEF Finalize
  <2>2. WInv(w) /\ ~ w.writer
    BY <1>2, ReleaseInv DEF Good, Fit, Locks
  <2>3. Fine(w) /\ Goes(w, s.dest)
    <3>1. WInv(s.dest) /\ s.dest.writer /\ Fine(s.dest)
      BY <1>2, Unheard DEF Good, Fit, Locks, Loops
    <3> QED
      BY <3>1, ReleaseFine
  <2> HIDE DEF w
  <2>4. Level(w) /\ Told(w) /\ (Readies(s.dest) => Readies(w)) /\ (Room(s.dest) => Room(w))
    BY <2>3 DEF Fine, News, Goes
  <2>5. Onward(v, s)
    BY <2>2, <2>4, WithDestOnward
  <2>6. v.dest = [w EXCEPT !.news = <<>>] /\ v.source = s.source /\ v.pipe.lock = "held"
    <3>1. (s.pipe.waitsReady => Readies(w)) /\ (Holds(s) => Room(w))
      BY <2>4 DEF Loops, Places, Readies
    <3> QED
      BY <1>2, <2>2, <2>4, <3>1, WithDestLoops
  <2> HIDE DEF v
  <2>7. ~ v.pipe.waitsReady
    <3>1. v.pipe.waitsReady => v.dest.ready = "pending"
      BY <2>5 DEF Onward, Loops, Places
    <3>2. v.dest.ready = w.ready
      BY <2>2, <2>6, Fields DEF WInv, Shape
    <3>3. w.ready # "pending"
      BY <2>2, <2>4 DEF Level, Prompt
    <3> QED
      BY <3>1, <3>2, <3>3
  <2>8. RInv(r) /\ Serves(r, v.source, FALSE) /\ r.readRequests = 0
    <3>1. Heeded(v.source)
      BY <2>5 DEF Onward, Loops
    <3>2. v.source.reader
      BY <1>2, <2>6 DEF Good, Locks
    <3> QED
      BY <3>1, <3>2, ReleaseServes, SourceInv DEF Heeded
  <2> HIDE DEF r
  <2>9. /\ Onward(u, v) /\ u.dest = v.dest /\ u.pipe.waitsReady = v.pipe.waitsReady
        /\ u.source = [r EXCEPT !.news = <<>>] /\ u.pipe.lock = "held"
    <3>1. Loops(v)
      BY <2>5 DEF Onward
    <3> QED
      BY <2>6, <2>8, <3>1, WithSourceLoops
  <2> HIDE DEF u
  <2>10. /\ DOMAIN t = DOMAIN u /\ DOMAIN t.pipe = DOMAIN u.pipe /\ t.pipe.lock = "released"
         /\ t.source = u.source /\ t.dest = u.dest /\ t.jobs = u.jobs
         /\ t.pipe.waitsReady = u.pipe.waitsReady
    BY <2>9, PipeFields DEF Onward, Loops, Turn
  <2> HIDE DEF t
  <2>11. ~ Asked(t)
    BY <2>8, <2>9, <2>10, ReadFields DEF Asked, RInv
  <2>12. Loops(u)
    BY <2>9 DEF Onward
  <2>13. Places(t)
    BY <2>7, <2>9, <2>10, <2>11, <2>12 DEF Loops, Places, Holds
  <2>14. Loops(t)
    BY <2>10, <2>12, <2>13 DEF Loops, Turn
  <2>15. Quiet(u) => Quiet(t)
    BY <2>10 DEF Quiet, Going, Asked
  <2>16. Quiet(s) => Quiet(t)
    BY <2>5, <2>9, <2>15 DEF Onward
  <2> QED
    BY <2>1, <2>10, <2>14, <2>16 DEF Onward
<1> QED
  BY <1>1, <1>2

\* abort() and close() of a pipe that ends, and cancel().
LEMMA DestActionsOnward ==
  ASSUME NEW s, Fit(s), Loops(s)
  PROVE  /\ Onward(WithDest(s, W!StreamAbort(s.dest)), s)
         /\ Onward(WithDest(s, W!CloseWithErrorPropagation(s.dest)), s)
         /\ Onward(WithSource(s, R!StreamCancel(s.source)), s)
<1>1. WInv(s.dest) /\ Level(s.dest) /\ s.dest.news = <<>> /\ RInv(s.source) /\ Heeded(s.source)
  BY DEF Fit, Loops
<1>2. Onward(WithDest(s, W!StreamAbort(s.dest)), s)
  <2> DEFINE w == W!StreamAbort(s.dest)
  <2>1. WInv(w) /\ Fine(w) /\ Goes(w, s.dest)
    BY <1>1, AbortInv, AbortFine
  <2> HIDE DEF w
  <2>2. Onward(WithDest(s, w), s)
    BY <2>1, WithDestOnward DEF Fine, News, Goes
  <2> QED
    BY <2>2 DEF w
<1>3. Onward(WithDest(s, W!CloseWithErrorPropagation(s.dest)), s)
  <2> DEFINE w == W!CloseWithErrorPropagation(s.dest)
  <2>1. WInv(w) /\ Level(w) /\ Told(w) /\ GoesToClose(w, s.dest)
    BY <1>1, CloseWithErrorInv, CloseWithErrorFine
  <2> HIDE DEF w
  <2>2. Onward(WithDest(s, w), s)
    BY <2>1, WithDestOnward DEF GoesToClose
  <2> QED
    BY <2>2 DEF w
<1>4. Onward(WithSource(s, R!StreamCancel(s.source)), s)
  <2> DEFINE r == R!StreamCancel(s.source)
  <2>1. RInv(r) /\ Serves(r, s.source, FALSE)
    BY <1>1, CancelInv, CancelServes
  <2> HIDE DEF r
  <2>2. Onward(WithSource(s, r), s)
    BY <2>1, WithSourceLoops
  <2> QED
    BY <2>2 DEF r
<1> QED
  BY <1>2, <1>3, <1>4

\* The half of the abort signal that aborts.
LEMMA AbortIfOnward ==
  ASSUME NEW s, Good(s), Loops(s)
  PROVE  Onward(AbortIfWritable(s), s)
<1>1. Onward(s, s)
  BY DEF Onward
<1> QED
  BY <1>1, DestActionsOnward, PartOnward DEF AbortIfWritable, Good

\* The half of the abort signal that cancels.
LEMMA CancelIfOnward ==
  ASSUME NEW s, Good(s), Loops(s)
  PROVE  Onward(CancelIfReadable(s), s)
<1>1. Onward(s, s)
  BY DEF Onward
<1> QED
  BY <1>1, DestActionsOnward, PartOnward DEF CancelIfReadable, Good

\* The shutdown action.
LEMMA DoTheRestOnward ==
  ASSUME NEW s, Good(s), Loops(s)
  PROVE  Onward(DoTheRest(s), s)
<1> DEFINE Await(parts) == [s EXCEPT !.pipe.parts = parts]
           allowed == (IF "preventAbort" \in s.pipe.options THEN {} ELSE {"abort"})
                        \cup (IF "preventCancel" \in s.pipe.options THEN {} ELSE {"cancel"})
<1>1. \A parts : /\ Good(Await(parts)) /\ Onward(Await(parts), s)
                 /\ Await(parts).dest = s.dest /\ Await(parts).source = s.source
  <2>1. \A parts : Same(Await(parts), s)
    BY ClosureSame DEF Good
  <2>2. \A parts : Onward(Await(parts), s)
    BY ClosureOnward
  <2> QED
    BY <2>1, <2>2, SameFits DEF Same
<1>2. DoTheRest(s) =
        CASE s.pipe.action = "abort" -> WithDest(Await({"abort"}), W!StreamAbort(s.dest))
          [] s.pipe.action = "cancel" ->
               WithSource(Await({"cancel"}), R!StreamCancel(s.source))
          [] s.pipe.action = "close" ->
               WithDest(Await({"close"}), W!CloseWithErrorPropagation(s.dest))
          [] s.pipe.action = "signal" /\ allowed # {} ->
               CancelIfReadable(AbortIfWritable(Await(allowed)))
          [] s.pipe.action = "signal" /\ allowed = {} -> Queue(s, "acted", "resolved", 0)
          [] OTHER -> Finalize(s, s.pipe.isError)
  BY DEF DoTheRest
<1> HIDE DEF Await, allowed
<1>3. ASSUME NEW parts
      PROVE  /\ Onward(WithDest(Await(parts), W!StreamAbort(s.dest)), s)
             /\ Onward(WithDest(Await(parts), W!CloseWithErrorPropagation(s.dest)), s)
             /\ Onward(WithSource(Await(parts), R!StreamCancel(s.source)), s)
  <2> DEFINE a == Await(parts)
  <2>1. /\ Fit(a) /\ Onward(a, s) /\ Loops(a) /\ a.dest = s.dest /\ a.source = s.source
    BY <1>1 DEF Good, Onward
  <2> HIDE DEF a
  <2>2. /\ Onward(WithDest(a, W!StreamAbort(s.dest)), a)
        /\ Onward(WithDest(a, W!CloseWithErrorPropagation(s.dest)), a)
        /\ Onward(WithSource(a, R!StreamCancel(s.source)), a)
    BY <2>1, DestActionsOnward
  <2> QED
    BY <2>1, <2>2, OnwardTwice DEF a
<1>4. Onward(CancelIfReadable(AbortIfWritable(Await(allowed))), s)
  <2> DEFINE a == Await(allowed)
             b == AbortIfWritable(a)
  <2>1. Good(a) /\ Onward(a, s) /\ Loops(a)
    BY <1>1 DEF Onward
  <2> HIDE DEF a
  <2>2. Good(b) /\ Onward(b, a) /\ Loops(b)
    BY <2>1, AbortIfGood, AbortIfOnward DEF Onward
  <2> HIDE DEF b
  <2>3. Onward(CancelIfReadable(b), b)
    BY <2>2, CancelIfOnward
  <2>4. Onward(b, s)
    BY <2>1, <2>2, OnwardTwice
  <2>5. Onward(CancelIfReadable(b), s)
    BY <2>3, <2>4, OnwardTwice
  <2> QED
    BY <2>5 DEF a, b
<1>5. Onward(Queue(s, "acted", "resolved", 0), s)
  BY QueueOnward DEF LoopKinds
<1>6. Onward(Finalize(s, s.pipe.isError), s)
  BY FinalizeOnward
<1> QED
  BY <1>2, <1>3, <1>4, <1>5, <1>6

\* A shutdown with an action, now or after the last write.
LEMMA WithActionOnward ==
  ASSUME NEW s, Good(s), Loops(s), NEW action, NEW isError
  PROVE  Onward(ShutdownWithAction(s, action, isError), s)
<1> DEFINE v == [s EXCEPT !.pipe.shuttingDown = TRUE, !.pipe.action = action,
                          !.pipe.isError = isError]
<1>1. Same(v, s) /\ Onward(v, s)
  BY ClosureSame, ClosureOnward DEF Good
<1>2. ShutdownWithAction(s, action, isError) =
        IF s.pipe.shuttingDown THEN s
        ELSE IF DestTakesWrites(v) THEN WaitForWritesToFinish(v) ELSE DoTheRest(v)
  BY DEF ShutdownWithAction
<1> HIDE DEF v
<1>3. Good(v) /\ Loops(v)
  BY <1>1, SameFits DEF Onward
<1>4. Onward(WaitForWritesToFinish(v), v) /\ Onward(DoTheRest(v), v)
  BY <1>3, WaitOnward, DoTheRestOnward
<1>5. Onward(s, s)
  BY DEF Onward
<1> QED
  BY <1>1, <1>2, <1>4, <1>5, OnwardTwice

\* A shutdown without one.
LEMMA ShutdownOnward ==
  ASSUME NEW s, Good(s), Loops(s), NEW isError
  PROVE  Onward(Shutdown(s, isError), s)
<1> DEFINE v == [s EXCEPT !.pipe.shuttingDown = TRUE, !.pipe.action = "release",
                          !.pipe.isError = isError]
           u == IF DestTakesWrites(v) THEN WaitForWritesToFinish(v) ELSE v
<1>1. Same(v, s) /\ Onward(v, s)
  BY ClosureSame, ClosureOnward DEF Good
<1>2. Shutdown(s, isError) = IF s.pipe.shuttingDown THEN s ELSE Finalize(u, isError)
  BY DEF Shutdown
<1> HIDE DEF v
<1>3. Good(v) /\ Loops(v)
  BY <1>1, SameFits DEF Onward
<1>4. Good(u) /\ Onward(u, v)
  <2>1. Good(WaitForWritesToFinish(v)) /\ Onward(WaitForWritesToFinish(v), v)
    BY <1>3, WaitSame, WaitOnward, SameFits DEF Good
  <2>2. Onward(v, v)
    BY <1>3 DEF Onward
  <2> QED
    BY <1>3, <2>1, <2>2
<1> HIDE DEF u
<1>5. Onward(Finalize(u, isError), u)
  BY <1>4, FinalizeOnward DEF Onward
<1>6. Onward(s, s)
  BY DEF Onward
<1>7. Onward(u, s)
  BY <1>1, <1>4, OnwardTwice
<1> QED
  BY <1>2, <1>5, <1>6, <1>7, OnwardTwice

\* A stream that has ended, whatever the pipe is to prevent.
LEMMA EndsOnward ==
  ASSUME NEW s, Good(s), Loops(s)
  PROVE  Onward(SourceErrored(s), s) /\ Onward(DestErrored(s), s) /\ Onward(SourceClosed(s), s)
<1>1. Onward(s, s)
  BY DEF Onward
<1> QED
  BY <1>1, WithActionOnward, ShutdownOnward DEF SourceErrored, DestErrored, SourceClosed, End

-----------------------------------------------------------------------------
(* The loop is where it was, or one place further.                         *)

\* The step finds the writer ready, and room for a chunk, or waits for it.
LEMMA StepLoops ==
  ASSUME NEW s, Good(s), Loops(s), Quiet(s), s.pipe.lock # "idle"
  PROVE  Loops(PipeStep(s))
<1>1. Level(s.dest)
  BY DEF Loops
<1>2. CASE s.dest.ready = "resolved"
  <2>1. s.pipe.lock = "held" => Room(s.dest)
    BY <1>1, <1>2 DEF Good, Locks, Level, Prompt, Room
  <2>2. Loops(Queue(s, "read", NoWrite, 0))
    BY <2>1, QueueLoops DEF LoopKinds
  <2> QED
    BY <1>2, <2>2 DEF PipeStep
<1>3. CASE s.dest.ready = "pending"
  <2> DEFINE t == [s EXCEPT !.pipe.waitsReady = TRUE]
  <2>1. s.pipe.lock = "held"
    BY <1>1, <1>3 DEF Good, Locks, Level, Prompt
  <2>2. /\ Turn(t) /\ t.pipe.lock = s.pipe.lock /\ t.dest = s.dest /\ t.source = s.source
        /\ t.jobs = s.jobs
    BY PipeFields DEF Loops, Turn
  <2> HIDE DEF t
  <2>3. (Going(t) <=> Going(s)) /\ (Asked(t) <=> Asked(s)) /\ (Holds(t) <=> Holds(s))
    BY <2>2 DEF Going, Asked, Holds
  <2>4. Places(t)
    BY <1>3, <2>1, <2>2, <2>3 DEF Places, Loops, Quiet
  <2>5. Loops(t)
    BY <2>2, <2>4 DEF Loops
  <2> QED
    BY <1>3, <2>5 DEF PipeStep, t
<1>4. CASE s.dest.ready \notin {"resolved", "pending"}
  BY <1>4 DEF PipeStep
<1> QED
  BY <1>2, <1>3, <1>4

\* The loop reads.
LEMMA ReadChunkLoops ==
  ASSUME NEW s, Good(s), Loops(s), Quiet(s), s.pipe.lock = "held" => Room(s.dest)
  PROVE  Loops(ReadChunk(s))
<1>1. CASE s.pipe.lock # "held"
  <2>1. Loops([s EXCEPT !.pipe.asserts = FALSE])
    BY ClosureOnward DEF Onward
  <2> QED
    BY <1>1, <2>1 DEF ReadChunk
<1>2. CASE s.pipe.lock = "held"
  <2> DEFINE r == R!Read(s.source)
  <2>1. Heeded(s.source) /\ RInv(s.source) /\ s.source.reader /\ s.source.readRequests = 0
    BY <1>2 DEF Good, Fit, Locks, Loops, Quiet, Asked
  <2>2. RInv(r) /\ Serves(r, s.source, TRUE)
    BY <2>1, ReadInv, ReadServes
  <2> HIDE DEF r
  <2>3. Loops(WithSource(s, r))
    BY <1>2, <2>2, WithSourceLoops
  <2> QED
    BY <1>2, <2>3 DEF ReadChunk, r
<1> QED
  BY <1>1, <1>2

\* The loop writes what it read.
LEMMA WriteChunkLoops ==
  ASSUME NEW s, Good(s), Loops(s), Quiet(s), s.pipe.lock = "held" => Room(s.dest), NEW chunk
  PROVE  Loops(WriteChunk(s, chunk))
<1> DEFINE v == [s EXCEPT !.pipe.currentWrite = chunk, !.pipe.currentDone = FALSE]
           w == W!WriterWrite(v.dest, chunk)
           u == WithDest(v, w)
<1>1. CASE chunk \notin ToSet(Chunks)
  BY <1>1 DEF WriteChunk
<1>2. CASE chunk \in ToSet(Chunks) /\ s.pipe.lock # "held"
  <2>1. Loops([s EXCEPT !.pipe.asserts = FALSE])
    BY ClosureOnward DEF Onward
  <2> QED
    BY <1>2, <2>1 DEF WriteChunk
<1>3. CASE chunk \in ToSet(Chunks) /\ s.pipe.lock = "held"
  <2>1. WriteChunk(s, chunk) = Queue(u, "next", NoWrite, 1)
    BY <1>3 DEF WriteChunk
  <2>2. Same(v, s) /\ Onward(v, s)
    BY ClosureSame, ClosureOnward DEF Good
  <2> HIDE DEF v
  <2>3. Good(v) /\ Loops(v) /\ Quiet(v) /\ v.dest = s.dest /\ v.pipe.lock = "held"
    BY <1>3, <2>2, SameFits DEF Onward, Same
  <2>4. chunk \in AllChunks
    BY <1>3 DEF AllChunks
  <2>5. /\ WInv(v.dest) /\ v.dest.writer /\ Level(v.dest) /\ v.dest.news = <<>>
        /\ Room(v.dest)
    BY <1>3, <2>3 DEF Good, Fit, Locks, Loops
  <2>6. WInv(w) /\ Level(w) /\ Told(w) /\ (Readies(v.dest) => Readies(w))
    BY <2>4, <2>5, WriteInv, WriteFine DEF Fine, News, GoesOn
  <2> HIDE DEF w
  <2>7. (v.pipe.waitsReady => Readies(w)) /\ (Holds(v) => Room(w))
    BY <2>3, RoomFirst DEF Quiet, Holds, Going
  <2>8. Onward(u, v) /\ u.pipe.lock = "held"
    BY <2>3, <2>6, <2>7, WithDestLoops
  <2> HIDE DEF u
  <2>9. Loops(u) /\ Quiet(u)
    BY <2>3, <2>8 DEF Onward
  <2>10. Loops(Queue(u, "next", NoWrite, 1))
    BY <2>8, <2>9, QueueLoops DEF LoopKinds, RoomKinds
  <2> QED
    BY <2>1, <2>10
<1> QED
  BY <1>1, <1>2, <1>3

\* A write of the pipe is finished.
LEMMA WrittenOnward ==
  ASSUME NEW s, Loops(s), NEW chunk
  PROVE  Onward(Written(s, chunk), s)
<1> DEFINE done == s.pipe.currentDone \/ chunk = s.pipe.currentWrite
           v == [s EXCEPT !.pipe.currentDone = done]
           u == [v EXCEPT !.pipe.waitsOn = NoWrite]
<1>1. Written(s, chunk) = IF v.pipe.waitsOn # chunk THEN v ELSE Queue(u, "waited", chunk, 0)
  BY DEF Written
<1> HIDE DEF done
<1>2. Onward(v, s)
  BY ClosureOnward
<1> HIDE DEF v
<1>3. Onward(u, v)
  BY <1>2, ClosureOnward DEF Onward
<1> HIDE DEF u
<1>4. Onward(Queue(u, "waited", chunk, 0), u)
  BY <1>3, QueueOnward DEF Onward, LoopKinds
<1> QED
  BY <1>1, <1>2, <1>3, <1>4, OnwardTwice

\* The wait for the writes looks again.
LEMMA WaitedOnward ==
  ASSUME NEW s, Loops(s), NEW old
  PROVE  Onward(Waited(s, old), s)
<1> DEFINE d == s.pipe.depth + 1
           v == [s EXCEPT !.pipe.depth = d]
<1>1. Waited(s, old) = IF old # s.pipe.currentWrite THEN WaitForWritesToFinish(v)
                       ELSE Queue(s, "rest", NoWrite, s.pipe.depth)
  BY DEF Waited
<1> HIDE DEF d
<1>2. Onward(v, s)
  BY ClosureOnward
<1> HIDE DEF v
<1>3. Onward(WaitForWritesToFinish(v), v)
  BY <1>2, WaitOnward DEF Onward
<1>4. Onward(Queue(s, "rest", NoWrite, s.pipe.depth), s)
  BY QueueOnward DEF LoopKinds
<1> QED
  BY <1>1, <1>2, <1>3, <1>4, OnwardTwice

\* One promise of Promise.all() settles.
LEMMA PartOfAllOnward ==
  ASSUME NEW s, Loops(s), NEW part, NEW how
  PROVE  Onward(PartOfAll(s, part, how), s)
<1> DEFINE left == IF how = "rejected" THEN {} ELSE s.pipe.parts \ {part}
           v == [s EXCEPT !.pipe.parts = left]
<1>1. PartOfAll(s, part, how) = IF part \notin s.pipe.parts THEN s
                                ELSE IF left = {} THEN Queue(v, "acted", how, 0) ELSE v
  BY DEF PartOfAll
<1> HIDE DEF left
<1>2. Onward(v, s) /\ Onward(s, s)
  BY ClosureOnward DEF Onward
<1> HIDE DEF v
<1>3. Onward(Queue(v, "acted", how, 0), v)
  BY <1>2, QueueOnward DEF Onward, LoopKinds
<1> QED
  BY <1>1, <1>2, <1>3, OnwardTwice

\* A microtask, whichever it is, that has left the queue.
LEMMA PerformLoops ==
  ASSUME NEW s, Good(s), Loops(s), NEW job,
         job.kind \in LoopKinds => Quiet(s) /\ s.pipe.lock # "idle",
         job.kind \in RoomKinds /\ s.pipe.lock = "held" => Room(s.dest)
  PROVE  Loops(Perform(s, job))
<1>1. CASE job.hops > 0
  <2> DEFINE left == job.hops - 1
  <2>1. Perform(s, job) = Queue(s, job.kind, job.arg, left)
    BY <1>1 DEF Perform
  <2> HIDE DEF left
  <2>2. job.kind \notin LoopKinds => Loops(Queue(s, job.kind, job.arg, left))
    BY QueueOnward DEF Onward
  <2>3. job.kind \in LoopKinds => Loops(Queue(s, job.kind, job.arg, left))
    BY QueueLoops
  <2> QED
    BY <2>1, <2>2, <2>3
<1>2. CASE ~ (job.hops > 0)
  <2>1. /\ Loops(DoTheRest(s)) /\ Loops(SourceErrored(s)) /\ Loops(DestErrored(s))
        /\ Loops(SourceClosed(s))
    BY DoTheRestOnward, EndsOnward DEF Onward
  <2>2. /\ Loops(Written(s, job.arg)) /\ Loops(Waited(s, job.arg))
        /\ Loops(PartOfAll(s, job.arg[1], job.arg[2]))
        /\ Loops(Finalize(s, s.pipe.isError \/ job.arg = "rejected"))
    BY WrittenOnward, WaitedOnward, PartOfAllOnward, FinalizeOnward DEF Onward
  <2>3. job.kind = "read" => Loops(ReadChunk(s))
    BY ReadChunkLoops DEF LoopKinds, RoomKinds
  <2>4. job.kind = "chunk" => Loops(WriteChunk(s, job.arg))
    BY WriteChunkLoops DEF LoopKinds, RoomKinds
  <2>5. job.kind = "next" => Loops(PipeStep(s))
    BY StepLoops DEF LoopKinds
  <2> QED
    BY <1>2, <2>1, <2>2, <2>3, <2>4, <2>5 DEF Perform
<1> QED
  BY <1>1, <1>2

-----------------------------------------------------------------------------
(* Every step keeps the loop in one place.                                 *)

\* The state is what a turn starts from and ends in.
LoopInv == Inv /\ Loops(Now)

\* A turn ends.
LEMMA BecomeLoops ==
  ASSUME NEW after, Good(after), Loops(after), Become(after)
  PROVE  LoopInv'
<1>1. Inv'
  BY BecomeInv
<1>2. source' = after.source /\ dest' = after.dest /\ pipe' = after.pipe /\ jobs' = after.jobs
  BY DEF Become
<1>3. /\ Turn(Now)' /\ Line(jobs') /\ dest'.news = <<>> /\ Level(dest') /\ Heeded(source')
  BY <1>2 DEF Loops, Turn, Now
<1>4. Places(Now)'
  BY <1>2 DEF Loops, Places, Going, Asked, Holds, Now
<1>5. Loops(Now)'
  BY <1>3, <1>4 DEF Loops, Now
<1> QED
  BY <1>1, <1>5 DEF LoopInv

\* The source acts, or the program on a stream without a reader.
LEMMA SourceDoesLoops ==
  ASSUME LoopInv, NEW r, RInv(r), r.reader = source.reader, Serves(r, source, FALSE),
         Become(WithSource(Now, r))
  PROVE  LoopInv'
<1>1. Good(Now) /\ Now.source = source /\ Loops(Now)
  BY NowGood DEF Now, LoopInv
<1>2. Good(WithSource(Now, r)) /\ Loops(WithSource(Now, r))
  BY <1>1, WithSourceGood, WithSourceLoops
<1> QED
  BY <1>2, BecomeLoops

\* The sink acts, or the program on a stream without a writer.
LEMMA DestDoesLoops ==
  ASSUME LoopInv, NEW w, WInv(w), w.writer = dest.writer, Level(w), Told(w),
         Readies(dest) => Readies(w), Room(dest) => Room(w), Become(WithDest(Now, w))
  PROVE  LoopInv'
<1>1. Good(Now) /\ Now.dest = dest /\ Loops(Now)
  BY NowGood DEF Now, LoopInv
<1>2. Good(WithDest(Now, w)) /\ Loops(WithDest(Now, w))
  BY <1>1, WithDestGood, WithDestOnward DEF Onward
<1> QED
  BY <1>2, BecomeLoops

\* The pipe has locked both streams.
Begun(options) ==
  [Now EXCEPT !.pipe.lock = "held", !.pipe.options = options,
              !.source = R!AcquireReader(@), !.dest = W!AcquireWriter(@)]

\* Both streams are the pipe's, and its loop has not begun.
LEMMA BegunLoops ==
  ASSUME LoopInv, PipeStreams, NEW options
  PROVE  LET s == Begun(options)
         IN  /\ Good(s) /\ Loops(s) /\ Quiet(s) /\ s.pipe.lock = "held" /\ s.jobs = jobs
             /\ s.source = R!AcquireReader(source) /\ s.dest = W!AcquireWriter(dest)
             /\ s.pipe = [pipe EXCEPT !.lock = "held", !.options = options]
<1> DEFINE s1 == Begun(options)
<1>3. /\ DOMAIN s1 = {"source", "dest", "pipe", "jobs"} /\ DOMAIN s1.pipe = DOMAIN pipe
      /\ s1.pipe.lock = "held" /\ s1.pipe.outcome = pipe.outcome /\ s1.jobs = jobs
      /\ s1.pipe.waitsReady = pipe.waitsReady
      /\ s1.source = R!AcquireReader(source) /\ s1.dest = W!AcquireWriter(dest)
      /\ s1.pipe = [pipe EXCEPT !.lock = "held", !.options = options]
  BY PipeFields DEF Begun, Now, Inv, LoopInv
<1> HIDE DEF s1
<1>4. /\ WInv(dest) /\ RInv(source) /\ ~ dest.writer /\ Level(dest) /\ dest.news = <<>>
      /\ Heeded(source) /\ pipe.lock = "idle" /\ Loops(Now)
  BY DEF LoopInv, Inv, Loops, Now, PipeStreams
<1>5. Good(s1)
  <2>1. WInv(s1.dest) /\ s1.dest.writer
    BY <1>3, <1>4, AcquireInv
  <2>2. RInv(s1.source) /\ s1.source.reader
    <3>1. RInv(R!AcquireReader(source)) /\ R!AcquireReader(source).reader
      BY <1>4, SourceInv
    <3> QED
      BY <1>3, <3>1
  <2>3. pipe.outcome = "none"
    BY <1>4 DEF LoopInv, Inv, Locks
  <2> QED
    BY <1>3, <2>1, <2>2, <2>3 DEF LoopInv, Inv, Good, Fit, Locks
<1>6. Loops(s1) /\ Quiet(s1)
  <2>1. Level(s1.dest) /\ s1.dest.news = <<>>
    <3>1. Level(W!AcquireWriter(dest)) /\ W!AcquireWriter(dest).news = <<>>
      BY <1>4, AcquireFine
    <3> QED
      BY <1>3, <3>1
  <2>2. Heeded(s1.source) /\ s1.source.readRequests = 0
    <3>1. Heeded(R!AcquireReader(source)) /\ R!AcquireReader(source).readRequests = 0
      BY <1>4, AcquireHeeds
    <3> QED
      BY <1>3, <3>1
  <2>3. /\ Line(jobs) /\ ~ Has(jobs, LoopKinds) /\ pipe.waitsReady = FALSE
        /\ Single(jobs, LoopKinds)
    BY <1>4 DEF Loops, Turn, Places, Now, Going
  <2>4. Quiet(s1)
    BY <1>3, <2>2, <2>3 DEF Quiet, Going, Asked
  <2>5. Turn(s1)
    BY <1>3, <2>3 DEF Turn, LoopInv, Inv
  <2>6. Places(s1)
    BY <1>3, <2>3, <2>4, RoomFirst DEF Places, Quiet, Going, Holds
  <2> QED
    BY <1>3, <2>1, <2>2, <2>3, <2>4, <2>5, <2>6 DEF Loops
<1> QED
  BY <1>3, <1>5, <1>6 DEF s1

\* A pipe starts, on streams that may have ended.
LEMMA PipeStreamsLoops ==
  ASSUME LoopInv, PipeStreams
  PROVE  LoopInv'
<1>1. PICK options \in PipeOptions :
        LET s1 == Begun(options)
            s2 == IF s1.source.state = "errored" THEN SourceErrored(s1) ELSE s1
            s3 == IF s2.dest.state = "errored" THEN DestErrored(s2) ELSE s2
            s4 == IF s3.source.state = "closed" THEN SourceClosed(s3) ELSE s3
            s5 == IF W!CloseQueuedOrInFlight(s4.dest) \/ s4.dest.state = "closed"
                  THEN DestErrored(s4) ELSE s4
        IN  Become(PipeStep(s5))
  BY DEF PipeStreams, Begun
<1> DEFINE s1 == Begun(options)
           s2 == IF s1.source.state = "errored" THEN SourceErrored(s1) ELSE s1
           s3 == IF s2.dest.state = "errored" THEN DestErrored(s2) ELSE s2
           s4 == IF s3.source.state = "closed" THEN SourceClosed(s3) ELSE s3
           s5 == IF W!CloseQueuedOrInFlight(s4.dest) \/ s4.dest.state = "closed"
                 THEN DestErrored(s4) ELSE s4
<1>2. Become(PipeStep(s5))
  BY <1>1
<1> HIDE DEF s1
<1> DEFINE Starts(s) == Good(s) /\ Loops(s) /\ Quiet(s) /\ s.pipe.lock # "idle"
<1>7. ASSUME NEW s, Starts(s)
      PROVE  Starts(SourceErrored(s)) /\ Starts(DestErrored(s)) /\ Starts(SourceClosed(s))
  BY <1>7, EndsGood, EndsOnward DEF Onward
<1>8. Starts(s1)
  BY BegunLoops DEF s1
<1> HIDE DEF Starts
<1>9. Starts(s2)
  BY <1>7, <1>8
<1> HIDE DEF s2
<1>10. Starts(s3)
  BY <1>7, <1>9
<1> HIDE DEF s3
<1>11. Starts(s4)
  BY <1>7, <1>10
<1> HIDE DEF s4
<1>12. Starts(s5)
  BY <1>7, <1>11
<1> HIDE DEF s5
<1>13. Good(PipeStep(s5)) /\ Loops(PipeStep(s5))
  BY <1>12, StepGood, StepLoops DEF Starts
<1> QED
  BY <1>2, <1>13, BecomeLoops

\* A microtask leaves the queue.
LEMMA TakenLoops ==
  ASSUME LoopInv, jobs # <<>>
  PROVE  LET s == [Now EXCEPT !.jobs = Tail(@)]
             job == Head(jobs)
         IN  /\ Good(s) /\ Loops(s)
             /\ job.kind \in LoopKinds => Quiet(s) /\ s.pipe.lock # "idle"
             /\ job.kind \in RoomKinds /\ s.pipe.lock = "held" => Room(s.dest)
             /\ \A K : /\ Has(s.jobs, K) => Has(jobs, K)
                       /\ Single(jobs, K) => Single(s.jobs, K)
                       /\ job.kind \in K => Has(jobs, K)
                       /\ Single(jobs, K) /\ job.kind \in K => ~ Has(s.jobs, K)
<1> DEFINE s == [Now EXCEPT !.jobs = Tail(@)]
           job == Head(jobs)
<1>2. /\ DOMAIN s = DOMAIN Now /\ s.pipe = pipe /\ s.source = source /\ s.dest = dest
      /\ s.jobs = Tail(jobs)
  BY DEF Now
<1> HIDE DEF s, job
<1>3. /\ DOMAIN Now = {"source", "dest", "pipe", "jobs"} /\ Now.source = source
      /\ Now.dest = dest /\ Now.pipe = pipe /\ Now.jobs = jobs
  BY DEF Now
<1>4. Good(s)
  BY <1>2, <1>3 DEF LoopInv, Inv, Good, Fit
<1>5. Loops(Now)
  BY DEF LoopInv
<1>6. /\ Line(s.jobs)
      /\ \A K : /\ Has(s.jobs, K) => Has(jobs, K)
                /\ Single(jobs, K) => Single(s.jobs, K)
                /\ job.kind \in K => Has(jobs, K)
                /\ Single(jobs, K) /\ job.kind \in K => ~ Has(s.jobs, K)
  BY <1>2, <1>3, <1>5, ShorterHas DEF Loops, job
<1>7. (Going(s) => Going(Now)) /\ (Asked(s) <=> Asked(Now)) /\ (Holds(s) => Holds(Now))
  BY <1>2, <1>3, <1>6 DEF Going, Asked, Holds
<1>8. Places(s)
  BY <1>2, <1>3, <1>5, <1>6, <1>7 DEF Loops, Places
<1>9. Loops(s)
  BY <1>2, <1>3, <1>5, <1>6, <1>8 DEF Loops, Turn
<1>10. job.kind \in LoopKinds => Quiet(s) /\ s.pipe.lock # "idle"
  <2>1. job.kind \in LoopKinds => Going(Now) /\ ~ Going(s)
    BY <1>3, <1>5, <1>6 DEF Going, Loops, Places
  <2> QED
    BY <1>2, <1>3, <1>5, <1>7, <2>1 DEF Loops, Places, Quiet
<1>11. job.kind \in RoomKinds /\ s.pipe.lock = "held" => Room(s.dest)
  <2>1. job.kind \in RoomKinds => Has(jobs, RoomKinds)
    BY <1>6
  <2> QED
    BY <1>2, <1>3, <1>5, <2>1 DEF Loops, Places, Holds
<1> QED
  BY <1>4, <1>6, <1>9, <1>10, <1>11 DEF s, job

\* A microtask leaves the queue and runs.
LEMMA RunJobLoops ==
  ASSUME LoopInv, RunJob
  PROVE  LoopInv'
<1> DEFINE s == [Now EXCEPT !.jobs = Tail(@)]
           job == Head(jobs)
<1>1. jobs # <<>> /\ Become(Perform(s, job))
  BY DEF RunJob
<1>2. /\ Good(s) /\ Loops(s)
      /\ job.kind \in LoopKinds => Quiet(s) /\ s.pipe.lock # "idle"
      /\ job.kind \in RoomKinds /\ s.pipe.lock = "held" => Room(s.dest)
  BY <1>1, TakenLoops
<1> HIDE DEF s, job
<1>3. Good(Perform(s, job)) /\ Loops(Perform(s, job))
  BY <1>2, PerformGood, PerformLoops
<1> QED
  BY <1>1, <1>3, BecomeLoops

\* The program writes through a writer of its own.
LEMMA ProgramWritesLoops ==
  ASSUME LoopInv, ProgramWrites
  PROVE  LoopInv'
<1> DEFINE a == W!AcquireWriter(dest)
           b == W!WriterWrite(a, UserChunk)
           d == W!WriterRelease(b)
<1>1. ~ dest.writer /\ Become(WithDest(Now, d))
  BY DEF ProgramWrites
<1>2. /\ WInv(dest) /\ Level(dest) /\ dest.news = <<>> /\ Good(Now) /\ Loops(Now)
      /\ Now.dest = dest /\ Now.pipe = pipe
  BY NowGood DEF LoopInv, Inv, Loops, Now
<1>3. WInv(a) /\ a.writer /\ Level(a) /\ a.news = <<>>
  BY <1>1, <1>2, AcquireInv, AcquireFine
<1> HIDE DEF a
<1>4. UserChunk \in AllChunks /\ UserChunk \notin Ours
  BY ChunksAssumption DEF AllChunks, Ours
<1>5. WInv(b) /\ b.writer /\ Fine(b)
  BY <1>3, <1>4, WriteInv, WriteFine
<1> HIDE DEF b
<1>6. WInv(d) /\ ~ d.writer /\ Fine(d)
  BY <1>5, ReleaseInv, ReleaseFine
<1> HIDE DEF d
<1>7. Good(WithDest(Now, d))
  BY <1>1, <1>2, <1>6, WithDestFits DEF Good, Locks
<1>8. pipe.lock # "held"
  BY <1>1 DEF LoopInv, Inv, Locks
<1>9. Loops(WithDest(Now, d))
  <2>1. ~ Now.pipe.waitsReady /\ ~ Holds(Now)
    BY <1>2, <1>8 DEF Loops, Places, Holds
  <2> QED
    BY <1>2, <1>6, <2>1, WithDestLoops DEF Onward, Fine, News
<1> QED
  BY <1>1, <1>7, <1>9, BecomeLoops

\* Every step, one case per action.
LEMMA StepLoopInv ==
  ASSUME LoopInv, [Next]_vars
  PROVE  LoopInv'
<1>1. /\ WInv(dest) /\ Level(dest) /\ dest.news = <<>> /\ RInv(source) /\ Heeded(source)
      /\ Good(Now) /\ Loops(Now)
  BY NowGood DEF LoopInv, Inv, Loops, Now
<1>2. CASE RunJob
  BY <1>2, RunJobLoops
<1>3. CASE PipeStreams
  BY <1>3, PipeStreamsLoops
<1>4. CASE SignalAborts
  <2> DEFINE s == [Now EXCEPT !.pipe.signalled = TRUE]
  <2>1. Become(ShutdownWithAction(s, "signal", TRUE))
    BY <1>4 DEF SignalAborts
  <2>2. Good(s)
    BY PipeFields DEF LoopInv, Inv, Good, Fit, Locks, Now
  <2>3. Loops(s)
    BY <1>1, ClosureOnward DEF Onward
  <2> HIDE DEF s
  <2> QED
    BY <2>1, <2>2, <2>3, WithActionGood, WithActionOnward, BecomeLoops DEF Onward
<1>5. CASE SourceEnqueues
  <2>1. PICK c : Become(WithSource(Now, R!Enqueue(source, c)))
    BY <1>5 DEF SourceEnqueues, SourceDoes
  <2> QED
    BY <1>1, <2>1, EnqueueInv, EnqueueServes, SourceDoesLoops
<1>6. CASE SourceCloses
  BY <1>1, <1>6, SourceCloseInv, SourceCloseServes, SourceDoesLoops DEF SourceCloses, SourceDoes
<1>7. CASE SourceErrors
  BY <1>1, <1>7, SourceErrorInv, SourceErrorServes, SourceDoesLoops DEF SourceErrors, SourceDoes
<1>8. CASE SourceStarts
  <2>1. ~ source.started
    BY <1>8 DEF SourceStarts
  <2>2. PICK ok \in BOOLEAN : Become(WithSource(Now, R!FinishStart(source, ok)))
    BY <1>8 DEF SourceStarts, SourceDoes
  <2>3. RInv(R!FinishStart(source, ok)) /\ R!FinishStart(source, ok).reader = source.reader
    BY <1>1, <2>1, SourceInv
  <2>4. Serves(R!FinishStart(source, ok), source, FALSE)
    BY <1>1, <2>1, AnswersServe
  <2> QED
    BY <2>2, <2>3, <2>4, SourceDoesLoops
<1>9. CASE SourcePulled
  <2>1. PICK ok \in BOOLEAN : Become(WithSource(Now, R!FinishPull(source, ok)))
    BY <1>9 DEF SourcePulled, SourceDoes
  <2>2. RInv(R!FinishPull(source, ok)) /\ R!FinishPull(source, ok).reader = source.reader
    BY <1>1, SourceInv
  <2> QED
    BY <1>1, <2>1, <2>2, AnswersServe, SourceDoesLoops
<1>10. CASE SourceCancelled
  <2>1. PICK ok \in BOOLEAN : Become(WithSource(Now, R!FinishCancel(source, ok)))
    BY <1>10 DEF SourceCancelled, SourceDoes
  <2>2. RInv(R!FinishCancel(source, ok)) /\ R!FinishCancel(source, ok).reader = source.reader
    BY <1>1, SourceInv
  <2> QED
    BY <1>1, <2>1, <2>2, AnswersServe, SourceDoesLoops
<1>11. CASE SinkAnswers
  <2>1. PICK ok \in BOOLEAN : Become(WithDest(Now, W!SinkAnswers(dest, ok)))
    BY <1>11 DEF SinkAnswers, DestDoes
  <2> DEFINE w == W!SinkAnswers(dest, ok)
  <2>2. dest.sink # "idle"
    BY <1>11 DEF SinkAnswers
  <2>3. WInv(w) /\ w.writer = dest.writer
    BY <1>1, <2>2, AnswersInv
  <2>4. Fine(w) /\ Goes(w, dest)
    BY <1>1, <2>2, AnswersFine
  <2> HIDE DEF w
  <2>5. Become(WithDest(Now, w))
    BY <2>1 DEF w
  <2> QED
    BY <2>3, <2>4, <2>5, DestDoesLoops DEF Fine, News, Goes
<1>12. CASE SinkErrors
  <2> DEFINE w == W!ControllerError(dest)
  <2>1. dest.state = "writable" /\ Become(WithDest(Now, w))
    BY <1>12 DEF SinkErrors, DestDoes
  <2>2. WInv(w) /\ w.writer = dest.writer /\ Fine(w) /\ Goes(w, dest)
    BY <1>1, <2>1, ControllerErrorInv, SinkErrorFine
  <2> HIDE DEF w
  <2> QED
    BY <2>1, <2>2, DestDoesLoops DEF Fine, News, Goes
<1>13. CASE ProgramWrites
  BY <1>13, ProgramWritesLoops
<1>14. CASE ProgramCloses
  <2> DEFINE w == W!StreamClose(dest)
  <2>1. ~ W!CloseQueuedOrInFlight(dest) /\ Become(WithDest(Now, w))
    BY <1>14 DEF ProgramCloses
  <2>2. WInv(w) /\ w.writer = dest.writer /\ Fine(w) /\ GoesToClose(w, dest)
    BY <1>1, <2>1, CloseInv, CloseFine
  <2> HIDE DEF w
  <2> QED
    BY <2>1, <2>2, DestDoesLoops DEF Fine, News, GoesToClose
<1>15. CASE ProgramAborts
  <2> DEFINE w == W!StreamAbort(dest)
  <2>1. Become(WithDest(Now, w))
    BY <1>15 DEF ProgramAborts
  <2>2. WInv(w) /\ w.writer = dest.writer /\ Fine(w) /\ Goes(w, dest)
    BY <1>1, AbortInv, AbortFine
  <2> HIDE DEF w
  <2> QED
    BY <2>1, <2>2, DestDoesLoops DEF Fine, News, Goes
<1>16. CASE ProgramCancels
  <2>1. Become(WithSource(Now, R!StreamCancel(source)))
    BY <1>16 DEF ProgramCancels
  <2>2. RInv(R!StreamCancel(source)) /\ R!StreamCancel(source).reader = source.reader
        /\ Serves(R!StreamCancel(source), source, FALSE)
    BY <1>1, CancelInv, CancelServes
  <2> QED
    BY <2>1, <2>2, SourceDoesLoops
<1>17. CASE UNCHANGED vars
  <2>1. source' = source /\ dest' = dest /\ pipe' = pipe /\ jobs' = jobs
    BY <1>17 DEF vars
  <2>2. Become(Now)
    BY <2>1 DEF Become, Now
  <2> QED
    BY <1>1, <2>2, BecomeLoops
<1> QED
  BY <1>2, <1>3, <1>4, <1>5, <1>6, <1>7, <1>8, <1>9, <1>10, <1>11, <1>12, <1>13,
     <1>14, <1>15, <1>16, <1>17 DEF Next

\* No stream, no queue, no pipe yet.
LEMMA InitLoops == Init => LoopInv
<1> SUFFICES ASSUME Init
             PROVE  LoopInv
  OBVIOUS
<1>1. Inv
  BY NewInv, NewReadableInv DEF Init, Inv, Locks, IdlePipe, W!NewWritable, R!NewReadable
<1>2. /\ Now.jobs = <<>> /\ Now.dest = W!NewWritable /\ Now.source = R!NewReadable
      /\ Now.pipe = IdlePipe /\ DOMAIN Now = {"source", "dest", "pipe", "jobs"}
  BY DEF Init, Now
<1>3. /\ IdlePipe.waitsReady = FALSE /\ IdlePipe.lock = "idle"
  BY DEF IdlePipe
<1>4. Level(W!NewWritable) /\ W!NewWritable.news = <<>>
  BY NewFine
<1>5. Heeded(R!NewReadable) /\ R!NewReadable.readRequests = 0
  BY NewReadableInv DEF Heeded, R!NewReadable
<1>6. Line(<<>>) /\ \A K : ~ Has(<<>>, K) /\ Single(<<>>, K)
  BY DEF Line, Has, Single
<1>7. Turn(Now)
  BY <1>2, <1>3 DEF Turn
<1>8. Places(Now)
  BY <1>2, <1>3, <1>5, <1>6 DEF Places, Going, Asked, Holds
<1>9. Loops(Now)
  BY <1>2, <1>4, <1>5, <1>6, <1>7, <1>8 DEF Loops
<1> QED
  BY <1>1, <1>9 DEF LoopInv

\* The loop is in one place in every state.
LEMMA LoopInvHolds == Spec => []LoopInv
  BY InitLoops, StepLoopInv, PTL DEF Spec

(* Backpressure reaches the source: whatever the source, the sink, the     *)
(* signal and the program do, at most a high water mark of the chunks that *)
(* the pipe wrote is queued in the sink.  pipeStep waits for writer.ready  *)
(* before it reads, and reads, writes and steps again in microtasks of     *)
(* their own; the loop is never in two of these places at once, and the    *)
(* room it found when it stepped is still there when it writes.            *)
THEOREM BackpressureHolds == Spec => []Backpressure
<1>1. LoopInv => Backpressure
  <2>1. LoopInv => Level(dest)
    BY DEF LoopInv, Loops, Now
  <2> QED
    BY <2>1 DEF Level, Prompt, Backpressure, OursQueued, QueuedIn, Ours
<1> QED
  BY <1>1, LoopInvHolds, PTL

-----------------------------------------------------------------------------
(* The plan of the end of a pipe.                                          *)

\* The microtasks of the end of a pipe, and those that start it.
EndKinds == {"waited", "rest", "acted"}
SourceKinds == {"sourceClosed", "sourceErrored"}
Kinds == {"read", "chunk", "next", "written", "part", "destErrored"} \cup EndKinds \cup SourceKinds
Actions == {"abort", "cancel", "close", "signal"}

\* What a microtask is of.
Sound(j) ==
  /\ j.kind \in Kinds
  /\ j.kind = "written" => j.arg # NoWrite
  /\ j.kind \in RoomKinds => ~ (j.hops > 0)

\* A microtask that uses the reader or the writer.
Alive(j) == j.kind = "read" \/ (j.kind = "chunk" /\ j.arg \in Ours)

\* Such microtasks in a queue, and that they come before the end of the action.
Live(q) == \E i \in 1 .. Len(q) : Alive(q[i])
Behind(q) == \A i, j \in 1 .. Len(q) : q[i].kind = "acted" /\ Alive(q[j]) => j < i

\* The end is under way.
Ending(s) == Has(s.jobs, EndKinds) \/ s.pipe.waitsOn # NoWrite \/ s.pipe.parts # {}

\* The end of the pipe is in one place: a wait for a write, a microtask or an action of
\* the streams.  It comes after every use of the reader and the writer.
Plan(s) ==
  /\ s.pipe.asserts = TRUE /\ s.pipe.options \subseteq {"preventClose"}
  /\ \A i \in 1 .. Len(s.jobs) : Sound(s.jobs[i])
  /\ Single(s.jobs, EndKinds)
  /\ s.pipe.waitsOn # NoWrite => ~ Has(s.jobs, EndKinds) /\ s.pipe.parts = {}
  /\ s.pipe.parts # {} => ~ Has(s.jobs, EndKinds)
  /\ Ending(s) => s.pipe.lock = "held" /\ s.pipe.shuttingDown
  /\ s.pipe.shuttingDown => s.pipe.action \in Actions
  /\ s.pipe.lock = "released" => s.pipe.shuttingDown
  /\ Behind(s.jobs)
  /\ s.pipe.lock # "held" => ~ Live(s.jobs)
  /\ s.pipe.lock = "idle" => ~ Has(s.jobs, SourceKinds \cup {"destErrored"})
  /\ Has(s.jobs, {"part"}) => s.pipe.action = "signal" /\ s.pipe.shuttingDown

\* What the plan depends on in the closure.
Steady(t, s) ==
  /\ t.pipe.lock = s.pipe.lock /\ t.pipe.shuttingDown = s.pipe.shuttingDown
  /\ t.pipe.action = s.pipe.action /\ t.pipe.waitsOn = s.pipe.waitsOn
  /\ t.pipe.asserts = s.pipe.asserts /\ t.pipe.options = s.pipe.options

\* A microtask more.
LEMMA LongerPlan ==
  ASSUME NEW q, Line(q), NEW j
  PROVE  /\ Live(Append(q, j)) => Live(q) \/ Alive(j)
         /\ (\A i \in 1 .. Len(q) : Sound(q[i])) /\ Sound(j) =>
              \A i \in 1 .. Len(Append(q, j)) : Sound(Append(q, j)[i])
         /\ Behind(q) /\ (Alive(j) => ~ Has(q, {"acted"})) => Behind(Append(q, j))
<1> DEFINE t == Append(q, j)
           n == Len(q)
<1>1. /\ Len(t) = n + 1 /\ n \in Nat /\ t[n + 1] = j /\ \A i \in 1 .. n : t[i] = q[i]
  BY LongerLine
<1>2. \A i \in 1 .. n + 1 : i \in 1 .. n \/ i = n + 1
  BY <1>1
<1> HIDE DEF t, n
<1>3. Live(t) => Live(q) \/ Alive(j)
  BY <1>1, <1>2 DEF Live, n
<1>4. (\A i \in 1 .. n : Sound(q[i])) /\ Sound(j) => \A i \in 1 .. Len(t) : Sound(t[i])
  BY <1>1, <1>2
<1>5. ASSUME Behind(q), Alive(j) => ~ Has(q, {"acted"})
      PROVE  Behind(t)
  <2>1. SUFFICES ASSUME NEW i \in 1 .. n + 1, NEW k \in 1 .. n + 1, t[i].kind = "acted", Alive(t[k])
                 PROVE  k < i
    BY <1>1 DEF Behind
  <2>2. CASE i \in 1 .. n /\ k \in 1 .. n
    BY <1>1, <1>5, <2>1, <2>2 DEF Behind, n
  <2>3. CASE k = n + 1 /\ i \in 1 .. n
    BY <1>1, <1>5, <2>1, <2>3 DEF Has, n
  <2>4. CASE i = n + 1 /\ k = n + 1
    BY <1>1, <2>1, <2>4 DEF Alive
  <2>5. CASE i = n + 1 /\ k \in 1 .. n
    BY <1>1, <2>5
  <2> QED
    BY <1>2, <2>2, <2>3, <2>4, <2>5
<1> QED
  BY <1>3, <1>4, <1>5 DEF t, n

\* The first microtask is taken out.
LEMMA ShorterPlan ==
  ASSUME NEW q, Line(q), q # <<>>
  PROVE  /\ Live(Tail(q)) => Live(q)
         /\ Alive(Head(q)) => Live(q)
         /\ (\A i \in 1 .. Len(q) : Sound(q[i])) =>
              Sound(Head(q)) /\ \A i \in 1 .. Len(Tail(q)) : Sound(Tail(q)[i])
         /\ Behind(q) => Behind(Tail(q)) /\ (Head(q).kind = "acted" => ~ Live(Tail(q)))
<1> DEFINE t == Tail(q)
           n == Len(q)
<1>1. PICK S : q \in Seq(S)
  BY DEF Line
<1>2. n \in Nat /\ n # 0
  BY <1>1, EmptyLen
<1>3. Len(t) = n - 1
  BY <1>1, <1>2
<1>4. \A i \in 1 .. n - 1 : t[i] = q[i + 1]
  BY <1>1, <1>2
<1>5. Head(q) = q[1] /\ 1 \in 1 .. n
  BY <1>1, <1>2
<1>6. \A i \in 1 .. n - 1 : i + 1 \in 1 .. n /\ 1 < i + 1
  BY <1>2
<1> HIDE DEF t, n
<1>7. Live(t) => Live(q)
  BY <1>3, <1>4, <1>6 DEF Live, n
<1>8. Alive(Head(q)) => Live(q)
  BY <1>5 DEF Live, n
<1>9. (\A i \in 1 .. n : Sound(q[i])) => Sound(Head(q)) /\ \A i \in 1 .. Len(t) : Sound(t[i])
  BY <1>3, <1>4, <1>5, <1>6
<1>10. ASSUME Behind(q)
       PROVE  Behind(t)
  <2>1. SUFFICES ASSUME NEW i \in 1 .. n - 1, NEW k \in 1 .. n - 1, t[i].kind = "acted", Alive(t[k])
                 PROVE  k < i
    BY <1>3 DEF Behind
  <2>2. i + 1 \in 1 .. n /\ k + 1 \in 1 .. n /\ q[i + 1].kind = "acted" /\ Alive(q[k + 1])
    BY <1>4, <1>6, <2>1
  <2>3. k + 1 < i + 1
    BY <1>10, <2>2 DEF Behind, n
  <2> QED
    BY <1>2, <2>3
<1>11. ASSUME Behind(q), Head(q).kind = "acted", Live(t)
       PROVE  FALSE
  <2>1. PICK k \in 1 .. n - 1 : Alive(t[k])
    BY <1>3, <1>11 DEF Live
  <2>2. k + 1 \in 1 .. n /\ Alive(q[k + 1]) /\ 1 < k + 1
    BY <1>4, <1>6, <2>1
  <2>3. k + 1 < 1
    BY <1>5, <1>11, <2>2 DEF Behind, n
  <2> QED
    BY <2>2, <2>3
<1> QED
  BY <1>7, <1>8, <1>9, <1>10, <1>11 DEF t, n

\* The queue is the same: nothing is left to wait for, or the same.
LEMMA SamePlan ==
  ASSUME NEW s, Plan(s), NEW t, Steady(t, s), t.jobs = s.jobs,
         t.pipe.parts = s.pipe.parts \/ t.pipe.parts = {}
  PROVE  Plan(t)
  BY DEF Plan, Steady, Ending

\* A microtask is queued.
LEMMA GrowPlan ==
  ASSUME NEW s, Plan(s), Line(s.jobs), NEW t, Steady(t, s), NEW j, t.jobs = Append(s.jobs, j),
         t.pipe.parts = s.pipe.parts \/ t.pipe.parts = {}, Sound(j),
         j.kind \in EndKinds =>
           /\ t.pipe.parts = {} /\ s.pipe.waitsOn = NoWrite /\ ~ Has(s.jobs, EndKinds)
           /\ s.pipe.lock = "held" /\ s.pipe.shuttingDown,
         Alive(j) => ~ Has(s.jobs, {"acted"}) /\ s.pipe.lock = "held",
         j.kind \in SourceKinds \cup {"destErrored"} => s.pipe.lock # "idle",
         j.kind = "part" => s.pipe.action = "signal" /\ s.pipe.shuttingDown
  PROVE  Plan(t)
<1>1. \A K : Has(t.jobs, K) <=> Has(s.jobs, K) \/ j.kind \in K
  BY LongerHas
<1>2. Single(t.jobs, EndKinds)
  BY LongerHas DEF Plan
<1>3. \A i \in 1 .. Len(t.jobs) : Sound(t.jobs[i])
  BY LongerPlan DEF Plan
<1>4. Behind(t.jobs)
  BY LongerPlan DEF Plan
<1>5. s.pipe.lock # "held" => ~ Live(t.jobs)
  BY LongerPlan DEF Plan
<1>6. Ending(t) => s.pipe.lock = "held" /\ s.pipe.shuttingDown
  BY <1>1 DEF Plan, Ending, Steady
<1>7. /\ t.pipe.waitsOn # NoWrite => ~ Has(t.jobs, EndKinds) /\ t.pipe.parts = {}
      /\ t.pipe.parts # {} => ~ Has(t.jobs, EndKinds)
  BY <1>1 DEF Plan, Steady
<1>8. s.pipe.lock = "idle" => ~ Has(t.jobs, SourceKinds \cup {"destErrored"})
  BY <1>1 DEF Plan
<1>9. Has(t.jobs, {"part"}) => s.pipe.action = "signal" /\ s.pipe.shuttingDown
  BY <1>1 DEF Plan
<1> QED
  BY <1>2, <1>3, <1>4, <1>5, <1>6, <1>7, <1>8, <1>9 DEF Plan, Steady

\* A promise of the shutdown action settles.
LEMMA SettlesPlan ==
  ASSUME NEW s, Plan(s), Line(s.jobs), NEW t, Steady(t, s), NEW part, Settles(t, s, part)
  PROVE  /\ Plan(t) /\ part \in s.pipe.parts
         /\ t.pipe.parts = s.pipe.parts \/ t.pipe.parts = {}
         /\ \A K : Has(t.jobs, K) => Has(s.jobs, K) \/ "part" \in K
                                     \/ ("acted" \in K /\ s.pipe.action # "signal")
<1>1. PICK j : /\ t.jobs = Append(s.jobs, j) /\ part \in s.pipe.parts
               /\ \/ j.kind = "part" /\ t.pipe.parts = s.pipe.parts /\ s.pipe.action = "signal"
                  \/ j.kind = "acted" /\ t.pipe.parts = {} /\ s.pipe.action # "signal"
  BY DEF Settles
<1>2. Sound(j)
  BY <1>1 DEF Sound, Kinds, EndKinds, RoomKinds
<1>3. /\ s.pipe.waitsOn = NoWrite /\ ~ Has(s.jobs, EndKinds)
      /\ s.pipe.lock = "held" /\ s.pipe.shuttingDown
  BY <1>1 DEF Plan, Ending
<1>4. ~ Alive(j) /\ j.kind \notin SourceKinds \cup {"destErrored"}
  BY <1>1 DEF Alive, SourceKinds
<1>5. j.kind \in EndKinds => j.kind = "acted"
  BY <1>1 DEF EndKinds
<1>6. Plan(t)
  BY <1>1, <1>2, <1>3, <1>4, <1>5, GrowPlan
<1>7. \A K : Has(t.jobs, K) <=> Has(s.jobs, K) \/ j.kind \in K
  BY <1>1, LongerHas
<1> QED
  BY <1>1, <1>6, <1>7

\* What the plan knows of the streams: why the pipe ends, and that a close that waits for
\* chunks of the pipe is its own.
Facts(s) ==
  /\ Has(s.jobs, SourceKinds) => s.source.state # "readable"
  /\ Has(s.jobs, {"destErrored"}) => ~ Takes(s.dest)
  /\ s.pipe.action \in {"abort", "close"} => s.source.state # "readable"
  /\ s.pipe.action = "cancel" => ~ Takes(s.dest)
  /\ Stuck(s.dest) => s.pipe.action = "close" /\ s.pipe.parts = {"close"}
  /\ s.pipe.lock = "idle" => ~ HasOurs(s.dest)

\* The shutdown action has begun; then both streams have ended.
Gone(s) == s.pipe.parts # {} \/ Has(s.jobs, {"acted"}) \/ s.pipe.lock = "released"
Past(s) == s.source.state # "readable" /\ ~ Takes(s.dest)

\* What news may do to the plan: an action that settles, by one of its promises.
Heeds(t, s, T) ==
  /\ \/ t.pipe.parts = s.pipe.parts
     \/ t.pipe.parts = {} /\ \E part \in T : part \in s.pipe.parts
  /\ Has(t.jobs, {"acted"}) =>
       \/ Has(s.jobs, {"acted"})
       \/ s.pipe.action # "signal" /\ \E part \in T : part \in s.pipe.parts
  /\ Ending(t) => Ending(s)

\* The endings among the news.
EndingsOf(w) == {e[1] : e \in NewsOf(w)} \cap Endings

\* The plan after news of the writable stream.
LEMMA DestEnds ==
  ASSUME NEW s, Turn(s), Line(s.jobs), Plan(s), NEW w, w.news \in Seq(WEvents),
         s.pipe.waitsReady => s.pipe.lock = "held" /\ ~ Has(s.jobs, {"acted"}),
         ReadyTold \in NewsOf(w) => EndingsOf(w) = {}
  PROVE  LET h == DestTold(s, w.news)
         IN  /\ Turn(h) /\ Line(h.jobs) /\ Still(h, s) /\ Plan(h) /\ Heeds(h, s, EndingsOf(w))
             /\ Live(h.jobs) => Live(s.jobs) \/ s.pipe.waitsReady
             /\ Has(h.jobs, SourceKinds) => Has(s.jobs, SourceKinds)
             /\ Has(h.jobs, {"destErrored"}) =>
                  \/ Has(s.jobs, {"destErrored"})
                  \/ s.pipe.lock = "held" /\ ~ s.pipe.shuttingDown /\ ClosedTold \in NewsOf(w)
<1> DEFINE told == s.pipe.lock = "held" /\ ~ s.pipe.shuttingDown /\ ClosedTold \in NewsOf(w)
           T == EndingsOf(w)
           Good_(b) == /\ Turn(b) /\ Line(b.jobs) /\ Still(b, s) /\ Plan(b) /\ Heeds(b, s, T)
                       /\ b.pipe.waitsReady => s.pipe.waitsReady
                       /\ Live(b.jobs) => Live(s.jobs) \/ s.pipe.waitsReady
                       /\ Has(b.jobs, SourceKinds) => Has(s.jobs, SourceKinds)
                       /\ Has(b.jobs, {"destErrored"}) => Has(s.jobs, {"destErrored"}) \/ told
<1>1. PICK f : /\ f[0] = s /\ DestTold(s, w.news) = f[Len(w.news)]
               /\ \A n \in 1 .. Len(w.news) : Hears(f[n], f[n - 1], w.news[n])
  BY DestChain
<1> DEFINE m == Len(w.news)
           K == {n \in 0 .. m : Good_(f[n])}
<1>2. m \in Nat /\ \A n \in 1 .. m : w.news[n] \in WEvents /\ w.news[n] \in NewsOf(w)
  BY DEF NewsOf
<1>3. Good_(f[0])
  BY <1>1 DEF Still, Heeds
<1> HIDE DEF m, told
<1>4. ASSUME NEW a, NEW b, NEW e, Good_(a), Hears(b, a, e), e \in WEvents, e \in NewsOf(w)
      PROVE  Good_(b)
  <2>1. /\ Turn(b) /\ Still(b, s) /\ Steady(b, a)
        /\ b.pipe.waitsReady => s.pipe.waitsReady
        /\ b.pipe.waitsOn = a.pipe.waitsOn
    BY <1>4 DEF Hears, Still, Steady
  <2>2. /\ a.pipe.parts = s.pipe.parts \/ a.pipe.parts = {}
        /\ a.pipe.action = s.pipe.action /\ a.pipe.lock = s.pipe.lock
        /\ a.pipe.shuttingDown = s.pipe.shuttingDown
    BY <1>4 DEF Heeds, Still
  <2>3. CASE Silent(b, a)
    <3>1. Plan(b)
      BY <1>4, <2>1, <2>3, SamePlan DEF Silent
    <3>2. Heeds(b, s, T)
      BY <1>4, <2>1, <2>3 DEF Heeds, Silent, Ending
    <3> QED
      BY <1>4, <2>1, <2>3, <3>1, <3>2 DEF Silent
  <2>4. CASE e[1] \in Endings /\ Settles(b, a, e[1])
    <3>1. /\ Plan(b) /\ e[1] \in a.pipe.parts
          /\ b.pipe.parts = a.pipe.parts \/ b.pipe.parts = {}
          /\ \A K_ : Has(b.jobs, K_) => Has(a.jobs, K_) \/ "part" \in K_
                                       \/ ("acted" \in K_ /\ a.pipe.action # "signal")
      BY <1>4, <2>1, <2>4, SettlesPlan
    <3>2. e[1] \in T /\ e[1] \in s.pipe.parts
      BY <1>4, <2>2, <2>4, <3>1 DEF EndingsOf
    <3>3. Line(b.jobs)
      BY <1>4, <2>4, LongerLine DEF Settles
    <3>4. Has(b.jobs, {"acted"}) => Has(a.jobs, {"acted"}) \/ a.pipe.action # "signal"
      BY <3>1
    <3>5. Heeds(b, s, T)
      BY <1>4, <2>2, <3>1, <3>2, <3>4 DEF Heeds, Ending
    <3>0. Live(b.jobs) => Live(a.jobs)
      <4>1. PICK j : b.jobs = Append(a.jobs, j) /\ j.kind \in {"part", "acted"}
        BY <2>4 DEF Settles
      <4>2. ~ Alive(j)
        BY <4>1 DEF Alive
      <4> QED
        BY <1>4, <4>1, <4>2, LongerPlan
    <3>6. Has(b.jobs, SourceKinds) => Has(a.jobs, SourceKinds)
      BY <3>1 DEF SourceKinds
    <3>7. Has(b.jobs, {"destErrored"}) => Has(a.jobs, {"destErrored"})
      BY <3>1
    <3> QED
      BY <1>4, <2>1, <3>0, <3>1, <3>3, <3>5, <3>6, <3>7
  <2>5. CASE \E j : /\ b.jobs = Append(a.jobs, j) /\ b.pipe.parts = a.pipe.parts
                    /\ \/ j.kind = "written" /\ j.arg \in Ours /\ e[1] = "write"
                       \/ j.kind = "read" /\ j.hops = 0 /\ a.pipe.waitsReady /\ e = ReadyTold
                       \/ /\ j.kind = "destErrored" /\ e = ClosedTold
                          /\ a.pipe.lock = "held" /\ ~ a.pipe.shuttingDown
    <3>1. PICK j : /\ b.jobs = Append(a.jobs, j) /\ b.pipe.parts = a.pipe.parts
                   /\ \/ j.kind = "written" /\ j.arg \in Ours /\ e[1] = "write"
                      \/ j.kind = "read" /\ j.hops = 0 /\ a.pipe.waitsReady /\ e = ReadyTold
                      \/ /\ j.kind = "destErrored" /\ e = ClosedTold
                         /\ a.pipe.lock = "held" /\ ~ a.pipe.shuttingDown
      BY <2>5
    <3>2. NoWrite \notin Ours
      BY ChunksAssumption DEF Ours
    <3>3. Sound(j)
      BY <3>1, <3>2 DEF Sound, Kinds, RoomKinds
    <3>4. j.kind \notin EndKinds \cup SourceKinds \cup {"part", "acted"}
      BY <3>1 DEF EndKinds, SourceKinds
    <3>5. Alive(j) => ~ Has(a.jobs, {"acted"}) /\ a.pipe.lock = "held"
      <4>1. Alive(j) => a.pipe.waitsReady /\ ReadyTold \in NewsOf(w)
        BY <1>4, <3>1 DEF Alive
      <4> QED
        BY <1>4, <2>2, <4>1 DEF Heeds
    <3>6. j.kind = "destErrored" => a.pipe.lock # "idle"
      BY <3>1
    <3>7. Plan(b)
      BY <1>4, <2>1, <3>1, <3>3, <3>4, <3>5, <3>6, GrowPlan
    <3>8. /\ Line(b.jobs) /\ \A K_ : Has(b.jobs, K_) <=> Has(a.jobs, K_) \/ j.kind \in K_
      BY <1>4, <3>1, LongerLine, LongerHas
    <3>9. Heeds(b, s, T)
      BY <1>4, <2>1, <3>1, <3>4, <3>8 DEF Heeds, Ending
    <3>11. Live(b.jobs) => Live(a.jobs) \/ s.pipe.waitsReady
      <4>1. Alive(j) => a.pipe.waitsReady
        BY <3>1 DEF Alive
      <4>2. Live(b.jobs) => Live(a.jobs) \/ Alive(j)
        BY <1>4, <3>1, LongerPlan
      <4> QED
        BY <1>4, <4>1, <4>2
    <3>10. j.kind = "destErrored" => told
      BY <1>4, <2>2, <3>1 DEF told
    <3> QED
      BY <1>4, <2>1, <3>4, <3>7, <3>8, <3>9, <3>10, <3>11
  <2> QED
    BY <1>4, <2>3, <2>4, <2>5 DEF Hears
<1> HIDE DEF Good_
<1>5. Good_(f[m])
  <2>1. 0 \in K /\ m \in 0 .. m
    BY <1>2, <1>3
  <2>2. ASSUME NEW n \in 0 .. m, n < m, n \in K
        PROVE  n + 1 \in K
    <3>1. n + 1 \in 1 .. m /\ (n + 1) - 1 = n /\ n + 1 \in 0 .. m
      BY <1>2, <2>2
    <3>2. Hears(f[n + 1], f[n], w.news[n + 1])
      BY <1>1, <3>1 DEF m
    <3> QED
      BY <1>2, <1>4, <2>2, <3>1, <3>2
  <2>3. \A n \in K : Good_(f[n])
    OBVIOUS
  <2> HIDE DEF K
  <2>4. m \in K
    BY <1>2, <2>1, <2>2, Upto
  <2> QED
    BY <2>3, <2>4
<1> QED
  BY <1>1, <1>5 DEF m, told, Good_

-----------------------------------------------------------------------------
(* The streams change, and the plan stays true of them.                    *)

\* News do not begin the shutdown action.
LEMMA ActedFirst ==
  ASSUME NEW s, NEW t, NEW T, Heeds(t, s, T), t.pipe.lock = s.pipe.lock
  PROVE  Gone(t) => Gone(s)
  BY DEF Heeds, Gone

\* The writable stream changes: the plan stays.
LEMMA WithDestPlan ==
  ASSUME NEW s, Loops(s), Plan(s), NEW w, WInv(w), Told(w),
         Has(s.jobs, {"acted"}) => ~ Takes(s.dest)
  PROVE  LET t == WithDest(s, w)
         IN  /\ Turn(t) /\ Line(t.jobs) /\ Plan(t) /\ Heeds(t, s, EndingsOf(w))
             /\ Live(t.jobs) => Live(s.jobs) \/ Takes(s.dest)
             /\ Has(t.jobs, SourceKinds) => Has(s.jobs, SourceKinds)
             /\ Has(t.jobs, {"destErrored"}) =>
                  \/ Has(s.jobs, {"destErrored"})
                  \/ s.pipe.lock = "held" /\ ~ s.pipe.shuttingDown /\ ClosedTold \in NewsOf(w)
             /\ t.source = s.source /\ Bare(t.dest, w) /\ t.dest = [w EXCEPT !.news = <<>>]
             /\ Still(t, [s EXCEPT !.dest = t.dest]) /\ Steady(t, s)
<1> DEFINE v == [w EXCEPT !.news = <<>>]
           a == [s EXCEPT !.dest = v]
           h == DestTold(s, w.news)
           t == WithDest(s, w)
<1>1. Bare(v, w)
  BY Fields DEF Bare, WInv, Shape
<1>2. t = Heard(a, h)
  BY DEF WithDest
<1> HIDE DEF v
<1>3. Turn(a) /\ a.source = s.source /\ a.dest = v /\ a.pipe = s.pipe
  BY DEF Loops, Turn
<1> HIDE DEF a, t
<1>4. s.pipe.waitsReady => s.pipe.lock = "held" /\ ~ Has(s.jobs, {"acted"}) /\ Takes(s.dest)
  BY DEF Loops, Places, Level, Prompt
<1>5. ReadyTold \in NewsOf(w) => EndingsOf(w) = {}
  BY DEF Told, EndingsOf, Endings
<1>6. w.news \in Seq(WEvents) /\ Turn(s) /\ Line(s.jobs)
  BY DEF Told, Loops
<1>7. /\ Turn(h) /\ Line(h.jobs) /\ Still(h, s) /\ Plan(h) /\ Heeds(h, s, EndingsOf(w))
      /\ Live(h.jobs) => Live(s.jobs) \/ s.pipe.waitsReady
      /\ Has(h.jobs, SourceKinds) => Has(s.jobs, SourceKinds)
      /\ Has(h.jobs, {"destErrored"}) =>
           \/ Has(s.jobs, {"destErrored"})
           \/ s.pipe.lock = "held" /\ ~ s.pipe.shuttingDown /\ ClosedTold \in NewsOf(w)
  BY <1>4, <1>5, <1>6, DestEnds
<1> HIDE DEF h
<1>8. /\ DOMAIN t = DOMAIN a /\ DOMAIN t.pipe = DOMAIN a.pipe
      /\ Still(t, a) /\ t.jobs = h.jobs
      /\ t.pipe.parts = h.pipe.parts /\ t.pipe.waitsReady = h.pipe.waitsReady
  BY <1>2, <1>3, HeardIs
<1>9. Steady(t, h) /\ Steady(t, s) /\ t.source = s.source /\ t.dest = v /\ Turn(t)
  BY <1>3, <1>7, <1>8 DEF Steady, Still, Turn
<1>10. Plan(t)
  BY <1>7, <1>8, <1>9, SamePlan
<1>11. Heeds(t, s, EndingsOf(w))
  BY <1>7, <1>8, <1>9 DEF Heeds, Ending, Steady, Still
<1>12. Still(t, [s EXCEPT !.dest = t.dest])
  BY <1>8, <1>9 DEF a
<1> QED
  BY <1>1, <1>4, <1>7, <1>8, <1>9, <1>10, <1>11, <1>12 DEF t, v

\* The writable stream changes, and the plan stays true of it.
LEMMA WithDestEnds ==
  ASSUME NEW s, Loops(s), Plan(s), Facts(s), NEW w, WInv(w), Level(w), News(w),
         Has(s.jobs, {"acted"}) => ~ Takes(s.dest),
         Takes(w) => Takes(s.dest),
         Stuck(w) => s.pipe.action = "close" /\ s.pipe.parts = {"close"},
         s.pipe.lock = "idle" => ~ HasOurs(w),
         s.pipe.lock = "held" /\ ~ s.pipe.shuttingDown => w.writer
  PROVE  LET t == WithDest(s, w)
         IN  /\ Plan(t) /\ Facts(t) /\ (Gone(t) => Gone(s)) /\ Steady(t, s)
             /\ Heeds(t, s, EndingsOf(w)) /\ (Live(t.jobs) => Live(s.jobs) \/ Takes(s.dest))
             /\ t.source = s.source /\ Bare(t.dest, w) /\ t.dest = [w EXCEPT !.news = <<>>]
<1> DEFINE t == WithDest(s, w)
<1>1. /\ Turn(t) /\ Line(t.jobs) /\ Plan(t) /\ Heeds(t, s, EndingsOf(w))
      /\ Live(t.jobs) => Live(s.jobs) \/ Takes(s.dest)
      /\ Has(t.jobs, SourceKinds) => Has(s.jobs, SourceKinds)
      /\ Has(t.jobs, {"destErrored"}) =>
           \/ Has(s.jobs, {"destErrored"})
           \/ s.pipe.lock = "held" /\ ~ s.pipe.shuttingDown /\ ClosedTold \in NewsOf(w)
      /\ t.source = s.source /\ Bare(t.dest, w) /\ t.dest = [w EXCEPT !.news = <<>>]
      /\ Steady(t, s)
  BY WithDestPlan DEF News
<1> HIDE DEF t
<1>2. /\ Takes(t.dest) <=> Takes(w)
      /\ Stuck(t.dest) <=> Stuck(w)
      /\ HasOurs(t.dest) <=> HasOurs(w)
  BY <1>1, BareSame
<1>3. t.pipe.action = s.pipe.action /\ t.pipe.lock = s.pipe.lock
  BY <1>1 DEF Steady
<1>4. Has(t.jobs, {"destErrored"}) => ~ Takes(t.dest)
  <2>1. CASE Has(s.jobs, {"destErrored"})
    BY <1>2, <2>1 DEF Facts
  <2>2. CASE s.pipe.lock = "held" /\ ~ s.pipe.shuttingDown /\ ClosedTold \in NewsOf(w)
    <3>1. w.state = "errored"
      BY <2>2 DEF News, Told
    <3> QED
      BY <1>2, <3>1 DEF Takes
  <2> QED
    BY <1>1, <2>1, <2>2
<1>5. Stuck(t.dest) => t.pipe.action = "close" /\ t.pipe.parts = {"close"}
  <2>1. SUFFICES ASSUME Stuck(w)
                 PROVE  t.pipe.action = "close" /\ t.pipe.parts = {"close"}
    BY <1>2
  <2>2. "close" \notin EndingsOf(w)
    BY <2>1 DEF News, EndingsOf
  <2>3. t.pipe.parts = s.pipe.parts
    BY <1>1, <2>1, <2>2 DEF Heeds
  <2> QED
    BY <1>3, <2>1, <2>3
<1>6. Facts(t)
  BY <1>1, <1>2, <1>3, <1>4, <1>5 DEF Facts
<1>7. Gone(t) => Gone(s)
  BY <1>1, <1>3, ActedFirst
<1> QED
  BY <1>1, <1>6, <1>7 DEF t

\* The plan after news of the readable stream.
LEMMA SourceEnds ==
  ASSUME NEW s, Turn(s), Line(s.jobs), Plan(s), NEW v, NEW r, NEW isRead, Serves(v, r, isRead),
         isRead \/ r.readRequests # 0 => s.pipe.lock = "held",
         Has(s.jobs, {"acted"}) => r.state # "readable"
  PROVE  LET h == SourceTold(s, v.news)
         IN  /\ Turn(h) /\ Line(h.jobs) /\ Still(h, s) /\ Plan(h) /\ Heeds(h, s, {"cancel"})
             /\ h.pipe.waitsReady = s.pipe.waitsReady
             /\ Live(h.jobs) => Live(s.jobs) \/ r.state = "readable"
             /\ Has(h.jobs, SourceKinds) =>
                  \/ Has(s.jobs, SourceKinds)
                  \/ s.pipe.lock = "held" /\ ~ s.pipe.shuttingDown
                     /\ (v.state # "readable" \/ ~ v.reader)
             /\ Has(h.jobs, {"destErrored"}) => Has(s.jobs, {"destErrored"})
<1> DEFINE told == s.pipe.lock = "held" /\ ~ s.pipe.shuttingDown
                   /\ (v.state # "readable" \/ ~ v.reader)
           T == {"cancel"}
           Good_(b) == /\ Turn(b) /\ Line(b.jobs) /\ Still(b, s) /\ Plan(b) /\ Heeds(b, s, T)
                       /\ b.pipe.waitsReady = s.pipe.waitsReady
                       /\ Live(b.jobs) => Live(s.jobs) \/ r.state = "readable"
                       /\ Has(b.jobs, SourceKinds) => Has(s.jobs, SourceKinds) \/ told
                       /\ Has(b.jobs, {"destErrored"}) => Has(s.jobs, {"destErrored"})
           h == SourceTold(s, v.news)
<1>1. Good_(s)
  BY DEF Still, Heeds
<1>2. ASSUME NEW a, NEW b, NEW e, Good_(a), HearsFrom(b, a, e), e \in NewsOf(v),
             e[1] = "read" => ~ (Has(a.jobs, {"acted"}) /\ ~ Has(s.jobs, {"acted"}))
      PROVE  Good_(b)
  <2>1. /\ Turn(b) /\ Still(b, s) /\ Steady(b, a) /\ b.pipe.waitsReady = s.pipe.waitsReady
        /\ b.pipe.waitsOn = a.pipe.waitsOn
    BY <1>2 DEF HearsFrom, Still, Steady
  <2>2. /\ a.pipe.parts = s.pipe.parts \/ a.pipe.parts = {}
        /\ a.pipe.action = s.pipe.action /\ a.pipe.lock = s.pipe.lock
        /\ a.pipe.shuttingDown = s.pipe.shuttingDown
    BY <1>2 DEF Heeds, Still
  <2>3. CASE Silent(b, a)
    <3>1. Plan(b)
      BY <1>2, <2>1, <2>3, SamePlan DEF Silent
    <3>2. Heeds(b, s, T)
      BY <1>2, <2>1, <2>3 DEF Heeds, Silent, Ending
    <3> QED
      BY <1>2, <2>1, <2>3, <3>1, <3>2 DEF Silent
  <2>4. CASE Settles(b, a, "cancel")
    <3>1. /\ Plan(b) /\ "cancel" \in a.pipe.parts
          /\ b.pipe.parts = a.pipe.parts \/ b.pipe.parts = {}
          /\ \A K_ : Has(b.jobs, K_) => Has(a.jobs, K_) \/ "part" \in K_
                                       \/ ("acted" \in K_ /\ a.pipe.action # "signal")
      BY <1>2, <2>1, <2>4, SettlesPlan
    <3>2. "cancel" \in s.pipe.parts
      BY <2>2, <3>1
    <3>3. Line(b.jobs)
      BY <1>2, <2>4, LongerLine DEF Settles
    <3>4. Has(b.jobs, {"acted"}) => Has(a.jobs, {"acted"}) \/ a.pipe.action # "signal"
      BY <3>1
    <3>5. Heeds(b, s, T)
      BY <1>2, <2>2, <3>1, <3>2, <3>4 DEF Heeds, Ending
    <3>0. Live(b.jobs) => Live(a.jobs)
      <4>1. PICK j : b.jobs = Append(a.jobs, j) /\ j.kind \in {"part", "acted"}
        BY <2>4 DEF Settles
      <4>2. ~ Alive(j)
        BY <4>1 DEF Alive
      <4> QED
        BY <1>2, <4>1, <4>2, LongerPlan
    <3>6. Has(b.jobs, SourceKinds) => Has(a.jobs, SourceKinds)
      BY <3>1 DEF SourceKinds
    <3>7. Has(b.jobs, {"destErrored"}) => Has(a.jobs, {"destErrored"})
      BY <3>1
    <3> QED
      BY <1>2, <2>1, <3>0, <3>1, <3>3, <3>5, <3>6, <3>7
  <2>5. CASE \E j : /\ b.jobs = Append(a.jobs, j) /\ b.pipe.parts = a.pipe.parts
                    /\ \/ j.kind = "chunk" /\ j.arg = e[2] /\ j.hops = 0 /\ e[1] = "read"
                       \/ /\ j.kind \in {"sourceClosed", "sourceErrored"} /\ e[1] = "closed"
                          /\ a.pipe.lock = "held" /\ ~ a.pipe.shuttingDown
    <3>1. PICK j : /\ b.jobs = Append(a.jobs, j) /\ b.pipe.parts = a.pipe.parts
                   /\ \/ j.kind = "chunk" /\ j.arg = e[2] /\ j.hops = 0 /\ e[1] = "read"
                      \/ /\ j.kind \in {"sourceClosed", "sourceErrored"} /\ e[1] = "closed"
                         /\ a.pipe.lock = "held" /\ ~ a.pipe.shuttingDown
      BY <2>5
    <3>2. Sound(j)
      BY <3>1 DEF Sound, Kinds, SourceKinds, RoomKinds
    <3>3. j.kind \notin EndKinds \cup {"destErrored", "part", "acted"}
      BY <3>1 DEF EndKinds
    <3>11. Alive(j) => e[1] = "read" /\ r.state = "readable" /\ s.pipe.lock = "held"
      <4>1. Alive(j) => e[1] = "read" /\ e[2] \in Ours
        BY <3>1 DEF Alive
      <4>2. e[1] = "read" => Reading(v)
        BY <1>2 DEF Reading
      <4> QED
        BY <1>2, <4>1, <4>2 DEF Serves
    <3>4. Alive(j) => ~ Has(a.jobs, {"acted"}) /\ a.pipe.lock = "held"
      BY <1>2, <2>2, <3>11
    <3>5. j.kind \in SourceKinds => told
      <4>1. j.kind \in SourceKinds =>
              e[1] = "closed" /\ s.pipe.lock = "held" /\ ~ s.pipe.shuttingDown
        BY <2>2, <3>1 DEF SourceKinds
      <4> QED
        BY <1>2, <4>1 DEF Serves, told
    <3>6. j.kind \in SourceKinds \cup {"destErrored"} => a.pipe.lock # "idle"
      BY <2>2, <3>3, <3>5 DEF told
    <3>7. Plan(b)
      BY <1>2, <2>1, <3>1, <3>2, <3>3, <3>4, <3>6, GrowPlan
    <3>8. /\ Line(b.jobs) /\ \A K_ : Has(b.jobs, K_) <=> Has(a.jobs, K_) \/ j.kind \in K_
      BY <1>2, <3>1, LongerLine, LongerHas
    <3>9. Heeds(b, s, T)
      BY <1>2, <2>1, <3>1, <3>3, <3>8 DEF Heeds, Ending
    <3>10. Live(b.jobs) => Live(a.jobs) \/ r.state = "readable"
      <4>1. Live(b.jobs) => Live(a.jobs) \/ Alive(j)
        BY <1>2, <3>1, LongerPlan
      <4> QED
        BY <3>11, <4>1
    <3> QED
      BY <1>2, <2>1, <3>3, <3>5, <3>7, <3>8, <3>9, <3>10
  <2> QED
    BY <1>2, <2>3, <2>4, <2>5 DEF HearsFrom
<1> HIDE DEF Good_, told
<1>3. \/ v.news = <<>>
      \/ \E e : v.news = <<e>> /\ e[1] \in RKinds
      \/ \E d, e : /\ v.news = <<d, e>>
                   /\ <<d[1], e[1]>> \in {<<"read", "closed">>, <<"closed", "read">>}
  BY DEF Serves
<1>4. CASE v.news = <<>>
  <2>1. h = s
    BY <1>4, SourceChain
  <2> QED
    BY <1>1, <2>1 DEF Good_, told
<1>5. CASE \E e : v.news = <<e>> /\ e[1] \in RKinds
  <2>1. PICK e : v.news = <<e>> /\ e[1] \in RKinds
    BY <1>5
  <2>2. HearsFrom(h, s, e)
    BY <2>1, SourceChain
  <2>3. e \in NewsOf(v)
    BY <2>1, OneNews
  <2> HIDE DEF h
  <2>4. Good_(h)
    BY <1>1, <1>2, <2>2, <2>3
  <2> QED
    BY <2>4 DEF h, Good_, told
<1>6. CASE \E d, e : /\ v.news = <<d, e>>
                    /\ <<d[1], e[1]>> \in {<<"read", "closed">>, <<"closed", "read">>}
  <2>1. PICK d, e : v.news = <<d, e>>
                    /\ <<d[1], e[1]>> \in {<<"read", "closed">>, <<"closed", "read">>}
    BY <1>6
  <2>2. \/ d[1] = "read" /\ e[1] = "closed"
        \/ d[1] = "closed" /\ e[1] = "read"
    BY <2>1
  <2>3. d[1] \in RKinds /\ e[1] \in RKinds
    BY <2>2 DEF RKinds
  <2>4. PICK u : HearsFrom(u, s, d) /\ HearsFrom(h, u, e)
    BY <2>1, <2>3, SourceChain
  <2>5. d \in NewsOf(v) /\ e \in NewsOf(v)
    BY <2>1, TwoNews
  <2> HIDE DEF h
  <2>6. Good_(u)
    BY <1>1, <1>2, <2>4, <2>5
  <2>7. Has(u.jobs, {"acted"}) => Has(s.jobs, {"acted"})
    <3>1. u.jobs = s.jobs \/ \E j : u.jobs = Append(s.jobs, j) /\ j.kind # "acted"
      BY <2>2, <2>4 DEF HearsFrom, Silent
    <3> QED
      BY <3>1, LongerHas
  <2>8. Good_(h)
    BY <1>2, <2>4, <2>5, <2>6, <2>7
  <2> QED
    BY <2>8 DEF h, Good_, told
<1> QED
  BY <1>3, <1>4, <1>5, <1>6

\* The readable stream changes, and the plan stays true of it.
LEMMA WithSourceEnds ==
  ASSUME NEW s, Loops(s), Plan(s), Facts(s), NEW v, RInv(v), NEW isRead,
         Serves(v, s.source, isRead), isRead => s.pipe.lock = "held",
         Has(s.jobs, {"acted"}) => s.source.state # "readable",
         s.pipe.lock = "held" /\ ~ s.pipe.shuttingDown => v.reader
  PROVE  LET t == WithSource(s, v)
         IN  /\ Plan(t) /\ Facts(t) /\ (Gone(t) => Gone(s)) /\ Steady(t, s)
             /\ Heeds(t, s, {"cancel"})
             /\ Live(t.jobs) => Live(s.jobs) \/ s.source.state = "readable"
             /\ t.dest = s.dest /\ t.source.state = v.state
<1> DEFINE x == [v EXCEPT !.news = <<>>]
           a == [s EXCEPT !.source = x]
           h == SourceTold(s, v.news)
           t == WithSource(s, v)
<1>1. x.state = v.state
  BY ReadFields DEF RInv
<1>2. t = Heard(a, h)
  BY DEF WithSource
<1> HIDE DEF x
<1>3. Turn(a) /\ a.source = x /\ a.dest = s.dest /\ a.pipe = s.pipe
  BY DEF Loops, Turn
<1> HIDE DEF a, t
<1>4. isRead \/ s.source.readRequests # 0 => s.pipe.lock = "held"
  BY DEF Loops, Places, Asked
<1>5. Turn(s) /\ Line(s.jobs)
  BY DEF Loops
<1>6. /\ Turn(h) /\ Line(h.jobs) /\ Still(h, s) /\ Plan(h) /\ Heeds(h, s, {"cancel"})
      /\ Live(h.jobs) => Live(s.jobs) \/ s.source.state = "readable"
      /\ Has(h.jobs, SourceKinds) =>
           \/ Has(s.jobs, SourceKinds)
           \/ s.pipe.lock = "held" /\ ~ s.pipe.shuttingDown
              /\ (v.state # "readable" \/ ~ v.reader)
      /\ Has(h.jobs, {"destErrored"}) => Has(s.jobs, {"destErrored"})
  BY <1>4, <1>5, SourceEnds
<1> HIDE DEF h
<1>7. /\ DOMAIN t = DOMAIN a /\ DOMAIN t.pipe = DOMAIN a.pipe
      /\ Still(t, a) /\ t.jobs = h.jobs
      /\ t.pipe.parts = h.pipe.parts /\ t.pipe.waitsReady = h.pipe.waitsReady
  BY <1>2, <1>3, HeardIs
<1>8. Steady(t, h) /\ Steady(t, s) /\ t.source = x /\ t.dest = s.dest
  BY <1>3, <1>6, <1>7 DEF Steady, Still
<1>9. Plan(t)
  BY <1>6, <1>7, <1>8, SamePlan
<1>10. Heeds(t, s, {"cancel"})
  BY <1>6, <1>7, <1>8 DEF Heeds, Ending, Steady, Still
<1>11. s.source.state # "readable" => t.source.state # "readable"
  BY <1>1, <1>8 DEF Serves
<1>12. Has(t.jobs, SourceKinds) => t.source.state # "readable"
  BY <1>1, <1>6, <1>7, <1>8, <1>11 DEF Facts
<1>13. Stuck(t.dest) => t.pipe.action = "close" /\ t.pipe.parts = {"close"}
  BY <1>8, <1>10 DEF Facts, Heeds, Steady
<1>14. Facts(t)
  BY <1>6, <1>7, <1>8, <1>11, <1>12, <1>13 DEF Facts, Steady
<1>15. Gone(t) => Gone(s)
  BY <1>8, <1>10, ActedFirst DEF Steady
<1> QED
  BY <1>1, <1>6, <1>7, <1>8, <1>9, <1>10, <1>14, <1>15 DEF t

\* A promise of the shutdown action settles.
LEMMA PartEnds ==
  ASSUME NEW s, Loops(s), Plan(s), Facts(s), NEW part, part # "close", NEW how, NEW hops
  PROVE  LET t == PartSettled(s, part, how, hops)
         IN  /\ Plan(t) /\ Facts(t) /\ (Gone(t) => Gone(s)) /\ Steady(t, s)
             /\ Heeds(t, s, {part}) /\ t.source = s.source /\ t.dest = s.dest
<1> DEFINE t == PartSettled(s, part, how, hops)
<1>1. /\ Turn(t) /\ Still(t, s)
      /\ Silent(t, s) \/ Settles(t, s, part)
  BY PartIs DEF Loops
<1> HIDE DEF t
<1>2. Steady(t, s) /\ t.source = s.source /\ t.dest = s.dest /\ t.pipe.waitsOn = s.pipe.waitsOn
  BY <1>1 DEF Still, Steady
<1>3. /\ Plan(t) /\ Heeds(t, s, {part})
      /\ Has(t.jobs, SourceKinds) => Has(s.jobs, SourceKinds)
      /\ Has(t.jobs, {"destErrored"}) => Has(s.jobs, {"destErrored"})
  <2>1. CASE Silent(t, s)
    <3>1. Plan(t)
      BY <1>2, <2>1, SamePlan DEF Silent
    <3> QED
      BY <1>2, <2>1, <3>1 DEF Silent, Heeds, Ending
  <2>2. CASE Settles(t, s, part)
    <3>1. /\ Plan(t) /\ part \in s.pipe.parts
          /\ t.pipe.parts = s.pipe.parts \/ t.pipe.parts = {}
          /\ \A K : Has(t.jobs, K) => Has(s.jobs, K) \/ "part" \in K
                                      \/ ("acted" \in K /\ s.pipe.action # "signal")
      BY <1>2, <2>2, SettlesPlan DEF Loops
    <3>2. Heeds(t, s, {part})
      BY <3>1 DEF Heeds, Ending
    <3> QED
      BY <3>1, <3>2 DEF SourceKinds
  <2> QED
    BY <1>1, <2>1, <2>2
<1>4. Stuck(t.dest) => t.pipe.action = "close" /\ t.pipe.parts = {"close"}
  BY <1>2, <1>3 DEF Facts, Heeds, Steady
<1>5. Facts(t)
  BY <1>2, <1>3, <1>4 DEF Facts, Steady
<1>6. Gone(t) => Gone(s)
  BY <1>2, <1>3, ActedFirst DEF Steady
<1> QED
  BY <1>2, <1>3, <1>5, <1>6 DEF t

\* Nothing waits for the end of the pipe; nothing has happened to the streams.
LEMMA FactsStay ==
  ASSUME NEW s, Facts(s), NEW t, t.source = s.source, t.dest = s.dest,
         t.pipe.action = s.pipe.action, t.pipe.parts = s.pipe.parts, t.pipe.lock = s.pipe.lock,
         Has(t.jobs, SourceKinds) => Has(s.jobs, SourceKinds),
         Has(t.jobs, {"destErrored"}) => Has(s.jobs, {"destErrored"})
  PROVE  Facts(t)
  BY DEF Facts

\* The closure changes, and not in what the plan is about.
LEMMA AsideEnds ==
  ASSUME NEW s, Plan(s), Facts(s), NEW t, Steady(t, s), t.jobs = s.jobs,
         t.pipe.parts = s.pipe.parts, t.source = s.source, t.dest = s.dest
  PROVE  Plan(t) /\ Facts(t) /\ (Gone(t) <=> Gone(s)) /\ (Past(t) <=> Past(s))
<1>1. Plan(t)
  BY SamePlan
<1>2. Facts(t)
  BY DEF Facts, Steady
<1> QED
  BY <1>1, <1>2 DEF Gone, Past, Steady

\* A microtask is queued, which is not about a stream that has ended.
LEMMA QueueEnds ==
  ASSUME NEW s, Loops(s), Plan(s), Facts(s), NEW kind, NEW arg, NEW hops,
         Sound([kind |-> kind, arg |-> arg, hops |-> hops]),
         kind \notin SourceKinds \cup {"destErrored", "part"},
         kind \in EndKinds =>
           /\ s.pipe.parts = {} /\ s.pipe.waitsOn = NoWrite /\ ~ Has(s.jobs, EndKinds)
           /\ s.pipe.lock = "held" /\ s.pipe.shuttingDown,
         Alive([kind |-> kind, arg |-> arg, hops |-> hops]) =>
           ~ Has(s.jobs, {"acted"}) /\ s.pipe.lock = "held"
  PROVE  LET t == Queue(s, kind, arg, hops)
         IN  /\ Plan(t) /\ Facts(t) /\ (Past(t) <=> Past(s))
             /\ Gone(t) => Gone(s) \/ kind = "acted"
<1> DEFINE t == Queue(s, kind, arg, hops)
           j == [kind |-> kind, arg |-> arg, hops |-> hops]
<1>1. /\ t.jobs = Append(s.jobs, j) /\ t.pipe = s.pipe
      /\ t.source = s.source /\ t.dest = s.dest /\ j.kind = kind
  BY QueueIs DEF Loops, Turn
<1>2. Sound(j) /\ (Alive(j) => ~ Has(s.jobs, {"acted"}) /\ s.pipe.lock = "held")
  OBVIOUS
<1> HIDE DEF t, j
<1>3. Steady(t, s) /\ Line(s.jobs)
  BY <1>1 DEF Steady, Loops
<1>4. Plan(t)
  BY <1>1, <1>2, <1>3, GrowPlan
<1>5. \A K : Has(t.jobs, K) <=> Has(s.jobs, K) \/ kind \in K
  BY <1>1, <1>3, LongerHas
<1>6. Facts(t)
  BY <1>1, <1>5, FactsStay
<1>7. Gone(t) => Gone(s) \/ kind = "acted"
  BY <1>1, <1>5 DEF Gone
<1> QED
  BY <1>1, <1>4, <1>6, <1>7 DEF Past, t

\* The end waits for the last write.
LEMMA WaitEnds ==
  ASSUME NEW s, Loops(s), Plan(s), Facts(s), ~ Ending(s), s.pipe.lock = "held",
         s.pipe.shuttingDown
  PROVE  LET t == WaitForWritesToFinish(s) IN Plan(t) /\ Facts(t) /\ ~ Gone(t)
<1> DEFINE t == WaitForWritesToFinish(s)
<1>1. ~ Gone(s)
  BY DEF Gone, Ending, Has, EndKinds
<1>2. CASE s.pipe.currentDone
  <2> DEFINE j == [kind |-> "waited", arg |-> s.pipe.currentWrite, hops |-> 0]
  <2>1. t = Queue(s, "waited", s.pipe.currentWrite, 0)
    BY <1>2 DEF WaitForWritesToFinish
  <2>2. Sound(j) /\ ~ Alive(j)
    BY DEF Sound, Alive, Kinds, EndKinds, RoomKinds
  <2> HIDE DEF t
  <2>3. Plan(t) /\ Facts(t) /\ (Gone(t) => Gone(s))
    BY <2>1, <2>2, QueueEnds DEF Ending, SourceKinds
  <2> QED
    BY <1>1, <2>3 DEF t
<1>3. CASE ~ s.pipe.currentDone
  <2>1. t = [s EXCEPT !.pipe.waitsOn = s.pipe.currentWrite]
    BY <1>3 DEF WaitForWritesToFinish
  <2>2. /\ t.jobs = s.jobs /\ t.source = s.source /\ t.dest = s.dest
        /\ t.pipe.lock = s.pipe.lock /\ t.pipe.shuttingDown = s.pipe.shuttingDown
        /\ t.pipe.action = s.pipe.action /\ t.pipe.parts = s.pipe.parts
        /\ t.pipe.asserts = s.pipe.asserts /\ t.pipe.options = s.pipe.options
    BY <2>1, PipeFields, ZenonT(60) DEF Loops, Turn
  <2> HIDE DEF t
  <2>3. Plan(t)
    BY <2>2 DEF Plan, Ending
  <2>4. Facts(t) /\ (Gone(t) => Gone(s))
    BY <2>2 DEF Facts, Gone
  <2> QED
    BY <1>1, <2>3, <2>4 DEF t
<1> QED
  BY <1>2, <1>3

-----------------------------------------------------------------------------
(* The pipe shuts down to plan.                                            *)

\* The pipe lets go of both streams, at its end.
LEMMA FinalizeEnds ==
  ASSUME NEW s, Good(s), Loops(s), Plan(s), Facts(s), Past(s), ~ Ending(s),
         s.pipe.lock = "held", s.pipe.shuttingDown, ~ Live(s.jobs), NEW isError
  PROVE  LET t == Finalize(s, isError) IN Plan(t) /\ Facts(t) /\ Past(t)
<1> DEFINE w == W!WriterRelease(s.dest)
           v == WithDest(s, w)
           r == R!ReaderRelease(v.source)
           u == WithSource(v, r)
           t == [u EXCEPT !.pipe.lock = "released",
                          !.pipe.outcome = IF isError THEN "error" ELSE "ok"]
<1>1. Finalize(s, isError) = t
  BY DEF Finalize
<1>2. WInv(w) /\ ~ w.writer
  BY ReleaseInv DEF Good, Fit, Locks
<1>3. Fine(w) /\ Goes(w, s.dest)
  <2>1. WInv(s.dest) /\ s.dest.writer /\ Fine(s.dest)
    BY Unheard DEF Good, Fit, Locks, Loops
  <2> QED
    BY <2>1, ReleaseFine
<1> HIDE DEF w
<1>4. Loops(v) /\ v.source = s.source /\ v.pipe.lock = "held"
  <2>1. /\ Level(w) /\ Told(w) /\ (s.pipe.waitsReady => Readies(w)) /\ (Holds(s) => Room(w))
    BY <1>3 DEF Fine, News, Goes, Loops, Places, Readies
  <2> QED
    BY <1>2, <2>1, WithDestLoops DEF Onward
<1>5. ~ Has(s.jobs, {"acted"}) /\ ~ Stuck(s.dest)
  <2>1. ~ Has(s.jobs, {"acted"})
    BY DEF Ending, Has, EndKinds
  <2>2. s.pipe.parts = {}
    BY DEF Ending
  <2> QED
    BY <2>1, <2>2 DEF Facts
<1>6. /\ Plan(v) /\ Facts(v) /\ Steady(v, s) /\ Heeds(v, s, EndingsOf(w))
      /\ Live(v.jobs) => Live(s.jobs) \/ Takes(s.dest)
      /\ Bare(v.dest, w)
  <2>1. /\ Level(w) /\ News(w) /\ (Takes(w) => Takes(s.dest)) /\ ~ Stuck(w)
    BY <1>3, <1>5 DEF Fine, Goes
  <2> QED
    BY <1>2, <1>5, <2>1, WithDestEnds
<1>7. ~ Ending(v) /\ ~ Live(v.jobs) /\ v.pipe.shuttingDown /\ ~ Takes(v.dest)
  <2>1. ~ Takes(w)
    BY <1>3 DEF Goes, Past
  <2> QED
    BY <1>6, <2>1, BareSame DEF Heeds, Steady, Past
<1> HIDE DEF v
<1>8. RInv(r) /\ Serves(r, v.source, FALSE) /\ r.state = v.source.state
  <2>1. Heeded(v.source) /\ v.source.reader
    BY <1>4 DEF Loops, Good, Locks
  <2> QED
    BY <2>1, ReleaseServes, SourceInv DEF Heeded
<1> HIDE DEF r
<1>9. /\ Plan(u) /\ Facts(u) /\ Steady(u, v) /\ Heeds(u, v, {"cancel"})
      /\ Live(u.jobs) => Live(v.jobs) \/ v.source.state = "readable"
      /\ u.dest = v.dest /\ u.source.state = r.state
  <2>1. ~ Has(v.jobs, {"acted"})
    BY <1>7 DEF Ending, Has, EndKinds
  <2> QED
    BY <1>4, <1>6, <1>7, <1>8, <2>1, WithSourceEnds
<1>10. ~ Ending(u) /\ ~ Live(u.jobs) /\ u.pipe.shuttingDown /\ ~ Takes(u.dest)
       /\ u.source.state # "readable"
  BY <1>4, <1>7, <1>8, <1>9 DEF Heeds, Steady, Past
<1>11. Turn(u)
  <2>1. Loops(u)
    BY <1>4, <1>8, WithSourceLoops
  <2> QED
    BY <2>1 DEF Loops
<1> HIDE DEF u
<1>12. /\ t.jobs = u.jobs /\ t.source = u.source /\ t.dest = u.dest
       /\ t.pipe.lock = "released" /\ t.pipe.shuttingDown = u.pipe.shuttingDown
       /\ t.pipe.action = u.pipe.action /\ t.pipe.parts = u.pipe.parts
       /\ t.pipe.waitsOn = u.pipe.waitsOn
       /\ t.pipe.asserts = u.pipe.asserts /\ t.pipe.options = u.pipe.options
  BY <1>11, PipeFields DEF Turn
<1> HIDE DEF t
<1>13. ~ Ending(t)
  BY <1>10, <1>12 DEF Ending
<1>14. Plan(t)
  BY <1>9, <1>10, <1>12, <1>13 DEF Plan
<1>15. Facts(t) /\ Past(t)
  BY <1>9, <1>10, <1>12 DEF Facts, Past
<1> QED
  BY <1>1, <1>14, <1>15

\* The half of the abort signal that aborts.
LEMMA AbortIfEnds ==
  ASSUME NEW s, Good(s), Loops(s), Plan(s), Facts(s), s.pipe.action = "signal",
         s.pipe.lock = "held", s.pipe.shuttingDown, ~ Has(s.jobs, {"acted"})
  PROVE  LET t == AbortIfWritable(s)
         IN  /\ Plan(t) /\ Facts(t) /\ Steady(t, s) /\ t.source = s.source
             /\ ~ Takes(t.dest) /\ ~ Has(t.jobs, {"acted"})
<1> DEFINE t == AbortIfWritable(s)
           w == W!StreamAbort(s.dest)
<1>1. "preventAbort" \notin s.pipe.options
  BY DEF Plan
<1>2. CASE s.dest.state = "writable"
  <2>1. WInv(w) /\ Fine(w) /\ Goes(w, s.dest) /\ w.state # "writable"
    BY AbortInv, AbortFine DEF Good, Fit, Loops
  <2>2. t = WithDest(s, w)
    BY <1>1, <1>2 DEF AbortIfWritable
  <2> HIDE DEF w, t
  <2>3. ~ Takes(w) /\ ~ Stuck(w) /\ Level(w) /\ News(w)
    BY <2>1 DEF Takes, Stuck, Fine
  <2>4. /\ Plan(t) /\ Facts(t) /\ Steady(t, s) /\ Heeds(t, s, EndingsOf(w))
        /\ t.source = s.source /\ Bare(t.dest, w)
    BY <2>1, <2>2, <2>3, WithDestEnds
  <2>5. ~ Takes(t.dest) /\ ~ Has(t.jobs, {"acted"})
    BY <2>3, <2>4, BareSame DEF Heeds
  <2> QED
    BY <2>4, <2>5 DEF t
<1>3. CASE s.dest.state # "writable"
  <2>1. t = PartSettled(s, "abort", "resolved", 0)
    BY <1>1, <1>3 DEF AbortIfWritable
  <2> HIDE DEF t
  <2>2. /\ Plan(t) /\ Facts(t) /\ Steady(t, s) /\ Heeds(t, s, {"abort"})
        /\ t.source = s.source /\ t.dest = s.dest
    BY <2>1, PartEnds
  <2>3. ~ Takes(t.dest) /\ ~ Has(t.jobs, {"acted"})
    BY <1>3, <2>2 DEF Takes, Heeds
  <2> QED
    BY <2>2, <2>3 DEF t
<1> QED
  BY <1>2, <1>3

\* The half of the abort signal that cancels.
LEMMA CancelIfEnds ==
  ASSUME NEW s, Loops(s), Plan(s), Facts(s), ~ Takes(s.dest),
         s.pipe.lock = "held", s.pipe.shuttingDown, ~ Has(s.jobs, {"acted"})
  PROVE  LET t == CancelIfReadable(s) IN Plan(t) /\ Facts(t) /\ Past(t)
<1> DEFINE t == CancelIfReadable(s)
           v == R!StreamCancel(s.source)
<1>1. "preventCancel" \notin s.pipe.options
  BY DEF Plan
<1>2. CASE s.source.state = "readable"
  <2>1. RInv(v) /\ Serves(v, s.source, FALSE) /\ v.state # "readable"
    BY CancelInv, CancelServes DEF Loops, Heeded
  <2>2. t = WithSource(s, v)
    BY <1>1, <1>2 DEF CancelIfReadable
  <2> HIDE DEF v, t
  <2>3. Plan(t) /\ Facts(t) /\ t.dest = s.dest /\ t.source.state = v.state
    BY <2>1, <2>2, WithSourceEnds
  <2> QED
    BY <2>1, <2>3 DEF Past, t
<1>3. CASE s.source.state # "readable"
  <2>1. t = PartSettled(s, "cancel", "resolved", 0)
    BY <1>1, <1>3 DEF CancelIfReadable
  <2> HIDE DEF t, v
  <2>2. /\ Plan(t) /\ Facts(t) /\ Steady(t, s) /\ Heeds(t, s, {"cancel"})
        /\ t.source = s.source /\ t.dest = s.dest
    BY <2>1, PartEnds
  <2> QED
    BY <1>3, <2>2 DEF Past, t
<1> QED
  BY <1>2, <1>3

\* The action begins: its promises are waited for.
LEMMA AwaitEnds ==
  ASSUME NEW s, Good(s), Loops(s), Plan(s), Facts(s), ~ Ending(s), s.pipe.lock = "held",
         s.pipe.shuttingDown, NEW parts
  PROVE  LET a == [s EXCEPT !.pipe.parts = parts]
         IN  /\ Good(a) /\ Loops(a) /\ Plan(a) /\ Facts(a) /\ Steady(a, s)
             /\ a.pipe.parts = parts /\ a.source = s.source /\ a.dest = s.dest
             /\ a.jobs = s.jobs /\ ~ Has(a.jobs, {"acted"}) /\ ~ Stuck(a.dest)
<1> DEFINE a == [s EXCEPT !.pipe.parts = parts]
<1>1. Good(a) /\ Loops(a)
  BY ClosureSame, ClosureOnward, SameFits DEF Good, Onward
<1>2. /\ a.jobs = s.jobs /\ a.source = s.source /\ a.dest = s.dest /\ a.pipe.parts = parts
      /\ a.pipe.lock = s.pipe.lock /\ a.pipe.shuttingDown = s.pipe.shuttingDown
      /\ a.pipe.action = s.pipe.action /\ a.pipe.waitsOn = s.pipe.waitsOn
      /\ a.pipe.asserts = s.pipe.asserts /\ a.pipe.options = s.pipe.options
  BY PipeFields DEF Loops, Turn
<1> HIDE DEF a
<1>3. Plan(a)
  BY <1>2 DEF Plan, Ending
<1>4. ~ Stuck(s.dest)
  BY DEF Facts, Ending
<1>5. Facts(a)
  BY <1>2, <1>4 DEF Facts
<1>6. ~ Has(s.jobs, {"acted"})
  BY DEF Ending, Has, EndKinds
<1> QED
  BY <1>1, <1>2, <1>3, <1>4, <1>5, <1>6 DEF Steady, a

\* The shutdown action.
LEMMA DoTheRestEnds ==
  ASSUME NEW s, Good(s), Loops(s), Plan(s), Facts(s), ~ Ending(s), s.pipe.lock = "held",
         s.pipe.shuttingDown
  PROVE  LET t == DoTheRest(s) IN Plan(t) /\ Facts(t) /\ Past(t)
<1> DEFINE Await(parts) == [s EXCEPT !.pipe.parts = parts]
           allowed == (IF "preventAbort" \in s.pipe.options THEN {} ELSE {"abort"})
                        \cup (IF "preventCancel" \in s.pipe.options THEN {} ELSE {"cancel"})
           Goal(t) == Plan(t) /\ Facts(t) /\ Past(t)
<1>1. s.pipe.action \in Actions /\ allowed # {}
  BY DEF Plan
<1>2. DoTheRest(s) =
        CASE s.pipe.action = "abort" -> WithDest(Await({"abort"}), W!StreamAbort(s.dest))
          [] s.pipe.action = "cancel" ->
               WithSource(Await({"cancel"}), R!StreamCancel(s.source))
          [] s.pipe.action = "close" ->
               WithDest(Await({"close"}), W!CloseWithErrorPropagation(s.dest))
          [] s.pipe.action = "signal" /\ allowed # {} ->
               CancelIfReadable(AbortIfWritable(Await(allowed)))
          [] s.pipe.action = "signal" /\ allowed = {} -> Queue(s, "acted", "resolved", 0)
          [] OTHER -> Finalize(s, s.pipe.isError)
  BY DEF DoTheRest
<1>3. \A parts : LET a == Await(parts)
                 IN  /\ Good(a) /\ Loops(a) /\ Plan(a) /\ Facts(a) /\ Steady(a, s)
                     /\ a.pipe.parts = parts /\ a.source = s.source /\ a.dest = s.dest
                     /\ a.jobs = s.jobs /\ ~ Has(a.jobs, {"acted"}) /\ ~ Stuck(a.dest)
  BY AwaitEnds
<1> HIDE DEF Await, allowed
<1>4. WInv(s.dest) /\ Level(s.dest) /\ s.dest.news = <<>> /\ Heeded(s.source)
  BY DEF Good, Fit, Loops
<1>5. CASE s.pipe.action = "abort"
  <2> DEFINE a == Await({"abort"})
             w == W!StreamAbort(s.dest)
             t == WithDest(a, w)
  <2>1. WInv(w) /\ Fine(w) /\ Goes(w, s.dest) /\ w.state # "writable"
    BY <1>4, AbortInv, AbortFine
  <2>2. /\ Loops(a) /\ Plan(a) /\ Facts(a) /\ Steady(a, s) /\ a.source = s.source
        /\ a.dest = s.dest /\ ~ Has(a.jobs, {"acted"})
    BY <1>3
  <2> HIDE DEF a, w
  <2>3. ~ Takes(w) /\ ~ Stuck(w) /\ Level(w) /\ News(w)
    BY <2>1 DEF Takes, Stuck, Fine
  <2>4. Plan(t) /\ Facts(t) /\ t.source = a.source /\ Bare(t.dest, w)
    BY <2>1, <2>2, <2>3, WithDestEnds DEF Steady
  <2> HIDE DEF t
  <2>5. Past(t)
    BY <1>5, <2>2, <2>3, <2>4, BareSame DEF Past, Facts
  <2>6. Goal(t)
    BY <2>4, <2>5
  <2> QED
    BY <1>2, <1>5, <2>6 DEF t, a, w
<1>6. CASE s.pipe.action = "cancel"
  <2> DEFINE a == Await({"cancel"})
             v == R!StreamCancel(s.source)
             t == WithSource(a, v)
  <2>1. RInv(v) /\ Serves(v, s.source, FALSE) /\ v.state # "readable"
    BY <1>4, CancelInv, CancelServes DEF Heeded
  <2>2. /\ Loops(a) /\ Plan(a) /\ Facts(a) /\ Steady(a, s) /\ a.source = s.source
        /\ a.dest = s.dest /\ ~ Has(a.jobs, {"acted"})
    BY <1>3
  <2> HIDE DEF a, v
  <2>6. Serves(v, a.source, FALSE) /\ a.pipe.shuttingDown
    BY <2>1, <2>2 DEF Steady
  <2>3. Plan(t) /\ Facts(t) /\ t.dest = a.dest /\ t.source.state = v.state
    BY <2>1, <2>2, <2>6, WithSourceEnds, ZenonT(60)
  <2> HIDE DEF t
  <2>4. Past(t)
    BY <1>6, <2>1, <2>2, <2>3 DEF Past, Facts
  <2>5. Goal(t)
    BY <2>3, <2>4
  <2> QED
    BY <1>2, <1>6, <2>5 DEF t, a, v
<1>7. CASE s.pipe.action = "close"
  <2> DEFINE a == Await({"close"})
             w == W!CloseWithErrorPropagation(s.dest)
             t == WithDest(a, w)
  <2>2. /\ Loops(a) /\ Plan(a) /\ Facts(a) /\ Steady(a, s) /\ a.source = s.source
        /\ a.dest = s.dest /\ ~ Has(a.jobs, {"acted"}) /\ ~ Stuck(a.dest)
        /\ a.pipe.parts = {"close"}
    BY <1>3
  <2>1. WInv(w) /\ Fine(w) /\ GoesToClose(w, s.dest)
    BY <1>4, <2>2, CloseWithErrorInv, CloseWithErrorFine
  <2> HIDE DEF a, w
  <2>3. ~ Takes(w) /\ Level(w) /\ News(w)
    BY <2>1 DEF GoesToClose, Fine
  <2>5. a.pipe.action = "close"
    BY <1>7, <2>2 DEF Steady
  <2>4. Plan(t) /\ Facts(t) /\ t.source = a.source /\ Bare(t.dest, w)
    BY <2>1, <2>2, <2>3, <2>5, WithDestEnds DEF Steady
  <2> HIDE DEF t
  <2>6. Past(t)
    BY <1>7, <2>2, <2>3, <2>4, BareSame DEF Past, Facts
  <2>7. Goal(t)
    BY <2>4, <2>6
  <2> QED
    BY <1>2, <1>7, <2>7 DEF t, a, w
<1>8. CASE s.pipe.action = "signal"
  <2> DEFINE a == Await(allowed)
             b == AbortIfWritable(a)
             t == CancelIfReadable(b)
  <2>1. /\ Good(a) /\ Loops(a) /\ Plan(a) /\ Facts(a) /\ Steady(a, s) /\ a.source = s.source
        /\ a.dest = s.dest /\ ~ Has(a.jobs, {"acted"})
    BY <1>3
  <2> HIDE DEF a
  <2>2. a.pipe.action = "signal" /\ a.pipe.lock = "held" /\ a.pipe.shuttingDown
    BY <1>8, <2>1 DEF Steady
  <2>3. /\ Plan(b) /\ Facts(b) /\ Steady(b, a) /\ ~ Takes(b.dest) /\ ~ Has(b.jobs, {"acted"})
    BY <2>1, <2>2, AbortIfEnds
  <2>4. Loops(b)
    BY <2>1, AbortIfOnward DEF Onward
  <2> HIDE DEF b
  <2>5. b.pipe.lock = "held" /\ b.pipe.shuttingDown
    BY <2>2, <2>3 DEF Steady
  <2>6. Goal(t)
    BY <2>3, <2>4, <2>5, CancelIfEnds
  <2> HIDE DEF Goal, t
  <2>7. DoTheRest(s) = t
    BY <1>1, <1>2, <1>8 DEF t, b, a
  <2> QED
    BY <2>6, <2>7 DEF Goal
<1> QED
  BY <1>1, <1>5, <1>6, <1>7, <1>8 DEF Actions

\* A shutdown with an action, now or after the last write.
LEMMA WithActionEnds ==
  ASSUME NEW s, Good(s), Loops(s), Plan(s), Facts(s), Gone(s) => Past(s),
         s.pipe.lock = "held", NEW action \in Actions, NEW isError,
         ~ s.pipe.shuttingDown =>
           /\ action \in {"abort", "close"} => s.source.state # "readable"
           /\ action = "cancel" => ~ Takes(s.dest)
  PROVE  LET t == ShutdownWithAction(s, action, isError)
         IN  Plan(t) /\ Facts(t) /\ (Gone(t) => Past(t))
<1> DEFINE v == [s EXCEPT !.pipe.shuttingDown = TRUE, !.pipe.action = action,
                          !.pipe.isError = isError]
<1>1. ShutdownWithAction(s, action, isError) =
        IF s.pipe.shuttingDown THEN s
        ELSE IF DestTakesWrites(v) THEN WaitForWritesToFinish(v) ELSE DoTheRest(v)
  BY DEF ShutdownWithAction
<1>2. CASE s.pipe.shuttingDown
  BY <1>1, <1>2
<1>3. CASE ~ s.pipe.shuttingDown
  <2>1. Good(v) /\ Loops(v)
    BY ClosureSame, ClosureOnward, SameFits DEF Good, Onward
  <2>2. /\ v.jobs = s.jobs /\ v.source = s.source /\ v.dest = s.dest
        /\ v.pipe.parts = s.pipe.parts /\ v.pipe.waitsOn = s.pipe.waitsOn
        /\ v.pipe.lock = s.pipe.lock /\ v.pipe.shuttingDown = TRUE /\ v.pipe.action = action
        /\ v.pipe.asserts = s.pipe.asserts /\ v.pipe.options = s.pipe.options
    BY PipeFields DEF Loops, Turn
  <2> HIDE DEF v
  <2>3. ~ Ending(s) /\ ~ Has(s.jobs, {"part"})
    BY <1>3 DEF Plan
  <2>4. ~ Ending(v)
    BY <2>2, <2>3 DEF Ending
  <2>5. Plan(v)
    BY <2>2, <2>3, <2>4 DEF Plan
  <2>6. ~ Stuck(s.dest)
    BY <2>3 DEF Facts, Ending
  <2>7. Facts(v)
    BY <1>3, <2>2, <2>6 DEF Facts
  <2> DEFINE x == WaitForWritesToFinish(v)
             y == DoTheRest(v)
  <2>8. Plan(x) /\ Facts(x) /\ ~ Gone(x)
    BY <2>1, <2>2, <2>4, <2>5, <2>7, WaitEnds
  <2>9. Plan(y) /\ Facts(y) /\ Past(y)
    BY <2>1, <2>2, <2>4, <2>5, <2>7, DoTheRestEnds
  <2> HIDE DEF x, y
  <2>10. ShutdownWithAction(s, action, isError) \in {x, y}
    BY <1>1, <1>3 DEF x, y
  <2> QED
    BY <2>8, <2>9, <2>10
<1> QED
  BY <1>2, <1>3

\* The plan, and that both streams have ended where its action has begun.
Sure(s) == Plan(s) /\ Facts(s) /\ (Gone(s) => Past(s))

\* What the plan knows of a microtask that has left the queue.
Due(s, job) ==
  /\ Sound(job)
  /\ job.kind \in EndKinds => ~ Ending(s) /\ s.pipe.lock = "held" /\ s.pipe.shuttingDown
  /\ job.kind = "acted" => Past(s) /\ ~ Live(s.jobs)
  /\ Alive(job) => s.pipe.lock = "held"
  /\ job.kind \in SourceKinds => s.source.state # "readable" /\ s.pipe.lock # "idle"
  /\ job.kind = "destErrored" => ~ Takes(s.dest) /\ s.pipe.lock # "idle"
  /\ job.kind = "part" => s.pipe.action = "signal" /\ s.pipe.shuttingDown

\* It has more turns to wait for.
LEMMA RequeueEnds ==
  ASSUME NEW s, Loops(s), Sure(s), NEW job, Due(s, job), job.hops > 0, NEW hops
  PROVE  Sure(Queue(s, job.kind, job.arg, hops))
<1> DEFINE t == Queue(s, job.kind, job.arg, hops)
           j == [kind |-> job.kind, arg |-> job.arg, hops |-> hops]
<1>1. /\ t.jobs = Append(s.jobs, j) /\ t.pipe = s.pipe
      /\ t.source = s.source /\ t.dest = s.dest /\ j.kind = job.kind /\ j.arg = job.arg
  BY QueueIs DEF Loops, Turn
<1> HIDE DEF t, j
<1>2. job.kind \notin RoomKinds
  BY DEF Due, Sound
<1>3. Sound(j) /\ ~ Alive(j)
  BY <1>1, <1>2 DEF Due, Sound, Alive, RoomKinds
<1>4. Steady(t, s) /\ Line(s.jobs)
  BY <1>1 DEF Steady, Loops
<1>5. job.kind \in EndKinds =>
        /\ s.pipe.parts = {} /\ s.pipe.waitsOn = NoWrite /\ ~ Has(s.jobs, EndKinds)
        /\ s.pipe.lock = "held" /\ s.pipe.shuttingDown
  BY DEF Due, Ending
<1>6. job.kind \in SourceKinds \cup {"destErrored"} => s.pipe.lock # "idle"
  BY DEF Due
<1>7. job.kind = "part" => s.pipe.action = "signal" /\ s.pipe.shuttingDown
  BY DEF Due
<1>8. Plan(t)
  BY <1>1, <1>3, <1>4, <1>5, <1>6, <1>7, GrowPlan DEF Sure
<1>9. \A K : Has(t.jobs, K) <=> Has(s.jobs, K) \/ job.kind \in K
  BY <1>1, <1>4, LongerHas
<1>10. Facts(t)
  <2>1. Has(t.jobs, SourceKinds) => t.source.state # "readable"
    BY <1>1, <1>9 DEF Sure, Facts, Due
  <2>2. Has(t.jobs, {"destErrored"}) => ~ Takes(t.dest)
    BY <1>1, <1>9 DEF Sure, Facts, Due
  <2> QED
    BY <1>1, <2>1, <2>2 DEF Sure, Facts
<1>11. Gone(t) => Past(t)
  BY <1>1, <1>9 DEF Sure, Gone, Past, Due
<1> QED
  BY <1>8, <1>10, <1>11 DEF Sure, t

\* A stream that has ended ends the pipe.
LEMMA EndsEnds ==
  ASSUME NEW s, Good(s), Loops(s), Sure(s), s.pipe.lock # "idle"
  PROVE  /\ s.source.state # "readable" => Sure(SourceErrored(s)) /\ Sure(SourceClosed(s))
         /\ ~ Takes(s.dest) => Sure(DestErrored(s))
<1>1. "preventAbort" \notin s.pipe.options /\ "preventCancel" \notin s.pipe.options
  BY DEF Sure, Plan
<1>2. /\ SourceErrored(s) = ShutdownWithAction(s, "abort", TRUE)
      /\ DestErrored(s) = ShutdownWithAction(s, "cancel", TRUE)
      /\ SourceClosed(s) \in {s, ShutdownWithAction(s, "close", FALSE)}
  BY <1>1 DEF SourceErrored, DestErrored, SourceClosed, End
<1>3. CASE s.pipe.lock # "held"
  <2>1. s.pipe.shuttingDown
    BY <1>3 DEF Good, Locks, Sure, Plan
  <2>2. \A action, isError : ShutdownWithAction(s, action, isError) = s
    BY <2>1 DEF ShutdownWithAction
  <2> QED
    BY <1>2, <2>2
<1>4. CASE s.pipe.lock = "held"
  <2>1. ASSUME NEW action \in Actions, NEW isError,
               /\ action \in {"abort", "close"} => s.source.state # "readable"
               /\ action = "cancel" => ~ Takes(s.dest)
        PROVE  Sure(ShutdownWithAction(s, action, isError))
    BY <1>4, <2>1, WithActionEnds DEF Sure
  <2>2. "abort" \in Actions /\ "cancel" \in Actions /\ "close" \in Actions
    BY DEF Actions
  <2>3. s.source.state # "readable" =>
          /\ Sure(ShutdownWithAction(s, "abort", TRUE))
          /\ Sure(ShutdownWithAction(s, "close", FALSE))
    BY <2>1, <2>2
  <2>4. ~ Takes(s.dest) => Sure(ShutdownWithAction(s, "cancel", TRUE))
    BY <2>1, <2>2
  <2> QED
    BY <1>2, <2>3, <2>4
<1> QED
  BY <1>3, <1>4

\* The closure changes, and not in what the plan is about.
LEMMA AsideSure ==
  ASSUME NEW s, Sure(s), NEW t, Steady(t, s), t.jobs = s.jobs,
         t.pipe.parts = s.pipe.parts, t.source = s.source, t.dest = s.dest
  PROVE  Sure(t)
  BY AsideEnds DEF Sure

\* A microtask of the loop or of its end is queued.
LEMMA QueueSure ==
  ASSUME NEW s, Loops(s), Sure(s), NEW kind, NEW arg, NEW hops,
         Sound([kind |-> kind, arg |-> arg, hops |-> hops]),
         kind \notin SourceKinds \cup {"destErrored", "part", "acted"},
         kind \in EndKinds => ~ Ending(s) /\ s.pipe.lock = "held" /\ s.pipe.shuttingDown,
         Alive([kind |-> kind, arg |-> arg, hops |-> hops]) =>
           ~ Has(s.jobs, {"acted"}) /\ s.pipe.lock = "held"
  PROVE  Sure(Queue(s, kind, arg, hops))
<1> DEFINE t == Queue(s, kind, arg, hops)
<1>1. kind \in EndKinds =>
        /\ s.pipe.parts = {} /\ s.pipe.waitsOn = NoWrite /\ ~ Has(s.jobs, EndKinds)
        /\ s.pipe.lock = "held" /\ s.pipe.shuttingDown
  BY DEF Ending
<1>2. Plan(t) /\ Facts(t) /\ (Past(t) <=> Past(s)) /\ (Gone(t) => Gone(s) \/ kind = "acted")
  BY <1>1, QueueEnds DEF Sure
<1> HIDE DEF t
<1>3. Sure(t)
  BY <1>2 DEF Sure
<1> QED
  BY <1>3 DEF t

\* The step finds the pipe going on.
LEMMA StepEnds ==
  ASSUME NEW s, Good(s), Loops(s), Sure(s), s.pipe.lock # "idle"
  PROVE  Sure(PipeStep(s))
<1>1. CASE s.pipe.shuttingDown
  BY <1>1 DEF PipeStep
<1>2. CASE ~ s.pipe.shuttingDown
  <2>1. s.pipe.lock = "held" /\ ~ Ending(s)
    BY <1>2 DEF Good, Locks, Sure, Plan
  <2>2. ~ Has(s.jobs, {"acted"})
    BY <2>1 DEF Ending, Has, EndKinds
  <2> DEFINE x == Queue(s, "read", NoWrite, 0)
             y == [s EXCEPT !.pipe.waitsReady = TRUE]
             j == [kind |-> "read", arg |-> NoWrite, hops |-> 0]
  <2>3. Sure(x)
    <3>1. Sound(j)
      BY DEF Sound, Kinds
    <3>2. "read" \notin EndKinds \cup SourceKinds \cup {"destErrored", "part", "acted"}
      BY DEF EndKinds, SourceKinds
    <3> QED
      BY <2>1, <2>2, <3>1, <3>2, QueueSure
  <2>4. Sure(y)
    <3>1. /\ Steady(y, s) /\ y.jobs = s.jobs /\ y.pipe.parts = s.pipe.parts
          /\ y.source = s.source /\ y.dest = s.dest
      BY PipeFields DEF Loops, Turn, Steady
    <3> HIDE DEF y
    <3> QED
      BY <3>1, AsideSure
  <2> HIDE DEF x, y
  <2>5. PipeStep(s) \in {s, x, y}
    BY DEF PipeStep, x, y
  <2> QED
    BY <2>3, <2>4, <2>5
<1> QED
  BY <1>1, <1>2

\* The loop reads from a stream the pipe holds.
LEMMA ReadChunkEnds ==
  ASSUME NEW s, Good(s), Loops(s), Sure(s), Quiet(s), s.pipe.lock = "held"
  PROVE  Sure(ReadChunk(s))
<1> DEFINE v == R!Read(s.source)
           t == WithSource(s, v)
<1>1. Heeded(s.source) /\ RInv(s.source) /\ s.source.reader /\ s.source.readRequests = 0
  BY DEF Good, Fit, Locks, Loops, Quiet, Asked
<1>2. RInv(v) /\ Serves(v, s.source, TRUE) /\ v.reader
  BY <1>1, ReadInv, ReadServes
<1> HIDE DEF v
<1>3. Has(s.jobs, {"acted"}) => s.source.state # "readable"
  BY DEF Sure, Gone, Past
<1>4. /\ Plan(t) /\ Facts(t) /\ (Gone(t) => Gone(s)) /\ Steady(t, s)
      /\ t.dest = s.dest /\ t.source.state = v.state
  BY <1>2, <1>3, WithSourceEnds DEF Sure
<1> HIDE DEF t
<1>5. Past(s) => Past(t)
  BY <1>2, <1>4 DEF Past, Serves
<1>6. Sure(t)
  BY <1>4, <1>5 DEF Sure
<1> QED
  BY <1>6 DEF ReadChunk, t, v

\* The loop writes to a stream the pipe holds.
LEMMA WriteChunkEnds ==
  ASSUME NEW s, Good(s), Loops(s), Sure(s), Quiet(s), NEW chunk,
         chunk \in Ours => s.pipe.lock = "held" /\ Room(s.dest)
  PROVE  Sure(WriteChunk(s, chunk))
<1> DEFINE v == [s EXCEPT !.pipe.currentWrite = chunk, !.pipe.currentDone = FALSE]
           w == W!WriterWrite(v.dest, chunk)
           u == WithDest(v, w)
           t == Queue(u, "next", NoWrite, 1)
<1>1. CASE chunk \notin Ours
  BY <1>1 DEF WriteChunk, Ours
<1>2. CASE chunk \in Ours
  <2>1. WriteChunk(s, chunk) = t
    BY <1>2 DEF WriteChunk, Ours
  <2>2. Same(v, s) /\ Onward(v, s)
    BY ClosureSame, ClosureOnward DEF Good
  <2>3. /\ Steady(v, s) /\ v.jobs = s.jobs /\ v.pipe.parts = s.pipe.parts
        /\ v.source = s.source /\ v.dest = s.dest
    BY PipeFields DEF Loops, Turn, Steady
  <2> HIDE DEF v
  <2>4. Good(v) /\ Loops(v) /\ Quiet(v) /\ v.pipe.lock = "held" /\ Sure(v)
    BY <1>2, <2>2, <2>3, SameFits, AsideSure DEF Onward, Same
  <2>5. /\ WInv(v.dest) /\ v.dest.writer /\ Level(v.dest) /\ v.dest.news = <<>>
        /\ Room(v.dest) /\ chunk \in AllChunks
    BY <1>2, <2>3, <2>4 DEF Good, Fit, Locks, Loops, AllChunks, Ours
  <2>6. WInv(w) /\ w.writer /\ Fine(w) /\ GoesOn(w, v.dest)
    BY <2>5, WriteInv, WriteFine
  <2> HIDE DEF w
  <2>7. Loops(u)
    <3>1. (v.pipe.waitsReady => Readies(w)) /\ (Holds(v) => Room(w)) /\ Level(w) /\ Told(w)
      BY <2>4, <2>6, RoomFirst DEF Quiet, Holds, Going, Fine, News
    <3> QED
      BY <2>4, <2>6, <3>1, WithDestLoops DEF Onward
  <2>8. /\ Plan(u) /\ Facts(u) /\ (Gone(u) => Gone(v)) /\ u.source = v.source /\ Bare(u.dest, w)
    <3>1. Has(v.jobs, {"acted"}) => ~ Takes(v.dest)
      BY <2>4 DEF Sure, Gone, Past
    <3>2. Stuck(w) => v.pipe.action = "close" /\ v.pipe.parts = {"close"}
      BY <2>4, <2>6 DEF Sure, Facts, GoesOn
    <3>3. Level(w) /\ News(w) /\ (Takes(w) => Takes(v.dest))
      BY <2>6 DEF Fine, GoesOn
    <3> QED
      BY <2>4, <2>6, <3>1, <3>2, <3>3, WithDestEnds DEF Sure
  <2> HIDE DEF u
  <2>9. Past(v) => Past(u)
    BY <2>6, <2>8, BareSame DEF Past, GoesOn
  <2>10. Sure(u)
    BY <2>4, <2>8, <2>9 DEF Sure
  <2>11. Sure(t)
    <3> DEFINE j == [kind |-> "next", arg |-> NoWrite, hops |-> 1]
    <3>1. Sound(j) /\ ~ Alive(j)
      BY DEF Sound, Kinds, RoomKinds, Alive
    <3>2. "next" \notin EndKinds \cup SourceKinds \cup {"destErrored", "part", "acted"}
      BY DEF EndKinds, SourceKinds
    <3> QED
      BY <2>7, <2>10, <3>1, <3>2, QueueSure
  <2> QED
    BY <2>1, <2>11
<1> QED
  BY <1>1, <1>2

\* A write of the pipe is finished, and the end may have waited for it.
LEMMA WrittenEnds ==
  ASSUME NEW s, Loops(s), Sure(s), NEW chunk, chunk # NoWrite
  PROVE  Sure(Written(s, chunk))
<1> DEFINE done == s.pipe.currentDone \/ chunk = s.pipe.currentWrite
           v == [s EXCEPT !.pipe.currentDone = done]
           u == [v EXCEPT !.pipe.waitsOn = NoWrite]
           t == Queue(u, "waited", chunk, 0)
<1>1. Written(s, chunk) = IF v.pipe.waitsOn # chunk THEN v ELSE t
  BY DEF Written
<1> HIDE DEF done
<1>2. Loops(v)
  BY ClosureOnward DEF Onward
<1>3. /\ Steady(v, s) /\ v.jobs = s.jobs /\ v.pipe.parts = s.pipe.parts
      /\ v.source = s.source /\ v.dest = s.dest
  BY PipeFields DEF Loops, Turn, Steady
<1> HIDE DEF v
<1>4. Sure(v)
  BY <1>3, AsideSure
<1>5. ASSUME v.pipe.waitsOn = chunk
      PROVE  Sure(t)
  <2>1. Loops(u)
    BY <1>2, ClosureOnward DEF Onward
  <2>2. /\ u.pipe.lock = v.pipe.lock /\ u.pipe.shuttingDown = v.pipe.shuttingDown
        /\ u.pipe.action = v.pipe.action /\ u.pipe.waitsOn = NoWrite
        /\ u.pipe.asserts = v.pipe.asserts /\ u.pipe.options = v.pipe.options
        /\ u.jobs = v.jobs /\ u.pipe.parts = v.pipe.parts
        /\ u.source = v.source /\ u.dest = v.dest
    BY <1>2, PipeFields DEF Loops, Turn
  <2> HIDE DEF u
  <2>3. /\ ~ Has(v.jobs, EndKinds) /\ v.pipe.parts = {}
        /\ v.pipe.lock = "held" /\ v.pipe.shuttingDown
    BY <1>4, <1>5 DEF Sure, Plan, Ending
  <2>4. ~ Ending(u)
    BY <2>2, <2>3 DEF Ending
  <2>5. Plan(u)
    BY <1>4, <2>2, <2>4 DEF Sure, Plan
  <2>6. Facts(u)
    BY <1>4, <2>2, FactsStay DEF Sure
  <2>7. Sure(u)
    BY <1>4, <2>2, <2>5, <2>6 DEF Sure, Gone, Past
  <2> DEFINE j == [kind |-> "waited", arg |-> chunk, hops |-> 0]
  <2>8. Sound(j) /\ ~ Alive(j)
    BY DEF Sound, Kinds, EndKinds, RoomKinds, Alive
  <2>9. "waited" \notin SourceKinds \cup {"destErrored", "part", "acted"}
    BY DEF SourceKinds
  <2> QED
    BY <2>1, <2>2, <2>3, <2>4, <2>7, <2>8, <2>9, QueueSure
<1> HIDE DEF t
<1> QED
  BY <1>1, <1>4, <1>5

\* The wait for the writes looks again.
LEMMA WaitedEnds ==
  ASSUME NEW s, Loops(s), Sure(s), ~ Ending(s), s.pipe.lock = "held", s.pipe.shuttingDown,
         NEW old
  PROVE  Sure(Waited(s, old))
<1> DEFINE d == s.pipe.depth + 1
           v == [s EXCEPT !.pipe.depth = d]
           t == Queue(s, "rest", NoWrite, s.pipe.depth)
<1>1. Waited(s, old) = IF old # s.pipe.currentWrite THEN WaitForWritesToFinish(v) ELSE t
  BY DEF Waited
<1> HIDE DEF d
<1>2. Loops(v)
  BY ClosureOnward DEF Onward
<1>3. /\ Steady(v, s) /\ v.jobs = s.jobs /\ v.pipe.parts = s.pipe.parts
      /\ v.source = s.source /\ v.dest = s.dest
  BY PipeFields DEF Loops, Turn, Steady
<1> HIDE DEF v
<1>4. Sure(v) /\ ~ Ending(v) /\ v.pipe.lock = "held" /\ v.pipe.shuttingDown
  BY <1>3, AsideSure DEF Steady, Ending
<1>5. Sure(WaitForWritesToFinish(v))
  BY <1>2, <1>4, WaitEnds DEF Sure
<1>6. Sure(t)
  <2> DEFINE j == [kind |-> "rest", arg |-> NoWrite, hops |-> s.pipe.depth]
  <2>1. Sound(j) /\ ~ Alive(j)
    BY DEF Sound, Kinds, EndKinds, RoomKinds, Alive
  <2>2. "rest" \notin SourceKinds \cup {"destErrored", "part", "acted"}
    BY DEF SourceKinds
  <2> QED
    BY <2>1, <2>2, QueueSure
<1> HIDE DEF t
<1> QED
  BY <1>1, <1>5, <1>6

\* One promise of Promise.all() settles.
LEMMA PartOfAllEnds ==
  ASSUME NEW s, Loops(s), Sure(s), s.pipe.action = "signal", s.pipe.shuttingDown,
         NEW part, NEW how
  PROVE  Sure(PartOfAll(s, part, how))
<1> DEFINE left == IF how = "rejected" THEN {} ELSE s.pipe.parts \ {part}
           v == [s EXCEPT !.pipe.parts = left]
           t == Queue(v, "acted", how, 0)
<1>1. PartOfAll(s, part, how) = IF part \notin s.pipe.parts THEN s
                                ELSE IF left = {} THEN t ELSE v
  BY DEF PartOfAll
<1>2. left # {} => s.pipe.parts # {}
  OBVIOUS
<1> HIDE DEF left
<1>3. ASSUME part \in s.pipe.parts
      PROVE  (left = {} => Sure(t)) /\ (left # {} => Sure(v))
  <2>1. /\ s.pipe.waitsOn = NoWrite /\ ~ Has(s.jobs, EndKinds) /\ s.pipe.lock = "held"
        /\ Past(s) /\ ~ Stuck(s.dest)
    BY <1>3 DEF Sure, Plan, Ending, Gone, Facts
  <2>2. Loops(v)
    BY ClosureOnward DEF Onward
  <2>3. /\ Steady(v, s) /\ v.jobs = s.jobs /\ v.pipe.parts = left
        /\ v.source = s.source /\ v.dest = s.dest
    BY PipeFields DEF Loops, Turn, Steady
  <2> HIDE DEF v
  <2>4. Plan(v)
    BY <2>1, <2>3 DEF Sure, Plan, Steady, Ending
  <2>5. Facts(v)
    BY <2>1, <2>3 DEF Sure, Facts, Steady
  <2>6. Past(v)
    BY <2>1, <2>3 DEF Past
  <2>7. Sure(v)
    BY <2>4, <2>5, <2>6 DEF Sure
  <2>8. ASSUME left = {}
        PROVE  Sure(t)
    <3> DEFINE j == [kind |-> "acted", arg |-> how, hops |-> 0]
    <3>1. Sound(j) /\ ~ Alive(j)
      BY DEF Sound, Kinds, EndKinds, RoomKinds, Alive
    <3>2. "acted" \notin SourceKinds \cup {"destErrored", "part"}
      BY DEF SourceKinds
    <3>3. /\ v.pipe.parts = {} /\ v.pipe.waitsOn = NoWrite /\ ~ Has(v.jobs, EndKinds)
          /\ v.pipe.lock = "held" /\ v.pipe.shuttingDown
      BY <2>1, <2>3, <2>8 DEF Steady
    <3>4. Plan(t) /\ Facts(t) /\ Past(t)
      BY <2>2, <2>4, <2>5, <2>6, <3>1, <3>2, <3>3, QueueEnds
    <3> QED
      BY <3>4 DEF Sure
  <2> QED
    BY <2>7, <2>8
<1> HIDE DEF v, t
<1> QED
  BY <1>1, <1>3

\* A microtask, whichever it is, that has left the queue.
LEMMA PerformEnds ==
  ASSUME NEW s, Good(s), Loops(s), Sure(s), NEW job, Due(s, job),
         job.kind \in LoopKinds => Quiet(s) /\ s.pipe.lock # "idle",
         job.kind \in RoomKinds /\ s.pipe.lock = "held" => Room(s.dest)
  PROVE  Sure(Perform(s, job))
<1>1. CASE job.hops > 0
  <2> DEFINE less == job.hops - 1
  <2>1. Perform(s, job) = Queue(s, job.kind, job.arg, less)
    BY <1>1 DEF Perform
  <2> HIDE DEF less
  <2> QED
    BY <1>1, <2>1, RequeueEnds
<1>2. CASE ~ (job.hops > 0)
  <2>1. job.kind = "read" => Sure(ReadChunk(s))
    <3>1. job.kind = "read" => job.kind \in LoopKinds /\ Alive(job)
      BY DEF LoopKinds, RoomKinds, Alive
    <3> QED
      BY <3>1, ReadChunkEnds DEF Due
  <2>2. job.kind = "chunk" => Sure(WriteChunk(s, job.arg))
    <3>1. job.kind = "chunk" =>
            /\ job.kind \in LoopKinds /\ job.kind \in RoomKinds
            /\ job.arg \in Ours => Alive(job)
      BY DEF LoopKinds, RoomKinds, Alive
    <3> QED
      BY <3>1, WriteChunkEnds DEF Due
  <2>3. job.kind = "next" => Sure(PipeStep(s))
    <3>1. job.kind = "next" => job.kind \in LoopKinds
      BY DEF LoopKinds, RoomKinds
    <3> QED
      BY <3>1, StepEnds
  <2>4. job.kind = "written" => Sure(Written(s, job.arg))
    BY WrittenEnds DEF Due, Sound
  <2>5. job.kind \in EndKinds => ~ Ending(s) /\ s.pipe.lock = "held" /\ s.pipe.shuttingDown
    BY DEF Due
  <2>6. job.kind = "waited" => Sure(Waited(s, job.arg))
    BY <2>5, WaitedEnds DEF EndKinds
  <2>7. job.kind = "rest" => Sure(DoTheRest(s))
    BY <2>5, DoTheRestEnds DEF EndKinds, Sure
  <2>8. job.kind = "part" => Sure(PartOfAll(s, job.arg[1], job.arg[2]))
    BY PartOfAllEnds DEF Due
  <2>9. job.kind = "acted" => Sure(Finalize(s, s.pipe.isError \/ job.arg = "rejected"))
    <3>1. job.kind = "acted" =>
            /\ ~ Ending(s) /\ s.pipe.lock = "held" /\ s.pipe.shuttingDown
            /\ Past(s) /\ ~ Live(s.jobs)
      BY <2>5 DEF Due, EndKinds
    <3> QED
      BY <3>1, FinalizeEnds DEF Sure
  <2>10. /\ job.kind \in SourceKinds => Sure(SourceErrored(s)) /\ Sure(SourceClosed(s))
         /\ job.kind = "destErrored" => Sure(DestErrored(s))
    BY EndsEnds DEF Due
  <2>11. job.kind \in Kinds
    BY DEF Due, Sound
  <2> QED
    BY <1>2, <2>1, <2>2, <2>3, <2>4, <2>6, <2>7, <2>8, <2>9, <2>10, <2>11
       DEF Perform, Kinds, EndKinds, SourceKinds
<1> QED
  BY <1>1, <1>2

-----------------------------------------------------------------------------
(* Every step goes to plan.                                                *)

\* The end of the pipe is where a turn starts from and ends.
PlanInv == LoopInv /\ Sure(Now)

\* A turn ends.
LEMMA BecomeSure ==
  ASSUME NEW after, Sure(after), Become(after)
  PROVE  Sure(Now)'
<1>1. source' = after.source /\ dest' = after.dest /\ pipe' = after.pipe /\ jobs' = after.jobs
  BY DEF Become
<1>2. /\ Now.source' = after.source /\ Now.dest' = after.dest /\ Now.pipe' = after.pipe
      /\ Now.jobs' = after.jobs
  BY <1>1 DEF Now
<1> QED
  BY <1>2 DEF Sure, Plan, Facts, Ending, Gone, Past

\* The source acts, or the program on a stream without a reader.
LEMMA SourceDoesEnds ==
  ASSUME PlanInv, NEW r, RInv(r), r.reader = source.reader, Serves(r, source, FALSE),
         Become(WithSource(Now, r))
  PROVE  Sure(Now)'
<1> DEFINE t == WithSource(Now, r)
<1>1. /\ Loops(Now) /\ Sure(Now) /\ Locks(pipe, dest, source)
      /\ Now.source = source /\ Now.pipe = pipe
  BY DEF PlanInv, LoopInv, Inv, Now
<1>2. Has(Now.jobs, {"acted"}) => Now.source.state # "readable"
  BY <1>1 DEF Sure, Gone, Past
<1>3. Now.pipe.lock = "held" /\ ~ Now.pipe.shuttingDown => r.reader
  BY <1>1 DEF Locks
<1>4. /\ Plan(t) /\ Facts(t) /\ (Gone(t) => Gone(Now)) /\ Steady(t, Now)
      /\ Heeds(t, Now, {"cancel"}) /\ t.dest = Now.dest /\ t.source.state = r.state
  BY <1>1, <1>2, <1>3, WithSourceEnds DEF Sure
<1> HIDE DEF t
<1>5. Past(Now) => Past(t)
  BY <1>1, <1>4 DEF Past, Serves
<1>6. Sure(t)
  BY <1>1, <1>4, <1>5 DEF Sure
<1> QED
  BY <1>6, BecomeSure DEF t

\* The sink acts, or the program on a stream without a writer.
LEMMA DestDoesEnds ==
  ASSUME PlanInv, NEW w, WInv(w), w.writer = dest.writer, Level(w), News(w),
         Takes(w) => Takes(dest),
         Stuck(w) => pipe.action = "close" /\ pipe.parts = {"close"},
         pipe.lock = "idle" => ~ HasOurs(w),
         Become(WithDest(Now, w))
  PROVE  Sure(Now)'
<1> DEFINE t == WithDest(Now, w)
<1>1. /\ Loops(Now) /\ Sure(Now) /\ Locks(pipe, dest, source)
      /\ Now.dest = dest /\ Now.pipe = pipe
  BY DEF PlanInv, LoopInv, Inv, Now
<1>2. Has(Now.jobs, {"acted"}) => ~ Takes(Now.dest)
  BY <1>1 DEF Sure, Gone, Past
<1>3. Now.pipe.lock = "held" /\ ~ Now.pipe.shuttingDown => w.writer
  BY <1>1 DEF Locks
<1>4. /\ Plan(t) /\ Facts(t) /\ (Gone(t) => Gone(Now)) /\ Steady(t, Now)
      /\ Heeds(t, Now, EndingsOf(w)) /\ t.source = Now.source /\ Bare(t.dest, w)
  BY <1>1, <1>2, <1>3, WithDestEnds DEF Sure
<1> HIDE DEF t
<1>5. Past(Now) => Past(t)
  BY <1>1, <1>4, BareSame DEF Past
<1>6. Sure(t)
  BY <1>1, <1>4, <1>5 DEF Sure
<1> QED
  BY <1>6, BecomeSure DEF t

\* A job that leaves the queue finds what it was queued for.
LEMMA TakenSure ==
  ASSUME PlanInv, jobs # <<>>
  PROVE  LET s == [Now EXCEPT !.jobs = Tail(@)]
         IN  Sure(s) /\ Due(s, Head(jobs))
<1> DEFINE s == [Now EXCEPT !.jobs = Tail(@)]
           job == Head(jobs)
<1>1. jobs # <<>>
  OBVIOUS
<1>2. /\ s.pipe = pipe /\ s.source = source /\ s.dest = dest /\ s.jobs = Tail(jobs)
  BY DEF Now
<1>3. /\ Now.source = source /\ Now.dest = dest /\ Now.pipe = pipe /\ Now.jobs = jobs
  BY DEF Now
<1>4. /\ Good(s) /\ Loops(s)
      /\ job.kind \in LoopKinds => Quiet(s) /\ s.pipe.lock # "idle"
      /\ job.kind \in RoomKinds /\ s.pipe.lock = "held" => Room(s.dest)
      /\ \A K : /\ Has(s.jobs, K) => Has(jobs, K)
                /\ Single(jobs, K) => Single(s.jobs, K)
                /\ job.kind \in K => Has(jobs, K)
                /\ Single(jobs, K) /\ job.kind \in K => ~ Has(s.jobs, K)
  BY <1>1, TakenLoops DEF PlanInv
<1> HIDE DEF s
<1>5. Line(jobs) /\ Sure(Now)
  BY <1>3 DEF PlanInv, LoopInv, Loops
<1>6. /\ Live(s.jobs) => Live(jobs)
      /\ Alive(job) => Live(jobs)
      /\ Sound(job) /\ \A i \in 1 .. Len(s.jobs) : Sound(s.jobs[i])
      /\ Behind(s.jobs) /\ (job.kind = "acted" => ~ Live(s.jobs))
  BY <1>1, <1>2, <1>3, <1>5, ShorterPlan DEF Sure, Plan
<1> HIDE DEF job
<1>7. Ending(s) => Ending(Now)
  BY <1>2, <1>3, <1>4 DEF Ending
<1>8. Plan(s)
  BY <1>2, <1>3, <1>4, <1>5, <1>6, <1>7 DEF Sure, Plan
<1>9. Facts(s)
  BY <1>2, <1>3, <1>4, <1>5 DEF Sure, Facts
<1>10. (Gone(s) => Gone(Now)) /\ (Past(s) <=> Past(Now))
  BY <1>2, <1>3, <1>4 DEF Gone, Past
<1>11. Sure(s)
  BY <1>5, <1>8, <1>9, <1>10 DEF Sure
<1>12. Due(s, job)
  <2>1. ASSUME job.kind \in EndKinds
        PROVE  ~ Ending(s) /\ s.pipe.lock = "held" /\ s.pipe.shuttingDown
    <3>1. Has(jobs, EndKinds) /\ ~ Has(s.jobs, EndKinds)
      BY <1>3, <1>4, <1>5, <2>1 DEF Sure, Plan
    <3>2. /\ Ending(Now) /\ pipe.waitsOn = NoWrite /\ pipe.parts = {}
      BY <1>3, <1>5, <3>1 DEF Sure, Plan, Ending
    <3> QED
      BY <1>2, <1>3, <1>5, <3>1, <3>2 DEF Sure, Plan, Ending
  <2>2. job.kind = "acted" => Past(s) /\ ~ Live(s.jobs)
    BY <1>3, <1>4, <1>5, <1>6, <1>10 DEF Sure, Gone
  <2>3. Alive(job) => s.pipe.lock = "held"
    BY <1>2, <1>3, <1>5, <1>6 DEF Sure, Plan
  <2>4. job.kind \in SourceKinds => s.source.state # "readable" /\ s.pipe.lock # "idle"
    <3>1. job.kind \in SourceKinds =>
            Has(jobs, SourceKinds) /\ Has(jobs, SourceKinds \cup {"destErrored"})
      BY <1>4
    <3> QED
      BY <1>2, <1>3, <1>5, <3>1 DEF Sure, Plan, Facts
  <2>5. job.kind = "destErrored" => ~ Takes(s.dest) /\ s.pipe.lock # "idle"
    <3>1. job.kind = "destErrored" =>
            Has(jobs, {"destErrored"}) /\ Has(jobs, SourceKinds \cup {"destErrored"})
      BY <1>4
    <3> QED
      BY <1>2, <1>3, <1>5, <3>1 DEF Sure, Plan, Facts
  <2>6. job.kind = "part" => s.pipe.action = "signal" /\ s.pipe.shuttingDown
    <3>1. job.kind = "part" => Has(jobs, {"part"})
      BY <1>4
    <3> QED
      BY <1>2, <1>3, <1>5, <3>1 DEF Sure, Plan
  <2> QED
    BY <1>6, <2>1, <2>2, <2>3, <2>4, <2>5, <2>6 DEF Due
<1> QED
  BY <1>11, <1>12 DEF s, job

\* A microtask leaves the queue and runs.
LEMMA RunJobEnds ==
  ASSUME PlanInv, RunJob
  PROVE  Sure(Now)'
<1> DEFINE s == [Now EXCEPT !.jobs = Tail(@)]
           job == Head(jobs)
<1>1. jobs # <<>> /\ Become(Perform(s, job))
  BY DEF RunJob
<1>2. Sure(s) /\ Due(s, job)
  BY <1>1, TakenSure
<1>3. /\ Good(s) /\ Loops(s)
      /\ job.kind \in LoopKinds => Quiet(s) /\ s.pipe.lock # "idle"
      /\ job.kind \in RoomKinds /\ s.pipe.lock = "held" => Room(s.dest)
  BY <1>1, TakenLoops DEF PlanInv
<1> HIDE DEF s, job
<1>4. Sure(Perform(s, job))
  BY <1>2, <1>3, PerformEnds
<1> QED
  BY <1>1, <1>4, BecomeSure DEF s, job

\* A pipe that has begun is to end in no way yet.
LEMMA BegunEnds ==
  ASSUME PlanInv, PipeStreams, NEW options, options \subseteq {"preventClose"}
  PROVE  Sure(Begun(options))
<1> DEFINE s == Begun(options)
<1>1. /\ s.jobs = jobs /\ s.source = R!AcquireReader(source) /\ s.dest = W!AcquireWriter(dest)
      /\ s.pipe = [pipe EXCEPT !.lock = "held", !.options = options]
  BY BegunLoops DEF PlanInv
<1> HIDE DEF s
<1>2. /\ s.pipe.lock = "held" /\ s.pipe.options = options
      /\ s.pipe.shuttingDown = pipe.shuttingDown /\ s.pipe.action = pipe.action
      /\ s.pipe.waitsOn = pipe.waitsOn /\ s.pipe.parts = pipe.parts
      /\ s.pipe.asserts = pipe.asserts
  BY <1>1, PipeFields DEF PlanInv, LoopInv, Inv
<1>3. /\ Loops(Now) /\ Sure(Now) /\ WInv(dest) /\ Level(dest) /\ dest.news = <<>>
      /\ Heeded(source) /\ pipe.lock = "idle" /\ ~ dest.writer
      /\ Now.source = source /\ Now.dest = dest /\ Now.pipe = pipe /\ Now.jobs = jobs
  BY DEF PlanInv, LoopInv, Inv, Loops, Now, PipeStreams
<1>4. s.source.state = source.state
  <2>1. R!AcquireReader(source).state = source.state
    BY <1>3, AcquireHeeds
  <2> QED
    BY <1>1, <2>1
<1>5. /\ Takes(s.dest) <=> Takes(dest)
      /\ Stuck(s.dest) <=> Stuck(dest)
  <2>1. /\ Takes(W!AcquireWriter(dest)) <=> Takes(dest)
        /\ Stuck(W!AcquireWriter(dest)) <=> Stuck(dest)
    BY <1>3, AcquireFine
  <2> QED
    BY <1>1, <2>1
<1>6. ~ Stuck(dest)
  BY <1>3 DEF Sure, Facts, Stuck
<1>7. ~ Ending(Now) /\ ~ Live(jobs)
  BY <1>3 DEF Sure, Plan
<1>8. ~ Ending(s)
  BY <1>1, <1>2, <1>3, <1>7 DEF Ending
<1>9. Plan(s)
  BY <1>1, <1>2, <1>3, <1>7, <1>8 DEF Sure, Plan
<1>10. Facts(s)
  BY <1>1, <1>2, <1>3, <1>4, <1>5, <1>6 DEF Sure, Facts
<1>11. ~ Gone(s)
  BY <1>2, <1>8 DEF Gone, Ending, Has, EndKinds
<1> QED
  BY <1>9, <1>10, <1>11 DEF Sure, s

\* A pipe starts, on streams that may have ended.
LEMMA PipeStreamsEnds ==
  ASSUME PlanInv, PipeOptions \subseteq SUBSET {"preventClose"}, PipeStreams
  PROVE  Sure(Now)'
<1>1. PICK options \in PipeOptions :
        LET s1 == Begun(options)
            s2 == IF s1.source.state = "errored" THEN SourceErrored(s1) ELSE s1
            s3 == IF s2.dest.state = "errored" THEN DestErrored(s2) ELSE s2
            s4 == IF s3.source.state = "closed" THEN SourceClosed(s3) ELSE s3
            s5 == IF W!CloseQueuedOrInFlight(s4.dest) \/ s4.dest.state = "closed"
                  THEN DestErrored(s4) ELSE s4
        IN  Become(PipeStep(s5))
  BY DEF PipeStreams, Begun
<1> DEFINE s1 == Begun(options)
           s2 == IF s1.source.state = "errored" THEN SourceErrored(s1) ELSE s1
           s3 == IF s2.dest.state = "errored" THEN DestErrored(s2) ELSE s2
           s4 == IF s3.source.state = "closed" THEN SourceClosed(s3) ELSE s3
           s5 == IF W!CloseQueuedOrInFlight(s4.dest) \/ s4.dest.state = "closed"
                 THEN DestErrored(s4) ELSE s4
           Starts(s) == Good(s) /\ Loops(s) /\ s.pipe.lock # "idle" /\ Sure(s)
<1>2. Become(PipeStep(s5))
  BY <1>1
<1>3. Starts(s1)
  <2>1. options \subseteq {"preventClose"}
    OBVIOUS
  <2>2. Good(s1) /\ Loops(s1) /\ s1.pipe.lock = "held"
    BY BegunLoops DEF PlanInv
  <2>3. Sure(s1)
    BY <2>1, BegunEnds
  <2> QED
    BY <2>2, <2>3
<1> HIDE DEF s1
<1>4. ASSUME NEW s, Starts(s)
      PROVE  /\ s.source.state # "readable" => Starts(SourceErrored(s)) /\ Starts(SourceClosed(s))
             /\ ~ Takes(s.dest) => Starts(DestErrored(s))
  BY <1>4, EndsGood, EndsOnward, EndsEnds DEF Onward
<1>5. Starts(s2)
  <2>1. s1.source.state = "errored" => s1.source.state # "readable"
    OBVIOUS
  <2> HIDE DEF Starts
  <2> QED
    BY <1>3, <1>4, <2>1
<1> HIDE DEF s2
<1>6. Starts(s3)
  <2>1. s2.dest.state = "errored" => ~ Takes(s2.dest)
    BY DEF Takes
  <2> HIDE DEF Starts
  <2> QED
    BY <1>4, <1>5, <2>1
<1> HIDE DEF s3
<1>7. Starts(s4)
  <2>1. s3.source.state = "closed" => s3.source.state # "readable"
    OBVIOUS
  <2> HIDE DEF Starts
  <2> QED
    BY <1>4, <1>6, <2>1
<1> HIDE DEF s4
<1>8. Starts(s5)
  <2>1. W!CloseQueuedOrInFlight(s4.dest) \/ s4.dest.state = "closed" => ~ Takes(s4.dest)
    BY DEF Takes
  <2> HIDE DEF Starts
  <2> QED
    BY <1>4, <1>7, <2>1
<1> HIDE DEF s5
<1>9. Sure(PipeStep(s5))
  BY <1>8, StepEnds
<1> QED
  BY <1>2, <1>9, BecomeSure

\* The program writes through a writer of its own.
LEMMA ProgramWritesEnds ==
  ASSUME PlanInv, ProgramWrites
  PROVE  Sure(Now)'
<1> DEFINE a == W!AcquireWriter(dest)
           b == W!WriterWrite(a, UserChunk)
           d == W!WriterRelease(b)
<1>1. ~ dest.writer /\ Become(WithDest(Now, d))
  BY DEF ProgramWrites
<1>2. WInv(dest) /\ Level(dest) /\ dest.news = <<>>
  BY DEF PlanInv, LoopInv, Inv, Loops, Now
<1>3. /\ WInv(a) /\ a.writer /\ Level(a) /\ a.news = <<>>
      /\ (Takes(a) <=> Takes(dest)) /\ (HasOurs(a) <=> HasOurs(dest))
      /\ (Stuck(a) <=> Stuck(dest))
  BY <1>1, <1>2, AcquireInv, AcquireFine
<1> HIDE DEF a
<1>4. UserChunk \in AllChunks /\ UserChunk \notin Ours
  BY ChunksAssumption DEF AllChunks, Ours
<1>5. WInv(b) /\ b.writer /\ Fine(b) /\ GoesOn(b, a) /\ (HasOurs(b) => HasOurs(a))
  BY <1>3, <1>4, WriteInv, WriteFine
<1> HIDE DEF b
<1>6. WInv(d) /\ ~ d.writer /\ Fine(d) /\ Goes(d, b)
  BY <1>5, ReleaseInv, ReleaseFine
<1> HIDE DEF d
<1>7. /\ Takes(d) => Takes(dest)
      /\ Stuck(d) => Stuck(dest)
      /\ HasOurs(d) => HasOurs(dest)
  BY <1>3, <1>5, <1>6 DEF Goes, GoesOn
<1>8. /\ Stuck(dest) => pipe.action = "close" /\ pipe.parts = {"close"}
      /\ pipe.lock = "idle" => ~ HasOurs(dest)
  BY DEF PlanInv, Sure, Facts, Now
<1>9. d.writer = dest.writer
  BY <1>1, <1>2, <1>6 DEF WInv, Shape
<1> QED
  BY <1>1, <1>6, <1>7, <1>8, <1>9, DestDoesEnds DEF Fine

\* The program closes a stream without a writer: no chunk of a pipe is left in it.
LEMMA ProgramClosesEnds ==
  ASSUME PlanInv, ProgramCloses
  PROVE  Sure(Now)'
<1> DEFINE w == W!StreamClose(dest)
<1>1. ~ dest.writer /\ ~ W!CloseQueuedOrInFlight(dest) /\ Become(WithDest(Now, w))
  BY DEF ProgramCloses
<1>2. /\ WInv(dest) /\ Level(dest) /\ dest.news = <<>> /\ Sure(Now)
      /\ Locks(pipe, dest, source) /\ Now.pipe = pipe /\ Now.dest = dest
  BY DEF PlanInv, LoopInv, Inv, Loops, Now
<1>3. WInv(w) /\ w.writer = dest.writer /\ Fine(w) /\ GoesToClose(w, dest)
  BY <1>1, <1>2, CloseInv, CloseFine
<1> HIDE DEF w
<1>4. pipe.lock = "idle" => ~ HasOurs(dest)
  BY <1>2 DEF Sure, Facts
<1>5. pipe.lock = "released" => dest.state # "writable"
  BY <1>1, <1>2 DEF Sure, Gone, Past, Takes
<1>6. pipe.lock \in {"idle", "released"}
  BY <1>1, <1>2 DEF Locks
<1>7. ~ Stuck(w) /\ ~ Takes(w) /\ (HasOurs(w) => HasOurs(dest))
  BY <1>3, <1>4, <1>5, <1>6 DEF GoesToClose
<1> QED
  BY <1>1, <1>3, <1>4, <1>7, DestDoesEnds DEF Fine

\* The abort signal ends the pipe.
LEMMA SignalAbortsEnds ==
  ASSUME PlanInv, SignalAborts
  PROVE  Sure(Now)'
<1> DEFINE s == [Now EXCEPT !.pipe.signalled = TRUE]
<1>1. Become(ShutdownWithAction(s, "signal", TRUE))
  BY DEF SignalAborts
<1>2. Good(s)
  BY PipeFields DEF PlanInv, LoopInv, Inv, Good, Fit, Locks, Now
<1>3. Loops(s)
  BY ClosureOnward DEF PlanInv, LoopInv, Onward
<1>4. /\ Steady(s, Now) /\ s.jobs = Now.jobs /\ s.pipe.parts = Now.pipe.parts
      /\ s.source = Now.source /\ s.dest = Now.dest /\ s.pipe.lock = "held"
  BY PipeFields DEF PlanInv, LoopInv, Inv, Steady, Now, SignalAborts
<1> HIDE DEF s
<1>5. Sure(s)
  BY <1>4, AsideSure DEF PlanInv
<1>6. "signal" \in Actions
  BY DEF Actions
<1>7. Sure(ShutdownWithAction(s, "signal", TRUE))
  BY <1>2, <1>3, <1>4, <1>5, <1>6, WithActionEnds DEF Sure
<1> QED
  BY <1>1, <1>7, BecomeSure

\* Every step, one case per action.
LEMMA StepSure ==
  ASSUME PlanInv, PipeOptions \subseteq SUBSET {"preventClose"}, [Next]_vars
  PROVE  Sure(Now)'
<1>1. /\ WInv(dest) /\ Level(dest) /\ dest.news = <<>> /\ RInv(source) /\ Heeded(source)
      /\ Stuck(dest) => pipe.action = "close" /\ pipe.parts = {"close"}
      /\ pipe.lock = "idle" => ~ HasOurs(dest)
  BY DEF PlanInv, LoopInv, Inv, Loops, Sure, Facts, Now
<1>2. ASSUME NEW w, WInv(w), w.writer = dest.writer, Fine(w), Goes(w, dest),
             Become(WithDest(Now, w))
      PROVE  Sure(Now)'
  BY <1>1, <1>2, DestDoesEnds DEF Fine, Goes
<1>3. CASE RunJob
  BY <1>3, RunJobEnds
<1>4. CASE PipeStreams
  BY <1>4, PipeStreamsEnds
<1>5. CASE SignalAborts
  BY <1>5, SignalAbortsEnds
<1>6. CASE SourceEnqueues
  <2>1. PICK c : Become(WithSource(Now, R!Enqueue(source, c)))
    BY <1>6 DEF SourceEnqueues, SourceDoes
  <2>2. /\ RInv(R!Enqueue(source, c)) /\ R!Enqueue(source, c).reader = source.reader
        /\ Serves(R!Enqueue(source, c), source, FALSE)
    BY <1>1, EnqueueInv, EnqueueServes
  <2> QED
    BY <2>1, <2>2, SourceDoesEnds
<1>7. CASE SourceCloses
  <2>1. Become(WithSource(Now, R!ControllerClose(source)))
    BY <1>7 DEF SourceCloses, SourceDoes
  <2>2. /\ RInv(R!ControllerClose(source)) /\ R!ControllerClose(source).reader = source.reader
        /\ Serves(R!ControllerClose(source), source, FALSE)
    BY <1>1, SourceCloseInv, SourceCloseServes
  <2> QED
    BY <2>1, <2>2, SourceDoesEnds
<1>8. CASE SourceErrors
  <2>1. Become(WithSource(Now, R!ControllerError(source)))
    BY <1>8 DEF SourceErrors, SourceDoes
  <2>2. /\ RInv(R!ControllerError(source)) /\ R!ControllerError(source).reader = source.reader
        /\ Serves(R!ControllerError(source), source, FALSE)
    BY <1>1, SourceErrorInv, SourceErrorServes
  <2> QED
    BY <2>1, <2>2, SourceDoesEnds
<1>9. CASE SourceStarts
  <2>1. ~ source.started
    BY <1>9 DEF SourceStarts
  <2>2. PICK ok \in BOOLEAN : Become(WithSource(Now, R!FinishStart(source, ok)))
    BY <1>9 DEF SourceStarts, SourceDoes
  <2>3. RInv(R!FinishStart(source, ok)) /\ R!FinishStart(source, ok).reader = source.reader
    BY <1>1, <2>1, SourceInv
  <2>4. Serves(R!FinishStart(source, ok), source, FALSE)
    BY <1>1, <2>1, AnswersServe
  <2> QED
    BY <2>2, <2>3, <2>4, SourceDoesEnds
<1>10. CASE SourcePulled
  <2>1. PICK ok \in BOOLEAN : Become(WithSource(Now, R!FinishPull(source, ok)))
    BY <1>10 DEF SourcePulled, SourceDoes
  <2>2. RInv(R!FinishPull(source, ok)) /\ R!FinishPull(source, ok).reader = source.reader
    BY <1>1, SourceInv
  <2> QED
    BY <1>1, <2>1, <2>2, AnswersServe, SourceDoesEnds
<1>11. CASE SourceCancelled
  <2>1. PICK ok \in BOOLEAN : Become(WithSource(Now, R!FinishCancel(source, ok)))
    BY <1>11 DEF SourceCancelled, SourceDoes
  <2>2. RInv(R!FinishCancel(source, ok)) /\ R!FinishCancel(source, ok).reader = source.reader
    BY <1>1, SourceInv
  <2> QED
    BY <1>1, <2>1, <2>2, AnswersServe, SourceDoesEnds
<1>12. CASE SinkAnswers
  <2>1. dest.sink # "idle"
    BY <1>12 DEF SinkAnswers
  <2>2. PICK ok \in BOOLEAN : Become(WithDest(Now, W!SinkAnswers(dest, ok)))
    BY <1>12 DEF SinkAnswers, DestDoes
  <2> DEFINE w == W!SinkAnswers(dest, ok)
  <2>3. WInv(w) /\ w.writer = dest.writer /\ Fine(w) /\ Goes(w, dest)
    BY <1>1, <2>1, AnswersInv, AnswersFine
  <2> HIDE DEF w
  <2>4. Become(WithDest(Now, w))
    BY <2>2 DEF w
  <2> QED
    BY <1>2, <2>3, <2>4
<1>13. CASE SinkErrors
  <2> DEFINE w == W!ControllerError(dest)
  <2>1. dest.state = "writable" /\ Become(WithDest(Now, w))
    BY <1>13 DEF SinkErrors, DestDoes
  <2>2. WInv(w) /\ w.writer = dest.writer /\ Fine(w) /\ Goes(w, dest)
    BY <1>1, <2>1, ControllerErrorInv, SinkErrorFine
  <2> HIDE DEF w
  <2> QED
    BY <1>2, <2>1, <2>2
<1>14. CASE ProgramWrites
  BY <1>14, ProgramWritesEnds
<1>15. CASE ProgramCloses
  BY <1>15, ProgramClosesEnds
<1>16. CASE ProgramAborts
  <2> DEFINE w == W!StreamAbort(dest)
  <2>1. Become(WithDest(Now, w))
    BY <1>16 DEF ProgramAborts
  <2>2. WInv(w) /\ w.writer = dest.writer /\ Fine(w) /\ Goes(w, dest)
    BY <1>1, AbortInv, AbortFine
  <2> HIDE DEF w
  <2> QED
    BY <1>2, <2>1, <2>2
<1>17. CASE ProgramCancels
  <2>1. Become(WithSource(Now, R!StreamCancel(source)))
    BY <1>17 DEF ProgramCancels
  <2>2. RInv(R!StreamCancel(source)) /\ R!StreamCancel(source).reader = source.reader
        /\ Serves(R!StreamCancel(source), source, FALSE)
    BY <1>1, CancelInv, CancelServes
  <2> QED
    BY <2>1, <2>2, SourceDoesEnds
<1>18. CASE UNCHANGED vars
  <2>1. source' = source /\ dest' = dest /\ pipe' = pipe /\ jobs' = jobs
    BY <1>18 DEF vars
  <2>2. Become(Now) /\ Sure(Now)
    BY <2>1 DEF Become, Now, PlanInv
  <2> QED
    BY <2>2, BecomeSure
<1> QED
  BY <1>3, <1>4, <1>5, <1>6, <1>7, <1>8, <1>9, <1>10, <1>11, <1>12, <1>13, <1>14, <1>15,
     <1>16, <1>17, <1>18 DEF Next

\* No stream, no queue, no pipe yet.
LEMMA InitEnds == Init => PlanInv
<1> SUFFICES ASSUME Init
             PROVE  PlanInv
  OBVIOUS
<1>1. LoopInv
  BY InitLoops
<1>2. /\ Now.jobs = <<>> /\ Now.dest = W!NewWritable /\ Now.source = R!NewReadable
      /\ Now.pipe = IdlePipe
  BY DEF Init, Now
<1>3. /\ IdlePipe.lock = "idle" /\ IdlePipe.shuttingDown = FALSE /\ IdlePipe.parts = {}
      /\ IdlePipe.waitsOn = NoWrite /\ IdlePipe.options = {} /\ IdlePipe.asserts = TRUE
      /\ IdlePipe.action = "none"
  BY DEF IdlePipe
<1>4. ~ HasOurs(W!NewWritable)
  BY NewFine
<1>5. /\ \A K : ~ Has(<<>>, K) /\ Single(<<>>, K)
      /\ ~ Live(<<>>) /\ Behind(<<>>) /\ \A i \in 1 .. Len(<<>>) : Sound(<<>>[i])
  BY DEF Has, Single, Live, Behind
<1>6. ~ Ending(Now)
  BY <1>2, <1>3, <1>5 DEF Ending
<1>7. Plan(Now)
  BY <1>2, <1>3, <1>5, <1>6 DEF Plan
<1>8. Facts(Now)
  BY <1>2, <1>3, <1>4, <1>5 DEF Facts, Stuck
<1>9. ~ Gone(Now)
  BY <1>2, <1>3, <1>5 DEF Gone
<1> QED
  BY <1>1, <1>7, <1>8, <1>9 DEF PlanInv, Sure

\* The end of the pipe goes to plan in every state.
LEMMA PlanInvHolds ==
  PipeOptions \subseteq SUBSET {"preventClose"} => (Spec => []PlanInv)
<1>1. PipeOptions \subseteq SUBSET {"preventClose"} /\ PlanInv /\ [Next]_vars => PlanInv'
  BY StepLoopInv, StepSure DEF PlanInv
<1>2. PipeOptions \subseteq SUBSET {"preventClose"} =>
        [](PipeOptions \subseteq SUBSET {"preventClose"})
  OBVIOUS
<1> QED
  BY InitEnds, <1>1, <1>2, PTL DEF Spec

(* No assert() of the streams or of the pipe fails, with or without        *)
(* preventClose: the pipe reads and writes only while it holds the reader  *)
(* and the writer, finalize runs once, and the promises of writes, closes  *)
(* and aborts are handed over as the asserts demand.  With preventAbort or *)
(* preventCancel it is not so: shutdown() without an action waits for the  *)
(* last write and finalizes at once all the same, and the loop may find    *)
(* the locks gone (the run pipe_shutdown).                                 *)
THEOREM NoAssertionFailsHolds ==
  PipeOptions \subseteq SUBSET {"preventClose"} => (Spec => []NoAssertionFails)
<1>1. PlanInv => NoAssertionFails
  <2>1. PlanInv => WInv(dest) /\ RInv(source) /\ pipe.asserts = TRUE
    BY DEF PlanInv, LoopInv, Inv, Sure, Plan, Now
  <2> QED
    BY <2>1 DEF NoAssertionFails, StreamAsserts, WInv, Called, RInv
<1> QED
  BY <1>1, PlanInvHolds, PTL

(* A pipe that has settled has let go of both streams, and both have       *)
(* ended: the action that passes the end of one on to the other has been   *)
(* taken before, whichever wait or microtask it was left to, and no chunk  *)
(* of the pipe is still written to a stream that takes writes.  With       *)
(* preventAbort or preventCancel a stream is left open on purpose.         *)
THEOREM SettledIsOverHolds ==
  PipeOptions \subseteq SUBSET {"preventClose"} => (Spec => []SettledIsOver)
<1>1. ASSUME PlanInv
      PROVE  SettledIsOver
  <2>1. /\ WInv(dest) /\ Locks(pipe, dest, source) /\ Sure(Now)
        /\ Now.source = source /\ Now.dest = dest /\ Now.pipe = pipe
    BY <1>1 DEF PlanInv, LoopInv, Inv, Now
  <2>2. pipe.outcome # "none" <=> pipe.lock = "released"
    BY <2>1 DEF Locks
  <2>3. ASSUME pipe.outcome # "none"
        PROVE  source.state # "readable" /\ ~ Takes(dest) /\ ~ Stuck(dest)
    <3>1. pipe.lock = "released"
      BY <2>2, <2>3
    <3>2. Past(Now)
      BY <2>1, <3>1 DEF Sure, Gone
    <3>3. pipe.parts = {}
      BY <2>1, <3>1 DEF Sure, Plan, Ending
    <3> QED
      BY <2>1, <3>2, <3>3 DEF Past, Sure, Facts
  <2>4. dest.inFlightWrite \in Ours => HasOurs(dest) /\ dest.state \in {"writable", "erroring"}
    <3>1. NoWrite \notin Ours
      BY ChunksAssumption DEF Ours
    <3> QED
      BY <2>1, <3>1 DEF HasOurs, WInv, Sink, Open
  <2> QED
    BY <2>2, <2>3, <2>4 DEF SettledIsOver, Takes, Stuck, Ours
<1> QED
  BY <1>1, PlanInvHolds, PTL
=============================================================================
