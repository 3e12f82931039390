--------------------------- MODULE DeliveryProofs ---------------------------
(***************************************************************************)
(* PipeTo implements Delivery, for any chunks and high water marks: the    *)
(* chunks that have been enqueued, read, written and handed to the sink    *)
(* are counted, and everything that holds a chunk is placed between two of *)
(* the counts.                                                             *)
(***************************************************************************)
EXTENDS PipeToProofs

-----------------------------------------------------------------------------
(* What the sink was called with.                                          *)

\* What one more call adds to what was piped.
Piped(q, c) == IF c \in Ours THEN Append(q, c) ELSE q

\* The calls of the sink, one after the other.
LEMMA PipedFold ==
  ASSUME NEW w, Len(w.calls) \in Nat
  PROVE \E f : /\ f[0] = <<>>
               /\ \A n \in 1 .. Len(w.calls) : f[n] = Piped(f[n-1], w.calls[n])
               /\ PipedTo(w) = f[Len(w.calls)]
<1> DEFINE m == Len(w.calls)
           To(n, f) == /\ f = [k \in 0 .. n |-> f[k]] /\ f[0] = <<>>
                       /\ \A k \in 1 .. n : f[k] = Piped(f[k-1], w.calls[k])
           K == {n \in 0 .. m : \E f : To(n, f)}
           Indices == 0 .. Len(w.calls)
           Is(f) == f = [n \in Indices |-> IF n = 0 THEN <<>>
                                         ELSE IF w.calls[n] \in ToSet(Chunks)
                                              THEN Append(f[n-1], w.calls[n]) ELSE f[n-1]]
           piped == CHOOSE f : Is(f)
<1>1. PipedTo(w) = piped[Len(w.calls)]
  BY DEF PipedTo
<1>2. m \in Nat
  OBVIOUS
<1> HIDE DEF m, piped
<1>3. 0 \in K
  <2>1. To(0, [n \in 0 .. 0 |-> <<>>])
    OBVIOUS
  <2> HIDE DEF To
  <2>2. 0 \in 0 .. m
    BY <1>2
  <2> QED
    BY <2>1, <2>2
<1>4. ASSUME NEW n \in 0 .. m, n < m, n \in K
      PROVE  n + 1 \in K
  <2>1. PICK f : To(n, f)
    BY <1>4
  <2> DEFINE g == [k \in 0 .. n + 1 |-> IF k <= n THEN f[k] ELSE Piped(f[n], w.calls[n + 1])]
  <2>2. To(n + 1, g)
    <3>1. g = [k \in 0 .. n + 1 |-> g[k]] /\ g[0] = <<>>
      BY <2>1, <1>2
    <3>2. ASSUME NEW k \in 1 .. n + 1 PROVE g[k] = Piped(g[k-1], w.calls[k])
      <4>1. k - 1 \in 0 .. n + 1 /\ k - 1 <= n
        BY <1>2
      <4>2. g[k-1] = f[k-1]
        BY <4>1
      <4>3. CASE k <= n
        <5>1. k \in 1 .. n /\ g[k] = f[k]
          BY <4>3, <1>2
        <5> QED BY <5>1, <4>2, <2>1
      <4>4. CASE ~ (k <= n)
        <5>1. k = n + 1 /\ n = k - 1
          BY <4>4, <1>2
        <5>2. g[k] = Piped(f[n], w.calls[n+1])
          BY <4>4
        <5> QED BY <5>1, <5>2, <4>2
      <4> QED BY <4>3, <4>4
    <3> QED BY <3>1, <3>2
  <2> HIDE DEF g
  <2>3. n + 1 \in 0 .. m
    BY <1>4, <1>2
  <2> HIDE DEF To
  <2> QED BY <2>2, <2>3
<1>5. PICK f : To(m, f)
  <2>1. \A n \in 0 .. m : n \in K
    <3> HIDE DEF K
    <3> QED BY <1>2, <1>3, <1>4, Upto
  <2>2. m \in 0 .. m
    BY <1>2
  <2> QED BY <2>1, <2>2
<1>6. Is(f)
  <2> DEFINE g == [n \in Indices |-> IF n = 0 THEN <<>> ELSE Piped(f[n-1], w.calls[n])]
  <2>1. DOMAIN g = DOMAIN f
    BY <1>5 DEF m
  <2>2. ASSUME NEW n \in Indices PROVE g[n] = f[n]
    <3>1. n = 0 \/ n \in 1 .. m
      BY <1>2 DEF m
    <3> QED BY <3>1, <1>5
  <2>3. f = [n \in DOMAIN f |-> f[n]]
    BY <1>5
  <2>4. f = g
    BY <2>1, <2>2, <2>3
  <2> QED BY <2>4 DEF Piped, Ours
<1>7. Is(piped)
  <2> HIDE DEF Is
  <2> QED BY <1>6 DEF piped
<1>8. piped[0] = <<>> /\ \A n \in 1 .. Len(w.calls) : piped[n] = Piped(piped[n-1], w.calls[n])
  <2>1. \A n \in Indices : piped[n] = IF n = 0 THEN <<>>
                                   ELSE IF w.calls[n] \in ToSet(Chunks)
                                        THEN Append(piped[n-1], w.calls[n]) ELSE piped[n-1]
    BY <1>7
  <2>2. 0 \in Indices /\ \A n \in 1 .. Len(w.calls) : n \in Indices /\ n # 0
    BY <1>2 DEF m
  <2> QED
    BY <2>1, <2>2 DEF Piped, Ours
<1> QED
  BY <1>1, <1>8

\* One call more.
LEMMA PipedAppend ==
  ASSUME NEW w, NEW v, NEW S, w.calls \in Seq(S), NEW c \in S, v.calls = Append(w.calls, c)
  PROVE  PipedTo(v) = Piped(PipedTo(w), c)
<1> DEFINE m == Len(w.calls)
<1>1. /\ m \in Nat /\ Len(v.calls) = m + 1 /\ v.calls[m + 1] = c
      /\ \A i \in 1 .. m : v.calls[i] = w.calls[i]
  OBVIOUS
<1>2. PICK f : /\ f[0] = <<>> /\ \A n \in 1 .. m : f[n] = Piped(f[n-1], w.calls[n])
               /\ PipedTo(w) = f[m]
  BY <1>1, PipedFold
<1>3. PICK g : /\ g[0] = <<>> /\ \A n \in 1 .. m + 1 : g[n] = Piped(g[n-1], v.calls[n])
               /\ PipedTo(v) = g[m + 1]
  <2>1. Len(v.calls) \in Nat
    BY <1>1
  <2>2. PICK g : /\ g[0] = <<>> /\ \A n \in 1 .. Len(v.calls) : g[n] = Piped(g[n-1], v.calls[n])
                 /\ PipedTo(v) = g[Len(v.calls)]
    BY <2>1, PipedFold
  <2> QED
    BY <1>1, <2>2
<1> DEFINE K == {n \in 0 .. m : f[n] = g[n]}
<1> HIDE DEF m
<1>4. 0 \in K
  BY <1>1, <1>2, <1>3
<1>5. ASSUME NEW n \in 0 .. m, n < m, n \in K
      PROVE  n + 1 \in K
  <2>1. n + 1 \in 1 .. m /\ n + 1 \in 1 .. m + 1 /\ (n + 1) - 1 = n /\ n + 1 \in 0 .. m
    BY <1>1, <1>5
  <2>2. f[n + 1] = Piped(f[n], w.calls[n + 1]) /\ g[n + 1] = Piped(g[n], v.calls[n + 1])
    BY <1>2, <1>3, <2>1
  <2> QED
    BY <1>1, <1>5, <2>1, <2>2
<1>6. m \in K
  <2>1. \A n \in 0 .. m : n \in K
    <3> HIDE DEF K
    <3> QED BY <1>1, <1>4, <1>5, Upto
  <2> QED
    BY <1>1, <2>1
<1>7. m + 1 \in 1 .. m + 1 /\ (m + 1) - 1 = m
  BY <1>1
<1>8. g[m + 1] = Piped(g[m], v.calls[m + 1])
  BY <1>3, <1>7
<1> QED
  BY <1>1, <1>2, <1>3, <1>6, <1>8

\* Before the first call.
LEMMA PipedNothing ==
  ASSUME NEW w, w.calls = <<>>
  PROVE  PipedTo(w) = <<>>
<1>1. Len(w.calls) = 0
  OBVIOUS
<1>2. PICK f : f[0] = <<>> /\ PipedTo(w) = f[Len(w.calls)]
  BY <1>1, PipedFold
<1> QED
  BY <1>1, <1>2

\* A chunk more of those the source enqueues.
LEMMA OneMore ==
  ASSUME NEW a \in Nat, a < Len(Chunks)
  PROVE  SubSeq(Chunks, 1, a + 1) = Append(SubSeq(Chunks, 1, a), Chunks[a + 1])
  BY ChunksAssumption

\* Every chunk is one of the pipe's.
LEMMA EveryChunk ==
  /\ Len(Chunks) \in Nat
  /\ \A i \in 1 .. Len(Chunks) : Chunks[i] \in Ours
  /\ \A i, j \in 1 .. Len(Chunks) : Chunks[i] = Chunks[j] => i = j
<1>1. Chunks \in Seq(ToSet(Chunks))
  BY ChunksAssumption
<1>2. Len(Chunks) \in Nat /\ DOMAIN Chunks = 1 .. Len(Chunks)
  BY <1>1
<1>3. IsInjective(Chunks)
  BY ChunksAssumption
<1> QED
  BY <1>1, <1>2, <1>3 DEF IsInjective, Ours

-----------------------------------------------------------------------------
(* The sink: chunks pass through it in order.                              *)

\* A stream that has lost nothing it took, one that closes or has closed, and the news
\* that it has.
Keeps(w) == w.state \in {"writable", "closed"} \/ w.inFlightClose
Ended(w) == W!CloseQueuedOrInFlight(w) \/ w.state = "closed"
CloseTold == <<"close", "resolved">>

\* The chunks of the pipe that wait for the sink are the ones between those it was called
\* with and those that were written, behind what the program has written.
Waiting(w, a, n) ==
  LET k == Len(w.writeRequests)
  IN  /\ n - a <= k
      /\ \A i \in 1 .. k :
           /\ w.queue[i + InFlight(w)] = w.writeRequests[i]
           /\ i <= k - (n - a) => w.writeRequests[i] \notin Ours
           /\ i > k - (n - a) => w.writeRequests[i] = Chunks[n - (k - i)]
      /\ w.inFlightWrite \in Ours => a > 0 /\ w.inFlightWrite = Chunks[a]

\* Of n chunks written the sink was called with the first a.
Order(w, a, n) ==
  /\ a \in Nat /\ n \in Nat /\ a <= n /\ n <= Len(Chunks)
  /\ PipedTo(w) = SubSeq(Chunks, 1, a)
  /\ w.state = "writable" => Waiting(w, a, n)
  /\ Keeps(w) /\ ~ Takes(w) => n = a

\* The fields of a stream that chunks pass through.
Tame(w) == Typed(w) /\ w.calls \in Seq(AllChunks \cup Endings)

\* An operation that neither takes nor passes on a chunk, and does not close.
Drift(v, w) ==
  /\ Tame(v) /\ DOMAIN v = DOMAIN w
  /\ PipedTo(v) = PipedTo(w)
  /\ v.inFlightClose = w.inFlightClose /\ (v.closeRequest => w.closeRequest)
  /\ v.state = w.state \/ (v.state \in {"erroring", "errored"} /\ w.state # "closed")
  /\ v.state = "writable" =>
       /\ v.writeRequests = w.writeRequests /\ v.queue = w.queue
       /\ v.inFlightWrite = w.inFlightWrite /\ v.closeRequest = w.closeRequest
  /\ CloseTold \in NewsOf(v) => CloseTold \in NewsOf(w)
  /\ v.state = "writable" => \A e \in NewsOf(v) : e[1] = "write" => e \in NewsOf(w)

\* One after the other.
LEMMA DriftTwice ==
  ASSUME NEW w, NEW v, NEW u, Drift(v, w), Drift(u, v)
  PROVE  Drift(u, w)
  BY DEF Drift

\* What an operation may not undo.
Follows(v, w) ==
  /\ Takes(v) => Takes(w)
  /\ Keeps(v) => Keeps(w)
  /\ Keeps(v) /\ ~ Takes(v) => ~ Takes(w)
  /\ Ended(v) => Ended(w)
  /\ w.state = "closed" => v.state = "closed"
  /\ v.state = "writable" => w.state = "writable"

\* The chunks keep their order.
LEMMA DriftOrder ==
  ASSUME NEW w, NEW v, Drift(v, w)
  PROVE  /\ Follows(v, w)
         /\ \A a, n : Order(w, a, n) => Order(v, a, n)
<1>1. /\ Takes(v) => Takes(w)
      /\ Keeps(v) => Keeps(w)
      /\ Keeps(v) /\ ~ Takes(v) => ~ Takes(w)
      /\ Ended(v) => Ended(w)
      /\ w.state = "closed" => v.state = "closed"
      /\ v.state = "writable" => w.state = "writable"
  BY DEF Drift, Takes, Keeps, Ended, W!CloseQueuedOrInFlight
<1>2. ASSUME NEW a, NEW n, Order(w, a, n)
      PROVE  Order(v, a, n)
  <2>1. ASSUME v.state = "writable"
        PROVE  Waiting(v, a, n)
    <3>1. w.state = "writable"
      BY <2>1 DEF Drift
    <3>2. InFlight(v) = InFlight(w)
      BY <2>1 DEF Drift, InFlight
    <3> QED
      BY <1>2, <2>1, <3>1, <3>2 DEF Drift, Order, Waiting
  <2> QED
    BY <1>1, <1>2, <2>1 DEF Order, Drift
<1> QED
  BY <1>1, <1>2 DEF Follows

\* Nothing of it changes.
Akin(v, w) ==
  /\ DOMAIN v = DOMAIN w /\ v.calls = w.calls /\ v.state = w.state
  /\ v.inFlightClose = w.inFlightClose /\ v.closeRequest = w.closeRequest
  /\ v.writeRequests = w.writeRequests /\ v.queue = w.queue
  /\ v.inFlightWrite = w.inFlightWrite

\* So it drifts, when the news are as harmless.
LEMMA PlainDrift ==
  ASSUME NEW w, Tame(w), NEW v, Akin(v, w), v.news \in Seq(WEvents), NEW e,
         NewsOf(v) \subseteq NewsOf(w) \cup {e}, e # CloseTold,
         e[1] = "write" => w.state # "writable"
  PROVE  Drift(v, w)
<1>1. PipedTo(v) = PipedTo(w)
  BY DEF Akin, PipedTo
<1>2. Tame(v)
  BY DEF Tame, Typed, Akin
<1> QED
  BY <1>1, <1>2 DEF Drift, Akin

\* The same with no news.
LEMMA SilentDrift ==
  ASSUME NEW w, Tame(w), NEW v, Akin(v, w), v.news = w.news
  PROVE  Drift(v, w)
<1>1. v.news \in Seq(WEvents) /\ NewsOf(v) = NewsOf(w)
  BY DEF Tame, Typed, NewsOf
<1>2. LET e == ReadyTold
      IN  NewsOf(v) \subseteq NewsOf(w) \cup {e} /\ e # CloseTold /\ e[1] # "write"
  BY <1>1 DEF ReadyTold, CloseTold
<1> QED
  BY <1>1, <1>2, PlainDrift

\* An event is told.
LEMMA TellDrift ==
  ASSUME NEW w, Tame(w), NEW e \in WEvents, e # CloseTold,
         e[1] = "write" => w.state # "writable"
  PROVE  Drift(W!Tell(w, e), w)
<1> DEFINE v == W!Tell(w, e)
<1>1. Akin(v, w)
  BY Fields DEF Tame, Typed, Akin, W!Tell
<1>2. v.news \in Seq(WEvents) /\ NewsOf(v) = NewsOf(w) \cup {e}
  BY TellNews DEF Tame, Typed
<1> HIDE DEF v
<1>3. Drift(v, w)
  BY <1>1, <1>2, PlainDrift
<1> QED
  BY <1>3 DEF v

\* A promise of the writer settles.
LEMMA SettleDrift ==
  ASSUME NEW w, Tame(w), NEW promise \in {"ready", "closed"}, NEW how \in Hows
  PROVE  Drift(W!Settle(w, promise, how), w)
<1> DEFINE v == W!Settle(w, promise, how)
           b == [w EXCEPT ![promise] = how]
           e == <<promise, how>>
<1>1. v = w \/ v = W!Tell(b, e)
  BY DEF W!Settle
<1>2. e \in WEvents /\ e # CloseTold /\ e[1] # "write"
  BY DEF WEvents, CloseTold
<1>3. Akin(b, w) /\ b.news = w.news
  BY Fields DEF Tame, Typed, Akin
<1> HIDE DEF v, b, e
<1>4. Drift(b, w)
  BY <1>3, SilentDrift
<1>5. Drift(W!Tell(b, e), b)
  BY <1>2, <1>4, TellDrift DEF Drift
<1>6. Drift(w, w)
  BY SilentDrift DEF Akin
<1>7. Drift(v, w)
  BY <1>1, <1>4, <1>5, <1>6, DriftTwice
<1> QED
  BY <1>7 DEF v

\* The ready promise is rejected.
LEMMA EnsureDrift ==
  ASSUME NEW w, Tame(w)
  PROVE  Drift(W!EnsureReadyRejected(w), w)
<1> DEFINE a == W!Settle(w, "ready", "rejected")
           b == [a EXCEPT !.ready = "rejected"]
           v == W!EnsureReadyRejected(w)
<1>1. v = w \/ v = b
  BY DEF W!EnsureReadyRejected
<1>2. Drift(a, w)
  BY SettleDrift DEF Hows
<1> HIDE DEF a
<1>3. Akin(b, a) /\ b.news = a.news
  BY <1>2, Fields DEF Drift, Tame, Typed, Akin
<1> HIDE DEF b, v
<1>4. Drift(b, a)
  BY <1>2, <1>3, SilentDrift DEF Drift
<1>5. Drift(w, w)
  BY SilentDrift DEF Akin
<1>6. Drift(v, w)
  BY <1>1, <1>2, <1>4, <1>5, DriftTwice
<1> QED
  BY <1>6 DEF v

\* The events an operation tells that are harmless.
LEMMA Harmless ==
  /\ \A part \in {"close", "abort"} :
       LET e == <<part, "rejected">> IN e \in WEvents /\ e # CloseTold /\ e[1] # "write"
  /\ LET e == <<"abort", "resolved">> IN e \in WEvents /\ e # CloseTold /\ e[1] # "write"
  /\ \A c \in AllChunks : LET e == <<"write", c>> IN e \in WEvents /\ e # CloseTold
  BY DEF WEvents, CloseTold, Hows

\* A stream drifts to where it is.
LEMMA DriftSelf ==
  ASSUME NEW w, Tame(w)
  PROVE  Drift(w, w)
  BY SilentDrift DEF Akin

\* The promises of a stream that has failed are rejected.
LEMMA RejectCloseDrift ==
  ASSUME NEW w, Tame(w), w.state = "errored"
  PROVE  Drift(W!RejectCloseAndClosed(w), w)
<1> DEFINE a == W!Assert_(w, w.state = "errored" /\ (w.closeRequest => ~ w.inFlightClose))
           b == [a EXCEPT !.closeRequest = FALSE]
           e == <<"close", "rejected">>
           t == W!Tell(b, e)
           c == IF a.closeRequest THEN t ELSE a
<1>1. W!RejectCloseAndClosed(w) = W!Settle(c, "closed", "rejected")
  BY DEF W!RejectCloseAndClosed
<1>2. Drift(a, w) /\ a.state = "errored"
  <2>1. Akin(a, w) /\ a.news = w.news
    BY Fields DEF Tame, Typed, Akin, W!Assert_
  <2> HIDE DEF a
  <2> QED
    BY <2>1, SilentDrift DEF Akin
<1> HIDE DEF a
<1>3. Drift(b, a)
  <2>1. /\ DOMAIN b = DOMAIN a /\ b.calls = a.calls /\ b.state = a.state
        /\ b.inFlightClose = a.inFlightClose /\ b.closeRequest = FALSE
        /\ b.writeRequests = a.writeRequests /\ b.news = a.news
    BY <1>2, Fields DEF Drift, Tame, Typed
  <2> HIDE DEF b
  <2>2. NewsOf(b) = NewsOf(a) /\ PipedTo(b) = PipedTo(a)
    BY <2>1 DEF NewsOf, PipedTo
  <2>3. Tame(b)
    BY <1>2, <2>1 DEF Drift, Tame, Typed
  <2> QED
    BY <1>2, <2>1, <2>2, <2>3 DEF Drift
<1> HIDE DEF b
<1>4. Drift(t, b)
  BY <1>3, Harmless, TellDrift DEF Drift
<1> HIDE DEF t
<1>5. Drift(c, w)
  BY <1>2, <1>3, <1>4, DriftTwice
<1> HIDE DEF c
<1>6. Drift(W!Settle(c, "closed", "rejected"), c)
  BY <1>5, SettleDrift DEF Drift, Hows
<1> QED
  BY <1>1, <1>5, <1>6, DriftTwice

\* All requests are rejected at once, and the sink may be told to abort.
LEMMA FinishErroringDrift ==
  ASSUME NEW w, Tame(w), w.state # "closed", w.pendingAbort \in {"none", "late", "first"}
  PROVE  Drift(W!FinishErroring(w), w)
<1> DEFINE rejected == [i \in 1 .. Len(w.writeRequests) |-> <<"write", w.writeRequests[i]>>]
           a == W!Assert_(w, w.state = "erroring" /\ ~ W!HasOperationInFlight(w))
           b == [a EXCEPT !.state = "errored", !.queue = <<>>, !.writeRequests = <<>>,
                          !.news = @ \o rejected, !.pendingAbort = "none"]
<1>1. /\ DOMAIN b = DOMAIN w /\ b.news = w.news \o rejected /\ b.state = "errored"
      /\ b.writeRequests = <<>> /\ b.inFlightClose = w.inFlightClose
      /\ b.closeRequest = w.closeRequest /\ b.calls = w.calls
  BY Fields DEF Tame, Typed, W!Assert_
<1>2. Drift(b, w)
  <2>1. rejected \in Seq({"write"} \X AllChunks)
    BY DEF Tame, Typed
  <2> HIDE DEF rejected, b
  <2>2. {"write"} \X AllChunks \subseteq WEvents
    BY DEF WEvents
  <2>3. rejected \in Seq(WEvents)
    BY <2>1, <2>2
  <2>4. b.news \in Seq(WEvents) /\ Len(b.news) = Len(w.news) + Len(rejected)
        /\ \A i \in 1 .. Len(w.news) : b.news[i] = w.news[i]
    BY <1>1, <2>3 DEF Tame, Typed
  <2>5. CloseTold \in NewsOf(b) => CloseTold \in NewsOf(w)
    <3>1. ASSUME NEW i \in 1 .. Len(b.news), i \notin 1 .. Len(w.news)
          PROVE  b.news[i][1] = "write"
      <4>1. w.news \in Seq(WEvents) /\ i \in 1 .. Len(w.news) + Len(rejected)
        BY <2>4 DEF Tame, Typed
      <4>2. i - Len(w.news) \in 1 .. Len(rejected) /\ b.news[i] = rejected[i - Len(w.news)]
        BY <1>1, <2>3, <3>1, <4>1, LaterPart
      <4>3. rejected[i - Len(w.news)] \in {"write"} \X AllChunks
        BY <2>1, <4>2
      <4> QED
        BY <4>2, <4>3
    <3> QED
      BY <2>4, <3>1 DEF NewsOf, CloseTold
  <2>6. Tame(b)
    <3>1. <<>> \in Seq(AllChunks)
      OBVIOUS
    <3> QED
      BY <1>1, <2>4, <3>1 DEF Tame, Typed
  <2>7. PipedTo(b) = PipedTo(w)
    BY <1>1 DEF PipedTo
  <2> QED
    BY <1>1, <2>5, <2>6, <2>7 DEF Drift
<1> HIDE DEF rejected, a
<1>3. Tame(b)
  BY <1>2 DEF Drift
<1>4. W!FinishErroring(w) =
        CASE w.pendingAbort = "none" -> W!RejectCloseAndClosed(b)
          [] w.pendingAbort = "late" ->
               W!RejectCloseAndClosed(W!Tell(b, <<"abort", "rejected">>))
          [] w.pendingAbort = "first" ->
               [W!CallSink(b, "abort", "abort") EXCEPT !.hasAlgorithms = FALSE]
  BY DEF W!FinishErroring, a, rejected
<1> HIDE DEF b
<1>5. CASE w.pendingAbort = "none"
  BY <1>1, <1>2, <1>3, <1>4, <1>5, RejectCloseDrift, DriftTwice
<1>6. CASE w.pendingAbort = "late"
  <2> DEFINE t == W!Tell(b, <<"abort", "rejected">>)
  <2>1. Drift(t, b)
    BY <1>3, Harmless, TellDrift
  <2>2. t.state = "errored"
    BY <1>1, <1>3, Fields DEF Tame, Typed, W!Tell
  <2>3. W!FinishErroring(w) = W!RejectCloseAndClosed(t)
    BY <1>4, <1>6
  <2> HIDE DEF t
  <2>4. Drift(W!RejectCloseAndClosed(t), t)
    BY <2>1, <2>2, RejectCloseDrift DEF Drift
  <2> QED
    BY <1>2, <2>1, <2>3, <2>4, DriftTwice
<1>7. CASE w.pendingAbort = "first"
  <2> DEFINE d == [W!CallSink(b, "abort", "abort") EXCEPT !.hasAlgorithms = FALSE]
  <2>1. /\ DOMAIN d = DOMAIN b /\ d.news = b.news /\ d.state = b.state
        /\ d.writeRequests = b.writeRequests /\ d.inFlightClose = b.inFlightClose
        /\ d.closeRequest = b.closeRequest /\ d.calls = Append(b.calls, "abort")
    BY <1>3, Fields DEF Tame, Typed, W!CallSink, W!Assert_
  <2>2. W!FinishErroring(w) = d
    BY <1>4, <1>7
  <2> HIDE DEF d
  <2>3. "abort" \in AllChunks \cup Endings /\ "abort" \notin Ours
    BY ChunksAssumption DEF Endings, Ours
  <2>4. b.calls \in Seq(AllChunks \cup Endings)
    BY <1>3 DEF Tame
  <2>5. PipedTo(d) = Piped(PipedTo(b), "abort")
    BY <2>1, <2>3, <2>4, PipedAppend
  <2>6. PipedTo(d) = PipedTo(b)
    BY <2>3, <2>5 DEF Piped
  <2>7. Tame(d) /\ NewsOf(d) = NewsOf(b)
    BY <1>3, <2>1, <2>3, <2>4 DEF Tame, Typed, NewsOf
  <2>8. Drift(d, b)
    BY <1>1, <2>1, <2>6, <2>7 DEF Drift
  <2> QED
    BY <1>2, <2>2, <2>8, DriftTwice
<1> QED
  BY <1>5, <1>6, <1>7

\* The stream starts to fail.
LEMMA StartErroringDrift ==
  ASSUME NEW w, Tame(w), w.pendingAbort \in {"none", "late", "first"}, w.state = "writable"
  PROVE  Drift(W!StartErroring(w), w) /\ W!StartErroring(w).state # "writable"
<1> DEFINE a == [W!Assert_(w, w.state = "writable" /\ ~ w.storedError)
                 EXCEPT !.state = "erroring", !.storedError = TRUE]
           b == W!EnsureReadyRejected(a)
<1>1. /\ DOMAIN a = DOMAIN w /\ a.news = w.news /\ a.state = "erroring"
      /\ a.writeRequests = w.writeRequests /\ a.inFlightClose = w.inFlightClose
      /\ a.closeRequest = w.closeRequest /\ a.calls = w.calls
      /\ a.pendingAbort = w.pendingAbort
  BY Fields DEF Tame, Typed, W!Assert_
<1>2. W!StartErroring(w) = IF ~ W!HasOperationInFlight(b) /\ b.started
                           THEN W!FinishErroring(b) ELSE b
  BY DEF W!StartErroring
<1> HIDE DEF a
<1>3. Drift(a, w)
  <2>1. Tame(a) /\ NewsOf(a) = NewsOf(w) /\ PipedTo(a) = PipedTo(w)
    BY <1>1 DEF Tame, Typed, NewsOf, PipedTo
  <2> QED
    BY <1>1, <2>1 DEF Drift
<1>4. Drift(b, a)
  BY <1>3, EnsureDrift DEF Drift
<1>5. b.pendingAbort = w.pendingAbort /\ b.state = "erroring"
  BY <1>1, <1>3, EnsureAlike DEF Drift, Tame, Typed, Alike
<1> HIDE DEF b
<1>6. Drift(W!FinishErroring(b), b)
  BY <1>4, <1>5, FinishErroringDrift DEF Drift
<1>7. W!FinishErroring(b).state # "writable"
  BY <1>5, <1>6 DEF Drift
<1> QED
  BY <1>2, <1>3, <1>4, <1>5, <1>6, <1>7, DriftTwice

\* A rejection of the sink.
LEMMA RejectionDrift ==
  ASSUME NEW w, Tame(w), w.state # "closed", w.pendingAbort \in {"none", "late", "first"}
  PROVE  Drift(W!DealWithRejection(w), w) /\ W!DealWithRejection(w).state # "writable"
<1>1. CASE w.state = "writable"
  BY <1>1, StartErroringDrift DEF W!DealWithRejection
<1>2. CASE w.state # "writable"
  <2>1. Drift(W!DealWithRejection(w), w)
    BY <1>2, FinishErroringDrift DEF W!DealWithRejection
  <2> QED
    BY <1>2, <2>1 DEF Drift
<1> QED
  BY <1>1, <1>2

\* error() of the controller.
LEMMA ControllerErrorDrift ==
  ASSUME NEW w, Tame(w), w.state = "writable", w.pendingAbort \in {"none", "late", "first"}
  PROVE  Drift(W!ControllerError(w), w) /\ W!ControllerError(w).state # "writable"
<1> DEFINE a == [w EXCEPT !.hasAlgorithms = FALSE]
<1>1. /\ Akin(a, w) /\ a.news = w.news /\ a.state = "writable"
      /\ a.pendingAbort = w.pendingAbort
  BY Fields DEF Tame, Typed, Akin
<1>2. W!ControllerError(w) = W!StartErroring(a)
  BY DEF W!ControllerError
<1> HIDE DEF a
<1>3. Drift(a, w)
  BY <1>1, SilentDrift
<1>4. Drift(W!StartErroring(a), a) /\ W!StartErroring(a).state # "writable"
  BY <1>1, <1>3, StartErroringDrift DEF Drift
<1> QED
  BY <1>2, <1>3, <1>4, DriftTwice

\* Backpressure is told.
LEMMA UpdateDrift ==
  ASSUME NEW w, Tame(w)
  PROVE  Drift(W!UpdateIfOpen(w), w)
<1> DEFINE b == W!HasBackpressure(w)
           v == [W!Assert_(w, w.state = "writable" /\ ~ W!CloseQueuedOrInFlight(w))
                 EXCEPT !.backpressure = b]
           p == [v EXCEPT !.ready = "pending"]
           q == W!Assert_(v, v.ready = "pending")
<1>1. \/ W!UpdateIfOpen(w) = w \/ W!UpdateIfOpen(w) = v \/ W!UpdateIfOpen(w) = p
      \/ W!UpdateIfOpen(w) = W!Settle(q, "ready", "resolved")
  BY DEF W!UpdateIfOpen, W!UpdateBackpressure
<1>2. Akin(v, w) /\ v.news = w.news
  BY Fields DEF Tame, Typed, Akin, W!Assert_
<1> HIDE DEF v
<1>3. Drift(v, w)
  BY <1>2, SilentDrift
<1>4. Akin(p, v) /\ p.news = v.news /\ Akin(q, v) /\ q.news = v.news
  BY <1>3, Fields DEF Drift, Tame, Typed, Akin, W!Assert_
<1> HIDE DEF p, q
<1>5. Drift(p, v) /\ Drift(q, v)
  BY <1>3, <1>4, SilentDrift DEF Drift
<1>6. Drift(W!Settle(q, "ready", "resolved"), q)
  BY <1>5, SettleDrift DEF Drift, Hows
<1> QED
  BY <1>1, <1>3, <1>5, <1>6, DriftSelf, DriftTwice

\* The stream is aborted.
LEMMA AbortDrift ==
  ASSUME NEW w, Tame(w), w.state \in {"writable", "erroring", "errored", "closed"},
         w.pendingAbort \in {"none", "late", "first"},
         w.state = "writable" => w.pendingAbort = "none"
  PROVE  Drift(W!StreamAbort(w), w) /\ W!StreamAbort(w).state # "writable"
<1> DEFINE a == [w EXCEPT !.pendingAbort = "late"]
           b == [w EXCEPT !.pendingAbort = "first"]
<1>1. /\ Akin(a, w) /\ a.news = w.news
      /\ Akin(b, w) /\ b.news = w.news /\ b.pendingAbort = "first"
  BY Fields DEF Tame, Typed, Akin
<1> HIDE DEF a, b
<1>2. Drift(a, w) /\ Drift(b, w)
  BY <1>1, SilentDrift
<1>3. CASE w.state \in {"closed", "errored"}
  <2> DEFINE t == W!Tell(w, <<"abort", "resolved">>)
  <2>1. Drift(t, w)
    BY Harmless, TellDrift
  <2>2. t.state = w.state
    BY Fields DEF Tame, Typed, W!Tell
  <2>3. W!StreamAbort(w) = t
    BY <1>3 DEF W!StreamAbort
  <2> HIDE DEF t
  <2> QED
    BY <1>3, <2>1, <2>2, <2>3
<1>4. CASE w.state = "writable"
  <2>1. W!StreamAbort(w) = W!StartErroring(b)
    BY <1>4 DEF W!StreamAbort, b
  <2>2. Drift(W!StartErroring(b), b) /\ W!StartErroring(b).state # "writable"
    BY <1>1, <1>2, <1>4, StartErroringDrift DEF Drift, Akin
  <2> QED
    BY <1>2, <2>1, <2>2, DriftTwice
<1>5. CASE w.state = "erroring"
  <2>1. W!StreamAbort(w) = w \/ W!StreamAbort(w) = a
    BY <1>5 DEF W!StreamAbort, a
  <2> QED
    BY <1>1, <1>2, <1>5, <2>1, DriftSelf DEF Akin
<1> QED
  BY <1>3, <1>4, <1>5

\* The stream is locked to a writer.
LEMMA AcquireDrift ==
  ASSUME NEW w, Tame(w)
  PROVE  Drift(W!AcquireWriter(w), w)
<1> DEFINE v == W!AcquireWriter(w)
<1>1. Akin(v, w) /\ v.news = w.news
  BY Fields DEF Tame, Typed, Akin, W!AcquireWriter
<1> HIDE DEF v
<1>2. Drift(v, w)
  BY <1>1, SilentDrift
<1> QED
  BY <1>2 DEF v

\* The writer is released.
LEMMA ReleaseDrift ==
  ASSUME NEW w, Tame(w)
  PROVE  Drift(W!WriterRelease(w), w)
<1> DEFINE a == W!Assert_(w, w.writer)
           b == W!EnsureReadyRejected(a)
           c == W!Settle(b, "closed", "rejected")
           v == [c EXCEPT !.writer = FALSE, !.ready = "none", !.closed = "none"]
<1>1. W!WriterRelease(w) = v
  BY DEF W!WriterRelease
<1>2. Akin(a, w) /\ a.news = w.news
  BY Fields DEF Tame, Typed, Akin, W!Assert_
<1> HIDE DEF a
<1>3. Drift(a, w)
  BY <1>2, SilentDrift
<1>4. Drift(b, a)
  BY <1>3, EnsureDrift DEF Drift
<1> HIDE DEF b
<1>5. Drift(c, b)
  BY <1>4, SettleDrift DEF Drift, Hows
<1> HIDE DEF c
<1>6. Akin(v, c) /\ v.news = c.news
  BY <1>5, Fields DEF Drift, Tame, Typed, Akin
<1> HIDE DEF v
<1>7. Drift(v, c)
  BY <1>5, <1>6, SilentDrift DEF Drift
<1> QED
  BY <1>1, <1>3, <1>4, <1>5, <1>7, DriftTwice

-----------------------------------------------------------------------------
(* The sink moves on to what waits.                                        *)

\* An operation that writes nothing: the sink may be called with the next chunk.
Passes(v, w) ==
  /\ Tame(v) /\ Follows(v, w)
  /\ \A a, n : Order(w, a, n) =>
       Order(v, a, n) \/ (Order(v, a + 1, n) /\ Takes(v) /\ Takes(w))
  /\ CloseTold \in NewsOf(v) => CloseTold \in NewsOf(w)
  /\ v.state = "writable" => \A e \in NewsOf(v) : e[1] = "write" => e \in NewsOf(w)

\* One that drifts does less.
LEMMA DriftPasses ==
  ASSUME NEW w, NEW v, Drift(v, w)
  PROVE  Passes(v, w)
  BY DriftOrder DEF Drift, Passes

\* One that drifts before one that passes a chunk on.
LEMMA PassesAfter ==
  ASSUME NEW w, NEW v, NEW u, Drift(v, w), Passes(u, v)
  PROVE  Passes(u, w)
<1>1. Follows(u, w)
  BY DriftOrder DEF Passes, Follows
<1>2. ASSUME NEW a, NEW n, Order(w, a, n)
      PROVE  Order(u, a, n) \/ (Order(u, a + 1, n) /\ Takes(u) /\ Takes(w))
  BY <1>2, DriftOrder DEF Passes, Follows
<1>3. CloseTold \in NewsOf(u) => CloseTold \in NewsOf(w)
  BY DEF Drift, Passes
<1>4. u.state = "writable" => \A e \in NewsOf(u) : e[1] = "write" => e \in NewsOf(w)
  BY DEF Drift, Passes, Follows
<1> QED
  BY <1>1, <1>2, <1>3, <1>4 DEF Passes

\* A chunk at the head of the queue has its request at the head of the others.
LEMMA HeadWaits ==
  ASSUME NEW w, Idle(w), w.state = "writable", w.queue # <<>>, Head(w.queue) # CloseSentinel
  PROVE  w.writeRequests # <<>>
<1>1. w.queue[1] # CloseSentinel /\ Len(w.queue) \in Nat /\ Len(w.queue) # 0
  BY DEF Idle, WInv, Shape
<1>2. Len(w.queue) = Len(w.writeRequests) + InFlight(w) + Closing(w)
  BY DEF Idle, WInv, Queued, Open
<1>3. InFlight(w) = 0 /\ (Closing(w) = 1 => w.closeRequest)
  BY Counts DEF Idle
<1>4. ASSUME w.writeRequests = <<>>
      PROVE  FALSE
  <2>1. Len(w.queue) = Closing(w)
    BY <1>2, <1>3, <1>4, Counts
  <2>2. Len(w.queue) = 1 /\ w.closeRequest
    BY <1>1, <2>1, Counts
  <2>3. w.queue[1] = CloseSentinel
    BY <2>2 DEF Idle, WInv, Queued, Open
  <2> QED
    BY <1>1, <2>3
<1> QED
  BY <1>4

\* The chunk at the head is the next one, or not the pipe's.
LEMMA HeadIsNext ==
  ASSUME NEW w, Idle(w), w.state = "writable", w.writeRequests # <<>>, NEW a, NEW n,
         Order(w, a, n)
  PROVE  /\ w.queue[1] = w.writeRequests[1]
         /\ w.writeRequests[1] \in Ours => /\ Len(w.writeRequests) = n - a
                                           /\ w.writeRequests[1] = Chunks[a + 1]
         /\ w.writeRequests[1] \notin Ours => n - a < Len(w.writeRequests)
<1> DEFINE k == Len(w.writeRequests)
           h == w.writeRequests[1]
<1>1. k \in Nat /\ k # 0 /\ 1 \in 1 .. k
  BY DEF Idle, WInv, Shape
<1>2. InFlight(w) = 0
  BY Counts DEF Idle
<1>3. /\ a \in Nat /\ n \in Nat /\ a <= n /\ n <= Len(Chunks) /\ n - a <= k
      /\ w.queue[1 + InFlight(w)] = h
      /\ 1 <= k - (n - a) => h \notin Ours
      /\ 1 > k - (n - a) => h = Chunks[n - (k - 1)]
  BY <1>1 DEF Order, Waiting
<1> HIDE DEF k, h
<1>4. w.queue[1] = h
  BY <1>2, <1>3
<1>5. ASSUME 1 > k - (n - a)
      PROVE  k = n - a /\ h = Chunks[a + 1] /\ h \in Ours
  <2>1. k = n - a
    BY <1>1, <1>3, <1>5
  <2>2. n - (k - 1) = a + 1 /\ a + 1 \in 1 .. Len(Chunks)
    BY <1>1, <1>3, <2>1, EveryChunk
  <2> QED
    BY <1>3, <1>5, <2>1, <2>2, EveryChunk
<1>6. ASSUME ~ (1 > k - (n - a))
      PROVE  n - a < k /\ h \notin Ours
  BY <1>1, <1>3, <1>6
<1> QED
  BY <1>3, <1>4, <1>5, <1>6 DEF k, h

\* The sink is called with a chunk.
LEMMA ProcessWritePasses ==
  ASSUME NEW w, Idle(w), Tame(w), w.state = "writable", w.queue # <<>>,
         Head(w.queue) # CloseSentinel
  PROVE  Passes(W!ProcessWrite(w), w)
<1> DEFINE v == W!ProcessWrite(w)
           k == Len(w.writeRequests)
           h == w.writeRequests[1]
           q == w.queue[1]
<1>1. /\ w.writeRequests # <<>> /\ w.writeRequests \in Seq(AllChunks)
      /\ w.queue \in Seq(AllChunks \cup {CloseSentinel}) /\ w.calls \in Seq(AllChunks \cup Endings)
  BY HeadWaits DEF Idle, WInv, Shape
<1>2. /\ k \in Nat /\ k # 0 /\ 1 \in 1 .. k
      /\ Head(w.writeRequests) = h /\ h \in AllChunks
      /\ Len(Tail(w.writeRequests)) = k - 1 /\ Tail(w.writeRequests) \in Seq(AllChunks)
      /\ \A i \in 1 .. k - 1 : Tail(w.writeRequests)[i] = w.writeRequests[i + 1]
  BY <1>1
<1>3. Head(w.queue) = q /\ q \in AllChunks
  BY <1>1
<1>4. h # NoWrite
  BY <1>2, ChunksAssumption DEF AllChunks
<1>5. /\ v.inFlightWrite = Head(w.writeRequests) /\ v.writeRequests = Tail(w.writeRequests)
      /\ v.inFlightClose = w.inFlightClose /\ v.closeRequest = w.closeRequest
      /\ v.queue = w.queue /\ DOMAIN v = DOMAIN w /\ v.news = w.news /\ v.state = w.state
      /\ v.calls = Append(w.calls, Head(w.queue))
  BY Fields DEF Idle, WInv, Shape, W!ProcessWrite, W!CallSink, W!Assert_
<1>6. k = Len(w.writeRequests) /\ h = w.writeRequests[1] /\ q = w.queue[1]
  OBVIOUS
<1> HIDE DEF v, k, h, q
<1>7. Tame(v)
  BY <1>1, <1>2, <1>3, <1>5 DEF Tame, Typed
<1>8. Follows(v, w) /\ (Takes(v) <=> Takes(w)) /\ Keeps(w)
  BY <1>5 DEF Follows, Takes, Keeps, Ended, W!CloseQueuedOrInFlight
<1>9. InFlight(v) = 1 /\ InFlight(w) = 0
  BY <1>2, <1>4, <1>5, Counts DEF Idle
<1>10. PipedTo(v) = Piped(PipedTo(w), q)
  <2>1. q \in AllChunks \cup Endings /\ v.calls = Append(w.calls, q)
    BY <1>3, <1>5
  <2> QED
    BY <1>1, <2>1, PipedAppend
<1>11. Len(v.writeRequests) = k - 1 /\ v.inFlightWrite = h
  BY <1>2, <1>5
<1>12. ASSUME NEW a, NEW n, Order(w, a, n)
       PROVE  Order(v, a, n) \/ (Order(v, a + 1, n) /\ Takes(v) /\ Takes(w))
  <2>1. /\ q = h /\ (h \in Ours => k = n - a /\ h = Chunks[a + 1])
        /\ (h \notin Ours => n - a < k)
    BY <1>1, <1>6, <1>12, HeadIsNext
  <2>2. /\ a \in Nat /\ n \in Nat /\ a <= n /\ n <= Len(Chunks) /\ Waiting(w, a, n)
        /\ PipedTo(w) = SubSeq(Chunks, 1, a) /\ (~ Takes(w) => n = a)
    BY <1>8, <1>12 DEF Order
  <2>3. \A i \in 1 .. k :
          /\ w.queue[i + InFlight(w)] = w.writeRequests[i]
          /\ i <= k - (n - a) => w.writeRequests[i] \notin Ours
          /\ i > k - (n - a) => w.writeRequests[i] = Chunks[n - (k - i)]
    BY <1>6, <2>2 DEF Waiting
  <2>4. ASSUME NEW i \in 1 .. k - 1
        PROVE  /\ i + 1 \in 1 .. k /\ v.queue[i + InFlight(v)] = v.writeRequests[i]
               /\ v.writeRequests[i] = w.writeRequests[i + 1] /\ k - (i + 1) = (k - 1) - i
    <3>1. i + 1 \in 1 .. k /\ k - (i + 1) = (k - 1) - i /\ (i + 1) + 0 = i + 1
      BY <1>2
    <3>2. w.queue[(i + 1) + InFlight(w)] = w.writeRequests[i + 1]
      BY <2>3, <3>1
    <3> QED
      BY <1>2, <1>5, <1>9, <3>1, <3>2
  <2>5. CASE h \in Ours
    <3>1. a + 1 <= n /\ Takes(w) /\ n - (a + 1) = k - 1 /\ a < Len(Chunks)
      BY <1>2, <2>1, <2>2, <2>5, EveryChunk, SMTT(60)
    <3>2. PipedTo(v) = SubSeq(Chunks, 1, a + 1)
      BY <1>10, <2>1, <2>2, <2>5, <3>1, OneMore DEF Piped
    <3>3. Waiting(v, a + 1, n)
      <4>1. ASSUME NEW i \in 1 .. k - 1
            PROVE  v.writeRequests[i] = Chunks[n - ((k - 1) - i)]
        <5>1. i + 1 > k - (n - a) /\ i + 1 \in 1 .. k
          BY <1>2, <2>1, <2>5, <2>4, <4>1
        <5>2. w.writeRequests[i + 1] = Chunks[n - (k - (i + 1))]
          BY <2>3, <5>1
        <5> QED
          BY <2>4, <5>2
      <4>2. v.inFlightWrite = Chunks[a + 1] /\ a + 1 > 0
        BY <1>11, <2>1, <2>2, <2>5
      <4>3. \A i \in 1 .. k - 1 : ~ (i <= (k - 1) - (n - (a + 1)))
        BY <1>2, <2>2, <3>1
      <4>4. n - (a + 1) <= k - 1
        BY <1>2, <2>2, <3>1
      <4> QED
        BY <1>11, <2>4, <4>1, <4>2, <4>3, <4>4 DEF Waiting
    <3>4. a + 1 \in Nat
      BY <2>2
    <3> QED
      BY <1>8, <2>2, <3>1, <3>2, <3>3, <3>4 DEF Order
  <2>6. CASE h \notin Ours
    <3>1. PipedTo(v) = PipedTo(w)
      BY <1>10, <2>1, <2>6 DEF Piped
    <3>2. Waiting(v, a, n)
      <4>1. n - a <= k - 1
        BY <1>2, <2>1, <2>2, <2>6
      <4>2. ASSUME NEW i \in 1 .. k - 1
            PROVE  /\ i <= (k - 1) - (n - a) => v.writeRequests[i] \notin Ours
                   /\ i > (k - 1) - (n - a) => v.writeRequests[i] = Chunks[n - ((k - 1) - i)]
        <5>1. /\ i <= (k - 1) - (n - a) <=> i + 1 <= k - (n - a)
              /\ i > (k - 1) - (n - a) <=> i + 1 > k - (n - a)
          BY <1>2, <2>2
        <5>2. /\ i + 1 <= k - (n - a) => w.writeRequests[i + 1] \notin Ours
              /\ i + 1 > k - (n - a) => w.writeRequests[i + 1] = Chunks[n - (k - (i + 1))]
          BY <2>3, <2>4
        <5> QED
          BY <2>4, <5>1, <5>2
      <4>3. v.inFlightWrite \notin Ours
        BY <1>11, <2>6
      <4> QED
        BY <1>11, <2>4, <4>1, <4>2, <4>3 DEF Waiting
    <3> QED
      BY <1>8, <2>2, <3>1, <3>2 DEF Order
  <2> QED
    BY <2>5, <2>6
<1>13. NewsOf(v) = NewsOf(w)
  BY <1>5 DEF NewsOf
<1>14. Passes(v, w)
  BY <1>7, <1>8, <1>12, <1>13 DEF Passes
<1> QED
  BY <1>14 DEF v

\* The sink is told to close.
LEMMA ProcessClosePasses ==
  ASSUME NEW w, Idle(w), Tame(w), w.state = "writable", w.queue # <<>>,
         Head(w.queue) = CloseSentinel
  PROVE  Passes(W!ProcessClose(w), w)
<1> DEFINE v == W!ProcessClose(w)
<1>1. w.queue[1] = CloseSentinel /\ 1 \in 1 .. Len(w.queue)
  BY DEF Idle, WInv, Shape
<1>2. w.closeRequest /\ Len(w.queue) = 1
  BY <1>1 DEF Idle, WInv, Queued
<1>3. Len(w.writeRequests) = 0 /\ w.inFlightWrite = NoWrite
  <2>1. Len(w.writeRequests) \in Nat /\ Closing(w) = 1 /\ InFlight(w) = 0
    BY <1>2, Counts DEF Idle, WInv, Shape
  <2>2. Len(w.queue) = Len(w.writeRequests) + InFlight(w) + Closing(w)
    BY DEF Idle, WInv, Queued
  <2> DEFINE x == Len(w.writeRequests)
  <2>3. x = 0
    <3>1. 1 = x + 0 + 1 /\ x \in Nat
      BY <1>2, <2>1, <2>2, Zenon
    <3> QED
      BY <3>1
  <2>4. w.inFlightWrite = NoWrite
    BY DEF Idle
  <2> QED
    BY <2>3, <2>4
<1>4. /\ v.inFlightWrite = w.inFlightWrite /\ v.writeRequests = w.writeRequests
      /\ v.inFlightClose = TRUE /\ DOMAIN v = DOMAIN w /\ v.news = w.news /\ v.state = w.state
      /\ v.calls = Append(w.calls, "close")
  BY Fields DEF Idle, WInv, Shape, W!ProcessClose, W!CallSink, W!Assert_
<1> HIDE DEF v
<1>5. "close" \in AllChunks \cup Endings /\ "close" \notin Ours /\ NoWrite \notin Ours
  BY ChunksAssumption DEF Endings, Ours
<1>6. PipedTo(v) = PipedTo(w)
  <2>1. PipedTo(v) = Piped(PipedTo(w), "close")
    BY <1>4, <1>5, PipedAppend DEF Tame
  <2> QED
    BY <1>5, <2>1 DEF Piped
<1>7. Tame(v)
  BY <1>4, <1>5 DEF Tame, Typed
<1>8. Follows(v, w) /\ ~ Takes(v) /\ ~ Takes(w) /\ Keeps(w)
  BY <1>2, <1>4 DEF Follows, Takes, Keeps, Ended, W!CloseQueuedOrInFlight
<1>9. ASSUME NEW a, NEW n, Order(w, a, n)
      PROVE  Order(v, a, n)
  <2>1. /\ a \in Nat /\ n \in Nat /\ n = a /\ n <= Len(Chunks)
        /\ PipedTo(w) = SubSeq(Chunks, 1, a)
    BY <1>8, <1>9 DEF Order
  <2>2. Waiting(v, a, n)
    <3>1. Len(v.writeRequests) = 0 /\ n - a = 0 /\ v.inFlightWrite \notin Ours
      BY <1>3, <1>4, <1>5, <2>1
    <3>2. \A i \in 1 .. Len(v.writeRequests) : FALSE
      BY <3>1
    <3> QED
      BY <3>1, <3>2 DEF Waiting
  <2> QED
    BY <1>6, <2>1, <2>2 DEF Order
<1>10. NewsOf(v) = NewsOf(w)
  BY <1>4 DEF NewsOf
<1>11. Passes(v, w)
  BY <1>7, <1>8, <1>9, <1>10 DEF Passes
<1> QED
  BY <1>11 DEF v

\* A stream that is where it was passes nothing on.
LEMMA PassesSelf ==
  ASSUME NEW w, Tame(w)
  PROVE  Passes(w, w)
  BY DriftSelf, DriftPasses

\* The fields of a stream are typed.
LEMMA AllTame ==
  ASSUME NEW w, WInv(w), w.news \in Seq(WEvents)
  PROVE  Tame(w) /\ w.pendingAbort \in {"none", "late", "first"}
  BY DEF WInv, Shape, Tame, Typed

\* The queue advances.
LEMMA AdvancePasses ==
  ASSUME NEW w, WInv(w), Tame(w),
         w.started /\ w.inFlightWrite = NoWrite => w.state \in {"writable", "erroring"}
  PROVE  Passes(W!AdvanceQueueIfNeeded(w), w)
<1>1. CASE ~ w.started \/ w.inFlightWrite # NoWrite
  <2>1. W!AdvanceQueueIfNeeded(w) = w
    BY <1>1 DEF W!AdvanceQueueIfNeeded
  <2> QED
    BY <2>1, PassesSelf
<1>2. CASE w.started /\ w.inFlightWrite = NoWrite
  <2> DEFINE v == W!Assert_(w, w.state \notin {"closed", "errored"})
  <2>1. Alike(v, w) /\ v.ready = w.ready /\ v.news = w.news
    BY <1>2, Fields DEF WInv, Shape, Called, Alike, W!Assert_
  <2>2. W!AdvanceQueueIfNeeded(w) =
          CASE v.state = "erroring" -> W!FinishErroring(v)
            [] v.state # "erroring" /\ v.queue = <<>> -> v
            [] v.state # "erroring" /\ v.queue # <<>>
                 /\ Head(v.queue) = CloseSentinel -> W!ProcessClose(v)
            [] OTHER -> W!ProcessWrite(v)
    BY <1>2 DEF W!AdvanceQueueIfNeeded
  <2> HIDE DEF v
  <2>3. Idle(v) /\ v.state \in {"writable", "erroring"} /\ Shape(v)
    BY <1>2, <2>1, AlikeInv DEF Alike, WInv, Idle, Open
  <2>4. Drift(v, w)
    BY <2>1, SilentDrift DEF Alike, Akin
  <2>5. Tame(v) /\ v.pendingAbort \in {"none", "late", "first"}
    BY <2>3, <2>4 DEF Drift, Shape
  <2>6. CASE v.state = "erroring"
    <3>1. Drift(W!FinishErroring(v), v)
      BY <2>5, <2>6, FinishErroringDrift
    <3> QED
      BY <2>2, <2>4, <2>6, <3>1, DriftTwice, DriftPasses
  <2>7. CASE v.state = "writable" /\ v.queue = <<>>
    BY <2>2, <2>4, <2>7, DriftPasses
  <2>8. CASE v.state = "writable" /\ v.queue # <<>> /\ Head(v.queue) = CloseSentinel
    BY <2>2, <2>3, <2>4, <2>5, <2>8, ProcessClosePasses, PassesAfter
  <2>9. CASE v.state = "writable" /\ v.queue # <<>> /\ Head(v.queue) # CloseSentinel
    BY <2>2, <2>3, <2>4, <2>5, <2>9, ProcessWritePasses, PassesAfter
  <2> QED
    BY <2>3, <2>6, <2>7, <2>8, <2>9
<1> QED
  BY <1>1, <1>2

\* An operation of a stream whose news have been heard, none that writes or closes: the sink
\* may be called with one chunk more.
Moves(v, w) ==
  /\ Tame(v) /\ Follows(v, w)
  /\ \A a, n : Order(w, a, n) =>
       Order(v, a, n) \/ (Order(v, a + 1, n) /\ Takes(v) /\ Takes(w))
  /\ CloseTold \in NewsOf(v) => v.state = "closed"
  /\ Takes(v) => \A e \in NewsOf(v) : e[1] = "write" => e[2] = w.inFlightWrite

\* One that passes chunks on.
LEMMA PassesMoves ==
  ASSUME NEW w, w.news = <<>>, NEW v, Passes(v, w)
  PROVE  Moves(v, w)
  BY Unheard DEF Passes, Moves, Takes

\* Of a stream that has failed only what the sink was called with matters.
LEMMA OrderDown ==
  ASSUME NEW w, NEW v, PipedTo(v) = PipedTo(w), ~ Keeps(v), v.state # "writable"
  PROVE  /\ \A a, n : Order(w, a, n) => Order(v, a, n)
         /\ Takes(v) = FALSE
  BY DEF Order, Takes

\* The sink has written.
LEMMA UnqueueOrder ==
  ASSUME NEW w, WInv(w), w.inFlightWrite # NoWrite, NEW v, DOMAIN v = DOMAIN w,
         v.state = w.state, v.queue = Tail(w.queue), v.inFlightWrite = NoWrite,
         v.writeRequests = w.writeRequests, v.inFlightClose = w.inFlightClose,
         v.closeRequest = w.closeRequest, v.calls = w.calls
  PROVE  Follows(v, w) /\ \A a, n : Order(w, a, n) => Order(v, a, n)
<1>1. PipedTo(v) = PipedTo(w)
  BY DEF PipedTo
<1>2. (Takes(v) <=> Takes(w)) /\ (Keeps(v) <=> Keeps(w)) /\ (Ended(v) <=> Ended(w))
  BY DEF Takes, Keeps, Ended, W!CloseQueuedOrInFlight
<1>3. Follows(v, w)
  BY <1>2 DEF Follows
<1>4. ASSUME NEW a, NEW n, Order(w, a, n), w.state = "writable"
      PROVE  Waiting(v, a, n)
  <2>1. /\ w.queue \in Seq(AllChunks \cup {CloseSentinel}) /\ Len(w.writeRequests) \in Nat
    BY DEF WInv, Shape
  <2>2. InFlight(w) = 1 /\ InFlight(v) = 0 /\ Closing(w) \in Nat
    BY Counts
  <2>3. Len(w.queue) = Len(w.writeRequests) + InFlight(w) + Closing(w)
    BY <1>4 DEF WInv, Queued, Open
  <2> DEFINE k == Len(w.writeRequests)
  <2>4. k \in Nat /\ Len(w.queue) = k + 1 + Closing(w)
    BY <2>1, <2>2, <2>3, Zenon
  <2>5. ASSUME NEW i \in 1 .. k
        PROVE  v.queue[i + InFlight(v)] = v.writeRequests[i]
    <3>1. i + 1 \in 1 .. Len(w.queue) /\ Tail(w.queue)[i] = w.queue[i + 1] /\ i + 0 = i
      <4> HIDE DEF k
      <4>1. i + 1 \in 1 .. Len(w.queue) /\ i \in 1 .. Len(w.queue) - 1 /\ i + 0 = i
        BY <2>2, <2>4
      <4> QED
        BY <2>1, <4>1
    <3>2. w.queue[i + InFlight(w)] = w.writeRequests[i]
      BY <1>4 DEF Order, Waiting
    <3> QED
      BY <2>2, <3>1, <3>2
  <2>6. v.inFlightWrite \notin Ours
    BY ChunksAssumption DEF Ours
  <2> QED
    BY <1>4, <2>5, <2>6 DEF Order, Waiting
<1>5. ASSUME NEW a, NEW n, Order(w, a, n)
      PROVE  Order(v, a, n)
  BY <1>1, <1>2, <1>4, <1>5 DEF Order
<1> QED
  BY <1>3, <1>5

\* The sink has written, or failed to.
LEMMA WrittenMoves ==
  ASSUME NEW w, WInv(w), w.news = <<>>, w.sink = "write", NEW ok
  PROVE  Moves(W!FinishInFlightWrite(w, ok), w)
<1> DEFINE done == W!Tell([w EXCEPT !.inFlightWrite = NoWrite, !.sink = "idle"],
                          <<"write", w.inFlightWrite>>)
           v == W!Assert_(done, w.inFlightWrite # NoWrite
                                  /\ w.state \in {"writable", "erroring"})
           a == [v EXCEPT !.queue = Tail(@)]
           b == [v EXCEPT !.hasAlgorithms = @ /\ w.state # "writable"]
           e == <<"write", w.inFlightWrite>>
<1>1. Open(w) /\ w.started /\ w.inFlightWrite # NoWrite /\ ~ w.inFlightClose
  BY DEF WInv, Shape, Sink
<1>2. /\ DOMAIN v = DOMAIN w /\ v.inFlightWrite = NoWrite
      /\ v.state = w.state /\ v.queue = w.queue /\ v.writeRequests = w.writeRequests
      /\ v.inFlightClose = w.inFlightClose /\ v.closeRequest = w.closeRequest
      /\ v.calls = w.calls /\ v.pendingAbort = w.pendingAbort
      /\ v.news = Append(w.news, e)
  BY Fields DEF WInv, Shape, W!Tell, W!Assert_
<1>3. W!FinishInFlightWrite(w, ok) = IF ok THEN W!AdvanceQueueIfNeeded(W!UpdateIfOpen(a))
                                     ELSE W!DealWithRejection(b)
  BY DEF W!FinishInFlightWrite
<1>4. /\ WInv(a) /\ a.started /\ a.state \in {"writable", "erroring"}
  BY UnqueueInv
<1>5. /\ DOMAIN a = DOMAIN v /\ a.inFlightWrite = v.inFlightWrite
      /\ a.state = v.state /\ a.queue = Tail(v.queue) /\ a.writeRequests = v.writeRequests
      /\ a.inFlightClose = v.inFlightClose /\ a.closeRequest = v.closeRequest
      /\ a.calls = v.calls /\ a.news = v.news
  BY <1>2, Fields DEF WInv, Shape
<1>6. /\ DOMAIN b = DOMAIN v /\ b.inFlightWrite = v.inFlightWrite
      /\ b.state = v.state /\ b.writeRequests = v.writeRequests
      /\ b.inFlightClose = v.inFlightClose /\ b.pendingAbort = v.pendingAbort
      /\ b.calls = v.calls /\ b.news = v.news
  BY <1>2, Fields DEF WInv, Shape
<1> HIDE DEF done, v
<1>7. e \in WEvents /\ e[1] = "write" /\ e[2] = w.inFlightWrite /\ e # CloseTold
  BY <1>1, EventKinds DEF WInv, Shape, CloseTold
<1> HIDE DEF e
<1>8. v.news \in Seq(WEvents) /\ NewsOf(v) = {e}
  <2>1. v.news = <<e>>
    BY <1>2
  <2>2. Len(v.news) = 1 /\ v.news[1] = e
    BY <2>1
  <2> QED
    BY <1>7, <2>1, <2>2 DEF NewsOf
<1>9. CASE ok
  <2> HIDE DEF a
  <2>1. Tame(a) /\ NewsOf(a) = {e}
    BY <1>4, <1>5, <1>8, AllTame, ZenonT(60) DEF NewsOf
  <2>2. Follows(a, w) /\ \A x, n : Order(w, x, n) => Order(a, x, n)
    BY <1>1, <1>2, <1>5, UnqueueOrder
  <2> DEFINE u == W!UpdateIfOpen(a)
             x == W!AdvanceQueueIfNeeded(u)
  <2>3. Drift(u, a)
    BY <2>1, UpdateDrift
  <2>4. WInv(u) /\ u.state \in {"writable", "erroring"}
    BY <1>4, UpdateInv
  <2>5. Tame(u)
    BY <2>3 DEF Drift
  <2> HIDE DEF u
  <2>6. Passes(x, u)
    BY <2>4, <2>5, AdvancePasses
  <2> HIDE DEF x
  <2>7. Passes(x, a)
    BY <2>3, <2>6, PassesAfter
  <2>8. Follows(x, w)
    BY <2>2, <2>7 DEF Passes, Follows
  <2>9. ASSUME NEW i, NEW n, Order(w, i, n)
        PROVE  Order(x, i, n) \/ (Order(x, i + 1, n) /\ Takes(x) /\ Takes(w))
    BY <2>2, <2>7, <2>9 DEF Passes, Follows
  <2>10. CloseTold \notin NewsOf(x) /\ (Takes(x) => \A y \in NewsOf(x) : y[1] = "write" => y = e)
    BY <1>7, <2>1, <2>7 DEF Passes, Takes
  <2>11. Moves(x, w)
    BY <1>7, <2>7, <2>8, <2>9, <2>10 DEF Passes, Moves
  <2> QED
    BY <1>3, <1>9, <2>11 DEF x, u
<1>10. CASE ~ ok
  <2> HIDE DEF b
  <2> DEFINE x == W!DealWithRejection(b)
  <2>1. Tame(b) /\ b.pendingAbort \in {"none", "late", "first"} /\ NewsOf(b) = {e}
    BY <1>2, <1>6, <1>8 DEF WInv, Shape, Tame, Typed, NewsOf
  <2>2. Drift(x, b) /\ x.state # "writable"
    BY <1>1, <1>2, <1>6, <2>1, RejectionDrift DEF Open
  <2> HIDE DEF x
  <2>3. PipedTo(x) = PipedTo(w)
    <3>1. PipedTo(b) = PipedTo(w)
      BY <1>2, <1>6 DEF PipedTo
    <3> QED
      BY <2>2, <3>1 DEF Drift
  <2>4. ~ Keeps(x)
    BY <1>1, <1>2, <1>6, <2>2 DEF Drift, Keeps, Open
  <2>5. CloseTold \notin NewsOf(x)
    BY <1>7, <2>1, <2>2 DEF Drift
  <2>6. Ended(x) => Ended(w)
    <3>1. /\ x.inFlightClose = w.inFlightClose /\ x.state # "closed"
          /\ x.closeRequest => b.closeRequest
      BY <1>2, <1>6, <2>2, <2>4 DEF Drift, Keeps
    <3>2. b.closeRequest = w.closeRequest
      BY <1>2, <1>6, Fields DEF WInv, Shape, b
    <3> QED
      BY <3>1, <3>2 DEF Ended, W!CloseQueuedOrInFlight
  <2>7. w.state # "closed"
    BY <1>1 DEF Open
  <2>8. Follows(x, w)
    BY <2>2, <2>4, <2>6, <2>7 DEF Follows, Takes
  <2>9. Moves(x, w)
    BY <2>2, <2>3, <2>4, <2>5, <2>8, OrderDown DEF Drift, Moves
  <2> QED
    BY <1>3, <1>10, <2>9 DEF x
<1> QED
  BY <1>9, <1>10

\* The sink has closed, or failed to: no chunk is left behind a close.
LEMMA ClosedMoves ==
  ASSUME NEW w, WInv(w), w.news = <<>>, w.sink = "close", NEW ok
  PROVE  Moves(W!FinishInFlightClose(w, ok), w)
<1> DEFINE how == IF ok THEN "resolved" ELSE "rejected"
           a == W!Assert_(w, w.inFlightClose /\ w.state \in {"writable", "erroring"})
           d == [a EXCEPT !.inFlightClose = FALSE, !.sink = "idle"]
           done == W!Tell(d, <<"close", how>>)
           p == [done EXCEPT !.pendingAbort = "none"]
           t == W!Tell(p, <<"abort", how>>)
           v == IF w.pendingAbort # "none" THEN t ELSE done
           b == [W!Assert_(v, w.state = "writable" => w.pendingAbort = "none")
                 EXCEPT !.state = "closed", !.storedError = FALSE]
<1>1. Open(w) /\ w.inFlightClose /\ NewsOf(w) = {} /\ w.news \in Seq(WEvents)
  <2>1. w.news \in Seq(WEvents)
    OBVIOUS
  <2> QED
    BY <2>1, Unheard DEF WInv, Shape, Sink
<1>2. <<"close", how>> \in WEvents /\ <<"abort", how>> \in WEvents
  BY EventKinds DEF Hows
<1>3. W!FinishInFlightClose(w, ok) = IF ok THEN W!Settle(b, "closed", "resolved")
                                     ELSE W!DealWithRejection(v)
  BY DEF W!FinishInFlightClose
<1>4. how = IF ok THEN "resolved" ELSE "rejected"
  OBVIOUS
<1> HIDE DEF how
<1>5. /\ DOMAIN d = DOMAIN W!NewWritable /\ d.news = w.news /\ d.state = w.state
      /\ d.writeRequests = w.writeRequests /\ d.calls = w.calls /\ d.inFlightClose = FALSE
      /\ d.closeRequest = w.closeRequest /\ d.pendingAbort = w.pendingAbort
  BY <1>1, Fields DEF WInv, Shape, W!Assert_
<1> HIDE DEF a, d
<1>6. /\ DOMAIN done = DOMAIN W!NewWritable /\ done.state = w.state
      /\ done.writeRequests = w.writeRequests /\ done.calls = w.calls
      /\ done.inFlightClose = FALSE
      /\ done.closeRequest = w.closeRequest /\ done.pendingAbort = w.pendingAbort
      /\ done.news \in Seq(WEvents) /\ NewsOf(done) = {<<"close", how>>}
  <2>1. Alike(done, d)
    BY <1>5, TellAlike
  <2>2. done.news \in Seq(WEvents) /\ NewsOf(done) = NewsOf(d) \cup {<<"close", how>>}
    BY <1>1, <1>2, <1>5, TellNews
  <2>3. NewsOf(d) = {}
    BY <1>5, Unheard
  <2> HIDE DEF done
  <2> QED
    BY <1>5, <2>1, <2>2, <2>3 DEF Alike
<1> HIDE DEF done
<1>7. /\ DOMAIN v = DOMAIN W!NewWritable /\ v.state = w.state
      /\ v.writeRequests = w.writeRequests /\ v.calls = w.calls /\ v.inFlightClose = FALSE
      /\ v.closeRequest = w.closeRequest /\ v.pendingAbort = "none"
      /\ v.news \in Seq(WEvents) /\ NewsOf(v) \subseteq {<<"close", how>>, <<"abort", how>>}
  <2>1. CASE w.pendingAbort = "none"
    <3>1. v = done
      BY <2>1
    <3> HIDE DEF v
    <3> QED
      BY <1>6, <2>1, <3>1
  <2>2. CASE w.pendingAbort # "none"
    <3>1. v = t
      BY <2>2
    <3>2. /\ DOMAIN p = DOMAIN W!NewWritable /\ p.state = done.state /\ p.news = done.news
          /\ p.writeRequests = done.writeRequests /\ p.calls = done.calls
          /\ p.inFlightClose = done.inFlightClose
          /\ p.closeRequest = done.closeRequest /\ p.pendingAbort = "none"
      BY <1>6, Fields
    <3> HIDE DEF p, v
    <3>3. Alike(t, p)
      BY <3>2, TellAlike
    <3>4. t.news \in Seq(WEvents) /\ NewsOf(t) = NewsOf(p) \cup {<<"abort", how>>}
      BY <1>2, <1>6, <3>2, TellNews
    <3>5. NewsOf(p) = NewsOf(done)
      BY <3>2 DEF NewsOf
    <3> HIDE DEF t
    <3> QED
      BY <1>6, <3>1, <3>2, <3>3, <3>4, <3>5 DEF Alike
  <2> QED
    BY <2>1, <2>2
<1> HIDE DEF t, v
<1>8. PipedTo(v) = PipedTo(w) /\ \A e \in NewsOf(v) : e[1] # "write"
  BY <1>7 DEF PipedTo
<1>9. Tame(v)
  BY <1>7 DEF WInv, Shape, Tame, Typed
<1>10. Keeps(w) /\ ~ Takes(w) /\ Ended(w) /\ w.state # "closed"
  BY <1>1 DEF Keeps, Takes, Ended, Open, W!CloseQueuedOrInFlight
<1>11. CASE ok
  <2> DEFINE x == W!Settle(b, "closed", "resolved")
  <2>1. /\ DOMAIN b = DOMAIN v /\ b.news = v.news /\ b.state = "closed"
        /\ b.writeRequests = v.writeRequests /\ b.calls = v.calls
    BY <1>7, Fields DEF W!Assert_
  <2> HIDE DEF b
  <2>2. Tame(b) /\ NewsOf(b) = NewsOf(v) /\ PipedTo(b) = PipedTo(w)
    BY <1>8, <1>9, <2>1 DEF Tame, Typed, NewsOf, PipedTo
  <2>3. Drift(x, b)
    BY <2>2, SettleDrift DEF Hows
  <2> HIDE DEF x
  <2>4. x.state = "closed"
    BY <2>1, <2>3 DEF Drift
  <2>5. ASSUME NEW k, NEW n, Order(w, k, n)
        PROVE  Order(x, k, n)
    <3>1. n = k /\ PipedTo(x) = PipedTo(w)
      BY <1>10, <2>2, <2>3, <2>5 DEF Order, Drift
    <3> QED
      BY <2>4, <2>5, <3>1 DEF Order
  <2>6. Follows(x, w)
    BY <1>10, <2>4 DEF Follows, Takes
  <2>7. Moves(x, w)
    BY <2>3, <2>4, <2>5, <2>6 DEF Drift, Moves, Takes
  <2> QED
    BY <1>3, <1>11, <2>7 DEF x
<1>12. CASE ~ ok
  <2> DEFINE x == W!DealWithRejection(v)
  <2>1. Drift(x, v) /\ x.state # "writable"
    BY <1>7, <1>9, <1>10, RejectionDrift
  <2> HIDE DEF x
  <2>2. PipedTo(x) = PipedTo(w) /\ ~ Keeps(x)
    BY <1>1, <1>7, <1>8, <2>1 DEF Drift, Keeps, Open
  <2>3. CloseTold \notin NewsOf(x)
    <3>1. CloseTold \notin NewsOf(v)
      BY <1>4, <1>7, <1>12 DEF CloseTold
    <3> QED
      BY <2>1, <3>1 DEF Drift
  <2>4. Follows(x, w)
    BY <1>10, <2>1, <2>2 DEF Follows, Takes
  <2>5. Moves(x, w)
    BY <2>1, <2>2, <2>3, <2>4, OrderDown DEF Drift, Moves
  <2> QED
    BY <1>3, <1>12, <2>5 DEF x
<1> QED
  BY <1>11, <1>12

\* The sink has aborted.
LEMMA AbortedMoves ==
  ASSUME NEW w, WInv(w), w.news = <<>>, w.sink = "abort", NEW ok
  PROVE  Moves(W!FinishAbort(w, ok), w)
<1> DEFINE how == IF ok THEN "resolved" ELSE "rejected"
           a == [w EXCEPT !.sink = "idle"]
           e == <<"abort", how>>
           v == W!Tell(a, e)
           x == W!RejectCloseAndClosed(v)
<1>1. W!FinishAbort(w, ok) = x
  BY DEF W!FinishAbort
<1>2. w.state = "errored" /\ Tame(w)
  <2>1. w.news \in Seq(WEvents)
    OBVIOUS
  <2> QED
    BY <2>1, AllTame DEF WInv, Sink
<1>3. e \in WEvents /\ e # CloseTold /\ e[1] # "write"
  BY EventKinds DEF CloseTold, Hows
<1>4. Akin(a, w) /\ a.news = w.news
  BY <1>2, Fields DEF Tame, Typed, Akin
<1> HIDE DEF how, a, e
<1>5. Drift(a, w)
  BY <1>2, <1>4, SilentDrift
<1>6. Drift(v, a) /\ v.state = "errored"
  <2>1. Tame(a) /\ DOMAIN a = DOMAIN W!NewWritable /\ a.state = "errored"
    BY <1>2, <1>4, <1>5 DEF Drift, Tame, Typed, Akin
  <2>2. Drift(v, a)
    BY <1>3, <2>1, TellDrift
  <2>3. v.state = a.state
    BY <2>1, TellAlike DEF Alike
  <2> QED
    BY <2>1, <2>2, <2>3
<1> HIDE DEF v
<1>7. Drift(x, v)
  BY <1>6, RejectCloseDrift DEF Drift
<1> HIDE DEF x
<1>8. Drift(x, w)
  BY <1>5, <1>6, <1>7, DriftTwice
<1> QED
  BY <1>1, <1>8, DriftPasses, PassesMoves

\* The sink has started, or failed to.
LEMMA StartedMoves ==
  ASSUME NEW w, WInv(w), w.news = <<>>, w.sink = "start", NEW ok
  PROVE  Moves(W!FinishStart(w, ok), w)
<1> DEFINE v == [W!Assert_(w, w.state \in {"writable", "erroring"})
                 EXCEPT !.started = TRUE, !.sink = "idle"]
<1>1. W!FinishStart(w, ok) = IF ok THEN W!AdvanceQueueIfNeeded(v) ELSE W!DealWithRejection(v)
  BY DEF W!FinishStart
<1>2. WInv(v) /\ Open(v)
  BY StartInv
<1>3. Akin(v, w) /\ v.news = w.news
  BY Fields DEF WInv, Shape, Akin, W!Assert_
<1> HIDE DEF v
<1>4. Drift(v, w) /\ Tame(v) /\ v.pendingAbort \in {"none", "late", "first"}
  <2>1. w.news \in Seq(WEvents)
    OBVIOUS
  <2> QED
    BY <1>2, <1>3, <2>1, AllTame, SilentDrift
<1>5. Passes(W!AdvanceQueueIfNeeded(v), w)
  BY <1>2, <1>4, AdvancePasses, PassesAfter DEF Open
<1>6. Passes(W!DealWithRejection(v), w)
  <2>1. Drift(W!DealWithRejection(v), v)
    BY <1>2, <1>4, RejectionDrift DEF Open
  <2> QED
    BY <1>4, <2>1, DriftTwice, DriftPasses
<1> QED
  BY <1>1, <1>5, <1>6, PassesMoves

\* The sink answers whatever it was called for.
LEMMA AnswersMoves ==
  ASSUME NEW w, WInv(w), w.news = <<>>, w.sink # "idle", NEW ok
  PROVE  Moves(W!SinkAnswers(w, ok), w)
<1>1. w.sink \in {"start", "write", "close", "abort"}
  BY DEF WInv, Shape
<1> QED
  BY <1>1, StartedMoves, WrittenMoves, ClosedMoves, AbortedMoves DEF W!SinkAnswers

\* The other operations that neither write nor close.
LEMMA OthersMove ==
  ASSUME NEW w, WInv(w), w.news = <<>>
  PROVE  /\ w.state = "writable" => Moves(W!ControllerError(w), w)
         /\ Moves(W!StreamAbort(w), w)
         /\ Drift(W!AcquireWriter(w), w)
         /\ Drift(W!WriterRelease(w), w) /\ Moves(W!WriterRelease(w), w)
<1>1. Tame(w) /\ w.pendingAbort \in {"none", "late", "first"}
  <2>1. w.news \in Seq(WEvents)
    OBVIOUS
  <2> QED
    BY <2>1, AllTame
<1>2. w.state = "writable" => Moves(W!ControllerError(w), w)
  BY <1>1, ControllerErrorDrift, DriftPasses, PassesMoves
<1>3. Moves(W!StreamAbort(w), w)
  <2>1. /\ w.state \in {"writable", "erroring", "errored", "closed"}
        /\ w.state = "writable" => w.pendingAbort = "none"
    BY DEF WInv, Shape, Callable
  <2> QED
    BY <1>1, <2>1, AbortDrift, DriftPasses, PassesMoves
<1>4. Drift(W!AcquireWriter(w), w) /\ Drift(W!WriterRelease(w), w)
  BY <1>1, AcquireDrift, ReleaseDrift
<1> QED
  BY <1>2, <1>3, <1>4, DriftPasses, PassesMoves

-----------------------------------------------------------------------------
(* The sink is written to, and closed.                                     *)

\* Where nothing of it changes, the chunks keep their order.
LEMMA AkinMoves ==
  ASSUME NEW w, NEW v, Akin(v, w)
  PROVE  /\ Follows(v, w) /\ (Takes(v) <=> Takes(w)) /\ (Ended(v) <=> Ended(w))
         /\ \A a, n : Order(w, a, n) => Order(v, a, n)
<1>1. PipedTo(v) = PipedTo(w) /\ InFlight(v) = InFlight(w)
  BY DEF Akin, PipedTo, InFlight
<1>2. (Takes(v) <=> Takes(w)) /\ (Keeps(v) <=> Keeps(w)) /\ (Ended(v) <=> Ended(w))
  BY DEF Akin, Takes, Keeps, Ended, W!CloseQueuedOrInFlight
<1>3. Follows(v, w)
  BY <1>2 DEF Akin, Follows
<1>4. \A a, n : Order(w, a, n) => Order(v, a, n)
  BY <1>1, <1>2, ZenonT(60) DEF Akin, Order, Waiting
<1> QED
  BY <1>2, <1>3, <1>4

\* A chunk more waits: the next one, or one of the program where none of the pipe does.
LEMMA QueueOrder ==
  ASSUME NEW w, WInv(w), Takes(w), NEW c \in AllChunks, NEW a, NEW n, Order(w, a, n),
         IF c \in Ours THEN n < Len(Chunks) /\ c = Chunks[n + 1] ELSE a = n
  PROVE  LET v == [w EXCEPT !.writeRequests = Append(@, c), !.queue = Append(@, c)]
         IN  Order(v, a, IF c \in Ours THEN n + 1 ELSE n)
<1> DEFINE v == [w EXCEPT !.writeRequests = Append(@, c), !.queue = Append(@, c)]
           k == Len(w.writeRequests)
           x == InFlight(w)
           m == IF c \in Ours THEN n + 1 ELSE n
<1>1. /\ DOMAIN v = DOMAIN w /\ v.state = w.state /\ v.inFlightWrite = w.inFlightWrite
      /\ v.inFlightClose = w.inFlightClose /\ v.closeRequest = w.closeRequest
      /\ v.calls = w.calls /\ v.writeRequests = Append(w.writeRequests, c)
      /\ v.queue = Append(w.queue, c)
  BY Fields DEF WInv, Shape
<1> HIDE DEF v
<1>2. PipedTo(v) = PipedTo(w) /\ InFlight(v) = x
  BY <1>1 DEF PipedTo, InFlight
<1>3. w.writeRequests \in Seq(AllChunks) /\ w.queue \in Seq(AllChunks \cup {CloseSentinel})
  BY DEF WInv, Shape
<1>4. Len(w.queue) = k + x + Closing(w) /\ Closing(w) = 0 /\ x \in Nat /\ k \in Nat
  <2>1. Open(w) /\ ~ w.closeRequest
    BY DEF Takes, Open, W!CloseQueuedOrInFlight
  <2>2. k \in Nat
    BY <1>3
  <2> QED
    BY <2>1, <2>2, Counts DEF WInv, Queued
<1>5. k + x \in Nat /\ Len(w.queue) = k + x
  <2> HIDE DEF k, x
  <2>1. k + x + 0 = k + x /\ k + x \in Nat
    BY <1>4
  <2> QED
    BY <1>4, <2>1
<1>6. /\ a \in Nat /\ n \in Nat /\ a <= n /\ n <= Len(Chunks)
      /\ PipedTo(w) = SubSeq(Chunks, 1, a) /\ n - a <= k
      /\ w.inFlightWrite \in Ours => a > 0 /\ w.inFlightWrite = Chunks[a]
      /\ \A i \in 1 .. k :
           /\ w.queue[i + x] = w.writeRequests[i]
           /\ i <= k - (n - a) => w.writeRequests[i] \notin Ours
           /\ i > k - (n - a) => w.writeRequests[i] = Chunks[n - (k - i)]
  BY DEF Order, Waiting, Takes
<1>7. /\ Len(v.writeRequests) = k + 1 /\ v.writeRequests[k + 1] = c
      /\ \A i \in 1 .. k : v.writeRequests[i] = w.writeRequests[i]
  BY <1>1, <1>3
<1>8. /\ v.queue[(k + x) + 1] = c
      /\ \A i \in 1 .. k + x : v.queue[i] = w.queue[i]
  <2> HIDE DEF k, x
  <2> QED
    BY <1>1, <1>3, <1>5
<1> HIDE DEF k, x
<1>9. \A i \in 1 .. k + 1 : v.queue[i + x] = v.writeRequests[i]
  <2>1. ASSUME NEW i \in 1 .. k
        PROVE  i + x \in 1 .. k + x
    BY <1>4
  <2>2. (k + 1) + x = (k + x) + 1
    BY <1>4
  <2>3. \A i \in 1 .. k + 1 : i \in 1 .. k \/ i = k + 1
    BY <1>4
  <2> QED
    BY <1>6, <1>7, <1>8, <2>1, <2>2, <2>3
<1>10. Takes(v)
  BY <1>1 DEF Takes, W!CloseQueuedOrInFlight
<1>11. CASE c \in Ours
  <2>1. /\ m = n + 1 /\ m \in Nat /\ a <= m /\ m <= Len(Chunks) /\ m - a <= k + 1
        /\ (k + 1) - (m - a) = k - (n - a)
    BY <1>4, <1>6, <1>11, EveryChunk
  <2>2. ASSUME NEW i \in 1 .. k + 1
        PROVE  /\ i <= (k + 1) - (m - a) => v.writeRequests[i] \notin Ours
               /\ i > (k + 1) - (m - a) => v.writeRequests[i] = Chunks[m - ((k + 1) - i)]
    <3>1. CASE i \in 1 .. k
      <4>1. m - ((k + 1) - i) = n - (k - i)
        BY <1>4, <1>6, <2>1, <3>1
      <4> QED
        BY <1>6, <1>7, <2>1, <3>1, <4>1
    <3>2. CASE i \notin 1 .. k
      <4>1. i = k + 1
        BY <1>4, <3>2
      <4>2. m - ((k + 1) - i) = n + 1 /\ ~ (i <= (k + 1) - (m - a))
        BY <1>4, <1>6, <2>1, <4>1
      <4> QED
        BY <1>7, <1>11, <4>1, <4>2
    <3> QED
      BY <3>1, <3>2
  <2> HIDE DEF m
  <2>3. Waiting(v, a, m)
    BY <1>1, <1>2, <1>6, <1>7, <1>9, <2>1, <2>2 DEF Waiting
  <2>4. Order(v, a, m)
    BY <1>2, <1>6, <1>10, <2>1, <2>3 DEF Order
  <2> QED
    BY <2>4 DEF v, m
<1>12. CASE c \notin Ours
  <2>1. m = n /\ a = n /\ n - a <= k + 1 /\ (k + 1) - (n - a) = k + 1 /\ k - (n - a) = k
    BY <1>4, <1>6, <1>12
  <2>2. ASSUME NEW i \in 1 .. k + 1
        PROVE  v.writeRequests[i] \notin Ours /\ i <= k + 1 /\ ~ (i > k + 1)
    <3>1. i <= k + 1 /\ ~ (i > k + 1)
      BY <1>4
    <3>2. CASE i \in 1 .. k
      <4>1. i <= k
        BY <3>2
      <4> QED
        BY <1>6, <1>7, <2>1, <3>1, <3>2, <4>1
    <3>3. CASE i \notin 1 .. k
      <4>1. i = k + 1
        BY <1>4, <3>3
      <4> QED
        BY <1>7, <1>12, <3>1, <4>1
    <3> QED
      BY <3>2, <3>3
  <2> HIDE DEF m
  <2>3. Waiting(v, a, n)
    BY <1>1, <1>2, <1>6, <1>7, <1>9, <2>1, <2>2 DEF Waiting
  <2>4. Order(v, a, n)
    BY <1>2, <1>6, <1>10, <2>3 DEF Order
  <2> QED
    BY <1>12, <2>1, <2>4 DEF v
<1> QED
  BY <1>11, <1>12

\* write() of a writer takes a chunk where the stream takes any.
LEMMA WriteMoves ==
  ASSUME NEW w, WInv(w), w.news = <<>>, NEW c \in AllChunks
  PROVE  LET v == W!WriterWrite(w, c)
         IN  /\ Tame(v) /\ Follows(v, w) /\ CloseTold \notin NewsOf(v)
             /\ Takes(v) => \A e \in NewsOf(v) : e[1] # "write"
             /\ \A a, n : LET m == IF c \in Ours /\ Takes(w) THEN n + 1 ELSE n
                  IN  /\ Order(w, a, n)
                      /\ Takes(w) => IF c \in Ours THEN n < Len(Chunks) /\ c = Chunks[n + 1]
                                     ELSE a = n
                      => Order(v, a, m) \/ (Order(v, a + 1, m) /\ Takes(v) /\ Takes(w))
<1> DEFINE v == IF w.hasAlgorithms THEN w ELSE W!ErrorIfNeeded(w)
           a == [v EXCEPT !.writeRequests = Append(@, c), !.queue = Append(@, c)]
           b == W!UpdateIfOpen(a)
           u == W!AdvanceQueueIfNeeded(b)
           e == <<"write", c>>
           t == W!Tell(v, e)
           x == W!WriterWrite(w, c)
<1>1. x = IF v.state # "writable" \/ W!CloseQueuedOrInFlight(v) THEN t ELSE u
  BY DEF W!WriterWrite
<1>2. /\ Tame(w) /\ w.pendingAbort \in {"none", "late", "first"} /\ NewsOf(w) = {}
  <2>1. w.news \in Seq(WEvents)
    OBVIOUS
  <2> QED
    BY <2>1, AllTame, Unheard
<1>3. Drift(v, w) /\ (v.state = "writable" => v = w)
  <2>1. Drift(w, w)
    BY <1>2, DriftSelf
  <2>2. w.state = "writable" =>
          LET y == W!ControllerError(w) IN Drift(y, w) /\ y.state # "writable"
    BY <1>2, ControllerErrorDrift
  <2> QED
    BY <2>1, <2>2 DEF W!ErrorIfNeeded
<1>4. v # w => ~ Takes(w)
  BY DEF WInv, Callable, Takes, W!ErrorIfNeeded, W!CloseQueuedOrInFlight
<1>5. e \in WEvents /\ e # CloseTold
  BY EventKinds DEF CloseTold
<1>6. WInv(v)
  BY ControllerErrorInv DEF W!ErrorIfNeeded
<1> HIDE DEF v, x
<1>7. CASE v.state # "writable" \/ W!CloseQueuedOrInFlight(v)
  <2>1. ~ Takes(v) /\ ~ Takes(w)
    BY <1>3, <1>4, <1>7 DEF Takes
  <2>2. Tame(v) /\ DOMAIN v = DOMAIN W!NewWritable /\ v.news \in Seq(WEvents)
    BY <1>3 DEF Drift, Tame, Typed
  <2>3. Alike(t, v) /\ t.news \in Seq(WEvents) /\ NewsOf(t) = NewsOf(v) \cup {e}
    BY <1>5, <2>2, TellAlike, TellNews
  <2> HIDE DEF e, t
  <2>4. Akin(t, v) /\ Tame(t)
    BY <2>2, <2>3 DEF Alike, Akin, Tame, Typed
  <2>5. CloseTold \notin NewsOf(t)
    BY <1>2, <1>3, <1>5, <2>3 DEF Drift
  <2>6. ~ Takes(t) /\ Follows(t, w) /\ \A i, n : Order(w, i, n) => Order(t, i, n)
    BY <1>3, <2>1, <2>4, AkinMoves, DriftOrder DEF Follows
  <2>7. x = t
    BY <1>1, <1>7
  <2> QED
    BY <2>1, <2>4, <2>5, <2>6, <2>7 DEF x
<1>8. CASE v.state = "writable" /\ ~ W!CloseQueuedOrInFlight(v)
  <2>1. v = w /\ Takes(w)
    BY <1>3, <1>8 DEF Takes
  <2>2. /\ DOMAIN a = DOMAIN v /\ a.state = v.state /\ a.news = v.news
        /\ a.inFlightClose = v.inFlightClose /\ a.closeRequest = v.closeRequest
    BY <1>6, Fields DEF WInv, Shape
  <2>3. WInv(a) /\ a.state = "writable"
    BY <1>6, <1>8, QueueInv
  <2>4. \A i, n : LET m == IF c \in Ours THEN n + 1 ELSE n
                  IN  /\ Order(w, i, n)
                      /\ IF c \in Ours THEN n < Len(Chunks) /\ c = Chunks[n + 1] ELSE i = n
                      => Order(a, i, m)
    BY <2>1, QueueOrder
  <2>5. Takes(a) /\ a.news \in Seq(WEvents) /\ NewsOf(a) = {}
    BY <1>2, <1>8, <2>1, <2>2 DEF Takes, W!CloseQueuedOrInFlight, Tame, Typed, NewsOf
  <2>6. Tame(a)
    BY <2>3, <2>5, AllTame
  <2> HIDE DEF a
  <2>7. Drift(b, a)
    BY <2>6, UpdateDrift
  <2>8. WInv(b) /\ b.state = "writable" /\ Tame(b)
    BY <2>3, <2>7, UpdateInv DEF Drift
  <2> HIDE DEF b
  <2>9. Passes(u, b)
    BY <2>8, AdvancePasses
  <2> HIDE DEF u
  <2>10. Passes(u, a)
    BY <2>7, <2>9, PassesAfter
  <2>11. Follows(u, w)
    <3>1. Follows(u, a)
      BY <2>10 DEF Passes
    <3>2. w.state = "writable" /\ ~ Ended(a)
      BY <2>1, <2>5 DEF Takes, Ended
    <3> QED
      BY <2>1, <2>5, <3>1, <3>2 DEF Follows, Keeps
  <2>12. /\ Tame(u) /\ CloseTold \notin NewsOf(u)
         /\ Takes(u) => \A d \in NewsOf(u) : d[1] # "write"
    BY <2>5, <2>10 DEF Passes, Takes
  <2>13. ASSUME NEW i, NEW n, Order(w, i, n),
                IF c \in Ours THEN n < Len(Chunks) /\ c = Chunks[n + 1] ELSE i = n
         PROVE  LET m == IF c \in Ours THEN n + 1 ELSE n
                IN  Order(u, i, m) \/ (Order(u, i + 1, m) /\ Takes(u))
    BY <2>4, <2>10, <2>13 DEF Passes
  <2>14. x = u
    BY <1>1, <1>8
  <2> QED
    BY <2>1, <2>11, <2>12, <2>13, <2>14 DEF x
<1> QED
  BY <1>7, <1>8

\* What a close leaves of the order.
Closes(v, w) ==
  /\ Tame(v) /\ ~ Takes(v) /\ (Keeps(v) => Keeps(w))
  /\ w.state = "closed" => v.state = "closed"
  /\ \A a, n : Order(w, a, n) /\ (Takes(w) => a = n) => Order(v, a, n)

\* The sentinel is put behind the chunks.
LEMMA CloseMoves ==
  ASSUME NEW w, WInv(w), w.news = <<>>, Open(w) => ~ W!CloseQueuedOrInFlight(w)
  PROVE  LET v == W!StreamClose(w) IN Closes(v, w) /\ CloseTold \notin NewsOf(v)
<1>1. Tame(w) /\ NewsOf(w) = {} /\ w.news \in Seq(WEvents)
  <2>1. w.news \in Seq(WEvents)
    OBVIOUS
  <2> QED
    BY <2>1, AllTame, Unheard
<1>2. CASE w.state \in {"closed", "errored"}
  <2> DEFINE e == <<"close", "rejected">>
             t == W!Tell(w, e)
  <2>1. e \in WEvents /\ e # CloseTold
    BY Harmless
  <2>2. Alike(t, w) /\ t.news \in Seq(WEvents) /\ NewsOf(t) = {e}
    <3>1. Alike(t, w) /\ t.news \in Seq(WEvents) /\ NewsOf(t) = NewsOf(w) \cup {e}
      BY <1>1, <2>1, TellAlike, TellNews DEF Tame, Typed
    <3> QED
      BY <1>1, <3>1
  <2>3. W!StreamClose(w) = t
    BY <1>2 DEF W!StreamClose
  <2> HIDE DEF e, t
  <2>4. Akin(t, w) /\ Tame(t)
    BY <1>1, <2>2 DEF Alike, Akin, Tame, Typed
  <2>5. ~ Takes(w)
    BY <1>2 DEF Takes
  <2> QED
    BY <2>1, <2>2, <2>3, <2>4, <2>5, AkinMoves DEF Closes, Follows
<1>3. CASE w.state \notin {"closed", "errored"}
  <2> DEFINE v == [W!Assert_(w, ~ W!CloseQueuedOrInFlight(w)) EXCEPT !.closeRequest = TRUE]
             u == IF v.backpressure /\ v.state = "writable"
                  THEN W!Settle(v, "ready", "resolved") ELSE v
             a == [u EXCEPT !.queue = Append(@, CloseSentinel)]
             x == W!AdvanceQueueIfNeeded(a)
  <2>1. Open(w) /\ ~ w.closeRequest /\ ~ w.inFlightClose
    BY <1>3 DEF WInv, Shape, Open, W!CloseQueuedOrInFlight
  <2>2. W!StreamClose(w) = x
    BY <1>3 DEF W!StreamClose
  <2>3. /\ WInv(a) /\ a.state = w.state /\ a.closeRequest
        /\ a.inFlightClose = w.inFlightClose /\ a.inFlightWrite = w.inFlightWrite
        /\ a.queue = Append(w.queue, CloseSentinel) /\ a.writeRequests = w.writeRequests
    BY <2>1, SentinelInv
  <2>4. DOMAIN v = DOMAIN w /\ v.news = w.news /\ v.calls = w.calls
        /\ v.writeRequests = w.writeRequests
    BY Fields DEF WInv, Shape, W!Assert_
  <2> HIDE DEF v
  <2>5. Tame(v) /\ NewsOf(v) = {}
    BY <1>1, <2>4 DEF Tame, Typed, NewsOf
  <2>6. Drift(u, v) /\ u.calls = v.calls
    BY <2>4, <2>5, DriftSelf, SettleDrift, SettleAlike DEF Hows, Alike, WInv, Shape
  <2>7. a.news = u.news /\ a.calls = u.calls
    BY <2>4, <2>6, Fields DEF Drift, WInv, Shape
  <2> HIDE DEF u, a
  <2>8. NewsOf(a) = NewsOf(u) /\ CloseTold \notin NewsOf(a) /\ Tame(a)
    <3>1. a.news \in Seq(WEvents)
      BY <2>6, <2>7 DEF Drift, Tame, Typed
    <3> QED
      BY <2>3, <2>5, <2>6, <2>7, <3>1, AllTame, ZenonT(60) DEF Drift, NewsOf
  <2>9. ~ Takes(a) /\ PipedTo(a) = PipedTo(w) /\ (Keeps(a) => Keeps(w) /\ w.state = "writable")
    BY <2>1, <2>3, <2>4, <2>6, <2>7 DEF Takes, Keeps, Open, PipedTo, W!CloseQueuedOrInFlight
  <2>10. ASSUME NEW i, NEW n, Order(w, i, n), Takes(w) => i = n
         PROVE  Order(a, i, n)
    <3>1. ASSUME w.state = "writable"
          PROVE  Waiting(a, i, n)
      <4>1. w.writeRequests \in Seq(AllChunks) /\ w.queue \in Seq(AllChunks \cup {CloseSentinel})
        BY DEF WInv, Shape
      <4> DEFINE k == Len(w.writeRequests)
                 y == InFlight(w)
      <4>2. InFlight(a) = y /\ k \in Nat /\ y \in Nat
        BY <2>3, <4>1, Counts DEF InFlight
      <4>3. Len(w.queue) = k + y + Closing(w) /\ Closing(w) = 0
        BY <2>1, Counts DEF WInv, Queued
      <4>4. \A j \in 1 .. Len(w.queue) : a.queue[j] = w.queue[j]
        BY <2>3, <4>1
      <4> HIDE DEF k, y
      <4>5. Len(w.queue) = k + y
        <5>1. k + y + 0 = k + y
          BY <4>2
        <5> QED
          BY <4>3, <5>1
      <4>6. \A j \in 1 .. k : j + y \in 1 .. Len(w.queue)
        <5>1. \A j \in 1 .. k : j + y \in 1 .. k + y
          BY <4>2
        <5> QED
          BY <4>5, <5>1
      <4>7. \A j \in 1 .. k : a.queue[j + y] = w.queue[j + y]
        BY <4>4, <4>6
      <4>8. Waiting(w, i, n)
        BY <2>10, <3>1 DEF Order
      <4>9. /\ n - i <= k
            /\ \A j \in 1 .. k :
                 /\ w.queue[j + y] = w.writeRequests[j]
                 /\ j <= k - (n - i) => w.writeRequests[j] \notin Ours
                 /\ j > k - (n - i) => w.writeRequests[j] = Chunks[n - (k - j)]
            /\ w.inFlightWrite \in Ours => i > 0 /\ w.inFlightWrite = Chunks[i]
        BY <4>8 DEF Waiting, k, y
      <4>10. \A j \in 1 .. k : a.queue[j + y] = w.writeRequests[j]
        BY <4>7, <4>9
      <4>11. Len(a.writeRequests) = k /\ a.writeRequests = w.writeRequests
             /\ InFlight(a) = y /\ a.inFlightWrite = w.inFlightWrite
        BY <2>3, <4>2 DEF k
      <4> QED
        BY <4>9, <4>10, <4>11 DEF Waiting
    <3>2. Keeps(a) => n = i
      BY <2>1, <2>9, <2>10 DEF Takes, W!CloseQueuedOrInFlight
    <3> QED
      BY <2>3, <2>9, <2>10, <3>1, <3>2 DEF Order
  <2>11. Passes(x, a)
    BY <2>1, <2>3, <2>8, AdvancePasses DEF Open
  <2> HIDE DEF x
  <2>12. ~ Takes(x) /\ (Keeps(x) => Keeps(w)) /\ CloseTold \notin NewsOf(x) /\ Tame(x)
    BY <2>8, <2>9, <2>11 DEF Passes, Follows
  <2>13. w.state # "closed"
    BY <1>3
  <2>14. \A i, n : Order(w, i, n) /\ (Takes(w) => i = n) => Order(x, i, n)
    BY <2>10, <2>11, <2>12 DEF Passes
  <2>15. Closes(x, w)
    BY <2>12, <2>13, <2>14 DEF Closes
  <2> QED
    BY <2>2, <2>12, <2>15
<1> QED
  BY <1>2, <1>3

\* The close of a pipe that ends tells at once that the stream closes or has closed.
LEMMA CloseWithErrorMoves ==
  ASSUME NEW w, WInv(w), w.news = <<>>
  PROVE  LET v == W!CloseWithErrorPropagation(w)
         IN  Closes(v, w) /\ (CloseTold \in NewsOf(v) => Ended(w))
<1>1. Tame(w) /\ NewsOf(w) = {}
  <2>1. w.news \in Seq(WEvents)
    OBVIOUS
  <2> QED
    BY <2>1, AllTame, Unheard
<1>2. CASE Ended(w) \/ w.state = "errored"
  <2>1. PICK how \in Hows :
          /\ W!CloseWithErrorPropagation(w) = W!Tell(w, <<"close", how>>)
          /\ how = "resolved" => Ended(w)
    BY <1>2 DEF W!CloseWithErrorPropagation, Hows, Ended
  <2> DEFINE e == <<"close", how>>
             t == W!Tell(w, e)
  <2>2. e \in WEvents /\ (e = CloseTold => Ended(w))
    BY <2>1, EventKinds DEF CloseTold
  <2>3. Alike(t, w) /\ t.news \in Seq(WEvents) /\ NewsOf(t) = {e}
    <3>1. Alike(t, w) /\ t.news \in Seq(WEvents) /\ NewsOf(t) = NewsOf(w) \cup {e}
      BY <1>1, <2>2, TellAlike, TellNews DEF Tame, Typed
    <3> QED
      BY <1>1, <3>1
  <2> HIDE DEF e, t
  <2>4. Akin(t, w) /\ Tame(t)
    BY <1>1, <2>3 DEF Alike, Akin, Tame, Typed
  <2>5. ~ Takes(w)
    BY <1>2 DEF Takes, Ended
  <2>6. Closes(t, w)
    BY <2>4, <2>5, AkinMoves DEF Closes, Follows
  <2> QED
    BY <2>1, <2>2, <2>3, <2>6 DEF t, e
<1>3. CASE ~ (Ended(w) \/ w.state = "errored")
  <2>1. W!CloseWithErrorPropagation(w) = W!StreamClose(w)
    BY <1>3 DEF W!CloseWithErrorPropagation, Ended
  <2>2. LET v == W!StreamClose(w) IN Closes(v, w) /\ CloseTold \notin NewsOf(v)
    BY <1>3, CloseMoves DEF Ended
  <2> QED
    BY <2>1, <2>2
<1> QED
  BY <1>2, <1>3

-----------------------------------------------------------------------------
(* The source: its chunks wait for a read.                                 *)

\* The chunks of a source that are left: none where it has ended or a read waits.
Stocked(r) ==
  /\ r.queue \in Seq(Ours)
  /\ r.state # "readable" \/ r.readRequests # 0 => r.queue = <<>>
EndTold == <<"closed", "resolved">>
TellsEnd(e) == e[1] = "closed" /\ e[2] = "resolved"

\* An operation of a source that neither takes chunks nor gives any.
Ebbs(v, r) ==
  /\ Stocked(v)
  /\ r.state = "closed" => v.state = "closed"
  /\ v.queue = r.queue \/ v.queue = <<>>
  /\ v.state = "readable" => r.state = "readable" /\ v.queue = r.queue
  /\ \A e \in NewsOf(v) : /\ e[1] = "read" => e[2] \notin Ours
                          /\ TellsEnd(e) => v.state = "closed"

\* One that closes nothing that has chunks left.
Lasts(v, r) == v.state = "closed" => v.queue = r.queue /\ r.state # "errored"

\* pull is called or not: the chunks stay.
LEMMA PullKeeps ==
  ASSUME NEW r, RInv(r)
  PROVE  R!CallPullIfNeeded(r).queue = r.queue
<1>1. CASE ~ R!ShouldCallPull(r)
  BY <1>1 DEF R!CallPullIfNeeded
<1>2. CASE R!ShouldCallPull(r) /\ r.pulling
  BY <1>2, ReadFields DEF R!CallPullIfNeeded, RInv
<1>3. CASE R!ShouldCallPull(r) /\ ~ r.pulling
  <2> DEFINE v == [R!Assert_(r, ~ r.pullAgain) EXCEPT !.pulling = TRUE]
  <2>1. v.queue = r.queue
    BY ReadFields DEF R!Assert_, RInv
  <2> QED
    BY <1>3, <2>1 DEF R!CallPullIfNeeded
<1> QED
  BY <1>1, <1>2, <1>3

\* Nothing changes that matters here.
LEMMA StillEbbs ==
  ASSUME NEW r, Stocked(r), NEW v, v.queue = r.queue, v.state = r.state,
         v.readRequests \in {0, r.readRequests},
         \A e \in NewsOf(v) : e[1] # "read" /\ ~ TellsEnd(e)
  PROVE  Ebbs(v, r) /\ Lasts(v, r)
  BY DEF Stocked, Ebbs, Lasts

\* The end of the stream leaves its chunks where they are.
LEMMA EndKeeps ==
  ASSUME NEW r, Heeded(r), r.state = "readable", NEW state, state # "readable",
         NEW read, NEW closed
  PROVE  LET v == R!EndStream(r, state, read, closed)
         IN  /\ v.queue = r.queue /\ v.state = state
             /\ \A x \in NewsOf(v) : x = <<"read", read>> \/ x = <<"closed", closed>>
<1> DEFINE v == R!EndStream(r, state, read, closed)
           d == <<"read", read>>
           e == <<"closed", closed>>
           a == [R!Assert_(r, r.state = "readable") EXCEPT !.state = state]
           news == a.news \o [i \in 1 .. r.readRequests |-> <<"read", read>>] \o <<e>>
           u == [a EXCEPT !.readRequests = 0, !.news = news]
<1>1. /\ v.state = state
      /\ v.news = IF ~ r.reader THEN <<>>
                  ELSE IF r.readRequests = 0 THEN <<e>> ELSE <<d, e>>
  BY EndTells
<1>2. DOMAIN a = DOMAIN R!NewReadable /\ a.queue = r.queue
  BY ReadFields DEF R!Assert_, RInv, Heeded
<1>3. v = IF ~ a.reader THEN a ELSE u
  BY DEF R!EndStream
<1> HIDE DEF a, news
<1>4. u.queue = r.queue
  BY <1>2, ReadFields
<1> HIDE DEF u
<1>5. v.queue = r.queue
  BY <1>2, <1>3, <1>4
<1> HIDE DEF v, d, e
<1>6. \A x \in NewsOf(v) : x = d \/ x = e
  <2>1. v.news = <<>> \/ v.news = <<e>> \/ v.news = <<d, e>>
    BY <1>1
  <2> QED
    BY <2>1, NoNews, OneNews, TwoNews
<1> QED
  BY <1>1, <1>5, <1>6 DEF v, d, e

\* "done" and "failed" are no chunks.
LEMMA NoChunk ==
  /\ "done" \notin Ours /\ "failed" \notin Ours
  /\ \A how : ~ TellsEnd(<<"read", how>>)
  /\ ~ TellsEnd(<<"closed", "rejected">>)
<1>1. "done" \notin Ours /\ "failed" \notin Ours
  BY ChunksAssumption DEF Ours
<1> QED
  BY <1>1 DEF EndTold, TellsEnd

\* error() of the source.
LEMMA SourceErrorEbbs ==
  ASSUME NEW r, Heeded(r), Stocked(r)
  PROVE  LET v == R!ControllerError(r) IN Ebbs(v, r) /\ Lasts(v, r)
<1> DEFINE a == [r EXCEPT !.queue = <<>>]
           v == R!EndStream(a, "errored", "failed", "rejected")
<1>1. Heeded(a) /\ a.state = r.state /\ a.queue = <<>>
  BY ReadFields DEF Heeded, RInv
<1>2. R!ControllerError(r) = IF r.state # "readable" THEN r ELSE v
  BY DEF R!ControllerError
<1> HIDE DEF a
<1>3. Ebbs(r, r) /\ Lasts(r, r)
  BY StillEbbs, NoNews DEF Heeded
<1>4. CASE r.state = "readable"
  <2>1. /\ v.queue = <<>> /\ v.state = "errored"
        /\ \A x \in NewsOf(v) : x = <<"read", "failed">> \/ x = <<"closed", "rejected">>
    <3>1. "errored" # "readable" /\ a.state = "readable"
      BY <1>1, <1>4
    <3>2. /\ v.queue = a.queue /\ v.state = "errored"
          /\ \A x \in NewsOf(v) : x = <<"read", "failed">> \/ x = <<"closed", "rejected">>
      BY <1>1, <3>1, EndKeeps, Zenon
    <3> QED
      BY <1>1, <3>2
  <2> HIDE DEF v
  <2>2. Stocked(v)
    BY <2>1 DEF Stocked
  <2> QED
    BY <1>2, <1>4, <2>1, <2>2, NoChunk DEF Ebbs, Lasts, v
<1> QED
  BY <1>2, <1>3, <1>4

\* close() of the source.
LEMMA SourceCloseEbbs ==
  ASSUME NEW r, Heeded(r), Stocked(r)
  PROVE  LET v == R!ControllerClose(r) IN Ebbs(v, r) /\ Lasts(v, r)
<1> DEFINE a == [r EXCEPT !.closeRequested = TRUE]
           v == R!EndStream(a, "closed", "done", "resolved")
<1>1. /\ Heeded(a) /\ a.state = r.state /\ a.queue = r.queue
      /\ a.readRequests = r.readRequests
  BY ReadFields DEF Heeded, RInv
<1>2. R!ControllerClose(r) = IF ~ R!CanCloseOrEnqueue(r) THEN r
                             ELSE IF a.queue = <<>> THEN v ELSE a
  BY DEF R!ControllerClose, R!CloseStream
<1> HIDE DEF a
<1>3. Ebbs(r, r) /\ Lasts(r, r) /\ Ebbs(a, r) /\ Lasts(a, r)
  BY <1>1, StillEbbs, NoNews DEF Heeded
<1>4. CASE R!CanCloseOrEnqueue(r) /\ r.queue = <<>>
  <2>1. r.state = "readable"
    BY <1>4 DEF R!CanCloseOrEnqueue
  <2>2. /\ v.queue = <<>> /\ v.state = "closed"
        /\ \A x \in NewsOf(v) : x = <<"read", "done">> \/ x = <<"closed", "resolved">>
    <3>1. "closed" # "readable" /\ a.state = "readable"
      BY <1>1, <2>1
    <3>2. /\ v.queue = a.queue /\ v.state = "closed"
          /\ \A x \in NewsOf(v) : x = <<"read", "done">> \/ x = <<"closed", "resolved">>
      BY <1>1, <3>1, EndKeeps, Zenon
    <3> QED
      BY <1>1, <1>4, <3>2
  <2> HIDE DEF v
  <2>3. Stocked(v)
    BY <2>2 DEF Stocked
  <2>4. Ebbs(v, r) /\ Lasts(v, r)
    BY <1>4, <2>1, <2>2, <2>3, NoChunk DEF Ebbs, Lasts
  <2> QED
    BY <1>1, <1>2, <1>4, <2>4 DEF v
<1> QED
  BY <1>1, <1>2, <1>3, <1>4

\* cancel() drops what is left.
LEMMA CancelEbbs ==
  ASSUME NEW r, Heeded(r), Stocked(r)
  PROVE  LET v == R!StreamCancel(r) IN Ebbs(v, r) /\ v.state # "readable" /\ v.queue = <<>>
<1>1. CASE r.state \in {"closed", "errored"}
  <2>1. PICK how : R!StreamCancel(r) = R!Tell(r, <<"cancel", how>>)
    BY <1>1 DEF R!StreamCancel
  <2> DEFINE e == <<"cancel", how>>
             v == R!Tell(r, e)
  <2>2. /\ v.news = <<e>> /\ v.state = r.state /\ v.readRequests = r.readRequests
        /\ v.queue = r.queue
    BY ReadFields DEF Heeded, RInv, R!Tell
  <2>3. e[1] = "cancel" /\ ~ TellsEnd(e)
    BY DEF EndTold, TellsEnd
  <2> HIDE DEF e, v
  <2>4. \A d \in NewsOf(v) : d[1] # "read" /\ ~ TellsEnd(d)
    BY <2>2, <2>3, OneNews
  <2>5. r.queue = <<>> /\ Ebbs(v, r)
    BY <1>1, <2>2, <2>4, StillEbbs DEF Stocked
  <2> QED
    BY <1>1, <2>1, <2>2, <2>5 DEF v, e
<1>2. CASE r.state = "readable"
  <2> DEFINE u == R!CloseStream(r)
             v == [u EXCEPT !.queue = <<>>, !.cancelling = TRUE]
  <2>1. /\ u.state = "closed"
        /\ \A x \in NewsOf(u) : x = <<"read", "done">> \/ x = <<"closed", "resolved">>
    <3> DEFINE x == R!EndStream(r, "closed", "done", "resolved")
    <3>1. "closed" # "readable"
      OBVIOUS
    <3>2. u = x
      BY DEF R!CloseStream
    <3>3. /\ x.queue = r.queue /\ x.state = "closed"
          /\ \A y \in NewsOf(x) : y = <<"read", "done">> \/ y = <<"closed", "resolved">>
      BY <1>2, <3>1, EndKeeps, Zenon
    <3> HIDE DEF u, x
    <3> QED
      BY <3>2, <3>3
  <2>2. RInv(u)
    BY <1>2, EndInv DEF R!CloseStream, Heeded
  <2>3. R!StreamCancel(r) = v
    BY <1>2 DEF R!StreamCancel
  <2> HIDE DEF u
  <2>4. v.state = u.state /\ v.queue = <<>> /\ v.news = u.news
    BY <2>2, ReadFields DEF RInv
  <2> HIDE DEF v
  <2>5. NewsOf(v) = NewsOf(u)
    BY <2>4 DEF NewsOf
  <2>6. Stocked(v)
    BY <2>4 DEF Stocked
  <2>7. Ebbs(v, r)
    BY <1>2, <2>1, <2>4, <2>5, <2>6, NoChunk DEF Ebbs
  <2> QED
    BY <2>1, <2>3, <2>4, <2>7
<1> QED
  BY <1>1, <1>2 DEF Heeded, RInv

\* A reader is taken or released.
LEMMA ReaderEbbs ==
  ASSUME NEW r, Heeded(r), Stocked(r)
  PROVE  /\ LET v == R!AcquireReader(r) IN Ebbs(v, r) /\ Lasts(v, r)
         /\ LET v == R!ReaderRelease(r) IN Ebbs(v, r) /\ Lasts(v, r)
<1>1. LET v == R!AcquireReader(r) IN Ebbs(v, r) /\ Lasts(v, r)
  <2> DEFINE v == R!AcquireReader(r)
  <2>1. v.queue = r.queue /\ v.state = r.state /\ v.readRequests = 0 /\ v.news = <<>>
    BY ReadFields DEF Heeded, RInv, R!AcquireReader
  <2> HIDE DEF v
  <2> QED
    BY <2>1, StillEbbs, NoNews DEF v
<1>2. LET v == R!ReaderRelease(r) IN Ebbs(v, r) /\ Lasts(v, r)
  <2> DEFINE a == R!Assert_(r, r.reader)
             e == <<"closed", "rejected">>
             news == IF r.state = "readable" THEN Append(a.news, e) ELSE a.news
             v == [a EXCEPT !.reader = FALSE, !.readRequests = 0, !.news = news]
  <2>1. R!ReaderRelease(r) = v
    BY DEF R!ReaderRelease
  <2>2. DOMAIN a = DOMAIN r /\ a.news = <<>> /\ a.state = r.state /\ a.queue = r.queue
    BY ReadFields DEF Heeded, RInv, R!Assert_
  <2> HIDE DEF a
  <2>3. v.readRequests = 0 /\ v.news = news /\ v.state = r.state /\ v.queue = r.queue
    BY <2>2, ReadFields DEF Heeded, RInv
  <2>4. news \in {<<>>, <<e>>} /\ e[1] = "closed" /\ ~ TellsEnd(e)
    BY <2>2 DEF EndTold, TellsEnd
  <2> HIDE DEF v, news, e
  <2>5. \A d \in NewsOf(v) : d[1] # "read" /\ ~ TellsEnd(d)
    BY <2>3, <2>4, NoNews, OneNews
  <2>6. Ebbs(v, r) /\ Lasts(v, r)
    BY <2>3, <2>5, StillEbbs
  <2> QED
    BY <2>1, <2>6
<1> QED
  BY <1>1, <1>2

\* The source answers start, pull or cancel.
LEMMA AnswersEbb ==
  ASSUME NEW r, Heeded(r), Stocked(r), NEW ok
  PROVE  /\ LET v == R!FinishCancel(r, ok) IN Ebbs(v, r) /\ Lasts(v, r)
         /\ LET v == R!FinishPull(r, ok) IN Ebbs(v, r) /\ Lasts(v, r)
         /\ ~ r.started => LET v == R!FinishStart(r, ok) IN Ebbs(v, r) /\ Lasts(v, r)
<1>1. LET v == R!FinishCancel(r, ok) IN Ebbs(v, r) /\ Lasts(v, r)
  <2> DEFINE a == [r EXCEPT !.cancelling = FALSE]
             e == <<"cancelled", IF ok THEN "resolved" ELSE "rejected">>
             v == R!Tell(a, e)
  <2>1. R!FinishCancel(r, ok) = v
    BY DEF R!FinishCancel
  <2>2. /\ DOMAIN a = DOMAIN r /\ a.news = <<>> /\ a.state = r.state
        /\ a.readRequests = r.readRequests /\ a.queue = r.queue
    BY ReadFields DEF Heeded, RInv
  <2>3. e[1] = "cancelled" /\ ~ TellsEnd(e)
    BY DEF EndTold, TellsEnd
  <2> HIDE DEF a, e
  <2>4. /\ v.news = Append(a.news, e) /\ v.state = a.state /\ v.readRequests = a.readRequests
        /\ v.queue = a.queue
    BY <2>2, ReadFields DEF Heeded, RInv, R!Tell
  <2>5. v.news = <<e>>
    BY <2>2, <2>4, Joined
  <2> HIDE DEF v
  <2>6. \A d \in NewsOf(v) : d[1] # "read" /\ ~ TellsEnd(d)
    BY <2>3, <2>5, OneNews
  <2> QED
    BY <2>1, <2>2, <2>4, <2>6, StillEbbs
<1>2. ASSUME NEW a, RInv(a), a.state = r.state, a.readRequests = r.readRequests,
             a.news = <<>>, a.queue = r.queue
      PROVE  LET v == R!CallPullIfNeeded(a)
             IN  Ebbs(v, r) /\ Lasts(v, r) /\ Ebbs(a, r) /\ Lasts(a, r)
  <2> DEFINE v == R!CallPullIfNeeded(a)
  <2>1. /\ v.news = <<>> /\ v.state = r.state /\ v.readRequests = r.readRequests
        /\ v.queue = r.queue
    BY <1>2, PullTells, PullKeeps
  <2> HIDE DEF v
  <2> QED
    BY <1>2, <2>1, StillEbbs, NoNews DEF v
<1>3. LET v == R!FinishPull(r, ok) IN Ebbs(v, r) /\ Lasts(v, r)
  <2> DEFINE a == [r EXCEPT !.pulling = FALSE, !.pullAgain = FALSE]
             v == R!CallPullIfNeeded(a)
  <2>1. /\ RInv(a) /\ a.state = r.state /\ a.readRequests = r.readRequests /\ a.news = <<>>
        /\ a.queue = r.queue
    BY ReadFields DEF Heeded, RInv
  <2>2. R!FinishPull(r, ok) = IF ~ ok THEN R!ControllerError(r)
                              ELSE IF r.pullAgain THEN v ELSE a
    BY DEF R!FinishPull
  <2> HIDE DEF a
  <2>3. Ebbs(v, r) /\ Lasts(v, r) /\ Ebbs(a, r) /\ Lasts(a, r)
    BY <1>2, <2>1
  <2> HIDE DEF v
  <2> QED
    BY <2>2, <2>3, SourceErrorEbbs
<1>4. ~ r.started => LET v == R!FinishStart(r, ok) IN Ebbs(v, r) /\ Lasts(v, r)
  <2> DEFINE a == [R!Assert_(r, ~ r.pulling /\ ~ r.pullAgain) EXCEPT !.started = TRUE]
             v == R!CallPullIfNeeded(a)
  <2>1. /\ ~ r.started => RInv(a)
        /\ a.state = r.state /\ a.readRequests = r.readRequests /\ a.news = <<>>
        /\ a.queue = r.queue
    BY ReadFields DEF Heeded, RInv, R!Assert_
  <2>2. R!FinishStart(r, ok) = IF ok THEN v ELSE R!ControllerError(r)
    BY DEF R!FinishStart
  <2> HIDE DEF a
  <2>3. ~ r.started => Ebbs(v, r) /\ Lasts(v, r)
    BY <1>2, <2>1
  <2> HIDE DEF v
  <2> QED
    BY <2>2, <2>3, SourceErrorEbbs
<1> QED
  BY <1>1, <1>3, <1>4

\* read() takes the first chunk, or none is left.
LEMMA ReadTakes ==
  ASSUME NEW r, Heeded(r), Stocked(r), r.readRequests = 0, r.reader
  PROVE  LET v == R!Read(r)
         IN  \/ Ebbs(v, r) /\ v.queue = r.queue /\ v.state = r.state
             \/ /\ r.queue # <<>> /\ r.state = "readable" /\ v.queue = Tail(r.queue) /\ Stocked(v)
                /\ v.state = "readable" \/ (v.state = "closed" /\ v.queue = <<>>)
                /\ \A e \in NewsOf(v) : /\ e[1] = "read" => e[2] = Head(r.queue)
                                        /\ TellsEnd(e) => v.state = "closed"
                /\ \E e \in NewsOf(v) : e[1] = "read" /\ e[2] = Head(r.queue)
<1>1. ASSUME NEW c, c \notin Ours, r.state # "readable", R!Read(r) = R!Tell(r, <<"read", c>>)
      PROVE  LET v == R!Read(r) IN Ebbs(v, r) /\ v.queue = r.queue /\ v.state = r.state
  <2> DEFINE e == <<"read", c>>
             v == R!Tell(r, e)
  <2>1. v.news = <<e>> /\ v.state = r.state /\ v.readRequests = 0 /\ v.queue = r.queue
    BY ReadFields DEF Heeded, RInv, R!Tell
  <2>2. e[1] = "read" /\ e[2] = c /\ ~ TellsEnd(e)
    BY NoChunk
  <2> HIDE DEF e, v
  <2>3. NewsOf(v) = {e}
    BY <2>1, OneNews
  <2>4. Stocked(v)
    BY <2>1 DEF Stocked
  <2> QED
    BY <1>1, <2>1, <2>2, <2>3, <2>4 DEF Ebbs, v, e
<1>2. CASE r.state = "closed"
  BY <1>1, <1>2, NoChunk DEF R!Read
<1>3. CASE r.state = "errored"
  BY <1>1, <1>3, NoChunk DEF R!Read
<1>4. CASE r.state = "readable" /\ r.queue # <<>>
  <2> DEFINE a == [r EXCEPT !.queue = Tail(@)]
             b == IF a.closeRequested /\ a.queue = <<>>
                  THEN R!CloseStream(a) ELSE R!CallPullIfNeeded(a)
             e == <<"read", Head(r.queue)>>
             v == R!Tell(b, e)
  <2>1. /\ RInv(a) /\ a.state = "readable" /\ a.news = <<>> /\ a.readRequests = 0 /\ a.reader
        /\ a.queue = Tail(r.queue)
    BY <1>4, ReadFields DEF Heeded, RInv
  <2>2. R!Read(r) = v
    BY <1>4 DEF R!Read
  <2> HIDE DEF a
  <2>3. /\ RInv(b) /\ b.readRequests = 0 /\ b.queue = Tail(r.queue)
        /\ \/ b.news = << <<"closed", "resolved">> >> /\ b.state = "closed" /\ b.queue = <<>>
           \/ b.news = <<>> /\ b.state = "readable"
    <3>1. RInv(b)
      BY <2>1, EndInv, PullInv DEF R!CloseStream
    <3>2. LET u == R!CloseStream(a)
          IN  /\ u.readRequests = 0 /\ u.news = << <<"closed", "resolved">> >>
              /\ u.state = "closed" /\ u.queue = a.queue
      <4>1. Heeded(a)
        BY <2>1 DEF Heeded
      <4> QED
        BY <2>1, <4>1, ClosesIdle, EndKeeps DEF R!CloseStream
    <3>3. LET u == R!CallPullIfNeeded(a)
          IN  u.readRequests = 0 /\ u.news = <<>> /\ u.state = "readable" /\ u.queue = a.queue
      BY <2>1, PullTells, PullKeeps
    <3> QED
      BY <2>1, <3>1, <3>2, <3>3
  <2> HIDE DEF b
  <2>4. /\ v.news = Append(b.news, e) /\ v.state = b.state /\ v.readRequests = 0
        /\ v.queue = b.queue
    BY <2>3, ReadFields DEF RInv, R!Tell
  <2>5. e[1] = "read" /\ e[2] = Head(r.queue) /\ ~ TellsEnd(e) /\ e # EndTold
    BY NoChunk DEF EndTold
  <2> HIDE DEF e, v
  <2>6. /\ e \in NewsOf(v) /\ NewsOf(v) \subseteq {EndTold, e}
        /\ EndTold \in NewsOf(v) => v.state = "closed"
    <3>1. CASE b.news = <<>> /\ b.state = "readable"
      <4>1. v.news = <<e>>
        BY <2>4, <3>1
      <4> QED
        BY <2>5, <4>1, OneNews
    <3>2. CASE b.news = << <<"closed", "resolved">> >> /\ b.state = "closed"
      <4> DEFINE d == <<"closed", "resolved">>
      <4>1. d = EndTold
        BY DEF EndTold, TellsEnd
      <4> HIDE DEF d
      <4>2. v.news = <<d, e>>
        BY <2>4, <3>2, Joined DEF d
      <4>3. NewsOf(v) = {d, e}
        BY <4>2, TwoNews
      <4> QED
        BY <2>4, <3>2, <4>1, <4>3
    <3> QED
      BY <2>3, <3>1, <3>2
  <2>7. Stocked(v)
    BY <1>4, <2>3, <2>4 DEF Stocked
  <2>8. EndTold[1] # "read"
    BY DEF EndTold, TellsEnd
  <2>9. \A d \in NewsOf(v) : TellsEnd(d) => d = EndTold
    BY <2>5, <2>6
  <2> QED
    BY <1>4, <2>2, <2>3, <2>4, <2>5, <2>6, <2>7, <2>8, <2>9
<1>5. CASE r.state = "readable" /\ r.queue = <<>>
  <2> DEFINE p == R!Assert_(r, r.reader)
             a == [p EXCEPT !.readRequests = @ + 1]
             v == R!CallPullIfNeeded(a)
  <2>1. RInv(p) /\ p.state = r.state /\ p.news = <<>> /\ p.queue = <<>>
    BY <1>5, ReadFields DEF Heeded, RInv, R!Assert_
  <2>2. R!Read(r) = v
    BY <1>5 DEF R!Read
  <2> HIDE DEF p
  <2>3. RInv(a) /\ a.state = r.state /\ a.news = <<>> /\ a.queue = <<>>
    BY <2>1, ReadFields DEF RInv
  <2> HIDE DEF a
  <2>4. v.news = <<>> /\ v.state = r.state /\ v.queue = <<>>
    BY <2>3, PullTells, PullKeeps
  <2> HIDE DEF v
  <2>5. NewsOf(v) = {} /\ Stocked(v)
    BY <2>4, NoNews DEF Stocked
  <2>6. Ebbs(v, r)
    BY <1>5, <2>4, <2>5 DEF Ebbs
  <2> QED
    BY <1>5, <2>2, <2>4, <2>6
<1> QED
  BY <1>2, <1>3, <1>4, <1>5 DEF Heeded, RInv

\* enqueue() gives a chunk to the read that waits, or to the queue.
LEMMA EnqueueGives ==
  ASSUME NEW r, Heeded(r), Stocked(r), r.readRequests # 0 => r.reader,
         R!CanCloseOrEnqueue(r), NEW c \in Ours
  PROVE  LET v == R!Enqueue(r, c)
         IN  /\ Stocked(v) /\ v.state = "readable" /\ \A e \in NewsOf(v) : ~ TellsEnd(e)
             /\ IF r.readRequests # 0
                THEN r.queue = <<>> /\ v.queue = <<>> /\ NewsOf(v) = {<<"read", c>>}
                ELSE v.queue = Append(r.queue, c) /\ NewsOf(v) = {}
<1> DEFINE e == <<"read", c>>
           p == [r EXCEPT !.readRequests = @ - 1]
           a == R!Tell(p, e)
           b == [r EXCEPT !.queue = Append(@, c)]
           d == IF r.reader /\ r.readRequests > 0 THEN a ELSE b
           v == R!CallPullIfNeeded(d)
<1>1. R!Enqueue(r, c) = v
  BY DEF R!Enqueue
<1>2. r.state = "readable" /\ (r.readRequests # 0 => r.queue = <<>> /\ r.readRequests = 1)
  BY DEF R!CanCloseOrEnqueue, Stocked, Heeded
<1>3. /\ RInv(p) /\ p.state = "readable" /\ p.readRequests = r.readRequests - 1
      /\ p.news = <<>> /\ p.queue = r.queue
  BY <1>2, ReadFields DEF Heeded, RInv
<1> HIDE DEF p, e
<1>4. /\ RInv(a) /\ a.state = "readable" /\ a.news = <<e>> /\ a.queue = r.queue
  <2>1. a.news = Append(p.news, e)
    BY <1>3, ReadFields DEF RInv, R!Tell
  <2>2. RInv(a) /\ a.state = p.state /\ a.queue = p.queue
    BY <1>3, ReadFields DEF RInv, R!Tell
  <2> QED
    BY <1>3, <2>1, <2>2, Joined
<1>5. /\ RInv(b) /\ b.state = "readable" /\ b.readRequests = r.readRequests /\ b.news = <<>>
      /\ b.queue = Append(r.queue, c)
  BY <1>2, ReadFields DEF Heeded, RInv
<1> HIDE DEF a, b
<1>6. /\ v.news = d.news /\ v.state = d.state /\ v.readRequests = d.readRequests
      /\ v.queue = d.queue
  BY <1>4, <1>5, PullTells, PullKeeps
<1>7. ~ TellsEnd(e) /\ e = <<"read", c>>
  BY NoChunk DEF e
<1> HIDE DEF v
<1>8. CASE r.readRequests # 0
  <2>1. d = a
    BY <1>2, <1>8
  <2>2. v.news = <<e>> /\ v.state = "readable" /\ v.queue = <<>>
    BY <1>2, <1>4, <1>6, <1>8, <2>1
  <2>3. NewsOf(v) = {e} /\ Stocked(v)
    BY <2>2, OneNews DEF Stocked
  <2> QED
    BY <1>1, <1>2, <1>7, <1>8, <2>2, <2>3
<1>9. CASE r.readRequests = 0
  <2>1. d = b
    BY <1>9
  <2>2. /\ v.news = <<>> /\ v.state = "readable" /\ v.queue = Append(r.queue, c)
        /\ v.readRequests = 0
    BY <1>5, <1>6, <1>9, <2>1
  <2>3. r.queue \in Seq(Ours)
    BY DEF Stocked
  <2>4. NewsOf(v) = {} /\ Stocked(v)
    BY <2>2, <2>3, NoNews DEF Stocked
  <2> QED
    BY <1>1, <1>9, <2>2, <2>4
<1> QED
  BY <1>8, <1>9

-----------------------------------------------------------------------------
(* The pipe hears news, and queues what it does about it.                  *)

\* The jobs that the news of the writable and of the readable stream are heard with.
DestJobs == {"written", "read", "destErrored", "part", "acted"}
SourceJobs == {"chunk", "sourceClosed", "sourceErrored", "part", "acted"}

\* A job that the news e of a stream are heard with: it knows what the news told.
Hearing(j, s, e, K) ==
  /\ j.kind \in K
  /\ \/ j.kind = "written" /\ e[1] = "write" /\ j.arg = e[2] /\ j.arg \in Ours
     \/ j.kind = "chunk" /\ e[1] = "read" /\ j.arg = e[2]
     \/ j.kind = "sourceClosed" /\ TellsEnd(e)
     \/ j.kind \in {"read", "destErrored", "sourceErrored", "part"}
     \/ /\ j.kind = "acted"
        /\ "cancel" \in s.pipe.parts \/ (e[1] \in s.pipe.parts \cap Endings /\ j.arg = e[2])

\* One of the news is heard, and all of them are.
HearsOne(t, s, e, K) ==
  /\ Turn(t)
  /\ \/ t.jobs = s.jobs /\ t.pipe.parts = s.pipe.parts
     \/ \E j : /\ t.jobs = Append(s.jobs, j) /\ Hearing(j, s, e, K)
               /\ t.pipe.parts = s.pipe.parts \/ (t.pipe.parts = {} /\ j.kind = "acted")
Longer(q, p) == Line(q) /\ Len(p) <= Len(q) /\ \A i \in 1 .. Len(p) : q[i] = p[i]
Adds(t, s, N, K) ==
  /\ Longer(t.jobs, s.jobs)
  /\ \A i \in 1 .. Len(t.jobs) : i \in 1 .. Len(s.jobs) \/ \E e \in N : Hearing(t.jobs[i], s, e, K)
  /\ t.pipe.parts \subseteq s.pipe.parts
  /\ t.pipe.parts = s.pipe.parts \/ Has(t.jobs, {"acted"})

\* A promise of the action settles: the job knows how.
LEMMA PartTells ==
  ASSUME NEW s, Turn(s), NEW part, NEW how, NEW hops, NEW e,
         NEW K, {"part", "acted"} \subseteq K,
         part = "cancel" \/ (part = e[1] /\ how = e[2] /\ part \in Endings)
  PROVE  HearsOne(PartSettled(s, part, how, hops), s, e, K)
<1> DEFINE v == [s EXCEPT !.pipe.parts = {}]
           t == PartSettled(s, part, how, hops)
           pair == <<part, how>>
           x == Queue(s, "part", pair, hops)
           y == Queue(v, "acted", how, hops)
<1>1. t = IF part \notin s.pipe.parts THEN s ELSE IF s.pipe.action = "signal" THEN x ELSE y
  BY DEF PartSettled
<1>2. Turn(t)
  BY PartIs
<1>3. /\ DOMAIN v = DOMAIN s /\ v.jobs = s.jobs /\ v.pipe.parts = {}
  BY PipeFields DEF Turn
<1> HIDE DEF v, t, pair
<1>4. CASE part \notin s.pipe.parts
  <2>1. t = s
    BY <1>1, <1>4
  <2> HIDE DEF t
  <2>2. HearsOne(t, s, e, K)
    BY <1>2, <2>1 DEF HearsOne
  <2> QED
    BY <2>2 DEF t
<1>5. CASE part \in s.pipe.parts /\ s.pipe.action = "signal"
  <2> DEFINE j == [kind |-> "part", arg |-> pair, hops |-> hops]
  <2>1. x.jobs = Append(s.jobs, j) /\ x.pipe = s.pipe /\ j.kind = "part"
    BY QueueIs DEF Turn
  <2> HIDE DEF j, x
  <2>2. Hearing(j, s, e, K)
    BY <2>1 DEF Hearing
  <2>3. HearsOne(t, s, e, K)
    BY <1>1, <1>2, <1>5, <2>1, <2>2 DEF HearsOne
  <2> QED
    BY <2>3 DEF t
<1>6. CASE part \in s.pipe.parts /\ s.pipe.action # "signal"
  <2> DEFINE j == [kind |-> "acted", arg |-> how, hops |-> hops]
  <2>1. y.jobs = Append(v.jobs, j) /\ y.pipe = v.pipe /\ j.kind = "acted" /\ j.arg = how
    BY <1>3, QueueIs DEF Turn
  <2> HIDE DEF j, y
  <2>2. Hearing(j, s, e, K)
    BY <1>6, <2>1 DEF Hearing
  <2>3. HearsOne(t, s, e, K)
    BY <1>1, <1>2, <1>3, <1>6, <2>1, <2>2 DEF HearsOne
  <2> QED
    BY <2>3 DEF t
<1> QED
  BY <1>4, <1>5, <1>6 DEF t

\* A job is queued for the news.
LEMMA QueueHears ==
  ASSUME NEW s, Turn(s), NEW v, v = s \/ v = [s EXCEPT !.pipe.waitsReady = FALSE],
         NEW K, NEW kind \in K, NEW arg, NEW e,
         \/ kind = "written" /\ e[1] = "write" /\ arg = e[2] /\ arg \in Ours
         \/ kind = "chunk" /\ e[1] = "read" /\ arg = e[2]
         \/ kind = "sourceClosed" /\ TellsEnd(e)
         \/ kind \in {"read", "destErrored", "sourceErrored"}
  PROVE  HearsOne(Queue(v, kind, arg, 0), s, e, K) /\ HearsOne(v, s, e, K)
<1> DEFINE j == [kind |-> kind, arg |-> arg, hops |-> 0]
           t == Queue(v, kind, arg, 0)
<1>1. v.jobs = s.jobs /\ v.pipe.parts = s.pipe.parts /\ Turn(v)
  <2>1. CASE v = s
    BY <2>1
  <2>2. CASE v = [s EXCEPT !.pipe.waitsReady = FALSE]
    BY <2>2, PipeFields DEF Turn
  <2> QED
    BY <2>1, <2>2
<1>2. /\ t.jobs = Append(v.jobs, j) /\ t.pipe = v.pipe /\ DOMAIN t = DOMAIN v
      /\ j.kind = kind /\ j.arg = arg
  BY <1>1, QueueIs DEF Turn
<1> HIDE DEF j, t
<1>3. Hearing(j, s, e, K)
  BY <1>2 DEF Hearing
<1>4. Turn(t)
  BY <1>1, <1>2 DEF Turn
<1>5. HearsOne(t, s, e, K)
  BY <1>1, <1>2, <1>3, <1>4 DEF HearsOne
<1>6. HearsOne(v, s, e, K)
  BY <1>1 DEF HearsOne
<1> QED
  BY <1>5, <1>6 DEF t

\* The pipe hears one thing of the writable stream.
LEMMA HearDestTells ==
  ASSUME NEW s, Turn(s), NEW e \in WEvents
  PROVE  HearsOne(HearDest(s, e), s, e, DestJobs)
<1>1. e[1] \in {"write", "ready", "closed", "close", "abort"}
  BY EventIs
<1>2. CASE e[1] = "write"
  <2>1. HearDest(s, e) = IF e[2] \in Ours THEN Queue(s, "written", e[2], 0) ELSE s
    BY <1>2 DEF HearDest, Ours
  <2>2. e[2] \in Ours => HearsOne(Queue(s, "written", e[2], 0), s, e, DestJobs)
    BY <1>2, QueueHears DEF DestJobs
  <2>3. HearsOne(s, s, e, DestJobs)
    BY DEF HearsOne
  <2> QED
    BY <2>1, <2>2, <2>3
<1>3. CASE e[1] = "ready"
  <2> DEFINE v == [s EXCEPT !.pipe.waitsReady = FALSE]
  <2>1. HearDest(s, e) = IF ~ s.pipe.waitsReady THEN s
                         ELSE IF e[2] = "resolved" THEN Queue(v, "read", NoWrite, 0) ELSE v
    BY <1>3 DEF HearDest
  <2>2. HearsOne(Queue(v, "read", NoWrite, 0), s, e, DestJobs) /\ HearsOne(v, s, e, DestJobs)
    BY QueueHears DEF DestJobs
  <2>3. HearsOne(s, s, e, DestJobs)
    BY DEF HearsOne
  <2> QED
    BY <2>1, <2>2, <2>3
<1>4. CASE e[1] = "closed"
  <2>1. HearDest(s, e) = IF e[2] = "rejected" /\ s.pipe.lock = "held" /\ ~ s.pipe.shuttingDown
                         THEN Queue(s, "destErrored", NoWrite, 0) ELSE s
    BY <1>4 DEF HearDest
  <2>2. HearsOne(Queue(s, "destErrored", NoWrite, 0), s, e, DestJobs)
    BY QueueHears DEF DestJobs
  <2>3. HearsOne(s, s, e, DestJobs)
    BY DEF HearsOne
  <2> QED
    BY <2>1, <2>2, <2>3
<1>5. CASE e[1] \in Endings
  <2>1. HearDest(s, e) = PartSettled(s, e[1], e[2], 0)
    BY <1>5 DEF HearDest, Endings
  <2> QED
    BY <1>5, <2>1, PartTells DEF DestJobs
<1> QED
  BY <1>1, <1>2, <1>3, <1>4, <1>5 DEF Endings

\* The pipe hears one thing of the readable stream.
LEMMA HearSourceTells ==
  ASSUME NEW s, Turn(s), NEW e, e[1] \in RKinds
  PROVE  HearsOne(HearSource(s, e), s, e, SourceJobs)
<1>1. CASE e[1] = "read"
  <2>1. HearSource(s, e) = Queue(s, "chunk", e[2], 0)
    BY <1>1 DEF HearSource
  <2> QED
    BY <1>1, <2>1, QueueHears DEF SourceJobs
<1>2. CASE e[1] = "closed"
  <2> DEFINE k == IF e[2] = "resolved" THEN "sourceClosed" ELSE "sourceErrored"
  <2>1. HearSource(s, e) = IF s.pipe.lock # "held" \/ s.pipe.shuttingDown THEN s
                           ELSE Queue(s, k, NoWrite, 0)
    BY <1>2 DEF HearSource
  <2>2. k = "sourceErrored" \/ (k = "sourceClosed" /\ TellsEnd(e))
    BY <1>2 DEF TellsEnd
  <2> HIDE DEF k
  <2>3. HearsOne(Queue(s, k, NoWrite, 0), s, e, SourceJobs)
    BY <2>2, QueueHears DEF SourceJobs
  <2>4. HearsOne(s, s, e, SourceJobs)
    BY DEF HearsOne
  <2> QED
    BY <2>1, <2>3, <2>4
<1>3. CASE e[1] \in {"cancel", "cancelled"}
  <2>1. \/ HearSource(s, e) = PartSettled(s, "cancel", e[2], 0)
        \/ HearSource(s, e) = PartSettled(s, "cancel", e[2], 1)
    BY <1>3 DEF HearSource
  <2>2. \A hops : HearsOne(PartSettled(s, "cancel", e[2], hops), s, e, SourceJobs)
    BY PartTells DEF SourceJobs
  <2> QED
    BY <2>1, <2>2
<1> QED
  BY <1>1, <1>2, <1>3 DEF RKinds

\* Nothing is heard, and one more thing is.
LEMMA AddsSelf ==
  ASSUME NEW s, Line(s.jobs), NEW N, NEW K
  PROVE  Adds(s, s, N, K)
<1>1. Len(s.jobs) \in Nat
  BY DEF Line
<1> QED
  BY <1>1 DEF Adds, Longer

\* One more reaction is queued behind the others.
LEMMA AddsOne ==
  ASSUME NEW s, Line(s.jobs), NEW N, NEW K, NEW a, Adds(a, s, N, K), NEW e \in N,
         NEW b, HearsOne(b, a, e, K)
  PROVE  Adds(b, s, N, K)
<1>1. /\ Line(a.jobs) /\ Len(s.jobs) <= Len(a.jobs) /\ Len(a.jobs) \in Nat /\ Len(s.jobs) \in Nat
      /\ \A i \in 1 .. Len(s.jobs) : a.jobs[i] = s.jobs[i]
      /\ a.pipe.parts \subseteq s.pipe.parts
  BY DEF Adds, Longer, Line
<1>2. CASE b.jobs = a.jobs /\ b.pipe.parts = a.pipe.parts
  BY <1>2 DEF Adds
<1>3. CASE \E j : /\ b.jobs = Append(a.jobs, j) /\ Hearing(j, a, e, K)
                  /\ b.pipe.parts = a.pipe.parts \/ (b.pipe.parts = {} /\ j.kind = "acted")
  <2>1. PICK j : /\ b.jobs = Append(a.jobs, j) /\ Hearing(j, a, e, K)
                 /\ b.pipe.parts = a.pipe.parts \/ (b.pipe.parts = {} /\ j.kind = "acted")
    BY <1>3
  <2>2. Hearing(j, s, e, K)
    BY <1>1, <2>1 DEF Hearing
  <2>3. /\ Line(b.jobs) /\ Len(b.jobs) = Len(a.jobs) + 1 /\ b.jobs[Len(a.jobs) + 1] = j
        /\ \A i \in 1 .. Len(a.jobs) : b.jobs[i] = a.jobs[i]
    BY <1>1, <2>1, LongerLine
  <2>4. Has(b.jobs, {"acted"}) <=> Has(a.jobs, {"acted"}) \/ j.kind \in {"acted"}
    BY <1>1, <2>1, LongerHas
  <2>5. Longer(b.jobs, s.jobs)
    BY <1>1, <2>3 DEF Longer
  <2>6. ASSUME NEW i \in 1 .. Len(b.jobs)
        PROVE  i \in 1 .. Len(s.jobs) \/ \E d \in N : Hearing(b.jobs[i], s, d, K)
    <3>1. i \in 1 .. Len(a.jobs) \/ i = Len(a.jobs) + 1
      BY <1>1, <2>3
    <3>2. CASE i \in 1 .. Len(a.jobs)
      BY <2>3, <3>2 DEF Adds
    <3>3. CASE i = Len(a.jobs) + 1
      BY <2>2, <2>3, <3>3
    <3> QED
      BY <3>1, <3>2, <3>3
  <2>7. b.pipe.parts \subseteq s.pipe.parts
    BY <1>1, <2>1
  <2>8. b.pipe.parts = s.pipe.parts \/ Has(b.jobs, {"acted"})
    BY <2>1, <2>4 DEF Adds
  <2> QED
    BY <2>5, <2>6, <2>7, <2>8 DEF Adds
<1> QED
  BY <1>2, <1>3 DEF HearsOne

\* The news of the writable stream are heard.
LEMMA DestAdds ==
  ASSUME NEW s, Turn(s), Line(s.jobs), NEW w, w.news \in Seq(WEvents)
  PROVE  Adds(DestTold(s, w.news), s, NewsOf(w), DestJobs)
<1> DEFINE m == Len(w.news)
<1>1. m \in Nat /\ \A n \in 1 .. m : w.news[n] \in WEvents /\ w.news[n] \in NewsOf(w)
  BY DEF NewsOf
<1>2. PICK f : /\ f[0] = s
               /\ \A n \in 1 .. Len(w.news) : f[n] = HearDest(f[n - 1], w.news[n])
               /\ DestTold(s, w.news) = f[Len(w.news)]
  BY <1>1, DestFold
<1> DEFINE Z == {n \in 0 .. m : Turn(f[n]) /\ Adds(f[n], s, NewsOf(w), DestJobs)}
<1> HIDE DEF m
<1>3. 0 \in Z
  BY <1>1, <1>2, AddsSelf
<1>4. ASSUME NEW n \in 0 .. m, n < m, n \in Z
      PROVE  n + 1 \in Z
  <2>1. n + 1 \in 1 .. m /\ (n + 1) - 1 = n /\ n + 1 \in 0 .. m
    BY <1>1, <1>4
  <2>2. f[n + 1] = HearDest(f[n], w.news[n + 1])
    BY <1>2, <2>1 DEF m
  <2>3. HearsOne(f[n + 1], f[n], w.news[n + 1], DestJobs)
    BY <1>1, <1>4, <2>1, <2>2, HearDestTells
  <2>4. Adds(f[n + 1], s, NewsOf(w), DestJobs)
    BY <1>1, <1>4, <2>1, <2>3, AddsOne
  <2> QED
    BY <2>1, <2>3, <2>4 DEF HearsOne
<1>5. m \in 0 .. m
  BY <1>1
<1>6. \A n \in Z : Adds(f[n], s, NewsOf(w), DestJobs)
  OBVIOUS
<1> HIDE DEF Z
<1>7. m \in Z
  BY <1>1, <1>3, <1>4, <1>5, Upto
<1> QED
  BY <1>2, <1>6, <1>7 DEF m

\* A chunk that has been read is in the queue.
Found(t, e) == \E i \in 1 .. Len(t.jobs) : t.jobs[i].kind = "chunk" /\ t.jobs[i].arg = e[2]

\* A read that gives a chunk queues the job that writes it.
LEMMA ReadFound ==
  ASSUME NEW s, Turn(s), Line(s.jobs), NEW e, e[1] = "read"
  PROVE  Found(HearSource(s, e), e)
<1> DEFINE j == [kind |-> "chunk", arg |-> e[2], hops |-> 0]
           t == Queue(s, "chunk", e[2], 0)
<1>1. HearSource(s, e) = t
  BY DEF HearSource
<1>2. t.jobs = Append(s.jobs, j) /\ j.kind = "chunk" /\ j.arg = e[2]
  BY QueueIs DEF Turn
<1> HIDE DEF j, t
<1>3. Len(t.jobs) = Len(s.jobs) + 1 /\ Len(s.jobs) \in Nat /\ t.jobs[Len(s.jobs) + 1] = j
  BY <1>2, LongerLine
<1>4. Len(s.jobs) + 1 \in 1 .. Len(t.jobs)
  BY <1>3
<1>5. Found(t, e)
  BY <1>2, <1>3, <1>4 DEF Found
<1> QED
  BY <1>1, <1>5

\* The jobs behind it leave a job where it is.
LEMMA FoundStays ==
  ASSUME NEW s, NEW t, NEW N, NEW K, Adds(t, s, N, K), Line(s.jobs), NEW e, Found(s, e)
  PROVE  Found(t, e)
<1>1. Len(s.jobs) \in Nat /\ Len(t.jobs) \in Nat
  BY DEF Adds, Longer, Line
<1>2. PICK i \in 1 .. Len(s.jobs) : s.jobs[i].kind = "chunk" /\ s.jobs[i].arg = e[2]
  BY DEF Found
<1>3. i \in 1 .. Len(t.jobs) /\ t.jobs[i] = s.jobs[i]
  BY <1>1, <1>2 DEF Adds, Longer
<1> QED
  BY <1>2, <1>3 DEF Found

\* Those of the readable stream.
LEMMA SourceAdds ==
  ASSUME NEW s, Turn(s), Line(s.jobs), NEW r, NEW v, NEW isRead, Serves(v, r, isRead)
  PROVE  LET h == SourceTold(s, v.news)
         IN  /\ Adds(h, s, NewsOf(v), SourceJobs)
             /\ \A e \in NewsOf(v) : e[1] = "read" => Found(h, e)
<1> DEFINE h == SourceTold(s, v.news)
<1>1. Len(v.news) \in Nat /\ Len(v.news) \in {0, 1, 2}
      /\ \A n \in 1 .. Len(v.news) : v.news[n] \in NewsOf(v) /\ v.news[n][1] \in RKinds
  <2>1. CASE v.news = <<>>
    <3>1. Len(v.news) = 0 /\ 1 .. 0 = {}
      BY <2>1
    <3> QED
      BY <3>1
  <2>2. CASE \E e : v.news = <<e>> /\ e[1] \in RKinds
    <3>1. PICK e : v.news = <<e>> /\ e[1] \in RKinds
      BY <2>2
    <3>2. Len(v.news) = 1 /\ v.news[1] = e
      BY <3>1
    <3> QED
      BY <3>1, <3>2 DEF NewsOf
  <2>3. CASE \E d, e : /\ v.news = <<d, e>>
                      /\ <<d[1], e[1]>> \in {<<"read", "closed">>, <<"closed", "read">>}
    <3>1. PICK d, e : /\ v.news = <<d, e>>
                    /\ <<d[1], e[1]>> \in {<<"read", "closed">>, <<"closed", "read">>}
      BY <2>3
    <3>2. Len(v.news) = 2 /\ v.news[1] = d /\ v.news[2] = e
      BY <3>1
    <3>3. d[1] \in RKinds /\ e[1] \in RKinds
      BY <3>1 DEF RKinds
    <3>4. \A n \in 1 .. 2 : n = 1 \/ n = 2
      OBVIOUS
    <3> QED
      BY <3>2, <3>3, <3>4 DEF NewsOf
  <2> QED
    BY <2>1, <2>2, <2>3 DEF Serves
<1>2. PICK f : /\ f[0] = s
               /\ \A n \in 1 .. Len(v.news) : f[n] = HearSource(f[n - 1], v.news[n])
               /\ h = f[Len(v.news)]
  BY <1>1, SourceFold
<1> DEFINE m == Len(v.news)
           Done(n) == /\ Turn(f[n]) /\ Adds(f[n], s, NewsOf(v), SourceJobs)
                      /\ \A k \in 1 .. n : v.news[k][1] = "read" => Found(f[n], v.news[k])
           Z == {n \in 0 .. m : Done(n)}
<1> HIDE DEF h, m
<1>3. 0 \in Z
  BY <1>1, <1>2, AddsSelf DEF m
<1>4. ASSUME NEW n \in 0 .. m, n < m, n \in Z
      PROVE  n + 1 \in Z
  <2>1. n + 1 \in 1 .. m /\ (n + 1) - 1 = n /\ n + 1 \in 0 .. m
    BY <1>1, <1>4 DEF m
  <2> DEFINE a == f[n]
             b == f[n + 1]
             e == v.news[n + 1]
  <2>2. b = HearSource(a, e) /\ e \in NewsOf(v) /\ e[1] \in RKinds
    BY <1>1, <1>2, <2>1 DEF m
  <2>3. Turn(a) /\ Adds(a, s, NewsOf(v), SourceJobs)
        /\ \A k \in 1 .. n : v.news[k][1] = "read" => Found(a, v.news[k])
    BY <1>4
  <2>4. Line(a.jobs)
    BY <2>3 DEF Adds, Longer
  <2> HIDE DEF a, b, e
  <2>5. HearsOne(b, a, e, SourceJobs)
    BY <2>2, <2>3, HearSourceTells
  <2>6. Adds(b, s, NewsOf(v), SourceJobs) /\ Turn(b)
    BY <2>2, <2>3, <2>5, AddsOne DEF HearsOne
  <2>7. Adds(b, a, NewsOf(v), SourceJobs)
    BY <2>2, <2>4, <2>5, AddsSelf, AddsOne
  <2>8. e[1] = "read" => Found(b, e)
    BY <2>2, <2>3, <2>4, ReadFound
  <2>9. \A k \in 1 .. n : v.news[k][1] = "read" => Found(b, v.news[k])
    BY <2>3, <2>4, <2>7, FoundStays
  <2>10. \A k \in 1 .. n + 1 : k \in 1 .. n \/ k = n + 1
    BY <2>1
  <2>11. \A k \in 1 .. n + 1 : v.news[k][1] = "read" => Found(b, v.news[k])
    BY <2>8, <2>9, <2>10 DEF e
  <2> QED
    BY <2>1, <2>6, <2>11 DEF b
<1>5. m \in 0 .. m /\ m \in Nat
  BY <1>1 DEF m
<1>6. \A n \in Z : Done(n)
  OBVIOUS
<1> HIDE DEF Z, Done
<1>7. m \in Z
  BY <1>3, <1>4, <1>5, Upto
<1>8. Done(m)
  BY <1>6, <1>7
<1>9. \A e \in NewsOf(v) : \E k \in 1 .. m : e = v.news[k]
  BY DEF NewsOf, m
<1> QED
  BY <1>2, <1>8, <1>9 DEF Done, h, m

-----------------------------------------------------------------------------
(* Where the chunks are, and what the jobs know of them.                   *)

\* The chunk that has been read and not been written.
Mine(j) == j.kind = "chunk" /\ j.arg \in Ours
HasMine(q) == \E i \in 1 .. Len(q) : Mine(q[i])
Before(n) == {Chunks[i] : i \in 1 .. n}

\* What is left of the source is what has not been read, unless somebody gave it up: of
\* the m chunks it had, p have been read and n of these written.
Whole(s, prog) ==
  \/ s.source.state = "readable"
  \/ /\ s.source.state = "closed" /\ "cancel" \notin prog
     /\ s.pipe.shuttingDown => s.pipe.action = "close"
Supply(s, n, p, m, prog) ==
  /\ n <= p /\ p <= n + 1
  /\ \A i \in 1 .. Len(s.source.queue) : s.source.queue[i] = Chunks[p + i]
  /\ p + Len(s.source.queue) <= m
  /\ Whole(s, prog) => p + Len(s.source.queue) = m
  /\ ~ Takes(s.dest) => p = n

\* A writable stream that fails may lose the chunk that has been read.
Reliable(s) == Keeps(s.dest) \/ s.pipe.lock = "idle"

\* What a job knows of the chunks.
Knows(j, s, a, n, p, m, prog) ==
  /\ Reliable(s) /\ Mine(j) => p = n + 1 /\ j.arg = Chunks[p]
  /\ Takes(s.dest) =>
       /\ j.kind = "written" => j.arg \in Before(n) /\ (j.arg = s.pipe.currentWrite => a = n)
       /\ j.kind = "waited" => /\ j.arg \in Before(n) \cup {NoWrite}
                               /\ j.arg = s.pipe.currentWrite => s.pipe.currentDone
       /\ j.kind = "rest" /\ s.pipe.action = "close" => s.pipe.currentDone /\ p = n
  /\ j.kind = "acted" /\ j.arg # "rejected" /\ ~ s.pipe.isError =>
       /\ s.dest.state = "closed" \/ "close" \in prog
       /\ a = m \/ "cancel" \in prog
  /\ j.kind = "sourceClosed" => s.source.state = "closed"
WaitsLast(q) == \A i, j \in 1 .. Len(q) : q[i].kind = "waited" /\ Mine(q[j]) => j < i

\* The turn after the write of n chunks, of which the sink was called with a.
Runs(s, a, n, p, m, prog) ==
  /\ a \in Nat /\ n \in Nat /\ p \in Nat /\ m \in Nat /\ m <= Len(Chunks)
  /\ Stocked(s.source)
  /\ Reliable(s) => Supply(s, n, p, m, prog)
  /\ s.pipe.lock = "idle" => n = 0 /\ p = 0 /\ ~ s.pipe.shuttingDown
  /\ "cancel" \in prog =>
       s.source.state # "readable" /\ (s.pipe.lock # "released" => p = 0)
  /\ Takes(s.dest) =>
       /\ s.pipe.currentWrite = IF n = 0 THEN NoWrite ELSE Chunks[n]
       /\ s.pipe.currentDone => a = n
  /\ \A i \in 1 .. Len(s.jobs) : Knows(s.jobs[i], s, a, n, p, m, prog)
  /\ s.pipe.action = "close" =>
       s.source.state = "closed" /\ s.pipe.parts \subseteq {"close"} /\ WaitsLast(s.jobs)
  /\ s.pipe.shuttingDown /\ s.pipe.action # "close" => s.pipe.isError
  /\ "close" \in prog => ~ Takes(s.dest)

\* A chunk that has been read and not written has its job; a sink ends only when the
\* action of the pipe has ended it, or the program before there was a pipe.
Pending(s, n, p) == Reliable(s) /\ ~ HasMine(s.jobs) => p = n
Shut(s, prog) == Ended(s.dest) => (s.pipe.lock = "idle" /\ "close" \in prog) \/ Gone(s)
Drive(s, a, n, p, m, prog) == Order(s.dest, a, n) /\ Runs(s, a, n, p, m, prog)
Flow(s, a, n, p, m, prog) ==
  Drive(s, a, n, p, m, prog) /\ Pending(s, n, p) /\ Shut(s, prog)

\* What news leave alone in the closure.
Calm(t, s) ==
  /\ t.pipe.lock = s.pipe.lock /\ t.pipe.shuttingDown = s.pipe.shuttingDown
  /\ t.pipe.action = s.pipe.action /\ t.pipe.isError = s.pipe.isError
  /\ t.pipe.currentWrite = s.pipe.currentWrite

\* The counts go on: what was known stays so.
Onwards(s, t, a, n, p, m, prog, b, q, k, acts) ==
  /\ b \in Nat /\ q \in Nat /\ k \in Nat /\ k <= Len(Chunks)
  /\ b = a \/ (b = a + 1 /\ b <= n /\ Takes(s.dest))
  /\ q = p \/ (q = p + 1 /\ q <= n + 1 /\ s.source.state = "readable" /\ s.pipe.lock # "idle")
  /\ k = m \/ s.source.state = "readable"
  /\ prog \subseteq acts
  /\ Calm(t, s)
  /\ Takes(t.dest) => Takes(s.dest) /\ (s.pipe.currentDone => t.pipe.currentDone)
  /\ Keeps(t.dest) => Keeps(s.dest)
  /\ s.dest.state = "closed" => t.dest.state = "closed"
  /\ s.source.state = "closed" => t.source.state = "closed"

\* A job still knows what it knew.
LEMMA KnowsOn ==
  ASSUME NEW s, NEW t, NEW a, NEW n, NEW p, NEW m, NEW prog, Runs(s, a, n, p, m, prog), Plan(s),
         NEW b, NEW q, NEW k, NEW acts, Onwards(s, t, a, n, p, m, prog, b, q, k, acts),
         NEW i \in 1 .. Len(s.jobs)
  PROVE  Knows(s.jobs[i], t, b, n, q, k, acts)
<1> DEFINE j == s.jobs[i]
<1>1. Knows(j, s, a, n, p, m, prog)
  BY DEF Runs
<1>2. j.kind = "acted" => s.pipe.shuttingDown
  BY DEF Plan, Ending, Has, EndKinds
<1>3. a \in Nat /\ n \in Nat /\ p \in Nat /\ m \in Nat
  BY DEF Runs
<1>4. Reliable(t) => Reliable(s)
  BY DEF Onwards, Calm, Reliable
<1>5. Takes(s.dest) => Reliable(s)
  BY DEF Takes, Keeps, Reliable
<1>6. Reliable(s) => n <= p /\ p <= m
  <2>1. Len(s.source.queue) \in Nat
    BY DEF Runs, Stocked
  <2> QED
    BY <1>3, <2>1 DEF Runs, Supply
<1> HIDE DEF j
<1>7. Reliable(t) /\ Mine(j) => q = n + 1 /\ j.arg = Chunks[q]
  BY <1>1, <1>3, <1>4 DEF Knows, Onwards
<1>8. Takes(t.dest) /\ j.kind = "written" =>
         j.arg \in Before(n) /\ (j.arg = t.pipe.currentWrite => b = n)
  BY <1>1, <1>3 DEF Knows, Onwards, Calm
<1>9. Takes(t.dest) /\ j.kind = "waited" =>
         /\ j.arg \in Before(n) \cup {NoWrite}
         /\ j.arg = t.pipe.currentWrite => t.pipe.currentDone
  BY <1>1 DEF Knows, Onwards, Calm
<1>10. Takes(t.dest) /\ j.kind = "rest" /\ t.pipe.action = "close" => t.pipe.currentDone /\ q = n
  <2>1. s.pipe.action = "close" => q = p
    BY DEF Runs, Onwards
  <2> QED
    BY <1>1, <2>1 DEF Knows, Onwards, Calm
<1>11. j.kind = "acted" /\ j.arg # "rejected" /\ ~ t.pipe.isError =>
         /\ t.dest.state = "closed" \/ "close" \in acts
         /\ b = k \/ "cancel" \in acts
  <2>1. SUFFICES ASSUME j.kind = "acted", j.arg # "rejected", ~ t.pipe.isError
                 PROVE  /\ t.dest.state = "closed" \/ "close" \in acts
                        /\ b = k \/ "cancel" \in acts
    OBVIOUS
  <2>2. s.dest.state = "closed" \/ "close" \in prog
    BY <1>1, <2>1 DEF Knows, Onwards, Calm
  <2>3. a = m \/ "cancel" \in prog
    BY <1>1, <2>1 DEF Knows, Onwards, Calm
  <2>4. k = m
    BY <1>2, <2>1 DEF Onwards, Calm, Runs
  <2>5. a = m => b = a
    BY <1>3, <1>5, <1>6 DEF Onwards
  <2> QED
    BY <2>2, <2>3, <2>4, <2>5 DEF Onwards
<1>12. j.kind = "sourceClosed" => t.source.state = "closed"
  BY <1>1 DEF Knows, Onwards
<1> QED
  BY <1>7, <1>8, <1>9, <1>10, <1>11, <1>12 DEF Knows, j

\* The turn goes on, with jobs added that know what they must.
LEMMA RunsOn ==
  ASSUME NEW s, NEW t, NEW a, NEW n, NEW p, NEW m, NEW prog, Runs(s, a, n, p, m, prog), Plan(s),
         NEW b, NEW q, NEW k, NEW acts, Onwards(s, t, a, n, p, m, prog, b, q, k, acts),
         Stocked(t.source), Reliable(t) => Supply(t, n, q, k, acts),
         "cancel" \in acts => t.source.state # "readable" /\ (t.pipe.lock # "released" => q = 0),
         Takes(t.dest) /\ t.pipe.currentDone => b = n,
         "close" \in acts => ~ Takes(t.dest),
         s.pipe.action = "close" => t.pipe.parts \subseteq {"close"},
         Longer(t.jobs, s.jobs), Line(s.jobs),
         \A i \in 1 .. Len(t.jobs) : \/ i \in 1 .. Len(s.jobs)
                                     \/ Knows(t.jobs[i], t, b, n, q, k, acts),
         s.pipe.action = "close" =>
           \A i, j \in 1 .. Len(t.jobs) :
             /\ i \notin 1 .. Len(s.jobs) => ~ Mine(t.jobs[i])
             /\ t.jobs[i].kind = "waited" /\ Mine(t.jobs[j]) /\ j \in 1 .. Len(s.jobs) =>
                  i \in 1 .. Len(s.jobs) \/ j < i
  PROVE  Runs(t, b, n, q, k, acts)
<1>1. \A i \in 1 .. Len(t.jobs) : Knows(t.jobs[i], t, b, n, q, k, acts)
  <2>1. \A i \in 1 .. Len(s.jobs) : Knows(s.jobs[i], t, b, n, q, k, acts)
    BY KnowsOn
  <2> QED
    BY <2>1 DEF Longer
<1>2. s.pipe.action = "close" => WaitsLast(t.jobs)
  <2>1. SUFFICES ASSUME s.pipe.action = "close",
                        NEW i \in 1 .. Len(t.jobs), NEW j \in 1 .. Len(t.jobs),
                        t.jobs[i].kind = "waited", Mine(t.jobs[j])
                 PROVE  j < i
    BY DEF WaitsLast
  <2>2. j \in 1 .. Len(s.jobs)
    BY <2>1
  <2>3. CASE i \in 1 .. Len(s.jobs)
    <3>1. t.jobs[i] = s.jobs[i] /\ t.jobs[j] = s.jobs[j]
      BY <2>2, <2>3 DEF Longer
    <3>2. WaitsLast(s.jobs)
      BY <2>1 DEF Runs
    <3> QED
      BY <2>1, <2>2, <2>3, <3>1, <3>2 DEF WaitsLast
  <2>4. CASE i \notin 1 .. Len(s.jobs)
    BY <2>1, <2>2, <2>4
  <2> QED
    BY <2>3, <2>4
<1>3. /\ b \in Nat /\ n \in Nat /\ q \in Nat /\ k \in Nat /\ k <= Len(Chunks)
  BY DEF Onwards, Runs
<1>4. t.pipe.lock = "idle" => n = 0 /\ q = 0 /\ ~ t.pipe.shuttingDown
  BY DEF Onwards, Calm, Runs
<1>5. Takes(t.dest) => t.pipe.currentWrite = IF n = 0 THEN NoWrite ELSE Chunks[n]
  BY DEF Onwards, Calm, Runs
<1>6. s.pipe.action = t.pipe.action /\ s.pipe.shuttingDown = t.pipe.shuttingDown
      /\ s.pipe.isError = t.pipe.isError
  BY DEF Onwards, Calm
<1>7. t.pipe.action = "close" => t.source.state = "closed"
  BY <1>6 DEF Onwards, Runs
<1>8. t.pipe.shuttingDown /\ t.pipe.action # "close" => t.pipe.isError
  BY <1>6 DEF Runs
<1> QED
  BY <1>1, <1>2, <1>3, <1>4, <1>5, <1>6, <1>7, <1>8 DEF Runs

-----------------------------------------------------------------------------
(* A stream changes, and the pipe hears of it.                             *)

\* The closure stays as it is while news are heard.
Same4(t, s) ==
  /\ Calm(t, s) /\ t.pipe.currentDone = s.pipe.currentDone
  /\ t.pipe.outcome = s.pipe.outcome

\* The state after the news of the writable stream were heard.
LEMMA WithDestIs ==
  ASSUME NEW s, Turn(s), Line(s.jobs),
         NEW w, w.news \in Seq(WEvents), DOMAIN w = DOMAIN W!NewWritable
  PROVE  LET t == WithDest(s, w)
         IN  /\ Adds(t, s, NewsOf(w), DestJobs) /\ Same4(t, s)
             /\ t.source = s.source /\ Akin(t.dest, w)
<1> DEFINE x == [w EXCEPT !.news = <<>>]
           a == [s EXCEPT !.dest = x]
           h == DestTold(s, w.news)
           t == WithDest(s, w)
<1>1. Akin(x, w)
  BY Fields DEF Akin
<1>2. t = Heard(a, h)
  BY DEF WithDest
<1> HIDE DEF x
<1>3. Turn(a) /\ a.source = s.source /\ a.dest = x /\ a.pipe = s.pipe
  BY DEF Turn
<1>4. Adds(h, s, NewsOf(w), DestJobs)
  BY DestAdds
<1> HIDE DEF a, h, t
<1>5. /\ t.jobs = h.jobs /\ t.pipe.parts = h.pipe.parts /\ Same4(t, a)
      /\ t.source = a.source /\ t.dest = a.dest
  BY <1>2, <1>3, PipeFields DEF Heard, Turn, Same4, Calm
<1>6. Adds(t, s, NewsOf(w), DestJobs)
  BY <1>4, <1>5 DEF Adds
<1>7. Same4(t, s)
  BY <1>3, <1>5 DEF Same4, Calm
<1> QED
  BY <1>1, <1>3, <1>5, <1>6, <1>7 DEF t

\* The state after those of the readable stream were.
LEMMA WithSourceIs ==
  ASSUME NEW s, Turn(s), Line(s.jobs), NEW r, NEW v, NEW isRead, Serves(v, r, isRead),
         DOMAIN v = DOMAIN R!NewReadable
  PROVE  LET t == WithSource(s, v)
         IN  /\ Adds(t, s, NewsOf(v), SourceJobs) /\ Same4(t, s)
             /\ \A e \in NewsOf(v) : e[1] = "read" => Found(t, e)
             /\ t.dest = s.dest /\ t.source = [v EXCEPT !.news = <<>>]
             /\ t.source.queue = v.queue /\ t.source.state = v.state
             /\ t.source.readRequests = v.readRequests
<1> DEFINE x == [v EXCEPT !.news = <<>>]
           a == [s EXCEPT !.source = x]
           h == SourceTold(s, v.news)
           t == WithSource(s, v)
<1>1. x.queue = v.queue /\ x.state = v.state /\ x.readRequests = v.readRequests
  BY ReadFields
<1>2. t = Heard(a, h)
  BY DEF WithSource
<1> HIDE DEF x
<1>3. Turn(a) /\ a.source = x /\ a.dest = s.dest /\ a.pipe = s.pipe
  BY DEF Turn
<1>4. Adds(h, s, NewsOf(v), SourceJobs) /\ \A e \in NewsOf(v) : e[1] = "read" => Found(h, e)
  BY SourceAdds
<1> HIDE DEF a, h, t
<1>5. /\ t.jobs = h.jobs /\ t.pipe.parts = h.pipe.parts /\ Same4(t, a)
      /\ t.source = a.source /\ t.dest = a.dest
  BY <1>2, <1>3, PipeFields DEF Heard, Turn, Same4, Calm
<1>6. Adds(t, s, NewsOf(v), SourceJobs) /\ \A e \in NewsOf(v) : e[1] = "read" => Found(t, e)
  BY <1>4, <1>5 DEF Adds, Found
<1>7. Same4(t, s)
  BY <1>3, <1>5 DEF Same4, Calm
<1> QED
  BY <1>1, <1>3, <1>5, <1>6, <1>7 DEF t, x

\* Jobs are added and none goes.
LEMMA LongerMine ==
  ASSUME NEW q, NEW p, Longer(q, p), Line(p)
  PROVE  /\ HasMine(p) => HasMine(q)
         /\ \A K : Has(p, K) => Has(q, K)
         /\ \A i \in 1 .. Len(p) : i \in 1 .. Len(q)
<1>1. Len(p) \in Nat /\ Len(q) \in Nat
  BY DEF Longer, Line
<1>2. \A i \in 1 .. Len(p) : i \in 1 .. Len(q) /\ q[i] = p[i]
  BY <1>1 DEF Longer
<1> QED
  BY <1>2 DEF HasMine, Has

\* An action that has been taken stays so.
LEMMA AddsGone ==
  ASSUME NEW s, NEW t, NEW N, NEW K, Adds(t, s, N, K), Line(s.jobs),
         t.pipe.lock = s.pipe.lock, Gone(s)
  PROVE  Gone(t)
<1>1. Has(s.jobs, {"acted"}) => Has(t.jobs, {"acted"})
  BY LongerMine DEF Adds
<1> QED
  BY <1>1 DEF Adds, Gone

\* The turn goes on where the writable stream does: a change of it passes on at most one
\* chunk, and tells of a write that the sink was called with.
Delivers1(w, s, a, n, p, m, prog, b, acts) ==
  /\ DOMAIN w = DOMAIN W!NewWritable /\ w.news \in Seq(WEvents)
  /\ Takes(w) => Takes(s.dest)
  /\ Keeps(w) => Keeps(s.dest)
  /\ s.dest.state = "closed" => w.state = "closed"
  /\ Order(w, b, n)
  /\ b = a \/ (b = a + 1 /\ Takes(w) /\ Takes(s.dest))
  /\ Keeps(w) /\ ~ Takes(w) /\ Takes(s.dest) => p = n
  /\ Takes(w) => \A e \in NewsOf(w) : e[1] = "write" /\ e[2] \in Ours =>
                   a > 0 /\ a <= n /\ e[2] = Chunks[a]
  /\ CloseTold \in NewsOf(w) /\ s.pipe.action = "close" =>
       \/ w.state = "closed"
       \/ "close" \in acts /\ (b = m \/ "cancel" \in acts)
  /\ prog \subseteq acts
  /\ "cancel" \in acts => "cancel" \in prog
  /\ "close" \in acts => ~ Takes(w)

\* The sink changed, and the pipe has heard of it.
LEMMA WithDestRuns ==
  ASSUME NEW s, Turn(s), Line(s.jobs), Plan(s), NEW a, NEW n, NEW p, NEW m, NEW prog,
         Runs(s, a, n, p, m, prog), NEW w, NEW b, NEW acts,
         Delivers1(w, s, a, n, p, m, prog, b, acts)
  PROVE  LET t == WithDest(s, w)
         IN  /\ Drive(t, b, n, p, m, acts) /\ Adds(t, s, NewsOf(w), DestJobs) /\ Same4(t, s)
             /\ t.source = s.source /\ Akin(t.dest, w)
<1> DEFINE t == WithDest(s, w)
<1>1. /\ Adds(t, s, NewsOf(w), DestJobs) /\ Same4(t, s)
      /\ t.source = s.source /\ Akin(t.dest, w)
  BY WithDestIs DEF Delivers1
<1> HIDE DEF t
<1>2. /\ Takes(t.dest) <=> Takes(w)
      /\ Keeps(t.dest) <=> Keeps(w)
      /\ t.dest.state = w.state /\ Order(t.dest, b, n)
  BY <1>1, AkinMoves DEF Delivers1, Akin, Keeps
<1>3. b \in Nat /\ n \in Nat /\ b <= n /\ n <= Len(Chunks) /\ (Keeps(w) /\ ~ Takes(w) => n = b)
  BY DEF Delivers1, Order
<1>4. a \in Nat /\ p \in Nat /\ m \in Nat
  BY DEF Runs
<1>5. Onwards(s, t, a, n, p, m, prog, b, p, m, acts)
  <2>1. Calm(t, s) /\ t.pipe.currentDone = s.pipe.currentDone
    BY <1>1 DEF Same4
  <2>2. m <= Len(Chunks)
    BY DEF Runs
  <2> QED
    BY <1>1, <1>2, <1>3, <1>4, <2>1, <2>2 DEF Onwards, Delivers1
<1>6. Reliable(t) => Supply(t, n, p, m, acts)
  <2>1. SUFFICES ASSUME Reliable(t)
                 PROVE  Supply(t, n, p, m, acts)
    OBVIOUS
  <2>2. Reliable(s) /\ (t.pipe.lock = s.pipe.lock)
    BY <1>2, <1>1, <2>1 DEF Reliable, Delivers1, Same4, Calm
  <2>3. Supply(s, n, p, m, prog)
    BY <2>2 DEF Runs
  <2>4. Whole(t, acts) => Whole(s, prog)
    BY <1>1 DEF Whole, Delivers1, Same4, Calm
  <2>5. ~ Takes(t.dest) => p = n
    <3>1. t.pipe.lock = "idle" => p = n
      BY <2>2 DEF Runs
    <3> QED
      BY <1>2, <2>1, <2>3, <3>1 DEF Reliable, Supply, Delivers1
  <2> QED
    BY <1>1, <2>3, <2>4, <2>5 DEF Supply
<1>7. Takes(t.dest) => Takes(s.dest) /\ Reliable(t)
  BY <1>2 DEF Delivers1, Reliable, Takes, Keeps
<1>8. ASSUME NEW j, NEW e \in NewsOf(w), Hearing(j, s, e, DestJobs)
      PROVE  Knows(j, t, b, n, p, m, acts)
  <2>1. j.kind \notin {"chunk", "waited", "rest", "sourceClosed"}
    BY <1>8 DEF Hearing, DestJobs
  <2>2. Takes(t.dest) /\ j.kind = "written" =>
          j.arg \in Before(n) /\ (j.arg = t.pipe.currentWrite => b = n)
    <3>1. SUFFICES ASSUME Takes(t.dest), j.kind = "written"
                   PROVE  j.arg \in Before(n) /\ (j.arg = t.pipe.currentWrite => b = n)
      OBVIOUS
    <3>2. a > 0 /\ a <= n /\ j.arg = Chunks[a]
      BY <1>2, <1>8, <3>1 DEF Hearing, Delivers1
    <3>3. a \in 1 .. n /\ n # 0 /\ n \in 1 .. Len(Chunks) /\ a \in 1 .. Len(Chunks)
      BY <1>3, <1>4, <3>2, EveryChunk
    <3>4. t.pipe.currentWrite = Chunks[n]
      BY <1>1, <1>7, <3>1, <3>3 DEF Runs, Same4, Calm
    <3>5. j.arg = t.pipe.currentWrite => a = n
      BY <3>2, <3>3, <3>4, EveryChunk
    <3>6. a = n => b = n
      BY <1>3, <1>4 DEF Delivers1
    <3> QED
      BY <3>2, <3>3, <3>5, <3>6 DEF Before
  <2>3. j.kind = "acted" /\ j.arg # "rejected" /\ ~ t.pipe.isError =>
         /\ t.dest.state = "closed" \/ "close" \in acts
         /\ b = m \/ "cancel" \in acts
    <3>1. SUFFICES ASSUME j.kind = "acted", j.arg # "rejected", ~ t.pipe.isError
                   PROVE  /\ t.dest.state = "closed" \/ "close" \in acts
                          /\ b = m \/ "cancel" \in acts
      OBVIOUS
    <3>2. s.pipe.parts # {}
      BY <1>8, <3>1 DEF Hearing
    <3>3. s.pipe.shuttingDown
      BY <3>2 DEF Plan, Ending
    <3>4. s.pipe.action = "close"
      BY <1>1, <3>1, <3>3 DEF Runs, Same4, Calm
    <3>5. s.pipe.parts \subseteq {"close"} /\ s.source.state = "closed"
      BY <3>4 DEF Runs
    <3>6. e[1] = "close" /\ j.arg = e[2]
      BY <1>8, <3>1, <3>5 DEF Hearing
    <3>7. e \in WEvents
      BY DEF Delivers1, NewsOf
    <3>8. e[2] \in Hows
      BY <3>6, <3>7, EventIs
    <3>9. e = CloseTold
      <4>1. CASE e \in {"write"} \X AllChunks
        BY <3>6, <4>1
      <4>2. CASE e \in {"ready", "closed", "close", "abort"} \X Hows
        BY <3>1, <3>6, <4>2 DEF Hows, CloseTold
      <4> QED
        BY <3>7, <4>1, <4>2 DEF WEvents
    <3>10. \/ w.state = "closed"
           \/ "close" \in acts /\ (b = m \/ "cancel" \in acts)
      BY <3>4, <3>9 DEF Delivers1
    <3>11. w.state = "closed" => b = m \/ "cancel" \in acts
      <4>1. SUFFICES ASSUME w.state = "closed", "cancel" \notin acts
                     PROVE  b = m
        OBVIOUS
      <4>2. Reliable(t) /\ ~ Takes(w) /\ b = n
        BY <1>2, <1>3, <4>1 DEF Reliable, Keeps, Takes
      <4>3. Supply(t, n, p, m, acts) /\ p = n
        BY <1>2, <1>6, <4>2 DEF Supply
      <4>4. t.source.queue = <<>> /\ Len(t.source.queue) = 0
        BY <1>1, <3>5 DEF Runs, Stocked
      <4>5. Whole(t, acts)
        BY <1>1, <3>4, <3>5, <4>1 DEF Whole, Same4, Calm
      <4>6. p + Len(t.source.queue) = m
        BY <4>3, <4>5 DEF Supply
      <4> QED
        BY <1>4, <4>2, <4>3, <4>4, <4>6
    <3> QED
      BY <1>2, <3>10, <3>11
  <2> QED
    BY <2>1, <2>2, <2>3 DEF Knows, Mine
<1>9. Takes(t.dest) /\ t.pipe.currentDone => b = n
  <2>1. Takes(t.dest) /\ t.pipe.currentDone => a = n
    BY <1>1, <1>7 DEF Runs, Same4
  <2> QED
    BY <1>3, <1>4, <2>1 DEF Delivers1
<1>10. "cancel" \in acts => t.source.state # "readable" /\ (t.pipe.lock # "released" => p = 0)
  BY <1>1 DEF Delivers1, Runs, Same4, Calm
<1>11. s.pipe.action = "close" => t.pipe.parts \subseteq {"close"}
  BY <1>1 DEF Adds, Runs
<1>12. \A i \in 1 .. Len(t.jobs) : \/ i \in 1 .. Len(s.jobs)
                                   \/ Knows(t.jobs[i], t, b, n, p, m, acts)
  BY <1>1, <1>8 DEF Adds
<1>13. \A i \in 1 .. Len(t.jobs) : i \notin 1 .. Len(s.jobs) =>
         ~ Mine(t.jobs[i]) /\ t.jobs[i].kind # "waited"
  BY <1>1 DEF Adds, Hearing, DestJobs, Mine
<1>14. Stocked(t.source) /\ Longer(t.jobs, s.jobs)
  BY <1>1 DEF Runs, Adds
<1>15. "close" \in acts => ~ Takes(t.dest)
  BY <1>2 DEF Delivers1
<1>16. Runs(t, b, n, p, m, acts)
  BY <1>5, <1>6, <1>9, <1>10, <1>11, <1>12, <1>13, <1>14, <1>15, RunsOn
<1> QED
  BY <1>1, <1>2, <1>16 DEF Drive, t

\* The kinds of news of a readable stream.
LEMMA ServesKinds ==
  ASSUME NEW r, NEW v, NEW isRead, Serves(v, r, isRead)
  PROVE  \A e \in NewsOf(v) : e[1] \in RKinds
<1>1. CASE v.news = <<>>
  BY <1>1, NoNews
<1>2. CASE \E e : v.news = <<e>> /\ e[1] \in RKinds
  BY <1>2, OneNews
<1>3. CASE \E d, e : /\ v.news = <<d, e>>
                      /\ <<d[1], e[1]>> \in {<<"read", "closed">>, <<"closed", "read">>}
  <2>1. PICK d, e : /\ v.news = <<d, e>>
                    /\ <<d[1], e[1]>> \in {<<"read", "closed">>, <<"closed", "read">>}
    BY <1>3
  <2>2. d[1] \in RKinds /\ e[1] \in RKinds
    BY <2>1 DEF RKinds
  <2> QED
    BY <2>1, <2>2, TwoNews
<1> QED
  BY <1>1, <1>2, <1>3 DEF Serves

\* The turn goes on where the readable stream does: it gives at most one chunk, to the read
\* that asks for it, or gets one.
Gives1(v, s, n, p, m, prog, q, k, acts) ==
  /\ DOMAIN v = DOMAIN R!NewReadable /\ Stocked(v)
  /\ s.source.state = "closed" => v.state = "closed"
  /\ q \in Nat /\ k \in Nat /\ k <= Len(Chunks)
  /\ q = p \/ (q = p + 1 /\ q <= n + 1 /\ s.source.state = "readable" /\ s.pipe.lock # "idle")
  /\ k = m \/ s.source.state = "readable"
  /\ Reliable(s) => Supply([s EXCEPT !.source = v], n, q, k, acts)
  /\ Reliable(s) => \A e \in NewsOf(v) : e[1] = "read" /\ e[2] \in Ours =>
                      q = n + 1 /\ e[2] = Chunks[q]
  /\ \A e \in NewsOf(v) : TellsEnd(e) => v.state = "closed"
  /\ "cancel" \in acts => v.state # "readable" /\ (s.pipe.lock # "released" => q = 0)
  /\ prog \subseteq acts
  /\ "close" \in acts => "close" \in prog

\* A source that goes on as its operations do.
GoesWith(t, s, v, a, n, q, k, acts) ==
  /\ Runs(t, a, n, q, k, acts) /\ Adds(t, s, NewsOf(v), SourceJobs) /\ Same4(t, s)
  /\ t.dest = s.dest
  /\ t.source.queue = v.queue /\ t.source.state = v.state
  /\ t.source.readRequests = v.readRequests
  /\ \A e \in NewsOf(v) : e[1] = "read" /\ e[2] \in Ours => HasMine(t.jobs)

\* The source changed, and the pipe has heard of it.
LEMMA WithSourceRuns ==
  ASSUME NEW s, Turn(s), Line(s.jobs), Plan(s), NEW a, NEW n, NEW p, NEW m, NEW prog,
         Runs(s, a, n, p, m, prog), NEW v, NEW isRead, Serves(v, s.source, isRead),
         NEW q, NEW k, NEW acts, Gives1(v, s, n, p, m, prog, q, k, acts)
  PROVE  GoesWith(WithSource(s, v), s, v, a, n, q, k, acts)
<1> DEFINE t == WithSource(s, v)
           u == [s EXCEPT !.source = v]
<1>1. /\ Adds(t, s, NewsOf(v), SourceJobs) /\ Same4(t, s)
      /\ \A e \in NewsOf(v) : e[1] = "read" => Found(t, e)
      /\ t.dest = s.dest /\ t.source = [v EXCEPT !.news = <<>>]
      /\ t.source.queue = v.queue /\ t.source.state = v.state
      /\ t.source.readRequests = v.readRequests
  <2>1. DOMAIN v = DOMAIN R!NewReadable
    BY DEF Gives1
  <2> QED
    BY ONLY <2>1, WithSourceIs, Turn(s), Line(s.jobs), Serves(v, s.source, isRead), SMTT(40)
<1>2. u.source = v /\ u.dest = s.dest /\ u.pipe = s.pipe
  BY DEF Turn
<1>3. Reliable(s) => Supply(u, n, q, k, acts)
  BY DEF Gives1
<1> HIDE DEF t, u
<1>4. Reliable(t) <=> Reliable(s)
  BY <1>1 DEF Reliable, Same4, Calm
<1>5. Reliable(t) => Supply(t, n, q, k, acts)
  BY <1>1, <1>2, <1>3, <1>4 DEF Supply, Whole, Same4, Calm
<1>6. a \in Nat
  BY DEF Runs
<1>7. Onwards(s, t, a, n, p, m, prog, a, q, k, acts)
  <2>1. Calm(t, s) /\ t.pipe.currentDone = s.pipe.currentDone
    BY <1>1 DEF Same4
  <2> QED
    BY <1>1, <1>6, <2>1 DEF Onwards, Gives1
<1>8. ASSUME NEW j, NEW e \in NewsOf(v), Hearing(j, s, e, SourceJobs)
      PROVE  /\ Knows(j, t, a, n, q, k, acts) /\ j.kind # "waited"
             /\ Mine(j) => s.source.state = "readable"
  <2>1. j.kind \notin {"written", "waited", "rest"}
    BY <1>8 DEF Hearing, SourceJobs
  <2>2. Mine(j) => e[1] = "read" /\ e[2] \in Ours /\ j.arg = e[2]
    BY <1>8 DEF Hearing, Mine
  <2>3. Reliable(t) /\ Mine(j) => q = n + 1 /\ j.arg = Chunks[q]
    BY <1>4, <2>2 DEF Gives1
  <2>4. Mine(j) => s.source.state = "readable"
    BY <2>2 DEF Serves
  <2>5. j.kind = "sourceClosed" => t.source.state = "closed"
    BY <1>1, <1>8 DEF Hearing, Gives1
  <2>6. j.kind = "acted" => t.pipe.isError
    <3>1. SUFFICES ASSUME j.kind = "acted"
                   PROVE  t.pipe.isError
      OBVIOUS
    <3>2. e[1] \notin Endings
      BY ServesKinds DEF RKinds, Endings
    <3>3. "cancel" \in s.pipe.parts
      BY <1>8, <3>1, <3>2 DEF Hearing
    <3>4. s.pipe.shuttingDown
      BY <3>3 DEF Plan, Ending
    <3>5. s.pipe.action # "close"
      BY <3>3 DEF Runs
    <3> QED
      BY <1>1, <3>4, <3>5 DEF Runs, Same4, Calm
  <2> QED
    BY <2>1, <2>3, <2>4, <2>5, <2>6 DEF Knows
<1>9. Takes(t.dest) /\ t.pipe.currentDone => a = n
  BY <1>1 DEF Runs, Same4
<1>10. "cancel" \in acts => t.source.state # "readable" /\ (t.pipe.lock # "released" => q = 0)
  BY <1>1 DEF Gives1, Same4, Calm
<1>11. s.pipe.action = "close" => t.pipe.parts \subseteq {"close"}
  BY <1>1 DEF Adds, Runs
<1>12. \A i \in 1 .. Len(t.jobs) : \/ i \in 1 .. Len(s.jobs)
                                   \/ Knows(t.jobs[i], t, a, n, q, k, acts)
  BY <1>1, <1>8 DEF Adds
<1>13. s.pipe.action = "close" =>
         \A i \in 1 .. Len(t.jobs) : i \notin 1 .. Len(s.jobs) =>
           ~ Mine(t.jobs[i]) /\ t.jobs[i].kind # "waited"
  BY <1>1, <1>8 DEF Adds, Runs
<1>14. Stocked(t.source) /\ Longer(t.jobs, s.jobs)
  BY <1>1 DEF Gives1, Adds, Stocked
<1>15. "close" \in acts => ~ Takes(t.dest)
  BY <1>1 DEF Gives1, Runs
<1>16. Runs(t, a, n, q, k, acts)
  BY <1>5, <1>7, <1>9, <1>10, <1>11, <1>12, <1>13, <1>14, <1>15, RunsOn
<1>17. \A e \in NewsOf(v) : e[1] = "read" /\ e[2] \in Ours => HasMine(t.jobs)
  BY <1>1 DEF Found, HasMine, Mine
<1> QED
  BY <1>1, <1>16, <1>17 DEF GoesWith, t

\* What the news change in the rest.
LEMMA FlowStays ==
  ASSUME NEW s, Line(s.jobs), NEW t, NEW N, NEW K, Adds(t, s, N, K), Same4(t, s),
         NEW n, NEW p, NEW prog, NEW acts, prog \subseteq acts
  PROVE  /\ Gone(s) => Gone(t)
         /\ Pending(s, n, p) /\ (Keeps(t.dest) => Keeps(s.dest)) => Pending(t, n, p)
         /\ Shut(s, prog) /\ (Ended(t.dest) => Ended(s.dest)) => Shut(t, acts)
<1>1. t.pipe.lock = s.pipe.lock
  BY DEF Same4, Calm
<1>2. Gone(s) => Gone(t)
  BY <1>1, AddsGone
<1>3. HasMine(s.jobs) => HasMine(t.jobs)
  BY LongerMine DEF Adds
<1> QED
  BY <1>1, <1>2, <1>3 DEF Pending, Reliable, Shut

-----------------------------------------------------------------------------
(* The closure changes, and a job leaves the queue.                        *)

\* The closure changes, or a job is queued, and the streams are as they were.
LEMMA CalmRuns ==
  ASSUME NEW s, Line(s.jobs), Plan(s), NEW a, NEW n, NEW p, NEW m, NEW prog,
         Runs(s, a, n, p, m, prog), NEW t, Calm(t, s), t.source = s.source, t.dest = s.dest,
         s.pipe.currentDone => t.pipe.currentDone,
         Takes(s.dest) /\ t.pipe.currentDone => a = n,
         s.pipe.action = "close" => t.pipe.parts \subseteq {"close"},
         \/ t.jobs = s.jobs
         \/ \E j : t.jobs = Append(s.jobs, j) /\ ~ Mine(j) /\ Knows(j, t, a, n, p, m, prog)
  PROVE  /\ Runs(t, a, n, p, m, prog)
         /\ Pending(s, n, p) => Pending(t, n, p)
         /\ \A K : Has(s.jobs, K) => Has(t.jobs, K)
<1>1. /\ a \in Nat /\ p \in Nat /\ m \in Nat /\ m <= Len(Chunks)
      /\ Stocked(s.source) /\ (Reliable(s) => Supply(s, n, p, m, prog))
  BY DEF Runs
<1>2. Onwards(s, t, a, n, p, m, prog, a, p, m, prog)
  BY <1>1 DEF Onwards
<1>3. Reliable(t) <=> Reliable(s)
  BY DEF Reliable, Calm
<1>4. Reliable(t) => Supply(t, n, p, m, prog)
  BY <1>1, <1>3 DEF Supply, Whole, Calm
<1>5. "cancel" \in prog => t.source.state # "readable" /\ (t.pipe.lock # "released" => p = 0)
  BY DEF Runs, Calm
<1>6. "close" \in prog => ~ Takes(t.dest)
  BY DEF Runs
<1>7. /\ Longer(t.jobs, s.jobs)
      /\ \A i \in 1 .. Len(t.jobs) : i \notin 1 .. Len(s.jobs) =>
           /\ Knows(t.jobs[i], t, a, n, p, m, prog) /\ ~ Mine(t.jobs[i])
           /\ i = Len(s.jobs) + 1
  <2>1. CASE t.jobs = s.jobs
    <3>1. Len(s.jobs) \in Nat
      BY DEF Line
    <3> QED
      BY <2>1, <3>1 DEF Longer
  <2>2. CASE \E j : t.jobs = Append(s.jobs, j) /\ ~ Mine(j) /\ Knows(j, t, a, n, p, m, prog)
    <3>1. PICK j : t.jobs = Append(s.jobs, j) /\ ~ Mine(j) /\ Knows(j, t, a, n, p, m, prog)
      BY <2>2
    <3>2. /\ Line(t.jobs) /\ Len(t.jobs) = Len(s.jobs) + 1 /\ Len(s.jobs) \in Nat
          /\ t.jobs[Len(s.jobs) + 1] = j
          /\ \A i \in 1 .. Len(s.jobs) : t.jobs[i] = s.jobs[i]
      BY <3>1, LongerLine
    <3>3. Longer(t.jobs, s.jobs)
      BY <3>2 DEF Longer
    <3>4. \A i \in 1 .. Len(t.jobs) : i \in 1 .. Len(s.jobs) \/ i = Len(s.jobs) + 1
      BY <3>2
    <3> QED
      BY <3>1, <3>2, <3>3, <3>4
  <2> QED
    BY <2>1, <2>2
<1>8. Len(s.jobs) \in Nat
  BY DEF Line
<1>9. \A i, j \in 1 .. Len(t.jobs) :
             /\ i \notin 1 .. Len(s.jobs) => ~ Mine(t.jobs[i])
             /\ t.jobs[i].kind = "waited" /\ Mine(t.jobs[j]) /\ j \in 1 .. Len(s.jobs) =>
                  i \in 1 .. Len(s.jobs) \/ j < i
  BY <1>7, <1>8
<1>10. Runs(t, a, n, p, m, prog)
  BY <1>1, <1>2, <1>4, <1>5, <1>6, <1>7, <1>9, RunsOn
<1>11. (HasMine(s.jobs) => HasMine(t.jobs)) /\ \A K : Has(s.jobs, K) => Has(t.jobs, K)
  BY <1>7, LongerMine
<1> QED
  BY <1>3, <1>10, <1>11 DEF Pending

\* A job is queued.
LEMMA QueueRuns ==
  ASSUME NEW s, Turn(s), Line(s.jobs), Plan(s), NEW a, NEW n, NEW p, NEW m, NEW prog,
         Runs(s, a, n, p, m, prog), NEW kind, NEW arg, NEW hops,
         ~ Mine([kind |-> kind, arg |-> arg, hops |-> hops]),
         Knows([kind |-> kind, arg |-> arg, hops |-> hops], s, a, n, p, m, prog)
  PROVE  LET t == Queue(s, kind, arg, hops)
         IN  /\ Runs(t, a, n, p, m, prog) /\ Same4(t, s)
             /\ t.source = s.source /\ t.dest = s.dest
             /\ Pending(s, n, p) => Pending(t, n, p)
             /\ Gone(s) => Gone(t)
             /\ Shut(s, prog) => Shut(t, prog)
             /\ kind = "acted" => Gone(t)
<1> DEFINE t == Queue(s, kind, arg, hops)
           j == [kind |-> kind, arg |-> arg, hops |-> hops]
<1>1. /\ t.jobs = Append(s.jobs, j) /\ t.pipe = s.pipe
      /\ t.source = s.source /\ t.dest = s.dest /\ j.kind = kind
  BY QueueIs DEF Turn
<1>2. ~ Mine(j) /\ Knows(j, s, a, n, p, m, prog)
  OBVIOUS
<1> HIDE DEF t, j
<1>3. Knows(j, t, a, n, p, m, prog)
  BY <1>1, <1>2 DEF Knows, Reliable
<1>4. Calm(t, s) /\ Same4(t, s)
  BY <1>1 DEF Calm, Same4
<1>5. Takes(s.dest) /\ t.pipe.currentDone => a = n
  BY <1>1 DEF Runs
<1>6. s.pipe.action = "close" => t.pipe.parts \subseteq {"close"}
  BY <1>1 DEF Runs
<1>7. /\ Runs(t, a, n, p, m, prog)
      /\ Pending(s, n, p) => Pending(t, n, p)
      /\ \A K : Has(s.jobs, K) => Has(t.jobs, K)
  BY <1>1, <1>2, <1>3, <1>4, <1>5, <1>6, CalmRuns
<1>8. Gone(s) => Gone(t)
  BY <1>1, <1>7 DEF Gone
<1>9. Shut(s, prog) => Shut(t, prog)
  BY <1>1, <1>8 DEF Shut
<1>10. kind = "acted" => Gone(t)
  <2>1. kind = "acted" => Has(t.jobs, {"acted"})
    BY <1>1, LongerHas
  <2> QED
    BY <2>1 DEF Gone
<1> QED
  BY <1>1, <1>4, <1>7, <1>8, <1>9, <1>10 DEF t

\* A job that knows nothing of the chunks.
PlainKinds == {"read", "next", "destErrored", "sourceErrored", "part"}
LEMMA PlainKnows ==
  ASSUME NEW j, j.kind \in PlainKinds, NEW s, NEW a, NEW n, NEW p, NEW m, NEW prog
  PROVE  Knows(j, s, a, n, p, m, prog) /\ ~ Mine(j)
  BY DEF PlainKinds, Knows, Mine

\* The first job is taken from the queue.
LEMMA TakenRuns ==
  ASSUME NEW s, Turn(s), Line(s.jobs), s.jobs # <<>>, NEW a, NEW n, NEW p, NEW m, NEW prog,
         Runs(s, a, n, p, m, prog)
  PROVE  LET t == [s EXCEPT !.jobs = Tail(@)]
             j == Head(s.jobs)
         IN  /\ Runs(t, a, n, p, m, prog) /\ Knows(j, t, a, n, p, m, prog)
             /\ Pending(s, n, p) /\ ~ Mine(j) => Pending(t, n, p)
             /\ Shut(s, prog) /\ j.kind # "acted" => Shut(t, prog)
<1> DEFINE t == [s EXCEPT !.jobs = Tail(@)]
           j == Head(s.jobs)
<1>1. t.jobs = Tail(s.jobs) /\ t.pipe = s.pipe /\ t.source = s.source /\ t.dest = s.dest
  BY DEF Turn
<1> HIDE DEF t
<1>2. PICK S : s.jobs \in Seq(S)
  BY DEF Line
<1>3. /\ Len(t.jobs) = Len(s.jobs) - 1 /\ Len(s.jobs) \in Nat /\ Len(s.jobs) > 0
      /\ j = s.jobs[1]
      /\ \A i \in 1 .. Len(t.jobs) : t.jobs[i] = s.jobs[i + 1]
  BY <1>1, <1>2
<1>4. /\ \A i \in 1 .. Len(t.jobs) : i + 1 \in 1 .. Len(s.jobs)
      /\ 1 \in 1 .. Len(s.jobs)
      /\ \A i \in 1 .. Len(s.jobs) : i = 1 \/ (i - 1 \in 1 .. Len(t.jobs) /\ (i - 1) + 1 = i)
  BY <1>3
<1> HIDE DEF j
<1>5. \A x : Knows(x, t, a, n, p, m, prog) <=> Knows(x, s, a, n, p, m, prog)
  BY <1>1 DEF Knows, Reliable
<1>6. /\ \A i \in 1 .. Len(t.jobs) : Knows(t.jobs[i], t, a, n, p, m, prog)
      /\ Knows(j, t, a, n, p, m, prog)
  BY <1>3, <1>4, <1>5 DEF Runs
<1>7. WaitsLast(s.jobs) => WaitsLast(t.jobs)
  <2>1. SUFFICES ASSUME WaitsLast(s.jobs), NEW i \in 1 .. Len(t.jobs), NEW k \in 1 .. Len(t.jobs),
                        t.jobs[i].kind = "waited", Mine(t.jobs[k])
                 PROVE  k < i
    BY DEF WaitsLast
  <2>2. k + 1 < i + 1
    BY <1>3, <1>4, <2>1 DEF WaitsLast
  <2> QED
    BY <1>3, <2>2
<1>8. Reliable(t) <=> Reliable(s)
  BY <1>1 DEF Reliable
<1>9. Supply(t, n, p, m, prog) <=> Supply(s, n, p, m, prog)
  BY <1>1 DEF Supply, Whole
<1>10. Runs(t, a, n, p, m, prog)
  BY <1>1, <1>6, <1>7, <1>8, <1>9 DEF Runs
<1>11. HasMine(s.jobs) /\ ~ Mine(j) => HasMine(t.jobs)
  <2>1. SUFFICES ASSUME NEW i \in 1 .. Len(s.jobs), Mine(s.jobs[i]), ~ Mine(j)
                 PROVE  HasMine(t.jobs)
    BY DEF HasMine
  <2>2. i - 1 \in 1 .. Len(t.jobs) /\ (i - 1) + 1 = i
    BY <1>3, <1>4, <2>1
  <2>3. Mine(t.jobs[i - 1])
    BY <1>3, <2>1, <2>2
  <2> QED
    BY <2>2, <2>3 DEF HasMine
<1>12. Has(s.jobs, {"acted"}) /\ j.kind # "acted" => Has(t.jobs, {"acted"})
  <2>1. SUFFICES ASSUME NEW i \in 1 .. Len(s.jobs), s.jobs[i].kind = "acted", j.kind # "acted"
                 PROVE  Has(t.jobs, {"acted"})
    BY DEF Has
  <2>2. i - 1 \in 1 .. Len(t.jobs) /\ (i - 1) + 1 = i
    BY <1>3, <1>4, <2>1
  <2>3. t.jobs[i - 1].kind = "acted"
    BY <1>3, <2>1, <2>2
  <2> QED
    BY <2>2, <2>3 DEF Has
<1> QED
  BY <1>1, <1>6, <1>8, <1>10, <1>11, <1>12 DEF Pending, Shut, Gone, t, j

-----------------------------------------------------------------------------
(* Shutting down: no chunk moves on.                                       *)

\* A turn that takes no chunk further.
Halts(t, s, a, n, p, m, prog) ==
  /\ Drive(t, a, n, p, m, prog)
  /\ Pending(s, n, p) => Pending(t, n, p)
  /\ Gone(s) => Gone(t)
  /\ Ended(t.dest) => Ended(s.dest) \/ Gone(t)
  /\ Takes(t.dest) => Takes(s.dest)
  /\ t.pipe.lock = s.pipe.lock /\ t.pipe.outcome = s.pipe.outcome
  /\ s.pipe.shuttingDown => t.pipe.shuttingDown

\* One after the other.
LEMMA HaltsTwice ==
  ASSUME NEW s, NEW t, NEW u, NEW a, NEW n, NEW p, NEW m, NEW prog,
         Halts(t, s, a, n, p, m, prog), Halts(u, t, a, n, p, m, prog)
  PROVE  Halts(u, s, a, n, p, m, prog)
  BY DEF Halts

\* What holds between turns holds after one that halts.
LEMMA HaltsShut ==
  ASSUME NEW s, NEW t, NEW a, NEW n, NEW p, NEW m, NEW prog,
         Halts(t, s, a, n, p, m, prog), Pending(s, n, p), Shut(s, prog)
  PROVE  Flow(t, a, n, p, m, prog)
  BY DEF Halts, Flow, Shut

\* Nothing happens.
LEMMA HaltsSelf ==
  ASSUME NEW s, NEW a, NEW n, NEW p, NEW m, NEW prog, Drive(s, a, n, p, m, prog)
  PROVE  Halts(s, s, a, n, p, m, prog)
  BY DEF Halts

\* A job is queued.
LEMMA QueueHalts ==
  ASSUME NEW s, Loops(s), Plan(s), NEW a, NEW n, NEW p, NEW m, NEW prog,
         Drive(s, a, n, p, m, prog), NEW kind, NEW arg, NEW hops,
         ~ Mine([kind |-> kind, arg |-> arg, hops |-> hops]),
         Knows([kind |-> kind, arg |-> arg, hops |-> hops], s, a, n, p, m, prog)
  PROVE  Halts(Queue(s, kind, arg, hops), s, a, n, p, m, prog)
<1> DEFINE t == Queue(s, kind, arg, hops)
<1>1. Turn(s) /\ Line(s.jobs) /\ Runs(s, a, n, p, m, prog) /\ Order(s.dest, a, n)
  BY DEF Loops, Drive
<1>2. /\ Runs(t, a, n, p, m, prog) /\ Same4(t, s)
      /\ t.dest = s.dest
      /\ Pending(s, n, p) => Pending(t, n, p)
      /\ Gone(s) => Gone(t)
  BY <1>1, QueueRuns
<1> HIDE DEF t
<1> QED
  BY <1>1, <1>2 DEF Halts, Drive, Same4, Calm, t

\* The closure changes.
LEMMA CalmHalts ==
  ASSUME NEW s, Loops(s), Plan(s), NEW a, NEW n, NEW p, NEW m, NEW prog,
         Drive(s, a, n, p, m, prog), NEW t, Calm(t, s), t.source = s.source, t.dest = s.dest,
         t.pipe.outcome = s.pipe.outcome,
         s.pipe.currentDone => t.pipe.currentDone,
         Takes(s.dest) /\ t.pipe.currentDone => a = n,
         s.pipe.action = "close" => t.pipe.parts \subseteq {"close"},
         \/ t.jobs = s.jobs
         \/ \E j : t.jobs = Append(s.jobs, j) /\ ~ Mine(j) /\ Knows(j, t, a, n, p, m, prog),
         Gone(s) => Gone(t)
  PROVE  Halts(t, s, a, n, p, m, prog)
<1>1. Line(s.jobs) /\ Runs(s, a, n, p, m, prog) /\ Order(s.dest, a, n)
  BY DEF Loops, Drive
<1>2. Runs(t, a, n, p, m, prog) /\ (Pending(s, n, p) => Pending(t, n, p))
  BY <1>1, CalmRuns
<1> QED
  BY <1>1, <1>2 DEF Halts, Drive, Calm

\* The parts of the action change before any of them settles.
LEMMA AwaitHalts ==
  ASSUME NEW s, Loops(s), Plan(s), NEW a, NEW n, NEW p, NEW m, NEW prog,
         Drive(s, a, n, p, m, prog), NEW parts, s.pipe.parts = {},
         s.pipe.action = "close" => parts \subseteq {"close"}
  PROVE  Halts([s EXCEPT !.pipe.parts = parts], s, a, n, p, m, prog)
<1> DEFINE t == [s EXCEPT !.pipe.parts = parts]
<1>1. Turn(s)
  BY DEF Loops
<1>2. /\ Calm(t, s) /\ t.source = s.source /\ t.dest = s.dest /\ t.jobs = s.jobs
      /\ t.pipe.outcome = s.pipe.outcome /\ t.pipe.currentDone = s.pipe.currentDone
      /\ t.pipe.parts = parts
  BY <1>1, PipeFields DEF Turn, Calm
<1> HIDE DEF t
<1>3. Takes(s.dest) /\ t.pipe.currentDone => a = n
  BY <1>2 DEF Drive, Runs
<1>4. Gone(s) => Gone(t)
  BY <1>2 DEF Gone, Calm
<1>5. Halts(t, s, a, n, p, m, prog)
  BY <1>2, <1>3, <1>4, CalmHalts
<1> QED
  BY <1>5 DEF t

\* A part of the action of an abort signal settles.
LEMMA PartHalts ==
  ASSUME NEW s, Loops(s), Plan(s), NEW a, NEW n, NEW p, NEW m, NEW prog,
         Drive(s, a, n, p, m, prog), NEW part, NEW how, NEW hops, s.pipe.action = "signal"
  PROVE  Halts(PartSettled(s, part, how, hops), s, a, n, p, m, prog)
<1> DEFINE pair == <<part, how>>
           j == [kind |-> "part", arg |-> pair, hops |-> hops]
<1>1. j.kind \in PlainKinds
  BY DEF PlainKinds
<1>2. Knows(j, s, a, n, p, m, prog) /\ ~ Mine(j)
  BY <1>1, PlainKnows
<1> HIDE DEF pair
<1>3. Halts(Queue(s, "part", pair, hops), s, a, n, p, m, prog)
  BY <1>2, QueueHalts
<1> QED
  BY <1>3, HaltsSelf DEF PartSettled, pair

\* The writable stream is aborted, and the readable one cancelled.
LEMMA AbortHalts ==
  ASSUME NEW s, Good(s), Loops(s), Plan(s), NEW a, NEW n, NEW p, NEW m, NEW prog,
         Drive(s, a, n, p, m, prog), s.pipe.shuttingDown, s.pipe.action # "close"
  PROVE  Halts(WithDest(s, W!StreamAbort(s.dest)), s, a, n, p, m, prog)
<1> DEFINE w == W!StreamAbort(s.dest)
           t == WithDest(s, w)
<1>1. /\ Turn(s) /\ Line(s.jobs) /\ WInv(s.dest) /\ s.dest.news = <<>> /\ Level(s.dest)
      /\ Runs(s, a, n, p, m, prog) /\ Order(s.dest, a, n)
  BY DEF Loops, Drive, Good, Fit
<1>2. WInv(w) /\ Moves(w, s.dest) /\ w.state # "writable"
  BY <1>1, AbortInv, OthersMove, AbortFine
<1> HIDE DEF w
<1>3. ~ Takes(w) /\ Follows(w, s.dest)
  BY <1>2 DEF Takes, Moves
<1>4. Order(w, a, n)
  BY <1>1, <1>2, <1>3 DEF Moves
<1>5. DOMAIN w = DOMAIN W!NewWritable /\ w.news \in Seq(WEvents)
  BY <1>2 DEF Moves, Tame, Typed
<1>6. Keeps(w) /\ ~ Takes(w) /\ Takes(s.dest) => p = n
  BY <1>3 DEF Follows
<1>7. "close" \in prog => ~ Takes(w)
  BY <1>3
<1>8. Delivers1(w, s, a, n, p, m, prog, a, prog)
  BY <1>3, <1>4, <1>5, <1>6 DEF Delivers1, Follows
<1>9. /\ Drive(t, a, n, p, m, prog) /\ Adds(t, s, NewsOf(w), DestJobs) /\ Same4(t, s)
      /\ t.source = s.source /\ Akin(t.dest, w)
  BY <1>1, <1>8, WithDestRuns
<1> HIDE DEF t
<1>10. /\ Takes(t.dest) <=> Takes(w)
       /\ Keeps(t.dest) <=> Keeps(w)
       /\ Ended(t.dest) <=> Ended(w)
  BY <1>9, AkinMoves DEF Akin, Keeps
<1>11. (Keeps(t.dest) => Keeps(s.dest)) /\ (Ended(t.dest) => Ended(s.dest))
  BY <1>3, <1>10 DEF Follows
<1>12. /\ Gone(s) => Gone(t)
       /\ Pending(s, n, p) => Pending(t, n, p)
  BY <1>1, <1>9, <1>11, FlowStays
<1>13. Halts(t, s, a, n, p, m, prog)
  BY <1>3, <1>9, <1>10, <1>11, <1>12 DEF Halts, Same4, Calm
<1> QED
  BY <1>13 DEF t, w

\* The action cancels the source.
LEMMA CancelHalts ==
  ASSUME NEW s, Good(s), Loops(s), Plan(s), NEW a, NEW n, NEW p, NEW m, NEW prog,
         Drive(s, a, n, p, m, prog), s.pipe.shuttingDown, s.pipe.action # "close"
  PROVE  Halts(WithSource(s, R!StreamCancel(s.source)), s, a, n, p, m, prog)
<1> DEFINE v == R!StreamCancel(s.source)
           t == WithSource(s, v)
           u == [s EXCEPT !.source = v]
<1>1. /\ Turn(s) /\ Line(s.jobs) /\ Heeded(s.source)
      /\ Runs(s, a, n, p, m, prog) /\ Order(s.dest, a, n)
  BY DEF Loops, Drive
<1>2. Stocked(s.source)
  BY <1>1 DEF Runs
<1>3. /\ RInv(v) /\ Serves(v, s.source, FALSE)
      /\ Ebbs(v, s.source) /\ v.state # "readable" /\ v.queue = <<>>
  BY <1>1, <1>2, CancelInv, CancelServes, CancelEbbs DEF Heeded
<1> HIDE DEF v
<1>4. u.source = v /\ u.dest = s.dest /\ u.pipe = s.pipe
  BY <1>1 DEF Turn
<1> HIDE DEF u
<1>5. Reliable(s) => Supply(u, n, p, m, prog)
  <2>1. SUFFICES ASSUME Reliable(s)
                 PROVE  Supply(u, n, p, m, prog)
    OBVIOUS
  <2>2. Supply(s, n, p, m, prog) /\ p \in Nat /\ m \in Nat
    BY <1>1, <2>1 DEF Runs
  <2>3. Len(s.source.queue) \in Nat /\ Len(v.queue) = 0
    BY <1>2, <1>3 DEF Stocked
  <2>4. p <= m
    BY <2>2, <2>3 DEF Supply
  <2>5. ~ Whole(u, prog)
    BY <1>3, <1>4 DEF Whole
  <2> QED
    BY <1>4, <2>2, <2>3, <2>4, <2>5 DEF Supply
<1>6. /\ s.source.state = "closed" => v.state = "closed"
      /\ \A e \in NewsOf(v) : /\ e[1] = "read" => e[2] \notin Ours
                              /\ TellsEnd(e) => v.state = "closed"
      /\ DOMAIN v = DOMAIN R!NewReadable /\ Stocked(v)
  BY <1>3 DEF Ebbs, RInv
<1>7. /\ p \in Nat /\ m \in Nat /\ m <= Len(Chunks)
      /\ "cancel" \in prog => (s.pipe.lock # "released" => p = 0)
  BY <1>1 DEF Runs
<1>8. Gives1(v, s, n, p, m, prog, p, m, prog)
  BY <1>3, <1>5, <1>6, <1>7 DEF Gives1, u
<1>9. /\ Runs(t, a, n, p, m, prog) /\ Adds(t, s, NewsOf(v), SourceJobs) /\ Same4(t, s)
      /\ t.dest = s.dest
  <2>1. GoesWith(t, s, v, a, n, p, m, prog)
    BY <1>1, <1>3, <1>8, WithSourceRuns
  <2> QED
    BY <2>1 DEF GoesWith
<1> HIDE DEF t
<1>10. /\ Gone(s) => Gone(t)
       /\ Pending(s, n, p) => Pending(t, n, p)
  BY <1>1, <1>9, FlowStays
<1>11. Halts(t, s, a, n, p, m, prog)
  BY <1>1, <1>9, <1>10 DEF Halts, Drive, Same4, Calm
<1> QED
  BY <1>11 DEF t, v

\* What has to be so for a close to be the action.
Excused(s, a, n, p, m, prog) ==
  /\ Takes(s.dest) => a = n /\ p = n
  /\ Ended(s.dest) => "close" \in prog /\ (a = m \/ "cancel" \in prog)

\* The action closes the sink, behind every chunk.
LEMMA CloseHalts ==
  ASSUME NEW s, Good(s), Loops(s), Plan(s), NEW a, NEW n, NEW p, NEW m, NEW prog,
         Drive(s, a, n, p, m, prog), s.pipe.parts # {}, Excused(s, a, n, p, m, prog)
  PROVE  Halts(WithDest(s, W!CloseWithErrorPropagation(s.dest)), s, a, n, p, m, prog)
<1> DEFINE w == W!CloseWithErrorPropagation(s.dest)
           t == WithDest(s, w)
<1>1. /\ Turn(s) /\ Line(s.jobs) /\ WInv(s.dest) /\ s.dest.news = <<>>
      /\ Runs(s, a, n, p, m, prog) /\ Order(s.dest, a, n)
  BY DEF Loops, Drive, Good, Fit
<1>2. Closes(w, s.dest) /\ (CloseTold \in NewsOf(w) => Ended(s.dest))
  BY <1>1, CloseWithErrorMoves
<1> HIDE DEF w
<1>3. ~ Takes(w) /\ (Keeps(w) => Keeps(s.dest)) /\ (s.dest.state = "closed" => w.state = "closed")
  BY <1>2 DEF Closes
<1>4. Order(w, a, n)
  BY <1>1, <1>2 DEF Closes, Excused
<1>5. DOMAIN w = DOMAIN W!NewWritable /\ w.news \in Seq(WEvents)
  BY <1>2 DEF Closes, Tame, Typed
<1>6. /\ Takes(s.dest) => p = n
      /\ CloseTold \in NewsOf(w) => "close" \in prog /\ (a = m \/ "cancel" \in prog)
  BY <1>2 DEF Excused
<1>8. Delivers1(w, s, a, n, p, m, prog, a, prog)
  BY <1>3, <1>4, <1>5, <1>6 DEF Delivers1
<1>9. /\ Drive(t, a, n, p, m, prog) /\ Adds(t, s, NewsOf(w), DestJobs) /\ Same4(t, s)
      /\ t.source = s.source /\ Akin(t.dest, w)
  BY <1>1, <1>8, WithDestRuns
<1> HIDE DEF t
<1>10. /\ Takes(t.dest) <=> Takes(w)
       /\ Keeps(t.dest) <=> Keeps(w)
  BY <1>9, AkinMoves DEF Akin, Keeps
<1>12. /\ Gone(s) => Gone(t)
       /\ Pending(s, n, p) => Pending(t, n, p)
  BY <1>1, <1>3, <1>9, <1>10, FlowStays
<1>13. Gone(t)
  BY <1>12 DEF Gone
<1>14. Halts(t, s, a, n, p, m, prog)
  BY <1>3, <1>9, <1>10, <1>12, <1>13 DEF Halts, Same4, Calm
<1> QED
  BY <1>14 DEF t, w

\* The halves of an abort signal's action.
LEMMA AbortIfHalts ==
  ASSUME NEW s, Good(s), Loops(s), Plan(s), NEW a, NEW n, NEW p, NEW m, NEW prog,
         Drive(s, a, n, p, m, prog), s.pipe.shuttingDown, s.pipe.action = "signal"
  PROVE  Halts(AbortIfWritable(s), s, a, n, p, m, prog)
<1>1. "preventAbort" \notin s.pipe.options
  BY DEF Plan
<1>2. AbortIfWritable(s) = IF s.dest.state = "writable" THEN WithDest(s, W!StreamAbort(s.dest))
                           ELSE PartSettled(s, "abort", "resolved", 0)
  BY <1>1 DEF AbortIfWritable
<1> QED
  BY <1>2, AbortHalts, PartHalts

\* The signal's action cancels a source that has not ended.
LEMMA CancelIfHalts ==
  ASSUME NEW s, Good(s), Loops(s), Plan(s), NEW a, NEW n, NEW p, NEW m, NEW prog,
         Drive(s, a, n, p, m, prog), s.pipe.shuttingDown, s.pipe.action = "signal"
  PROVE  Halts(CancelIfReadable(s), s, a, n, p, m, prog)
<1>1. "preventCancel" \notin s.pipe.options
  BY DEF Plan
<1>2. CancelIfReadable(s) =
        IF s.source.state = "readable" THEN WithSource(s, R!StreamCancel(s.source))
        ELSE PartSettled(s, "cancel", "resolved", 0)
  BY <1>1 DEF CancelIfReadable
<1> QED
  BY <1>2, CancelHalts, PartHalts

\* The shutdown action.
LEMMA DoTheRestHalts ==
  ASSUME NEW s, Good(s), Loops(s), Plan(s), Facts(s), ~ Ending(s), s.pipe.lock = "held",
         s.pipe.shuttingDown, NEW a, NEW n, NEW p, NEW m, NEW prog,
         Drive(s, a, n, p, m, prog),
         s.pipe.action = "close" => Excused(s, a, n, p, m, prog)
  PROVE  Halts(DoTheRest(s), s, a, n, p, m, prog) /\ Gone(DoTheRest(s))
<1> DEFINE Await(parts) == [s EXCEPT !.pipe.parts = parts]
           allowed == (IF "preventAbort" \in s.pipe.options THEN {} ELSE {"abort"})
                        \cup (IF "preventCancel" \in s.pipe.options THEN {} ELSE {"cancel"})
           Goal(t) == Halts(t, s, a, n, p, m, prog)
<1>1. s.pipe.action \in Actions /\ allowed # {}
  BY DEF Plan
<1>2. DoTheRest(s) =
        CASE s.pipe.action = "abort" -> WithDest(Await({"abort"}), W!StreamAbort(s.dest))
          [] s.pipe.action = "cancel" ->
               WithSource(Await({"cancel"}), R!StreamCancel(s.source))
          [] s.pipe.action = "close" ->
               WithDest(Await({"close"}), W!CloseWithErrorPropagation(s.dest))
          [] s.pipe.action = "signal" /\ allowed # {} ->
               CancelIfReadable(AbortIfWritable(Await(allowed)))
          [] s.pipe.action = "signal" /\ allowed = {} -> Queue(s, "acted", "resolved", 0)
          [] OTHER -> Finalize(s, s.pipe.isError)
  BY DEF DoTheRest
<1>3. ASSUME NEW parts, s.pipe.action = "close" => parts \subseteq {"close"}
      PROVE  LET x == Await(parts)
             IN  /\ Good(x) /\ Loops(x) /\ Plan(x) /\ Facts(x) /\ Steady(x, s)
                 /\ x.pipe.parts = parts /\ x.source = s.source /\ x.dest = s.dest
                 /\ ~ Has(x.jobs, {"acted"}) /\ Goal(x) /\ Drive(x, a, n, p, m, prog)
  <2>1. s.pipe.parts = {}
    BY DEF Ending
  <2>2. Goal(Await(parts))
    BY <1>3, <2>1, AwaitHalts
  <2>3. Drive(Await(parts), a, n, p, m, prog)
    BY <2>2 DEF Halts
  <2> HIDE DEF Goal
  <2> QED
    BY <2>2, <2>3, AwaitEnds
<1> HIDE DEF Await, allowed
<1>5. CASE s.pipe.action = "abort"
  <2> DEFINE x == Await({"abort"})
             t == WithDest(x, W!StreamAbort(x.dest))
  <2>1. /\ Good(x) /\ Loops(x) /\ Plan(x) /\ Steady(x, s) /\ x.dest = s.dest
        /\ Halts(x, s, a, n, p, m, prog) /\ Drive(x, a, n, p, m, prog)
        /\ x.pipe.parts = {"abort"}
    BY <1>3, <1>5
  <2> HIDE DEF x
  <2>2. x.pipe.shuttingDown /\ x.pipe.action # "close"
    BY <1>5, <2>1 DEF Steady
  <2>3. Halts(t, x, a, n, p, m, prog)
    BY <2>1, <2>2, AbortHalts
  <2>4. DoTheRest(s) = t
    BY <1>2, <1>5, <2>1 DEF x
  <2> HIDE DEF t
  <2>5. Gone(t)
    BY <2>1, <2>3 DEF Gone, Halts
  <2> QED
    BY <2>1, <2>3, <2>4, <2>5, HaltsTwice
<1>6. CASE s.pipe.action = "cancel"
  <2> DEFINE x == Await({"cancel"})
             t == WithSource(x, R!StreamCancel(x.source))
  <2>1. /\ Good(x) /\ Loops(x) /\ Plan(x) /\ Steady(x, s) /\ x.source = s.source
        /\ Halts(x, s, a, n, p, m, prog) /\ Drive(x, a, n, p, m, prog)
        /\ x.pipe.parts = {"cancel"}
    BY <1>3, <1>6
  <2> HIDE DEF x
  <2>2. x.pipe.shuttingDown /\ x.pipe.action # "close"
    BY <1>6, <2>1 DEF Steady
  <2>3. Halts(t, x, a, n, p, m, prog)
    BY <2>1, <2>2, CancelHalts
  <2>4. DoTheRest(s) = t
    BY <1>2, <1>6, <2>1 DEF x
  <2> HIDE DEF t
  <2>5. Gone(t)
    BY <2>1, <2>3 DEF Gone, Halts
  <2> QED
    BY <2>1, <2>3, <2>4, <2>5, HaltsTwice
<1>7. CASE s.pipe.action = "close"
  <2> DEFINE x == Await({"close"})
             t == WithDest(x, W!CloseWithErrorPropagation(x.dest))
  <2>1. /\ Good(x) /\ Loops(x) /\ Plan(x) /\ Steady(x, s) /\ x.dest = s.dest
        /\ x.pipe.parts = {"close"}
        /\ Halts(x, s, a, n, p, m, prog) /\ Drive(x, a, n, p, m, prog)
    BY <1>3
  <2> HIDE DEF x
  <2>2. x.pipe.parts # {} /\ Excused(x, a, n, p, m, prog)
    BY <1>7, <2>1 DEF Excused
  <2>3. Halts(t, x, a, n, p, m, prog)
    BY <2>1, <2>2, CloseHalts
  <2>4. DoTheRest(s) = t
    BY <1>2, <1>7, <2>1 DEF x
  <2> HIDE DEF t
  <2>5. Gone(t)
    BY <2>1, <2>3 DEF Gone, Halts
  <2> QED
    BY <2>1, <2>3, <2>4, <2>5, HaltsTwice
<1>8. CASE s.pipe.action = "signal"
  <2> DEFINE x == Await(allowed)
             b == AbortIfWritable(x)
             t == CancelIfReadable(b)
  <2>1. /\ Good(x) /\ Loops(x) /\ Plan(x) /\ Facts(x) /\ Steady(x, s)
        /\ ~ Has(x.jobs, {"acted"}) /\ x.pipe.parts = allowed
        /\ Halts(x, s, a, n, p, m, prog) /\ Drive(x, a, n, p, m, prog)
    BY <1>3, <1>8
  <2> HIDE DEF x
  <2>2. x.pipe.action = "signal" /\ x.pipe.lock = "held" /\ x.pipe.shuttingDown
    BY <1>8, <2>1 DEF Steady
  <2>3. Plan(b) /\ Steady(b, x)
    BY <2>1, <2>2, AbortIfEnds
  <2>4. Loops(b) /\ Good(b)
    BY <2>1, AbortIfOnward, AbortIfGood DEF Onward
  <2>5. Halts(b, x, a, n, p, m, prog)
    BY <2>1, <2>2, AbortIfHalts
  <2> HIDE DEF b
  <2>6. b.pipe.shuttingDown /\ b.pipe.action = "signal" /\ Drive(b, a, n, p, m, prog)
    BY <2>2, <2>3, <2>5 DEF Steady, Halts
  <2>7. Halts(t, b, a, n, p, m, prog)
    BY <2>3, <2>4, <2>6, CancelIfHalts
  <2> HIDE DEF t
  <2>8. Halts(b, s, a, n, p, m, prog)
    BY <2>1, <2>5, HaltsTwice
  <2>9. Halts(t, s, a, n, p, m, prog)
    BY <2>7, <2>8, HaltsTwice
  <2>10. DoTheRest(s) = t
    BY <1>1, <1>2, <1>8 DEF t, b, x
  <2>11. Gone(t)
    BY <1>1, <2>1, <2>5, <2>7 DEF Gone, Halts
  <2> QED
    BY <2>9, <2>10, <2>11
<1> QED
  BY <1>1, <1>5, <1>6, <1>7, <1>8 DEF Actions

\* The wait for the writes.
LEMMA WaitHalts ==
  ASSUME NEW s, Loops(s), Plan(s), NEW a, NEW n, NEW p, NEW m, NEW prog,
         Drive(s, a, n, p, m, prog)
  PROVE  Halts(WaitForWritesToFinish(s), s, a, n, p, m, prog)
<1>1. /\ Runs(s, a, n, p, m, prog) /\ Turn(s)
  BY DEF Drive, Loops
<1>2. CASE s.pipe.currentDone
  <2> DEFINE j == [kind |-> "waited", arg |-> s.pipe.currentWrite, hops |-> 0]
  <2>1. j.kind = "waited" /\ j.arg = s.pipe.currentWrite
    OBVIOUS
  <2> HIDE DEF j
  <2>2. Takes(s.dest) => j.arg \in Before(n) \cup {NoWrite}
    BY <1>1, <2>1 DEF Runs, Before
  <2>3. Knows(j, s, a, n, p, m, prog) /\ ~ Mine(j)
    BY <1>2, <2>1, <2>2 DEF Knows, Mine
  <2>4. Halts(Queue(s, "waited", s.pipe.currentWrite, 0), s, a, n, p, m, prog)
    BY <2>3, QueueHalts DEF j
  <2> QED
    BY <1>2, <2>4 DEF WaitForWritesToFinish
<1>3. CASE ~ s.pipe.currentDone
  <2> DEFINE t == [s EXCEPT !.pipe.waitsOn = s.pipe.currentWrite]
  <2>1. /\ Calm(t, s) /\ t.source = s.source /\ t.dest = s.dest /\ t.jobs = s.jobs
        /\ t.pipe.outcome = s.pipe.outcome /\ t.pipe.currentDone = s.pipe.currentDone
        /\ t.pipe.parts = s.pipe.parts
    BY <1>1, PipeFields DEF Turn, Calm
  <2> HIDE DEF t
  <2>2. Takes(s.dest) /\ t.pipe.currentDone => a = n
    BY <1>1, <2>1 DEF Runs
  <2>3. Gone(s) => Gone(t)
    BY <2>1 DEF Gone, Calm
  <2>4. s.pipe.action = "close" => t.pipe.parts \subseteq {"close"}
    BY <1>1, <2>1 DEF Runs
  <2>5. Halts(t, s, a, n, p, m, prog)
    BY <2>1, <2>2, <2>3, <2>4, CalmHalts
  <2> QED
    BY <1>3, <2>5 DEF WaitForWritesToFinish, t
<1> QED
  BY <1>2, <1>3

\* The pipe begins to shut down.
LEMMA StartHalts ==
  ASSUME NEW s, Loops(s), Plan(s), s.pipe.lock = "held", NEW a, NEW n, NEW p, NEW m, NEW prog,
         Drive(s, a, n, p, m, prog), ~ s.pipe.shuttingDown, NEW action, NEW isError,
         IF action = "close" THEN s.source.state = "closed" ELSE isError
  PROVE  LET v == [s EXCEPT !.pipe.shuttingDown = TRUE, !.pipe.action = action,
                            !.pipe.isError = isError]
         IN  Halts(v, s, a, n, p, m, prog)
<1> DEFINE v == [s EXCEPT !.pipe.shuttingDown = TRUE, !.pipe.action = action,
                          !.pipe.isError = isError]
<1>1. /\ Runs(s, a, n, p, m, prog) /\ Turn(s) /\ Order(s.dest, a, n)
  BY DEF Drive, Loops
<1>2. /\ v.jobs = s.jobs /\ v.source = s.source /\ v.dest = s.dest
      /\ v.pipe.parts = s.pipe.parts /\ v.pipe.lock = s.pipe.lock
      /\ v.pipe.shuttingDown = TRUE /\ v.pipe.action = action /\ v.pipe.isError = isError
      /\ v.pipe.currentWrite = s.pipe.currentWrite /\ v.pipe.currentDone = s.pipe.currentDone
      /\ v.pipe.outcome = s.pipe.outcome
  BY <1>1, PipeFields DEF Turn
<1> HIDE DEF v
<1>3. ~ Ending(s)
  BY DEF Plan
<1>4. /\ s.pipe.parts = {}
      /\ \A i \in 1 .. Len(s.jobs) : s.jobs[i].kind \notin EndKinds
  BY <1>3 DEF Ending, Has
<1>5. Reliable(v) <=> Reliable(s)
  BY <1>2 DEF Reliable
<1>6. Reliable(v) => Supply(v, n, p, m, prog)
  <2>1. Whole(v, prog) => Whole(s, prog)
    BY <1>2 DEF Whole
  <2>2. Reliable(v) => Supply(s, n, p, m, prog)
    BY <1>1, <1>5 DEF Runs
  <2> QED
    BY <1>2, <2>1, <2>2 DEF Supply
<1>7. ASSUME NEW i \in 1 .. Len(v.jobs)
      PROVE  Knows(v.jobs[i], v, a, n, p, m, prog) /\ v.jobs[i].kind # "waited"
  <2>1. /\ v.jobs[i] = s.jobs[i] /\ s.jobs[i].kind \notin EndKinds
        /\ Knows(s.jobs[i], s, a, n, p, m, prog)
    BY <1>1, <1>2, <1>4, <1>7 DEF Runs
  <2>2. s.jobs[i].kind \notin {"waited", "rest", "acted"}
    BY <2>1 DEF EndKinds
  <2> QED
    BY <1>2, <1>5, <2>1, <2>2 DEF Knows
<1>8. v.pipe.action = "close" =>
        v.source.state = "closed" /\ v.pipe.parts \subseteq {"close"} /\ WaitsLast(v.jobs)
  BY <1>2, <1>4, <1>7 DEF WaitsLast
<1>9. v.pipe.shuttingDown /\ v.pipe.action # "close" => v.pipe.isError
  BY <1>2
<1>10. Runs(v, a, n, p, m, prog)
  BY <1>1, <1>2, <1>6, <1>7, <1>8, <1>9 DEF Runs
<1>11. Pending(s, n, p) => Pending(v, n, p)
  BY <1>2, <1>5 DEF Pending
<1>12. Gone(s) => Gone(v)
  BY <1>2 DEF Gone
<1>13. Halts(v, s, a, n, p, m, prog)
  BY <1>1, <1>2, <1>10, <1>11, <1>12 DEF Halts, Drive
<1> QED
  BY <1>13 DEF v

\* A sink that has ended when the pipe ends is passed on to the source at once.
Late(s) == s.pipe.shuttingDown /\ Ended(s.dest) => Gone(s)

\* The pipe ends, unless it may not or has ended before.
Stops(t, s, a, n, p, m, prog) == Halts(t, s, a, n, p, m, prog) /\ (Late(s) => Late(t))

\* A shutdown with an action, now or after the last write.
LEMMA WithActionHalts ==
  ASSUME NEW s, Good(s), Loops(s), Plan(s), Facts(s), s.pipe.lock = "held",
         NEW action \in Actions, NEW isError, NEW a, NEW n, NEW p, NEW m, NEW prog,
         Drive(s, a, n, p, m, prog),
         ~ s.pipe.shuttingDown =>
           /\ action \in {"abort", "close"} => s.source.state # "readable"
           /\ action = "cancel" => ~ Takes(s.dest)
           /\ IF action = "close" THEN s.source.state = "closed" ELSE isError
           /\ action = "close" /\ Ended(s.dest) =>
                "close" \in prog /\ (a = m \/ "cancel" \in prog)
  PROVE  LET t == ShutdownWithAction(s, action, isError)
         IN  Stops(t, s, a, n, p, m, prog) /\ t.pipe.shuttingDown
<1> DEFINE v == [s EXCEPT !.pipe.shuttingDown = TRUE, !.pipe.action = action,
                          !.pipe.isError = isError]
<1>1. ShutdownWithAction(s, action, isError) =
        IF s.pipe.shuttingDown THEN s
        ELSE IF DestTakesWrites(v) THEN WaitForWritesToFinish(v) ELSE DoTheRest(v)
  BY DEF ShutdownWithAction
<1>2. CASE s.pipe.shuttingDown
  BY <1>1, <1>2, HaltsSelf DEF Stops
<1>3. CASE ~ s.pipe.shuttingDown
  <2>1. Good(v) /\ Loops(v)
    BY ClosureSame, ClosureOnward, SameFits DEF Good, Onward
  <2>2. /\ v.jobs = s.jobs /\ v.source = s.source /\ v.dest = s.dest
        /\ v.pipe.parts = s.pipe.parts /\ v.pipe.waitsOn = s.pipe.waitsOn
        /\ v.pipe.lock = s.pipe.lock /\ v.pipe.shuttingDown = TRUE /\ v.pipe.action = action
        /\ v.pipe.asserts = s.pipe.asserts /\ v.pipe.options = s.pipe.options
    BY PipeFields DEF Loops, Turn
  <2>0. Halts(v, s, a, n, p, m, prog)
    BY <1>3, StartHalts
  <2> HIDE DEF v
  <2>3. ~ Ending(s) /\ ~ Has(s.jobs, {"part"})
    BY <1>3 DEF Plan
  <2>4. ~ Ending(v)
    BY <2>2, <2>3 DEF Ending
  <2>5. Plan(v)
    BY <2>2, <2>3, <2>4 DEF Plan
  <2>6. ~ Stuck(s.dest)
    BY <2>3 DEF Facts, Ending
  <2>7. Facts(v)
    BY <1>3, <2>2, <2>6 DEF Facts
  <2>8. Drive(v, a, n, p, m, prog)
    BY <2>0 DEF Halts
  <2> DEFINE x == WaitForWritesToFinish(v)
             y == DoTheRest(v)
  <2>9. Halts(x, v, a, n, p, m, prog)
    BY <2>1, <2>5, <2>8, WaitHalts
  <2>10. ~ DestTakesWrites(v) => Halts(y, v, a, n, p, m, prog) /\ Gone(y)
    <3>1. SUFFICES ASSUME ~ DestTakesWrites(v)
                   PROVE  Halts(y, v, a, n, p, m, prog) /\ Gone(y)
      OBVIOUS
    <3>2. ~ Takes(v.dest)
      BY <3>1 DEF DestTakesWrites, Takes
    <3>3. v.pipe.action = "close" => Excused(v, a, n, p, m, prog)
      BY <1>3, <2>2, <3>2 DEF Excused
    <3> QED
      BY <2>1, <2>2, <2>4, <2>5, <2>7, <2>8, <3>3, DoTheRestHalts
  <2> HIDE DEF x, y
  <2>11. ShutdownWithAction(s, action, isError) = IF DestTakesWrites(v) THEN x ELSE y
    BY <1>1, <1>3 DEF x, y
  <2> DEFINE t == IF DestTakesWrites(v) THEN x ELSE y
  <2>12. Halts(t, v, a, n, p, m, prog)
    BY <2>9, <2>10
  <2>13. Late(t)
    <3>1. DestTakesWrites(v) => ~ Ended(v.dest)
      BY DEF DestTakesWrites, Ended
    <3>2. DestTakesWrites(v) => t.dest = v.dest
      <4>1. x.dest = v.dest
        BY <2>1, WaitSame DEF x, Same, Good
      <4> QED
        BY <4>1
    <3>3. ~ DestTakesWrites(v) => Gone(t)
      BY <2>10
    <3> QED
      BY <3>1, <3>2, <3>3 DEF Late
  <2>14. t.pipe.shuttingDown
    BY <2>2, <2>12 DEF Halts
  <2> HIDE DEF t
  <2>15. Stops(t, s, a, n, p, m, prog)
    BY <2>0, <2>12, <2>13, HaltsTwice DEF Stops
  <2> QED
    BY <2>11, <2>14, <2>15 DEF t
<1> QED
  BY <1>2, <1>3

\* The pipe learns that a stream has ended.
LEMMA EndsHalt ==
  ASSUME NEW s, Good(s), Loops(s), Sure(s), s.pipe.lock # "idle",
         NEW a, NEW n, NEW p, NEW m, NEW prog, Drive(s, a, n, p, m, prog)
  PROVE  /\ s.source.state # "readable" =>
              Stops(SourceErrored(s), s, a, n, p, m, prog) /\ SourceErrored(s).pipe.shuttingDown
         /\ ~ Takes(s.dest) =>
              Stops(DestErrored(s), s, a, n, p, m, prog) /\ DestErrored(s).pipe.shuttingDown
         /\ /\ s.source.state = "closed"
            /\ ~ s.pipe.shuttingDown /\ Ended(s.dest) =>
                 "close" \in prog /\ (a = m \/ "cancel" \in prog)
            => Stops(SourceClosed(s), s, a, n, p, m, prog)
         /\ s.pipe.lock = "held" =>
              Halts(ShutdownWithAction(s, "signal", TRUE), s, a, n, p, m, prog)
<1>1. "preventAbort" \notin s.pipe.options /\ "preventCancel" \notin s.pipe.options
  BY DEF Sure, Plan
<1>2. /\ SourceErrored(s) = ShutdownWithAction(s, "abort", TRUE)
      /\ DestErrored(s) = ShutdownWithAction(s, "cancel", TRUE)
      /\ SourceClosed(s) \in {s, ShutdownWithAction(s, "close", FALSE)}
  BY <1>1 DEF SourceErrored, DestErrored, SourceClosed, End
<1>3. Halts(s, s, a, n, p, m, prog) /\ Stops(s, s, a, n, p, m, prog)
  BY HaltsSelf DEF Stops
<1>4. CASE s.pipe.lock # "held"
  <2>1. s.pipe.shuttingDown
    BY <1>4 DEF Good, Locks, Sure, Plan
  <2>2. \A action, isError : ShutdownWithAction(s, action, isError) = s
    BY <2>1 DEF ShutdownWithAction
  <2> QED
    BY <1>2, <1>3, <1>4, <2>1, <2>2
<1>5. CASE s.pipe.lock = "held"
  <2>1. ASSUME NEW action \in Actions, NEW isError,
               ~ s.pipe.shuttingDown =>
                 /\ action \in {"abort", "close"} => s.source.state # "readable"
                 /\ action = "cancel" => ~ Takes(s.dest)
                 /\ IF action = "close" THEN s.source.state = "closed" ELSE isError
                 /\ action = "close" /\ Ended(s.dest) =>
                      "close" \in prog /\ (a = m \/ "cancel" \in prog)
        PROVE  /\ Stops(ShutdownWithAction(s, action, isError), s, a, n, p, m, prog)
               /\ ShutdownWithAction(s, action, isError).pipe.shuttingDown
    BY <1>5, <2>1, WithActionHalts DEF Sure
  <2>2. {"abort", "cancel", "close", "signal"} = Actions
    BY DEF Actions
  <2>3. s.source.state # "readable" =>
          /\ Stops(ShutdownWithAction(s, "abort", TRUE), s, a, n, p, m, prog)
          /\ ShutdownWithAction(s, "abort", TRUE).pipe.shuttingDown
    BY <2>1, <2>2
  <2>4. ~ Takes(s.dest) =>
          /\ Stops(ShutdownWithAction(s, "cancel", TRUE), s, a, n, p, m, prog)
          /\ ShutdownWithAction(s, "cancel", TRUE).pipe.shuttingDown
    BY <2>1, <2>2
  <2>5. Halts(ShutdownWithAction(s, "signal", TRUE), s, a, n, p, m, prog)
    BY <2>1, <2>2 DEF Stops
  <2>6. /\ s.source.state = "closed"
        /\ ~ s.pipe.shuttingDown /\ Ended(s.dest) =>
             "close" \in prog /\ (a = m \/ "cancel" \in prog)
        => Stops(ShutdownWithAction(s, "close", FALSE), s, a, n, p, m, prog)
    BY <2>1, <2>2
  <2> QED
    BY <1>2, <1>3, <2>3, <2>4, <2>5, <2>6
<1> QED
  BY <1>4, <1>5

\* The next turn of the loop.
LEMMA StepHalts ==
  ASSUME NEW s, Loops(s), Plan(s), NEW a, NEW n, NEW p, NEW m, NEW prog,
         Drive(s, a, n, p, m, prog)
  PROVE  Halts(PipeStep(s), s, a, n, p, m, prog)
<1>1. Runs(s, a, n, p, m, prog) /\ Turn(s)
  BY DEF Drive, Loops
<1>2. Halts(s, s, a, n, p, m, prog)
  BY HaltsSelf
<1>3. Halts(Queue(s, "read", NoWrite, 0), s, a, n, p, m, prog)
  <2> DEFINE j == [kind |-> "read", arg |-> NoWrite, hops |-> 0]
  <2>1. j.kind \in PlainKinds
    BY DEF PlainKinds
  <2>2. Knows(j, s, a, n, p, m, prog) /\ ~ Mine(j)
    BY <2>1, PlainKnows
  <2> QED
    BY <2>2, QueueHalts
<1>4. Halts([s EXCEPT !.pipe.waitsReady = TRUE], s, a, n, p, m, prog)
  <2> DEFINE t == [s EXCEPT !.pipe.waitsReady = TRUE]
  <2>1. /\ Calm(t, s) /\ t.source = s.source /\ t.dest = s.dest /\ t.jobs = s.jobs
        /\ t.pipe.outcome = s.pipe.outcome /\ t.pipe.currentDone = s.pipe.currentDone
        /\ t.pipe.parts = s.pipe.parts
    BY <1>1, PipeFields DEF Turn, Calm
  <2> HIDE DEF t
  <2>2. Takes(s.dest) /\ t.pipe.currentDone => a = n
    BY <1>1, <2>1 DEF Runs
  <2>3. Gone(s) => Gone(t)
    BY <2>1 DEF Gone, Calm
  <2>4. s.pipe.action = "close" => t.pipe.parts \subseteq {"close"}
    BY <1>1, <2>1 DEF Runs
  <2>5. Halts(t, s, a, n, p, m, prog)
    BY <2>1, <2>2, <2>3, <2>4, CalmHalts
  <2> QED
    BY <2>5 DEF t
<1> QED
  BY <1>2, <1>3, <1>4 DEF PipeStep

\* A write of the pipe is over.
LEMMA WrittenHalts ==
  ASSUME NEW s, Loops(s), Plan(s), NEW a, NEW n, NEW p, NEW m, NEW prog,
         Drive(s, a, n, p, m, prog), NEW chunk,
         Takes(s.dest) =>
           chunk \in Before(n) /\ (chunk = s.pipe.currentWrite => a = n)
  PROVE  Halts(Written(s, chunk), s, a, n, p, m, prog)
<1> DEFINE done == s.pipe.currentDone \/ chunk = s.pipe.currentWrite
           v == [s EXCEPT !.pipe.currentDone = done]
           u == [v EXCEPT !.pipe.waitsOn = NoWrite]
           t == Queue(u, "waited", chunk, 0)
           j == [kind |-> "waited", arg |-> chunk, hops |-> 0]
<1>1. Runs(s, a, n, p, m, prog) /\ Turn(s)
  BY DEF Drive, Loops
<1>2. /\ Calm(v, s) /\ v.source = s.source /\ v.dest = s.dest /\ v.jobs = s.jobs
      /\ v.pipe.outcome = s.pipe.outcome /\ v.pipe.currentDone = done
      /\ v.pipe.parts = s.pipe.parts
  BY <1>1, PipeFields DEF Turn, Calm
<1>3. /\ Calm(u, s) /\ u.source = s.source /\ u.dest = s.dest /\ u.jobs = s.jobs
      /\ u.pipe.outcome = s.pipe.outcome /\ u.pipe.currentDone = done
      /\ u.pipe.parts = s.pipe.parts
  BY <1>1, PipeFields DEF Turn, Calm
<1>4. Turn(u)
  BY <1>1, PipeFields DEF Turn
<1> HIDE DEF v, u
<1>5. /\ t.jobs = Append(u.jobs, j) /\ t.pipe = u.pipe
      /\ t.source = u.source /\ t.dest = u.dest
  BY <1>4, QueueIs DEF Turn
<1>6. j.kind = "waited" /\ j.arg = chunk
  OBVIOUS
<1> HIDE DEF t, j
<1>7. /\ s.pipe.currentDone => done
      /\ Takes(s.dest) /\ done => a = n
  BY <1>1 DEF Runs
<1>8. Written(s, chunk) \in {v, t}
  <2>1. Written(s, chunk) = IF v.pipe.waitsOn # chunk THEN v ELSE t
    BY DEF Written, v, u, t
  <2> QED
    BY <2>1
<1>9. s.pipe.action = "close" => s.pipe.parts \subseteq {"close"}
  BY <1>1 DEF Runs
<1>10. Halts(v, s, a, n, p, m, prog)
  <2>1. Gone(s) => Gone(v)
    BY <1>2 DEF Gone, Calm
  <2> QED
    BY <1>2, <1>7, <1>9, <2>1, CalmHalts
<1>11. Halts(t, s, a, n, p, m, prog)
  <2>1. Calm(t, s) /\ t.source = s.source /\ t.dest = s.dest
    BY <1>3, <1>5 DEF Calm
  <2>2. t.pipe.currentWrite = s.pipe.currentWrite
    BY <2>1 DEF Calm
  <2>3. Knows(j, t, a, n, p, m, prog) /\ ~ Mine(j)
    BY <1>3, <1>5, <1>6, <2>1, <2>2 DEF Knows, Mine
  <2>4. Gone(s) => Gone(t)
    <3>1. Has(s.jobs, {"acted"}) => Has(t.jobs, {"acted"})
      BY <1>3, <1>5, LongerHas DEF Loops
    <3> QED
      BY <1>3, <1>5, <2>1, <3>1 DEF Gone, Calm
  <2> QED
    BY <1>3, <1>5, <1>7, <1>9, <2>1, <2>3, <2>4, CalmHalts
<1> QED
  BY <1>8, <1>10, <1>11

\* The wait for a write is over, and is not over when there was another one.
LEMMA WaitedHalts ==
  ASSUME NEW s, Loops(s), Plan(s), NEW a, NEW n, NEW p, NEW m, NEW prog,
         Drive(s, a, n, p, m, prog), Pending(s, n, p), NEW old,
         Takes(s.dest) /\ old = s.pipe.currentWrite => s.pipe.currentDone,
         s.pipe.action = "close" => ~ HasMine(s.jobs)
  PROVE  Halts(Waited(s, old), s, a, n, p, m, prog)
<1>1. Runs(s, a, n, p, m, prog) /\ Turn(s)
  BY DEF Drive, Loops
<1>2. CASE old # s.pipe.currentWrite
  <2> DEFINE more == s.pipe.depth + 1
             d == [s EXCEPT !.pipe.depth = more]
  <2>1. /\ Calm(d, s) /\ d.source = s.source /\ d.dest = s.dest /\ d.jobs = s.jobs
        /\ d.pipe.outcome = s.pipe.outcome /\ d.pipe.currentDone = s.pipe.currentDone
        /\ d.pipe.parts = s.pipe.parts /\ Steady(d, s)
    BY <1>1, PipeFields DEF Turn, Calm, Steady
  <2>2. Loops(d)
    BY ClosureOnward DEF Onward
  <2>3. WaitForWritesToFinish(d) = Waited(s, old)
    BY <1>2 DEF Waited
  <2> HIDE DEF d
  <2>4. Takes(s.dest) /\ d.pipe.currentDone => a = n
    BY <1>1, <2>1 DEF Runs
  <2>5. Gone(s) => Gone(d)
    BY <2>1 DEF Gone, Calm
  <2>6. s.pipe.action = "close" => d.pipe.parts \subseteq {"close"}
    BY <1>1, <2>1 DEF Runs
  <2>7. Halts(d, s, a, n, p, m, prog)
    BY <2>1, <2>4, <2>5, <2>6, CalmHalts
  <2>8. Plan(d) /\ Drive(d, a, n, p, m, prog)
    BY <2>1, <2>7, SamePlan DEF Halts
  <2>9. Halts(WaitForWritesToFinish(d), d, a, n, p, m, prog)
    BY <2>2, <2>8, WaitHalts
  <2> QED
    BY <2>3, <2>7, <2>9, HaltsTwice
<1>3. CASE old = s.pipe.currentWrite
  <2> DEFINE j == [kind |-> "rest", arg |-> NoWrite, hops |-> s.pipe.depth]
  <2>1. j.kind = "rest"
    OBVIOUS
  <2>2. Waited(s, old) = Queue(s, "rest", NoWrite, s.pipe.depth)
    BY <1>3 DEF Waited
  <2> HIDE DEF j
  <2>3. Takes(s.dest) /\ s.pipe.action = "close" => s.pipe.currentDone /\ p = n
    BY <1>3 DEF Pending, Reliable, Takes, Keeps
  <2>4. Knows(j, s, a, n, p, m, prog) /\ ~ Mine(j)
    BY <2>1, <2>3 DEF Knows, Mine
  <2>5. Halts(Queue(s, "rest", NoWrite, s.pipe.depth), s, a, n, p, m, prog)
    BY <2>4, QueueHalts DEF j
  <2> QED
    BY <2>2, <2>5
<1> QED
  BY <1>2, <1>3

\* One of the promises of an abort signal's action settles.
LEMMA PartOfAllHalts ==
  ASSUME NEW s, Loops(s), Plan(s), NEW a, NEW n, NEW p, NEW m, NEW prog,
         Drive(s, a, n, p, m, prog), s.pipe.action = "signal", s.pipe.shuttingDown,
         NEW part, NEW how
  PROVE  Halts(PartOfAll(s, part, how), s, a, n, p, m, prog)
<1> DEFINE left == IF how = "rejected" THEN {} ELSE s.pipe.parts \ {part}
           v == [s EXCEPT !.pipe.parts = left]
           t == Queue(v, "acted", how, 0)
           j == [kind |-> "acted", arg |-> how, hops |-> 0]
<1>1. Runs(s, a, n, p, m, prog) /\ Turn(s) /\ Line(s.jobs)
  BY DEF Drive, Loops
<1>2. /\ Calm(v, s) /\ v.source = s.source /\ v.dest = s.dest /\ v.jobs = s.jobs
      /\ v.pipe.outcome = s.pipe.outcome /\ v.pipe.currentDone = s.pipe.currentDone
      /\ v.pipe.parts = left /\ Turn(v)
  BY <1>1, PipeFields DEF Turn, Calm
<1>3. PartOfAll(s, part, how) = IF part \notin s.pipe.parts THEN s ELSE IF left = {} THEN t ELSE v
  BY DEF PartOfAll
<1> HIDE DEF v, left
<1>4. /\ t.jobs = Append(v.jobs, j) /\ t.pipe = v.pipe
      /\ t.source = v.source /\ t.dest = v.dest /\ j.kind = "acted"
  BY <1>2, QueueIs DEF Turn
<1> HIDE DEF t, j
<1>5. Takes(s.dest) /\ s.pipe.currentDone => a = n
  BY <1>1 DEF Runs
<1>6. s.pipe.isError
  BY <1>1 DEF Runs
<1>7. Halts(s, s, a, n, p, m, prog)
  BY HaltsSelf
<1>8. left # {} => Halts(v, s, a, n, p, m, prog)
  <2>1. left # {} => Gone(v)
    BY <1>2 DEF Gone
  <2> QED
    BY <1>2, <1>5, <2>1, CalmHalts
<1>9. Halts(t, s, a, n, p, m, prog)
  <2>1. Calm(t, s) /\ t.source = s.source /\ t.dest = s.dest
    BY <1>2, <1>4 DEF Calm
  <2>2. t.pipe.isError
    BY <1>6, <2>1 DEF Calm
  <2>3. Knows(j, t, a, n, p, m, prog) /\ ~ Mine(j)
    BY <1>4, <2>2 DEF Knows, Mine
  <2>4. Gone(t)
    <3>1. Has(t.jobs, {"acted"})
      BY <1>1, <1>2, <1>4, LongerHas
    <3> QED
      BY <3>1 DEF Gone
  <2> QED
    BY <1>2, <1>4, <1>5, <2>1, <2>3, <2>4, CalmHalts
<1> QED
  BY <1>3, <1>7, <1>8, <1>9

-----------------------------------------------------------------------------
(* The microtasks.                                                         *)

\* What a job finds when it is taken from the queue.
Taken(s, job, a, n, p, m, prog) ==
  /\ Good(s) /\ Loops(s) /\ Sure(s) /\ Due(s, job)
  /\ Drive(s, a, n, p, m, prog) /\ Knows(job, s, a, n, p, m, prog)
  /\ ~ Mine(job) => Pending(s, n, p)
  /\ job.kind # "acted" => Shut(s, prog)
  /\ job.kind = "waited" /\ s.pipe.action = "close" => ~ HasMine(s.jobs)
  /\ job.kind \in LoopKinds => Quiet(s) /\ s.pipe.lock # "idle"
  /\ job.kind \in RoomKinds /\ s.pipe.lock = "held" => Room(s.dest)

\* A turn after which everything goes on as before, and no chunk has moved.
Rests(t, s, a, n, p, m, prog) ==
  /\ Flow(t, a, n, p, m, prog)
  /\ Takes(t.dest) => Takes(s.dest)
  /\ t.pipe.outcome = s.pipe.outcome

\* A job with more turns to come is queued again.
LEMMA RequeueRests ==
  ASSUME NEW s, NEW job, NEW a, NEW n, NEW p, NEW m, NEW prog,
         Taken(s, job, a, n, p, m, prog), job.hops > 0, NEW less
  PROVE  Rests(Queue(s, job.kind, job.arg, less), s, a, n, p, m, prog)
<1> DEFINE j == [kind |-> job.kind, arg |-> job.arg, hops |-> less]
           t == Queue(s, job.kind, job.arg, less)
<1>1. /\ Turn(s) /\ Line(s.jobs) /\ Plan(s) /\ Sound(job) /\ Runs(s, a, n, p, m, prog)
      /\ Order(s.dest, a, n)
  BY DEF Taken, Loops, Sure, Due, Drive
<1>2. j.kind = job.kind /\ j.arg = job.arg
  OBVIOUS
<1>3. ~ Mine(job)
  BY <1>1 DEF Mine, Sound, RoomKinds
<1> HIDE DEF j
<1>4. Knows(j, s, a, n, p, m, prog) /\ ~ Mine(j)
  BY <1>2, <1>3 DEF Taken, Knows, Mine
<1>5. /\ Runs(t, a, n, p, m, prog) /\ Same4(t, s) /\ t.dest = s.dest
      /\ Pending(s, n, p) => Pending(t, n, p)
      /\ Shut(s, prog) => Shut(t, prog)
      /\ job.kind = "acted" => Gone(t)
  BY <1>1, <1>4, QueueRuns DEF j
<1> HIDE DEF t
<1>6. Pending(t, n, p) /\ Shut(t, prog)
  BY <1>3, <1>5 DEF Taken, Shut
<1>7. Rests(t, s, a, n, p, m, prog)
  BY <1>1, <1>5, <1>6 DEF Rests, Flow, Drive, Same4
<1> QED
  BY <1>7 DEF t

\* Every other job that takes no chunk further and does not settle the pipe.
LEMMA OtherRests ==
  ASSUME NEW s, NEW job, NEW a, NEW n, NEW p, NEW m, NEW prog,
         Taken(s, job, a, n, p, m, prog), ~ (job.hops > 0),
         job.kind # "read", ~ Mine(job), job.kind # "acted"
  PROVE  Rests(Perform(s, job), s, a, n, p, m, prog)
<1>1. /\ Good(s) /\ Loops(s) /\ Sure(s) /\ Plan(s) /\ Facts(s) /\ Due(s, job)
      /\ Drive(s, a, n, p, m, prog) /\ Knows(job, s, a, n, p, m, prog)
      /\ Runs(s, a, n, p, m, prog) /\ Pending(s, n, p) /\ Shut(s, prog)
  BY DEF Taken, Sure, Drive
<1>2. ASSUME ~ Ending(s), s.pipe.lock # "idle",
             s.pipe.lock = "released" => s.pipe.shuttingDown,
             s.pipe.lock = "held" \/ ~ s.pipe.shuttingDown
      PROVE  ~ Ended(s.dest)
  <2>1. ~ Gone(s)
    BY <1>2 DEF Gone, Ending, Has, EndKinds
  <2> QED
    BY <1>1, <1>2, <2>1 DEF Shut
<1>3. job.kind \in EndKinds => ~ Ending(s) /\ s.pipe.lock = "held" /\ s.pipe.shuttingDown
  BY <1>1 DEF Due
<1>4. job.kind = "chunk" => Halts(WriteChunk(s, job.arg), s, a, n, p, m, prog)
  <2>1. job.kind = "chunk" => WriteChunk(s, job.arg) = s
    BY DEF Mine, WriteChunk, Ours
  <2> QED
    BY <1>1, <2>1, HaltsSelf
<1>5. job.kind = "next" => Halts(PipeStep(s), s, a, n, p, m, prog)
  BY <1>1, StepHalts
<1>6. job.kind = "written" => Halts(Written(s, job.arg), s, a, n, p, m, prog)
  <2>1. job.kind = "written" /\ Takes(s.dest) =>
          job.arg \in Before(n) /\ (job.arg = s.pipe.currentWrite => a = n)
    BY <1>1 DEF Knows
  <2> QED
    BY <1>1, <2>1, WrittenHalts
<1>7. job.kind = "waited" => Halts(Waited(s, job.arg), s, a, n, p, m, prog)
  <2>1. job.kind = "waited" =>
          /\ Takes(s.dest) /\ job.arg = s.pipe.currentWrite => s.pipe.currentDone
          /\ s.pipe.action = "close" => ~ HasMine(s.jobs)
    BY <1>1 DEF Knows, Taken
  <2> QED
    BY <1>1, <2>1, WaitedHalts
<1>8. job.kind = "rest" => Halts(DoTheRest(s), s, a, n, p, m, prog)
  <2>1. SUFFICES ASSUME job.kind = "rest"
                 PROVE  Halts(DoTheRest(s), s, a, n, p, m, prog)
    OBVIOUS
  <2>2. ~ Ending(s) /\ s.pipe.lock = "held" /\ s.pipe.shuttingDown
    BY <1>3, <2>1 DEF EndKinds
  <2>3. ~ Ended(s.dest)
    BY <1>2, <2>2
  <2>4. s.pipe.action = "close" => Excused(s, a, n, p, m, prog)
    BY <1>1, <2>1, <2>3 DEF Knows, Excused, Runs
  <2> QED
    BY <1>1, <2>2, <2>4, DoTheRestHalts
<1>9. job.kind = "part" => Halts(PartOfAll(s, job.arg[1], job.arg[2]), s, a, n, p, m, prog)
  BY <1>1, PartOfAllHalts DEF Due
<1>10. job.kind = "sourceErrored" => Halts(SourceErrored(s), s, a, n, p, m, prog)
  BY <1>1, EndsHalt DEF Due, SourceKinds, Stops
<1>11. job.kind = "destErrored" => Halts(DestErrored(s), s, a, n, p, m, prog)
  BY <1>1, EndsHalt DEF Due, Stops
<1>12. job.kind = "sourceClosed" => Halts(SourceClosed(s), s, a, n, p, m, prog)
  <2>1. SUFFICES ASSUME job.kind = "sourceClosed"
                 PROVE  Halts(SourceClosed(s), s, a, n, p, m, prog)
    OBVIOUS
  <2>2. s.pipe.lock # "idle" /\ s.source.state = "closed"
    BY <1>1, <2>1 DEF Due, SourceKinds, Knows
  <2>3. ~ s.pipe.shuttingDown => ~ Ended(s.dest)
    BY <1>1, <1>2, <2>2 DEF Plan
  <2> QED
    BY <1>1, <2>2, <2>3, EndsHalt DEF Stops
<1>13. job.kind \in Kinds
  BY <1>1 DEF Due, Sound
<1>14. Halts(Perform(s, job), s, a, n, p, m, prog)
  BY <1>4, <1>5, <1>6, <1>7, <1>8, <1>9, <1>10, <1>11, <1>12, <1>13
     DEF Perform, Kinds, EndKinds, SourceKinds
<1> HIDE DEF Perform
<1>15. Flow(Perform(s, job), a, n, p, m, prog)
  BY <1>1, <1>14, HaltsShut
<1> QED
  BY <1>14, <1>15 DEF Rests, Halts

\* A turn, which may hand one chunk to the sink.
Steps(t, s, a, m, prog) ==
  /\ \E b, x, q : /\ Flow(t, b, x, q, m, prog)
                  /\ b = a \/ (b = a + 1 /\ Takes(s.dest) /\ Takes(t.dest))
  /\ Takes(t.dest) => Takes(s.dest)
  /\ t.pipe.outcome = s.pipe.outcome

\* A turn that hands over nothing is one.
LEMMA RestsStep ==
  ASSUME NEW t, NEW s, NEW a, NEW n, NEW p, NEW m, NEW prog, Rests(t, s, a, n, p, m, prog)
  PROVE  Steps(t, s, a, m, prog)
  BY DEF Rests, Steps

\* The chunk that was read becomes the one that is written.
LEMMA CurrentRuns ==
  ASSUME NEW s, Loops(s), Sure(s), Quiet(s), s.pipe.lock = "held",
         NEW a, NEW n, NEW p, NEW m, NEW prog, Drive(s, a, n, p, m, prog),
         NEW chunk \in Ours, Reliable(s) => p = n + 1 /\ chunk = Chunks[p]
  PROVE  LET v == [s EXCEPT !.pipe.currentWrite = chunk, !.pipe.currentDone = FALSE]
             x == IF Takes(s.dest) THEN n + 1 ELSE n
         IN  /\ Runs(v, a, x, p, m, prog)
             /\ Takes(s.dest) => p = x /\ n < Len(Chunks) /\ chunk = Chunks[n + 1]
             /\ Keeps(s.dest) => Takes(s.dest)
<1> DEFINE v == [s EXCEPT !.pipe.currentWrite = chunk, !.pipe.currentDone = FALSE]
           x == IF Takes(s.dest) THEN n + 1 ELSE n
<1>1. /\ v.jobs = s.jobs /\ v.source = s.source /\ v.dest = s.dest
      /\ v.pipe.lock = s.pipe.lock /\ v.pipe.shuttingDown = s.pipe.shuttingDown
      /\ v.pipe.action = s.pipe.action /\ v.pipe.isError = s.pipe.isError
      /\ v.pipe.parts = s.pipe.parts
      /\ v.pipe.currentWrite = chunk /\ v.pipe.currentDone = FALSE
  BY PipeFields DEF Loops, Turn
<1> HIDE DEF v
<1>2. /\ Runs(s, a, n, p, m, prog) /\ Order(s.dest, a, n) /\ Line(s.jobs)
      /\ a \in Nat /\ n \in Nat /\ p \in Nat /\ m \in Nat /\ m <= Len(Chunks)
      /\ Reliable(s) => Supply(s, n, p, m, prog)
  BY DEF Drive, Loops, Runs
<1>3. Takes(s.dest) => Keeps(s.dest)
  BY DEF Takes, Keeps
<1>4. Keeps(s.dest) <=> Reliable(s)
  BY DEF Reliable
<1>5. Len(s.source.queue) \in Nat
  <2>1. s.source.queue \in Seq(Ours)
    BY <1>2 DEF Runs, Stocked
  <2> QED
    BY <2>1
<1>6. Keeps(s.dest) => Takes(s.dest)
  <2>1. SUFFICES ASSUME Keeps(s.dest), ~ Takes(s.dest)
                 PROVE  FALSE
    OBVIOUS
  <2>2. p = n /\ p = n + 1
    BY <1>2, <1>4, <2>1 DEF Supply
  <2> QED
    BY <1>2, <2>2
<1>7. Len(Chunks) \in Nat
  BY ChunksAssumption
<1>8. Takes(s.dest) => p = n + 1 /\ x = n + 1 /\ p = x /\ n < Len(Chunks) /\ chunk = Chunks[n + 1]
  <2>1. SUFFICES ASSUME Takes(s.dest)
                 PROVE  p = n + 1 /\ n < Len(Chunks)
    BY <1>3, <1>4
  <2> DEFINE k == Len(s.source.queue)
             l == Len(Chunks)
  <2>2. p = n + 1 /\ p + k <= m
    BY <1>2, <1>3, <1>4, <2>1 DEF Supply
  <2>3. n \in Nat /\ m \in Nat /\ k \in Nat /\ l \in Nat /\ m <= l
    BY <1>2, <1>5, <1>7
  <2> HIDE DEF k, l, x
  <2>4. n + 1 + k <= m
    BY <2>2
  <2>5. n < l
    BY <2>3, <2>4
  <2> QED
    BY <2>2, <2>5 DEF l
<1>9. x \in Nat /\ (~ Takes(s.dest) => x = n)
  BY <1>2
<1> HIDE DEF x
<1>10. Reliable(v) <=> Reliable(s)
  BY <1>1 DEF Reliable
<1>11. Reliable(v) => Supply(v, x, p, m, prog)
  <2>1. SUFFICES ASSUME Reliable(v)
                 PROVE  Supply(v, x, p, m, prog)
    OBVIOUS
  <2>2. Takes(s.dest) /\ p = x /\ Supply(s, n, p, m, prog)
    BY <1>2, <1>4, <1>6, <1>8, <1>10, <2>1
  <2>3. Whole(v, prog) <=> Whole(s, prog)
    BY <1>1 DEF Whole
  <2>4. x <= p /\ p <= x + 1
    BY <1>2, <1>9, <2>2
  <2> QED
    BY <1>1, <2>2, <2>3, <2>4 DEF Supply
<1>12. \A c \in Before(n) : Takes(s.dest) => c # chunk
  <2>1. SUFFICES ASSUME NEW i \in 1 .. n, Takes(s.dest), Chunks[i] = chunk
                 PROVE  FALSE
    BY DEF Before
  <2>2. i \in DOMAIN Chunks /\ n + 1 \in DOMAIN Chunks /\ i # n + 1
    BY <1>2, <1>7, <1>8, <2>1, ChunksAssumption
  <2>3. Chunks[i] = Chunks[n + 1]
    BY <1>8, <2>1
  <2> QED
    BY <2>2, <2>3, ChunksAssumption DEF IsInjective
<1>13. Takes(s.dest) => Before(n) \subseteq Before(x)
  BY <1>2, <1>8 DEF Before
<1>14. chunk # NoWrite
  BY ChunksAssumption DEF Ours
<1>15. /\ \A i \in 1 .. Len(s.jobs) : s.jobs[i].kind # "chunk"
       /\ Takes(s.dest) => \A i \in 1 .. Len(s.jobs) : s.jobs[i].kind # "acted"
  <2>1. \A i \in 1 .. Len(s.jobs) : s.jobs[i].kind # "chunk"
    BY DEF Quiet, Going, Has, LoopKinds
  <2>2. Takes(s.dest) => ~ Gone(s)
    BY DEF Sure, Past
  <2>3. Takes(s.dest) => ~ Has(s.jobs, {"acted"})
    BY <2>2 DEF Gone
  <2> QED
    BY <2>1, <2>3 DEF Has
<1>16. ASSUME NEW i \in 1 .. Len(v.jobs)
       PROVE  Knows(v.jobs[i], v, a, x, p, m, prog)
  <2> DEFINE j == s.jobs[i]
  <2>1. Knows(j, s, a, n, p, m, prog) /\ j.kind # "chunk" /\ v.jobs[i] = j
        /\ (Takes(s.dest) => j.kind # "acted")
    BY <1>1, <1>2, <1>15, <1>16 DEF Runs
  <2> HIDE DEF j
  <2>2. ~ Mine(j)
    BY <2>1 DEF Mine
  <2>3. CASE Takes(s.dest)
    <3>1. /\ j.kind = "written" => j.arg \in Before(x) /\ j.arg # chunk
          /\ j.kind = "waited" => j.arg \in Before(x) \cup {NoWrite} /\ j.arg # chunk
      BY <1>12, <1>13, <1>14, <2>1, <2>3 DEF Knows
    <3>2. ~ (j.kind = "rest" /\ s.pipe.action = "close")
      <4>1. SUFFICES ASSUME j.kind = "rest", s.pipe.action = "close"
                     PROVE  FALSE
        OBVIOUS
      <4>2. p = n
        BY <2>1, <2>3, <4>1 DEF Knows
      <4> QED
        BY <1>2, <1>8, <2>3, <4>2
    <3>3. j.kind = "sourceClosed" => v.source.state = "closed"
      BY <1>1, <2>1 DEF Knows
    <3> QED
      BY <1>1, <2>1, <2>2, <2>3, <3>1, <3>2, <3>3 DEF Knows
  <2>4. CASE ~ Takes(s.dest)
    BY <1>1, <1>9, <2>1, <2>2, <2>4 DEF Knows
  <2> QED
    BY <2>3, <2>4
<1>17. Takes(v.dest) => v.pipe.currentWrite = IF x = 0 THEN NoWrite ELSE Chunks[x]
  BY <1>1, <1>2, <1>8
<1>18. Runs(v, a, x, p, m, prog)
  BY <1>1, <1>2, <1>9, <1>11, <1>16, <1>17 DEF Runs
<1> QED
  BY <1>6, <1>8, <1>18 DEF v, x

\* The loop writes the chunk it has read.
LEMMA WriteChunkSteps ==
  ASSUME NEW s, Good(s), Loops(s), Sure(s), Quiet(s), s.pipe.lock = "held", Room(s.dest),
         NEW a, NEW n, NEW p, NEW m, NEW prog, Drive(s, a, n, p, m, prog), Shut(s, prog),
         NEW chunk \in Ours, Reliable(s) => p = n + 1 /\ chunk = Chunks[p]
  PROVE  Steps(WriteChunk(s, chunk), s, a, m, prog)
<1> DEFINE v == [s EXCEPT !.pipe.currentWrite = chunk, !.pipe.currentDone = FALSE]
           w == W!WriterWrite(v.dest, chunk)
           u == WithDest(v, w)
           t == Queue(u, "next", NoWrite, 1)
           x == IF Takes(s.dest) THEN n + 1 ELSE n
<1>1. WriteChunk(s, chunk) = t
  BY DEF WriteChunk, Ours
<1>2. Same(v, s) /\ Onward(v, s)
  BY ClosureSame, ClosureOnward DEF Good
<1>3. /\ Steady(v, s) /\ v.jobs = s.jobs /\ v.pipe.parts = s.pipe.parts
      /\ v.source = s.source /\ v.dest = s.dest /\ v.pipe.lock = s.pipe.lock
      /\ v.pipe.outcome = s.pipe.outcome
  BY PipeFields DEF Loops, Turn, Steady
<1>4. /\ Runs(v, a, x, p, m, prog)
      /\ Takes(s.dest) => p = x /\ n < Len(Chunks) /\ chunk = Chunks[n + 1]
      /\ Keeps(s.dest) => Takes(s.dest)
  BY CurrentRuns
<1> HIDE DEF v
<1>5. Good(v) /\ Loops(v) /\ Quiet(v) /\ Sure(v)
  BY <1>2, <1>3, SameFits, AsideSure DEF Onward
<1>6. /\ WInv(v.dest) /\ Level(v.dest) /\ v.dest.news = <<>>
      /\ Room(v.dest) /\ chunk \in AllChunks /\ Order(v.dest, a, n)
  BY <1>3, <1>5 DEF Good, Fit, Loops, AllChunks, Ours, Drive
<1>7. WInv(w) /\ Fine(w)
  BY <1>6, WriteInv, WriteFine
<1>8. /\ Tame(w) /\ Follows(w, v.dest) /\ CloseTold \notin NewsOf(w)
      /\ Takes(w) => \A e \in NewsOf(w) : e[1] # "write"
  BY <1>6, WriteMoves
<1>9. Order(w, a, x) \/ (Order(w, a + 1, x) /\ Takes(w) /\ Takes(v.dest))
  <2>1. Takes(v.dest) => n < Len(Chunks) /\ chunk = Chunks[n + 1]
    BY <1>3, <1>4
  <2>2. x = IF chunk \in Ours /\ Takes(v.dest) THEN n + 1 ELSE n
    BY <1>3
  <2> HIDE DEF x, w
  <2>3. LET k == IF chunk \in Ours /\ Takes(v.dest) THEN n + 1 ELSE n
        IN  Order(W!WriterWrite(v.dest, chunk), a, k)
              \/ (Order(W!WriterWrite(v.dest, chunk), a + 1, k)
                    /\ Takes(W!WriterWrite(v.dest, chunk)) /\ Takes(v.dest))
    BY <1>6, <2>1, WriteMoves
  <2> QED
    BY <2>2, <2>3 DEF w
<1> HIDE DEF w, x
<1>10. PICK b : Order(w, b, x) /\ (b = a \/ (b = a + 1 /\ Takes(w) /\ Takes(v.dest)))
  BY <1>9
<1>11. DOMAIN w = DOMAIN W!NewWritable /\ w.news \in Seq(WEvents)
  BY <1>8 DEF Tame, Typed
<1>12. /\ Takes(w) => Takes(v.dest)
       /\ Keeps(w) => Keeps(v.dest)
       /\ v.dest.state = "closed" => w.state = "closed"
       /\ Takes(v.dest) => p = x
       /\ Ended(w) => Ended(v.dest)
  BY <1>3, <1>4, <1>8 DEF Follows
<1>13. "close" \in prog => ~ Takes(w)
  BY <1>4, <1>12 DEF Runs
<1>14. Delivers1(w, v, a, x, p, m, prog, b, prog)
  BY <1>8, <1>10, <1>11, <1>12, <1>13 DEF Delivers1
<1>15. Turn(v) /\ Line(v.jobs) /\ Plan(v)
  BY <1>5 DEF Loops, Sure
<1>16. /\ Drive(u, b, x, p, m, prog) /\ Adds(u, v, NewsOf(w), DestJobs) /\ Same4(u, v)
       /\ u.source = v.source /\ Akin(u.dest, w)
  BY <1>4, <1>14, <1>15, WithDestRuns
<1>17. Loops(u)
  <2>1. (v.pipe.waitsReady => Readies(w)) /\ (Holds(v) => Room(w)) /\ Level(w) /\ Told(w)
    BY <1>5, <1>7, RoomFirst DEF Quiet, Holds, Going, Fine, News
  <2> QED
    BY <1>5, <1>7, <2>1, WithDestLoops DEF Onward
<1>18. Plan(u)
  <2>1. Has(v.jobs, {"acted"}) => ~ Takes(v.dest)
    BY <1>5 DEF Sure, Gone, Past
  <2> QED
    BY <1>5, <1>7, <2>1, WithDestPlan DEF Sure, Fine, News
<1> HIDE DEF u
<1>19. /\ Takes(u.dest) <=> Takes(w)
       /\ Keeps(u.dest) <=> Keeps(w)
       /\ Ended(u.dest) <=> Ended(w)
  BY <1>16, AkinMoves DEF Akin, Keeps
<1>20. Pending(u, x, p)
  <2>1. Reliable(u) => Keeps(u.dest)
    BY <1>3, <1>16 DEF Reliable, Same4, Calm
  <2> QED
    BY <1>3, <1>4, <1>12, <1>19, <2>1 DEF Pending
<1>21. Shut(u, prog)
  <2>1. Shut(v, prog)
    BY <1>3 DEF Shut, Gone
  <2> QED
    BY <1>12, <1>15, <1>16, <1>19, <2>1, FlowStays
<1>22. Halts(t, u, b, x, p, m, prog)
  <2> DEFINE j == [kind |-> "next", arg |-> NoWrite, hops |-> 1]
  <2>1. j.kind \in PlainKinds
    BY DEF PlainKinds
  <2>2. Knows(j, u, b, x, p, m, prog) /\ ~ Mine(j)
    BY <2>1, PlainKnows
  <2> QED
    BY <1>16, <1>17, <1>18, <2>2, QueueHalts
<1>23. t.dest = u.dest
  <2>1. DOMAIN u = {"source", "dest", "pipe", "jobs"}
    BY <1>17 DEF Loops, Turn
  <2> QED
    BY <2>1 DEF Queue
<1> HIDE DEF t
<1>24. Flow(t, b, x, p, m, prog)
  BY <1>20, <1>21, <1>22, HaltsShut
<1>25. Takes(t.dest) <=> Takes(w)
  BY <1>19, <1>23
<1>26. t.pipe.outcome = s.pipe.outcome
  BY <1>3, <1>16, <1>22 DEF Halts, Same4
<1>27. Steps(t, s, a, m, prog)
  BY <1>3, <1>10, <1>12, <1>24, <1>25, <1>26 DEF Steps
<1> QED
  BY <1>1, <1>27

\* The source still has chunks only while the sink takes them.
LEMMA ReadableTakes ==
  ASSUME NEW s, Sure(s), NEW prog, Shut(s, prog), s.pipe.lock = "held",
         s.source.state = "readable", Reliable(s)
  PROVE  Takes(s.dest)
<1>1. Keeps(s.dest) /\ ~ Gone(s)
  BY DEF Reliable, Sure, Past
<1>2. ~ Ended(s.dest)
  BY <1>1 DEF Shut
<1> QED
  BY <1>1, <1>2 DEF Keeps, Ended, Takes, W!CloseQueuedOrInFlight

\* The first chunk leaves the queue of the source.
LEMMA TakenSupply ==
  ASSUME NEW s, DOMAIN s = {"source", "dest", "pipe", "jobs"},
         NEW n \in Nat, NEW p \in Nat, NEW m \in Nat, NEW prog, Supply(s, n, p, m, prog), p = n,
         s.source.state = "readable", s.source.queue \in Seq(Ours), s.source.queue # <<>>,
         Takes(s.dest), NEW v, v.queue = Tail(s.source.queue)
  PROVE  /\ Supply([s EXCEPT !.source = v], n, p + 1, m, prog)
         /\ Head(s.source.queue) = Chunks[p + 1] /\ Head(s.source.queue) \in Ours
<1> DEFINE z == [s EXCEPT !.source = v]
           q == s.source.queue
<1>1. z.source = v /\ z.dest = s.dest
  OBVIOUS
<1> HIDE DEF z
<1>2. /\ Len(v.queue) = Len(q) - 1 /\ Len(q) \in Nat /\ Len(q) > 0
      /\ Head(q) = q[1] /\ q[1] \in Ours
      /\ \A i \in 1 .. Len(v.queue) : v.queue[i] = q[i + 1] /\ i + 1 \in 1 .. Len(q)
  OBVIOUS
<1>3. q[1] = Chunks[p + 1]
  BY <1>2 DEF Supply
<1>4. ASSUME NEW i \in 1 .. Len(v.queue)
      PROVE  v.queue[i] = Chunks[p + 1 + i]
  <2>1. v.queue[i] = Chunks[p + (i + 1)]
    BY <1>2 DEF Supply
  <2>2. p + (i + 1) = p + 1 + i
    BY <1>2
  <2> QED
    BY <2>1, <2>2
<1>5. Whole(s, prog)
  BY DEF Whole
<1>6. p + 1 + Len(v.queue) = m
  <2>1. p + Len(q) = m
    BY <1>5 DEF Supply
  <2> DEFINE k == Len(v.queue)
             l == Len(q)
  <2>2. k = l - 1 /\ l \in Nat /\ p + l = m
    BY <1>2, <2>1
  <2> HIDE DEF k, l
  <2>3. p + 1 + k = m
    BY <2>2
  <2> QED
    BY <2>3 DEF k
<1>7. n <= p + 1 /\ p + 1 <= n + 1 /\ m <= m
  OBVIOUS
<1>8. Supply(z, n, p + 1, m, prog)
  BY <1>1, <1>4, <1>6, <1>7 DEF Supply
<1> QED
  BY <1>2, <1>3, <1>8 DEF z

\* The loop reads from the source.
LEMMA ReadChunkSteps ==
  ASSUME NEW s, Good(s), Loops(s), Sure(s), Quiet(s), s.pipe.lock = "held",
         NEW a, NEW n, NEW p, NEW m, NEW prog, Flow(s, a, n, p, m, prog)
  PROVE  Steps(ReadChunk(s), s, a, m, prog)
<1> DEFINE r == s.source
           v == R!Read(r)
           t == WithSource(s, v)
<1>1. /\ Heeded(r) /\ RInv(r) /\ r.reader /\ r.readRequests = 0
      /\ Turn(s) /\ Line(s.jobs) /\ Plan(s)
  BY DEF Good, Fit, Locks, Loops, Quiet, Asked, Sure
<1>2. ReadChunk(s) = t
  BY DEF ReadChunk
<1>3. /\ Drive(s, a, n, p, m, prog) /\ Runs(s, a, n, p, m, prog) /\ Order(s.dest, a, n)
      /\ Pending(s, n, p) /\ Shut(s, prog)
  BY DEF Flow, Drive
<1>4. /\ Stocked(r) /\ n \in Nat /\ p \in Nat /\ m \in Nat /\ m <= Len(Chunks)
      /\ Reliable(s) => Supply(s, n, p, m, prog)
      /\ "cancel" \in prog => r.state # "readable" /\ (s.pipe.lock # "released" => p = 0)
  BY <1>3 DEF Runs
<1>5. RInv(v) /\ Serves(v, r, TRUE)
  BY <1>1, ReadInv, ReadServes
<1>6. DOMAIN v = DOMAIN R!NewReadable
  BY <1>5 DEF RInv
<1>7. \/ Ebbs(v, r) /\ v.queue = r.queue /\ v.state = r.state
      \/ /\ r.queue # <<>> /\ r.state = "readable" /\ v.queue = Tail(r.queue) /\ Stocked(v)
         /\ v.state = "readable" \/ (v.state = "closed" /\ v.queue = <<>>)
         /\ \A e \in NewsOf(v) : /\ e[1] = "read" => e[2] = Head(r.queue)
                                 /\ TellsEnd(e) => v.state = "closed"
         /\ \E e \in NewsOf(v) : e[1] = "read" /\ e[2] = Head(r.queue)
  BY <1>1, <1>4, ReadTakes
<1> HIDE DEF v
<1>8. ~ HasMine(s.jobs)
  BY DEF Quiet, Going, Has, LoopKinds, HasMine, Mine
<1>9. Reliable(s) => p = n
  BY <1>3, <1>8 DEF Pending
<1>10. DOMAIN s = {"source", "dest", "pipe", "jobs"}
  BY <1>1 DEF Turn
<1>11. ASSUME NEW q, Gives1(v, s, n, p, m, prog, q, m, prog)
       PROVE  /\ Drive(t, a, n, q, m, prog) /\ t.dest = s.dest /\ Shut(t, prog)
              /\ t.pipe.outcome = s.pipe.outcome
              /\ q = p => Pending(t, n, q)
              /\ \A e \in NewsOf(v) : e[1] = "read" /\ e[2] \in Ours => HasMine(t.jobs)
  <2>1. GoesWith(t, s, v, a, n, q, m, prog)
    BY <1>1, <1>3, <1>5, <1>11, WithSourceRuns
  <2> HIDE DEF t
  <2>2. /\ Runs(t, a, n, q, m, prog) /\ Adds(t, s, NewsOf(v), SourceJobs) /\ Same4(t, s)
        /\ t.dest = s.dest
        /\ \A e \in NewsOf(v) : e[1] = "read" /\ e[2] \in Ours => HasMine(t.jobs)
    BY <2>1 DEF GoesWith
  <2>3. Pending(t, n, p) /\ Shut(t, prog)
    BY <1>1, <1>3, <2>2, FlowStays
  <2> QED
    BY <1>3, <2>2, <2>3 DEF Drive, Same4
<1> HIDE DEF t
<1>12. CASE Ebbs(v, r) /\ v.queue = r.queue /\ v.state = r.state
  <2> DEFINE z == [s EXCEPT !.source = v]
  <2>1. z.source = v /\ z.dest = s.dest /\ z.pipe = s.pipe
    BY <1>10
  <2> HIDE DEF z
  <2>2. Reliable(s) => Supply(z, n, p, m, prog)
    BY <1>4, <1>12, <2>1 DEF Supply, Whole
  <2>3. Gives1(v, s, n, p, m, prog, p, m, prog)
    BY <1>4, <1>6, <1>12, <2>2 DEF Gives1, Ebbs, z
  <2>4. Flow(t, a, n, p, m, prog) /\ t.dest = s.dest /\ t.pipe.outcome = s.pipe.outcome
    BY <1>11, <2>3 DEF Flow
  <2> QED
    BY <1>2, <2>4 DEF Steps
<1>13. CASE /\ r.queue # <<>> /\ r.state = "readable" /\ v.queue = Tail(r.queue) /\ Stocked(v)
            /\ v.state = "readable" \/ (v.state = "closed" /\ v.queue = <<>>)
            /\ \A e \in NewsOf(v) : /\ e[1] = "read" => e[2] = Head(r.queue)
                                    /\ TellsEnd(e) => v.state = "closed"
            /\ \E e \in NewsOf(v) : e[1] = "read" /\ e[2] = Head(r.queue)
  <2> DEFINE q == IF Reliable(s) THEN p + 1 ELSE p
  <2>1. r.queue \in Seq(Ours)
    BY <1>4 DEF Stocked
  <2>2. Reliable(s) => Takes(s.dest)
    BY <1>3, <1>13, ReadableTakes
  <2>3. Reliable(s) => /\ Supply([s EXCEPT !.source = v], n, p + 1, m, prog)
                       /\ Head(r.queue) = Chunks[p + 1]
    BY <1>4, <1>9, <1>10, <1>13, <2>1, <2>2, TakenSupply
  <2>4. Head(r.queue) \in Ours
    BY <1>13, <2>1
  <2>5. /\ q \in Nat /\ (q = p \/ (q = p + 1 /\ q <= n + 1))
        /\ Reliable(s) => q = p + 1 /\ q = n + 1
    BY <1>4, <1>9
  <2> HIDE DEF q
  <2>6. Reliable(s) => Supply([s EXCEPT !.source = v], n, q, m, prog)
    BY <2>3, <2>5
  <2>7. Reliable(s) => \A e \in NewsOf(v) : e[1] = "read" /\ e[2] \in Ours =>
                         q = n + 1 /\ e[2] = Chunks[q]
    BY <1>13, <2>3, <2>5
  <2>8. "cancel" \notin prog
    BY <1>4, <1>13
  <2>9. Gives1(v, s, n, p, m, prog, q, m, prog)
    BY <1>4, <1>6, <1>13, <2>5, <2>6, <2>7, <2>8 DEF Gives1
  <2>10. HasMine(t.jobs)
    BY <1>11, <1>13, <2>4, <2>9
  <2>11. Flow(t, a, n, q, m, prog) /\ t.dest = s.dest /\ t.pipe.outcome = s.pipe.outcome
    BY <1>11, <2>9, <2>10 DEF Flow, Pending
  <2> QED
    BY <1>2, <2>11 DEF Steps
<1> QED
  BY <1>7, <1>12, <1>13

-----------------------------------------------------------------------------
(* The pipe settles.                                                       *)

\* The release of the writer leaves the stream as it is.
LEMMA ReleaseLeaves ==
  ASSUME NEW w, WInv(w)
  PROVE  LET v == W!WriterRelease(w)
         IN  /\ v.state = w.state /\ v.closeRequest = w.closeRequest
             /\ v.inFlightClose = w.inFlightClose
<1> DEFINE a == W!Assert_(w, w.writer)
           b == W!EnsureReadyRejected(a)
           c == W!Settle(b, "closed", "rejected")
           v == [c EXCEPT !.writer = FALSE, !.ready = "none", !.closed = "none"]
<1>1. W!WriterRelease(w) = v
  BY DEF W!WriterRelease
<1>2. /\ DOMAIN a = DOMAIN W!NewWritable
      /\ a.state = w.state /\ a.closeRequest = w.closeRequest
      /\ a.inFlightClose = w.inFlightClose
  BY Fields DEF WInv, Shape, W!Assert_
<1> HIDE DEF a
<1>3. Alike(b, a)
  BY <1>2, EnsureAlike
<1> HIDE DEF b
<1>4. Alike(c, b)
  BY <1>2, <1>3, SettleAlike DEF Alike
<1> HIDE DEF c
<1>5. /\ v.state = c.state /\ v.closeRequest = c.closeRequest
      /\ v.inFlightClose = c.inFlightClose
  BY <1>2, <1>3, <1>4, Fields DEF Alike
<1> HIDE DEF v
<1> QED
  BY <1>1, <1>2, <1>3, <1>4, <1>5 DEF Alike

\* The source comes to give less, and loses nothing that the pipe must pass on.
LEMMA EbbGives ==
  ASSUME NEW s, Turn(s), RInv(s.source), NEW a, NEW n, NEW p, NEW m, NEW prog,
         Runs(s, a, n, p, m, prog), NEW v, DOMAIN v = DOMAIN R!NewReadable,
         Ebbs(v, s.source), Lasts(v, s.source)
  PROVE  Gives1(v, s, n, p, m, prog, p, m, prog)
<1> DEFINE u == [s EXCEPT !.source = v]
<1>1. u.source = v /\ u.dest = s.dest /\ u.pipe = s.pipe
  BY DEF Turn
<1> HIDE DEF u
<1>2. Stocked(s.source) /\ Stocked(v)
  BY DEF Runs, Ebbs
<1>3. Reliable(s) => Supply(u, n, p, m, prog)
  <2>1. SUFFICES ASSUME Reliable(s)
                 PROVE  Supply(u, n, p, m, prog)
    OBVIOUS
  <2>2. Supply(s, n, p, m, prog) /\ p \in Nat /\ m \in Nat
    BY <2>1 DEF Runs
  <2>3. CASE v.queue = s.source.queue
    <3>1. Whole(u, prog) => Whole(s, prog)
      <4>1. v.state = "readable" => s.source.state = "readable"
        BY DEF Ebbs
      <4>2. v.state = "closed" => s.source.state # "errored"
        BY DEF Lasts
      <4>3. Whole(u, prog) /\ s.source.state \in {"readable", "closed"} => Whole(s, prog)
        BY <1>1 DEF Whole, Ebbs
      <4>4. Whole(u, prog) => v.state \in {"readable", "closed"}
        BY <1>1 DEF Whole
      <4> QED
        BY <4>1, <4>2, <4>3, <4>4 DEF RInv
    <3> QED
      BY <1>1, <2>2, <2>3, <3>1 DEF Supply
  <2>4. CASE v.queue # s.source.queue
    <3>1. v.queue = <<>> /\ v.state \notin {"readable", "closed"}
      BY <2>4 DEF Ebbs, Lasts
    <3>2. ~ Whole(u, prog)
      BY <1>1, <3>1 DEF Whole
    <3>3. Len(s.source.queue) \in Nat /\ Len(v.queue) = 0
      BY <1>2, <3>1 DEF Stocked
    <3>4. p <= m
      BY <2>2, <3>3 DEF Supply
    <3> QED
      BY <1>1, <2>2, <3>2, <3>3, <3>4 DEF Supply
  <2> QED
    BY <2>3, <2>4
<1>4. /\ s.source.state = "closed" => v.state = "closed"
      /\ v.state = "readable" => s.source.state = "readable"
      /\ \A e \in NewsOf(v) : /\ e[1] = "read" => e[2] \notin Ours
                              /\ TellsEnd(e) => v.state = "closed"
  BY DEF Ebbs
<1>5. /\ p \in Nat /\ m \in Nat /\ m <= Len(Chunks)
      /\ "cancel" \in prog => s.source.state # "readable" /\ (s.pipe.lock # "released" => p = 0)
  BY DEF Runs
<1> QED
  BY <1>2, <1>3, <1>4, <1>5 DEF Gives1, u

\* The source acts, and takes nothing the pipe must pass on.
LEMMA SourceHalts ==
  ASSUME NEW s, Loops(s), Plan(s), NEW a, NEW n, NEW p, NEW m, NEW prog,
         Drive(s, a, n, p, m, prog), NEW v, RInv(v), NEW isRead,
         Serves(v, s.source, isRead), Ebbs(v, s.source), Lasts(v, s.source)
  PROVE  Halts(WithSource(s, v), s, a, n, p, m, prog) /\ WithSource(s, v).dest = s.dest
<1> DEFINE t == WithSource(s, v)
<1>1. /\ Turn(s) /\ Line(s.jobs) /\ RInv(s.source)
      /\ Runs(s, a, n, p, m, prog) /\ Order(s.dest, a, n)
      /\ DOMAIN v = DOMAIN R!NewReadable
  BY DEF Loops, Drive, Heeded, RInv
<1>2. Gives1(v, s, n, p, m, prog, p, m, prog)
  BY <1>1, EbbGives
<1>3. GoesWith(t, s, v, a, n, p, m, prog)
  BY <1>1, <1>2, WithSourceRuns
<1> HIDE DEF t
<1>4. /\ Runs(t, a, n, p, m, prog) /\ Adds(t, s, NewsOf(v), SourceJobs) /\ Same4(t, s)
      /\ t.dest = s.dest
  BY <1>3 DEF GoesWith
<1>5. /\ Gone(s) => Gone(t)
      /\ Pending(s, n, p) => Pending(t, n, p)
  BY <1>1, <1>4, FlowStays
<1>6. Halts(t, s, a, n, p, m, prog)
  BY <1>1, <1>4, <1>5 DEF Halts, Drive, Same4, Calm
<1> QED
  BY <1>4, <1>6 DEF t

\* The sink is left as it is, or begins to fail.
LEMMA DriftHalts ==
  ASSUME NEW s, Loops(s), Plan(s), NEW a, NEW n, NEW p, NEW m, NEW prog,
         Drive(s, a, n, p, m, prog), NEW w, Drift(w, s.dest)
  PROVE  /\ Halts(WithDest(s, w), s, a, n, p, m, prog)
         /\ Akin(WithDest(s, w).dest, w) /\ WithDest(s, w).source = s.source
<1> DEFINE t == WithDest(s, w)
<1>1. /\ Turn(s) /\ Line(s.jobs) /\ s.dest.news = <<>>
      /\ Runs(s, a, n, p, m, prog) /\ Order(s.dest, a, n)
  BY DEF Loops, Drive
<1>2. /\ Follows(w, s.dest) /\ Order(w, a, n)
  BY <1>1, DriftOrder
<1>3. DOMAIN w = DOMAIN W!NewWritable /\ w.news \in Seq(WEvents)
  BY DEF Drift, Tame, Typed
<1>4. NewsOf(s.dest) = {}
  BY <1>1 DEF NewsOf
<1>5. /\ CloseTold \notin NewsOf(w)
      /\ Takes(w) => \A e \in NewsOf(w) : e[1] # "write"
  BY <1>4 DEF Drift, Takes
<1>6. "close" \in prog => ~ Takes(w)
  BY <1>1, <1>2 DEF Runs, Follows
<1>7. Delivers1(w, s, a, n, p, m, prog, a, prog)
  BY <1>2, <1>3, <1>5, <1>6 DEF Delivers1, Follows
<1>8. /\ Drive(t, a, n, p, m, prog) /\ Adds(t, s, NewsOf(w), DestJobs) /\ Same4(t, s)
      /\ t.source = s.source /\ Akin(t.dest, w)
  BY <1>1, <1>7, WithDestRuns
<1> HIDE DEF t
<1>9. /\ Takes(t.dest) <=> Takes(w)
      /\ Keeps(t.dest) <=> Keeps(w)
      /\ Ended(t.dest) <=> Ended(w)
  BY <1>8, AkinMoves DEF Akin, Keeps
<1>10. /\ Keeps(t.dest) => Keeps(s.dest)
       /\ Ended(t.dest) => Ended(s.dest)
       /\ Takes(t.dest) => Takes(s.dest)
  BY <1>2, <1>9 DEF Follows
<1>11. /\ Gone(s) => Gone(t)
       /\ Pending(s, n, p) => Pending(t, n, p)
  BY <1>1, <1>8, <1>10, FlowStays
<1>12. Halts(t, s, a, n, p, m, prog)
  BY <1>8, <1>10, <1>11 DEF Halts, Same4, Calm
<1> QED
  BY <1>8, <1>12 DEF t

\* The pipe lets go of both streams and settles.
LEMMA FinalizeFlows ==
  ASSUME NEW s, Good(s), Loops(s), Plan(s), Facts(s), Past(s), ~ Ending(s),
         s.pipe.lock = "held", s.pipe.shuttingDown, NEW isError,
         NEW a, NEW n, NEW p, NEW m, NEW prog,
         Drive(s, a, n, p, m, prog), Pending(s, n, p)
  PROVE  LET t == Finalize(s, isError)
         IN  /\ Flow(t, a, n, p, m, prog)
             /\ t.dest.state = s.dest.state /\ t.dest.closeRequest = s.dest.closeRequest
             /\ t.dest.inFlightClose = s.dest.inFlightClose
             /\ t.pipe.outcome = IF isError THEN "error" ELSE "ok"
<1> DEFINE w == W!WriterRelease(s.dest)
           v == WithDest(s, w)
           r == R!ReaderRelease(v.source)
           u == WithSource(v, r)
           how == IF isError THEN "error" ELSE "ok"
           t == [u EXCEPT !.pipe.lock = "released", !.pipe.outcome = how]
<1>1. Finalize(s, isError) = t
  BY DEF Finalize
<1>2. /\ WInv(s.dest) /\ s.dest.writer /\ s.dest.news = <<>> /\ Fine(s.dest)
  BY Unheard DEF Good, Fit, Locks, Loops
<1>3. /\ WInv(w) /\ Fine(w) /\ Goes(w, s.dest) /\ Drift(w, s.dest)
      /\ w.state = s.dest.state /\ w.closeRequest = s.dest.closeRequest
      /\ w.inFlightClose = s.dest.inFlightClose
  BY <1>2, ReleaseInv, ReleaseFine, ReleaseLeaves, OthersMove
<1> HIDE DEF w
<1>4. /\ Halts(v, s, a, n, p, m, prog) /\ Akin(v.dest, w) /\ v.source = s.source
  BY <1>3, DriftHalts
<1>5. Loops(v)
  <2>1. /\ Level(w) /\ Told(w) /\ (s.pipe.waitsReady => Readies(w)) /\ (Holds(s) => Room(w))
    BY <1>3 DEF Fine, News, Goes, Loops, Places, Readies
  <2> QED
    BY <1>3, <2>1, WithDestLoops DEF Onward
<1>6. Plan(v)
  <2>1. ~ Has(s.jobs, {"acted"})
    BY DEF Ending, Has, EndKinds
  <2> QED
    BY <1>3, <2>1, WithDestPlan DEF Fine, News
<1> HIDE DEF v
<1>7. Heeded(v.source) /\ Stocked(v.source) /\ v.pipe.lock = "held"
      /\ Drive(v, a, n, p, m, prog)
  BY <1>4, <1>5 DEF Loops, Halts, Drive, Runs
<1>8. /\ RInv(r) /\ Serves(r, v.source, FALSE) /\ Ebbs(r, v.source) /\ Lasts(r, v.source)
  <2>1. v.source.reader
    BY <1>4 DEF Good, Locks
  <2> QED
    BY <1>7, <2>1, ReleaseServes, SourceInv, ReaderEbbs DEF Heeded
<1> HIDE DEF r
<1>9. Halts(u, v, a, n, p, m, prog) /\ u.dest = v.dest
  BY <1>5, <1>6, <1>7, <1>8, SourceHalts
<1>10. Turn(u)
  <2>1. Loops(u)
    BY <1>5, <1>8, WithSourceLoops
  <2> QED
    BY <2>1 DEF Loops
<1> HIDE DEF u
<1>11. Halts(u, s, a, n, p, m, prog)
  BY <1>4, <1>9, HaltsTwice
<1>12. /\ t.jobs = u.jobs /\ t.source = u.source /\ t.dest = u.dest
       /\ t.pipe.lock = "released" /\ t.pipe.shuttingDown = u.pipe.shuttingDown
       /\ t.pipe.action = u.pipe.action /\ t.pipe.parts = u.pipe.parts
       /\ t.pipe.isError = u.pipe.isError /\ t.pipe.currentWrite = u.pipe.currentWrite
       /\ t.pipe.currentDone = u.pipe.currentDone /\ t.pipe.outcome = how
  BY <1>10, PipeFields DEF Turn
<1> HIDE DEF t, how
<1>13. Runs(u, a, n, p, m, prog) /\ Order(u.dest, a, n) /\ Pending(u, n, p) /\ u.pipe.lock = "held"
  BY <1>11 DEF Halts, Drive
<1>14. Reliable(t) <=> Reliable(u)
  BY <1>12, <1>13 DEF Reliable
<1>15. Supply(t, n, p, m, prog) <=> Supply(u, n, p, m, prog)
  BY <1>12 DEF Supply, Whole
<1>16. \A j : Knows(j, u, a, n, p, m, prog) => Knows(j, t, a, n, p, m, prog)
  BY <1>12, <1>14 DEF Knows
<1>17. Runs(t, a, n, p, m, prog)
  BY <1>12, <1>13, <1>14, <1>15, <1>16 DEF Runs
<1>18. Pending(t, n, p) /\ Shut(t, prog)
  BY <1>12, <1>13, <1>14 DEF Pending, Shut, Gone
<1>19. Flow(t, a, n, p, m, prog)
  BY <1>12, <1>13, <1>17, <1>18 DEF Flow, Drive
<1>20. /\ t.dest.state = w.state /\ t.dest.closeRequest = w.closeRequest
       /\ t.dest.inFlightClose = w.inFlightClose
  BY <1>4, <1>9, <1>12 DEF Akin
<1> QED
  BY <1>1, <1>3, <1>12, <1>19, <1>20 DEF how

\* The turn that settles the pipe.
Concludes(t, s, a, m, prog) ==
  /\ \E n, p : Flow(t, a, n, p, m, prog)
  /\ t.dest.state = s.dest.state /\ t.dest.closeRequest = s.dest.closeRequest
  /\ t.dest.inFlightClose = s.dest.inFlightClose
  /\ s.pipe.outcome = "none" /\ t.pipe.outcome \in {"ok", "error"}
  /\ t.pipe.outcome = "ok" =>
       /\ s.dest.state = "closed" \/ "close" \in prog
       /\ a = m \/ "cancel" \in prog

\* Every job.
LEMMA PerformTurns ==
  ASSUME NEW s, NEW job, NEW a, NEW n, NEW p, NEW m, NEW prog,
         Taken(s, job, a, n, p, m, prog)
  PROVE  \/ Steps(Perform(s, job), s, a, m, prog)
         \/ Concludes(Perform(s, job), s, a, m, prog)
<1>1. /\ Good(s) /\ Loops(s) /\ Sure(s) /\ Plan(s) /\ Facts(s) /\ Due(s, job)
      /\ Drive(s, a, n, p, m, prog) /\ Knows(job, s, a, n, p, m, prog)
      /\ ~ Mine(job) => Pending(s, n, p)
      /\ job.kind # "acted" => Shut(s, prog)
      /\ job.kind \in LoopKinds => Quiet(s)
      /\ job.kind \in RoomKinds /\ s.pipe.lock = "held" => Room(s.dest)
      /\ Alive(job) => s.pipe.lock = "held"
  BY DEF Taken, Sure, Due
<1>2. CASE job.hops > 0
  <2> DEFINE less == job.hops - 1
  <2>1. Perform(s, job) = Queue(s, job.kind, job.arg, less)
    BY <1>2 DEF Perform
  <2> HIDE DEF less
  <2>2. Rests(Queue(s, job.kind, job.arg, less), s, a, n, p, m, prog)
    BY <1>2, RequeueRests
  <2> QED
    BY <2>1, <2>2, RestsStep
<1>3. CASE ~ (job.hops > 0) /\ job.kind = "read"
  <2>1. Perform(s, job) = ReadChunk(s)
    BY <1>3 DEF Perform
  <2>2. Flow(s, a, n, p, m, prog) /\ Quiet(s) /\ s.pipe.lock = "held"
    BY <1>1, <1>3 DEF Flow, Mine, LoopKinds, Alive
  <2>3. Steps(ReadChunk(s), s, a, m, prog)
    BY <1>1, <2>2, ReadChunkSteps
  <2> QED
    BY <2>1, <2>3
<1>4. CASE ~ (job.hops > 0) /\ Mine(job)
  <2>1. job.kind = "chunk" /\ job.arg \in Ours
    BY <1>4 DEF Mine
  <2>2. Perform(s, job) = WriteChunk(s, job.arg)
    BY <1>4, <2>1 DEF Perform
  <2>3. /\ Quiet(s) /\ s.pipe.lock = "held" /\ Room(s.dest) /\ Shut(s, prog)
        /\ Reliable(s) => p = n + 1 /\ job.arg = Chunks[p]
    BY <1>1, <1>4, <2>1 DEF LoopKinds, RoomKinds, Alive, Knows
  <2>4. Steps(WriteChunk(s, job.arg), s, a, m, prog)
    BY <1>1, <2>1, <2>3, WriteChunkSteps
  <2> QED
    BY <2>2, <2>4
<1>5. CASE ~ (job.hops > 0) /\ job.kind = "acted"
  <2> DEFINE isError == s.pipe.isError \/ job.arg = "rejected"
             t == Finalize(s, isError)
  <2>1. Perform(s, job) = t
    BY <1>5 DEF Perform
  <2>2. ~ isError => ~ s.pipe.isError /\ job.arg # "rejected"
    OBVIOUS
  <2> HIDE DEF isError
  <2>3. /\ ~ Ending(s) /\ s.pipe.lock = "held" /\ s.pipe.shuttingDown /\ Past(s)
        /\ Pending(s, n, p)
    BY <1>1, <1>5 DEF Due, EndKinds, Mine
  <2>4. /\ Flow(t, a, n, p, m, prog)
        /\ t.dest.state = s.dest.state /\ t.dest.closeRequest = s.dest.closeRequest
        /\ t.dest.inFlightClose = s.dest.inFlightClose
        /\ t.pipe.outcome = IF isError THEN "error" ELSE "ok"
    BY <1>1, <2>3, FinalizeFlows
  <2> HIDE DEF t
  <2>5. s.pipe.outcome = "none"
    BY <1>1, <2>3 DEF Good, Locks
  <2>6. ~ isError => /\ s.dest.state = "closed" \/ "close" \in prog
                     /\ a = m \/ "cancel" \in prog
    BY <1>1, <1>5, <2>2 DEF Knows
  <2>7. Concludes(t, s, a, m, prog)
    BY <2>4, <2>5, <2>6 DEF Concludes
  <2> QED
    BY <2>1, <2>7
<1>6. CASE ~ (job.hops > 0) /\ job.kind # "read" /\ ~ Mine(job) /\ job.kind # "acted"
  BY <1>6, OtherRests, RestsStep
<1> QED
  BY <1>2, <1>3, <1>4, <1>5, <1>6

\* The inductive invariant: the pipe goes to plan, and the chunks are where they should be.
FlowInv == PlanInv /\ \E a, n, p : Flow(Now, a, n, p, enqueued, program)

\* A microtask leaves the queue and runs.
LEMMA RunJobTurns ==
  ASSUME PlanInv, RunJob, NEW a, NEW n, NEW p, Flow(Now, a, n, p, enqueued, program)
  PROVE  \E t : /\ Become(t)
                /\ \/ Steps(t, Now, a, enqueued, program)
                   \/ Concludes(t, Now, a, enqueued, program)
<1> DEFINE s == [Now EXCEPT !.jobs = Tail(@)]
           job == Head(jobs)
<1>1. jobs # <<>> /\ Become(Perform(s, job))
  BY DEF RunJob
<1>2. /\ s.pipe = pipe /\ s.source = source /\ s.dest = dest /\ s.jobs = Tail(jobs)
  BY DEF Now
<1>3. /\ Now.source = source /\ Now.dest = dest /\ Now.pipe = pipe /\ Now.jobs = jobs
  BY DEF Now
<1>4. /\ Good(s) /\ Loops(s)
      /\ job.kind \in LoopKinds => Quiet(s) /\ s.pipe.lock # "idle"
      /\ job.kind \in RoomKinds /\ s.pipe.lock = "held" => Room(s.dest)
      /\ \A K : /\ Has(s.jobs, K) => Has(jobs, K)
                /\ Single(jobs, K) => Single(s.jobs, K)
                /\ job.kind \in K => Has(jobs, K)
                /\ Single(jobs, K) /\ job.kind \in K => ~ Has(s.jobs, K)
  BY <1>1, TakenLoops DEF PlanInv
<1>5. Sure(s) /\ Due(s, job)
  BY <1>1, TakenSure
<1>6. Turn(Now) /\ Line(Now.jobs) /\ Runs(Now, a, n, p, enqueued, program)
      /\ Order(dest, a, n) /\ Pending(Now, n, p) /\ Shut(Now, program)
  BY <1>3 DEF PlanInv, LoopInv, Loops, Flow, Drive
<1>7. /\ Runs(s, a, n, p, enqueued, program) /\ Knows(job, s, a, n, p, enqueued, program)
      /\ ~ Mine(job) => Pending(s, n, p)
      /\ job.kind # "acted" => Shut(s, program)
  BY <1>1, <1>3, <1>6, TakenRuns
<1>8. job.kind = "waited" /\ s.pipe.action = "close" => ~ HasMine(s.jobs)
  <2>1. SUFFICES ASSUME job.kind = "waited", s.pipe.action = "close", HasMine(s.jobs)
                 PROVE  FALSE
    OBVIOUS
  <2>2. WaitsLast(jobs)
    BY <1>2, <1>3, <1>6, <2>1 DEF Runs
  <2>3. PICK S : jobs \in Seq(S)
    BY <1>3, <1>6 DEF Line
  <2>4. PICK i \in 1 .. Len(s.jobs) : Mine(s.jobs[i])
    BY <2>1 DEF HasMine
  <2>5. /\ s.jobs[i] = jobs[i + 1] /\ i + 1 \in 1 .. Len(jobs) /\ i \in Nat /\ i > 0
        /\ 1 \in 1 .. Len(jobs) /\ job = jobs[1]
    BY <1>1, <1>2, <2>3, <2>4
  <2>6. i + 1 < 1
    BY <2>1, <2>2, <2>4, <2>5 DEF WaitsLast
  <2> QED
    BY <2>5, <2>6
<1>9. Drive(s, a, n, p, enqueued, program)
  BY <1>2, <1>6, <1>7 DEF Drive
<1> HIDE DEF s, job
<1>10. Taken(s, job, a, n, p, enqueued, program)
  BY <1>4, <1>5, <1>7, <1>8, <1>9 DEF Taken
<1> DEFINE t == Perform(s, job)
<1>11. Become(t)
  BY <1>1 DEF s, job
<1>12. \/ Steps(t, s, a, enqueued, program)
       \/ Concludes(t, s, a, enqueued, program)
  BY <1>10, PerformTurns
<1> HIDE DEF t
<1>13. \/ Steps(t, Now, a, enqueued, program)
       \/ Concludes(t, Now, a, enqueued, program)
  BY <1>2, <1>3, <1>12 DEF Steps, Concludes
<1> QED
  BY <1>11, <1>13

-----------------------------------------------------------------------------
(* What the source, the sink and the program do.                           *)

\* A turn that halts the pipe is a step.
LEMMA HaltsStep ==
  ASSUME NEW s, NEW t, NEW a, NEW n, NEW p, NEW m, NEW prog,
         Halts(t, s, a, n, p, m, prog), Flow(s, a, n, p, m, prog)
  PROVE  Steps(t, s, a, m, prog)
<1>1. Flow(t, a, n, p, m, prog)
  BY HaltsShut DEF Flow
<1> QED
  BY <1>1 DEF Halts, Steps

\* The parts of the invariant, said of the state.
LEMMA Presently ==
  ASSUME PlanInv
  PROVE  /\ Good(Now) /\ Loops(Now) /\ Sure(Now) /\ Plan(Now) /\ Facts(Now)
         /\ Turn(Now) /\ Line(Now.jobs)
         /\ Now.source = source /\ Now.dest = dest /\ Now.pipe = pipe /\ Now.jobs = jobs
         /\ WInv(dest) /\ dest.news = <<>> /\ RInv(source) /\ Heeded(source)
         /\ Locks(pipe, dest, source)
  BY NowGood DEF PlanInv, LoopInv, Inv, Loops, Sure, Now

\* The source closes, fails or answers.
LEMMA SourceSteps ==
  ASSUME PlanInv, NEW a, NEW n, NEW p, Flow(Now, a, n, p, enqueued, program),
         NEW v, RInv(v), Serves(v, source, FALSE),
         Stocked(source) => Ebbs(v, source) /\ Lasts(v, source)
  PROVE  Steps(WithSource(Now, v), Now, a, enqueued, program)
<1>1. /\ Loops(Now) /\ Plan(Now) /\ Now.source = source
  BY Presently
<1>2. Drive(Now, a, n, p, enqueued, program) /\ Stocked(source)
  BY <1>1 DEF Flow, Drive, Runs
<1>3. Halts(WithSource(Now, v), Now, a, n, p, enqueued, program)
  BY <1>1, <1>2, SourceHalts
<1> QED
  BY <1>3, HaltsStep

\* Something happens in the sink.
LEMMA DeliverSteps ==
  ASSUME PlanInv, NEW a, NEW n, NEW p, NEW m, NEW prog, Flow(Now, a, n, p, m, prog),
         NEW w, NEW b, NEW acts, Delivers1(w, Now, a, n, p, m, prog, b, acts),
         Ended(w) =>
           Ended(dest) \/ pipe.lock = "released" \/ (pipe.lock = "idle" /\ "close" \in acts)
  PROVE  Steps(WithDest(Now, w), Now, a, m, acts)
<1> DEFINE s == Now
           t == WithDest(s, w)
<1>1. /\ Loops(s) /\ Plan(s) /\ Turn(s) /\ Line(s.jobs) /\ s.dest = dest /\ s.pipe = pipe
  BY Presently
<1> HIDE DEF s
<1>2. Runs(s, a, n, p, m, prog) /\ Order(dest, a, n) /\ Pending(s, n, p) /\ Shut(s, prog)
  BY <1>1 DEF Flow, Drive, s
<1>3. Delivers1(w, s, a, n, p, m, prog, b, acts)
  BY DEF s
<1>4. /\ Takes(w) => Takes(s.dest)
      /\ Keeps(w) => Keeps(s.dest)
      /\ b = a \/ (b = a + 1 /\ Takes(w) /\ Takes(s.dest))
      /\ prog \subseteq acts
  BY <1>3 DEF Delivers1
<1>5. /\ Drive(t, b, n, p, m, acts) /\ Adds(t, s, NewsOf(w), DestJobs) /\ Same4(t, s)
      /\ Akin(t.dest, w)
  BY <1>1, <1>2, <1>3, WithDestRuns
<1> HIDE DEF t
<1>6. /\ Takes(t.dest) <=> Takes(w)
      /\ Keeps(t.dest) <=> Keeps(w)
      /\ Ended(t.dest) <=> Ended(w)
  BY <1>5, AkinMoves DEF Akin, Keeps
<1>7. /\ Gone(s) => Gone(t)
      /\ Pending(t, n, p)
      /\ (Ended(t.dest) => Ended(s.dest)) => Shut(t, acts)
  BY <1>1, <1>2, <1>4, <1>5, <1>6, FlowStays
<1>8. t.pipe.lock = s.pipe.lock
  BY <1>5 DEF Same4, Calm
<1>9. Shut(t, acts)
  BY <1>1, <1>6, <1>7, <1>8 DEF Shut, Gone
<1>10. Flow(t, b, n, p, m, acts)
  BY <1>5, <1>7, <1>9 DEF Flow
<1>11. Steps(t, s, a, m, acts)
  BY <1>1, <1>4, <1>5, <1>6, <1>10 DEF Steps, Same4
<1> QED
  BY <1>11 DEF t, s

\* The sink acts, or the program aborts a stream without a writer.
LEMMA MoveSteps ==
  ASSUME PlanInv, NEW a, NEW n, NEW p, NEW m, NEW prog, Flow(Now, a, n, p, m, prog),
         NEW w, Moves(w, dest), NEW acts, prog \subseteq acts,
         "cancel" \in acts => "cancel" \in prog, "close" \in acts => "close" \in prog
  PROVE  Steps(WithDest(Now, w), Now, a, m, acts)
<1> DEFINE s == Now
<1>1. s.dest = dest
  BY Presently
<1>2. Runs(s, a, n, p, m, prog) /\ Order(dest, a, n)
  BY <1>1 DEF Flow, Drive
<1> HIDE DEF s
<1>3. /\ Tame(w) /\ Follows(w, dest)
      /\ CloseTold \in NewsOf(w) => w.state = "closed"
      /\ Takes(w) => \A e \in NewsOf(w) : e[1] = "write" => e[2] = dest.inFlightWrite
  BY DEF Moves
<1>4. PICK b : Order(w, b, n) /\ (b = a \/ (b = a + 1 /\ Takes(w) /\ Takes(dest)))
  <2>1. Order(w, a, n) \/ (Order(w, a + 1, n) /\ Takes(w) /\ Takes(dest))
    BY <1>2 DEF Moves
  <2>2. Order(w, a, n) => Order(w, a, n) /\ (a = a \/ (a = a + 1 /\ Takes(w) /\ Takes(dest)))
    OBVIOUS
  <2>3. Order(w, a + 1, n) /\ Takes(w) /\ Takes(dest) =>
          Order(w, a + 1, n) /\ (a + 1 = a \/ (a + 1 = a + 1 /\ Takes(w) /\ Takes(dest)))
    OBVIOUS
  <2> QED
    BY <2>1, <2>2, <2>3
<1>5. Takes(w) => \A e \in NewsOf(w) : e[1] = "write" /\ e[2] \in Ours =>
                    a > 0 /\ a <= n /\ e[2] = Chunks[a]
  <2>1. SUFFICES ASSUME Takes(w), NEW e \in NewsOf(w), e[1] = "write", e[2] \in Ours
                 PROVE  a > 0 /\ a <= n /\ e[2] = Chunks[a]
    OBVIOUS
  <2>2. Takes(dest) /\ e[2] = dest.inFlightWrite
    BY <1>3, <2>1 DEF Follows
  <2>3. Waiting(dest, a, n) /\ a <= n
    BY <1>2, <2>2 DEF Order, Takes
  <2> QED
    BY <2>1, <2>2, <2>3 DEF Waiting
<1>6. Keeps(w) /\ ~ Takes(w) /\ Takes(dest) => p = n
  BY <1>3 DEF Follows
<1>7. DOMAIN w = DOMAIN W!NewWritable /\ w.news \in Seq(WEvents)
  BY <1>3 DEF Tame, Typed
<1>8. "close" \in acts => ~ Takes(w)
  <2>1. "close" \in acts => ~ Takes(s.dest)
    BY <1>2 DEF Runs
  <2> QED
    BY <1>1, <1>3, <2>1 DEF Follows
<1>9. Delivers1(w, s, a, n, p, m, prog, b, acts)
  BY <1>1, <1>3, <1>4, <1>5, <1>6, <1>7, <1>8 DEF Delivers1, Follows
<1> QED
  BY <1>3, <1>9, DeliverSteps DEF s, Follows

\* A chunk more in the queue of the source.
LEMMA LongerSupply ==
  ASSUME NEW s, DOMAIN s = {"source", "dest", "pipe", "jobs"},
         NEW n \in Nat, NEW p \in Nat, NEW m \in Nat, NEW prog, Supply(s, n, p, m, prog),
         s.source.state = "readable", s.source.queue \in Seq(Ours),
         NEW v, v.queue = Append(s.source.queue, Chunks[m + 1]), Chunks[m + 1] \in Ours
  PROVE  Supply([s EXCEPT !.source = v], n, p, m + 1, prog)
<1> DEFINE u == [s EXCEPT !.source = v]
           q == s.source.queue
           k == Len(q)
<1>1. u.source = v /\ u.dest = s.dest
  OBVIOUS
<1> HIDE DEF u
<1>2. k \in Nat /\ Len(v.queue) = k + 1 /\ v.queue[k + 1] = Chunks[m + 1]
      /\ \A i \in 1 .. k : v.queue[i] = q[i]
  OBVIOUS
<1>3. \A i \in 1 .. k : q[i] = Chunks[p + i]
  BY DEF Supply
<1>4. Whole(s, prog)
  BY DEF Whole
<1>5. p + k = m /\ n <= p /\ p <= n + 1 /\ (~ Takes(s.dest) => p = n)
  BY <1>4 DEF Supply
<1> HIDE DEF k
<1>6. \A i \in 1 .. k + 1 : v.queue[i] = Chunks[p + i]
  <2>1. TAKE i \in 1 .. k + 1
  <2>2. i \in 1 .. k \/ i = k + 1
    BY <1>2
  <2>3. p + (k + 1) = m + 1
    BY <1>2, <1>5
  <2> QED
    BY <1>2, <1>3, <2>2, <2>3
<1>7. p + (k + 1) = m + 1
  BY <1>2, <1>5
<1>8. /\ Len(u.source.queue) = k + 1 /\ (~ Takes(u.dest) => p = n)
      /\ \A i \in 1 .. k + 1 : u.source.queue[i] = Chunks[p + i]
  BY <1>1, <1>2, <1>5, <1>6
<1>9. p + (k + 1) <= m + 1
  BY <1>7
<1>10. Supply(u, n, p, m + 1, prog)
  BY <1>5, <1>7, <1>8, <1>9 DEF Supply
<1> QED
  BY <1>10 DEF u

\* A chunk that goes to the read that waits for it.
LEMMA HandedSupply ==
  ASSUME NEW s, DOMAIN s = {"source", "dest", "pipe", "jobs"},
         NEW n \in Nat, NEW m \in Nat, NEW prog, Supply(s, n, n, m, prog),
         s.source.state = "readable", s.source.queue = <<>>,
         NEW v, v.queue = <<>>, Takes(s.dest)
  PROVE  m = n /\ Supply([s EXCEPT !.source = v], n, n + 1, m + 1, prog)
<1> DEFINE u == [s EXCEPT !.source = v]
<1>1. u.source = v /\ u.dest = s.dest
  OBVIOUS
<1> HIDE DEF u
<1>2. Len(v.queue) = 0 /\ Len(s.source.queue) = 0
  OBVIOUS
<1>3. Whole(s, prog)
  BY DEF Whole
<1>4. n + 0 = m
  BY <1>2, <1>3 DEF Supply
<1>5. /\ Len(u.source.queue) = 0 /\ Takes(u.dest)
      /\ n + 1 + 0 = m + 1 /\ n <= n + 1 /\ n + 1 <= m + 1
  BY <1>1, <1>2, <1>4
<1>6. \A i \in 1 .. 0 : u.source.queue[i] = Chunks[n + 1 + i]
  OBVIOUS
<1>7. Supply(u, n, n + 1, m + 1, prog)
  BY <1>5, <1>6 DEF Supply
<1> QED
  BY <1>4, <1>7 DEF u

\* The source enqueues a chunk.
LEMMA EnqueueSteps ==
  ASSUME PlanInv, NEW a, NEW n, NEW p, Flow(Now, a, n, p, enqueued, program),
         R!CanCloseOrEnqueue(source), enqueued < Len(Chunks)
  PROVE  Steps(WithSource(Now, R!Enqueue(source, Chunks[enqueued + 1])), Now, a,
               enqueued + 1, program)
<1> DEFINE s == Now
           m == enqueued
           c == Chunks[m + 1]
           v == R!Enqueue(source, c)
           t == WithSource(s, v)
           asked == source.readRequests # 0
           q == IF asked /\ Reliable(s) THEN p + 1 ELSE p
<1>1. /\ Loops(s) /\ Plan(s) /\ Sure(s) /\ Turn(s) /\ Line(s.jobs)
      /\ s.source = source /\ s.pipe = pipe /\ s.dest = dest
      /\ Heeded(source) /\ RInv(source) /\ Locks(pipe, dest, source)
  BY Presently
<1> HIDE DEF s
<1>2. /\ Runs(s, a, n, p, m, program) /\ Order(dest, a, n) /\ Pending(s, n, p)
      /\ Shut(s, program)
  BY <1>1 DEF Flow, Drive, s
<1>3. /\ a \in Nat /\ n \in Nat /\ p \in Nat /\ m \in Nat /\ m + 1 \in Nat /\ m + 1 <= Len(Chunks)
      /\ Len(Chunks) \in Nat /\ Stocked(source)
  BY <1>1, <1>2, EveryChunk DEF Runs
<1> HIDE DEF m
<1>4. c \in Ours
  BY <1>3, EveryChunk
<1> HIDE DEF c
<1>5. source.state = "readable"
  BY DEF R!CanCloseOrEnqueue
<1>6. "cancel" \notin program
  BY <1>1, <1>2, <1>5 DEF Runs
<1>7. asked => s.pipe.lock = "held" /\ ~ Going(s) /\ source.reader
  BY <1>1 DEF Loops, Places, Asked, Locks
<1>8. /\ Stocked(v) /\ v.state = "readable" /\ \A e \in NewsOf(v) : ~ TellsEnd(e)
      /\ asked => source.queue = <<>> /\ v.queue = <<>> /\ NewsOf(v) = {<<"read", c>>}
      /\ ~ asked => v.queue = Append(source.queue, c) /\ NewsOf(v) = {}
      /\ RInv(v) /\ Serves(v, source, FALSE)
  BY <1>1, <1>3, <1>4, <1>7, EnqueueGives, EnqueueInv, EnqueueServes
<1> HIDE DEF v
<1>9. asked /\ Reliable(s) => p = n
  <2>1. HasMine(s.jobs) => Going(s)
    BY DEF HasMine, Mine, Going, Has, LoopKinds
  <2> QED
    BY <1>2, <1>7, <2>1 DEF Pending
<1>10. asked /\ Reliable(s) => Takes(s.dest)
  BY <1>1, <1>2, <1>5, <1>7, ReadableTakes
<1>11. Reliable(s) => Supply(s, n, p, m, program)
  BY <1>2 DEF Runs
<1>12. DOMAIN s = {"source", "dest", "pipe", "jobs"}
  BY <1>1 DEF Turn
<1>13. asked /\ Reliable(s) => m = n /\ Supply([s EXCEPT !.source = v], n, q, m + 1, program)
  BY <1>1, <1>3, <1>5, <1>8, <1>9, <1>10, <1>11, <1>12, HandedSupply
<1>14. ~ asked /\ Reliable(s) => Supply([s EXCEPT !.source = v], n, q, m + 1, program)
  <2>1. source.queue \in Seq(Ours)
    BY <1>3 DEF Stocked
  <2> QED
    BY <1>1, <1>3, <1>4, <1>5, <1>8, <1>11, <1>12, <2>1, LongerSupply DEF c
<1>15. Reliable(s) => \A e \in NewsOf(v) : e[1] = "read" /\ e[2] \in Ours =>
                        q = n + 1 /\ e[2] = Chunks[q]
  <2>1. SUFFICES ASSUME Reliable(s), NEW e \in NewsOf(v)
                 PROVE  q = n + 1 /\ e[2] = Chunks[q]
    OBVIOUS
  <2>2. asked /\ e = <<"read", c>>
    BY <1>8, <2>1
  <2> QED
    BY <1>9, <1>13, <2>1, <2>2 DEF c
<1>16. q \in Nat /\ (q = p \/ (q = p + 1 /\ q <= n + 1 /\ s.pipe.lock # "idle"))
  BY <1>3, <1>7, <1>9
<1>17. DOMAIN v = DOMAIN R!NewReadable
  BY <1>8 DEF RInv
<1>18. \A e \in NewsOf(v) : TellsEnd(e) => v.state = "closed"
  BY <1>8
<1>19. Reliable(s) => Supply([s EXCEPT !.source = v], n, q, m + 1, program)
  BY <1>13, <1>14
<1> HIDE DEF q, asked
<1>20. Gives1(v, s, n, p, m, program, q, m + 1, program)
  BY <1>1, <1>3, <1>5, <1>6, <1>8, <1>15, <1>16, <1>17, <1>18, <1>19 DEF Gives1
<1>21. GoesWith(t, s, v, a, n, q, m + 1, program)
  BY <1>1, <1>2, <1>8, <1>20, WithSourceRuns
<1> HIDE DEF t
<1>22. /\ Runs(t, a, n, q, m + 1, program) /\ Adds(t, s, NewsOf(v), SourceJobs)
       /\ Same4(t, s) /\ t.dest = s.dest
       /\ \A e \in NewsOf(v) : e[1] = "read" /\ e[2] \in Ours => HasMine(t.jobs)
  BY <1>21 DEF GoesWith
<1>23. Reliable(t) <=> Reliable(s)
  BY <1>22 DEF Reliable, Same4, Calm
<1>24. Shut(t, program) /\ (Pending(s, n, p) => Pending(t, n, p))
  BY <1>1, <1>2, <1>22, FlowStays
<1>25. Pending(t, n, q)
  <2>1. CASE asked /\ Reliable(s)
    <3>1. <<"read", c>> \in NewsOf(v)
      BY <1>8, <2>1 DEF asked
    <3>2. HasMine(t.jobs)
      BY <1>4, <1>22, <3>1
    <3> QED
      BY <3>2 DEF Pending
  <2>2. CASE ~ (asked /\ Reliable(s))
    BY <1>2, <1>24, <2>2 DEF q
  <2> QED
    BY <2>1, <2>2
<1>26. Flow(t, a, n, q, m + 1, program)
  BY <1>1, <1>2, <1>22, <1>24, <1>25 DEF Flow, Drive
<1>27. Steps(t, s, a, m + 1, program)
  BY <1>22, <1>26 DEF Steps, Same4
<1> QED
  BY <1>27 DEF t, s, v, m, c

\* A stream without a writer that takes writes has seen none of a pipe.
LEMMA Unpiped ==
  ASSUME PlanInv, NEW a, NEW n, NEW p, NEW m, NEW prog, Flow(Now, a, n, p, m, prog),
         ~ dest.writer
  PROVE  /\ pipe.lock \in {"idle", "released"}
         /\ Takes(dest) => a = n /\ p = n
<1>1. /\ Sure(Now) /\ Now.pipe = pipe /\ Now.dest = dest /\ Locks(pipe, dest, source)
  BY Presently
<1>2. pipe.lock \in {"idle", "released"}
  BY <1>1 DEF Locks
<1>3. pipe.lock = "released" => ~ Takes(dest)
  BY <1>1 DEF Sure, Gone, Past
<1>4. pipe.lock = "idle" => n = 0 /\ p = 0
  BY <1>1 DEF Flow, Drive, Runs
<1>5. a \in Nat /\ a <= n
  BY DEF Flow, Drive, Order
<1> QED
  BY <1>2, <1>3, <1>4, <1>5

\* The program writes through a writer of its own.
LEMMA ProgramWriteSteps ==
  ASSUME PlanInv, NEW a, NEW n, NEW p, NEW m, NEW prog, Flow(Now, a, n, p, m, prog),
         ~ dest.writer
  PROVE  Steps(WithDest(Now, W!WriterRelease(W!WriterWrite(W!AcquireWriter(dest), UserChunk))),
               Now, a, m, prog \cup {"write"})
<1> DEFINE x == W!AcquireWriter(dest)
           y == W!WriterWrite(x, UserChunk)
           d == W!WriterRelease(y)
           s == Now
           acts == prog \cup {"write"}
<1>1. /\ WInv(dest) /\ Level(dest) /\ dest.news = <<>> /\ s.dest = dest
  BY Presently DEF Loops
<1>2. Runs(s, a, n, p, m, prog) /\ Order(dest, a, n) /\ a \in Nat
  BY <1>1 DEF Flow, Drive, Runs
<1>3. Takes(dest) => a = n /\ p = n
  BY Unpiped
<1> HIDE DEF s
<1>4. WInv(x) /\ x.news = <<>> /\ Drift(x, dest)
  BY <1>1, AcquireInv, AcquireFine, OthersMove
<1> HIDE DEF x
<1>5. Follows(x, dest) /\ Order(x, a, n)
  BY <1>2, <1>4, DriftOrder
<1>6. UserChunk \in AllChunks /\ UserChunk \notin Ours
  BY ChunksAssumption DEF AllChunks, Ours
<1>7. Takes(x) => a = n
  BY <1>3, <1>5 DEF Follows
<1>8. /\ Tame(y) /\ Follows(y, x) /\ CloseTold \notin NewsOf(y)
      /\ Takes(y) => \A e \in NewsOf(y) : e[1] # "write"
      /\ Order(y, a, n) \/ (Order(y, a + 1, n) /\ Takes(y) /\ Takes(x))
  BY <1>4, <1>5, <1>6, <1>7, WriteMoves
<1>9. Order(y, a, n)
  BY <1>2, <1>7, <1>8 DEF Order
<1> HIDE DEF y
<1>10. Drift(d, y)
  BY <1>8, ReleaseDrift
<1> HIDE DEF d
<1>11. Follows(d, y) /\ Order(d, a, n) /\ Tame(d)
  BY <1>9, <1>10, DriftOrder DEF Drift
<1>12. Follows(d, dest)
  BY <1>5, <1>8, <1>11 DEF Follows
<1>13. CloseTold \notin NewsOf(d) /\ (Takes(d) => \A e \in NewsOf(d) : e[1] # "write")
  BY <1>8, <1>10, <1>11 DEF Drift, Takes, Follows
<1>14. DOMAIN d = DOMAIN W!NewWritable /\ d.news \in Seq(WEvents)
  BY <1>11 DEF Tame, Typed
<1>15. /\ prog \subseteq acts /\ ("cancel" \in acts => "cancel" \in prog)
       /\ "close" \in acts => "close" \in prog
  OBVIOUS
<1> HIDE DEF acts
<1>16. "close" \in acts => ~ Takes(d)
  BY <1>1, <1>2, <1>12, <1>15 DEF Runs, Follows
<1>17. Delivers1(d, s, a, n, p, m, prog, a, acts)
  BY <1>1, <1>3, <1>11, <1>12, <1>13, <1>14, <1>15, <1>16 DEF Delivers1, Follows
<1>18. Steps(WithDest(s, d), s, a, m, acts)
  BY <1>12, <1>17, DeliverSteps DEF s, Follows
<1> QED
  BY <1>18 DEF s, d, y, x, acts

\* The program closes a stream without a writer.
LEMMA ProgramCloseSteps ==
  ASSUME PlanInv, NEW a, NEW n, NEW p, NEW m, NEW prog, Flow(Now, a, n, p, m, prog),
         ~ dest.writer, ~ W!CloseQueuedOrInFlight(dest)
  PROVE  Steps(WithDest(Now, W!StreamClose(dest)), Now, a, m, prog \cup {"close"})
<1> DEFINE s == Now
           w == W!StreamClose(dest)
           acts == prog \cup {"close"}
<1>1. /\ WInv(dest) /\ dest.news = <<>> /\ s.dest = dest /\ s.pipe = pipe
  BY Presently
<1>2. Order(dest, a, n)
  BY <1>1 DEF Flow, Drive
<1>3. pipe.lock \in {"idle", "released"} /\ (Takes(dest) => a = n /\ p = n)
  BY Unpiped
<1> HIDE DEF s
<1>4. Closes(w, dest) /\ CloseTold \notin NewsOf(w)
  BY <1>1, CloseMoves
<1> HIDE DEF w
<1>5. /\ Tame(w) /\ ~ Takes(w) /\ (Keeps(w) => Keeps(dest))
      /\ dest.state = "closed" => w.state = "closed"
      /\ Order(w, a, n)
  BY <1>2, <1>3, <1>4 DEF Closes
<1>6. DOMAIN w = DOMAIN W!NewWritable /\ w.news \in Seq(WEvents)
  BY <1>5 DEF Tame, Typed
<1>7. prog \subseteq acts /\ ("cancel" \in acts => "cancel" \in prog) /\ "close" \in acts
  OBVIOUS
<1> HIDE DEF acts
<1>8. Delivers1(w, s, a, n, p, m, prog, a, acts)
  BY <1>1, <1>3, <1>4, <1>5, <1>6, <1>7 DEF Delivers1
<1>9. Steps(WithDest(s, w), s, a, m, acts)
  BY <1>3, <1>7, <1>8, DeliverSteps DEF s
<1> QED
  BY <1>9 DEF s, w, acts

\* The program cancels a source without a reader.
LEMMA ProgramCancelSteps ==
  ASSUME PlanInv, NEW a, NEW n, NEW p, NEW m, NEW prog, Flow(Now, a, n, p, m, prog),
         ~ source.reader
  PROVE  Steps(WithSource(Now, R!StreamCancel(source)), Now, a, m, prog \cup {"cancel"})
<1> DEFINE s == Now
           v == R!StreamCancel(source)
           t == WithSource(s, v)
           u == [s EXCEPT !.source = v]
           acts == prog \cup {"cancel"}
<1>1. /\ Plan(s) /\ Turn(s) /\ Line(s.jobs) /\ Heeded(source) /\ Locks(pipe, dest, source)
      /\ s.source = source /\ s.dest = dest /\ s.pipe = pipe
  BY Presently
<1> HIDE DEF s
<1>2. Runs(s, a, n, p, m, prog) /\ Order(dest, a, n) /\ Pending(s, n, p) /\ Shut(s, prog)
  BY <1>1 DEF Flow, Drive, s
<1>3. Stocked(source) /\ p \in Nat /\ m \in Nat /\ m <= Len(Chunks)
  BY <1>1, <1>2 DEF Runs
<1>4. /\ RInv(v) /\ Serves(v, source, FALSE)
      /\ Ebbs(v, source) /\ v.state # "readable" /\ v.queue = <<>>
  BY <1>1, <1>3, CancelInv, CancelServes, CancelEbbs DEF Heeded
<1> HIDE DEF v
<1>5. u.source = v /\ u.dest = s.dest /\ u.pipe = s.pipe
  BY <1>1 DEF Turn
<1> HIDE DEF u
<1>6. /\ prog \subseteq acts /\ "cancel" \in acts /\ ("close" \in acts => "close" \in prog)
  OBVIOUS
<1> HIDE DEF acts
<1>7. Reliable(s) => Supply(u, n, p, m, acts)
  <2>1. SUFFICES ASSUME Reliable(s)
                 PROVE  Supply(u, n, p, m, acts)
    OBVIOUS
  <2>2. Supply(s, n, p, m, prog)
    BY <1>2, <2>1 DEF Runs
  <2>3. Len(source.queue) \in Nat /\ Len(v.queue) = 0
    BY <1>3, <1>4 DEF Stocked
  <2>4. p <= m
    BY <1>1, <1>3, <2>2, <2>3 DEF Supply
  <2>5. ~ Whole(u, acts)
    BY <1>4, <1>5, <1>6 DEF Whole
  <2> QED
    BY <1>3, <1>4, <1>5, <2>2, <2>3, <2>4, <2>5 DEF Supply
<1>8. s.pipe.lock # "released" => p = 0
  BY <1>1, <1>2 DEF Runs, Locks
<1>9. /\ source.state = "closed" => v.state = "closed"
      /\ \A e \in NewsOf(v) : /\ e[1] = "read" => e[2] \notin Ours
                              /\ TellsEnd(e) => v.state = "closed"
      /\ DOMAIN v = DOMAIN R!NewReadable /\ Stocked(v)
  BY <1>4 DEF Ebbs, RInv
<1>10. Gives1(v, s, n, p, m, prog, p, m, acts)
  BY <1>1, <1>3, <1>4, <1>6, <1>7, <1>8, <1>9 DEF Gives1, u
<1>11. GoesWith(t, s, v, a, n, p, m, acts)
  BY <1>1, <1>2, <1>4, <1>10, WithSourceRuns
<1> HIDE DEF t
<1>12. /\ Runs(t, a, n, p, m, acts) /\ Adds(t, s, NewsOf(v), SourceJobs)
       /\ Same4(t, s) /\ t.dest = s.dest
  BY <1>11 DEF GoesWith
<1>13. Pending(t, n, p) /\ Shut(t, acts)
  BY <1>1, <1>2, <1>6, <1>12, FlowStays
<1>14. Flow(t, a, n, p, m, acts)
  BY <1>1, <1>2, <1>12, <1>13 DEF Flow, Drive
<1>15. Steps(t, s, a, m, acts)
  BY <1>12, <1>14 DEF Steps, Same4
<1> QED
  BY <1>15 DEF t, s, v, acts

-----------------------------------------------------------------------------
(* The signal aborts, and the pipe begins.                                 *)

\* The abort signal ends the pipe.
LEMMA SignalSteps ==
  ASSUME PlanInv, SignalAborts, NEW a, NEW n, NEW p, Flow(Now, a, n, p, enqueued, program)
  PROVE  LET s == [Now EXCEPT !.pipe.signalled = TRUE]
         IN  Steps(ShutdownWithAction(s, "signal", TRUE), Now, a, enqueued, program)
<1> DEFINE s == [Now EXCEPT !.pipe.signalled = TRUE]
           t == ShutdownWithAction(s, "signal", TRUE)
           m == enqueued
<1>1. /\ Good(Now) /\ Loops(Now) /\ Sure(Now) /\ Plan(Now) /\ Turn(Now) /\ Now.pipe = pipe
  BY Presently
<1>2. Drive(Now, a, n, p, m, program) /\ Runs(Now, a, n, p, m, program)
  BY DEF Flow, Drive
<1> HIDE DEF m
<1>3. /\ s.source = Now.source /\ s.dest = Now.dest /\ s.jobs = Now.jobs
      /\ s.pipe.lock = Now.pipe.lock /\ s.pipe.shuttingDown = Now.pipe.shuttingDown
      /\ s.pipe.action = Now.pipe.action /\ s.pipe.isError = Now.pipe.isError
      /\ s.pipe.currentWrite = Now.pipe.currentWrite
      /\ s.pipe.currentDone = Now.pipe.currentDone /\ s.pipe.outcome = Now.pipe.outcome
      /\ s.pipe.parts = Now.pipe.parts /\ s.pipe.waitsOn = Now.pipe.waitsOn
      /\ s.pipe.asserts = Now.pipe.asserts /\ s.pipe.options = Now.pipe.options
      /\ DOMAIN s = DOMAIN Now /\ DOMAIN s.pipe = DOMAIN Now.pipe
  BY <1>1, PipeFields DEF Turn
<1>4. Loops(s)
  BY <1>1, ClosureOnward DEF Onward
<1> HIDE DEF s
<1>5. Same(s, Now)
  BY <1>3 DEF Same
<1>6. Good(s)
  BY <1>1, <1>5, SameFits
<1>7. Sure(s)
  BY <1>1, <1>3, AsideSure DEF Steady
<1>8. Calm(s, Now) /\ (Gone(Now) => Gone(s))
  BY <1>3 DEF Calm, Gone
<1>9. Halts(s, Now, a, n, p, m, program)
  BY <1>1, <1>2, <1>3, <1>8, CalmHalts DEF Runs
<1>10. s.pipe.lock = "held"
  BY <1>1, <1>3 DEF SignalAborts
<1>11. Drive(s, a, n, p, m, program)
  BY <1>9 DEF Halts
<1>12. Halts(t, s, a, n, p, m, program)
  BY <1>4, <1>6, <1>7, <1>10, <1>11, EndsHalt
<1> HIDE DEF t
<1>13. Halts(t, Now, a, n, p, m, program)
  BY <1>9, <1>12, HaltsTwice
<1>14. Steps(t, Now, a, m, program)
  BY <1>13, HaltsStep DEF m
<1> QED
  BY <1>14 DEF t, s, m

\* A pipe starts on streams that no pipe has touched.
LEMMA BegunDrives ==
  ASSUME PlanInv, PipeStreams, NEW options, options \subseteq {"preventClose"},
         NEW a, NEW n, NEW p, Flow(Now, a, n, p, enqueued, program)
  PROVE  LET s == Begun(options)
         IN  /\ a = 0 /\ n = 0 /\ p = 0 /\ Drive(s, 0, 0, 0, enqueued, program)
             /\ ~ s.pipe.shuttingDown
             /\ Ended(s.dest) => "close" \in program
             /\ s.source.state = "closed" => enqueued = 0 \/ "cancel" \in program
             /\ Takes(s.dest) => Takes(dest)
             /\ s.pipe.outcome = pipe.outcome
<1> DEFINE s == Begun(options)
           m == enqueued
<1>1. /\ s.jobs = jobs /\ s.source = R!AcquireReader(source) /\ s.dest = W!AcquireWriter(dest)
      /\ s.pipe = [pipe EXCEPT !.lock = "held", !.options = options]
  BY BegunLoops DEF PlanInv
<1> HIDE DEF s
<1>2. /\ Sure(Now) /\ Plan(Now) /\ Turn(Now) /\ WInv(dest) /\ dest.news = <<>> /\ Heeded(source)
      /\ Now.source = source /\ Now.dest = dest /\ Now.pipe = pipe /\ Now.jobs = jobs
  BY Presently
<1>3. pipe.lock = "idle"
  BY DEF PipeStreams
<1>4. /\ s.pipe.lock = "held" /\ s.pipe.shuttingDown = pipe.shuttingDown
      /\ s.pipe.action = pipe.action /\ s.pipe.isError = pipe.isError
      /\ s.pipe.currentWrite = pipe.currentWrite /\ s.pipe.currentDone = pipe.currentDone
      /\ s.pipe.outcome = pipe.outcome /\ s.pipe.parts = pipe.parts
  BY <1>1, <1>2, PipeFields DEF Turn
<1>5. /\ Runs(Now, a, n, p, m, program) /\ Order(dest, a, n) /\ Shut(Now, program)
  BY <1>2 DEF Flow, Drive
<1>6. /\ a = 0 /\ n = 0 /\ p = 0 /\ m \in Nat /\ m <= Len(Chunks) /\ ~ pipe.shuttingDown
      /\ Stocked(source)
  BY <1>2, <1>3, <1>5 DEF Runs, Order
<1>7. Drift(s.dest, dest)
  BY <1>1, <1>2, OthersMove
<1>8. Follows(s.dest, dest) /\ Order(s.dest, 0, 0)
  BY <1>5, <1>6, <1>7, DriftOrder
<1>9. /\ Stocked(s.source) /\ s.source.state = source.state /\ s.source.queue = source.queue
  <2>1. /\ s.source.state = source.state /\ s.source.queue = source.queue
    BY <1>1, <1>2, ReadFields DEF R!AcquireReader, Heeded, RInv
  <2>2. Stocked(s.source)
    <3>1. LET v == R!AcquireReader(source) IN Ebbs(v, source)
      BY <1>2, <1>6, ReaderEbbs
    <3> QED
      BY <1>1, <3>1 DEF Ebbs
  <2> QED
    BY <2>1, <2>2
<1> HIDE DEF m
<1>10. Reliable(Now)
  BY <1>2, <1>3 DEF Reliable
<1>11. Supply(Now, 0, 0, m, program)
  BY <1>5, <1>6, <1>10 DEF Runs
<1>12. Supply(s, 0, 0, m, program)
  <2>1. Whole(s, program) => Whole(Now, program)
    BY <1>2, <1>4, <1>9 DEF Whole
  <2> QED
    BY <1>2, <1>9, <1>11, <2>1 DEF Supply
<1>13. ASSUME NEW i \in 1 .. Len(s.jobs)
       PROVE  Knows(s.jobs[i], s, 0, 0, 0, m, program)
  <2>1. Knows(s.jobs[i], Now, 0, 0, 0, m, program)
    BY <1>1, <1>2, <1>5, <1>6 DEF Runs
  <2>2. s.dest.state = "closed" \/ dest.state # "closed"
    BY <1>8 DEF Follows
  <2> QED
    BY <1>2, <1>4, <1>8, <1>9, <1>10, <2>1, <2>2 DEF Knows, Follows
<1>14. /\ "cancel" \in program => s.source.state # "readable"
       /\ "close" \in program => ~ Takes(s.dest)
  BY <1>2, <1>5, <1>8, <1>9 DEF Runs, Follows
<1>15. Takes(s.dest) => s.pipe.currentWrite = NoWrite
  BY <1>2, <1>4, <1>5, <1>6, <1>8 DEF Runs, Follows
<1>16. s.pipe.action = "close" =>
         s.source.state = "closed" /\ s.pipe.parts \subseteq {"close"} /\ WaitsLast(s.jobs)
  BY <1>1, <1>2, <1>4, <1>5, <1>9 DEF Runs
<1>17. Runs(s, 0, 0, 0, m, program)
  BY <1>4, <1>6, <1>9, <1>12, <1>13, <1>14, <1>15, <1>16 DEF Runs
<1>18. Ended(s.dest) => "close" \in program
  <2>1. ~ Ending(Now)
    BY <1>2, <1>3 DEF Plan
  <2>2. ~ Gone(Now)
    BY <1>2, <1>3, <2>1 DEF Gone, Ending, Has, EndKinds
  <2> QED
    BY <1>2, <1>5, <1>8, <2>2 DEF Shut, Follows
<1>19. s.source.state = "closed" => m = 0 \/ "cancel" \in program
  <2>1. SUFFICES ASSUME s.source.state = "closed", "cancel" \notin program
                 PROVE  m = 0
    OBVIOUS
  <2>2. Whole(s, program)
    BY <1>4, <1>6, <2>1 DEF Whole
  <2>3. Len(s.source.queue) = 0
    BY <1>9, <2>1 DEF Stocked
  <2> QED
    BY <1>12, <2>2, <2>3 DEF Supply
<1>20. Takes(s.dest) => Takes(dest)
  BY <1>8 DEF Follows
<1>21. Drive(s, 0, 0, 0, m, program) /\ ~ s.pipe.shuttingDown /\ s.pipe.outcome = pipe.outcome
  BY <1>4, <1>6, <1>8, <1>17 DEF Drive
<1> QED
  BY <1>6, <1>18, <1>19, <1>20, <1>21 DEF s, m

\* A pipe that starts, on the way through the checks of its beginning.
Starting(s, prog) ==
  /\ Good(s) /\ Loops(s) /\ Sure(s) /\ s.pipe.lock # "idle"
  /\ Drive(s, 0, 0, 0, enqueued, prog) /\ Late(s)
  /\ Takes(s.dest) => Takes(dest)
  /\ s.pipe.outcome = pipe.outcome

\* A turn that stops the pipe leaves it starting.
LEMMA StartingStops ==
  ASSUME NEW prog, NEW s, Starting(s, prog), NEW t, Good(t), Loops(t), Sure(t),
         Stops(t, s, 0, 0, 0, enqueued, prog)
  PROVE  Starting(t, prog)
BY DEF Starting, Stops, Halts

\* The pipe finds a stream that has ended already.
LEMMA StartingEnds ==
  ASSUME NEW prog, NEW s, Starting(s, prog)
  PROVE  /\ s.source.state # "readable" =>
              Starting(SourceErrored(s), prog) /\ SourceErrored(s).pipe.shuttingDown
         /\ ~ Takes(s.dest) =>
              Starting(DestErrored(s), prog) /\ DestErrored(s).pipe.shuttingDown
         /\ /\ s.source.state = "closed"
            /\ ~ s.pipe.shuttingDown /\ Ended(s.dest) =>
                 "close" \in prog /\ (0 = enqueued \/ "cancel" \in prog)
            => Starting(SourceClosed(s), prog)
<1>1. /\ Good(s) /\ Loops(s) /\ Sure(s) /\ s.pipe.lock # "idle"
      /\ Drive(s, 0, 0, 0, enqueued, prog)
  BY DEF Starting
<1>2. /\ Good(SourceErrored(s)) /\ Good(DestErrored(s)) /\ Good(SourceClosed(s))
      /\ Loops(SourceErrored(s)) /\ Loops(DestErrored(s)) /\ Loops(SourceClosed(s))
  BY <1>1, EndsGood, EndsOnward DEF Onward
<1>3. /\ s.source.state # "readable" => Sure(SourceErrored(s)) /\ Sure(SourceClosed(s))
      /\ ~ Takes(s.dest) => Sure(DestErrored(s))
  BY <1>1, EndsEnds
<1>4. /\ s.source.state # "readable" =>
           /\ Stops(SourceErrored(s), s, 0, 0, 0, enqueued, prog)
           /\ SourceErrored(s).pipe.shuttingDown
      /\ ~ Takes(s.dest) =>
           Stops(DestErrored(s), s, 0, 0, 0, enqueued, prog) /\ DestErrored(s).pipe.shuttingDown
      /\ /\ s.source.state = "closed"
         /\ ~ s.pipe.shuttingDown /\ Ended(s.dest) =>
              "close" \in prog /\ (0 = enqueued \/ "cancel" \in prog)
         => Stops(SourceClosed(s), s, 0, 0, 0, enqueued, prog)
  BY <1>1, EndsHalt
<1>5. s.source.state = "closed" => s.source.state # "readable"
  OBVIOUS
<1> QED
  BY <1>2, <1>3, <1>4, <1>5, StartingStops

\* A pipe starts.
LEMMA PipeSteps ==
  ASSUME PlanInv, PipeOptions \subseteq SUBSET {"preventClose"}, PipeStreams,
         NEW a, NEW n, NEW p, Flow(Now, a, n, p, enqueued, program)
  PROVE  \E t : Become(t) /\ Steps(t, Now, a, enqueued, program)
<1>1. PICK options \in PipeOptions :
        LET s1 == Begun(options)
            s2 == IF s1.source.state = "errored" THEN SourceErrored(s1) ELSE s1
            s3 == IF s2.dest.state = "errored" THEN DestErrored(s2) ELSE s2
            s4 == IF s3.source.state = "closed" THEN SourceClosed(s3) ELSE s3
            s5 == IF W!CloseQueuedOrInFlight(s4.dest) \/ s4.dest.state = "closed"
                  THEN DestErrored(s4) ELSE s4
        IN  Become(PipeStep(s5))
  BY DEF PipeStreams, Begun
<1> DEFINE s1 == Begun(options)
           s2 == IF s1.source.state = "errored" THEN SourceErrored(s1) ELSE s1
           s3 == IF s2.dest.state = "errored" THEN DestErrored(s2) ELSE s2
           s4 == IF s3.source.state = "closed" THEN SourceClosed(s3) ELSE s3
           s5 == IF W!CloseQueuedOrInFlight(s4.dest) \/ s4.dest.state = "closed"
                 THEN DestErrored(s4) ELSE s4
<1>2. Become(PipeStep(s5))
  BY <1>1
<1>3. options \subseteq {"preventClose"}
  OBVIOUS
<1>4. /\ a = 0 /\ n = 0 /\ p = 0 /\ Drive(s1, 0, 0, 0, enqueued, program)
      /\ ~ s1.pipe.shuttingDown
      /\ Ended(s1.dest) => "close" \in program
      /\ s1.source.state = "closed" => enqueued = 0 \/ "cancel" \in program
      /\ Takes(s1.dest) => Takes(dest)
      /\ s1.pipe.outcome = pipe.outcome
  BY <1>3, BegunDrives
<1>5. Good(s1) /\ Loops(s1) /\ s1.pipe.lock = "held" /\ Sure(s1)
  BY <1>3, BegunLoops, BegunEnds DEF PlanInv
<1> HIDE DEF s1
<1>6. Starting(s1, program)
  BY <1>4, <1>5 DEF Starting, Late
<1>7. Starting(s2, program) /\ (s2 = s1 \/ s2.pipe.shuttingDown)
  <2>1. s1.source.state = "errored" => s1.source.state # "readable"
    OBVIOUS
  <2> QED
    BY <1>6, <2>1, StartingEnds
<1> HIDE DEF s2
<1>8. Starting(s3, program) /\ (s3 = s1 \/ s3.pipe.shuttingDown)
  <2>1. s2.dest.state = "errored" => ~ Takes(s2.dest)
    BY DEF Takes
  <2> QED
    BY <1>7, <2>1, StartingEnds
<1> HIDE DEF s3
<1>9. Starting(s4, program)
  <2>1. s3.source.state = "closed" /\ ~ s3.pipe.shuttingDown /\ Ended(s3.dest) =>
          "close" \in program /\ (0 = enqueued \/ "cancel" \in program)
    BY <1>4, <1>8
  <2> QED
    BY <1>8, <2>1, StartingEnds
<1> HIDE DEF s4
<1>10. Starting(s5, program) /\ (Ended(s5.dest) => Gone(s5))
  <2>1. CASE W!CloseQueuedOrInFlight(s4.dest) \/ s4.dest.state = "closed"
    <3>1. ~ Takes(s4.dest)
      BY <2>1 DEF Takes
    <3>2. Starting(s5, program) /\ s5.pipe.shuttingDown
      BY <1>9, <2>1, <3>1, StartingEnds
    <3> QED
      BY <3>2 DEF Starting, Late
  <2>2. CASE ~ (W!CloseQueuedOrInFlight(s4.dest) \/ s4.dest.state = "closed")
    BY <1>9, <2>2 DEF Ended
  <2> QED
    BY <2>1, <2>2
<1> HIDE DEF s5
<1> DEFINE t == PipeStep(s5)
<1>11. Drive(s5, 0, 0, 0, enqueued, program) /\ Loops(s5) /\ Plan(s5)
       /\ (Takes(s5.dest) => Takes(dest)) /\ s5.pipe.outcome = pipe.outcome
  BY <1>10 DEF Starting, Sure
<1>12. Halts(t, s5, 0, 0, 0, enqueued, program)
  BY <1>11, StepHalts
<1> HIDE DEF t
<1>13. Pending(s5, 0, 0) /\ Shut(s5, program)
  BY <1>10 DEF Pending, Shut
<1>14. Flow(t, 0, 0, 0, enqueued, program)
  BY <1>12, <1>13, HaltsShut
<1>15. Now.dest = dest /\ Now.pipe = pipe
  BY DEF Now
<1>16. Steps(t, Now, a, enqueued, program)
  BY <1>4, <1>11, <1>12, <1>14, <1>15 DEF Steps, Halts
<1> QED
  BY <1>2, <1>16 DEF t

-----------------------------------------------------------------------------
(* The steps.                                                              *)

\* A step of the pipe: the program may do something that gives up no chunk, or nothing but the
\* end of the pipe happens, or the source gets one chunk more, or the program cancels it.
Passage(t, a) ==
  /\ Steps(t, Now, a, enqueued, program') /\ enqueued' = enqueued
  /\ program \subseteq program' /\ ("cancel" \in program' => "cancel" \in program)
Settlement(t, a) ==
  Concludes(t, Now, a, enqueued, program) /\ enqueued' = enqueued /\ program' = program
Offering(t, a) ==
  /\ Steps(t, Now, a, enqueued', program') /\ t.dest = dest
  /\ enqueued' = enqueued + 1 /\ enqueued < Len(Chunks)
  /\ program' = program /\ "cancel" \notin program
Withdrawal(t, a) ==
  /\ Steps(t, Now, a, enqueued', program') /\ t.dest = dest
  /\ enqueued' = enqueued /\ program' = program \cup {"cancel"}
Turned(t, a) == Passage(t, a) \/ Settlement(t, a) \/ Offering(t, a) \/ Withdrawal(t, a)

\* The source closes, fails or answers: nothing else changes.
LEMMA SourceTurns ==
  ASSUME PlanInv, NEW a, NEW n, NEW p, Flow(Now, a, n, p, enqueued, program),
         SourceCloses \/ SourceErrors \/ SourceStarts \/ SourcePulled \/ SourceCancelled
  PROVE  \E t : Become(t) /\ Passage(t, a)
<1>1. RInv(source) /\ Heeded(source)
  BY Presently
<1>2. UNCHANGED <<enqueued, program>>
  BY DEF SourceCloses, SourceErrors, SourceStarts, SourcePulled, SourceCancelled, SourceDoes
<1>3. SUFFICES \E v : /\ Become(WithSource(Now, v)) /\ RInv(v) /\ Serves(v, source, FALSE)
                      /\ (Stocked(source) => Ebbs(v, source) /\ Lasts(v, source))
  <2>1. PICK v : /\ Become(WithSource(Now, v)) /\ RInv(v) /\ Serves(v, source, FALSE)
                 /\ (Stocked(source) => Ebbs(v, source) /\ Lasts(v, source))
    BY <1>3
  <2>2. Steps(WithSource(Now, v), Now, a, enqueued, program)
    BY <2>1, SourceSteps
  <2> DEFINE t == WithSource(Now, v)
  <2>3. Become(t) /\ Steps(t, Now, a, enqueued, program)
    BY <2>1, <2>2
  <2> HIDE DEF t
  <2> QED
    BY <1>2, <2>3 DEF Passage
<1>4. CASE SourceCloses
  <2> DEFINE v == R!ControllerClose(source)
  <2>1. Become(WithSource(Now, v))
    BY <1>4 DEF SourceCloses, SourceDoes
  <2>2. RInv(v) /\ Serves(v, source, FALSE)
    BY <1>1, SourceCloseInv, SourceCloseServes
  <2>3. Stocked(source) => Ebbs(v, source) /\ Lasts(v, source)
    BY <1>1, SourceCloseEbbs
  <2> HIDE DEF v
  <2> QED
    BY <2>1, <2>2, <2>3
<1>5. CASE SourceErrors
  <2> DEFINE v == R!ControllerError(source)
  <2>1. Become(WithSource(Now, v))
    BY <1>5 DEF SourceErrors, SourceDoes
  <2>2. RInv(v) /\ Serves(v, source, FALSE)
    BY <1>1, SourceErrorInv, SourceErrorServes
  <2>3. Stocked(source) => Ebbs(v, source) /\ Lasts(v, source)
    BY <1>1, SourceErrorEbbs
  <2> HIDE DEF v
  <2> QED
    BY <2>1, <2>2, <2>3
<1>6. CASE SourceStarts
  <2>1. ~ source.started
    BY <1>6 DEF SourceStarts
  <2>2. PICK ok \in BOOLEAN : Become(WithSource(Now, R!FinishStart(source, ok)))
    BY <1>6 DEF SourceStarts, SourceDoes
  <2> DEFINE v == R!FinishStart(source, ok)
  <2>3. RInv(v)
    BY <1>1, <2>1, SourceInv
  <2>4. Serves(v, source, FALSE)
    BY <1>1, <2>1, AnswersServe
  <2>5. Stocked(source) => Ebbs(v, source) /\ Lasts(v, source)
    BY <1>1, <2>1, AnswersEbb
  <2>6. Become(WithSource(Now, v))
    BY <2>2
  <2> HIDE DEF v
  <2> QED
    BY <2>3, <2>4, <2>5, <2>6
<1>7. CASE SourcePulled
  <2>2. PICK ok \in BOOLEAN : Become(WithSource(Now, R!FinishPull(source, ok)))
    BY <1>7 DEF SourcePulled, SourceDoes
  <2> DEFINE v == R!FinishPull(source, ok)
  <2>3. RInv(v) /\ Serves(v, source, FALSE)
    BY <1>1, SourceInv, AnswersServe
  <2>5. Stocked(source) => Ebbs(v, source) /\ Lasts(v, source)
    BY <1>1, AnswersEbb
  <2>6. Become(WithSource(Now, v))
    BY <2>2
  <2> HIDE DEF v
  <2> QED
    BY <2>3, <2>5, <2>6
<1>8. CASE SourceCancelled
  <2>2. PICK ok \in BOOLEAN : Become(WithSource(Now, R!FinishCancel(source, ok)))
    BY <1>8 DEF SourceCancelled, SourceDoes
  <2> DEFINE v == R!FinishCancel(source, ok)
  <2>3. RInv(v) /\ Serves(v, source, FALSE)
    BY <1>1, SourceInv, AnswersServe
  <2>5. Stocked(source) => Ebbs(v, source) /\ Lasts(v, source)
    BY <1>1, AnswersEbb
  <2>6. Become(WithSource(Now, v))
    BY <2>2
  <2> HIDE DEF v
  <2> QED
    BY <2>3, <2>5, <2>6
<1> QED
  BY <1>4, <1>5, <1>6, <1>7, <1>8

\* The sink answers or fails, or the program uses it.
LEMMA DestTurns ==
  ASSUME PlanInv, NEW a, NEW n, NEW p, Flow(Now, a, n, p, enqueued, program),
         SinkAnswers \/ SinkErrors \/ ProgramWrites \/ ProgramCloses \/ ProgramAborts
  PROVE  \E t : Become(t) /\ Passage(t, a)
<1>1. WInv(dest) /\ dest.news = <<>>
  BY Presently
<1>2. CASE SinkAnswers
  <2>1. PICK ok \in BOOLEAN : Become(WithDest(Now, W!SinkAnswers(dest, ok)))
    BY <1>2 DEF SinkAnswers, DestDoes
  <2>2. dest.sink # "idle" /\ UNCHANGED <<enqueued, program>>
    BY <1>2 DEF SinkAnswers, DestDoes
  <2> DEFINE w == W!SinkAnswers(dest, ok)
  <2>3. Moves(w, dest)
    BY <1>1, <2>2, AnswersMoves
  <2>4. Become(WithDest(Now, w))
    BY <2>1
  <2> HIDE DEF w
  <2>5. Steps(WithDest(Now, w), Now, a, enqueued, program)
    BY <2>3, MoveSteps
  <2> DEFINE t == WithDest(Now, w)
  <2>6. Become(t) /\ Steps(t, Now, a, enqueued, program)
    BY <2>4, <2>5
  <2> HIDE DEF t
  <2> QED
    BY <2>2, <2>6 DEF Passage
<1>3. CASE SinkErrors
  <2> DEFINE w == W!ControllerError(dest)
  <2>1. dest.state = "writable" /\ Become(WithDest(Now, w)) /\ UNCHANGED <<enqueued, program>>
    BY <1>3 DEF SinkErrors, DestDoes
  <2>2. Moves(w, dest)
    BY <1>1, <2>1, OthersMove
  <2> HIDE DEF w
  <2>3. Steps(WithDest(Now, w), Now, a, enqueued, program)
    BY <2>2, MoveSteps
  <2> DEFINE t == WithDest(Now, w)
  <2>4. Become(t) /\ Steps(t, Now, a, enqueued, program)
    BY <2>1, <2>3
  <2> HIDE DEF t
  <2> QED
    BY <2>1, <2>4 DEF Passage
<1>4. CASE ProgramAborts
  <2> DEFINE w == W!StreamAbort(dest)
             acts == program \cup {"abort"}
  <2>1. Become(WithDest(Now, w)) /\ enqueued' = enqueued /\ program' = acts
    BY <1>4 DEF ProgramAborts, Program
  <2>2. Moves(w, dest)
    BY <1>1, OthersMove
  <2>3. program \subseteq acts /\ ("cancel" \in acts => "cancel" \in program)
        /\ ("close" \in acts => "close" \in program)
    OBVIOUS
  <2> HIDE DEF w, acts
  <2>4. Steps(WithDest(Now, w), Now, a, enqueued, acts)
    BY <2>2, <2>3, MoveSteps
  <2> DEFINE t == WithDest(Now, w)
  <2>5. Become(t) /\ Steps(t, Now, a, enqueued, acts)
    BY <2>1, <2>4
  <2> HIDE DEF t
  <2> QED
    BY <2>1, <2>3, <2>5 DEF Passage
<1>5. CASE ProgramWrites
  <2> DEFINE t == WithDest(Now, W!WriterRelease(W!WriterWrite(W!AcquireWriter(dest), UserChunk)))
             acts == program \cup {"write"}
  <2>1. ~ dest.writer /\ Become(t) /\ enqueued' = enqueued /\ program' = acts
    BY <1>5 DEF ProgramWrites, Program
  <2>2. Steps(t, Now, a, enqueued, acts)
    BY <2>1, ProgramWriteSteps
  <2>3. program \subseteq acts /\ ("cancel" \in acts => "cancel" \in program)
    OBVIOUS
  <2> HIDE DEF t, acts
  <2> QED
    BY <2>1, <2>2, <2>3 DEF Passage
<1>6. CASE ProgramCloses
  <2> DEFINE t == WithDest(Now, W!StreamClose(dest))
             acts == program \cup {"close"}
  <2>1. /\ ~ dest.writer /\ ~ W!CloseQueuedOrInFlight(dest)
        /\ Become(t) /\ enqueued' = enqueued /\ program' = acts
    BY <1>6 DEF ProgramCloses, Program
  <2>2. Steps(t, Now, a, enqueued, acts)
    BY <2>1, ProgramCloseSteps
  <2>3. program \subseteq acts /\ ("cancel" \in acts => "cancel" \in program)
    OBVIOUS
  <2> HIDE DEF t, acts
  <2> QED
    BY <2>1, <2>2, <2>3 DEF Passage
<1> QED
  BY <1>2, <1>3, <1>4, <1>5, <1>6

\* Every step, and what it hands to the sink.
LEMMA NextTurns ==
  ASSUME PlanInv, PipeOptions \subseteq SUBSET {"preventClose"}, Next,
         NEW a, NEW n, NEW p, Flow(Now, a, n, p, enqueued, program)
  PROVE  \E t : Become(t) /\ Turned(t, a)
<1>1. Fit(Now) /\ Now.source = source /\ Now.dest = dest /\ RInv(source)
  BY Presently DEF Good
<1>2. CASE RunJob
  <2>1. UNCHANGED <<enqueued, program>>
    BY <1>2 DEF RunJob
  <2>2. PICK t : Become(t) /\ \/ Steps(t, Now, a, enqueued, program)
                              \/ Concludes(t, Now, a, enqueued, program)
    BY <1>2, RunJobTurns
  <2> QED
    BY <2>1, <2>2 DEF Turned, Passage, Settlement
<1>3. CASE PipeStreams
  <2>1. UNCHANGED <<enqueued, program>>
    BY <1>3 DEF PipeStreams
  <2> QED
    BY <1>3, <2>1, PipeSteps DEF Turned, Passage
<1>4. CASE SignalAborts
  <2> DEFINE s == [Now EXCEPT !.pipe.signalled = TRUE]
             t == ShutdownWithAction(s, "signal", TRUE)
  <2>1. Become(t) /\ UNCHANGED <<enqueued, program>>
    BY <1>4 DEF SignalAborts
  <2>2. Steps(t, Now, a, enqueued, program)
    BY <1>4, SignalSteps
  <2> HIDE DEF t
  <2> QED
    BY <2>1, <2>2 DEF Turned, Passage
<1>5. CASE SourceEnqueues
  <2> DEFINE v == R!Enqueue(source, Chunks[enqueued + 1])
             t == WithSource(Now, v)
  <2>1. /\ R!CanCloseOrEnqueue(source) /\ enqueued < Len(Chunks)
        /\ enqueued' = enqueued + 1 /\ program' = program /\ Become(t)
    BY <1>5 DEF SourceEnqueues, SourceDoes
  <2>2. Steps(t, Now, a, enqueued + 1, program)
    BY <2>1, EnqueueSteps
  <2>3. RInv(v)
    BY <1>1, EnqueueInv
  <2>4. t.dest = dest
    BY <1>1, <2>3, WithSourceFits
  <2>5. "cancel" \notin program
    <3>1. source.state = "readable"
      BY <2>1 DEF R!CanCloseOrEnqueue
    <3> QED
      BY <1>1, <3>1 DEF Flow, Drive, Runs
  <2> HIDE DEF v, t
  <2> QED
    BY <2>1, <2>2, <2>4, <2>5 DEF Turned, Offering
<1>6. CASE ProgramCancels
  <2> DEFINE v == R!StreamCancel(source)
             t == WithSource(Now, v)
             acts == program \cup {"cancel"}
  <2>1. ~ source.reader /\ enqueued' = enqueued /\ program' = acts /\ Become(t)
    BY <1>6 DEF ProgramCancels, Program
  <2>2. Steps(t, Now, a, enqueued, acts)
    BY <2>1, ProgramCancelSteps
  <2>3. RInv(v)
    BY <1>1, CancelInv
  <2>4. t.dest = dest
    BY <1>1, <2>3, WithSourceFits
  <2> HIDE DEF v, t
  <2> QED
    BY <2>1, <2>2, <2>4 DEF Turned, Withdrawal
<1>7. ASSUME \E t : Become(t) /\ Passage(t, a)
      PROVE  \E t : Become(t) /\ Turned(t, a)
  BY <1>7 DEF Turned
<1> QED
  BY <1>2, <1>3, <1>4, <1>5, <1>6, <1>7, SourceTurns, DestTurns DEF Next

\* A turn that becomes the next state.
LEMMA BecomeFlow ==
  ASSUME NEW t, Become(t), NEW a, NEW n, NEW p, Flow(t, a, n, p, enqueued', program')
  PROVE  Flow(Now, a, n, p, enqueued, program)'
<1>1. source' = t.source /\ dest' = t.dest /\ pipe' = t.pipe /\ jobs' = t.jobs
  BY DEF Become
<1>2. /\ Now.source' = t.source /\ Now.dest' = t.dest /\ Now.pipe' = t.pipe
      /\ Now.jobs' = t.jobs
  BY <1>1 DEF Now
<1>3. Order(t.dest, a, n) /\ Runs(t, a, n, p, enqueued', program')
      /\ Pending(t, n, p) /\ Shut(t, program')
  BY DEF Flow, Drive
<1>4. Order(Now.dest, a, n)'
  BY <1>2, <1>3
<1>5. Reliable(Now)' <=> Reliable(t)
  BY <1>2 DEF Reliable
<1>6. Supply(Now, n, p, enqueued, program)' <=> Supply(t, n, p, enqueued', program')
  BY <1>2 DEF Supply, Whole
<1>7. \A j : Knows(j, Now, a, n, p, enqueued, program)'
              <=> Knows(j, t, a, n, p, enqueued', program')
  BY <1>2, <1>5 DEF Knows
<1>8. Runs(Now, a, n, p, enqueued, program)'
  BY <1>2, <1>3, <1>5, <1>6, <1>7 DEF Runs
<1>9. Pending(Now, n, p)' /\ Shut(Now, program)'
  BY <1>2, <1>3, <1>5 DEF Pending, Shut, Gone
<1> QED
  BY <1>4, <1>8, <1>9 DEF Flow, Drive

\* Nothing has been read or written.
LEMMA InitFlow ==
  ASSUME Init
  PROVE  Flow(Now, 0, 0, 0, enqueued, program)
<1>1. /\ Now.jobs = <<>> /\ Now.dest = W!NewWritable /\ Now.source = R!NewReadable
      /\ Now.pipe = IdlePipe /\ enqueued = 0 /\ program = {}
  BY DEF Init, Now
<1>2. /\ IdlePipe.lock = "idle" /\ IdlePipe.shuttingDown = FALSE /\ IdlePipe.parts = {}
      /\ IdlePipe.currentWrite = NoWrite /\ IdlePipe.action = "none"
  BY DEF IdlePipe
<1>3. /\ R!NewReadable.state = "readable" /\ R!NewReadable.queue = <<>>
      /\ R!NewReadable.readRequests = 0
  BY DEF R!NewReadable
<1>4. /\ W!NewWritable.state = "writable" /\ W!NewWritable.calls = <<>>
      /\ W!NewWritable.writeRequests = <<>> /\ W!NewWritable.inFlightWrite = NoWrite
      /\ ~ W!NewWritable.closeRequest /\ ~ W!NewWritable.inFlightClose
  BY DEF W!NewWritable
<1>5. NoWrite \notin Ours
  BY ChunksAssumption DEF Ours
<1>6. Len(Chunks) \in Nat
  BY EveryChunk
<1>7. PipedTo(W!NewWritable) = SubSeq(Chunks, 1, 0)
  <2>1. PipedTo(W!NewWritable) = <<>>
    BY <1>4, PipedNothing
  <2>2. Chunks \in Seq(Ours) /\ SubSeq(Chunks, 1, 0) = <<>>
    BY ChunksAssumption DEF Ours
  <2> QED
    BY <2>1, <2>2
<1>8. Takes(W!NewWritable) /\ ~ Ended(W!NewWritable) /\ Keeps(W!NewWritable)
  BY <1>4 DEF Takes, Ended, Keeps, W!CloseQueuedOrInFlight
<1> HIDE DEF W!NewWritable
<1>9. Waiting(W!NewWritable, 0, 0)
  BY <1>4, <1>5 DEF Waiting
<1>10. Order(W!NewWritable, 0, 0)
  BY <1>6, <1>7, <1>8, <1>9 DEF Order
<1>11. Supply(Now, 0, 0, 0, {})
  BY <1>1, <1>3, <1>8 DEF Supply
<1>12. Stocked(R!NewReadable)
  BY <1>3 DEF Stocked
<1>13. Runs(Now, 0, 0, 0, 0, {})
  BY <1>1, <1>2, <1>3, <1>6, <1>8, <1>11, <1>12 DEF Runs
<1>14. Pending(Now, 0, 0) /\ Shut(Now, {})
  BY <1>1, <1>8 DEF Pending, Shut
<1> QED
  BY <1>1, <1>10, <1>13, <1>14 DEF Flow, Drive

\* Every step leads on to a state with counts of its own.
LEMMA StepFlow ==
  ASSUME FlowInv, PipeOptions \subseteq SUBSET {"preventClose"}, [Next]_vars
  PROVE  FlowInv'
<1>1. PlanInv'
  BY StepLoopInv, StepSure DEF PlanInv, FlowInv
<1>2. PICK a, n, p : Flow(Now, a, n, p, enqueued, program)
  BY DEF FlowInv
<1>3. PlanInv
  BY DEF FlowInv
<1>4. SUFFICES \E b, x, q : Flow(Now, b, x, q, enqueued, program)'
  BY <1>1, <1>4 DEF FlowInv
<1>5. CASE Next
  <2>1. PICK t : Become(t) /\ Turned(t, a)
    BY <1>2, <1>3, <1>5, NextTurns
  <2>2. PICK b, x, q : Flow(t, b, x, q, enqueued', program')
    BY <2>1 DEF Turned, Passage, Settlement, Offering, Withdrawal, Steps, Concludes
  <2> QED
    BY <2>1, <2>2, BecomeFlow
<1>6. CASE UNCHANGED vars
  <2>1. Become(Now) /\ enqueued' = enqueued /\ program' = program
    BY <1>6 DEF vars, Become, Now
  <2>2. Flow(Now, a, n, p, enqueued', program')
    BY <1>2, <2>1
  <2> DEFINE t == Now
  <2>3. Flow(t, a, n, p, enqueued', program') /\ Become(t)
    BY <2>1, <2>2
  <2> HIDE DEF t
  <2> QED
    BY <2>3, BecomeFlow
<1> QED
  BY <1>5, <1>6

\* The chunks are where they should be in every state.
LEMMA FlowInvHolds ==
  PipeOptions \subseteq SUBSET {"preventClose"} => (Spec => []FlowInv)
<1>1. Init => FlowInv
  <2>1. SUFFICES ASSUME Init
                 PROVE  FlowInv
    OBVIOUS
  <2>2. \E a, n, p : Flow(Now, a, n, p, enqueued, program)
    BY <2>1, InitFlow
  <2> QED
    BY <2>1, <2>2, InitEnds DEF FlowInv
<1>2. PipeOptions \subseteq SUBSET {"preventClose"} /\ FlowInv /\ [Next]_vars => FlowInv'
  BY StepFlow
<1>3. PipeOptions \subseteq SUBSET {"preventClose"} =>
        [](PipeOptions \subseteq SUBSET {"preventClose"})
  OBVIOUS
<1> QED
  BY <1>1, <1>2, <1>3, PTL DEF Spec

-----------------------------------------------------------------------------
(* The refinement.                                                         *)

\* How the sink stands, as a Delivery has it.
SinkOf(w, prog) ==
  CASE w.state = "closed" \/ W!CloseQueuedOrInFlight(w) \/ "close" \in prog -> "closed"
    [] w.state = "writable" /\ ~W!CloseQueuedOrInFlight(w) /\ "close" \notin prog -> "open"
    [] OTHER -> "failed"

\* The cases exclude each other.
LEMMA SinkOfIs ==
  ASSUME NEW w, NEW prog
  PROVE  /\ SinkOf(w, prog) \in {"open", "closed", "failed"}
         /\ SinkOf(w, prog) = "open" <=> Takes(w) /\ "close" \notin prog
         /\ SinkOf(w, prog) = "closed" <=> Ended(w) \/ "close" \in prog
<1>1. CASE Ended(w) \/ "close" \in prog
  <2>1. SinkOf(w, prog) = "closed"
    BY <1>1 DEF SinkOf, Ended
  <2> QED
    BY <1>1, <2>1 DEF Takes, Ended
<1>2. CASE ~ (Ended(w) \/ "close" \in prog) /\ w.state = "writable"
  <2>1. SinkOf(w, prog) = "open"
    BY <1>2 DEF SinkOf, Ended
  <2> QED
    BY <1>2, <2>1 DEF Takes, Ended
<1>3. CASE ~ (Ended(w) \/ "close" \in prog) /\ w.state # "writable"
  <2>1. SinkOf(w, prog) = "failed"
    BY <1>3 DEF SinkOf, Ended
  <2> QED
    BY <1>3, <2>1 DEF Takes, Ended
<1> QED
  BY <1>1, <1>2, <1>3

\* What a Delivery sees.
Offered(w, m, prog) == IF "cancel" \in prog THEN Len(PipedTo(w)) ELSE m

\* The chunks the sink was called with.
LEMMA FlowPiped ==
  ASSUME NEW s, NEW a, NEW n, NEW p, NEW m, NEW prog, Flow(s, a, n, p, m, prog)
  PROVE  /\ PipedTo(s.dest) = SubSeq(Chunks, 1, a) /\ Len(PipedTo(s.dest)) = a
         /\ a \in Nat /\ n \in Nat /\ p \in Nat /\ m \in Nat /\ a <= n /\ n <= Len(Chunks)
<1>1. /\ PipedTo(s.dest) = SubSeq(Chunks, 1, a) /\ a \in Nat /\ n \in Nat /\ a <= n
      /\ n <= Len(Chunks) /\ p \in Nat /\ m \in Nat
  BY DEF Flow, Drive, Order, Runs
<1>2. Chunks \in Seq(Ours)
  BY ChunksAssumption DEF Ours
<1> QED
  BY <1>1, <1>2

\* A chunk gets to the sink only while the source has not been given up, and the source had it.
LEMMA DeliveredWasOffered ==
  ASSUME NEW s, NEW a, NEW n, NEW p, NEW m, NEW prog, Flow(s, a, n, p, m, prog),
         Takes(s.dest), s.pipe.lock # "released"
  PROVE  a <= m /\ ("cancel" \in prog => a = 0)
<1>1. Runs(s, a, n, p, m, prog) /\ a \in Nat /\ n \in Nat /\ p \in Nat /\ m \in Nat /\ a <= n
  BY FlowPiped DEF Flow, Drive
<1>2. Keeps(s.dest)
  BY DEF Takes, Keeps
<1>3. Supply(s, n, p, m, prog) /\ s.source.queue \in Seq(Ours)
  BY <1>1, <1>2 DEF Runs, Reliable, Stocked
<1>4. n <= p /\ p + Len(s.source.queue) <= m /\ Len(s.source.queue) \in Nat
  BY <1>3 DEF Supply
<1>5. "cancel" \in prog => p = 0
  BY <1>1 DEF Runs
<1> QED
  BY <1>1, <1>4, <1>5

\* Every turn is a step of a Delivery.
LEMMA TurnDelivers ==
  ASSUME FlowInv, PlanInv', NEW a, NEW n, NEW p, Flow(Now, a, n, p, enqueued, program),
         NEW t, Become(t), Turned(t, a)
  PROVE  LET offered == Offered(dest, enqueued, program)
             delivered == PipedTo(dest)
             sink == SinkOf(dest, program)
             result == pipe.outcome
         IN  \/ UNCHANGED <<offered, delivered, sink, result>>
             \/ /\ offered < Len(Chunks) /\ offered' = offered + 1
                /\ UNCHANGED <<delivered, sink, result>>
             \/ /\ offered' = Len(delivered)
                /\ UNCHANGED <<delivered, sink, result>>
             \/ /\ result = "none" /\ sink = "open" /\ Len(delivered) < offered
                /\ delivered' = Append(delivered, Chunks[Len(delivered) + 1])
                /\ UNCHANGED <<offered, sink, result>>
             \/ /\ sink' \in {"closed", "failed"}
                /\ UNCHANGED <<offered, delivered, result>>
             \/ /\ result = "none" /\ sink = "closed" /\ Len(delivered) = offered
                /\ result' = "ok" /\ UNCHANGED <<offered, delivered, sink>>
             \/ /\ result = "none" /\ result' = "error"
                /\ UNCHANGED <<offered, delivered, sink>>
<1> DEFINE offered == Offered(dest, enqueued, program)
           delivered == PipedTo(dest)
           sink == SinkOf(dest, program)
           result == pipe.outcome
<1>1. /\ dest' = t.dest /\ pipe' = t.pipe /\ Now.dest = dest /\ Now.pipe = pipe
      /\ source' = t.source
  BY DEF Become, Now
<1>2. /\ delivered = SubSeq(Chunks, 1, a) /\ Len(delivered) = a
      /\ a \in Nat /\ a <= Len(Chunks) /\ Len(Chunks) \in Nat
  BY <1>1, FlowPiped, EveryChunk
<1>3. /\ sink \in {"open", "closed", "failed"} /\ sink' \in {"open", "closed", "failed"}
      /\ sink = "open" <=> Takes(dest) /\ "close" \notin program
      /\ sink' = "open" <=> Takes(t.dest) /\ "close" \notin program'
      /\ sink = "closed" <=> Ended(dest) \/ "close" \in program
  BY <1>1, SinkOfIs
<1>4. Takes(dest) => "close" \notin program
  BY <1>1 DEF Flow, Drive, Runs
<1>5. ASSUME NEW b, NEW x, NEW q, Flow(t, b, x, q, enqueued', program')
      PROVE  /\ delivered' = SubSeq(Chunks, 1, b) /\ Len(delivered') = b
             /\ b \in Nat /\ enqueued' \in Nat /\ b <= Len(Chunks)
             /\ Takes(t.dest) => "close" \notin program'
  <2>1. /\ PipedTo(t.dest) = SubSeq(Chunks, 1, b) /\ Len(PipedTo(t.dest)) = b
        /\ b \in Nat /\ x \in Nat /\ enqueued' \in Nat /\ b <= x /\ x <= Len(Chunks)
    BY <1>5, FlowPiped
  <2>2. Takes(t.dest) => "close" \notin program'
    BY <1>5 DEF Flow, Drive, Runs
  <2>3. delivered' = PipedTo(t.dest)
    BY <1>1
  <2> QED
    BY <1>2, <2>1, <2>2, <2>3
<1>6. Takes(t.dest) => t.pipe.lock # "released" /\ t.pipe.outcome = "none"
  <2>1. Locks(pipe, dest, source)' /\ Sure(Now)'
    BY Presently DEF PlanInv, LoopInv, Inv
  <2>2. /\ Now.pipe' = t.pipe /\ Now.dest' = t.dest
    BY <1>1 DEF Now
  <2>3. Takes(t.dest) => t.pipe.lock # "released"
    BY <2>1, <2>2 DEF Sure, Gone, Past
  <2> QED
    BY <1>1, <2>1, <2>3 DEF Locks
<1>7. CASE Passage(t, a)
  <2>1. PICK b, x, q : /\ Flow(t, b, x, q, enqueued', program')
                       /\ b = a \/ (b = a + 1 /\ Takes(dest) /\ Takes(t.dest))
    BY <1>1, <1>7 DEF Passage, Steps
  <2>2. /\ Takes(t.dest) => Takes(dest)
        /\ result' = result /\ enqueued' = enqueued /\ program \subseteq program'
        /\ "cancel" \in program' => "cancel" \in program
    BY <1>1, <1>7 DEF Passage, Steps
  <2>3. /\ delivered' = SubSeq(Chunks, 1, b) /\ Len(delivered') = b
        /\ b \in Nat /\ enqueued' \in Nat /\ b <= Len(Chunks)
        /\ Takes(t.dest) => "close" \notin program'
    BY <1>5, <2>1
  <2>4. CASE b = a
    <3>1. delivered' = delivered
      BY <1>2, <2>3, <2>4
    <3>2. offered' = offered
      BY <2>2, <3>1 DEF Offered
    <3>3. sink' = "open" => sink = "open"
      BY <1>3, <1>4, <2>2
    <3> HIDE DEF offered, delivered, sink, result
    <3>4. UNCHANGED <<offered, delivered, sink, result>> \/ sink' \in {"closed", "failed"}
      BY <1>3, <2>2, <3>1, <3>2, <3>3
    <3> QED
      BY <2>2, <3>1, <3>2, <3>4 DEF offered, delivered, sink, result
  <2>5. CASE b = a + 1 /\ Takes(dest) /\ Takes(t.dest)
    <3>1. t.pipe.lock # "released" /\ result = "none"
      BY <1>1, <1>6, <2>2, <2>5
    <3>2. b <= enqueued' /\ "cancel" \notin program'
      BY <1>2, <2>1, <2>5, <3>1, DeliveredWasOffered
    <3>3. offered = enqueued /\ offered' = enqueued
      BY <2>2, <3>2 DEF Offered
    <3>4. sink = "open" /\ sink' = "open"
      BY <1>3, <1>4, <2>3, <2>5
    <3>5. delivered' = Append(delivered, Chunks[Len(delivered) + 1])
      BY <1>2, <2>3, <2>5, OneMore
    <3>6. Len(delivered) < offered
      BY <1>2, <2>2, <2>3, <2>5, <3>2, <3>3
    <3> HIDE DEF offered, delivered, sink, result
    <3> QED
      BY <2>2, <3>1, <3>3, <3>4, <3>5, <3>6 DEF offered, delivered, sink, result
  <2> QED
    BY <2>1, <2>4, <2>5
<1>8. CASE Settlement(t, a)
  <2>1. PICK x, q : Flow(t, a, x, q, enqueued, program)
    BY <1>8 DEF Settlement, Concludes
  <2>2. /\ enqueued' = enqueued /\ program' = program
        /\ t.dest.state = dest.state /\ t.dest.closeRequest = dest.closeRequest
        /\ t.dest.inFlightClose = dest.inFlightClose
        /\ result = "none" /\ result' \in {"ok", "error"}
        /\ result' = "ok" => /\ dest.state = "closed" \/ "close" \in program
                             /\ a = enqueued \/ "cancel" \in program
    BY <1>1, <1>8 DEF Settlement, Concludes
  <2>3. delivered' = delivered
    BY <1>2, <1>5, <2>1, <2>2
  <2>4. offered' = offered
    BY <2>2, <2>3 DEF Offered
  <2>5. sink' = sink
    BY <1>1, <2>2 DEF SinkOf, W!CloseQueuedOrInFlight
  <2>6. result' = "ok" => sink = "closed" /\ Len(delivered) = offered
    BY <1>2, <1>3, <2>2 DEF Ended, Offered
  <2> HIDE DEF offered, delivered, sink, result
  <2> QED
    BY <2>2, <2>3, <2>4, <2>5, <2>6 DEF offered, delivered, sink, result
<1>9. CASE Offering(t, a)
  <2>1. PICK b, x, q : Flow(t, b, x, q, enqueued', program')
    BY <1>9 DEF Offering, Steps
  <2>2. /\ t.dest = dest /\ enqueued' = enqueued + 1 /\ enqueued < Len(Chunks)
        /\ program' = program /\ "cancel" \notin program /\ result' = result
    BY <1>1, <1>9 DEF Offering, Steps
  <2>3. delivered' = delivered /\ sink' = sink
    BY <1>1, <2>2
  <2>4. offered = enqueued /\ offered' = enqueued + 1
    BY <2>2 DEF Offered
  <2> HIDE DEF offered, delivered, sink, result
  <2> QED
    BY <2>2, <2>3, <2>4 DEF offered, delivered, sink, result
<1>10. CASE Withdrawal(t, a)
  <2>1. /\ t.dest = dest /\ enqueued' = enqueued
        /\ program' = program \cup {"cancel"} /\ result' = result
    BY <1>1, <1>10 DEF Withdrawal, Steps
  <2>2. delivered' = delivered
    BY <1>1, <2>1
  <2>3. sink' = sink
    BY <1>1, <2>1 DEF SinkOf
  <2>4. offered' = Len(delivered)
    BY <2>1, <2>2 DEF Offered
  <2> HIDE DEF offered, delivered, sink, result
  <2> QED
    BY <2>1, <2>2, <2>3, <2>4 DEF offered, delivered, sink, result
<1> HIDE DEF offered, delivered, sink, result
<1> QED
  BY <1>7, <1>8, <1>9, <1>10 DEF Turned

\* What is seen of the two streams and the pipe is what the refinement mapping names.
LEMMA StepDelivers ==
  ASSUME FlowInv, FlowInv', PipeOptions \subseteq SUBSET {"preventClose"}, [Next]_vars
  PROVE  [D!Next]_(D!vars)
<1> DEFINE offered == Offered(dest, enqueued, program)
           delivered == PipedTo(dest)
           sink == SinkOf(dest, program)
           result == pipe.outcome
<1>1. CASE Next
  <2>1. PICK a, n, p : Flow(Now, a, n, p, enqueued, program)
    BY DEF FlowInv
  <2>2. PlanInv /\ PlanInv'
    BY DEF FlowInv
  <2>3. PICK t : Become(t) /\ Turned(t, a)
    BY <1>1, <2>1, <2>2, NextTurns
  <2>4. \/ UNCHANGED <<offered, delivered, sink, result>>
        \/ /\ offered < Len(Chunks) /\ offered' = offered + 1
           /\ UNCHANGED <<delivered, sink, result>>
        \/ /\ offered' = Len(delivered)
           /\ UNCHANGED <<delivered, sink, result>>
        \/ /\ result = "none" /\ sink = "open" /\ Len(delivered) < offered
           /\ delivered' = Append(delivered, Chunks[Len(delivered) + 1])
           /\ UNCHANGED <<offered, sink, result>>
        \/ /\ sink' \in {"closed", "failed"}
           /\ UNCHANGED <<offered, delivered, result>>
        \/ /\ result = "none" /\ sink = "closed" /\ Len(delivered) = offered
           /\ result' = "ok" /\ UNCHANGED <<offered, delivered, sink>>
        \/ /\ result = "none" /\ result' = "error"
           /\ UNCHANGED <<offered, delivered, sink>>
    BY <2>1, <2>2, <2>3, TurnDelivers
  <2> QED
    BY <2>4 DEF D!Next, D!Offer, D!Withdraw, D!Deliver, D!SinkEnds, D!Succeed, D!Fail, D!vars,
                Offered, SinkOf
<1>2. CASE UNCHANGED vars
  BY <1>2 DEF vars, D!vars
<1> QED
  BY <1>1, <1>2

\* No chunk has been offered yet.
LEMMA InitDelivers ==
  ASSUME Init
  PROVE  D!Init
<1>1. /\ dest.calls = <<>> /\ dest.state = "writable"
      /\ ~ dest.closeRequest /\ ~ dest.inFlightClose
      /\ enqueued = 0 /\ program = {} /\ pipe.outcome = "none"
  BY DEF Init, W!NewWritable, IdlePipe
<1>2. PipedTo(dest) = <<>>
  BY <1>1, PipedNothing
<1>3. Takes(dest) /\ "close" \notin program
  BY <1>1 DEF Takes, W!CloseQueuedOrInFlight
<1>4. SinkOf(dest, program) = "open"
  BY <1>3, SinkOfIs
<1>5. Offered(dest, enqueued, program) = 0
  BY <1>1 DEF Offered
<1> QED
  BY <1>1, <1>2, <1>4, <1>5 DEF D!Init, Offered, SinkOf

(* The pipe is a Delivery: each of its steps, whatever microtask runs and  *)
(* whatever the source, the sink, the signal or the program does between   *)
(* two of them, offers one chunk, hands the next one to a sink that is     *)
(* still open before the pipe has settled, ends the sink, settles the      *)
(* pipe, or changes none of these.  So readableStreamPipeTo passes chunks  *)
(* on in order and without a gap, and fulfils its promise only when the    *)
(* sink closes and nothing the source enqueued is left over.               *)
THEOREM DeliversHolds ==
  PipeOptions \subseteq SUBSET {"preventClose"} => (Spec => Delivers)
<1>1. Init => D!Init
  BY InitDelivers
<1>2. PipeOptions \subseteq SUBSET {"preventClose"} /\ FlowInv /\ FlowInv' /\ [Next]_vars
        => [D!Next]_(D!vars)
  BY StepDelivers
<1>3. PipeOptions \subseteq SUBSET {"preventClose"} =>
        [](PipeOptions \subseteq SUBSET {"preventClose"})
  OBVIOUS
<1> QED
  BY <1>1, <1>2, <1>3, FlowInvHolds, PTL DEF Spec, Delivers, D!Spec
=============================================================================
