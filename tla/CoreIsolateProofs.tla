-------------------------- MODULE CoreIsolateProofs --------------------------
(***************************************************************************)
(* The event loop of an isolate for any set of ops, any sizes of their     *)
(* responses and of the shared queue, and any number of exceptions and     *)
(* rejected promises.                                                      *)
(***************************************************************************)
EXTENDS CoreIsolate, TLAPS

\* Before a poll is over, JavaScript may run again in these phases.
AfterUnref == {"queued", "receiving", "microtasks", "overflow", "overflow microtasks",
               "macrotasks", "end"}
AfterRef   == AfterUnref \cup {"unref"}

Injective(q) == \A i, j \in 1 .. Len(q) : q[i] = q[j] => i = j

Places ==
  /\ pc \in PCs /\ outcome \in {"pending", "ok", "err"} /\ woken \in BOOLEAN
  /\ haveUnpolled \in BOOLEAN /\ failed \in BOOLEAN /\ overflowed \in BOOLEAN

Bounds ==
  /\ count \in 0 .. MaxRecords /\ used \in 0 .. Capacity
  /\ exceptions \in Nat /\ rejections \in 0 .. MaxRejections /\ exceptions <= rejections
  /\ throws \in 0 .. MaxThrows

Sequences ==
  /\ ready \in [Classes -> Seq(Ops)]
  /\ queue \in Seq(Ops) /\ last \in Seq(Ops)
  /\ taken \in Seq(Ops) /\ delivered \in Seq(Ops)
  /\ overflow = <<>> \/ \E op \in Ops : overflow = <<op>>

\* A future is in the set of its op until it returns its response, and to be polled
\* at most once, and in any case when it would return it.
Futures ==
  /\ resolved \subseteq dispatched /\ dispatched \subseteq Ops
  /\ pending \in [Classes -> SUBSET dispatched]
  /\ \A c \in Classes :
       /\ \A op \in pending[c] : ClassOf(op) = c /\ ~ Contains(taken, op)
       /\ \A i \in 1 .. Len(ready[c]) : ready[c][i] \in pending[c]
       /\ Injective(ready[c])
       /\ \A op \in pending[c] \cap resolved : Contains(ready[c], op)
  /\ \A op \in dispatched : op \in pending[ClassOf(op)] \/ Contains(taken, op)
  /\ \A i \in 1 .. Len(taken) : taken[i] \in dispatched

\* A response waits in overflow_response until the queue has been emptied, and an
\* exception until JavaScript returns.
Phases ==
  /\ failed => throws > 0 /\ pc \in {"microtasks", "overflow microtasks", "macrotasks"}
  /\ overflow # <<>> =>
       overflowed /\ pc \in {"unref", "queued", "receiving", "microtasks", "overflow"}
  /\ pc = "unref" => \A op \in Ops : overflow = <<op>> => ClassOf(op) = "ref"
  /\ pc = "microtasks" /\ ~ failed => queue = <<>>
  /\ pc \in {"overflow", "overflow microtasks", "macrotasks", "end"} => queue = <<>>

\* A future that is to be polled is polled later in this poll, or makes the executor
\* come back.
Waking ==
  /\ pc # "idle" => outcome = "pending"
  /\ pc = "script" => woken
  /\ ~ overflowed =>
       /\ pc \in AfterRef /\ ready["ref"] # <<>> => woken \/ haveUnpolled
       /\ pc \in AfterUnref /\ ready["unref"] # <<>> => woken \/ haveUnpolled
       /\ pc = "idle" /\ outcome = "pending" =>
            woken \/ (ready["ref"] = <<>> /\ ready["unref"] = <<>>)

\* JavaScript rejects promises only where the poll that runs it, or the one that is
\* due, looks at them.
Reporting ==
  pc = "idle" /\ outcome # "err" => exceptions = 0 \/ (outcome = "pending" /\ woken)

\* A response is in at most one place, and only when its future returned it.
Once(t, d, q, o) ==
  /\ Injective(t) /\ Injective(d) /\ Injective(q)
  /\ \A i \in 1 .. Len(d) : Contains(t, d[i]) /\ ~ Contains(q, d[i]) /\ ~ Contains(o, d[i])
  /\ \A i \in 1 .. Len(q) : Contains(t, q[i]) /\ ~ Contains(o, q[i])
  /\ \A i \in 1 .. Len(o) : Contains(t, o[i])

Inv ==
  /\ Places /\ Bounds /\ Sequences /\ Futures /\ Phases /\ Waking /\ Reporting
  /\ Once(taken, delivered, queue, overflow)

\* Of every response that a future returned, the handler was called, or will be; and
\* responses of one set stay behind each other on the way.
InOrder(t, d, q, o) ==
  /\ \A i \in 1 .. Len(t) : Contains(d, t[i]) \/ Contains(q, t[i]) \/ Contains(o, t[i])
  /\ \A i, k \in 1 .. Len(t) :
       i < k /\ ClassOf(t[i]) = ClassOf(t[k]) =>
         /\ \A n \in 1 .. Len(d) : d[n] = t[k] => \E m \in 1 .. n - 1 : d[m] = t[i]
         /\ \A n \in 1 .. Len(q) :
              q[n] = t[k] => Contains(d, t[i]) \/ \E m \in 1 .. n - 1 : q[m] = t[i]

\* The response that did not fit is not replaced by another one: in no poll a response
\* of each set overflows.
OneOverflow == overflow # <<>> => overflow' \in {overflow, <<>>}

OrderInv == Undisturbed => InOrder(taken, delivered, queue, overflow)

AnswerInv == pc = "idle" /\ outcome = "ok" /\ Undisturbed =>
  \A op \in dispatched : op \in UnrefOps \/ Contains(delivered, op)

-----------------------------------------------------------------------------
(* Lemmas about sequences.                                                 *)

\* The elements of a sequence, and Contains and ToSet of one.
LEMMA Elements ==
  ASSUME NEW S, NEW q \in Seq(S)
  PROVE  /\ Len(q) \in Nat /\ DOMAIN q = 1 .. Len(q)
         /\ \A i \in 1 .. Len(q) : q[i] \in S
         /\ \A x : Contains(q, x) <=> x \in ToSet(q)
         /\ \A x : Contains(q, x) => x \in S
         /\ q = <<>> <=> Len(q) = 0
  BY DEF Contains, ToSet

\* Something is put behind a sequence.
LEMMA Appended ==
  ASSUME NEW S, NEW q \in Seq(S), NEW e \in S
  PROVE  /\ Append(q, e) \in Seq(S) /\ Append(q, e) # <<>>
         /\ Len(q) \in Nat /\ Len(Append(q, e)) = Len(q) + 1
         /\ \A i \in 1 .. Len(q) : Append(q, e)[i] = q[i]
         /\ Append(q, e)[Len(q) + 1] = e
         /\ \A i \in 1 .. Len(Append(q, e)) : i \in 1 .. Len(q) \/ i = Len(q) + 1
<1>1. Append(q, e) \in Seq(S) /\ Len(q) \in Nat /\ Len(Append(q, e)) = Len(q) + 1
  OBVIOUS
<1>2. \A i \in 1 .. Len(q) : Append(q, e)[i] = q[i]
  OBVIOUS
<1>3. Append(q, e)[Len(q) + 1] = e
  OBVIOUS
<1>4. Append(q, e) # <<>>
  BY <1>1
<1>5. \A i \in 1 .. Len(Append(q, e)) : i \in 1 .. Len(q) \/ i = Len(q) + 1
  BY <1>1
<1> QED
  BY <1>1, <1>2, <1>3, <1>4, <1>5

\* What is in a sequence that something is put behind.
LEMMA ContainsAppend ==
  ASSUME NEW S, NEW q \in Seq(S), NEW e \in S, NEW x
  PROVE  Contains(Append(q, e), x) <=> Contains(q, x) \/ x = e
<1>1. ASSUME Contains(Append(q, e), x) PROVE Contains(q, x) \/ x = e
  <2>1. PICK i \in 1 .. Len(Append(q, e)) : Append(q, e)[i] = x
    BY <1>1 DEF Contains
  <2> QED
    BY <2>1, Appended DEF Contains
<1>2. ASSUME Contains(q, x) PROVE Contains(Append(q, e), x)
  <2>1. PICK i \in 1 .. Len(q) : q[i] = x
    BY <1>2 DEF Contains
  <2> QED
    BY <2>1, Appended DEF Contains
<1>3. ASSUME x = e PROVE Contains(Append(q, e), x)
  <2>1. Len(q) + 1 \in 1 .. Len(Append(q, e))
    BY Appended
  <2> QED
    BY <1>3, <2>1, Appended DEF Contains
<1> QED
  BY <1>1, <1>2, <1>3

\* A new element leaves a sequence without repetitions.
LEMMA InjectiveAppend ==
  ASSUME NEW S, NEW q \in Seq(S), NEW e \in S, Injective(q), ~ Contains(q, e)
  PROVE  Injective(Append(q, e))
<1> DEFINE P == Append(q, e)
<1>1. \A k \in 1 .. Len(q) : P[k] = q[k] /\ q[k] # e
  BY Appended DEF Contains
<1>2. ASSUME NEW i \in 1 .. Len(P), NEW j \in 1 .. Len(P), P[i] = P[j] PROVE i = j
  <2>1. /\ i \in 1 .. Len(q) \/ i = Len(q) + 1
        /\ j \in 1 .. Len(q) \/ j = Len(q) + 1
        /\ P[Len(q) + 1] = e
    BY Appended
  <2> QED
    BY <1>1, <1>2, <2>1 DEF Injective
<1> HIDE DEF P
<1>3. Injective(P)
  BY <1>2 DEF Injective
<1> QED
  BY <1>3 DEF P

\* The first element is taken away.
LEMMA Removed ==
  ASSUME NEW S, NEW q \in Seq(S), q # <<>>
  PROVE  /\ Tail(q) \in Seq(S) /\ Head(q) \in S /\ Head(q) = q[1]
         /\ Len(q) \in Nat \ {0} /\ Len(Tail(q)) = Len(q) - 1 /\ 1 \in 1 .. Len(q)
         /\ \A i \in 1 .. Len(Tail(q)) : i + 1 \in 1 .. Len(q) /\ Tail(q)[i] = q[i + 1]
         /\ \A i \in 1 .. Len(q) : i = 1 \/ (i - 1 \in 1 .. Len(Tail(q)) /\ Tail(q)[i - 1] = q[i])
  OBVIOUS

\* What is in a sequence whose first element is taken.
LEMMA ContainsTail ==
  ASSUME NEW S, NEW q \in Seq(S), q # <<>>, Injective(q), NEW x
  PROVE  Contains(Tail(q), x) <=> Contains(q, x) /\ x # Head(q)
<1>1. ASSUME Contains(Tail(q), x) PROVE Contains(q, x) /\ x # Head(q)
  <2>1. PICK i \in 1 .. Len(Tail(q)) : Tail(q)[i] = x
    BY <1>1 DEF Contains
  <2>2. i + 1 \in 1 .. Len(q) /\ q[i + 1] = x /\ i + 1 # 1
    BY <2>1, Removed
  <2>3. x # q[1]
    BY <2>2, Removed DEF Injective
  <2> QED
    BY <2>2, <2>3, Removed DEF Contains
<1>2. ASSUME Contains(q, x), x # Head(q) PROVE Contains(Tail(q), x)
  <2>1. PICK i \in 1 .. Len(q) : q[i] = x
    BY <1>2 DEF Contains
  <2>2. i # 1
    BY <1>2, <2>1, Removed
  <2> QED
    BY <2>1, <2>2, Removed DEF Contains
<1> QED
  BY <1>1, <1>2

\* The rest of a sequence without repetitions has none.
LEMMA InjectiveTail ==
  ASSUME NEW S, NEW q \in Seq(S), q # <<>>, Injective(q)
  PROVE  Injective(Tail(q))
<1> SUFFICES ASSUME NEW i \in 1 .. Len(Tail(q)), NEW j \in 1 .. Len(Tail(q)),
                    Tail(q)[i] = Tail(q)[j]
             PROVE  i = j
  BY DEF Injective
<1>1. i + 1 \in 1 .. Len(q) /\ j + 1 \in 1 .. Len(q) /\ q[i + 1] = q[j + 1]
  BY Removed
<1> QED
  BY <1>1 DEF Injective

\* A sequence of at most one element.
LEMMA Single ==
  ASSUME NEW S, NEW e \in S
  PROVE  /\ <<e>> \in Seq(S) /\ Len(<<e>>) = 1 /\ <<e>>[1] = e /\ Injective(<<e>>)
         /\ \A x : Contains(<<e>>, x) <=> x = e
         /\ \A q \in Seq(S) : q \o <<e>> = Append(q, e)
  BY DEF Contains, Injective

\* A sequence whose elements are in a smaller set.
LEMMA Narrowed ==
  ASSUME NEW S, NEW T, NEW q \in Seq(S), \A i \in 1 .. Len(q) : q[i] \in T
  PROVE  q \in Seq(T)
  OBVIOUS

\* The empty sequence has no elements.
LEMMA Empty ==
  /\ Len(<<>>) = 0 /\ Injective(<<>>) /\ \A x : ~ Contains(<<>>, x)
  /\ \A S : <<>> \in Seq(S)
  BY DEF Contains, Injective

-----------------------------------------------------------------------------
(* What the four steps of a response do to the way of all of them.         *)

\* A response that a future returns goes to the queue.
LEMMA OnceQueued ==
  ASSUME NEW t \in Seq(Ops), NEW d \in Seq(Ops), NEW q \in Seq(Ops), NEW o \in Seq(Ops),
         NEW e \in Ops, Once(t, d, q, o), ~ Contains(t, e)
  PROVE  Once(Append(t, e), d, Append(q, e), o)
<1>1. \A x : Contains(Append(t, e), x) <=> Contains(t, x) \/ x = e
  BY ContainsAppend
<1>2. \A x : Contains(Append(q, e), x) <=> Contains(q, x) \/ x = e
  BY ContainsAppend
<1>3. \A i \in 1 .. Len(q) : Contains(q, q[i])
  BY DEF Contains
<1>4. ~ Contains(q, e)
  BY ZenonT(60) DEF Once, Contains
<1>5. Injective(Append(t, e)) /\ Injective(Append(q, e))
  <2>1. Injective(t) /\ Injective(q)
    BY DEF Once
  <2> QED
    BY <1>4, <2>1, InjectiveAppend
<1>6. \A i \in 1 .. Len(d) : d[i] # e
  BY DEF Once
<1>7. ~ Contains(o, e)
  BY ZenonT(60) DEF Once, Contains
<1>8. \A i \in 1 .. Len(Append(q, e)) :
        Contains(Append(t, e), Append(q, e)[i]) /\ ~ Contains(o, Append(q, e)[i])
  BY <1>1, <1>7, Appended DEF Once
<1> QED
  BY <1>1, <1>2, <1>5, <1>6, <1>8 DEF Once

\* A response that goes into the shared queue is behind those of its set.
LEMMA InOrderQueued ==
  ASSUME NEW t \in Seq(Ops), NEW d \in Seq(Ops), NEW q \in Seq(Ops), NEW o \in Seq(Ops),
         NEW e \in Ops, Once(t, d, q, o), ~ Contains(t, e), InOrder(t, d, q, o),
         \A i \in 1 .. Len(o) : ClassOf(o[i]) # ClassOf(e)
  PROVE  InOrder(Append(t, e), d, Append(q, e), o)
<1> DEFINE T == Append(t, e)
           P == Append(q, e)
<1>1. \A x : Contains(P, x) <=> Contains(q, x) \/ x = e
  BY ContainsAppend
<1>2. \A i \in 1 .. Len(T) :
        (i \in 1 .. Len(t) /\ T[i] = t[i]) \/ (i = Len(t) + 1 /\ T[i] = e)
  BY Appended
<1>3. \A i \in 1 .. Len(T) : Contains(d, T[i]) \/ Contains(P, T[i]) \/ Contains(o, T[i])
  BY <1>1, <1>2 DEF InOrder
<1>4. ASSUME NEW i \in 1 .. Len(T), NEW k \in 1 .. Len(T), i < k,
             ClassOf(T[i]) = ClassOf(T[k])
      PROVE  /\ \A n \in 1 .. Len(d) : d[n] = T[k] => \E m \in 1 .. n - 1 : d[m] = T[i]
             /\ \A n \in 1 .. Len(P) :
                  P[n] = T[k] => Contains(d, T[i]) \/ \E m \in 1 .. n - 1 : P[m] = T[i]
  <2>1. i \in 1 .. Len(t) /\ T[i] = t[i]
    BY <1>2, <1>4, Appended
  <2>2. CASE k \in 1 .. Len(t)
    <3>1. T[k] = t[k] /\ t[k] # e
      BY <2>2, Appended DEF Contains
    <3>2. \A n \in 1 .. Len(d) : d[n] = T[k] => \E m \in 1 .. n - 1 : d[m] = T[i]
      <4>1. ClassOf(t[i]) = ClassOf(t[k])
        BY <1>4, <2>1, <3>1
      <4>2. \A n \in 1 .. Len(d) : d[n] = t[k] => \E m \in 1 .. n - 1 : d[m] = t[i]
        <5> HIDE DEF T, P
        <5> QED
          BY <1>4, <2>1, <2>2, <4>1 DEF InOrder
      <4> QED
        BY <2>1, <3>1, <4>2
    <3>3. ASSUME NEW n \in 1 .. Len(P), P[n] = T[k]
          PROVE  Contains(d, T[i]) \/ \E m \in 1 .. n - 1 : P[m] = T[i]
      <4>1. n \in 1 .. Len(q) /\ q[n] = t[k]
        BY <3>1, <3>3, Appended
      <4>2. Contains(d, t[i]) \/ \E m \in 1 .. n - 1 : q[m] = t[i]
        BY <1>4, <2>1, <2>2, <3>1, <4>1 DEF InOrder
      <4>3. \A m \in 1 .. n - 1 : P[m] = q[m]
        BY <4>1, Appended
      <4> QED
        BY <2>1, <4>2, <4>3
    <3> QED
      BY <3>2, <3>3
  <2>3. CASE k = Len(t) + 1
    <3>1. T[k] = e
      BY <2>3, Appended
    <3>2. \A n \in 1 .. Len(d) : d[n] # e
      BY DEF Once
    <3>3. \A n \in 1 .. Len(q) : q[n] # e
      BY DEF Once
    <3>4. ~ Contains(o, t[i])
      BY <1>4, <2>1, <3>1 DEF Contains
    <3>5. Contains(d, t[i]) \/ \E m \in 1 .. Len(q) : q[m] = t[i]
      BY <2>1, <3>4 DEF InOrder, Contains
    <3>6. \A n \in 1 .. Len(P) : P[n] = e => n = Len(q) + 1
      BY <3>3, Appended
    <3>7. \A m \in 1 .. Len(q) : P[m] = q[m] /\ m \in 1 .. (Len(q) + 1) - 1
      BY Appended
    <3> QED
      BY <2>1, <3>1, <3>2, <3>5, <3>6, <3>7
  <2> QED
    BY <1>2, <2>2, <2>3
<1> HIDE DEF T, P
<1>5. InOrder(T, d, P, o)
  BY <1>3, <1>4 DEF InOrder
<1> QED
  BY <1>5 DEF T, P

\* A response that a future returns does not fit, and takes the place of another one
\* if there was one.
LEMMA OnceOverflowed ==
  ASSUME NEW t \in Seq(Ops), NEW d \in Seq(Ops), NEW q \in Seq(Ops), NEW o \in Seq(Ops),
         NEW e \in Ops, Once(t, d, q, o), ~ Contains(t, e)
  PROVE  Once(Append(t, e), d, q, <<e>>)
<1>1. \A x : Contains(Append(t, e), x) <=> Contains(t, x) \/ x = e
  BY ContainsAppend
<1>2. Injective(Append(t, e))
  BY InjectiveAppend DEF Once
<1>3. /\ \A x : Contains(<<e>>, x) <=> x = e
      /\ \A i \in 1 .. Len(<<e>>) : <<e>>[i] = e
  BY Single
<1>4. \A i \in 1 .. Len(d) : d[i] # e
  BY DEF Once
<1>5. \A i \in 1 .. Len(q) : q[i] # e
  BY DEF Once
<1> QED
  BY <1>1, <1>2, <1>3, <1>4, <1>5 DEF Once

\* A response that does not fit is behind those of its set.
LEMMA InOrderOverflowed ==
  ASSUME NEW t \in Seq(Ops), NEW d \in Seq(Ops), NEW q \in Seq(Ops), NEW e \in Ops,
         Once(t, d, q, <<>>), ~ Contains(t, e), InOrder(t, d, q, <<>>)
  PROVE  InOrder(Append(t, e), d, q, <<e>>)
<1> DEFINE T == Append(t, e)
<1>1. \A i \in 1 .. Len(T) :
        (i \in 1 .. Len(t) /\ T[i] = t[i]) \/ (i = Len(t) + 1 /\ T[i] = e)
  BY Appended
<1>2. \A i \in 1 .. Len(T) : Contains(d, T[i]) \/ Contains(q, T[i]) \/ Contains(<<e>>, T[i])
  BY <1>1, Empty, Single DEF InOrder
<1>3. /\ \A n \in 1 .. Len(d) : d[n] # e
      /\ \A n \in 1 .. Len(q) : q[n] # e
  BY DEF Once
<1>4. ASSUME NEW i \in 1 .. Len(T), NEW k \in 1 .. Len(T), i < k,
             ClassOf(T[i]) = ClassOf(T[k])
      PROVE  /\ \A n \in 1 .. Len(d) : d[n] = T[k] => \E m \in 1 .. n - 1 : d[m] = T[i]
             /\ \A n \in 1 .. Len(q) :
                  q[n] = T[k] => Contains(d, T[i]) \/ \E m \in 1 .. n - 1 : q[m] = T[i]
  <2>1. i \in 1 .. Len(t) /\ T[i] = t[i]
    BY <1>1, <1>4, Appended
  <2>2. CASE k = Len(t) + 1
    BY <1>1, <1>3, <2>2, Appended
  <2>3. CASE k \in 1 .. Len(t)
    <3>1. T[k] = t[k]
      BY <2>3, Appended
    <3> HIDE DEF T
    <3> QED
      BY <1>4, <2>1, <2>3, <3>1 DEF InOrder
  <2> QED
    BY <1>1, <2>2, <2>3
<1> HIDE DEF T
<1>5. InOrder(T, d, q, <<e>>)
  BY <1>2, <1>4 DEF InOrder
<1> QED
  BY <1>5 DEF T

\* The handler of the oldest queued response is called.
LEMMA OnceHandled ==
  ASSUME NEW t \in Seq(Ops), NEW d \in Seq(Ops), NEW q \in Seq(Ops), NEW o \in Seq(Ops),
         q # <<>>, Once(t, d, q, o)
  PROVE  Once(t, Append(d, Head(q)), Tail(q), o)
<1> DEFINE h == Head(q)
           D == Append(d, h)
<1>1. h \in Ops /\ h = q[1] /\ 1 \in 1 .. Len(q)
  BY Removed
<1>2. Contains(t, h) /\ ~ Contains(o, h)
  BY <1>1 DEF Once
<1>3. ~ Contains(d, h)
  <2> SUFFICES ASSUME NEW i \in 1 .. Len(d), d[i] = h PROVE FALSE
    BY DEF Contains
  <2>1. ~ Contains(q, h)
    BY DEF Once
  <2> QED
    BY <1>1, <2>1 DEF Contains
<1>4. Injective(D)
  BY <1>1, <1>3, InjectiveAppend DEF Once
<1>5. Injective(q)
  BY DEF Once
<1>6. Injective(Tail(q)) /\ \A x : Contains(Tail(q), x) <=> Contains(q, x) /\ x # h
  BY <1>5, InjectiveTail, ContainsTail
<1>7. \A i \in 1 .. Len(D) : (i \in 1 .. Len(d) /\ D[i] = d[i]) \/ D[i] = h
  BY <1>1, Appended
<1>8. \A i \in 1 .. Len(Tail(q)) : Contains(t, Tail(q)[i]) /\ ~ Contains(o, Tail(q)[i])
  BY Removed DEF Once
<1> HIDE DEF h, D
<1>9. Once(t, D, Tail(q), o)
  BY <1>2, <1>4, <1>6, <1>7, <1>8 DEF Once
<1> QED
  BY <1>9 DEF D, h

\* The handler is called with the first response of the shared queue.
LEMMA InOrderHandled ==
  ASSUME NEW t \in Seq(Ops), NEW d \in Seq(Ops), NEW q \in Seq(Ops), NEW o \in Seq(Ops),
         q # <<>>, Once(t, d, q, o), InOrder(t, d, q, o)
  PROVE  InOrder(t, Append(d, Head(q)), Tail(q), o)
<1> DEFINE h == Head(q)
           D == Append(d, h)
           R == Tail(q)
<1>1. h \in Ops /\ h = q[1] /\ 1 \in 1 .. Len(q)
  BY Removed
<1>2. Injective(q)
  BY DEF Once
<1>3. \A x : Contains(R, x) <=> Contains(q, x) /\ x # h
  BY <1>2, ContainsTail
<1>4. \A x : Contains(D, x) <=> Contains(d, x) \/ x = h
  BY <1>1, ContainsAppend
<1>5. \A i \in 1 .. Len(t) : Contains(D, t[i]) \/ Contains(R, t[i]) \/ Contains(o, t[i])
  BY <1>3, <1>4 DEF InOrder
<1>6. \A n \in 1 .. Len(D) :
        (n \in 1 .. Len(d) /\ D[n] = d[n]) \/ (n = Len(d) + 1 /\ D[n] = h)
  BY <1>1, Appended
<1>7. \A m \in 1 .. Len(d) : D[m] = d[m]
  BY <1>1, Appended
<1>8. ASSUME NEW i \in 1 .. Len(t), NEW k \in 1 .. Len(t), i < k,
             ClassOf(t[i]) = ClassOf(t[k])
      PROVE  /\ \A n \in 1 .. Len(D) : D[n] = t[k] => \E m \in 1 .. n - 1 : D[m] = t[i]
             /\ \A n \in 1 .. Len(R) :
                  R[n] = t[k] => Contains(D, t[i]) \/ \E m \in 1 .. n - 1 : R[m] = t[i]
  <2>1. /\ \A n \in 1 .. Len(d) : d[n] = t[k] => \E m \in 1 .. n - 1 : d[m] = t[i]
        /\ \A n \in 1 .. Len(q) :
             q[n] = t[k] => Contains(d, t[i]) \/ \E m \in 1 .. n - 1 : q[m] = t[i]
    BY <1>8 DEF InOrder
  <2>2. ASSUME NEW n \in 1 .. Len(D), D[n] = t[k]
        PROVE  \E m \in 1 .. n - 1 : D[m] = t[i]
    <3>1. CASE n \in 1 .. Len(d) /\ D[n] = d[n]
      <4>1. PICK m \in 1 .. n - 1 : d[m] = t[i]
        BY <2>1, <2>2, <3>1
      <4> QED
        BY <1>7, <3>1, <4>1
    <3>2. CASE n = Len(d) + 1 /\ D[n] = h
      <4>1. Contains(d, t[i])
        BY <1>1, <2>1, <2>2, <3>2
      <4>2. PICK m \in 1 .. Len(d) : d[m] = t[i]
        BY <4>1 DEF Contains
      <4>3. m \in 1 .. n - 1
        BY <3>2, Elements
      <4> QED
        BY <1>7, <4>2, <4>3
    <3> QED
      BY <1>6, <3>1, <3>2
  <2>3. ASSUME NEW n \in 1 .. Len(R), R[n] = t[k], ~ Contains(D, t[i])
        PROVE  \E m \in 1 .. n - 1 : R[m] = t[i]
    <3>1. n + 1 \in 1 .. Len(q) /\ q[n + 1] = t[k]
      BY <2>3, Removed
    <3>2. ~ Contains(d, t[i]) /\ t[i] # h
      BY <1>4, <2>3
    <3>3. PICK m \in 1 .. (n + 1) - 1 : q[m] = t[i]
      BY <2>1, <3>1, <3>2
    <3>4. m # 1
      BY <1>1, <3>2, <3>3
    <3>5. m - 1 \in 1 .. n - 1
      BY <3>3, <3>4
    <3>6. m \in 1 .. Len(q)
      BY <3>1, <3>3
    <3>7. R[m - 1] = t[i]
      BY <3>3, <3>4, <3>6, Removed
    <3> QED
      BY <3>5, <3>7
  <2> QED
    BY <2>2, <2>3
<1> HIDE DEF D, R
<1>9. InOrder(t, D, R, o)
  BY <1>5, <1>8 DEF InOrder
<1> QED
  BY <1>9 DEF D, R, h

\* The handler of the response that did not fit is called when the queue is empty.
LEMMA OnceAnswered ==
  ASSUME NEW t \in Seq(Ops), NEW d \in Seq(Ops), NEW e \in Ops, Once(t, d, <<>>, <<e>>)
  PROVE  Once(t, Append(d, e), <<>>, <<>>)
<1> DEFINE D == Append(d, e)
<1>1. Contains(t, e) /\ ~ Contains(d, e)
  BY Single DEF Once, Contains
<1>2. Injective(D) /\ Injective(t)
  BY <1>1, InjectiveAppend DEF Once
<1>3. \A i \in 1 .. Len(D) : (i \in 1 .. Len(d) /\ D[i] = d[i]) \/ D[i] = e
  BY Appended
<1>4. \A i \in 1 .. Len(D) : Contains(t, D[i])
  BY <1>1, <1>3 DEF Once
<1> HIDE DEF D
<1>5. Once(t, D, <<>>, <<>>)
  BY <1>2, <1>4, Empty DEF Once
<1> QED
  BY <1>5 DEF D

\* The response that did not fit is handed over when the shared queue is empty.
LEMMA InOrderAnswered ==
  ASSUME NEW t \in Seq(Ops), NEW d \in Seq(Ops), NEW e \in Ops,
         Once(t, d, <<>>, <<e>>), InOrder(t, d, <<>>, <<e>>)
  PROVE  InOrder(t, Append(d, e), <<>>, <<>>)
<1> DEFINE D == Append(d, e)
<1>1. \A x : Contains(D, x) <=> Contains(d, x) \/ x = e
  BY ContainsAppend
<1>2. \A i \in 1 .. Len(t) : Contains(D, t[i])
  BY <1>1, Empty, Single DEF InOrder
<1>3. \A n \in 1 .. Len(D) :
        (n \in 1 .. Len(d) /\ D[n] = d[n]) \/ (n = Len(d) + 1 /\ D[n] = e)
  BY Appended
<1>4. \A m \in 1 .. Len(d) : D[m] = d[m]
  BY Appended
<1>5. ASSUME NEW i \in 1 .. Len(t), NEW k \in 1 .. Len(t), i < k,
             ClassOf(t[i]) = ClassOf(t[k]), NEW n \in 1 .. Len(D), D[n] = t[k]
      PROVE  \E m \in 1 .. n - 1 : D[m] = t[i]
  <2>1. CASE n \in 1 .. Len(d) /\ D[n] = d[n]
    <3>1. PICK m \in 1 .. n - 1 : d[m] = t[i]
      BY <1>5, <2>1, ZenonT(60) DEF InOrder
    <3> QED
      BY <1>4, <2>1, <3>1
  <2>2. CASE n = Len(d) + 1 /\ D[n] = e
    <3>1. t[i] # e
      <4>1. t[i] # t[k]
        BY <1>5 DEF Once, Injective
      <4> QED
        BY <1>5, <2>2, <4>1
    <3>2. PICK m \in 1 .. Len(d) : d[m] = t[i]
      BY <1>1, <1>2, <3>1 DEF Contains
    <3>3. m \in 1 .. n - 1
      BY <2>2, Elements
    <3> QED
      BY <1>4, <3>2, <3>3
  <2> QED
    BY <1>3, <2>1, <2>2
<1> HIDE DEF D
<1>6. InOrder(t, D, <<>>, <<>>)
  BY <1>2, <1>5, Empty DEF InOrder
<1> QED
  BY <1>6 DEF D

-----------------------------------------------------------------------------
(* Every step keeps the types and the bounds.                              *)

\* There are two sets of futures.
LEMMA ClassesKnown ==
  /\ Classes = {"ref", "unref"} /\ \A op : ClassOf(op) \in Classes
  /\ \A op : ClassOf(op) = "unref" <=> op \in UnrefOps
  BY DEF Classes, ClassOf

\* Poll and the executor go on to a place that they have.
LEMMA KeepPlaces == ASSUME Places, Next PROVE Places'
<1> USE DEF Places, PCs, queueVars, opVars, jsVars, history
<1>1. CASE Execute
  BY <1>1 DEF Execute
<1>2. CASE JavaScript
  <2>1. ASSUME NEW op \in Ops, DispatchOp(op) PROVE Places'
    BY <2>1 DEF DispatchOp, MarkUnpolled
  <2>2. CASE Reject \/ HandleLate \/ Macrotask
    BY <2>2 DEF Reject, HandleLate, Macrotask, MayThrow
  <2>3. CASE Return("script", "idle")
    BY <2>3 DEF Return, Fail
  <2> QED
    BY <1>2, <2>1, <2>2, <2>3 DEF JavaScript
<1>3. ASSUME NEW op \in Ops, Complete(op) PROVE Places'
  BY <1>3 DEF Complete
<1>4. CASE StartPoll
  BY <1>4 DEF StartPoll, Fail
<1>5. CASE PollStep
  <2>1. ASSUME NEW c \in Classes, PollFuture(c) PROVE Places'
    BY <2>1 DEF PollFuture, UnpolledAfterRound, AfterOverflow, After
  <2>2. ASSUME NEW c \in Classes, PollDone(c) PROVE Places'
    BY <2>2 DEF PollDone, UnpolledAfterRound, After
  <2>3. CASE Handle
    BY <2>3 DEF Handle, MayThrow
  <2>4. CASE NothingQueued \/ HandleOverflow
    BY <2>4 DEF NothingQueued, HandleOverflow, MayThrow
  <2>5. CASE Return("microtasks", "overflow")
    BY <2>5 DEF Return, Fail
  <2>6. CASE Return("overflow microtasks", "macrotasks") \/ Return("macrotasks", "end")
    BY <2>6 DEF Return, Fail
  <2>7. CASE EndPoll
    <3>1. woken' = woken \/ woken' = (woken \/ haveUnpolled)
      BY <2>7 DEF EndPoll
    <3>2. woken' \in BOOLEAN
      BY <3>1
    <3> QED
      BY <2>7, <3>2 DEF EndPoll, Fail
  <2> QED
    BY <1>5, <2>1, <2>2, <2>3, <2>4, <2>5, <2>6, <2>7 DEF PollStep
<1> QED
  BY <1>1, <1>2, <1>3, <1>4, <1>5 DEF Next

\* Bytes in use are bytes.
LEMMA AlignNat == ASSUME NEW n \in Nat PROVE Q!Align(n) \in Nat
  BY DEF Q!Align

\* The shared queue stays within its bounds, and what throws and rejects too.
LEMMA KeepBounds == ASSUME Bounds, Sequences, Next PROVE Bounds'
<1> USE DEF Bounds, queueVars, opVars, jsVars, history
<1> USE CoreIsolateAssumption
<1>1. CASE Execute
  BY <1>1 DEF Execute
<1>2. CASE JavaScript
  <2>1. ASSUME NEW op \in Ops, DispatchOp(op) PROVE Bounds'
    BY <2>1 DEF DispatchOp
  <2>2. CASE Reject \/ HandleLate
    BY <2>2 DEF Reject, HandleLate
  <2>3. CASE Macrotask
    BY <2>3 DEF Macrotask, MayThrow
  <2>4. CASE Return("script", "idle")
    BY <2>4 DEF Return
  <2> QED
    BY <1>2, <2>1, <2>2, <2>3, <2>4 DEF JavaScript
<1>3. ASSUME NEW op \in Ops, Complete(op) PROVE Bounds'
  BY <1>3 DEF Complete
<1>4. CASE StartPoll
  BY <1>4 DEF StartPoll
<1>5. CASE PollStep
  <2>1. ASSUME NEW c \in Classes, PollFuture(c) PROVE Bounds'
    <3>1. UNCHANGED <<exceptions, rejections, throws>>
      BY <2>1 DEF PollFuture
    <3>2. CASE UNCHANGED <<count, used>>
      BY <3>1, <3>2
    <3>3. CASE \E op \in Ops : Q!Enqueue(op)
      <4>1. PICK op \in Ops : Q!Enqueue(op)
        BY <3>3
      <4>2. used + Size[op] \in Nat
        OBVIOUS
      <4>3. count' = count + 1 /\ count < MaxRecords /\ used' \in Nat /\ used' <= Capacity
        BY <4>1, <4>2, AlignNat DEF Q!Enqueue, Q!Fits
      <4> QED
        BY <3>1, <4>3
    <3>4. Head(ready[c]) \in Ops
      BY <2>1, Removed DEF PollFuture, Sequences
    <3> QED
      BY <2>1, <3>2, <3>3, <3>4 DEF PollFuture
  <2>2. ASSUME NEW c \in Classes, PollDone(c) PROVE Bounds'
    BY <2>2 DEF PollDone
  <2>3. CASE Handle
    BY <2>3 DEF Handle, MayThrow, Q!Dequeue
  <2>4. CASE NothingQueued
    BY <2>4 DEF NothingQueued
  <2>8. CASE HandleOverflow
    <3>1. UNCHANGED <<count, used, exceptions, rejections>>
      BY <2>8 DEF HandleOverflow
    <3>2. UNCHANGED throws \/ (throws < MaxThrows /\ throws' = throws + 1)
      BY <2>8 DEF HandleOverflow, MayThrow
    <3> QED
      BY <3>1, <3>2
  <2>5. CASE Return("microtasks", "overflow")
    BY <2>5 DEF Return
  <2>6. CASE Return("overflow microtasks", "macrotasks") \/ Return("macrotasks", "end")
    BY <2>6 DEF Return
  <2>7. CASE EndPoll
    BY <2>7 DEF EndPoll, Rejected
  <2> QED
    BY <1>5, <2>1, <2>2, <2>3, <2>4, <2>5, <2>6, <2>7, <2>8 DEF PollStep
<1> QED
  BY <1>1, <1>2, <1>3, <1>4, <1>5 DEF Next

\* The sequences hold ops, and overflow_response at most one.
LEMMA KeepSequences == ASSUME Sequences, Next PROVE Sequences'
<1> USE DEF Sequences, queueVars, opVars, jsVars, history
<1>1. CASE Execute
  BY <1>1 DEF Execute
<1>2. CASE JavaScript
  <2>1. ASSUME NEW op \in Ops, DispatchOp(op) PROVE Sequences'
    <3>1. Append(ready[ClassOf(op)], op) \in Seq(Ops)
      BY ClassesKnown
    <3>2. ready' \in [Classes -> Seq(Ops)]
      BY <2>1, <3>1, ClassesKnown DEF DispatchOp
    <3> QED
      BY <2>1, <3>2 DEF DispatchOp
  <2>2. CASE Reject \/ HandleLate \/ Macrotask
    BY <2>2 DEF Reject, HandleLate, Macrotask
  <2>3. CASE Return("script", "idle")
    BY <2>3 DEF Return, Fail
  <2> QED
    BY <1>2, <2>1, <2>2, <2>3 DEF JavaScript
<1>3. ASSUME NEW op \in Ops, Complete(op) PROVE Sequences'
  <2>1. Append(ready[ClassOf(op)], op) \in Seq(Ops)
    BY ClassesKnown
  <2>2. ready' \in [Classes -> Seq(Ops)]
    BY <1>3, <2>1, ClassesKnown DEF Complete
  <2> QED
    BY <1>3, <2>2 DEF Complete
<1>4. CASE StartPoll
  BY <1>4 DEF StartPoll, Fail
<1>5. CASE PollStep
  <2>1. ASSUME NEW c \in Classes, PollFuture(c) PROVE Sequences'
    <3>1. ready[c] \in Seq(Ops) /\ ready[c] # <<>>
      BY <2>1 DEF PollFuture
    <3>2. Tail(ready[c]) \in Seq(Ops) /\ Head(ready[c]) \in Ops
      BY <3>1, Removed
    <3>3. ready' \in [Classes -> Seq(Ops)] /\ delivered' = delivered
      BY <2>1, <3>2 DEF PollFuture
    <3>4. taken' = taken \/ taken' = Append(taken, Head(ready[c]))
      BY <2>1 DEF PollFuture
    <3>5. taken' \in Seq(Ops)
      <4>1. Append(taken, Head(ready[c])) \in Seq(Ops)
        BY <3>2, Appended
      <4> QED
        BY <3>4, <4>1
    <3>6. UNCHANGED <<queue, last>> \/ Q!Enqueue(Head(ready[c]))
      BY <2>1 DEF PollFuture
    <3>7. queue' \in Seq(Ops) /\ last' \in Seq(Ops)
      <4>1. Append(queue, Head(ready[c])) \in Seq(Ops) /\ <<>> \in Seq(Ops)
        BY <3>2, Appended
      <4> QED
        BY <3>6, <4>1 DEF Q!Enqueue
    <3>8. overflow' = overflow \/ overflow' = <<Head(ready[c])>>
      BY <2>1 DEF PollFuture
    <3> QED
      BY <3>2, <3>3, <3>5, <3>7, <3>8
  <2>2. ASSUME NEW c \in Classes, PollDone(c) PROVE Sequences'
    BY <2>2 DEF PollDone
  <2>3. CASE Handle
    <3>1. queue # <<>>
      BY <2>3 DEF Handle
    <3>2. Tail(queue) \in Seq(Ops) /\ Head(queue) \in Ops
      BY <3>1, Removed
    <3> QED
      BY <2>3, <3>2, Appended, Single DEF Handle, Q!Dequeue
  <2>4. CASE NothingQueued
    BY <2>4 DEF NothingQueued
  <2>8. CASE HandleOverflow
    <3>1. CASE overflow = <<>>
      BY <2>8, <3>1 DEF HandleOverflow
    <3>2. CASE overflow # <<>>
      <4>1. PICK op \in Ops : overflow = <<op>>
        BY <3>2
      <4>2. delivered' = Append(delivered, op)
        BY <2>8, <3>2, <4>1, Single DEF HandleOverflow, AnswerOverflow
      <4>3. delivered' \in Seq(Ops)
        BY <4>2, Appended
      <4> QED
        BY <2>8, <3>2, <4>3 DEF HandleOverflow
    <3> QED
      BY <3>1, <3>2
  <2>5. CASE Return("microtasks", "overflow")
    BY <2>5 DEF Return, Fail
  <2>6. CASE Return("overflow microtasks", "macrotasks") \/ Return("macrotasks", "end")
    BY <2>6 DEF Return, Fail
  <2>7. CASE EndPoll
    BY <2>7 DEF EndPoll, Fail
  <2> QED
    BY <1>5, <2>1, <2>2, <2>3, <2>4, <2>5, <2>6, <2>7, <2>8 DEF PollStep
<1> QED
  BY <1>1, <1>2, <1>3, <1>4, <1>5 DEF Next

-----------------------------------------------------------------------------
(* Every step keeps track of the futures.                                  *)

\* What a future is when it is polled.
LEMMA Polled ==
  ASSUME Sequences, Futures, NEW c \in Classes, ready[c] # <<>>
  PROVE  /\ Head(ready[c]) \in pending[c] /\ Head(ready[c]) \in Ops
         /\ Head(ready[c]) \in dispatched
         /\ ClassOf(Head(ready[c])) = c /\ ~ Contains(taken, Head(ready[c]))
<1>1. ready[c] \in Seq(Ops)
  BY DEF Sequences
<1>2. Head(ready[c]) = ready[c][1] /\ 1 \in 1 .. Len(ready[c])
  BY <1>1, Removed
<1>3. Head(ready[c]) \in pending[c]
  BY <1>2 DEF Futures
<1> QED
  BY <1>3 DEF Futures

\* The set of futures stays what it is while nothing dispatches, completes or polls.
LEMMA SameFutures ==
  ASSUME Futures, UNCHANGED <<resolved, dispatched, pending, ready, taken>>
  PROVE  Futures'
  BY DEF Futures, Injective, Contains

\* A dispatched op has a future that nobody has polled.
LEMMA DispatchFutures ==
  ASSUME Sequences, Futures, NEW op \in Ops, DispatchOp(op) PROVE Futures'
<1> DEFINE c == ClassOf(op)
<1>1. /\ op \notin dispatched /\ dispatched' = dispatched \cup {op}
      /\ pending' = [pending EXCEPT ![c] = @ \cup {op}]
      /\ ready' = [ready EXCEPT ![c] = Append(@, op)]
      /\ UNCHANGED <<resolved, taken>>
  BY DEF DispatchOp, history
<1>2. c \in Classes
  BY ClassesKnown
<1>3. pending' \in [Classes -> SUBSET dispatched']
  BY <1>1 DEF Futures
<1>4. ~ Contains(taken, op) /\ op \notin resolved
  BY <1>1 DEF Futures, Contains
<1>5. op \notin pending[c]
  BY <1>1, <1>2 DEF Futures
<1>6. ready[c] \in Seq(Ops) /\ Injective(ready[c])
  BY <1>2 DEF Sequences, Futures
<1>7. ~ Contains(ready[c], op)
  BY <1>2, <1>5 DEF Futures, Contains
<1>8. ASSUME NEW k \in Classes
      PROVE  /\ \A x \in pending'[k] : ClassOf(x) = k /\ ~ Contains(taken, x)
             /\ \A i \in 1 .. Len(ready'[k]) : ready'[k][i] \in pending'[k]
             /\ Injective(ready'[k])
             /\ \A x \in pending'[k] \cap resolved : Contains(ready'[k], x)
  <2>1. CASE k = c
    <3>1. pending'[k] = pending[k] \cup {op} /\ ready'[k] = Append(ready[k], op)
      BY <1>1, <1>2, <2>1 DEF Sequences, Futures
    <3>2. \A i \in 1 .. Len(ready'[k]) : ready'[k][i] \in pending'[k]
      BY <1>6, <2>1, <3>1, Appended DEF Futures
    <3>3. Injective(ready'[k])
      BY <1>6, <1>7, <2>1, <3>1, InjectiveAppend
    <3>4. \A x : Contains(ready'[k], x) <=> Contains(ready[k], x) \/ x = op
      BY <1>6, <2>1, <3>1, ContainsAppend
    <3> QED
      BY <1>4, <2>1, <3>1, <3>2, <3>3, <3>4 DEF Futures
  <2>2. CASE k # c
    BY <1>1, <2>2 DEF Futures, Sequences
  <2> QED
    BY <2>1, <2>2
<1>9. \A x \in dispatched' : x \in pending'[ClassOf(x)] \/ Contains(taken', x)
  BY <1>1, <1>2, ClassesKnown DEF Futures
<1> QED
  BY <1>1, <1>3, <1>8, <1>9 DEF Futures

\* A future that completes is polled again, or was not polled yet.
LEMMA CompleteFutures ==
  ASSUME Sequences, Futures, NEW op \in Ops, Complete(op) PROVE Futures'
<1> DEFINE c == ClassOf(op)
<1>1. /\ op \in dispatched \ resolved /\ resolved' = resolved \cup {op}
      /\ UNCHANGED <<dispatched, pending, taken>>
      /\ IF Waits(op) THEN ready' = [ready EXCEPT ![c] = Append(@, op)] ELSE UNCHANGED ready
  BY DEF Complete, history
<1>2. c \in Classes /\ ready[c] \in Seq(Ops) /\ Injective(ready[c])
  BY ClassesKnown DEF Sequences, Futures
<1>3. ASSUME NEW k \in Classes
      PROVE  /\ \A i \in 1 .. Len(ready'[k]) : ready'[k][i] \in pending[k]
             /\ Injective(ready'[k])
             /\ \A x \in pending[k] \cap resolved' : Contains(ready'[k], x)
  <2>1. CASE k = c /\ Waits(op)
    <3>1. ready'[k] = Append(ready[k], op) /\ op \in pending[k] /\ ~ Contains(ready[k], op)
      BY <1>1, <1>2, <2>1 DEF Sequences, Waits
    <3>2. \A i \in 1 .. Len(ready'[k]) : ready'[k][i] \in pending[k]
      BY <1>2, <2>1, <3>1, Appended DEF Futures
    <3>3. Injective(ready'[k])
      BY <1>2, <2>1, <3>1, InjectiveAppend
    <3>4. \A x : Contains(ready'[k], x) <=> Contains(ready[k], x) \/ x = op
      BY <1>2, <2>1, <3>1, ContainsAppend
    <3> QED
      BY <1>1, <3>2, <3>3, <3>4 DEF Futures
  <2>2. CASE k = c /\ ~ Waits(op)
    <3>1. ready'[k] = ready[k]
      BY <1>1, <2>2
    <3>2. op \in pending[k] => Contains(ready[k], op)
      BY <2>2 DEF Waits
    <3> QED
      BY <1>1, <3>1, <3>2 DEF Futures
  <2>3. CASE k # c
    <3>1. ready'[k] = ready[k]
      BY <1>1, <2>3 DEF Sequences
    <3>2. op \notin pending[k]
      BY <2>3 DEF Futures
    <3> QED
      BY <1>1, <3>1, <3>2 DEF Futures
  <2> QED
    BY <2>1, <2>2, <2>3
<1> QED
  BY <1>1, <1>3 DEF Futures

\* A future that is polled has its response taken, or waits.
LEMMA PollFutures ==
  ASSUME Sequences, Futures, NEW c \in Classes, PollFuture(c) PROVE Futures'
<1> DEFINE op == Head(ready[c])
<1>1. /\ ready[c] # <<>> /\ ready' = [ready EXCEPT ![c] = Tail(@)]
      /\ UNCHANGED <<dispatched, resolved>>
      /\ \/ op \notin resolved /\ UNCHANGED <<pending, taken>>
         \/ /\ op \in resolved /\ pending' = [pending EXCEPT ![c] = @ \ {op}]
            /\ taken' = Append(taken, op)
  BY DEF PollFuture
<1>2. ready[c] \in Seq(Ops) /\ Injective(ready[c])
  BY DEF Sequences, Futures
<1>3. /\ op \in pending[c] /\ op \in Ops /\ op \in dispatched
      /\ ClassOf(op) = c /\ ~ Contains(taken, op)
  BY <1>1, Polled
<1>4. /\ ready'[c] = Tail(ready[c]) /\ Injective(Tail(ready[c]))
      /\ \A x : Contains(Tail(ready[c]), x) <=> Contains(ready[c], x) /\ x # op
  BY <1>1, <1>2, InjectiveTail, ContainsTail DEF Sequences
<1>5. \A i \in 1 .. Len(Tail(ready[c])) : Tail(ready[c])[i] \in pending[c] \ {op}
  <2> TAKE i \in 1 .. Len(Tail(ready[c]))
  <2>1. Contains(Tail(ready[c]), Tail(ready[c])[i])
    BY DEF Contains
  <2>2. i + 1 \in 1 .. Len(ready[c]) /\ Tail(ready[c])[i] = ready[c][i + 1]
    BY <1>1, <1>2, Removed
  <2> QED
    BY <1>4, <2>1, <2>2 DEF Futures
<1>6. taken \in Seq(Ops)
  BY DEF Sequences
<1>7. \A k \in Classes : k # c => ready'[k] = ready[k] /\ pending'[k] = pending[k]
  BY <1>1 DEF Sequences, Futures
<1> HIDE DEF op
<1>8. CASE op \notin resolved /\ UNCHANGED <<pending, taken>>
  <2>1. ASSUME NEW k \in Classes
        PROVE  /\ \A i \in 1 .. Len(ready'[k]) : ready'[k][i] \in pending[k]
               /\ Injective(ready'[k])
               /\ \A x \in pending[k] \cap resolved : Contains(ready'[k], x)
    <3>1. CASE k = c
      <4>1. Injective(ready'[c]) /\ \A i \in 1 .. Len(ready'[c]) : ready'[c][i] \in pending[c]
        BY <1>4, <1>5
      <4>2. \A x \in pending[c] \cap resolved : Contains(ready'[c], x)
        BY <1>4, <1>8 DEF Futures
      <4> QED
        BY <3>1, <4>1, <4>2
    <3>2. CASE k # c
      BY <1>7, <3>2 DEF Futures
    <3> QED
      BY <3>1, <3>2
  <2> QED
    BY <1>1, <1>8, <2>1 DEF Futures
<1>9. CASE /\ op \in resolved /\ pending' = [pending EXCEPT ![c] = @ \ {op}]
           /\ taken' = Append(taken, op)
  <2>1. \A x : Contains(taken', x) <=> Contains(taken, x) \/ x = op
    BY <1>3, <1>6, <1>9, ContainsAppend
  <2>2. pending'[c] = pending[c] \ {op} /\ pending' \in [Classes -> SUBSET dispatched]
    BY <1>9 DEF Futures
  <2>3. ASSUME NEW k \in Classes
        PROVE  /\ \A x \in pending'[k] : ClassOf(x) = k /\ ~ Contains(taken', x)
               /\ \A i \in 1 .. Len(ready'[k]) : ready'[k][i] \in pending'[k]
               /\ Injective(ready'[k])
               /\ \A x \in pending'[k] \cap resolved : Contains(ready'[k], x)
    <3>1. CASE k = c
      <4>1. Injective(ready'[c]) /\ \A i \in 1 .. Len(ready'[c]) : ready'[c][i] \in pending'[c]
        BY <1>4, <1>5, <2>2
      <4>2. \A x \in pending'[c] \cap resolved : Contains(ready'[c], x)
        BY <1>4, <2>2 DEF Futures
      <4>3. \A x \in pending'[c] : ClassOf(x) = c /\ ~ Contains(taken', x)
        BY <2>1, <2>2 DEF Futures
      <4> QED
        BY <3>1, <4>1, <4>2, <4>3
    <3>2. CASE k # c
      BY <1>3, <1>7, <2>1, <3>2 DEF Futures
    <3> QED
      BY <3>1, <3>2
  <2>4. \A x \in dispatched : x \in pending'[ClassOf(x)] \/ Contains(taken', x)
    BY <1>3, <1>7, <2>1, <2>2, ClassesKnown DEF Futures
  <2>5. \A i \in 1 .. Len(taken') : taken'[i] \in dispatched
    BY <1>3, <1>6, <1>9, Appended DEF Futures
  <2> QED
    BY <1>1, <2>2, <2>3, <2>4, <2>5 DEF Futures
<1> QED
  BY <1>1, <1>8, <1>9

\* A future stays in its set, and due to be polled, until it returns its response.
LEMMA KeepFutures == ASSUME Sequences, Futures, Next PROVE Futures'
<1> USE DEF queueVars, opVars, jsVars, history
<1>1. ASSUME NEW op \in Ops, DispatchOp(op) PROVE Futures'
  BY <1>1, DispatchFutures
<1>2. ASSUME NEW op \in Ops, Complete(op) PROVE Futures'
  BY <1>2, CompleteFutures
<1>3. ASSUME NEW c \in Classes, PollFuture(c) PROVE Futures'
  BY <1>3, PollFutures
<1>4. ASSUME NEW c \in Classes, PollDone(c) PROVE Futures'
  BY <1>4, SameFutures DEF PollDone
<1>5. CASE Execute \/ StartPoll \/ Reject \/ HandleLate \/ Macrotask \/ Handle
        \/ NothingQueued \/ HandleOverflow \/ EndPoll
  BY <1>5, SameFutures DEF Execute, StartPoll, Reject, HandleLate, Macrotask, Handle,
     NothingQueued, HandleOverflow, EndPoll
<1>6. ASSUME NEW from, NEW to, Return(from, to) PROVE Futures'
  BY <1>6, SameFutures DEF Return
<1> QED
  BY <1>1, <1>2, <1>3, <1>4, <1>5, <1>6 DEF Next, JavaScript, PollStep

-----------------------------------------------------------------------------
(* Every step keeps the phases of poll apart.                              *)

\* The last response that is taken leaves the queue empty.
LEMMA LastTaken ==
  ASSUME NEW S, NEW q \in Seq(S), Len(q) = 1 PROVE Tail(q) = <<>>
<1>1. q # <<>>
  OBVIOUS
<1>2. Tail(q) \in Seq(S) /\ Len(Tail(q)) = 0
  BY <1>1, Removed
<1> QED
  BY <1>2, Elements

\* Poll is in the same phase with the same responses.
LEMMA SamePhases ==
  ASSUME Phases, UNCHANGED <<pc, failed, throws, overflow, overflowed, queue>>
  PROVE  Phases'
  BY DEF Phases

\* An exception is counted.
LEMMA Thrown ==
  ASSUME Bounds, MayThrow, ~ failed PROVE failed' => throws' > 0
<1>1. CASE failed' = failed
  BY <1>1
<1>2. CASE throws' = throws + 1
  BY <1>2 DEF Bounds
<1> QED
  BY <1>1, <1>2 DEF MayThrow

\* Exceptions are not forgotten.
LEMMA NotForgotten ==
  ASSUME Bounds, MayThrow PROVE throws' = 0 => throws = 0
<1>1. CASE UNCHANGED throws
  BY <1>1
<1>2. CASE throws' = throws + 1
  BY <1>2 DEF Bounds
<1> QED
  BY <1>1, <1>2 DEF MayThrow

\* The response that did not fit and an exception stay until the phases they belong to.
LEMMA KeepPhases ==
  ASSUME Places, Bounds, Sequences, Futures, Phases, Next PROVE Phases'
<1> USE DEF Phases, queueVars, opVars, jsVars, history
<1>1. CASE Execute
  BY <1>1 DEF Execute
<1>2. ASSUME NEW op \in Ops, DispatchOp(op) \/ Complete(op) PROVE Phases'
  BY <1>2, SamePhases DEF DispatchOp, Complete
<1>3. CASE Reject \/ HandleLate
  BY <1>3, SamePhases DEF Reject, HandleLate
<1>4. CASE Macrotask
  BY <1>4 DEF Macrotask, MayThrow, Bounds
<1>5. CASE Return("script", "idle")
  BY <1>5 DEF Return, Fail
<1>6. CASE StartPoll
  BY <1>6 DEF StartPoll, Fail
<1>7. ASSUME NEW c \in Classes, PollFuture(c) PROVE Phases'
  <2>1. /\ pc = c /\ c \in {"ref", "unref"} /\ UNCHANGED <<failed, throws>>
        /\ ready[c] # <<>>
    BY <1>7 DEF PollFuture, Classes
  <2>2. ~ failed
    BY <2>1
  <2>3. CASE UNCHANGED <<pc, overflow, overflowed>>
    BY <2>1, <2>2, <2>3
  <2>4. CASE overflow' = <<Head(ready[c])>> /\ overflowed' = TRUE /\ pc' = AfterOverflow(c)
    <3>1. ClassOf(Head(ready[c])) = c
      BY <2>1, Polled
    <3>3. CASE c = "ref"
      <4>1. pc' = "unref"
        BY <2>4, <3>3 DEF AfterOverflow, After
      <4>2. \A op \in Ops : overflow' = <<op>> => ClassOf(op) = "ref"
        BY <2>4, <3>1, <3>3
      <4> QED
        BY <2>1, <2>2, <2>4, <4>1, <4>2
    <3>4. CASE c = "unref"
      <4>1. pc' = "queued"
        BY <2>4, <3>4 DEF AfterOverflow, After
      <4> QED
        BY <2>1, <2>2, <2>4, <4>1
    <3> QED
      BY <2>1, <3>3, <3>4
  <2> QED
    BY <1>7, <2>3, <2>4 DEF PollFuture
<1>8. ASSUME NEW c \in Classes, PollDone(c) PROVE Phases'
  <2>1. /\ pc = c /\ c \in {"ref", "unref"} /\ pc' = IF c = "ref" THEN "unref" ELSE "queued"
        /\ UNCHANGED <<failed, throws, overflow, overflowed, queue>>
    BY <1>8 DEF PollDone, After, Classes
  <2>2. ~ failed
    BY <2>1
  <2>3. CASE c = "ref"
    <3>1. overflow = <<>> /\ pc' = "unref"
      BY <2>1, <2>3
    <3>2. overflow' = <<>>
      BY <2>1, <3>1
    <3>3. \A op \in Ops : overflow' = <<op>> => ClassOf(op) = "ref"
      BY <3>2
    <3> QED
      BY <2>1, <2>2, <3>1, <3>2, <3>3
  <2>4. CASE c = "unref"
    BY <2>1, <2>2, <2>4
  <2> QED
    BY <2>1, <2>3, <2>4
<1>9. CASE Handle
  <2>1. Len(queue) = 1 => queue' = <<>>
    BY <1>9, LastTaken DEF Handle, Q!Dequeue, Sequences
  <2>2. /\ pc \in {"queued", "receiving"} /\ ~ failed /\ UNCHANGED <<overflow, overflowed>>
        /\ pc' = IF failed' \/ Len(queue) = 1 THEN "microtasks" ELSE "receiving"
    BY <1>9 DEF Handle, LeaveHandlers
  <2>3. failed' => throws' > 0
    BY <1>9, <2>2, Thrown DEF Handle
  <2> QED
    BY <2>1, <2>2, <2>3
<1>10. CASE NothingQueued
  BY <1>10 DEF NothingQueued
<1>11. CASE HandleOverflow
  <2>1. pc = "overflow" /\ UNCHANGED <<queue, overflowed>> /\ ~ failed
    BY <1>11 DEF HandleOverflow
  <2>2. CASE overflow = <<>>
    BY <1>11, <2>1, <2>2 DEF HandleOverflow
  <2>3. CASE overflow # <<>>
    <3>1. failed' => throws' > 0
      BY <1>11, <2>1, <2>3, Thrown DEF HandleOverflow
    <3> QED
      BY <1>11, <2>1, <2>3, <3>1 DEF HandleOverflow
  <2> QED
    BY <2>2, <2>3
<1>12. CASE Return("microtasks", "overflow")
  BY <1>12 DEF Return, Fail
<1>13. CASE Return("overflow microtasks", "macrotasks")
  BY <1>13 DEF Return, Fail
<1>14. CASE Return("macrotasks", "end")
  BY <1>14 DEF Return, Fail
<1>15. CASE EndPoll
  BY <1>15 DEF EndPoll, Fail
<1> QED
  BY <1>1, <1>2, <1>3, <1>4, <1>5, <1>6, <1>7, <1>8, <1>9, <1>10, <1>11, <1>12, <1>13,
     <1>14, <1>15 DEF Next, JavaScript, PollStep

-----------------------------------------------------------------------------
(* Every step keeps its promise that a poll follows.                       *)

\* A future that may go on is polled, or wakes the executor.
LEMMA KeepWaking ==
  ASSUME Places, Sequences, Phases, Waking, Next PROVE Waking'
<1> USE DEF Waking, queueVars, opVars, jsVars, history
<1>1. CASE Execute
  BY <1>1 DEF Execute, AfterRef, AfterUnref
<1>2. ASSUME NEW op \in Ops, DispatchOp(op) PROVE Waking'
  <2>1. /\ pc \in {"script", "microtasks", "overflow microtasks", "macrotasks"}
        /\ haveUnpolled' = TRUE /\ UNCHANGED <<pc, outcome, woken, overflowed>>
    BY <1>2 DEF DispatchOp, MarkUnpolled, JSRuns
  <2> QED
    BY <2>1
<1>3. ASSUME NEW op \in Ops, Complete(op) PROVE Waking'
  <2>1. UNCHANGED <<pc, outcome, haveUnpolled, overflowed>>
    BY <1>3 DEF Complete
  <2>2. woken' = TRUE \/ UNCHANGED <<ready, woken>>
    BY <1>3 DEF Complete
  <2> QED
    BY <2>1, <2>2
<1>4. CASE Reject \/ HandleLate \/ Macrotask
  BY <1>4 DEF Reject, HandleLate, Macrotask
<1>5. CASE Return("script", "idle")
  <2>1. ~ failed
    BY <1>5 DEF Return, Phases
  <2> QED
    BY <1>5, <2>1 DEF Return, AfterRef, AfterUnref
<1>6. CASE StartPoll
  BY <1>6 DEF StartPoll, Fail, AfterRef, AfterUnref
<1>7. ASSUME NEW c \in Classes, PollFuture(c) PROVE Waking'
  <2>1. /\ pc = c /\ c \in {"ref", "unref"} /\ UNCHANGED <<outcome, woken>>
        /\ ready' = [ready EXCEPT ![c] = Tail(@)] /\ UnpolledAfterRound(c)
    BY <1>7 DEF PollFuture, Classes
  <2>2. CASE UNCHANGED <<pc, overflowed>>
    <3>1. c = "unref" => ready'["ref"] = ready["ref"] /\ haveUnpolled' = haveUnpolled
      BY <2>1 DEF Sequences, UnpolledAfterRound
    <3> QED
      BY <2>1, <2>2, <3>1 DEF AfterRef, AfterUnref
  <2>3. CASE overflowed' = TRUE /\ pc' = AfterOverflow(c)
    BY <2>1, <2>3 DEF AfterOverflow, After
  <2> QED
    BY <1>7, <2>2, <2>3 DEF PollFuture
<1>8. ASSUME NEW c \in Classes, PollDone(c) PROVE Waking'
  <2>1. /\ pc = c /\ c \in {"ref", "unref"} /\ UNCHANGED <<outcome, woken, ready, overflowed>>
        /\ pc' = IF c = "ref" THEN "unref" ELSE "queued"
        /\ ready[c] = <<>> /\ UnpolledAfterRound(c)
    BY <1>8 DEF PollDone, After, Classes
  <2>2. c = "unref" => haveUnpolled' = haveUnpolled
    BY <2>1 DEF UnpolledAfterRound
  <2> QED
    BY <2>1, <2>2 DEF AfterRef, AfterUnref
<1>9. CASE Handle
  BY <1>9 DEF Handle, AfterRef, AfterUnref
<1>10. CASE NothingQueued
  BY <1>10 DEF NothingQueued, AfterRef, AfterUnref
<1>11. CASE HandleOverflow
  BY <1>11 DEF HandleOverflow, AfterRef, AfterUnref
<1>12. CASE Return("microtasks", "overflow")
  BY <1>12 DEF Return, Fail, AfterRef, AfterUnref
<1>13. CASE Return("overflow microtasks", "macrotasks")
  BY <1>13 DEF Return, Fail, AfterRef, AfterUnref
<1>14. CASE Return("macrotasks", "end")
  BY <1>14 DEF Return, Fail, AfterRef, AfterUnref
<1>15. CASE EndPoll
  <2>1. CASE Rejected
    BY <1>15, <2>1 DEF EndPoll, Fail, AfterRef, AfterUnref
  <2>2. CASE ~ Rejected /\ OpsDone
    BY <1>15, <2>2 DEF EndPoll, AfterRef, AfterUnref
  <2>3. CASE ~ Rejected /\ ~ OpsDone
    <3>1. woken \/ haveUnpolled => woken'
      BY <1>15, <2>3 DEF EndPoll
    <3>2. pc = "end" /\ pc' = "idle" /\ UNCHANGED <<ready, overflowed>>
      BY <1>15, <2>3 DEF EndPoll
    <3> QED
      BY <3>1, <3>2 DEF AfterRef, AfterUnref
  <2> QED
    BY <2>1, <2>2, <2>3
<1> QED
  BY <1>1, <1>2, <1>3, <1>4, <1>5, <1>6, <1>7, <1>8, <1>9, <1>10, <1>11, <1>12, <1>13,
     <1>14, <1>15 DEF Next, JavaScript, PollStep

\* Promises are rejected only where poll will look at them.
LEMMA KeepReporting ==
  ASSUME Places, Bounds, Phases, Waking, Reporting, Next PROVE Reporting'
<1> USE DEF Reporting, queueVars, opVars, jsVars, history
<1>1. CASE Execute
  BY <1>1 DEF Execute
<1>2. ASSUME NEW op \in Ops, DispatchOp(op) PROVE Reporting'
  BY <1>2 DEF DispatchOp, JSRuns
<1>3. ASSUME NEW op \in Ops, Complete(op) PROVE Reporting'
  <2>1. UNCHANGED <<pc, outcome, exceptions>> /\ (woken' = TRUE \/ UNCHANGED woken)
    BY <1>3 DEF Complete
  <2> QED
    BY <2>1
<1>4. CASE Reject \/ HandleLate \/ Macrotask
  BY <1>4 DEF Reject, HandleLate, Macrotask, JSRuns
<1>5. CASE Return("script", "idle")
  BY <1>5 DEF Return, Phases, Waking
<1>6. CASE StartPoll
  BY <1>6 DEF StartPoll, Fail
<1>7. ASSUME NEW c \in Classes, PollFuture(c) PROVE Reporting'
  BY <1>7 DEF PollFuture, AfterOverflow, After, Classes
<1>8. ASSUME NEW c \in Classes, PollDone(c) PROVE Reporting'
  BY <1>8 DEF PollDone, After
<1>9. CASE Handle \/ NothingQueued \/ HandleOverflow
  BY <1>9 DEF Handle, NothingQueued, HandleOverflow
<1>12. CASE Return("microtasks", "overflow")
  BY <1>12 DEF Return, Fail
<1>13. CASE Return("overflow microtasks", "macrotasks")
  BY <1>13 DEF Return, Fail
<1>14. CASE Return("macrotasks", "end")
  BY <1>14 DEF Return, Fail
<1>15. CASE EndPoll
  <2>1. CASE Rejected
    BY <1>15, <2>1 DEF EndPoll, Fail
  <2>2. CASE ~ Rejected
    <3>1. exceptions = 0 /\ exceptions' = exceptions
      BY <1>15, <2>2 DEF EndPoll, Rejected, Bounds
    <3> QED
      BY <3>1
  <2> QED
    BY <2>1, <2>2
<1> QED
  BY <1>1, <1>2, <1>3, <1>4, <1>5, <1>6, <1>7, <1>8, <1>9, <1>12, <1>13, <1>14, <1>15
     DEF Next, JavaScript, PollStep

-----------------------------------------------------------------------------
(* Every step keeps track of the responses.                                *)

\* Nothing but these steps moves a response.
Moves == \/ \E c \in Classes : PollFuture(c)
         \/ Handle \/ HandleOverflow

\* The other steps leave every response where it is.
LEMMA OthersMoveNothing ==
  ASSUME Next, ~ Moves
  PROVE  UNCHANGED <<taken, delivered, queue, throws, overflowed>>
           \/ (UNCHANGED <<taken, delivered, queue, overflowed>> /\ Macrotask)
<1> USE DEF queueVars, opVars, jsVars, history
<1>1. ASSUME NEW op \in Ops, DispatchOp(op) \/ Complete(op)
      PROVE  UNCHANGED <<taken, delivered, queue, throws, overflowed>>
  BY <1>1 DEF DispatchOp, Complete
<1>2. ASSUME NEW c \in Classes, PollDone(c)
      PROVE  UNCHANGED <<taken, delivered, queue, throws, overflowed>>
  BY <1>2 DEF PollDone
<1>3. ASSUME NEW from, NEW to, Return(from, to)
      PROVE  UNCHANGED <<taken, delivered, queue, throws, overflowed>>
  BY <1>3 DEF Return
<1>4. CASE Execute \/ StartPoll \/ Reject \/ HandleLate \/ NothingQueued \/ EndPoll
  BY <1>4 DEF Execute, StartPoll, Reject, HandleLate, NothingQueued, EndPoll
<1>5. CASE Macrotask
  BY <1>5 DEF Macrotask
<1> QED
  BY <1>1, <1>2, <1>3, <1>4, <1>5 DEF Next, JavaScript, PollStep, Moves

\* Only where poll fails is overflow_response dropped.
LEMMA OthersDropOverflow ==
  ASSUME Phases, Next, ~ Moves
  PROVE  UNCHANGED overflow \/ (overflow' = <<>> /\ (overflow = <<>> \/ failed))
<1> USE DEF queueVars, opVars, jsVars, history
<1>1. ASSUME NEW op \in Ops, DispatchOp(op) \/ Complete(op) PROVE UNCHANGED overflow
  BY <1>1 DEF DispatchOp, Complete
<1>2. ASSUME NEW c \in Classes, PollDone(c) PROVE UNCHANGED overflow
  BY <1>2 DEF PollDone
<1>3. ASSUME NEW from, NEW to, Return(from, to)
      PROVE  UNCHANGED overflow \/ (overflow' = <<>> /\ failed)
  BY <1>3 DEF Return, Fail
<1>4. CASE Execute \/ Reject \/ HandleLate \/ NothingQueued \/ Macrotask
  BY <1>4 DEF Execute, Reject, HandleLate, NothingQueued, Macrotask
<1>5. CASE StartPoll \/ EndPoll
  <2>1. overflow = <<>>
    BY <1>5 DEF StartPoll, EndPoll, Phases
  <2> QED
    BY <1>5, <2>1 DEF StartPoll, EndPoll, Fail
<1> QED
  BY <1>1, <1>2, <1>3, <1>4, <1>5 DEF Next, JavaScript, PollStep, Moves

\* What is done with the response of a future that is polled.
LEMMA PolledResponse ==
  ASSUME Sequences, Futures, NEW c \in Classes, PollFuture(c)
  PROVE  \/ UNCHANGED <<taken, delivered, queue, overflow>>
         \/ \E op \in Ops :
              /\ ~ Contains(taken, op) /\ ClassOf(op) = c /\ pc = c
              /\ taken' = Append(taken, op) /\ UNCHANGED delivered
              /\ \/ queue' = Append(queue, op) /\ UNCHANGED overflow
                 \/ overflow' = <<op>> /\ UNCHANGED queue
<1>1. /\ Head(ready[c]) \in Ops /\ ~ Contains(taken, Head(ready[c]))
      /\ ClassOf(Head(ready[c])) = c
  BY Polled DEF PollFuture
<1> QED
  BY <1>1 DEF PollFuture, Q!Enqueue, queueVars

\* The response that did not fit is a sequence like the others.
LEMMA OverflowSeq ==
  ASSUME Sequences
  PROVE  /\ overflow \in Seq(Ops) /\ queue \in Seq(Ops)
         /\ taken \in Seq(Ops) /\ delivered \in Seq(Ops)
<1>1. CASE overflow = <<>>
  BY <1>1 DEF Sequences
<1>2. CASE \E op \in Ops : overflow = <<op>>
  BY <1>2, Single DEF Sequences
<1> QED
  BY <1>1, <1>2 DEF Sequences

\* The response that did not fit is handed over behind an empty queue.
LEMMA OverflowHandled ==
  ASSUME Sequences, Phases, HandleOverflow
  PROVE  \/ UNCHANGED <<taken, delivered, queue, overflow, throws, overflowed>>
         \/ \E op \in Ops : /\ overflow = <<op>> /\ overflow' = <<>>
                             /\ delivered' = Append(delivered, op)
                             /\ queue = <<>> /\ UNCHANGED <<taken, queue>>
<1>1. queue = <<>> /\ UNCHANGED <<taken, queue, overflowed>>
  BY DEF HandleOverflow, Phases, queueVars
<1>2. CASE overflow = <<>>
  BY <1>1, <1>2 DEF HandleOverflow
<1>3. CASE overflow # <<>>
  <2>1. PICK op \in Ops : overflow = <<op>>
    BY <1>3 DEF Sequences
  <2>2. delivered' = Append(delivered, op)
    BY <1>3, <2>1, Single, OverflowSeq DEF HandleOverflow, AnswerOverflow
  <2> QED
    BY <1>1, <1>3, <2>1, <2>2 DEF HandleOverflow
<1> QED
  BY <1>2, <1>3

\* No step puts a response into two places.
LEMMA KeepOnce ==
  ASSUME Sequences, Futures, Phases, Once(taken, delivered, queue, overflow), Next
  PROVE  Once(taken, delivered, queue, overflow)'
<1>1. ASSUME NEW c \in Classes, PollFuture(c)
      PROVE  Once(taken', delivered', queue', overflow')
  <2>1. CASE UNCHANGED <<taken, delivered, queue, overflow>>
    BY <2>1
  <2>2. ASSUME NEW op \in Ops, ~ Contains(taken, op), taken' = Append(taken, op),
               UNCHANGED delivered,
               (queue' = Append(queue, op) /\ UNCHANGED overflow)
                 \/ (overflow' = <<op>> /\ UNCHANGED queue)
        PROVE  Once(taken', delivered', queue', overflow')
    BY <2>2, OnceQueued, OnceOverflowed, OverflowSeq
  <2> QED
    BY <1>1, <2>1, <2>2, PolledResponse
<1>2. CASE Handle
  <2>1. /\ queue # <<>> /\ queue' = Tail(queue) /\ delivered' = Append(delivered, Head(queue))
        /\ UNCHANGED <<taken, overflow>>
    BY <1>2 DEF Handle, Q!Dequeue
  <2>2. Once(taken', delivered', queue', overflow')
    BY <2>1, OnceHandled, OverflowSeq
  <2> QED
    BY <2>2
<1>3. CASE HandleOverflow
  <2>1. Once(taken', delivered', queue', overflow')
    BY <1>3, OverflowHandled, OnceAnswered, OverflowSeq
  <2> QED
    BY <2>1
<1>4. CASE ~ Moves
  <2>1. UNCHANGED <<taken, delivered, queue>> /\ (UNCHANGED overflow \/ overflow' = <<>>)
    BY <1>4, OthersMoveNothing, OthersDropOverflow
  <2>2. Once(taken, delivered, queue, <<>>)
    BY Empty DEF Once
  <2>3. Once(taken', delivered', queue', overflow')
    BY <2>1, <2>2
  <2> QED
    BY <2>3
<1> QED
  BY <1>1, <1>2, <1>3, <1>4 DEF Moves

\* As long as no response that did not fit is replaced, the way is kept by every step.
LEMMA KeepOrder ==
  ASSUME Bounds, Sequences, Futures, Phases, Once(taken, delivered, queue, overflow),
         OrderInv, Next, OneOverflow
  PROVE  OrderInv'
<1> SUFFICES ASSUME Undisturbed' PROVE InOrder(taken', delivered', queue', overflow')
  BY DEF OrderInv
<1>1. ASSUME NEW c \in Classes, PollFuture(c)
      PROVE  InOrder(taken', delivered', queue', overflow')
  <2>1. UNCHANGED throws /\ (overflowed => overflowed')
    BY <1>1 DEF PollFuture, jsVars
  <2>2. InOrder(taken, delivered, queue, overflow)
    BY <2>1 DEF OrderInv, Undisturbed
  <2>3. CASE UNCHANGED <<taken, delivered, queue, overflow>>
    BY <2>2, <2>3
  <2>4. ASSUME NEW op \in Ops, ~ Contains(taken, op), ClassOf(op) = c, pc = c,
               taken' = Append(taken, op), UNCHANGED delivered,
               queue' = Append(queue, op), UNCHANGED overflow
        PROVE  InOrder(taken', delivered', queue', overflow')
    <3>1. \A i \in 1 .. Len(overflow) : ClassOf(overflow[i]) # c
      <4>1. CASE overflow = <<>>
        BY <4>1, Empty
      <4>2. CASE overflow # <<>>
        <5>1. PICK e \in Ops : overflow = <<e>>
          BY <4>2 DEF Sequences
        <5>2. ClassOf(e) = "ref" /\ c = "unref"
          BY <2>4, <4>2, <5>1 DEF Phases, Classes
        <5> QED
          BY <5>1, <5>2, Single
      <4> QED
        BY <4>1, <4>2
    <3> QED
      BY <2>2, <2>4, <3>1, InOrderQueued, OverflowSeq
  <2>5. ASSUME NEW op \in Ops, ~ Contains(taken, op), taken' = Append(taken, op),
               UNCHANGED delivered, overflow' = <<op>>, UNCHANGED queue
        PROVE  InOrder(taken', delivered', queue', overflow')
    <3>1. overflow = <<>>
      <4> SUFFICES ASSUME overflow # <<>> PROVE FALSE
        OBVIOUS
      <4>1. overflow = <<op>>
        BY <2>5 DEF OneOverflow
      <4>2. Contains(taken, op)
        BY <4>1, Single DEF Once
      <4> QED
        BY <2>5, <4>2
    <3> QED
      BY <2>2, <2>5, <3>1, InOrderOverflowed, OverflowSeq
  <2> QED
    BY <1>1, <2>3, <2>4, <2>5, PolledResponse
<1>2. CASE Handle
  <2>1. /\ queue # <<>> /\ queue' = Tail(queue) /\ delivered' = Append(delivered, Head(queue))
        /\ UNCHANGED <<taken, overflow, overflowed>> /\ MayThrow
    BY <1>2 DEF Handle, Q!Dequeue
  <2>2. throws' = 0 => throws = 0
    BY <2>1, NotForgotten
  <2>3. InOrder(taken, delivered, queue, overflow)
    BY <2>1, <2>2 DEF OrderInv, Undisturbed
  <2> QED
    BY <2>1, <2>3, InOrderHandled, OverflowSeq
<1>3. CASE HandleOverflow
  <2>1. UNCHANGED overflowed /\ (throws' = 0 => throws = 0)
    BY <1>3, NotForgotten DEF HandleOverflow
  <2>2. InOrder(taken, delivered, queue, overflow)
    BY <2>1 DEF OrderInv, Undisturbed
  <2> QED
    BY <1>3, <2>2, OverflowHandled, InOrderAnswered, OverflowSeq
<1>4. CASE ~ Moves
  <2>1. UNCHANGED <<taken, delivered, queue, overflowed>>
    BY <1>4, OthersMoveNothing
  <2>2. throws' = 0 => throws = 0
    BY <1>4, OthersMoveNothing, NotForgotten DEF Macrotask
  <2>3. InOrder(taken, delivered, queue, overflow)
    BY <2>1, <2>2 DEF OrderInv, Undisturbed
  <2>4. overflow # <<>> => ~ failed
    <3>1. overflow # <<>> => overflowed'
      BY <2>1 DEF Phases
    <3>2. overflow # <<>> => throws = 0
      BY <2>2, <3>1 DEF Undisturbed
    <3>3. failed => throws > 0
      BY DEF Phases
    <3> QED
      BY <3>2, <3>3
  <2>5. UNCHANGED overflow
    BY <1>4, <2>4, OthersDropOverflow
  <2> QED
    BY <2>1, <2>3, <2>5
<1> QED
  BY <1>1, <1>2, <1>3, <1>4 DEF Moves

-----------------------------------------------------------------------------
(* What holds in every state.                                              *)

\* Nothing is dispatched, returned or rejected at first.
LEMMA InitInv == Init => Inv /\ OrderInv /\ AnswerInv
<1> SUFFICES ASSUME Init PROVE Inv /\ OrderInv /\ AnswerInv
  OBVIOUS
<1> USE DEF Init, Q!Init
<1>1. Places /\ Phases /\ Waking /\ Reporting
  BY DEF Places, PCs, Phases, Waking, Reporting, AfterRef, AfterUnref
<1>2. Bounds
  BY CoreIsolateAssumption DEF Bounds
<1>3. Sequences
  BY Empty DEF Sequences
<1>4. Futures
  <2>1. \A c \in Classes : pending[c] = {} /\ ready[c] = <<>>
    OBVIOUS
  <2> QED
    BY <2>1, Empty DEF Futures
<1>5. Once(taken, delivered, queue, overflow)
  BY Empty DEF Once
<1>6. InOrder(taken, delivered, queue, overflow)
  BY Empty DEF InOrder
<1>7. AnswerInv
  BY DEF AnswerInv
<1> QED
  BY <1>1, <1>2, <1>3, <1>4, <1>5, <1>6, <1>7 DEF Inv, OrderInv

\* Every step of poll, the executor and the program keeps the invariant.
LEMMA StepInv == Inv /\ [Next]_vars => Inv'
<1> SUFFICES ASSUME Inv, [Next]_vars PROVE Inv'
  OBVIOUS
<1>1. CASE Next
  <2>1. Once(taken, delivered, queue, overflow)'
    BY <1>1, KeepOnce DEF Inv
  <2> QED
    BY <1>1, <2>1, KeepPlaces, KeepBounds, KeepSequences, KeepFutures, KeepPhases,
       KeepWaking, KeepReporting DEF Inv
<1>2. CASE UNCHANGED vars
  <2> USE <1>2 DEF Inv, vars, queueVars, opVars, jsVars, history
  <2>1. Places' /\ Bounds' /\ Sequences' /\ Reporting'
    BY DEF Places, Bounds, Sequences, Reporting
  <2>2. Futures' /\ Phases'
    BY SameFutures, SamePhases
  <2>3. Waking'
    BY DEF Waking
  <2>4. Once(taken', delivered', queue', overflow')
    OBVIOUS
  <2> QED
    BY <2>1, <2>2, <2>3, <2>4
<1> QED
  BY <1>1, <1>2

\* Every step keeps the order of the responses while only one does not fit.
LEMMA StepOrder ==
  Inv /\ OrderInv /\ [Next]_vars /\ [OneOverflow]_vars => OrderInv'
<1> SUFFICES ASSUME Inv, OrderInv, [Next]_vars, [OneOverflow]_vars PROVE OrderInv'
  OBVIOUS
<1>1. CASE UNCHANGED vars
  BY <1>1 DEF OrderInv, Undisturbed, vars, queueVars, opVars, jsVars, history
<1>2. CASE Next /\ OneOverflow
  BY <1>2, KeepOrder DEF Inv
<1> QED
  BY <1>1, <1>2

\* Poll is Ready(Ok) only when no future of the first set is pending, and by then its
\* responses have been handed over.
LEMMA StepAnswer ==
  Inv /\ OrderInv /\ AnswerInv /\ [Next]_vars => AnswerInv'
<1> SUFFICES ASSUME Inv, OrderInv, AnswerInv, [Next]_vars, pc' = "idle", outcome' = "ok",
                    Undisturbed'
             PROVE  \A op \in dispatched' : op \in UnrefOps \/ Contains(delivered', op)
  BY DEF AnswerInv
<1> USE DEF queueVars, opVars, jsVars, history
<1>1. CASE EndPoll
  <2>1. /\ pc = "end" /\ pending["ref"] = {}
        /\ UNCHANGED <<throws, overflowed, taken, delivered, queue, dispatched>>
    BY <1>1 DEF EndPoll, OpsDone, Fail
  <2>2. queue = <<>> /\ overflow = <<>>
    BY <2>1 DEF Inv, Phases
  <2>3. InOrder(taken, delivered, queue, overflow)
    BY <2>1 DEF OrderInv, Undisturbed
  <2>4. \A i \in 1 .. Len(taken) : Contains(delivered, taken[i])
    BY <2>2, <2>3, Empty DEF InOrder
  <2>5. \A op \in dispatched : op \in UnrefOps \/ Contains(taken, op)
    BY <2>1 DEF Inv, Futures, ClassOf
  <2> QED
    BY <2>1, <2>4, <2>5 DEF Contains
<1>2. ASSUME NEW op \in Ops, Complete(op)
      PROVE  UNCHANGED <<pc, outcome, throws, overflowed, delivered, dispatched>>
  BY <1>2 DEF Complete
<1>3. CASE UNCHANGED <<pc, outcome, throws, overflowed, delivered, dispatched>>
  BY <1>3 DEF AnswerInv, Undisturbed
<1>4. CASE UNCHANGED vars
  BY <1>3, <1>4 DEF vars
<1>5. ASSUME Next, ~ EndPoll, \A op \in Ops : ~ Complete(op) PROVE FALSE
  <2>1. ASSUME NEW op \in Ops, DispatchOp(op) PROVE FALSE
    BY <2>1 DEF DispatchOp, JSRuns
  <2>2. CASE Execute \/ Reject \/ HandleLate \/ Macrotask
    BY <2>2 DEF Execute, Reject, HandleLate, Macrotask, JSRuns
  <2>3. CASE StartPoll
    BY <2>3 DEF StartPoll, Fail
  <2>4. ASSUME NEW c \in Classes, PollFuture(c) \/ PollDone(c) PROVE FALSE
    BY <2>4 DEF PollFuture, PollDone, AfterOverflow, After, Classes
  <2>5. CASE Handle \/ NothingQueued \/ HandleOverflow
    BY <2>5 DEF Handle, NothingQueued, HandleOverflow
  <2>6. ASSUME NEW from \in {"script", "microtasks", "overflow microtasks", "macrotasks"},
               NEW to, Return(from, to)
        PROVE  FALSE
    BY <2>6 DEF Return, Fail, Inv, Waking
  <2> QED
    BY <1>5, <2>1, <2>2, <2>3, <2>4, <2>5, <2>6 DEF Next, JavaScript, PollStep
<1> QED
  BY <1>1, <1>2, <1>3, <1>4, <1>5

\* The invariant holds in every state of every behavior.
LEMMA InvHolds == Spec => []Inv
  BY InitInv, StepInv, PTL DEF Spec

\* What holds when no poll has two responses that do not fit.
LEMMA OrderHolds == Spec /\ [][OneOverflow]_vars => [](Inv /\ OrderInv /\ AnswerInv)
  BY InitInv, StepInv, StepOrder, StepAnswer, PTL DEF Spec

\* The variables of the isolate keep their types: a future to be polled has not returned
\* yet, and the shared queue stays within its bounds.
THEOREM TypeCorrect == Spec => []TypeOK
<1>1. Inv => TypeOK
  <2> SUFFICES ASSUME Inv PROVE TypeOK
    OBVIOUS
  <2>1. \A c \in Classes : ready[c] \in Seq(pending[c])
    <3> TAKE c \in Classes
    <3>1. ready[c] \in Seq(Ops) /\ \A i \in 1 .. Len(ready[c]) : ready[c][i] \in pending[c]
      BY DEF Inv, Sequences, Futures
    <3> QED
      BY <3>1, Narrowed
  <2>2. overflow \in Seq(Ops)
    BY OverflowSeq DEF Inv
  <2>3. /\ pc \in PCs /\ outcome \in {"pending", "ok", "err"} /\ woken \in BOOLEAN
        /\ haveUnpolled \in BOOLEAN /\ failed \in BOOLEAN /\ overflowed \in BOOLEAN
    BY DEF Inv, Places
  <2>4. /\ count \in 0 .. MaxRecords /\ used \in 0 .. Capacity
        /\ exceptions \in 0 .. MaxRejections /\ rejections \in 0 .. MaxRejections
        /\ throws \in 0 .. MaxThrows
    BY CoreIsolateAssumption DEF Inv, Bounds
  <2>5. /\ queue \in Seq(Ops) /\ last \in Seq(Ops)
        /\ taken \in Seq(Ops) /\ delivered \in Seq(Ops)
    BY DEF Inv, Sequences
  <2>6. /\ resolved \subseteq dispatched /\ dispatched \subseteq Ops
        /\ pending \in [Classes -> SUBSET dispatched]
    BY DEF Inv, Futures
  <2> QED
    BY <2>1, <2>2, <2>3, <2>4, <2>5, <2>6, Zenon DEF TypeOK
<1> QED
  BY <1>1, InvHolds, PTL

\* A promise that was rejected without a handler ends the isolate, or the executor is
\* about to poll it: it never sleeps on one.
THEOREM RejectionIsReported == Spec => []RejectionReported
<1>1. Inv => RejectionReported
  BY DEF Inv, Places, Reporting, RejectionReported, Due
<1> QED
  BY <1>1, InvHolds, PTL

\* No finished op waits while the executor sleeps, whenever ops are dispatched and
\* complete, as long as the responses fit into the shared queue.
THEOREM WakeupIsKept == Spec => []NoLostWakeup
<1>1. Inv => NoLostWakeup
  <2> SUFFICES ASSUME Inv, pc = "idle", outcome = "pending", ~ Due, ~ overflowed,
                      NEW op \in resolved
               PROVE  op \in ToSet(taken)
    BY DEF NoLostWakeup
  <2>1. ready["ref"] = <<>> /\ ready["unref"] = <<>>
    BY DEF Inv, Waking, Due
  <2>2. ~ Contains(ready[ClassOf(op)], op)
    BY <2>1, Empty DEF ClassOf
  <2>3. Contains(taken, op)
    BY <2>2, ClassesKnown DEF Inv, Futures
  <2> QED
    BY <2>3, Elements DEF Inv, Sequences
<1> QED
  BY <1>1, InvHolds, PTL

\* A handler is called at most once, and only with a response that its future returned,
\* whatever overflows and whatever throws.
AtMostOnce ==
  /\ ToSet(delivered) \subseteq ToSet(taken)
  /\ \A m, n \in DOMAIN delivered : delivered[m] = delivered[n] => m = n

\* The property, read off the invariant.
LEMMA OnceIsOnce == Inv => AtMostOnce
<1> SUFFICES ASSUME Inv PROVE AtMostOnce
  OBVIOUS
<1>1. /\ taken \in Seq(Ops) /\ DOMAIN delivered = 1 .. Len(delivered)
  BY Elements DEF Inv, Sequences
<1>2. \A i \in 1 .. Len(delivered) : delivered[i] \in ToSet(taken)
  BY <1>1, Elements DEF Inv, Once
<1>3. \A m, n \in 1 .. Len(delivered) : delivered[m] = delivered[n] => m = n
  BY DEF Inv, Once, Injective
<1>4. ToSet(delivered) \subseteq ToSet(taken)
  <2> SUFFICES ASSUME NEW i \in DOMAIN delivered PROVE delivered[i] \in ToSet(taken)
    BY DEF ToSet
  <2> QED
    BY <1>1, <1>2
<1> QED
  BY <1>1, <1>3, <1>4 DEF AtMostOnce

\* No promise is settled twice: every response is handed to its handler at most once, and
\* only when its future has returned it, whatever overflows or throws.
THEOREM HandledAtMostOnce == Spec => []AtMostOnce
  BY OnceIsOnce, InvHolds, PTL

\* Only a response that did not fit is ever lost, and only when a handler of the same poll
\* threw, or when a response of the other set does not fit either.
OnItsWay(op) == Contains(delivered, op) \/ Contains(queue, op) \/ Contains(overflow, op)

LostOnlyFromOverflow ==
  \A op \in Ops :
    OnItsWay(op) => OnItsWay(op)' \/ (overflow = <<op>> /\ (failed \/ pc = "unref"))

\* Of the steps that move responses only two can lose one, and only that.
LEMMA StepLoses == Inv /\ [Next]_vars => [LostOnlyFromOverflow]_vars
<1> SUFFICES ASSUME Inv, Next, NEW op \in Ops, OnItsWay(op),
                    ~ (overflow = <<op>> /\ (failed \/ pc = "unref"))
             PROVE  \/ Contains(delivered', op) \/ Contains(queue', op)
                    \/ Contains(overflow', op)
  BY DEF LostOnlyFromOverflow, OnItsWay
<1> USE DEF Inv
<1>1. ASSUME NEW c \in Classes, PollFuture(c)
      PROVE  Contains(delivered', op) \/ Contains(queue', op) \/ Contains(overflow', op)
  <2>1. CASE UNCHANGED <<delivered, queue, overflow>>
    BY <2>1 DEF OnItsWay
  <2>2. ASSUME NEW e \in Ops, pc = c, UNCHANGED delivered,
               (queue' = Append(queue, e) /\ UNCHANGED overflow)
                 \/ (overflow' = <<e>> /\ UNCHANGED queue)
        PROVE  Contains(delivered', op) \/ Contains(queue', op) \/ Contains(overflow', op)
    <3>1. CASE queue' = Append(queue, e) /\ UNCHANGED overflow
      BY <2>2, <3>1, ContainsAppend DEF OnItsWay, Sequences
    <3>2. CASE overflow' = <<e>> /\ UNCHANGED queue
      <4>1. ~ Contains(overflow, op)
        <5> SUFFICES ASSUME Contains(overflow, op) PROVE FALSE
          OBVIOUS
        <5>1. overflow # <<>>
          BY Empty
        <5>2. pc = "unref"
          BY <2>2, <5>1 DEF Phases, Classes
        <5>3. overflow = <<op>>
          BY <5>1, Single DEF Sequences
        <5> QED
          BY <5>2, <5>3
      <4> QED
        BY <2>2, <3>2, <4>1 DEF OnItsWay
    <3> QED
      BY <2>2, <3>1, <3>2
  <2> QED
    BY <1>1, <2>1, <2>2, PolledResponse
<1>2. CASE Handle
  <2>1. /\ queue # <<>> /\ queue' = Tail(queue) /\ delivered' = Append(delivered, Head(queue))
        /\ UNCHANGED overflow
    BY <1>2 DEF Handle, Q!Dequeue
  <2>2. queue \in Seq(Ops) /\ Head(queue) \in Ops /\ Injective(queue)
    BY <2>1, Removed DEF Sequences, Once
  <2>3. /\ Contains(queue', op) <=> Contains(queue, op) /\ op # Head(queue)
        /\ Contains(delivered', op) <=> Contains(delivered, op) \/ op = Head(queue)
    BY <2>1, <2>2, ContainsTail, ContainsAppend DEF Sequences
  <2> QED
    BY <2>1, <2>3 DEF OnItsWay
<1>3. CASE HandleOverflow
  <2>1. CASE UNCHANGED <<delivered, queue, overflow>>
    BY <2>1 DEF OnItsWay
  <2>2. ASSUME NEW e \in Ops, overflow = <<e>>, delivered' = Append(delivered, e),
               UNCHANGED queue
        PROVE  Contains(delivered', op) \/ Contains(queue', op)
    BY <2>2, ContainsAppend, Single DEF OnItsWay, Sequences
  <2> QED
    BY <1>3, <2>1, <2>2, OverflowHandled
<1>4. CASE ~ Moves
  <2>1. UNCHANGED <<delivered, queue>>
    BY <1>4, OthersMoveNothing
  <2>2. UNCHANGED overflow \/ overflow = <<>> \/ failed
    BY <1>4, OthersDropOverflow
  <2>3. CASE UNCHANGED overflow
    BY <2>1, <2>3 DEF OnItsWay
  <2>4. CASE ~ Contains(overflow, op)
    BY <2>1, <2>4 DEF OnItsWay
  <2>5. CASE Contains(overflow, op) /\ ~ UNCHANGED overflow
    <3>1. overflow # <<>>
      BY <2>5, Empty
    <3>2. overflow = <<op>>
      BY <2>5, <3>1, Single DEF Sequences
    <3> QED
      BY <2>2, <2>5, <3>1, <3>2
  <2> QED
    BY <2>3, <2>4, <2>5
<1> QED
  BY <1>1, <1>2, <1>3, <1>4 DEF Moves

\* Whatever overflows or throws, a response that fits into the shared queue stays on its way
\* until its handler is called.
THEOREM OnlyOverflowLoses == Spec => [][LostOnlyFromOverflow]_vars
  BY StepLoses, InvHolds, PTL DEF Spec

\* Unless two responses that do not fit meet in one poll, or one and an exception, no
\* response is lost.
THEOREM NothingIsLost == Spec /\ [][OneOverflow]_vars => []NoResponseLost
<1>1. Inv /\ OrderInv => NoResponseLost
  <2> SUFFICES ASSUME Inv, OrderInv, Undisturbed, NEW x \in ToSet(taken)
               PROVE  x \in ToSet(delivered) \cup ToSet(queue) \cup ToSet(overflow)
    BY DEF NoResponseLost
  <2>1. PICK i \in 1 .. Len(taken) : taken[i] = x
    BY Elements DEF ToSet, Inv, Sequences
  <2>2. Contains(delivered, x) \/ Contains(queue, x) \/ Contains(overflow, x)
    BY <2>1 DEF OrderInv, InOrder
  <2> QED
    BY <2>2, OverflowSeq, Elements DEF Inv
<1> QED
  BY <1>1, OrderHolds, PTL

\* Under the same condition handlers are called in the order of the futures of their set.
THEOREM HandledInOrder == Spec /\ [][OneOverflow]_vars => []Ordered
<1>1. Inv /\ OrderInv => Ordered
  <2> SUFFICES ASSUME Inv, OrderInv, Undisturbed
               PROVE  /\ AtMostOnce
                      /\ \A i, k \in DOMAIN taken, n \in DOMAIN delivered :
                           i < k /\ ClassOf(taken[i]) = ClassOf(taken[k])
                             /\ delivered[n] = taken[k] =>
                               \E m \in 1 .. n - 1 : delivered[m] = taken[i]
    BY DEF Ordered, AtMostOnce
  <2>1. DOMAIN taken = 1 .. Len(taken) /\ DOMAIN delivered = 1 .. Len(delivered)
    BY Elements DEF Inv, Sequences
  <2>2. InOrder(taken, delivered, queue, overflow)
    BY DEF OrderInv
  <2> QED
    BY <2>1, <2>2, OnceIsOnce DEF InOrder
<1> QED
  BY <1>1, OrderHolds, PTL

\* And the isolate is done only when every op that keeps it alive has been answered.
THEOREM DoneIsAnswered == Spec /\ [][OneOverflow]_vars => []DoneMeansAnswered
<1>1. Inv /\ AnswerInv => DoneMeansAnswered
  BY Elements DEF AnswerInv, DoneMeansAnswered, Inv, Sequences
<1> QED
  BY <1>1, OrderHolds, PTL
=============================================================================
