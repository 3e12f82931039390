----------------------------- MODULE TimersProofs -----------------------------
(***************************************************************************)
(* The timers, for every set of them, all delays, every width of integers  *)
(* and any clock; where programs may clear timers that are about to fire,  *)
(* too, but for the theorem that no timer is forgotten.                    *)
(***************************************************************************)
EXTENDS Timers, FiniteSetTheorems, WellFoundedInduction, TLAPS

Scalars ==
  /\ now \in 0 .. MaxTime /\ unused \subseteq Timers /\ idMap \subseteq Timers \ unused
  /\ due \in [Timers -> Times] /\ delay \in [Timers -> 0 .. TimeoutMax]
  /\ scheduled \subseteq Timers \ unused
  /\ globalTimeoutDue \in Times \cup {Never} /\ pendingEvents \in Nat
  /\ ticking \in BOOLEAN /\ rejected \in BOOLEAN
  /\ phase \in {"responses", "macrotasks"}

\* The timers of the tree exist, their flag is set and each is in the node of its due
\* time, once; and the timers that exist and have the flag are in the tree.
Tree ==
  /\ dueTree \in [Times -> Seq(Timers)]
  /\ \A d \in Times : \A n \in 1 .. Len(dueTree[d]) :
       dueTree[d][n] \in idMap \cap scheduled /\ due[dueTree[d][n]] = d
  /\ \A d \in Times : \A m, n \in 1 .. Len(dueTree[d]) :
       dueTree[d][m] = dueTree[d][n] => m = n
  /\ \A t \in idMap \cap scheduled : Contains(dueTree[due[t]], t)

\* The timers about to fire are others, and none of the tree is due before them.
Firing ==
  /\ pendingFireTimers \in Seq(Timers)
  /\ \A n \in 1 .. Len(pendingFireTimers) : pendingFireTimers[n] \in idMap \ scheduled
  /\ \A m, n \in 1 .. Len(pendingFireTimers) :
       pendingFireTimers[m] = pendingFireTimers[n] => m = n
  /\ \A n \in 1 .. Len(pendingFireTimers), d \in Times :
       dueTree[d] # <<>> => due[pendingFireTimers[n]] <= d
  /\ FireInOrder

Inv == Scalars /\ Tree /\ Firing /\ AlarmIsFirst

\* A timer has its flag or is about to fire; every one that exists should.
Waits(t) == t \in scheduled \/ Contains(pendingFireTimers, t)
Kept     == \A t \in idMap : Waits(t)

-----------------------------------------------------------------------------
(* Lemmas about lists, least due times and delays.                         *)

\* A timer is put behind the others of its list.
LEMMA Appended ==
  ASSUME NEW S, NEW q \in Seq(S), NEW e \in S
  PROVE  /\ Append(q, e) \in Seq(S) /\ Append(q, e) # <<>>
         /\ Len(q) \in Nat /\ Len(Append(q, e)) = Len(q) + 1
         /\ \A i \in 1 .. Len(q) : Append(q, e)[i] = q[i]
         /\ Append(q, e)[Len(q) + 1] = e
         /\ \A i \in 1 .. Len(Append(q, e)) : i \in 1 .. Len(q) \/ i = Len(q) + 1
         /\ Len(q) + 1 \in 1 .. Len(Append(q, e))
         /\ \A i \in 1 .. Len(q) : i \in 1 .. Len(Append(q, e))
  OBVIOUS

\* The first one is taken.
LEMMA Taken ==
  ASSUME NEW S, NEW q \in Seq(S), q # <<>>
  PROVE  /\ Tail(q) \in Seq(S) /\ Head(q) \in S /\ Head(q) = q[1]
         /\ Len(q) \in Nat \ {0} /\ Len(Tail(q)) = Len(q) - 1 /\ 1 \in 1 .. Len(q)
         /\ \A i \in 1 .. Len(Tail(q)) : i + 1 \in 1 .. Len(q) /\ Tail(q)[i] = q[i + 1]
         /\ \A i \in 1 .. Len(q) :
              i = 1 \/ (i - 1 \in 1 .. Len(Tail(q)) /\ Tail(q)[i - 1] = q[i])
  OBVIOUS

\* list.splice(index, 1)
LEMMA SplicedOne ==
  ASSUME NEW S, NEW q \in Seq(S), NEW i \in 1 .. Len(q)
  PROVE  /\ RemoveAt(q, i) \in Seq(S) /\ Len(RemoveAt(q, i)) = Len(q) - 1 /\ Len(q) \in Nat
         /\ \A n \in 1 .. Len(RemoveAt(q, i)) :
              /\ n \in 1 .. Len(q) /\ n + 1 \in 1 .. Len(q)
              /\ RemoveAt(q, i)[n] = IF n < i THEN q[n] ELSE q[n + 1]
<1> DEFINE a == SubSeq(q, 1, i - 1)
           b == SubSeq(q, i + 1, Len(q))
<1>1. Len(q) \in Nat /\ i \in Int
  OBVIOUS
<1>2. /\ a \in Seq(S) /\ Len(a) = i - 1
      /\ \A n \in 1 .. i - 1 : a[n] = q[n]
  BY <1>1
<1>3. /\ b \in Seq(S) /\ Len(b) = Len(q) - i
      /\ \A n \in 1 .. Len(q) - i : b[n] = q[i + n]
  BY <1>1
<1> HIDE DEF a, b
<1>4. /\ a \o b \in Seq(S) /\ Len(a \o b) = Len(q) - 1
      /\ \A n \in 1 .. Len(q) - 1 : (a \o b)[n] = IF n < i THEN a[n] ELSE b[n - (i - 1)]
  <2>1. a \in Seq(S) /\ b \in Seq(S) /\ Len(a) \in Nat /\ Len(b) \in Nat
    BY <1>2, <1>3
  <2>2. a \o b \in Seq(S)
    BY <2>1
  <2>3. Len(a \o b) = Len(a) + Len(b)
    BY <2>1
  <2>4. \A n \in 1 .. Len(a) + Len(b) :
          (a \o b)[n] = IF n <= Len(a) THEN a[n] ELSE b[n - Len(a)]
    BY <2>1
  <2>5. Len(a) = i - 1 /\ Len(a) + Len(b) = Len(q) - 1
    BY <1>1, <1>2, <1>3
  <2>6. \A n \in 1 .. Len(q) - 1 : n <= i - 1 <=> n < i
    BY <1>1
  <2> QED
    BY <2>2, <2>3, <2>4, <2>5, <2>6
<1>5. \A n \in 1 .. Len(q) - 1 : (a \o b)[n] = IF n < i THEN q[n] ELSE q[n + 1]
  <2> TAKE n \in 1 .. Len(q) - 1
  <2>1. CASE n < i
    BY <1>1, <1>2, <1>4, <2>1
  <2>2. CASE ~ (n < i)
    <3>1. n - (i - 1) \in 1 .. Len(q) - i /\ i + (n - (i - 1)) = n + 1
      BY <1>1, <2>2
    <3> QED
      BY <1>3, <1>4, <2>2, <3>1
  <2> QED
    BY <2>1, <2>2
<1>6. RemoveAt(q, i) = a \o b
  BY DEF RemoveAt, a, b
<1> QED
  BY <1>1, <1>4, <1>5, <1>6

\* indexOf finds a timer that is in the list.
LEMMA Found ==
  ASSUME NEW q, NEW t, Contains(q, t)
  PROVE  IndexOf(q, t) \in 1 .. Len(q) /\ q[IndexOf(q, t)] = t
  BY DEF Contains, IndexOf

\* The timer, and no other, leaves its list.
LEMMA Dropped ==
  ASSUME NEW S, NEW q \in Seq(S), NEW t, Contains(q, t),
         \A m, n \in 1 .. Len(q) : q[m] = q[n] => m = n
  PROVE  /\ Drop(q, t) \in Seq(S) /\ Len(Drop(q, t)) = Len(q) - 1 /\ Len(q) \in Nat
         /\ \A n \in 1 .. Len(Drop(q, t)) :
              \E m \in 1 .. Len(q) : Drop(q, t)[n] = q[m] /\ q[m] # t
         /\ \A m, n \in 1 .. Len(Drop(q, t)) : Drop(q, t)[m] = Drop(q, t)[n] => m = n
         /\ \A u : Contains(q, u) /\ u # t => Contains(Drop(q, t), u)
<1> DEFINE i == IndexOf(q, t)
           r == RemoveAt(q, i)
<1>1. i \in 1 .. Len(q) /\ q[i] = t
  BY Found
<1>2. /\ r \in Seq(S) /\ Len(r) = Len(q) - 1 /\ Len(q) \in Nat
      /\ \A n \in 1 .. Len(r) : /\ n \in 1 .. Len(q) /\ n + 1 \in 1 .. Len(q)
                                /\ r[n] = IF n < i THEN q[n] ELSE q[n + 1]
  BY <1>1, SplicedOne
<1>3. Drop(q, t) = r
  BY DEF Drop
<1> HIDE DEF i, r
<1>4. \A n \in 1 .. Len(r) : \E m \in 1 .. Len(q) : r[n] = q[m] /\ q[m] # t
  <2> TAKE n \in 1 .. Len(r)
  <2>1. CASE n < i
    <3>1. n \in 1 .. Len(q) /\ r[n] = q[n] /\ n # i
      BY <1>1, <1>2, <2>1
    <3> QED
      BY <1>1, <3>1
  <2>2. CASE ~ (n < i)
    <3>1. n + 1 \in 1 .. Len(q) /\ r[n] = q[n + 1] /\ n + 1 # i
      BY <1>1, <1>2, <2>2
    <3> QED
      BY <1>1, <3>1
  <2> QED
    BY <2>1, <2>2
<1>5. ASSUME NEW m \in 1 .. Len(r), NEW n \in 1 .. Len(r), r[m] = r[n]
      PROVE  m = n
  <2>1. CASE m < i /\ n < i
    BY <1>2, <1>5, <2>1
  <2>2. CASE ~ (m < i) /\ ~ (n < i)
    <3>1. m + 1 = n + 1
      BY <1>2, <1>5, <2>2
    <3> QED
      BY <3>1
  <2>3. CASE m < i /\ ~ (n < i)
    <3>1. m = n + 1
      BY <1>2, <1>5, <2>3
    <3> QED
      BY <1>1, <2>3, <3>1
  <2>4. CASE ~ (m < i) /\ n < i
    <3>1. m + 1 = n
      BY <1>2, <1>5, <2>4
    <3> QED
      BY <1>1, <2>4, <3>1
  <2> QED
    BY <2>1, <2>2, <2>3, <2>4
<1>6. ASSUME NEW u, Contains(q, u), u # t PROVE Contains(r, u)
  <2>1. PICK m \in 1 .. Len(q) : q[m] = u
    BY <1>6 DEF Contains
  <2>2. CASE m < i
    <3>1. m \in 1 .. Len(r) /\ r[m] = u
      BY <1>1, <1>2, <2>1, <2>2
    <3> QED
      BY <3>1 DEF Contains
  <2>3. CASE m > i
    <3>1. m - 1 \in 1 .. Len(r) /\ ~ (m - 1 < i) /\ (m - 1) + 1 = m
      BY <1>1, <1>2, <2>3
    <3>2. r[m - 1] = u
      BY <1>2, <2>1, <3>1
    <3> QED
      BY <3>1, <3>2 DEF Contains
  <2>4. m # i
    BY <1>1, <1>6, <2>1
  <2> QED
    BY <1>1, <2>2, <2>3, <2>4
<1> QED
  BY <1>2, <1>3, <1>4, <1>5, <1>6

\* A set of due times has a least one.
LEMMA LeastDue ==
  ASSUME NEW S \in SUBSET Nat, S # {}
  PROVE  Min(S) \in S /\ \A y \in S : Min(S) <= y
<1>1. PICK x \in S : \A y \in Nat : ~ (y \in S /\ y < x)
  <2>1. PICK x \in S : \A y \in Nat : y \in SetLessThan(x, OpToRel(<, Nat), Nat) => y \notin S
    BY NatLessThanWellFounded, WFMin DEF SetLessThan
  <2>2. \A y \in Nat : y < x => y \in SetLessThan(x, OpToRel(<, Nat), Nat)
    BY DEF SetLessThan, OpToRel
  <2> QED
    BY <2>1, <2>2
<1>2. x \in S /\ \A y \in S : x <= y
  BY <1>1
<1> QED
  BY <1>2 DEF Min

\* Due times are natural numbers, and a delay within bounds leads to one.
LEMMA TimesKnown ==
  /\ MaxTime \in Nat /\ TimeoutMax \in Nat /\ MaxDelay \in Nat /\ MaxDelay >= TimeoutMax
  /\ (\A d \in Times : d \in Nat) /\ \A d \in 0 .. MaxTime + TimeoutMax : d \in Times
  /\ Never \notin Times /\ Never = -1
<1>1. TimeoutMax \in Nat /\ MaxTime \in Nat /\ Delays \subseteq Int
  BY TimersAssumption
<1> DEFINE D == {d \in Delays : d <= TimeoutMax} \cup {TimeoutMax, 1}
           x == IF TimeoutMax = 0 THEN 1 ELSE TimeoutMax
<1>2. x \in D /\ \A y \in D : x >= y
  BY <1>1
<1>3. Max(D) \in D /\ \A y \in D : Max(D) >= y
  BY <1>2 DEF Max
<1>4. MaxDelay \in Nat /\ MaxDelay >= TimeoutMax
  <2>1. MaxDelay = Max(D)
    BY DEF MaxDelay
  <2> HIDE DEF D
  <2>2. MaxDelay \in D /\ MaxDelay >= TimeoutMax
    BY <1>3, <2>1 DEF D
  <2>3. \A y \in D : y \in Int
    BY <1>1 DEF D
  <2> QED
    BY <1>1, <2>2, <2>3
<1> QED
  BY <1>1, <1>4 DEF Times, Never

\* The larger of two times.
LEMMA Larger ==
  ASSUME NEW a \in Int, NEW b \in Int
  PROVE  Max({a, b}) = IF a >= b THEN a ELSE b
<1> DEFINE x == IF a >= b THEN a ELSE b
<1>1. x \in {a, b} /\ (\A y \in {a, b} : x >= y) /\ x \in Int
  OBVIOUS
<1>2. \A z \in {a, b} : (\A y \in {a, b} : z >= y) => z = x
  OBVIOUS
<1> QED
  BY <1>1, <1>2 DEF Max

\* Whatever a program asks for, the delay is a natural number of 31 bits.
LEMMA Clamped ==
  ASSUME NEW d \in Delays
  PROVE  Clamp(d) \in 0 .. TimeoutMax
<1> DEFINE e == IF d > TimeoutMax THEN 1 ELSE d
           w == 2 * (TimeoutMax + 1)
<1>1. TimeoutMax \in Nat /\ e \in Int /\ w \in Nat \ {0}
  BY TimersAssumption
<1>2. (e + TimeoutMax + 1) \in Int
  BY <1>1
<1> HIDE DEF e, w
<1>3. (e + TimeoutMax + 1) % w \in 0 .. w - 1
  BY <1>1, <1>2
<1>4. ToInt32(e) = ((e + TimeoutMax + 1) % w) - (TimeoutMax + 1)
  BY DEF ToInt32, w
<1>5. ToInt32(e) \in Int /\ ToInt32(e) <= TimeoutMax
  BY <1>1, <1>3, <1>4 DEF w
<1>6. Clamp(d) = Max({0, ToInt32(e)})
  BY DEF Clamp, e
<1> QED
  BY <1>1, <1>5, <1>6, Larger

\* What dueTree.min() returns.
LEMMA FirstIs ==
  ASSUME NEW tree
  PROVE  /\ First(tree) \in Times \cup {Never}
         /\ First(tree) = Never <=> \A d \in Times : tree[d] = <<>>
         /\ First(tree) # Never => /\ tree[First(tree)] # <<>>
                                   /\ \A d \in Times : tree[d] # <<>> => First(tree) <= d
<1> DEFINE nodes == {d \in Times : tree[d] # <<>>}
<1>1. nodes \in SUBSET Nat
  BY TimesKnown
<1>2. CASE nodes = {}
  BY <1>2 DEF First
<1>3. CASE nodes # {}
  <2>1. Min(nodes) \in nodes /\ \A y \in nodes : Min(nodes) <= y
    BY <1>1, <1>3, LeastDue
  <2>2. First(tree) = Min(nodes)
    BY <1>3 DEF First
  <2> QED
    BY <2>1, <2>2, TimesKnown
<1> QED
  BY <1>2, <1>3

\* It is known by that.
LEMMA FirstUnique ==
  ASSUME NEW tree, NEW d \in Times, tree[d] # <<>>,
         \A e \in Times : tree[e] # <<>> => d <= e
  PROVE  First(tree) = d
<1>1. /\ First(tree) \in Times /\ tree[First(tree)] # <<>> /\ First(tree) <= d
  BY FirstIs
<1>2. d <= First(tree)
  BY <1>1
<1> QED
  BY <1>1, <1>2, TimesKnown
-----------------------------------------------------------------------------
(* The tree and the alarm.                                                 *)

\* What the invariant says of one node.
LEMMA Nodes ==
  ASSUME Inv
  PROVE  \A d \in Times :
           /\ dueTree[d] \in Seq(Timers) /\ Len(dueTree[d]) \in Nat
           /\ dueTree[d] = <<>> <=> Len(dueTree[d]) = 0
           /\ \A n \in 1 .. Len(dueTree[d]) : /\ dueTree[d][n] \in idMap \cap scheduled
                                              /\ due[dueTree[d][n]] = d
           /\ \A m, n \in 1 .. Len(dueTree[d]) : dueTree[d][m] = dueTree[d][n] => m = n
<1>1. ASSUME NEW d \in Times
      PROVE  /\ dueTree[d] \in Seq(Timers) /\ Len(dueTree[d]) \in Nat
             /\ dueTree[d] = <<>> <=> Len(dueTree[d]) = 0
  BY DEF Inv, Tree
<1> QED
  BY <1>1 DEF Inv, Tree

\* The global timer, when it is set to a time that is not past.
LEMMA AlarmSet ==
  ASSUME Scalars, ~ rejected, NEW d \in Times, d >= now, SetOrClear(d)
  PROVE  /\ globalTimeoutDue' = d /\ pendingEvents' \in Nat /\ pendingEvents' > 0
         /\ ticking' \in BOOLEAN /\ rejected' = rejected
<1>1. d # Never /\ d \in Int /\ now \in Int /\ pendingEvents \in Nat
  BY TimesKnown DEF Scalars
<1>2. SetGlobalTimeout(d) /\ ~ (d < now)
  BY <1>1 DEF SetOrClear
<1>3. globalTimeoutDue' = d /\ pendingEvents' = pendingEvents + 1 /\ ticking' = TRUE
      /\ UNCHANGED rejected
  BY <1>2 DEF SetGlobalTimeout
<1> QED
  BY <1>1, <1>3

\* schedule: the timer joins the tree, and the alarm is for the least due time again.
LEMMA ScheduleKeeps ==
  ASSUME Inv, ~ rejected, NEW t \in Timers, t \notin scheduled,
         NEW d \in Times, d >= now, Schedule(t, d), idMap' = idMap \cup {t},
         due'[t] = d, \A u \in Timers : u # t => due'[u] = due[u]
  PROVE  /\ Tree' /\ AlarmIsFirst' /\ rejected' = rejected
         /\ globalTimeoutDue' \in Times \cup {Never} /\ pendingEvents' \in Nat
         /\ ticking' \in BOOLEAN
         /\ scheduled' = scheduled \cup {t}
         /\ \A e \in Times : dueTree'[e] # <<>> => dueTree[e] # <<>> \/ e = d
<1>1. /\ dueTree' = [dueTree EXCEPT ![d] = Append(@, t)] /\ scheduled' = scheduled \cup {t}
      /\ ComesFirst(d) => SetOrClear(d)
      /\ ~ ComesFirst(d) => UNCHANGED alarmVars
  BY DEF Schedule
<1>2. dueTree \in [Times -> Seq(Timers)] /\ Scalars /\ AlarmIsFirst
  BY DEF Inv, Tree
<1> DEFINE q == dueTree[d]
           p == Append(q, t)
<1>3. /\ q \in Seq(Timers) /\ Len(q) \in Nat
      /\ dueTree'[d] = p /\ \A e \in Times : e # d => dueTree'[e] = dueTree[e]
  BY <1>1, <1>2
<1>4. /\ p \in Seq(Timers) /\ p # <<>> /\ Len(p) = Len(q) + 1 /\ p[Len(q) + 1] = t
      /\ \A i \in 1 .. Len(q) : p[i] = q[i] /\ i \in 1 .. Len(p)
      /\ \A i \in 1 .. Len(p) : i \in 1 .. Len(q) \/ i = Len(q) + 1
      /\ Len(q) + 1 \in 1 .. Len(p)
  BY <1>3, Appended
<1>5. \A i \in 1 .. Len(q) : /\ q[i] \in idMap \cap scheduled /\ due[q[i]] = d
                             /\ q[i] # t /\ q[i] \in Timers
  BY Nodes DEF Inv, Scalars
<1>6. \A i, j \in 1 .. Len(q) : q[i] = q[j] => i = j
  BY Nodes
<1> HIDE DEF p, q
<1>7. dueTree' \in [Times -> Seq(Timers)]
  BY <1>1, <1>2, <1>3, <1>4 DEF p, q
<1>8. \A i \in 1 .. Len(p) : p[i] \in idMap' \cap scheduled' /\ due'[p[i]] = d
  BY <1>1, <1>4, <1>5
<1>9. \A i, j \in 1 .. Len(p) : p[i] = p[j] => i = j
  <2> SUFFICES ASSUME NEW i \in 1 .. Len(p), NEW j \in 1 .. Len(p), p[i] = p[j]
               PROVE  i = j
    OBVIOUS
  <2>1. CASE i \in 1 .. Len(q) /\ j \in 1 .. Len(q)
    BY <1>4, <1>6, <2>1
  <2>2. CASE i = Len(q) + 1
    BY <1>4, <1>5, <2>2
  <2>3. CASE j = Len(q) + 1
    BY <1>4, <1>5, <2>3
  <2> QED
    BY <1>4, <2>1, <2>2, <2>3
<1>10. ASSUME NEW e \in Times, e # d, NEW n \in 1 .. Len(dueTree'[e])
       PROVE  dueTree'[e][n] \in idMap' \cap scheduled' /\ due'[dueTree'[e][n]] = e
  <2>1. dueTree'[e] = dueTree[e]
    BY <1>3, <1>10
  <2>2. /\ dueTree[e][n] \in idMap \cap scheduled /\ due[dueTree[e][n]] = e
        /\ dueTree[e][n] # t /\ dueTree[e][n] \in Timers
    BY <2>1, Nodes DEF Inv, Scalars
  <2> QED
    BY <1>1, <2>1, <2>2
<1>11. ASSUME NEW e \in Times, e # d, NEW m \in 1 .. Len(dueTree'[e]),
              NEW n \in 1 .. Len(dueTree'[e]), dueTree'[e][m] = dueTree'[e][n]
       PROVE  m = n
  <2>1. dueTree'[e] = dueTree[e]
    BY <1>3, <1>11
  <2> QED
    BY <1>11, <2>1, Nodes
<1>12. ASSUME NEW u \in idMap' \cap scheduled'
       PROVE  Contains(dueTree'[due'[u]], u)
  <2>1. CASE u = t
    BY <1>3, <1>4, <2>1 DEF Contains
  <2>2. CASE u # t
    <3>1. u \in idMap \cap scheduled /\ u \in Timers /\ due'[u] = due[u] /\ due[u] \in Times
      BY <1>1, <1>2, <2>2 DEF Scalars
    <3>2. PICK n \in 1 .. Len(dueTree[due[u]]) : dueTree[due[u]][n] = u
      BY <3>1 DEF Inv, Tree, Contains
    <3>3. CASE due[u] # d
      BY <1>3, <3>1, <3>2, <3>3 DEF Contains
    <3>4. CASE due[u] = d
      <4>1. n \in 1 .. Len(p) /\ p[n] = u
        BY <1>4, <3>2, <3>4 DEF q
      <4> QED
        BY <1>3, <3>1, <3>4, <4>1 DEF Contains
    <3> QED
      BY <3>3, <3>4
  <2> QED
    BY <2>1, <2>2
<1>13. Tree'
  <2>1. \A e \in Times : \A n \in 1 .. Len(dueTree'[e]) :
          dueTree'[e][n] \in idMap' \cap scheduled' /\ due'[dueTree'[e][n]] = e
    BY <1>3, <1>8, <1>10
  <2>2. \A e \in Times : \A m, n \in 1 .. Len(dueTree'[e]) :
          dueTree'[e][m] = dueTree'[e][n] => m = n
    BY <1>3, <1>9, <1>11
  <2> QED
    BY <1>7, <1>12, <2>1, <2>2 DEF Tree
<1>14. \A e \in Times : dueTree'[e] # <<>> <=> dueTree[e] # <<>> \/ e = d
  BY <1>3, <1>4
<1>15. globalTimeoutDue = First(dueTree) /\ (First(dueTree) # Never => pendingEvents > 0)
  BY <1>2 DEF AlarmIsFirst
<1>16. CASE ComesFirst(d)
  <2>1. /\ globalTimeoutDue' = d /\ pendingEvents' \in Nat /\ pendingEvents' > 0
        /\ ticking' \in BOOLEAN /\ rejected' = rejected
    BY <1>1, <1>2, <1>16, AlarmSet
  <2>2. \A e \in Times : dueTree[e] # <<>> => d <= e
    <3>1. CASE First(dueTree) = Never
      BY <3>1, FirstIs
    <3>2. CASE First(dueTree) # Never
      <4>1. First(dueTree) > d /\ First(dueTree) \in Times
        BY <1>15, <1>16, <3>2, FirstIs DEF ComesFirst
      <4>2. \A e \in Times : dueTree[e] # <<>> => First(dueTree) <= e
        BY <3>2, FirstIs
      <4>3. First(dueTree) \in Int /\ d \in Int /\ \A e \in Times : e \in Int
        BY <4>1, TimesKnown
      <4> HIDE DEF q, p
      <4> QED
        BY <4>1, <4>2, <4>3
    <3> QED
      BY <3>1, <3>2
  <2>3. First(dueTree') = d
    <3>1. dueTree'[d] # <<>>
      BY <1>3, <1>4
    <3>2. \A e \in Times : dueTree'[e] # <<>> => d <= e
      BY <1>14, <2>2, TimesKnown
    <3> QED
      BY <3>1, <3>2, FirstUnique
  <2> QED
    BY <1>1, <1>13, <1>14, <2>1, <2>3 DEF AlarmIsFirst
<1>17. CASE ~ ComesFirst(d)
  <2>1. UNCHANGED alarmVars
    BY <1>1, <1>17
  <2>2. /\ globalTimeoutDue \in Times /\ globalTimeoutDue <= d
        /\ dueTree[globalTimeoutDue] # <<>>
        /\ \A e \in Times : dueTree[e] # <<>> => globalTimeoutDue <= e
    <3>1. globalTimeoutDue \in Times /\ ~ (globalTimeoutDue > d)
      BY <1>2, <1>17 DEF ComesFirst, Scalars
    <3>2. globalTimeoutDue \in Int /\ d \in Int
      BY <3>1, TimesKnown
    <3>3. globalTimeoutDue <= d
      BY <3>1, <3>2
    <3>4. First(dueTree) # Never /\ First(dueTree) = globalTimeoutDue
      BY <1>15, <3>1, TimesKnown
    <3> QED
      BY <3>1, <3>3, <3>4, FirstIs
  <2>3. First(dueTree') = globalTimeoutDue
    <3>1. /\ dueTree'[globalTimeoutDue] # <<>>
          /\ \A e \in Times : dueTree'[e] # <<>> => globalTimeoutDue <= e
      BY <1>14, <2>2
    <3> QED
      BY <2>2, <3>1, FirstUnique
  <2>4. AlarmIsFirst'
    BY <1>15, <2>1, <2>2, <2>3 DEF AlarmIsFirst, alarmVars
  <2> QED
    BY <1>1, <1>2, <1>13, <1>14, <2>1, <2>4 DEF alarmVars, Scalars
<1> QED
  BY <1>16, <1>17
-----------------------------------------------------------------------------
(* setTimer and clearTimer.                                                *)

\* What the invariant says of the timers about to fire.
LEMMA Fires ==
  ASSUME Inv
  PROVE  /\ pendingFireTimers \in Seq(Timers) /\ Len(pendingFireTimers) \in Nat
         /\ \A n \in 1 .. Len(pendingFireTimers) :
              /\ pendingFireTimers[n] \in idMap \ scheduled /\ pendingFireTimers[n] \in Timers
              /\ due[pendingFireTimers[n]] <= now /\ due[pendingFireTimers[n]] \in Nat
         /\ now \in Nat
<1>1. pendingFireTimers \in Seq(Timers) /\ Len(pendingFireTimers) \in Nat /\ now \in Nat
  BY TimesKnown DEF Inv, Firing, Scalars
<1>2. ASSUME NEW n \in 1 .. Len(pendingFireTimers)
      PROVE  /\ pendingFireTimers[n] \in idMap \ scheduled /\ pendingFireTimers[n] \in Timers
             /\ due[pendingFireTimers[n]] <= now
  BY <1>1 DEF Inv, Firing, FireInOrder
<1>3. \A u \in Timers : due[u] \in Nat
  BY TimesKnown DEF Inv, Scalars
<1> QED
  BY <1>1, <1>2, <1>3

\* The timers about to fire stay as they are while others come and go.
LEMMA SameFiring ==
  ASSUME Inv, UNCHANGED <<pendingFireTimers, now>>,
         \A n \in 1 .. Len(pendingFireTimers) :
           /\ pendingFireTimers[n] \in idMap' \ scheduled'
           /\ due'[pendingFireTimers[n]] = due[pendingFireTimers[n]],
         \A e \in Times : dueTree'[e] # <<>> => dueTree[e] # <<>> \/ e >= now
  PROVE  Firing'
<1>1. Firing
  BY DEF Inv
<1>2. \A n \in 1 .. Len(pendingFireTimers), e \in Times :
        dueTree'[e] # <<>> => due'[pendingFireTimers[n]] <= e
  <2> TAKE n \in 1 .. Len(pendingFireTimers), e \in Times
  <2> HAVE dueTree'[e] # <<>>
  <2>1. CASE dueTree[e] # <<>>
    BY <1>1, <2>1 DEF Firing
  <2>2. CASE e >= now
    <3>1. due[pendingFireTimers[n]] <= now /\ due[pendingFireTimers[n]] \in Nat /\ now \in Nat
      BY Fires
    <3>2. e \in Nat
      BY TimesKnown
    <3> QED
      BY <2>2, <3>1, <3>2
  <2> QED
    BY <2>1, <2>2
<1>3. FireInOrder'
  BY <1>1 DEF Firing, FireInOrder
<1> QED
  BY <1>1, <1>2, <1>3 DEF Firing

\* setTimeout and setInterval.
LEMMA SetTimerInv ==
  ASSUME Inv, ~ rejected, NEW t \in Timers, NEW d \in Delays, SetTimer(t, d)
  PROVE  Inv'
<1> DEFINE c == Clamp(d)
           e == now + c
<1>1. /\ t \in unused /\ e <= MaxTime /\ unused' = unused \ {t} /\ idMap' = idMap \cup {t}
      /\ delay' = [delay EXCEPT ![t] = c] /\ due' = [due EXCEPT ![t] = e] /\ Schedule(t, e)
      /\ UNCHANGED <<now, pendingFireTimers, phase>>
  BY DEF SetTimer
<1>2. c \in 0 .. TimeoutMax
  BY Clamped
<1> HIDE DEF c
<1>3. Scalars /\ now \in Nat
  BY Fires DEF Inv
<1>4. e \in Nat /\ e >= now /\ e \in 0 .. MaxTime + TimeoutMax
  BY <1>1, <1>2, <1>3, TimesKnown
<1> HIDE DEF e
<1>5. e \in Times
  BY <1>4, TimesKnown
<1>6. /\ due' \in [Timers -> Times] /\ due'[t] = e
      /\ \A u \in Timers : u # t => due'[u] = due[u]
  BY <1>1, <1>3, <1>5 DEF Scalars
<1>7. t \notin scheduled /\ t \notin idMap
  BY <1>1, <1>3 DEF Scalars
<1>8. /\ Tree' /\ AlarmIsFirst' /\ rejected' = rejected
      /\ globalTimeoutDue' \in Times \cup {Never} /\ pendingEvents' \in Nat
      /\ ticking' \in BOOLEAN
      /\ scheduled' = scheduled \cup {t}
      /\ \A f \in Times : dueTree'[f] # <<>> => dueTree[f] # <<>> \/ f = e
  BY <1>1, <1>4, <1>5, <1>6, <1>7, ScheduleKeeps
<1>9. delay' \in [Timers -> 0 .. TimeoutMax]
  BY <1>1, <1>2, <1>3 DEF Scalars
<1>10. Scalars'
  BY <1>1, <1>3, <1>6, <1>8, <1>9 DEF Scalars
<1>11. \A n \in 1 .. Len(pendingFireTimers) :
         /\ pendingFireTimers[n] \in idMap' \ scheduled'
         /\ due'[pendingFireTimers[n]] = due[pendingFireTimers[n]]
  BY <1>1, <1>6, <1>7, <1>8, Fires
<1>12. Firing'
  BY <1>1, <1>4, <1>8, <1>11, SameFiring
<1> QED
  BY <1>8, <1>10, <1>12 DEF Inv

\* The alarm after a node has left the tree: it is for the next one.
LEMMA AlarmAfter ==
  ASSUME Inv, ~ rejected, NEW t \in Timers, due[t] \in Times,
         dueTree[due[t]] # <<>>, dueTree'[due[t]] = <<>>,
         \A e \in Times : e # due[t] => dueTree'[e] = dueTree[e],
         UpdateAlarm(t, dueTree')
  PROVE  /\ AlarmIsFirst' /\ globalTimeoutDue' \in Times \cup {Never} /\ pendingEvents' \in Nat
         /\ ticking' \in BOOLEAN /\ rejected' \in BOOLEAN
<1>1. globalTimeoutDue = First(dueTree) /\ (First(dueTree) # Never => pendingEvents > 0)
  BY DEF Inv, AlarmIsFirst
<1>2. /\ globalTimeoutDue \in Times \cup {Never} /\ pendingEvents \in Nat
      /\ ticking \in BOOLEAN /\ rejected \in BOOLEAN /\ now \in Nat
  BY Fires DEF Inv, Scalars
<1> DEFINE next == First(dueTree')
<1>3. next \in Times \cup {Never}
  BY FirstIs
<1>4. CASE due[t] # globalTimeoutDue
  <2>1. UNCHANGED alarmVars
    BY <1>4 DEF UpdateAlarm
  <2>2. /\ globalTimeoutDue \in Times /\ dueTree[globalTimeoutDue] # <<>>
        /\ \A e \in Times : dueTree[e] # <<>> => globalTimeoutDue <= e
    BY <1>1, FirstIs
  <2>3. /\ dueTree'[globalTimeoutDue] # <<>>
        /\ \A e \in Times : dueTree'[e] # <<>> => globalTimeoutDue <= e
    BY <1>4, <2>2
  <2>4. next = globalTimeoutDue
    BY <2>2, <2>3, FirstUnique
  <2> HIDE DEF next
  <2>5. globalTimeoutDue' = next /\ (next # Never => pendingEvents' > 0)
    BY <1>1, <2>1, <2>4 DEF alarmVars
  <2> QED
    BY <1>2, <2>1, <2>5 DEF AlarmIsFirst, alarmVars, next
<1>5. CASE due[t] = globalTimeoutDue
  <2>1. SetOrClear(next)
    BY <1>5 DEF UpdateAlarm
  <2> HIDE DEF next
  <2>2. CASE next = Never
    <3>1. globalTimeoutDue' = Never /\ ticking' = FALSE /\ UNCHANGED <<pendingEvents, rejected>>
      BY <2>1, <2>2 DEF SetOrClear, ClearGlobalTimeout
    <3> QED
      BY <1>2, <2>2, <3>1 DEF AlarmIsFirst, next
  <2>3. CASE next # Never /\ next < now
    <3>1. rejected' = TRUE /\ UNCHANGED <<globalTimeoutDue, pendingEvents, ticking>>
      BY <2>1, <2>3 DEF SetOrClear, SetGlobalTimeout
    <3> QED
      BY <1>2, <3>1 DEF AlarmIsFirst
  <2>4. CASE next # Never /\ ~ (next < now)
    <3>1. next \in Times /\ next \in Nat /\ next >= now
      BY <1>2, <1>3, <2>4, TimesKnown
    <3>2. /\ globalTimeoutDue' = next /\ pendingEvents' \in Nat /\ pendingEvents' > 0
          /\ ticking' \in BOOLEAN /\ rejected' = rejected
      BY <2>1, <3>1, AlarmSet DEF Inv
    <3>3. rejected' \in BOOLEAN
      BY <2>1, <2>4, <1>2 DEF SetOrClear, SetGlobalTimeout
    <3> QED
      BY <1>3, <3>2, <3>3 DEF AlarmIsFirst, next
  <2> QED
    BY <2>2, <2>3, <2>4
<1> QED
  BY <1>4, <1>5

\* A timer leaves the tree, and the map.
LEMMA TreeWithout ==
  ASSUME Inv, NEW t \in idMap \cap scheduled,
         dueTree' = [dueTree EXCEPT ![due[t]] = Drop(@, t)],
         idMap' = idMap \ {t}, UNCHANGED <<due, scheduled>>
  PROVE  /\ Tree' /\ dueTree[due[t]] # <<>> /\ due[t] \in Times
         /\ \A e \in Times : e # due[t] => dueTree'[e] = dueTree[e]
         /\ dueTree'[due[t]] = <<>> <=> Len(dueTree[due[t]]) = 1
<1> DEFINE d == due[t]
           q == dueTree[d]
           p == Drop(q, t)
<1>1. t \in Timers /\ d \in Times /\ dueTree \in [Times -> Seq(Timers)] /\ Contains(q, t)
  BY DEF Inv, Scalars, Tree
<1>2. /\ q \in Seq(Timers) /\ Len(q) \in Nat
      /\ \A n \in 1 .. Len(q) : q[n] \in idMap \cap scheduled /\ due[q[n]] = d
      /\ \A m, n \in 1 .. Len(q) : q[m] = q[n] => m = n
  BY <1>1, Nodes
<1>3. /\ p \in Seq(Timers) /\ Len(p) = Len(q) - 1
      /\ \A n \in 1 .. Len(p) : \E m \in 1 .. Len(q) : p[n] = q[m] /\ q[m] # t
      /\ \A m, n \in 1 .. Len(p) : p[m] = p[n] => m = n
      /\ \A u : Contains(q, u) /\ u # t => Contains(p, u)
  BY <1>1, <1>2, Dropped
<1>4. dueTree'[d] = p /\ \A e \in Times : e # d => dueTree'[e] = dueTree[e]
  BY <1>1
<1>5. dueTree' \in [Times -> Seq(Timers)]
  BY <1>1, <1>3
<1>6. q # <<>>
  BY <1>1 DEF Contains
<1> HIDE DEF d, q, p
<1>7. p = <<>> <=> Len(q) = 1
  BY <1>2, <1>3
<1>8. \A n \in 1 .. Len(p) : p[n] \in idMap' \cap scheduled' /\ due'[p[n]] = d
  BY <1>2, <1>3
<1>9. ASSUME NEW e \in Times, e # d, NEW n \in 1 .. Len(dueTree[e])
      PROVE  dueTree[e][n] \in idMap' \cap scheduled' /\ due'[dueTree[e][n]] = e
  <2>1. dueTree[e][n] \in idMap \cap scheduled /\ due[dueTree[e][n]] = e
    BY Nodes
  <2> QED
    BY <1>9, <2>1 DEF d
<1>10. \A e \in Times : \A n \in 1 .. Len(dueTree'[e]) :
         dueTree'[e][n] \in idMap' \cap scheduled' /\ due'[dueTree'[e][n]] = e
  BY <1>4, <1>8, <1>9
<1>11. ASSUME NEW e \in Times, e # d, NEW m \in 1 .. Len(dueTree[e]),
              NEW n \in 1 .. Len(dueTree[e]), dueTree[e][m] = dueTree[e][n]
       PROVE  m = n
  BY <1>11, Nodes
<1>12. \A e \in Times : \A m, n \in 1 .. Len(dueTree'[e]) :
         dueTree'[e][m] = dueTree'[e][n] => m = n
  <2> TAKE e \in Times
  <2>1. CASE e = d
    BY <1>3, <1>4, <2>1
  <2>2. CASE e # d
    <3>1. dueTree'[e] = dueTree[e]
      BY <1>4, <2>2
    <3> QED
      BY <1>11, <2>2, <3>1
  <2> QED
    BY <2>1, <2>2
<1>13. ASSUME NEW u \in idMap' \cap scheduled'
       PROVE  Contains(dueTree'[due'[u]], u)
  <2>1. u \in idMap \cap scheduled /\ u # t /\ Contains(dueTree[due[u]], u) /\ due[u] \in Times
    BY DEF Inv, Scalars, Tree
  <2>2. CASE due[u] = d
    BY <1>3, <1>4, <2>1, <2>2 DEF q
  <2>3. CASE due[u] # d
    BY <1>4, <2>1, <2>3
  <2> QED
    BY <2>2, <2>3
<1>14. Tree'
  BY <1>5, <1>10, <1>12, <1>13 DEF Tree
<1> QED
  BY <1>1, <1>4, <1>6, <1>7, <1>14 DEF d, q

\* clearTimeout and clearInterval.
LEMMA ClearTimerInv ==
  ASSUME Inv, ~ rejected, NEW t \in Timers, ClearTimer(t)
  PROVE  Inv'
<1>1. /\ t \in idMap /\ Unschedule(t) /\ idMap' = idMap \ {t}
      /\ UNCHANGED <<now, due, delay, phase, unused>>
  BY DEF ClearTimer
<1>2. Scalars /\ Tree /\ Firing /\ AlarmIsFirst
  BY DEF Inv
<1>3. ASSUME UNCHANGED <<dueTree, scheduled>>, t \notin scheduled
      PROVE  Tree'
  BY <1>1, <1>2, <1>3 DEF Tree
<1>4. ASSUME UNCHANGED alarmVars, UNCHANGED scheduled
      PROVE  Scalars'
  BY <1>1, <1>2, <1>4 DEF Scalars, alarmVars
<1>5. ASSUME UNCHANGED alarmVars, UNCHANGED dueTree
      PROVE  AlarmIsFirst'
  BY <1>2, <1>5 DEF AlarmIsFirst, alarmVars
<1>6. CASE Contains(pendingFireTimers, t)
  <2> DEFINE k == IndexOf(pendingFireTimers, t)
             r == SubSeq(pendingFireTimers, 1, k - 1)
  <2>1. pendingFireTimers' = r /\ UNCHANGED <<dueTree, scheduled, alarmVars>>
    BY <1>1, <1>6 DEF Unschedule, FiringWithout
  <2>2. k \in 1 .. Len(pendingFireTimers) /\ pendingFireTimers[k] = t
    BY <1>6, Found
  <2>3. /\ r \in Seq(Timers) /\ Len(r) = k - 1
        /\ \A n \in 1 .. Len(r) : /\ n \in 1 .. Len(pendingFireTimers) /\ n # k
                                  /\ r[n] = pendingFireTimers[n]
    <3>1. pendingFireTimers \in Seq(Timers) /\ Len(pendingFireTimers) \in Nat
      BY Fires
    <3> HIDE DEF k
    <3> QED
      BY <2>2, <3>1
  <2>4. t \notin scheduled
    BY <2>2, Fires
  <2> HIDE DEF k, r
  <2>5. \A n \in 1 .. Len(r) : r[n] \in idMap' \ scheduled'
    <3> TAKE n \in 1 .. Len(r)
    <3>1. n \in 1 .. Len(pendingFireTimers) /\ r[n] = pendingFireTimers[n] /\ r[n] # t
      BY <1>2, <2>2, <2>3 DEF Firing
    <3> QED
      BY <1>1, <2>1, <3>1, Fires
  <2>6. \A m, n \in 1 .. Len(r) : r[m] = r[n] => m = n
    BY <1>2, <2>3 DEF Firing
  <2>7. \A n \in 1 .. Len(r), d \in Times : dueTree[d] # <<>> => due[r[n]] <= d
    BY <1>2, <2>3 DEF Firing
  <2>8. FireInOrder'
    BY <1>1, <1>2, <2>1, <2>3 DEF Firing, FireInOrder
  <2>9. Firing'
    BY <1>1, <2>1, <2>3, <2>5, <2>6, <2>7, <2>8 DEF Firing
  <2> QED
    BY <1>3, <1>4, <1>5, <2>1, <2>4, <2>9 DEF Inv
<1>7. CASE ~ Contains(pendingFireTimers, t)
  <2>1. /\ UNCHANGED <<pendingFireTimers, scheduled>>
        /\ t \notin scheduled => UNCHANGED <<dueTree, alarmVars>>
        /\ t \in scheduled =>
             /\ dueTree' = [dueTree EXCEPT ![due[t]] = Drop(@, t)]
             /\ Len(dueTree[due[t]]) = 1 => UpdateAlarm(t, dueTree')
             /\ Len(dueTree[due[t]]) # 1 => UNCHANGED alarmVars
    BY <1>1, <1>7 DEF Unschedule
  <2>2. \A n \in 1 .. Len(pendingFireTimers) :
          /\ pendingFireTimers[n] \in idMap' \ scheduled'
          /\ due'[pendingFireTimers[n]] = due[pendingFireTimers[n]]
    BY <1>1, <1>7, <2>1, Fires DEF Contains
  <2>3. CASE t \notin scheduled
    <3>1. Firing'
      BY <1>1, <2>1, <2>2, <2>3, SameFiring
    <3> QED
      BY <1>3, <1>4, <1>5, <2>1, <2>3, <3>1 DEF Inv
  <2>4. CASE t \in scheduled
    <3>1. /\ Tree' /\ dueTree[due[t]] # <<>> /\ due[t] \in Times
          /\ \A e \in Times : e # due[t] => dueTree'[e] = dueTree[e]
          /\ dueTree'[due[t]] = <<>> <=> Len(dueTree[due[t]]) = 1
      BY <1>1, <2>1, <2>4, TreeWithout
    <3>2. \A e \in Times : dueTree'[e] # <<>> => dueTree[e] # <<>>
      BY <3>1
    <3>3. Firing'
      BY <1>1, <2>1, <2>2, <3>2, SameFiring
    <3>4. CASE Len(dueTree[due[t]]) = 1
      <4>1. /\ AlarmIsFirst' /\ globalTimeoutDue' \in Times \cup {Never}
            /\ pendingEvents' \in Nat /\ ticking' \in BOOLEAN /\ rejected' \in BOOLEAN
        BY <2>1, <2>4, <3>1, <3>4, AlarmAfter
      <4>2. Scalars'
        BY <1>1, <1>2, <2>1, <4>1 DEF Scalars
      <4> QED
        BY <3>1, <3>3, <4>1, <4>2 DEF Inv
    <3>5. CASE Len(dueTree[due[t]]) # 1
      <4>1. UNCHANGED alarmVars
        BY <2>1, <2>4, <3>5
      <4>2. \A e \in Times : dueTree'[e] = <<>> <=> dueTree[e] = <<>>
        BY <3>1, <3>5
      <4>3. First(dueTree') = First(dueTree)
        BY <4>2 DEF First
      <4>4. AlarmIsFirst'
        BY <1>2, <4>1, <4>3 DEF AlarmIsFirst, alarmVars
      <4> QED
        BY <1>4, <2>1, <3>1, <3>3, <4>1, <4>4 DEF Inv
    <3> QED
      BY <3>4, <3>5
  <2> QED
    BY <2>3, <2>4
<1> QED
  BY <1>6, <1>7

-----------------------------------------------------------------------------
(* The event loop.                                                         *)

\* What leaves the tree: the timers that are due.
LEMMA ReadyAre ==
  ASSUME Inv, NEW t
  PROVE  t \in ReadyTimers <=> t \in idMap \cap scheduled /\ due[t] <= now
<1>1. ASSUME t \in ReadyTimers PROVE t \in idMap \cap scheduled /\ due[t] <= now
  <2>1. PICK d \in DueNow : t \in ToSet(dueTree[d])
    BY <1>1 DEF ReadyTimers
  <2>2. d \in Times /\ d <= now
    BY DEF DueNow
  <2>3. dueTree[d] \in Seq(Timers)
    BY <2>2, Nodes
  <2>4. PICK n \in 1 .. Len(dueTree[d]) : dueTree[d][n] = t
    BY <2>1, <2>3 DEF ToSet
  <2> QED
    BY <2>2, <2>4, Nodes
<1>2. ASSUME t \in idMap \cap scheduled, due[t] <= now PROVE t \in ReadyTimers
  <2>1. Contains(dueTree[due[t]], t) /\ due[t] \in Times /\ dueTree[due[t]] \in Seq(Timers)
    BY <1>2 DEF Inv, Tree, Scalars
  <2>2. PICK n \in 1 .. Len(dueTree[due[t]]) : dueTree[due[t]][n] = t
    BY <2>1 DEF Contains
  <2>3. t \in ToSet(dueTree[due[t]]) /\ dueTree[due[t]] # <<>>
    BY <2>1, <2>2 DEF ToSet
  <2>4. due[t] \in DueNow
    BY <1>2, <2>1, <2>3 DEF DueNow
  <2> QED
    BY <2>3, <2>4 DEF ReadyTimers
<1> QED
  BY <1>1, <1>2

\* They are all of them about to fire then, each once.
LEMMA ReadyList ==
  ASSUME Inv, NEW ready \in SetToSeqs(ReadyTimers)
  PROVE  /\ ready \in Seq(Timers) /\ Len(ready) \in Nat
         /\ \A n \in 1 .. Len(ready) : ready[n] \in ReadyTimers
         /\ \A m, n \in 1 .. Len(ready) : ready[m] = ready[n] => m = n
         /\ \A t \in ReadyTimers : \E n \in 1 .. Len(ready) : ready[n] = t
<1> DEFINE n == Cardinality(ReadyTimers)
<1>1. ReadyTimers \in SUBSET Timers
  BY ReadyAre DEF Inv, Scalars
<1>2. IsFiniteSet(ReadyTimers) /\ n \in Nat
  BY <1>1, TimersAssumption, FS_Subset, FS_CardinalityType
<1>3. /\ ready \in [1 .. n -> ReadyTimers]
      /\ \A i, j \in 1 .. n : i # j => ready[i] # ready[j]
  BY DEF SetToSeqs
<1> HIDE DEF n
<1>4. ready \in [1 .. n -> Timers]
  BY <1>1, <1>3
<1>5. ready \in Seq(Timers) /\ Len(ready) = n
  BY <1>2, <1>4
<1>6. ready \in Injection(1 .. n, ReadyTimers)
  BY <1>3 DEF Injection, IsInjective
<1>7. IsFiniteSet(1 .. n) /\ Cardinality(1 .. n) = n
  BY <1>2, FS_Interval
<1>8. ready \in Surjection(1 .. n, ReadyTimers)
  BY <1>2, <1>6, <1>7, FS_Injection DEF n
<1>9. \A t \in ReadyTimers : \E i \in 1 .. n : ready[i] = t
  BY <1>8 DEF Surjection
<1> QED
  BY <1>2, <1>3, <1>5, <1>9
\* Two lists, one behind the other.
LEMMA Joined ==
  ASSUME NEW S, NEW a \in Seq(S), NEW b \in Seq(S)
  PROVE  /\ a \o b \in Seq(S) /\ Len(a \o b) = Len(a) + Len(b)
         /\ Len(a) \in Nat /\ Len(b) \in Nat
         /\ \A n \in 1 .. Len(a \o b) :
              \/ n \in 1 .. Len(a) /\ (a \o b)[n] = a[n]
              \/ n > Len(a) /\ n - Len(a) \in 1 .. Len(b) /\ (a \o b)[n] = b[n - Len(a)]
         /\ \A n \in 1 .. Len(a) : n \in 1 .. Len(a \o b) /\ (a \o b)[n] = a[n]
         /\ \A n \in 1 .. Len(b) : /\ Len(a) + n \in 1 .. Len(a \o b)
                                   /\ (a \o b)[Len(a) + n] = b[n]
<1>1. /\ a \o b \in Seq(S) /\ Len(a \o b) = Len(a) + Len(b)
      /\ Len(a) \in Nat /\ Len(b) \in Nat
  OBVIOUS
<1>2. \A n \in 1 .. Len(a) + Len(b) :
        (a \o b)[n] = IF n <= Len(a) THEN a[n] ELSE b[n - Len(a)]
  OBVIOUS
<1>3. ASSUME NEW n \in 1 .. Len(a) + Len(b)
      PROVE  \/ n \in 1 .. Len(a) /\ (a \o b)[n] = a[n]
             \/ n > Len(a) /\ n - Len(a) \in 1 .. Len(b) /\ (a \o b)[n] = b[n - Len(a)]
  BY <1>1, <1>2
<1>4. ASSUME NEW n \in 1 .. Len(a)
      PROVE  n \in 1 .. Len(a) + Len(b) /\ (a \o b)[n] = a[n]
  BY <1>1, <1>2
<1>5. ASSUME NEW n \in 1 .. Len(b)
      PROVE  Len(a) + n \in 1 .. Len(a) + Len(b) /\ (a \o b)[Len(a) + n] = b[n]
  <2>1. /\ Len(a) + n \in 1 .. Len(a) + Len(b) /\ ~ (Len(a) + n <= Len(a))
        /\ (Len(a) + n) - Len(a) = n
    BY <1>1
  <2> QED
    BY <1>2, <2>1
<1> QED
  BY <1>1, <1>3, <1>4, <1>5

\* The nodes that are due go from the tree behind the timers about to fire.
LEMMA MoveReady ==
  ASSUME Inv, NEW ready \in SetToSeqs(ReadyTimers), NodeByNode(ready),
         pendingFireTimers' = pendingFireTimers \o ready,
         dueTree' = [d \in Times |-> IF d \in DueNow THEN <<>> ELSE dueTree[d]],
         scheduled' = scheduled \ ReadyTimers, UNCHANGED <<now, idMap, due>>
  PROVE  Tree' /\ Firing'
<1> DEFINE a == pendingFireTimers
           c == a \o ready
<1>1. /\ ready \in Seq(Timers) /\ Len(ready) \in Nat
      /\ \A n \in 1 .. Len(ready) : ready[n] \in ReadyTimers
      /\ \A m, n \in 1 .. Len(ready) : ready[m] = ready[n] => m = n
  BY ReadyList
<1>2. /\ a \in Seq(Timers) /\ Len(a) \in Nat /\ now \in Nat
      /\ \A n \in 1 .. Len(a) : /\ a[n] \in idMap \ scheduled /\ a[n] \in Timers
                                /\ due[a[n]] <= now /\ due[a[n]] \in Nat
      /\ \A m, n \in 1 .. Len(a) : a[m] = a[n] => m = n
      /\ \A m, n \in 1 .. Len(a) : m < n => due[a[m]] <= due[a[n]]
      /\ \A n \in 1 .. Len(a), d \in Times : dueTree[d] # <<>> => due[a[n]] <= d
  BY Fires DEF Inv, Firing, FireInOrder
<1>3. \A n \in 1 .. Len(ready) :
        /\ ready[n] \in idMap \cap scheduled /\ due[ready[n]] <= now
        /\ due[ready[n]] \in Times /\ due[ready[n]] \in Nat
        /\ dueTree[due[ready[n]]] # <<>>
  <2> TAKE n \in 1 .. Len(ready)
  <2>1. ready[n] \in idMap \cap scheduled /\ due[ready[n]] <= now
    BY <1>1, ReadyAre
  <2>2. due[ready[n]] \in Times /\ Contains(dueTree[due[ready[n]]], ready[n])
    BY <2>1 DEF Inv, Scalars, Tree
  <2> QED
    BY <2>1, <2>2, TimesKnown DEF Contains
<1>4. /\ c \in Seq(Timers) /\ Len(c) \in Nat
      /\ \A n \in 1 .. Len(c) :
           \/ n \in 1 .. Len(a) /\ c[n] = a[n]
           \/ n > Len(a) /\ n - Len(a) \in 1 .. Len(ready) /\ c[n] = ready[n - Len(a)]
  BY <1>1, <1>2, Joined
<1> HIDE DEF c
<1>5. pendingFireTimers' = c
  BY DEF c
<1>6. \A d \in Times : dueTree'[d] = IF d \in DueNow THEN <<>> ELSE dueTree[d]
  OBVIOUS
<1>7. \A d \in Times : d \in DueNow <=> d <= now /\ dueTree[d] # <<>>
  BY DEF DueNow
<1>8. Tree'
  <2>1. dueTree' \in [Times -> Seq(Timers)]
    BY DEF Inv, Tree
  <2>2. ASSUME NEW d \in Times, NEW n \in 1 .. Len(dueTree'[d])
        PROVE  /\ dueTree'[d] = dueTree[d]
               /\ dueTree'[d][n] \in idMap' \cap scheduled' /\ due'[dueTree'[d][n]] = d
    <3>1. d \notin DueNow /\ dueTree'[d] = dueTree[d]
      BY <1>6, <2>2
    <3>2. /\ dueTree[d][n] \in idMap \cap scheduled /\ due[dueTree[d][n]] = d
          /\ dueTree[d] # <<>>
      BY <3>1, Nodes
    <3>3. dueTree[d][n] \notin ReadyTimers
      BY <1>7, <3>1, <3>2, ReadyAre
    <3> QED
      BY <3>1, <3>2, <3>3
  <2>3. ASSUME NEW d \in Times, NEW m \in 1 .. Len(dueTree'[d]), NEW n \in 1 .. Len(dueTree'[d]),
               dueTree'[d][m] = dueTree'[d][n]
        PROVE  m = n
    BY <2>2, <2>3, Nodes
  <2>4. ASSUME NEW t \in idMap' \cap scheduled'
        PROVE  Contains(dueTree'[due'[t]], t)
    <3>1. /\ t \in idMap \cap scheduled /\ t \notin ReadyTimers /\ due[t] \in Times
          /\ Contains(dueTree[due[t]], t)
      BY <2>4 DEF Inv, Scalars, Tree
    <3>2. due[t] \notin DueNow
      BY <1>7, <3>1, ReadyAre
    <3> QED
      BY <1>6, <3>1, <3>2
  <2> QED
    BY <2>1, <2>2, <2>3, <2>4 DEF Tree
<1>9. \A n \in 1 .. Len(c) : c[n] \in idMap' \ scheduled' /\ due[c[n]] <= now
  <2> TAKE n \in 1 .. Len(c)
  <2>1. CASE n \in 1 .. Len(a) /\ c[n] = a[n]
    BY <1>2, <2>1
  <2>2. CASE n - Len(a) \in 1 .. Len(ready) /\ c[n] = ready[n - Len(a)]
    BY <1>1, <1>3, <2>2
  <2> QED
    BY <1>4, <2>1, <2>2
<1>10. ASSUME NEW m \in 1 .. Len(c), NEW n \in 1 .. Len(c), m < n
       PROVE  due[c[m]] <= due[c[n]] /\ c[m] # c[n]
  <2>1. m \in Int /\ n \in Int
    OBVIOUS
  <2>2. CASE n \in 1 .. Len(a) /\ c[n] = a[n]
    <3>1. m \in 1 .. Len(a) /\ c[m] = a[m]
      BY <1>2, <1>4, <1>10, <2>1, <2>2
    <3> QED
      BY <1>2, <1>10, <2>1, <2>2, <3>1
  <2>3. CASE n > Len(a) /\ n - Len(a) \in 1 .. Len(ready) /\ c[n] = ready[n - Len(a)]
    <3>1. CASE m \in 1 .. Len(a) /\ c[m] = a[m]
      <4>1. due[a[m]] <= due[ready[n - Len(a)]]
        BY <1>2, <1>3, <2>3, <3>1
      <4>2. a[m] # ready[n - Len(a)]
        BY <1>2, <1>3, <2>3, <3>1
      <4> QED
        BY <2>3, <3>1, <4>1, <4>2
    <3>2. CASE m > Len(a) /\ m - Len(a) \in 1 .. Len(ready) /\ c[m] = ready[m - Len(a)]
      <4>1. m - Len(a) < n - Len(a) /\ m - Len(a) # n - Len(a)
        BY <1>2, <1>10, <2>1
      <4>2. due[ready[m - Len(a)]] <= due[ready[n - Len(a)]]
        BY <2>3, <3>2, <4>1 DEF NodeByNode
      <4>3. ready[m - Len(a)] # ready[n - Len(a)]
        BY <1>1, <2>3, <3>2, <4>1
      <4> QED
        BY <2>3, <3>2, <4>2, <4>3
    <3> QED
      BY <1>4, <3>1, <3>2
  <2> QED
    BY <1>4, <2>2, <2>3
<1>11. \A m, n \in 1 .. Len(c) : c[m] = c[n] => m = n
  <2> SUFFICES ASSUME NEW m \in 1 .. Len(c), NEW n \in 1 .. Len(c), c[m] = c[n], m # n
               PROVE  FALSE
    OBVIOUS
  <2>1. m < n \/ n < m
    OBVIOUS
  <2> QED
    BY <1>10, <2>1
<1>12. \A n \in 1 .. Len(c), d \in Times : dueTree'[d] # <<>> => due'[c[n]] <= d
  <2> TAKE n \in 1 .. Len(c), d \in Times
  <2> HAVE dueTree'[d] # <<>>
  <2>1. d > now
    <3>1. d \in Nat /\ d \notin DueNow /\ dueTree[d] # <<>>
      BY <1>6, TimesKnown
    <3> QED
      BY <1>2, <1>7, <3>1
  <2>2. d \in Nat /\ c[n] \in Timers
    BY <1>4, TimesKnown
  <2>3. due[c[n]] \in Nat
    BY <2>2, TimesKnown DEF Inv, Scalars
  <2> QED
    BY <1>2, <1>9, <2>1, <2>2, <2>3
<1>13. FireInOrder'
  BY <1>5, <1>9, <1>10 DEF FireInOrder
<1>14. Firing'
  BY <1>4, <1>5, <1>9, <1>11, <1>12, <1>13 DEF Firing
<1> QED
  BY <1>8, <1>14

\* The answer of the alarm's op, or of one that was replaced.
LEMMA RespondInv == ASSUME Inv, ~ rejected, Respond PROVE Inv'
<1> DEFINE events == pendingEvents - 1
           next   == First(dueTree')
<1>1. /\ pendingEvents > (IF ticking THEN 1 ELSE 0) /\ PrepareReadyTimers(events)
      /\ UNCHANGED <<now, timerVars, phase, unused>>
  BY DEF Respond
<1>2. Scalars /\ Tree /\ Firing /\ AlarmIsFirst
  BY DEF Inv
<1>3. events \in Nat
  BY <1>1, <1>2 DEF Scalars
<1> HIDE DEF events
<1>4. CASE BailOut(events)
  <2>1. /\ pendingEvents' = events
        /\ UNCHANGED <<treeVars, globalTimeoutDue, ticking, rejected>>
    BY <1>1, <1>4 DEF PrepareReadyTimers
  <2>2. Scalars' /\ Tree'
    BY <1>1, <1>2, <1>3, <2>1 DEF Scalars, Tree, timerVars, treeVars
  <2>3. \A n \in 1 .. Len(pendingFireTimers) : pendingFireTimers[n] \in idMap \ scheduled
    BY Fires
  <2>4. Firing'
    BY <1>1, <2>1, <2>3, SameFiring DEF treeVars, timerVars
  <2>5. AlarmIsFirst'
    BY <1>2, <1>3, <1>4, <2>1 DEF AlarmIsFirst, treeVars, BailOut
  <2> QED
    BY <2>2, <2>4, <2>5 DEF Inv
<1>5. CASE ~ BailOut(events)
  <2>1. /\ dueTree' = [d \in Times |-> IF d \in DueNow THEN <<>> ELSE dueTree[d]]
        /\ scheduled' = scheduled \ ReadyTimers
        /\ globalTimeoutDue' = next /\ ticking' = (next # Never)
        /\ pendingEvents' = IF next = Never THEN events ELSE events + 1
        /\ UNCHANGED rejected
    BY <1>1, <1>5 DEF PrepareReadyTimers
  <2>2. PICK ready \in SetToSeqs(ReadyTimers) :
          NodeByNode(ready) /\ pendingFireTimers' = pendingFireTimers \o ready
    BY <1>1, <1>5 DEF PrepareReadyTimers
  <2>3. UNCHANGED <<now, idMap, due, delay, phase, unused>>
    BY <1>1 DEF timerVars
  <2>4. Tree' /\ Firing'
    BY <2>1, <2>2, <2>3, MoveReady
  <2>5. next \in Times \cup {Never}
    BY FirstIs
  <2> HIDE DEF next
  <2>6. pendingEvents' \in Nat /\ (next # Never => pendingEvents' > 0)
    BY <1>3, <2>1
  <2>7. Scalars'
    BY <1>2, <2>1, <2>3, <2>5, <2>6 DEF Scalars
  <2>8. AlarmIsFirst'
    BY <2>1, <2>6 DEF AlarmIsFirst, next
  <2> QED
    BY <2>4, <2>7, <2>8 DEF Inv
<1> QED
  BY <1>4, <1>5
\* The first of the timers about to fire is taken.
LEMMA Popped ==
  ASSUME Inv, pendingFireTimers # <<>>, pendingFireTimers' = Tail(pendingFireTimers),
         UNCHANGED now,
         \A n \in 1 .. Len(pendingFireTimers) :
           pendingFireTimers[n] # Head(pendingFireTimers) =>
             /\ pendingFireTimers[n] \in idMap' \ scheduled'
             /\ due'[pendingFireTimers[n]] = due[pendingFireTimers[n]],
         \A e \in Times : dueTree'[e] # <<>> => dueTree[e] # <<>> \/ e >= now
  PROVE  Firing'
<1> DEFINE a == pendingFireTimers
           c == Tail(pendingFireTimers)
<1>1. /\ a \in Seq(Timers) /\ Len(a) \in Nat /\ now \in Nat
      /\ \A n \in 1 .. Len(a) : due[a[n]] <= now /\ due[a[n]] \in Nat
      /\ \A m, n \in 1 .. Len(a) : a[m] = a[n] => m = n
      /\ \A m, n \in 1 .. Len(a) : m < n => due[a[m]] <= due[a[n]]
      /\ \A n \in 1 .. Len(a), d \in Times : dueTree[d] # <<>> => due[a[n]] <= d
  BY Fires DEF Inv, Firing, FireInOrder
<1>2. /\ c \in Seq(Timers) /\ Head(a) = a[1] /\ 1 \in 1 .. Len(a)
      /\ \A n \in 1 .. Len(c) : n + 1 \in 1 .. Len(a) /\ c[n] = a[n + 1]
  BY <1>1, Taken
<1> HIDE DEF c
<1>3. pendingFireTimers' = c
  BY DEF c
<1>4. \A n \in 1 .. Len(c) : /\ c[n] \in idMap' \ scheduled' /\ due'[c[n]] = due[c[n]]
                             /\ due'[c[n]] <= now /\ due[c[n]] \in Nat
  <2> TAKE n \in 1 .. Len(c)
  <2>1. n + 1 \in 1 .. Len(a) /\ c[n] = a[n + 1] /\ n + 1 # 1
    BY <1>2
  <2>2. a[n + 1] # Head(a)
    BY <1>1, <1>2, <2>1
  <2> QED
    BY <1>1, <2>1, <2>2
<1>5. \A m, n \in 1 .. Len(c) : c[m] = c[n] => m = n
  <2> SUFFICES ASSUME NEW m \in 1 .. Len(c), NEW n \in 1 .. Len(c), c[m] = c[n]
               PROVE  m = n
    OBVIOUS
  <2>1. m + 1 = n + 1
    BY <1>1, <1>2
  <2> QED
    BY <2>1
<1>6. \A m, n \in 1 .. Len(c) : m < n => due'[c[m]] <= due'[c[n]]
  <2> SUFFICES ASSUME NEW m \in 1 .. Len(c), NEW n \in 1 .. Len(c), m < n
               PROVE  due'[c[m]] <= due'[c[n]]
    OBVIOUS
  <2>1. m + 1 \in 1 .. Len(a) /\ n + 1 \in 1 .. Len(a) /\ m + 1 < n + 1
    BY <1>2
  <2>2. due[a[m + 1]] <= due[a[n + 1]]
    BY <1>1, <2>1
  <2> QED
    BY <1>2, <1>4, <2>2
<1>7. \A n \in 1 .. Len(c), e \in Times : dueTree'[e] # <<>> => due'[c[n]] <= e
  <2> TAKE n \in 1 .. Len(c), e \in Times
  <2> HAVE dueTree'[e] # <<>>
  <2>1. CASE dueTree[e] # <<>>
    <3>1. n + 1 \in 1 .. Len(a) /\ c[n] = a[n + 1]
      BY <1>2
    <3>2. due[a[n + 1]] <= e
      BY <1>1, <2>1, <3>1
    <3> QED
      BY <1>4, <3>1, <3>2
  <2>2. CASE e >= now
    <3>1. due'[c[n]] <= now /\ due'[c[n]] \in Nat /\ e \in Nat
      BY <1>4, TimesKnown
    <3> QED
      BY <1>1, <2>2, <3>1
  <2> QED
    BY <2>1, <2>2
<1>8. FireInOrder'
  BY <1>3, <1>4, <1>6 DEF FireInOrder
<1> QED
  BY <1>2, <1>3, <1>4, <1>5, <1>7, <1>8, ZenonT(60) DEF Firing

\* A macrotask fires a timer, and schedules an interval again.
LEMMA FireInv == ASSUME Inv, ~ rejected, Fire PROVE Inv'
<1> DEFINE a == pendingFireTimers
           t == Head(a)
           d == NextDue(t)
<1>1. /\ a # <<>> /\ pendingFireTimers' = Tail(a) /\ UNCHANGED <<now, delay, phase, unused>>
      /\ t \notin idMap => UNCHANGED <<idMap, due, dueTree, scheduled, alarmVars>>
      /\ t \in idMap =>
           /\ idMap' = IF t \in Intervals THEN idMap ELSE idMap \ {t}
           /\ t \in Intervals => due' = [due EXCEPT ![t] = d] /\ Schedule(t, d)
           /\ t \notin Intervals => UNCHANGED <<due, dueTree, scheduled, alarmVars>>
  BY DEF Fire, StaysInMap
<1>2. Scalars /\ Tree /\ Firing /\ AlarmIsFirst
  BY DEF Inv
<1>3. t = a[1] /\ 1 \in 1 .. Len(a) /\ a \in Seq(Timers)
  BY <1>1, Fires, Taken
<1>4. /\ t \in idMap \ scheduled /\ t \in Timers /\ due[t] <= now
      /\ due[t] \in Nat /\ now \in Nat
  BY <1>3, Fires
<1>5. delay[t] \in 0 .. TimeoutMax /\ now <= MaxTime
  BY <1>2, <1>4 DEF Scalars
<1>6. d = IF now >= due[t] + delay[t] THEN now ELSE due[t] + delay[t]
  <2>1. now \in Int /\ due[t] + delay[t] \in Int
    BY <1>4, <1>5
  <2> QED
    BY <2>1, Larger DEF NextDue
<1> HIDE DEF d
<1>7. d \in Nat /\ d >= now /\ d \in 0 .. MaxTime + TimeoutMax
  BY <1>4, <1>5, <1>6, TimesKnown
<1>8. d \in Times
  BY <1>7, TimesKnown
<1>9. \A n \in 1 .. Len(a) : a[n] \in idMap \ scheduled /\ a[n] \in Timers
  BY Fires
<1> HIDE DEF t
<1>10. CASE t \in Intervals
  <2>1. idMap' = idMap /\ due' = [due EXCEPT ![t] = d] /\ Schedule(t, d)
    BY <1>1, <1>4, <1>10
  <2>2. /\ due' \in [Timers -> Times] /\ due'[t] = d
        /\ \A u \in Timers : u # t => due'[u] = due[u]
    BY <1>2, <1>4, <1>8, <2>1 DEF Scalars
  <2>3. idMap' = idMap \cup {t} /\ t \notin scheduled
    BY <1>4, <2>1
  <2>4. /\ Tree' /\ AlarmIsFirst' /\ rejected' = rejected
        /\ globalTimeoutDue' \in Times \cup {Never} /\ pendingEvents' \in Nat
        /\ ticking' \in BOOLEAN
        /\ scheduled' = scheduled \cup {t}
        /\ \A e \in Times : dueTree'[e] # <<>> => dueTree[e] # <<>> \/ e = d
    BY <1>4, <1>7, <1>8, <2>1, <2>2, <2>3, ScheduleKeeps
  <2>5. Scalars'
    BY <1>1, <1>2, <1>4, <2>1, <2>2, <2>4 DEF Scalars
  <2>6. \A n \in 1 .. Len(a) : a[n] # t => /\ a[n] \in idMap' \ scheduled'
                                           /\ due'[a[n]] = due[a[n]]
    BY <1>9, <2>1, <2>2, <2>4
  <2>7. Firing'
    BY <1>1, <1>7, <2>4, <2>6, Popped DEF t
  <2> QED
    BY <2>4, <2>5, <2>7 DEF Inv
<1>11. CASE t \notin Intervals
  <2>1. idMap' = idMap \ {t} /\ UNCHANGED <<due, dueTree, scheduled, alarmVars>>
    BY <1>1, <1>4, <1>11
  <2>2. Scalars' /\ AlarmIsFirst'
    BY <1>1, <1>2, <2>1 DEF Scalars, AlarmIsFirst, alarmVars
  <2>3. Tree'
    BY <1>2, <1>4, <2>1 DEF Tree
  <2>4. \A n \in 1 .. Len(a) : a[n] # t => /\ a[n] \in idMap' \ scheduled'
                                           /\ due'[a[n]] = due[a[n]]
    BY <1>9, <2>1
  <2>5. Firing'
    BY <1>1, <2>1, <2>4, Popped DEF t
  <2> QED
    BY <2>2, <2>3, <2>5 DEF Inv
<1> QED
  BY <1>10, <1>11

\* The op completes, or the loop goes on to its next phase, or a step that changes nothing.
LEMMA PhaseInv ==
  ASSUME Inv, OpCompletes \/ StartMacrotasks \/ EndMacrotasks \/ UNCHANGED vars
  PROVE  Inv'
<1>1. /\ UNCHANGED <<now, timerVars, treeVars, globalTimeoutDue, pendingEvents, rejected, unused>>
      /\ ticking' \in BOOLEAN /\ phase' \in {"responses", "macrotasks"}
  BY DEF OpCompletes, StartMacrotasks, EndMacrotasks, alarmVars, vars, Inv, Scalars
<1>2. Scalars' /\ Tree' /\ AlarmIsFirst'
  BY <1>1 DEF Inv, Scalars, Tree, AlarmIsFirst, timerVars, treeVars
<1>3. \A n \in 1 .. Len(pendingFireTimers) : pendingFireTimers[n] \in idMap \ scheduled
  BY Fires
<1>4. Firing'
  BY <1>1, <1>3, SameFiring DEF timerVars, treeVars
<1> QED
  BY <1>2, <1>4 DEF Inv

\* Time passes.
LEMMA TickInv == ASSUME Inv, Tick PROVE Inv'
<1>1. now < MaxTime /\ now' = now + 1 /\ UNCHANGED <<timerVars, treeVars, alarmVars, phase, unused>>
  BY DEF Tick
<1>2. Scalars /\ Tree /\ Firing /\ AlarmIsFirst /\ now \in Nat /\ MaxTime \in Nat
  BY Fires, TimesKnown DEF Inv
<1>3. Scalars' /\ Tree' /\ AlarmIsFirst'
  BY <1>1, <1>2 DEF Scalars, Tree, AlarmIsFirst, timerVars, treeVars, alarmVars
<1>4. \A n \in 1 .. Len(pendingFireTimers) : due[pendingFireTimers[n]] <= now'
  BY <1>1, <1>2, Fires
<1>5. FireInOrder'
  BY <1>1, <1>2, <1>4 DEF Firing, FireInOrder, timerVars, treeVars
<1>6. Firing'
  BY <1>1, <1>2, <1>5 DEF Firing, timerVars, treeVars
<1> QED
  BY <1>3, <1>6 DEF Inv

-----------------------------------------------------------------------------
(* The invariant and what follows from it.                                 *)

\* No timer exists, and nothing waits.
LEMMA InitInv == Init => Inv /\ Kept
<1> SUFFICES ASSUME Init PROVE Inv /\ Kept
  OBVIOUS
<1>1. 0 \in Times /\ 0 \in 0 .. MaxTime /\ 0 \in 0 .. TimeoutMax
  BY TimesKnown
<1>2. Scalars
  BY <1>1 DEF Init, Scalars
<1>3. \A d \in Times : dueTree[d] = <<>>
  BY DEF Init
<1>4. Tree
  BY <1>3 DEF Init, Tree
<1>5. Firing
  BY DEF Init, Firing, FireInOrder
<1>6. First(dueTree) = Never
  BY <1>3, FirstIs
<1>7. AlarmIsFirst
  BY <1>6 DEF Init, AlarmIsFirst
<1> QED
  BY <1>2, <1>4, <1>5, <1>7 DEF Inv, Kept, Init

\* Every step of programs, of the loop and of the clock keeps the invariant.
LEMMA StepInv == Inv /\ [Next]_vars => Inv'
<1> SUFFICES ASSUME Inv, [Next]_vars PROVE Inv'
  OBVIOUS
<1>1. ASSUME ~ rejected, NEW t \in Timers, NEW d \in Delays, SetTimer(t, d) PROVE Inv'
  BY <1>1, SetTimerInv
<1>2. ASSUME ~ rejected, NEW t \in Timers, ClearTimer(t) PROVE Inv'
  BY <1>2, ClearTimerInv
<1>3. CASE ~ rejected /\ (Respond \/ Fire)
  BY <1>3, RespondInv, FireInv
<1>4. CASE OpCompletes \/ StartMacrotasks \/ EndMacrotasks \/ UNCHANGED vars
  BY <1>4, PhaseInv
<1>5. CASE Tick
  BY <1>5, TickInv
<1> QED
  BY <1>1, <1>2, <1>3, <1>4, <1>5 DEF Next, Loop

\* The invariant holds in every state of every behavior.
LEMMA InvHolds == Spec => []Inv
<1>1. Init => Inv
  BY InitInv
<1> QED
  BY <1>1, StepInv, PTL DEF Spec

\* The state of timers.ts keeps its types; above all no due time is out of range,
\* whatever delay a program asks for and however late an interval fires.
THEOREM TypeCorrect == Spec => []TypeOK
<1>1. ASSUME Inv PROVE TypeOK
  <2>1. ASSUME NEW d \in Times PROVE dueTree[d] \in Seq(scheduled)
    <3>1. /\ dueTree[d] \in Seq(Timers)
          /\ \A n \in 1 .. Len(dueTree[d]) : dueTree[d][n] \in scheduled
      BY <1>1, Nodes
    <3> QED
      BY <3>1
  <2>2. dueTree \in [Times -> Seq(scheduled)]
    BY <1>1, <2>1 DEF Inv, Tree
  <2> QED
    BY <1>1, <2>2 DEF Inv, Scalars, Firing, TypeOK
<1> QED
  BY <1>1, InvHolds, PTL

\* The one op in Rust always waits for the timer that is due first, and an answer is
\* on its way, whatever was set and cleared and however many older ops are answered.
THEOREM AlarmWaitsForFirst == Spec => []AlarmIsFirst
<1>1. Inv => AlarmIsFirst
  BY DEF Inv
<1> QED
  BY <1>1, InvHolds, PTL

\* Timers fire in the order of their due times, and not before them.
THEOREM TimersFireInOrder == Spec => []FireInOrder
<1>1. Inv => FireInOrder
  BY DEF Inv, Firing
<1> QED
  BY <1>1, InvHolds, PTL
-----------------------------------------------------------------------------
(* No timer is forgotten.                                                  *)

\* A timer joins the list behind others, a prefix stays, or the first one goes.
LEMMA JoinedContain ==
  ASSUME NEW S, NEW a \in Seq(S), NEW b \in Seq(S), NEW t
  PROVE  Contains(a, t) \/ Contains(b, t) => Contains(a \o b, t)
<1>1. CASE Contains(a, t)
  <2>1. PICK n \in 1 .. Len(a) : a[n] = t
    BY <1>1 DEF Contains
  <2>2. n \in 1 .. Len(a \o b) /\ (a \o b)[n] = t
    BY <2>1, Joined
  <2> QED
    BY <2>2 DEF Contains
<1>2. CASE Contains(b, t)
  <2>1. PICK n \in 1 .. Len(b) : b[n] = t
    BY <1>2 DEF Contains
  <2>2. Len(a) + n \in 1 .. Len(a \o b) /\ (a \o b)[Len(a) + n] = t
    BY <2>1, Joined
  <2> QED
    BY <2>2 DEF Contains
<1> QED
  BY <1>1, <1>2

\* Whoever cleared u forgot t with it.
Behind(u, t) ==
  \E m, n \in 1 .. Len(pendingFireTimers) :
    m < n /\ pendingFireTimers[m] = u /\ pendingFireTimers[n] = t

\* A timer that exists leaves both the tree and the list only when one before it in
\* the list is cleared.
SplicedAway ==
  \A t \in idMap \cap idMap' :
    Waits(t) /\ ~ Waits(t)' => \E u \in Timers : ClearTimer(u) /\ Behind(u, t)

\* Only a timer that is cleared out of pendingFireTimers takes others with it.
LEMMA SplicedAwayStep ==
  ASSUME Inv, [Next]_vars, NEW t \in idMap, t \in idMap', Waits(t), ~ Waits(t)'
  PROVE  \E u \in Timers : ClearTimer(u) /\ Behind(u, t)
<1>1. t \in Timers
  BY DEF Inv, Scalars
<1>2. ASSUME UNCHANGED pendingFireTimers, scheduled \subseteq scheduled' PROVE FALSE
  BY <1>2 DEF Waits
<1>3. ASSUME NEW s \in Timers, NEW d \in Delays, SetTimer(s, d) PROVE FALSE
  BY <1>2, <1>3 DEF SetTimer, Schedule
<1>4. ASSUME NEW u \in Timers, ClearTimer(u) PROVE Behind(u, t)
  <2>1. Unschedule(u) /\ idMap' = idMap \ {u} /\ u # t
    BY <1>4 DEF ClearTimer
  <2>2. CASE ~ Contains(pendingFireTimers, u)
    BY <1>2, <2>1, <2>2 DEF Unschedule
  <2>3. CASE Contains(pendingFireTimers, u)
    <3> DEFINE k == IndexOf(pendingFireTimers, u)
    <3>1. /\ pendingFireTimers' = SubSeq(pendingFireTimers, 1, k - 1)
          /\ UNCHANGED scheduled
      BY <2>1, <2>3 DEF Unschedule, FiringWithout
    <3>2. k \in 1 .. Len(pendingFireTimers) /\ pendingFireTimers[k] = u
      BY <2>3, Found
    <3>3. PICK n \in 1 .. Len(pendingFireTimers) : pendingFireTimers[n] = t
      BY <3>1 DEF Waits, Contains
    <3>4. pendingFireTimers \in Seq(Timers) /\ Len(pendingFireTimers) \in Nat
      BY Fires
    <3> HIDE DEF k
    <3>5. ~ (n < k)
      <4> SUFFICES ASSUME n < k PROVE FALSE
        OBVIOUS
      <4>1. n \in 1 .. Len(pendingFireTimers') /\ pendingFireTimers'[n] = t
        BY <3>1, <3>2, <3>3, <3>4
      <4> QED
        BY <4>1 DEF Waits, Contains
    <3>6. n # k
      BY <2>1, <3>2, <3>3
    <3>7. k < n
      BY <3>2, <3>4, <3>5, <3>6
    <3> QED
      BY <3>2, <3>3, <3>7 DEF Behind
  <2> QED
    BY <2>2, <2>3
<1>5. ASSUME Respond PROVE FALSE
  <2>1. PrepareReadyTimers(pendingEvents - 1)
    BY <1>5 DEF Respond
  <2>2. CASE BailOut(pendingEvents - 1)
    BY <1>2, <2>1, <2>2 DEF PrepareReadyTimers, treeVars
  <2>3. CASE ~ BailOut(pendingEvents - 1)
    <3>1. scheduled' = scheduled \ ReadyTimers
      BY <2>1, <2>3 DEF PrepareReadyTimers
    <3>2. PICK ready \in SetToSeqs(ReadyTimers) :
            pendingFireTimers' = pendingFireTimers \o ready
      BY <2>1, <2>3 DEF PrepareReadyTimers
    <3>3. ready \in Seq(Timers) /\ pendingFireTimers \in Seq(Timers)
      BY Fires, ReadyList
    <3>4. t \in ReadyTimers => Contains(ready, t)
      BY ReadyList DEF Contains
    <3> QED
      BY <3>1, <3>2, <3>3, <3>4, JoinedContain DEF Waits
  <2> QED
    BY <2>2, <2>3
<1>6. ASSUME Fire PROVE FALSE
  <2> DEFINE a == pendingFireTimers
             h == Head(a)
  <2>1. a # <<>> /\ pendingFireTimers' = Tail(a)
    BY <1>6 DEF Fire
  <2>2. /\ a \in Seq(Timers) /\ h = a[1]
        /\ \A i \in 1 .. Len(a) :
             i = 1 \/ (i - 1 \in 1 .. Len(Tail(a)) /\ Tail(a)[i - 1] = a[i])
    BY <2>1, Fires, Taken
  <2>3. scheduled \subseteq scheduled' /\ (h \in idMap => h \in scheduled' \/ h \notin idMap')
    BY <1>6 DEF Fire, Schedule, StaysInMap
  <2>4. Contains(a, t) /\ t # h
    BY <2>3 DEF Waits
  <2>5. PICK i \in 1 .. Len(a) : a[i] = t
    BY <2>4 DEF Contains
  <2>6. i - 1 \in 1 .. Len(Tail(a)) /\ Tail(a)[i - 1] = t
    BY <2>2, <2>4, <2>5
  <2>7. Contains(Tail(a), t)
    BY <2>6 DEF Contains
  <2> QED
    BY <2>1, <2>7 DEF Waits
<1>7. CASE StartMacrotasks \/ EndMacrotasks \/ OpCompletes \/ Tick \/ UNCHANGED vars
  BY <1>2, <1>7 DEF StartMacrotasks, EndMacrotasks, OpCompletes, Tick, vars, treeVars
<1> QED
  BY <1>3, <1>4, <1>5, <1>6, <1>7 DEF Next, Loop

\* A timer that exists and waits is lost in one way only: clearTimeout or clearInterval
\* of one that is about to fire before it (pendingFireTimers.splice).
THEOREM OnlyClearingForgets == Spec => [][SplicedAway]_vars
<1>1. Inv /\ [Next]_vars => [SplicedAway]_vars
  BY SplicedAwayStep DEF SplicedAway
<1> QED
  BY <1>1, InvHolds, PTL DEF Spec

\* What the tree's nodes promise.
LEMMA NodesCount ==
  ASSUME Inv, NEW d \in Times
  PROVE  /\ \A t \in ToSet(dueTree[d]) : due[t] = d
         /\ Cardinality(ToSet(dueTree[d])) = Len(dueTree[d])
<1> DEFINE q == dueTree[d]
           n == Len(q)
<1>1. /\ q \in Seq(Timers) /\ n \in Nat
      /\ \A i \in 1 .. n : due[q[i]] = d
      /\ \A i, j \in 1 .. n : q[i] = q[j] => i = j
  BY Nodes
<1> HIDE DEF q
<1>2. ToSet(q) = {q[i] : i \in 1 .. n} /\ q \in [1 .. n -> {q[i] : i \in 1 .. n}]
  BY <1>1 DEF ToSet
<1>3. q \in Bijection(1 .. n, ToSet(q))
  BY <1>1, <1>2 DEF Bijection, Injection, Surjection, IsInjective
<1>4. Cardinality(ToSet(q)) = n
  BY <1>1, <1>3, FS_CountingElements DEF ExistsBijection
<1> QED
  BY <1>1, <1>2, <1>4 DEF q

\* While programs do not clear timers that are about to fire, each timer that exists is
\* in the tree, in the node of its due time, or about to fire.
THEOREM NoneForgotten ==
  ASSUME ~ ClearsFiring PROVE Spec => []NoTimerForgotten
<1>1. ASSUME Inv, Kept, [Next]_vars PROVE Kept'
  <2> SUFFICES ASSUME NEW t \in idMap', ~ Waits(t)' PROVE FALSE
    BY DEF Kept
  <2>1. CASE t \in idMap
    <3>1. PICK u \in Timers : ClearTimer(u) /\ Behind(u, t)
      BY <1>1, <2>1, SplicedAwayStep DEF Kept
    <3> QED
      BY <3>1 DEF ClearTimer, Behind, Contains
  <2>2. CASE t \notin idMap
    <3>1. PICK s \in Timers, d \in Delays : SetTimer(s, d)
      BY <1>1, <2>2 DEF Next, Loop, ClearTimer, Respond, Fire, StartMacrotasks, EndMacrotasks,
                        OpCompletes, Tick, vars, timerVars, StaysInMap
    <3>2. t \in scheduled'
      BY <2>2, <3>1 DEF SetTimer, Schedule
    <3> QED
      BY <3>2 DEF Waits
  <2> QED
    BY <2>1, <2>2
<1>2. ASSUME Inv, Kept PROVE NoTimerForgotten
  <2>1. ASSUME NEW t \in idMap
        PROVE  Contains(dueTree[due[t]], t) \/ Contains(pendingFireTimers, t)
    BY <1>2 DEF Kept, Waits, Inv, Tree
  <2>2. ASSUME NEW d \in Times
        PROVE  /\ \A t \in ToSet(dueTree[d]) : due[t] = d
               /\ Cardinality(ToSet(dueTree[d])) = Len(dueTree[d])
    BY <1>2, NodesCount
  <2> QED
    BY <2>1, <2>2 DEF NoTimerForgotten
<1>3. Init => Kept
  BY InitInv
<1> QED
  BY <1>1, <1>2, <1>3, InvHolds, PTL DEF Spec
=============================================================================
