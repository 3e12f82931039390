--------------------------- MODULE RwsServerProofs ---------------------------
(***************************************************************************)
(* One thread of the web server, for every set of requests and every       *)
(* capacity of its channel, whether or not clients disconnect and programs *)
(* close requests and leave.                                               *)
(***************************************************************************)
EXTENDS RwsServer, FiniteSetTheorems, TLAPS

Phases    == {"idle", "sending", "parked", "waiting", "answered", "failed", "dropped"}
Resources == {Free, Gone, ServerResource} \cup [kind : {"request"}, of : Requests]

Places ==
  /\ handler \in [Requests -> Phases]
  /\ permit \in {"idle", "waiting", "acquired"} /\ waker \in Requests \cup {None}
  /\ program \in {"start", "loop", "body", "left", "ended", "panicked"}
  /\ poll \in {"none", "woken", "pending"}
  /\ held \subseteq Rids

\* A request in the channel is there once, and its handler waits or was dropped.
Channel ==
  /\ queue \in Seq(Requests)
  /\ \A m, n \in 1 .. Len(queue) : queue[m] = queue[n] => m = n
  /\ \A n \in 1 .. Len(queue) : handler[queue[n]] \in {"waiting", "dropped"}

\* The same for the requests of the resource table.  A request has left the channel when
\* it is in the table.
Table ==
  /\ table \in [Rids -> Resources]
  /\ \A i, j \in Pending : table[i].of = table[j].of => i = j
  /\ \A i \in Pending : /\ handler[table[i].of] \in {"waiting", "dropped"}
                        /\ \A n \in 1 .. Len(queue) : queue[n] # table[i].of

\* A handler that waits was sent on, and not forgotten.
Placed ==
  \A r \in Requests : handler[r] = "waiting" =>
    \/ \E n \in 1 .. Len(queue) : queue[n] = r
    \/ \E i \in Pending : table[i].of = r

\* The requests that left the channel.
Received ==
  {r \in Requests : /\ handler[r] \notin {"idle", "sending", "parked"}
                    /\ \A n \in 1 .. Len(queue) : queue[n] # r}

\* Ids were given out one after the other: the first to the server, the others to
\* requests that left the channel.
Numbered ==
  \E n \in 0 .. Cardinality(Received) + 1 :
    /\ \A i \in Rids : table[i] # Free <=> i < n
    /\ IF program = "start" THEN n = 0 ELSE n > 0

Inv == Places /\ Channel /\ Table /\ Placed /\ Numbered /\ ServerRid \notin Pending
         /\ PollAwake

-----------------------------------------------------------------------------
(* Lemmas about the channel, the resources and their ids.                  *)

\* A request is put behind the others.
LEMMA Appended ==
  ASSUME NEW S, NEW q \in Seq(S), NEW e \in S
  PROVE  /\ Append(q, e) \in Seq(S)
         /\ Len(q) \in Nat /\ Len(Append(q, e)) = Len(q) + 1
         /\ \A i \in 1 .. Len(q) : Append(q, e)[i] = q[i]
         /\ Append(q, e)[Len(q) + 1] = e
         /\ \A i \in 1 .. Len(Append(q, e)) : i \in 1 .. Len(q) \/ i = Len(q) + 1
         /\ Len(q) + 1 \in 1 .. Len(Append(q, e))
         /\ \A i \in 1 .. Len(q) : i \in 1 .. Len(Append(q, e))
  OBVIOUS

\* The first one is taken.
LEMMA Taken ==
  ASSUME NEW S, NEW q \in Seq(S), q # <<>>
  PROVE  /\ Tail(q) \in Seq(S) /\ Head(q) \in S /\ Head(q) = q[1]
         /\ Len(q) \in Nat \ {0} /\ Len(Tail(q)) = Len(q) - 1 /\ 1 \in 1 .. Len(q)
         /\ \A i \in 1 .. Len(Tail(q)) : i + 1 \in 1 .. Len(q) /\ Tail(q)[i] = q[i + 1]
         /\ \A i \in 1 .. Len(q) :
              i = 1 \/ (i - 1 \in 1 .. Len(Tail(q)) /\ Tail(q)[i - 1] = q[i])
  OBVIOUS

\* What a resource is, and what it is not.
LEMMA Kinds ==
  /\ \A x \in Resources :
       x = Free \/ x = Gone \/ x = ServerResource \/ (x.kind = "request" /\ x.of \in Requests)
  /\ Free.kind = "free" /\ Gone.kind = "gone" /\ ServerResource.kind = "server"
  /\ Gone # Free /\ ServerResource # Free
  /\ Free \in Resources /\ Gone \in Resources /\ ServerResource \in Resources
  /\ \A r \in Requests : /\ RequestResource(r) \in Resources
                         /\ RequestResource(r).kind = "request"
                         /\ RequestResource(r).of = r /\ RequestResource(r) # Free
  BY DEF Resources, Free, Gone, ServerResource, RequestResource

\* Resource ids are numbers, and the server has the first.
LEMMA RidsKnown ==
  /\ Cardinality(Requests) \in Nat /\ ServerRid \in Rids /\ ServerRid = 0
  /\ \A i \in Rids : i \in Nat
  BY RwsAssumption, FS_CardinalityType DEF Rids, ServerRid

\* The number of requests that left the channel.
LEMMA ReceivedFinite ==
  ASSUME NEW R \in SUBSET Requests
  PROVE  IsFiniteSet(R) /\ Cardinality(R) \in Nat /\ Cardinality(R) <= Cardinality(Requests)
  BY RwsAssumption, FS_Subset, FS_CardinalityType

\* More requests have a greater number.
LEMMA MoreReceived ==
  ASSUME NEW R \in SUBSET Requests, NEW T \in SUBSET Requests, R \subseteq T
  PROVE  Cardinality(R) <= Cardinality(T)
  BY ReceivedFinite, FS_Subset

\* When the first n ids are in use and there are more, the n-th is the next.
LEMMA NextIs ==
  ASSUME NEW n \in Rids, \A i \in Rids : table[i] # Free <=> i < n
  PROVE  NextRid = n
<1>1. \A j \in 0 .. n - 1 : j \in Rids
  BY RidsKnown DEF Rids
<1>2. table[n] = Free /\ \A j \in 0 .. n - 1 : table[j] # Free
  BY <1>1, RidsKnown
<1>3. ASSUME NEW i \in Rids, table[i] = Free, \A j \in 0 .. i - 1 : table[j] # Free
      PROVE  i = n
  <2>1. ~ (i < n)
    BY <1>3
  <2>2. CASE n < i
    <3>1. n \in 0 .. i - 1
      BY <2>2, RidsKnown
    <3> QED
      BY <1>2, <1>3, <3>1
  <2> QED
    BY <2>1, <2>2, RidsKnown
<1> QED
  BY <1>2, <1>3 DEF NextRid

\* In the loop of the program an id is left for the next request of the channel.
LEMMA IdLeft ==
  ASSUME Inv, program # "start", queue # <<>>
  PROVE  /\ NextRid \in Rids /\ NextRid > 0 /\ table[NextRid] = Free
         /\ \A i \in Rids : table[i] # Free <=> i < NextRid
         /\ NextRid <= Cardinality(Received) + 1
         /\ Head(queue) \notin Received /\ Received \cup {Head(queue)} \subseteq Requests
<1>1. Head(queue) \in Requests /\ Head(queue) = queue[1] /\ 1 \in 1 .. Len(queue)
  BY Taken DEF Inv, Channel
<1>2. Head(queue) \notin Received /\ Received \cup {Head(queue)} \subseteq Requests
  BY <1>1 DEF Received
<1>3. Received \in SUBSET Requests /\ Received \cup {Head(queue)} \in SUBSET Requests
  BY <1>2
<1>4. Cardinality(Received \cup {Head(queue)}) = Cardinality(Received) + 1
  BY <1>2, <1>3, ReceivedFinite, FS_AddElement
<1>5. Cardinality(Received) + 1 <= Cardinality(Requests) /\ Cardinality(Received) \in Nat
  BY <1>3, <1>4, ReceivedFinite
<1>6. PICK n \in 0 .. Cardinality(Received) + 1 :
        (\A i \in Rids : table[i] # Free <=> i < n) /\ n > 0
  BY DEF Inv, Numbered
<1>7. n \in Rids
  BY <1>5, <1>6, RidsKnown DEF Rids
<1>8. NextRid = n
  BY <1>6, <1>7, NextIs
<1>9. table[n] = Free
  BY <1>6, <1>7, RidsKnown
<1> QED
  BY <1>2, <1>5, <1>6, <1>7, <1>8, <1>9

-----------------------------------------------------------------------------
(* main_handler.                                                           *)

\* The ids stay the same while requests come, go on and are given back.
LEMMA SameNumbers ==
  ASSUME Numbered, Received \subseteq Received', Received' \subseteq Requests,
         \A i \in Rids : table'[i] = Free <=> table[i] = Free,
         program' = "start" <=> program = "start"
  PROVE  Numbered'
<1>1. PICK n \in 0 .. Cardinality(Received) + 1 :
        /\ \A i \in Rids : table[i] # Free <=> i < n
        /\ IF program = "start" THEN n = 0 ELSE n > 0
  BY DEF Numbered
<1>2. Received \in SUBSET Requests /\ Received' \in SUBSET Requests
  OBVIOUS
<1>3. Cardinality(Received) <= Cardinality(Received')
  BY <1>2, MoreReceived
<1>4. Cardinality(Received) \in Nat /\ Cardinality(Received') \in Nat
  BY <1>2, ReceivedFinite
<1>5. n \in 0 .. Cardinality(Received') + 1
  BY <1>3, <1>4
<1>6. /\ \A i \in Rids : table'[i] # Free <=> i < n
      /\ IF program' = "start" THEN n = 0 ELSE n > 0
  BY <1>1
<1> QED
  BY <1>5, <1>6 DEF Numbered

\* A handler that is not waiting has no request under way.
LEMMA NotUnderWay ==
  ASSUME Channel, Table, NEW r \in Requests, handler[r] \notin {"waiting", "dropped"}
  PROVE  /\ \A n \in 1 .. Len(queue) : queue[n] # r
         /\ \A i \in Pending : table[i].of # r
  BY DEF Channel, Table

\* main_handler: a request arrives.
LEMMA ArriveInv == ASSUME Inv, NEW r \in Requests, Arrive(r) PROVE Inv'
<1> USE DEF Inv
<1>1. /\ handler[r] = "idle" /\ handler' = [handler EXCEPT ![r] = "sending"]
      /\ UNCHANGED <<queue, permit, waker, program, poll, table, held>>
  BY DEF Arrive
<1>2. Pending' = Pending
  BY <1>1 DEF Pending
<1>3. /\ \A n \in 1 .. Len(queue) : queue[n] # r
      /\ \A i \in Pending : table[i].of # r
  BY <1>1, NotUnderWay
<1>4. handler' \in [Requests -> Phases] /\ \A x \in Requests : x # r => handler'[x] = handler[x]
  BY <1>1 DEF Places, Phases
<1>5. Places' /\ ServerRid \notin Pending' /\ PollAwake'
  BY <1>1, <1>2, <1>4 DEF Places, PollAwake
<1>6. \A n \in 1 .. Len(queue) : queue[n] \in Requests
  BY DEF Channel
<1>7. \A i \in Pending : table[i].of \in Requests
  BY Kinds DEF Table, Pending
<1>8. Channel'
  BY <1>1, <1>3, <1>4, <1>6 DEF Channel
<1>9. Table'
  BY <1>1, <1>2, <1>3, <1>4, <1>7 DEF Table
<1>10. handler'[r] = "sending"
  BY <1>1 DEF Places
<1>11. Placed'
  BY <1>1, <1>2, <1>4, <1>10 DEF Placed
<1>12. Received' = Received
  BY <1>1, <1>4, <1>10 DEF Received
<1>13. Received \subseteq Requests
  BY DEF Received
<1>14. Numbered'
  BY <1>1, <1>12, <1>13, SameNumbers
<1> QED
  BY <1>5, <1>8, <1>9, <1>11, <1>14

\* main_handler: the request goes into the channel, or its handler waits for space.
LEMMA SendInv == ASSUME Inv, NEW r \in Requests, Send(r) PROVE Inv'
<1> USE DEF Inv
<1>1. handler[r] = "sending" /\ UNCHANGED <<program, table, held>>
  BY DEF Send
<1>2. Pending' = Pending
  BY <1>1 DEF Pending
<1>3. /\ \A n \in 1 .. Len(queue) : queue[n] # r
      /\ \A i \in Pending : table[i].of # r
  BY <1>1, NotUnderWay
<1>4. \A n \in 1 .. Len(queue) : queue[n] \in Requests
  BY DEF Channel
<1>5. \A i \in Pending : table[i].of \in Requests
  BY Kinds DEF Table, Pending
<1>6. Received \subseteq Requests
  BY DEF Received
<1>7. CASE /\ queue' = Append(queue, r) /\ permit' = "idle"
           /\ handler' = [handler EXCEPT ![r] = "waiting"] /\ WakeOp /\ UNCHANGED waker
  <2>1. /\ handler' \in [Requests -> Phases] /\ handler'[r] = "waiting"
        /\ \A x \in Requests : x # r => handler'[x] = handler[x]
    BY <1>7 DEF Places, Phases
  <2>2. poll' \in {"none", "woken"}
    BY <1>7 DEF WakeOp, WakePoll, Places
  <2>3. Places' /\ ServerRid \notin Pending' /\ PollAwake'
    BY <1>1, <1>2, <1>7, <2>1, <2>2 DEF Places, PollAwake
  <2>4. /\ queue' \in Seq(Requests) /\ Len(queue) \in Nat /\ Len(queue') = Len(queue) + 1
        /\ \A n \in 1 .. Len(queue) : n \in 1 .. Len(queue') /\ queue'[n] = queue[n]
        /\ queue'[Len(queue) + 1] = r /\ Len(queue) + 1 \in 1 .. Len(queue')
        /\ \A n \in 1 .. Len(queue') : n \in 1 .. Len(queue) \/ n = Len(queue) + 1
    BY <1>7, Appended DEF Channel
  <2>5. \A m, n \in 1 .. Len(queue') : queue'[m] = queue'[n] => m = n
    BY <1>3, <2>4 DEF Channel
  <2>6. \A n \in 1 .. Len(queue') : handler'[queue'[n]] \in {"waiting", "dropped"}
    BY <1>3, <1>4, <2>1, <2>4 DEF Channel
  <2>7. Channel'
    BY <2>4, <2>5, <2>6 DEF Channel
  <2>8. \A i \in Pending : /\ handler'[table[i].of] \in {"waiting", "dropped"}
                           /\ \A n \in 1 .. Len(queue') : queue'[n] # table[i].of
    BY <1>3, <1>5, <2>1, <2>4 DEF Table
  <2>9. Table'
    BY <1>1, <1>2, <2>8 DEF Table
  <2>10. Placed'
    BY <1>1, <1>2, <2>1, <2>4 DEF Placed
  <2>11. Received' = Received
    BY <1>1, <2>1, <2>4 DEF Received
  <2>12. Numbered'
    BY <1>1, <1>6, <2>11, SameNumbers
  <2> QED
    BY <2>3, <2>7, <2>9, <2>10, <2>12
<1>8. CASE /\ permit' = "waiting" /\ waker' = r
           /\ handler' = [handler EXCEPT ![r] = "parked"] /\ UNCHANGED <<queue, poll>>
  <2>1. /\ handler' \in [Requests -> Phases] /\ handler'[r] = "parked"
        /\ \A x \in Requests : x # r => handler'[x] = handler[x]
    BY <1>8 DEF Places, Phases
  <2>2. Places' /\ ServerRid \notin Pending' /\ PollAwake'
    BY <1>1, <1>2, <1>8, <2>1 DEF Places, PollAwake
  <2>3. Channel'
    BY <1>3, <1>4, <1>8, <2>1 DEF Channel
  <2>4. Table'
    BY <1>1, <1>2, <1>3, <1>5, <1>8, <2>1 DEF Table
  <2>5. Placed'
    BY <1>1, <1>2, <1>8, <2>1 DEF Placed
  <2>6. Received' = Received
    BY <1>1, <1>8, <2>1 DEF Received
  <2>7. Numbered'
    BY <1>1, <1>6, <2>6, SameNumbers
  <2> QED
    BY <2>2, <2>3, <2>4, <2>5, <2>7
<1> QED
  BY <1>7, <1>8 DEF Send

\* A client disconnects.
LEMMA DropInv == ASSUME Inv, NEW r \in Requests, Drop(r) PROVE Inv'
<1> USE DEF Inv
<1>1. /\ handler[r] \in {"sending", "parked", "waiting"}
      /\ handler' = [handler EXCEPT ![r] = "dropped"]
      /\ UNCHANGED <<queue, permit, waker, program, poll, table, held>>
  BY DEF Drop
<1>2. Pending' = Pending
  BY <1>1 DEF Pending
<1>3. /\ handler' \in [Requests -> Phases] /\ handler'[r] = "dropped"
      /\ \A x \in Requests : x # r => handler'[x] = handler[x]
  BY <1>1 DEF Places, Phases
<1>4. Places' /\ ServerRid \notin Pending' /\ PollAwake'
  BY <1>1, <1>2, <1>3 DEF Places, PollAwake
<1>5. \A n \in 1 .. Len(queue) : queue[n] \in Requests
  BY DEF Channel
<1>6. \A i \in Pending : table[i].of \in Requests
  BY Kinds DEF Table, Pending
<1>7. Channel'
  BY <1>1, <1>3, <1>5 DEF Channel
<1>8. Table'
  BY <1>1, <1>2, <1>3, <1>6 DEF Table
<1>9. Placed'
  BY <1>1, <1>2, <1>3 DEF Placed
<1>10. Received \subseteq Received' /\ Received' \subseteq Requests
  BY <1>1, <1>3 DEF Received
<1>11. Numbered'
  BY <1>1, <1>10, SameNumbers
<1> QED
  BY <1>4, <1>7, <1>8, <1>9, <1>11

-----------------------------------------------------------------------------
(* The program.                                                            *)

\* The server is the first resource.
LEMMA StartInv == ASSUME Inv, Start PROVE Inv'
<1> USE DEF Inv
<1>1. /\ program = "start" /\ program' = "loop"
      /\ table' = [table EXCEPT ![NextRid] = ServerResource]
      /\ UNCHANGED <<handler, queue, permit, waker, poll, held>>
  BY DEF Start
<1>2. \A i \in Rids : table[i] # Free <=> i < 0
  BY <1>1 DEF Numbered
<1>3. NextRid = 0 /\ 0 \in Rids
  BY <1>2, NextIs, RidsKnown
<1>4. /\ table' \in [Rids -> Resources] /\ table'[0] = ServerResource
      /\ \A i \in Rids : i # 0 => table'[i] = Free
  BY <1>1, <1>2, <1>3, Kinds, RidsKnown DEF Table
<1>5. Pending' = {} /\ Pending = {}
  BY <1>2, <1>4, Kinds, RidsKnown DEF Pending
<1>6. Places' /\ PollAwake' /\ ServerRid \notin Pending'
  BY <1>1, <1>5 DEF Places, PollAwake
<1>7. Channel' /\ Table' /\ Placed'
  BY <1>1, <1>4, <1>5 DEF Channel, Table, Placed
<1>8. Received' = Received /\ Received \in SUBSET Requests
  BY <1>1 DEF Received
<1>9. 1 \in 0 .. Cardinality(Received') + 1
  BY <1>8, ReceivedFinite
<1>10. \A i \in Rids : table'[i] # Free <=> i < 1
  BY <1>4, Kinds, RidsKnown
<1>11. Numbered'
  BY <1>1, <1>9, <1>10 DEF Numbered
<1> QED
  BY <1>6, <1>7, <1>11

\* The op is called again; nothing else changes.
LEMMA NextRequestInv == ASSUME Inv, NextRequest PROVE Inv'
<1> USE DEF Inv
<1>1. /\ program \in {"loop", "body"} /\ program' = "loop" /\ poll' = "woken"
      /\ UNCHANGED <<handler, queue, permit, waker, table, held>>
  BY DEF NextRequest
<1>2. Pending' = Pending /\ Received' = Received /\ Received \subseteq Requests
  BY <1>1 DEF Pending, Received
<1>3. Places' /\ PollAwake' /\ ServerRid \notin Pending'
  BY <1>1, <1>2 DEF Places, PollAwake
<1>4. Channel' /\ Table' /\ Placed'
  BY <1>1, <1>2 DEF Channel, Table, Placed
<1>5. Numbered'
  BY <1>1, <1>2, SameNumbers
<1> QED
  BY <1>3, <1>4, <1>5

\* A request goes from the channel to an id that was never used.
LEMMA ReceiveInv == ASSUME Inv, Receive PROVE Inv'
<1> USE DEF Inv
<1>1. poll = "woken" /\ program = "loop" /\ UNCHANGED waker
  BY DEF Receive
<1>2. CASE queue = <<>>
  <2>1. poll' = "pending" /\ UNCHANGED <<queue, permit, handler, program, table, held>>
    BY <1>2 DEF Receive
  <2>2. Pending' = Pending /\ Received' = Received /\ Received \subseteq Requests
    BY <2>1 DEF Pending, Received
  <2>3. Places' /\ PollAwake' /\ ServerRid \notin Pending'
    BY <1>1, <1>2, <2>1, <2>2 DEF Places, PollAwake
  <2>4. Channel' /\ Table' /\ Placed'
    BY <2>1, <2>2 DEF Channel, Table, Placed
  <2>5. Numbered'
    BY <1>1, <2>1, <2>2, SameNumbers
  <2> QED
    BY <2>3, <2>4, <2>5
<1>3. CASE queue # <<>>
  <2> DEFINE h == Head(queue)
             i == NextRid
  <2>1. /\ queue' = Tail(queue) /\ GiveSpace
        /\ table' = [table EXCEPT ![i] = RequestResource(h)]
        /\ held' = held \cup {i} /\ program' = "body" /\ poll' = "none"
    BY <1>3 DEF Receive, RequestRid
  <2>2. /\ i \in Rids /\ i > 0 /\ table[i] = Free
        /\ \A k \in Rids : table[k] # Free <=> k < i
        /\ i <= Cardinality(Received) + 1
        /\ h \notin Received /\ Received \cup {h} \subseteq Requests
    BY <1>1, <1>3, IdLeft
  <2>3. /\ queue' \in Seq(Requests) /\ h \in Requests /\ h = queue[1] /\ 1 \in 1 .. Len(queue)
        /\ \A n \in 1 .. Len(queue') : n + 1 \in 1 .. Len(queue) /\ queue'[n] = queue[n + 1]
        /\ \A n \in 1 .. Len(queue) :
             n = 1 \/ (n - 1 \in 1 .. Len(queue') /\ queue'[n - 1] = queue[n])
        /\ Len(queue) \in Nat
    BY <1>3, <2>1, Taken DEF Channel
  <2>4. /\ \A n \in 1 .. Len(queue') : queue'[n] # h
        /\ \A r \in Requests : (\E n \in 1 .. Len(queue') : queue'[n] = r)
                               <=> (\E n \in 1 .. Len(queue) : queue[n] = r) /\ r # h
    <3>1. \A n \in 1 .. Len(queue') : queue'[n] # h
      <4> TAKE n \in 1 .. Len(queue')
      <4>1. n + 1 \in 1 .. Len(queue) /\ queue'[n] = queue[n + 1] /\ n + 1 # 1
        BY <2>3
      <4> QED
        BY <2>3, <4>1 DEF Channel
    <3> QED
      BY <2>3, <3>1, ZenonT(60)
  <2>5. /\ handler' \in [Requests -> Phases] /\ permit' \in {"idle", "waiting", "acquired"}
        /\ \A r \in Requests :
             \/ handler'[r] = handler[r]
             \/ handler[r] = "parked" /\ handler'[r] = "sending"
    BY <2>1 DEF GiveSpace, Places, Phases
  <2>6. handler[h] \in {"waiting", "dropped"}
    BY <2>3 DEF Channel
  <2>7. /\ table' \in [Rids -> Resources] /\ table'[i] = RequestResource(h)
        /\ \A k \in Rids : k # i => table'[k] = table[k]
    BY <2>1, <2>2, <2>3, Kinds DEF Table
  <2> HIDE DEF h, i
  <2>8. Pending' = Pending \cup {i} /\ i \notin Pending
    BY <2>2, <2>3, <2>7, Kinds DEF Pending
  <2>9. \A k \in Pending : table'[k].of = table[k].of /\ table[k].of # h
    BY <2>3, <2>7, <2>8 DEF Table, Pending
  <2>10. table'[i].of = h
    BY <2>3, <2>7, Kinds
  <2>11. \A n \in 1 .. Len(queue) : queue[n] \in Requests
    BY DEF Channel
  <2>12. \A k \in Pending : table[k].of \in Requests
    BY Kinds DEF Table, Pending
  <2>13. Places' /\ PollAwake' /\ ServerRid \notin Pending'
    BY <1>1, <2>1, <2>2, <2>5, <2>8, RidsKnown DEF Places, PollAwake
  <2>14. \A m, n \in 1 .. Len(queue') : queue'[m] = queue'[n] => m = n
    <3> SUFFICES ASSUME NEW m \in 1 .. Len(queue'), NEW n \in 1 .. Len(queue'),
                        queue'[m] = queue'[n]
                 PROVE  m = n
      OBVIOUS
    <3>1. m + 1 \in 1 .. Len(queue) /\ queue'[m] = queue[m + 1]
      BY <2>3
    <3>2. n + 1 \in 1 .. Len(queue) /\ queue'[n] = queue[n + 1]
      BY <2>3
    <3>3. queue[m + 1] = queue[n + 1]
      BY <3>1, <3>2
    <3>4. m + 1 = n + 1
      BY <3>1, <3>2, <3>3 DEF Channel
    <3>5. m \in Int /\ n \in Int
      OBVIOUS
    <3> QED
      BY <3>4, <3>5
  <2>15. Channel'
    <3>1. \A n \in 1 .. Len(queue') : handler'[queue'[n]] \in {"waiting", "dropped"}
      <4> TAKE n \in 1 .. Len(queue')
      <4>1. n + 1 \in 1 .. Len(queue) /\ queue'[n] = queue[n + 1]
        BY <2>3
      <4>2. queue[n + 1] \in Requests /\ handler[queue[n + 1]] \in {"waiting", "dropped"}
        BY <2>11, <4>1 DEF Channel
      <4>3. handler'[queue[n + 1]] \in {"waiting", "dropped"}
        BY <2>5, <4>2
      <4> QED
        BY <4>1, <4>3
    <3>2. queue' \in Seq(Requests)
      BY <2>3
    <3> QED
      BY <2>14, <3>1, <3>2 DEF Channel
  <2>16. \A k \in Pending' :
           /\ handler'[table'[k].of] \in {"waiting", "dropped"}
           /\ \A n \in 1 .. Len(queue') : queue'[n] # table'[k].of
    <3>1. handler'[h] \in {"waiting", "dropped"} /\ \A n \in 1 .. Len(queue') : queue'[n] # h
      BY <2>3, <2>4, <2>5, <2>6
    <3>2. ASSUME NEW k \in Pending
          PROVE  handler'[table[k].of] \in {"waiting", "dropped"}
      BY <2>5, <2>12 DEF Table
    <3>3. ASSUME NEW k \in Pending, NEW n \in 1 .. Len(queue')
          PROVE  queue'[n] # table[k].of
      <4>1. n + 1 \in 1 .. Len(queue) /\ queue'[n] = queue[n + 1]
        BY <2>3
      <4> QED
        BY <4>1 DEF Table
    <3>4. ASSUME NEW k \in Pending
          PROVE  /\ handler'[table'[k].of] \in {"waiting", "dropped"}
                 /\ \A n \in 1 .. Len(queue') : queue'[n] # table'[k].of
      BY <2>9, <3>2, <3>3
    <3>5. /\ handler'[table'[i].of] \in {"waiting", "dropped"}
          /\ \A n \in 1 .. Len(queue') : queue'[n] # table'[i].of
      BY <2>10, <3>1
    <3> QED
      BY <2>8, <3>4, <3>5
  <2>17. \A j, k \in Pending' : table'[j].of = table'[k].of => j = k
    BY <2>8, <2>9, <2>10 DEF Table
  <2>18. Table'
    BY <2>7, <2>16, <2>17 DEF Table
  <2>19. Placed'
    <3> SUFFICES ASSUME NEW r \in Requests, handler'[r] = "waiting"
                 PROVE  \/ \E n \in 1 .. Len(queue') : queue'[n] = r
                        \/ \E k \in Pending' : table'[k].of = r
      BY DEF Placed
    <3>1. handler[r] = "waiting"
      BY <2>5
    <3> QED
      BY <2>4, <2>8, <2>9, <2>10, <3>1 DEF Placed
  <2>20. Received' = Received \cup {h}
    <3>1. \A r \in Requests : handler'[r] \in {"idle", "sending", "parked"}
                              <=> handler[r] \in {"idle", "sending", "parked"}
      BY <2>5
    <3>2. h \in Received'
      BY <2>3, <2>4, <2>6, <3>1 DEF Received
    <3>3. \A r \in Requests : r # h => (r \in Received' <=> r \in Received)
      BY <2>4, <3>1 DEF Received
    <3> QED
      BY <2>2, <3>2, <3>3 DEF Received
  <2>21. Cardinality(Received') = Cardinality(Received) + 1 /\ Cardinality(Received) \in Nat
    <3>1. Received \in SUBSET Requests
      BY <2>2
    <3> QED
      BY <2>2, <2>20, <3>1, ReceivedFinite, FS_AddElement
  <2>22. i + 1 \in 0 .. Cardinality(Received') + 1
    BY <2>2, <2>21, RidsKnown
  <2>23. \A k \in Rids : table'[k] # Free <=> k < i + 1
    <3> TAKE k \in Rids
    <3>1. CASE k = i
      BY <2>3, <2>7, <3>1, Kinds, RidsKnown
    <3>2. CASE k # i
      BY <2>2, <2>7, <3>2, RidsKnown
    <3> QED
      BY <3>1, <3>2
  <2>24. Numbered'
    <3>1. program' # "start" /\ i + 1 > 0
      BY <2>1, <2>2, RidsKnown
    <3> QED
      BY <2>22, <2>23, <3>1 DEF Numbered
  <2> QED
    BY <2>13, <2>15, <2>18, <2>19, <2>24
<1> QED
  BY <1>2, <1>3

\* A request leaves the table, and its handler does not wait any more.
LEMMA ForgetRequest ==
  ASSUME Inv, NEW i \in Pending, table' = [table EXCEPT ![i] = Gone],
         handler' \in [Requests -> Phases], handler'[table[i].of] # "waiting",
         handler'[table[i].of] \in {"answered", "failed", "dropped"},
         \A r \in Requests : r # table[i].of => handler'[r] = handler[r],
         program # "start", program' # "start", UNCHANGED queue
  PROVE  Channel' /\ Table' /\ Placed' /\ Numbered' /\ ServerRid \notin Pending'
<1> USE DEF Inv
<1> DEFINE x == table[i].of
<1>1. i \in Rids /\ x \in Requests /\ table[i] # Free
  BY Kinds DEF Pending, Table
<1>2. /\ table' \in [Rids -> Resources] /\ table'[i] = Gone
      /\ \A k \in Rids : k # i => table'[k] = table[k]
  BY <1>1, Kinds DEF Table
<1>3. Pending' = Pending \ {i}
  BY <1>2, Kinds DEF Pending
<1>4. \A k \in Pending : k # i => table'[k] = table[k] /\ table[k].of # x
  BY <1>2 DEF Table, Pending
<1>5. \A k \in Pending : table[k].of \in Requests
  BY Kinds DEF Table, Pending
<1>6. \A n \in 1 .. Len(queue) : queue[n] \in Requests /\ queue[n] # x
  BY DEF Channel, Table
<1> HIDE DEF x
<1>7. handler'[x] # "waiting" /\ \A r \in Requests : r # x => handler'[r] = handler[r]
  BY DEF x
<1>8. Channel'
  BY <1>6, <1>7 DEF Channel
<1>9. Table'
  BY <1>2, <1>3, <1>4, <1>5, <1>7 DEF Table
<1>10. Placed'
  <2> SUFFICES ASSUME NEW r \in Requests, handler'[r] = "waiting"
               PROVE  \/ \E n \in 1 .. Len(queue') : queue'[n] = r
                      \/ \E k \in Pending' : table'[k].of = r
    BY DEF Placed
  <2>1. r # x /\ handler[r] = "waiting"
    BY <1>7
  <2>2. CASE \E n \in 1 .. Len(queue) : queue[n] = r
    BY <2>2
  <2>3. CASE \E k \in Pending : table[k].of = r
    BY <1>3, <1>4, <2>1, <2>3 DEF x
  <2> QED
    BY <2>1, <2>2, <2>3 DEF Placed
<1>11. Received \subseteq Received' /\ Received' \subseteq Requests
  BY <1>7 DEF Received, x
<1>12. Numbered'
  BY <1>1, <1>2, <1>11, Kinds, SameNumbers
<1> QED
  BY <1>3, <1>8, <1>9, <1>10, <1>12

\* op_rws_server_respond: the resource is taken out and the handler answered.
LEMMA RespondInv == ASSUME Inv, NEW i \in Rids, Respond(i) PROVE Inv'
<1> USE DEF Inv
<1>1. /\ program \in {"loop", "body"} /\ i \in Pending
      /\ table' = [table EXCEPT ![i] = Gone] /\ held' = held \ {i}
      /\ UNCHANGED <<queue, permit, waker, poll>>
      /\ IF handler[table[i].of] = "waiting"
           THEN /\ handler' = [handler EXCEPT ![table[i].of] = "answered"]
                /\ UNCHANGED program
           ELSE program' = "panicked" /\ UNCHANGED handler
  BY DEF Respond
<1>2. table[i].of \in Requests /\ handler[table[i].of] \in {"waiting", "dropped"}
  BY <1>1, Kinds DEF Table, Pending
<1>3. /\ handler' \in [Requests -> Phases] /\ handler'[table[i].of] \in {"answered", "dropped"}
      /\ \A r \in Requests : r # table[i].of => handler'[r] = handler[r]
      /\ program' \in {"loop", "body", "panicked"}
  BY <1>1, <1>2 DEF Places, Phases
<1>4. Places' /\ PollAwake'
  BY <1>1, <1>3 DEF Places, PollAwake
<1>5. Channel' /\ Table' /\ Placed' /\ Numbered' /\ ServerRid \notin Pending'
  BY <1>1, <1>3, ForgetRequest
<1> QED
  BY <1>4, <1>5

\* op_close: the resource is dropped without an answer.
LEMMA CloseInv == ASSUME Inv, NEW i \in Rids, Close(i) PROVE Inv'
<1> USE DEF Inv
<1>1. /\ program \in {"loop", "body"} /\ i \in Pending
      /\ table' = [table EXCEPT ![i] = Gone] /\ held' = held \ {i}
      /\ handler' = Forsaken({table[i].of})
      /\ UNCHANGED <<queue, permit, waker, program, poll>>
  BY DEF Close
<1>2. table[i].of \in Requests /\ handler[table[i].of] \in {"waiting", "dropped"}
  BY <1>1, Kinds DEF Table, Pending
<1>3. /\ handler' \in [Requests -> Phases] /\ handler'[table[i].of] \in {"failed", "dropped"}
      /\ \A r \in Requests : r # table[i].of => handler'[r] = handler[r]
  BY <1>1, <1>2 DEF Places, Phases, Forsaken
<1>4. Places' /\ PollAwake'
  BY <1>1, <1>3 DEF Places, PollAwake
<1>5. Channel' /\ Table' /\ Placed' /\ Numbered' /\ ServerRid \notin Pending'
  BY <1>1, <1>3, ForgetRequest
<1> QED
  BY <1>4, <1>5

\* The program leaves its loop and closes the server.
LEMMA LeaveInv == ASSUME Inv, Leave PROVE Inv'
<1> USE DEF Inv
<1>1. /\ program = "body" /\ program' = "left"
      /\ table' = [table EXCEPT ![ServerRid] = Gone]
      /\ UNCHANGED <<handler, queue, permit, waker, poll, held>>
  BY DEF Leave
<1>2. table[ServerRid] # Free
  BY <1>1, RidsKnown DEF Numbered
<1>3. /\ table' \in [Rids -> Resources] /\ table'[ServerRid] = Gone
      /\ \A k \in Rids : k # ServerRid => table'[k] = table[k]
  BY <1>1, Kinds, RidsKnown DEF Table
<1>4. Pending' = Pending /\ \A k \in Pending : table'[k] = table[k]
  BY <1>3, Kinds DEF Pending
<1>5. Places' /\ PollAwake' /\ ServerRid \notin Pending'
  BY <1>1, <1>4 DEF Places, PollAwake
<1>6. Channel' /\ Table' /\ Placed'
  BY <1>1, <1>3, <1>4 DEF Channel, Table, Placed
<1>7. Received' = Received /\ Received \subseteq Requests
  BY <1>1 DEF Received
<1>8. Numbered'
  BY <1>1, <1>2, <1>3, <1>7, Kinds, SameNumbers
<1> QED
  BY <1>5, <1>6, <1>8

\* The worker is dropped with its table; the handlers of the requests in it are told.
LEMMA EndInv == ASSUME Inv, End PROVE Inv'
<1> USE DEF Inv
<1> DEFINE rs == {table[i].of : i \in Pending}
<1>1. /\ program = "left" /\ program' = "ended" /\ handler' = Forsaken(rs)
      /\ table' = [i \in Rids |-> IF table[i] = Free THEN Free ELSE Gone]
      /\ poll' = "none" /\ held' = {} /\ UNCHANGED <<queue, permit, waker>>
  BY DEF End, Ended
<1>2. table' \in [Rids -> Resources] /\ \A i \in Rids : table'[i].kind # "request"
  BY <1>1, Kinds
<1>3. Pending' = {}
  BY <1>2 DEF Pending
<1>4. \A n \in 1 .. Len(queue) : queue[n] \in Requests /\ queue[n] \notin rs
  BY DEF Channel, Table
<1>5. /\ handler' \in [Requests -> Phases]
      /\ \A r \in Requests : r \notin rs => handler'[r] = handler[r]
      /\ \A r \in rs \cap Requests : handler[r] = "waiting" => handler'[r] = "failed"
      /\ \A r \in Requests : handler'[r] = handler[r] \/ handler'[r] = "failed"
  BY <1>1 DEF Places, Phases, Forsaken
<1>6. \A i \in Pending : table[i].of \in rs
  OBVIOUS
<1> HIDE DEF rs
<1>7. Places' /\ PollAwake' /\ ServerRid \notin Pending'
  BY <1>1, <1>3, <1>5 DEF Places, PollAwake
<1>8. Channel'
  BY <1>1, <1>4, <1>5 DEF Channel
<1>9. Table'
  BY <1>2, <1>3 DEF Table
<1>10. Placed'
  <2> SUFFICES ASSUME NEW r \in Requests, handler'[r] = "waiting"
               PROVE  \E n \in 1 .. Len(queue') : queue'[n] = r
    BY DEF Placed
  <2>1. handler[r] = "waiting" /\ r \notin rs
    BY <1>5
  <2> QED
    BY <1>1, <1>6, <2>1 DEF Placed
<1>11. Received \subseteq Received' /\ Received' \subseteq Requests
  BY <1>1, <1>5 DEF Received
<1>12. Numbered'
  BY <1>1, <1>11, Kinds, SameNumbers
<1> QED
  BY <1>7, <1>8, <1>9, <1>10, <1>12
-----------------------------------------------------------------------------
(* The invariant and what follows from it.                                 *)

\* Nothing has arrived and nothing is numbered.
LEMMA InitInv == Init => Inv
<1> SUFFICES ASSUME Init PROVE Inv
  OBVIOUS
<1> USE DEF Init
<1>1. Pending = {} /\ ServerRid \notin Pending
  BY Kinds DEF Pending
<1>2. Places /\ PollAwake
  BY DEF Places, Phases, PollAwake
<1>3. Channel /\ Table /\ Placed
  BY <1>1, Kinds DEF Channel, Table, Placed
<1>4. Received \in SUBSET Requests
  BY DEF Received
<1>5. 0 \in 0 .. Cardinality(Received) + 1
  BY <1>4, ReceivedFinite
<1>6. \A i \in Rids : table[i] # Free <=> i < 0
  BY RidsKnown DEF Rids
<1>7. Numbered
  BY <1>5, <1>6 DEF Numbered
<1> QED
  BY <1>1, <1>2, <1>3, <1>7 DEF Inv

\* A step that changes nothing.
LEMMA StutterInv == ASSUME Inv, UNCHANGED vars PROVE Inv'
<1> USE DEF Inv, vars
<1>1. Pending' = Pending /\ Received' = Received
  BY DEF Pending, Received
<1>2. Places' /\ PollAwake' /\ ServerRid \notin Pending'
  BY <1>1 DEF Places, PollAwake
<1>3. Channel' /\ Table' /\ Placed'
  BY <1>1 DEF Channel, Table, Placed
<1>4. Received \subseteq Received' /\ Received' \subseteq Requests
  BY <1>1 DEF Received
<1>5. Numbered'
  BY <1>4, SameNumbers
<1> QED
  BY <1>2, <1>3, <1>5

\* Every step of the handlers and of the program keeps the invariant.
LEMMA StepInv == Inv /\ [Next]_vars => Inv'
<1> SUFFICES ASSUME Inv, [Next]_vars PROVE Inv'
  OBVIOUS
<1>1. ASSUME NEW r \in Requests, Arrive(r) \/ Send(r) \/ Drop(r) PROVE Inv'
  BY <1>1, ArriveInv, SendInv, DropInv
<1>2. CASE Start \/ NextRequest \/ Receive \/ Leave \/ End
  BY <1>2, StartInv, NextRequestInv, ReceiveInv, LeaveInv, EndInv
<1>3. ASSUME NEW i \in Rids, Respond(i) \/ Close(i) PROVE Inv'
  BY <1>3, RespondInv, CloseInv
<1>4. CASE UNCHANGED vars
  BY <1>4, StutterInv
<1> QED
  BY <1>1, <1>2, <1>3, <1>4 DEF Next

\* The invariant holds in every state of every behavior.
LEMMA InvHolds == Spec => []Inv
  BY InitInv, StepInv, PTL DEF Spec

\* The state of rws/main.rs and of the server's ops keeps its types: above all
\* NextRid is an id of the table whenever a resource is added.
THEOREM TypeCorrect == Spec => []TypeOK
<1>1. Inv => TypeOK
  BY DEF Inv, Places, Phases, Channel, Table, Resources, TypeOK
<1> QED
  BY <1>1, InvHolds, PTL

\* main_handler is never left waiting without anyone who could answer or fail
\* it: its request is in the channel or in the resource table, and only once.
THEOREM WaitsInOnePlace == Spec => []InOnePlace
<1>1. ASSUME Inv PROVE InOnePlace
  <2> SUFFICES ASSUME NEW r \in Requests, handler[r] = "waiting"
               PROVE  Cardinality({n \in 1 .. Len(queue) : queue[n] = r})
                        + Cardinality({i \in Pending : table[i].of = r}) = 1
    BY DEF InOnePlace
  <2> DEFINE N == {n \in 1 .. Len(queue) : queue[n] = r}
             P == {i \in Pending : table[i].of = r}
  <2>1. CASE \E n \in 1 .. Len(queue) : queue[n] = r
    <3>1. PICK n \in 1 .. Len(queue) : queue[n] = r
      BY <2>1
    <3>2. N = {n}
      BY <1>1, <3>1 DEF Inv, Channel
    <3>3. P = {}
      BY <1>1, <3>1 DEF Inv, Table
    <3>4. Cardinality(N) = 1 /\ Cardinality(P) = 0
      <4> HIDE DEF N, P
      <4> QED
        BY <3>2, <3>3, FS_Singleton, FS_EmptySet
    <3> QED
      BY <3>4
  <2>2. CASE \A n \in 1 .. Len(queue) : queue[n] # r
    <3>1. PICK i \in Pending : table[i].of = r
      BY <1>1, <2>2 DEF Inv, Placed
    <3>2. P = {i}
      BY <1>1, <3>1 DEF Inv, Table
    <3>3. N = {}
      BY <2>2
    <3>4. Cardinality(N) = 0 /\ Cardinality(P) = 1
      <4> HIDE DEF N, P
      <4> QED
        BY <3>2, <3>3, FS_Singleton, FS_EmptySet
    <3> QED
      BY <3>4
  <2> QED
    BY <2>1, <2>2
<1> QED
  BY <1>1, InvHolds, PTL

\* The wakeup of op_rws_server_poll is not lost: the op sleeps only while the
\* channel is empty.
THEOREM PollIsAwake == Spec => []PollAwake
<1>1. Inv => PollAwake
  BY DEF Inv
<1> QED
  BY <1>1, InvHolds, PTL

\* A resource is never replaced: an id that was given out holds what it was
\* given to until that is closed, and is not given out again.
IdsAreFresh ==
  \A i \in Rids : table[i] # Free => table'[i] \in {table[i], Gone}

\* The answer of a program can never go to the client of a later request, since
\* the id it was given is used for no other resource.
THEOREM IdsStayFresh == Spec => [][IdsAreFresh]_vars
<1>1. ASSUME Inv, [Next]_vars PROVE [IdsAreFresh]_vars
  <2>1. table \in [Rids -> Resources]
    BY <1>1 DEF Inv, Table
  <2>2. CASE UNCHANGED table
    BY <2>1, <2>2 DEF IdsAreFresh
  <2>3. CASE Start
    <3>1. NextRid = 0 /\ table[0] = Free
      <4>1. \A i \in Rids : table[i] # Free <=> i < 0
        BY <1>1, <2>3 DEF Inv, Numbered, Start
      <4> QED
        BY <4>1, NextIs, RidsKnown
    <3> QED
      BY <2>1, <2>3, <3>1 DEF Start, IdsAreFresh
  <2>4. CASE Receive /\ queue # <<>>
    <3>1. table[NextRid] = Free
      BY <1>1, <2>4, IdLeft DEF Receive
    <3>2. table' = [table EXCEPT ![NextRid] = RequestResource(Head(queue))]
      BY <2>4 DEF Receive, RequestRid
    <3> QED
      BY <2>1, <3>1, <3>2 DEF IdsAreFresh
  <2>5. ASSUME NEW i \in Rids, Respond(i) \/ Close(i) PROVE IdsAreFresh
    BY <2>1, <2>5 DEF Respond, Close, IdsAreFresh
  <2>6. CASE Leave
    BY <2>1, <2>6 DEF Leave, IdsAreFresh
  <2>7. CASE End
    BY <2>1, <2>7 DEF End, Ended, IdsAreFresh
  <2>8. ASSUME NEW r \in Requests, Arrive(r) \/ Send(r) \/ Drop(r) PROVE UNCHANGED table
    BY <2>8 DEF Arrive, Send, Drop
  <2>9. CASE NextRequest \/ (Receive /\ queue = <<>>)
    BY <2>2, <2>9 DEF NextRequest, Receive
  <2> QED
    BY <1>1, <2>2, <2>3, <2>4, <2>5, <2>6, <2>7, <2>8, <2>9 DEF Next, vars
<1> QED
  BY <1>1, InvHolds, PTL DEF Spec

\* The channel keeps its bound, with the place that is reserved for the handler
\* that acquired the permit, and that place is awaited only while it is full.
Bounded ==
  /\ Len(queue) + (IF permit = "acquired" THEN 1 ELSE 0) <= Capacity
  /\ permit = "waiting" => Len(queue) = Capacity

\* Sending through a permit keeps the capacity the channel was created with, and
\* space that is given back goes to the handlers that wait before any other.
THEOREM ChannelIsBounded == Spec => []Bounded
<1>1. Init => Bounded
  BY RwsAssumption DEF Init, Bounded
<1>2. ASSUME Inv, Bounded, [Next]_vars PROVE Bounded'
  <2>1. queue \in Seq(Requests) /\ Len(queue) \in Nat /\ Capacity \in Nat
    BY <1>2, RwsAssumption DEF Inv, Channel
  <2>2. ASSUME NEW r \in Requests, Send(r) PROVE Bounded'
    <3>1. CASE queue' = Append(queue, r) /\ permit' = "idle"
               /\ (permit = "acquired" \/ (permit = "idle" /\ Space > 0))
      <4>1. Len(queue') = Len(queue) + 1
        BY <2>1, <3>1, Appended
      <4> QED
        BY <1>2, <2>1, <3>1, <4>1 DEF Bounded, Space
    <3>2. CASE permit' = "waiting" /\ UNCHANGED queue /\ permit # "acquired"
               /\ ~ (permit = "idle" /\ Space > 0)
      <4>1. permit \in {"idle", "waiting"}
        BY <1>2, <3>2 DEF Inv, Places
      <4> QED
        BY <1>2, <2>1, <3>2, <4>1 DEF Bounded, Space
    <3> QED
      BY <2>2, <3>1, <3>2 DEF Send
  <2>3. CASE Receive
    <3>1. CASE queue = <<>>
      BY <1>2, <2>3, <3>1 DEF Receive, Bounded
    <3>2. CASE queue # <<>>
      <4>1. queue' = Tail(queue) /\ GiveSpace
        BY <2>3, <3>2 DEF Receive
      <4>2. Len(queue') = Len(queue) - 1
        BY <2>1, <3>2, <4>1, Taken
      <4>3. permit' = IF permit = "waiting" THEN "acquired" ELSE permit
        BY <4>1 DEF GiveSpace
      <4> QED
        BY <1>2, <2>1, <4>2, <4>3 DEF Bounded
    <3> QED
      BY <3>1, <3>2
  <2>4. CASE UNCHANGED <<queue, permit>>
    BY <1>2, <2>4 DEF Bounded
  <2>5. ASSUME NEW r \in Requests, Arrive(r) \/ Drop(r) PROVE Bounded'
    BY <2>4, <2>5 DEF Arrive, Drop
  <2>6. ASSUME NEW i \in Rids, Respond(i) \/ Close(i) PROVE Bounded'
    BY <2>4, <2>6 DEF Respond, Close
  <2>7. CASE Start \/ NextRequest \/ Leave \/ End \/ UNCHANGED vars
    BY <2>4, <2>7 DEF Start, NextRequest, Leave, End, vars
  <2> QED
    BY <1>2, <2>2, <2>3, <2>5, <2>6, <2>7 DEF Next
<1> QED
  BY <1>1, <1>2, InvHolds, PTL DEF Spec
=============================================================================
