------------------------------ MODULE RwsServer ------------------------------
(***************************************************************************)
(* How a web request reaches a JavaScript program and its answer comes     *)
(* back: main_handler and the channel of rws/main.rs, and the ops of       *)
(* cli/ops/rws_server.rs with their JavaScript side.  Every thread of the  *)
(* web server has one channel and one program; this module is one thread.  *)
(*                                                                         *)
(* The handlers of a thread share one sender, and its one permit: a        *)
(* handler that finds the channel full leaves its waker there, in place of *)
(* the waker of another handler.                                           *)
(***************************************************************************)
EXTENDS Integers, Sequences, SequencesExt, FiniteSets

CONSTANTS
  Requests,
  Capacity,        \* of the channel, 100 * 1048 in the code
  Disconnects,     \* whether clients go away before they are answered
  Closes           \* whether programs close requests and leave their loop

None == "none"   \* no handler, no resource

ASSUME RwsAssumption ==
  /\ IsFiniteSet(Requests) /\ None \notin Requests
  /\ Capacity \in Nat \ {0}
  /\ {Disconnects, Closes} \subseteq BOOLEAN

VARIABLES
  handler,   \* per request: how far main_handler is
  queue,     \* the requests in the channel
  permit,    \* of the shared sender: "idle", "waiting" or "acquired"
  waker,     \* the handler that is woken when the permit is acquired
  program,   \* "start", "loop", "body", "left", "ended" or "panicked"
  poll,      \* the future of op_rws_server_poll: "none", "woken" or "pending"
  table,     \* the resource table: per resource id what it holds
  held       \* the ids of requests the program was given and did not give back

vars == <<handler, queue, permit, waker, program, poll, table, held>>

\* Every resource gets a new id: the server first, then the requests.
Server == "server"
Rids   == 0 .. Cardinality(Requests)
Free   == [kind |-> "free"]
Gone   == [kind |-> "gone"]
ServerResource == [kind |-> "server"]

RequestResource(r) == [kind |-> "request", of |-> r]

NextRid == CHOOSE i \in Rids : table[i] = Free /\ \A j \in 0 .. i - 1 : table[j] # Free

ServerRid == 0
Pending == {i \in Rids : table[i].kind = "request"}

Init ==
  /\ handler = [r \in Requests |-> "idle"]
  /\ queue = <<>> /\ permit = "idle" /\ waker = None
  /\ program = "start" /\ poll = "none"
  /\ table = [i \in Rids |-> Free] /\ held = {}

-----------------------------------------------------------------------------
(* main_handler                                                            *)

Arrive(r) ==
  /\ handler[r] = "idle" /\ program # "panicked"
  /\ handler' = [handler EXCEPT ![r] = "sending"]
  /\ UNCHANGED <<queue, permit, waker, program, poll, table, held>>

Space == Capacity - Len(queue) - (IF permit = "acquired" THEN 1 ELSE 0)

\* The future of the op is polled again when something arrives.
WakePoll == poll' = IF poll = "pending" THEN "woken" ELSE poll

\* Mutant: a request that arrives does not wake the op.
KeepPoll == poll' = poll

WakeOp == WakePoll

\* Sends the request, or waits for space.
Send(r) ==
  /\ handler[r] = "sending" /\ program # "panicked"
  /\ IF permit = "acquired" \/ (permit = "idle" /\ Space > 0)
       THEN /\ queue' = Append(queue, r)
            /\ permit' = "idle"
            /\ handler' = [handler EXCEPT ![r] = "waiting"]
            /\ WakeOp
            /\ UNCHANGED waker
       ELSE /\ permit' = "waiting" /\ waker' = r
            /\ handler' = [handler EXCEPT ![r] = "parked"]
            /\ UNCHANGED <<queue, poll>>
  /\ UNCHANGED <<program, table, held>>

\* The connection breaks and the handler is dropped where it waits.
Drop(r) ==
  /\ Disconnects /\ program # "panicked"
  /\ handler[r] \in {"sending", "parked", "waiting"}
  /\ handler' = [handler EXCEPT ![r] = "dropped"]
  /\ UNCHANGED <<queue, permit, waker, program, poll, table, held>>

\* The other end of the handlers' oneshot channels is dropped.
Forsaken(rs) == [r \in Requests |->
  IF r \in rs /\ handler[r] = "waiting" THEN "failed" ELSE handler[r]]

-----------------------------------------------------------------------------
(* The program                                                             *)

\* The worker is dropped with its resources, the channel stays.
Ended ==
  /\ program' = "ended"
  /\ handler' = Forsaken({table[i].of : i \in Pending})
  /\ table' = [i \in Rids |-> IF table[i] = Free THEN Free ELSE Gone]
  /\ poll' = "none" /\ held' = {}

\* watchRWS: op_rws_server_start.
Start ==
  /\ program = "start" /\ program' = "loop"
  /\ table' = [table EXCEPT ![NextRid] = ServerResource]
  /\ UNCHANGED <<handler, queue, permit, waker, poll, held>>

\* The next turn of for await (const req of s).
NextRequest ==
  /\ program \in {"loop", "body"} /\ poll = "none"
  /\ program' = "loop" /\ poll' = "woken"
  /\ UNCHANGED <<handler, queue, permit, waker, table, held>>

\* Mutant: the space of the request is not given to the handler that waits.
KeepPermit == UNCHANGED <<permit, handler>>

\* A request left the channel: the shared permit is acquired if it waits.
GiveSpace ==
  IF permit = "waiting"
    THEN /\ permit' = "acquired"
         /\ handler' = [r \in Requests |-> IF r = waker /\ handler[r] = "parked"
                                             THEN "sending" ELSE handler[r]]
    ELSE UNCHANGED <<permit, handler>>

\* Mutant: the request overwrites the newest resource.
LastRid == NextRid - 1

RequestRid == NextRid

\* The future takes a request, which the program gets in the same turn.
Receive ==
  /\ poll = "woken" /\ program = "loop"
  /\ IF queue = <<>>
       THEN poll' = "pending" /\ UNCHANGED <<queue, permit, handler, program, table, held>>
       ELSE /\ queue' = Tail(queue)
            /\ GiveSpace
            /\ table' = [table EXCEPT ![RequestRid] = RequestResource(Head(queue))]
            /\ held' = held \cup {RequestRid}
            /\ program' = "body" /\ poll' = "none"
  /\ UNCHANGED waker

\* sendRWS: the answer goes to the handler, which must still be there.
Respond(i) ==
  /\ program \in {"loop", "body"} /\ i \in held \cap Pending
  /\ table' = [table EXCEPT ![i] = Gone] /\ held' = held \ {i}
  /\ IF handler[table[i].of] = "waiting"
       THEN /\ handler' = [handler EXCEPT ![table[i].of] = "answered"]
            /\ UNCHANGED program
       ELSE program' = "panicked" /\ UNCHANGED handler
  /\ UNCHANGED <<queue, permit, waker, poll>>

\* Deno.close with the id of a request.
Close(i) ==
  /\ Closes /\ program \in {"loop", "body"} /\ i \in held \cap Pending
  /\ table' = [table EXCEPT ![i] = Gone] /\ held' = held \ {i}
  /\ handler' = Forsaken({table[i].of})
  /\ UNCHANGED <<queue, permit, waker, program, poll>>

\* break: the iterator's return closes the server, and the program ends.
Leave ==
  /\ Closes /\ program = "body"
  /\ program' = "left" /\ table' = [table EXCEPT ![ServerRid] = Gone]
  /\ UNCHANGED <<handler, queue, permit, waker, poll, held>>

End == program = "left" /\ Ended /\ UNCHANGED <<queue, permit, waker>>

Next == \/ \E r \in Requests : Arrive(r) \/ Send(r) \/ Drop(r)
        \/ Start \/ NextRequest \/ Receive \/ Leave \/ End
        \/ \E i \in Rids : Respond(i) \/ Close(i)

Spec == Init /\ [][Next]_vars

\* The executor polls what is woken; a program goes on with its loop and
\* answers what it was given.
FairSpec ==
  /\ Spec
  /\ \A r \in Requests : WF_vars(Send(r))
  /\ WF_vars(Start) /\ WF_vars(NextRequest) /\ WF_vars(Receive) /\ WF_vars(End)
  /\ \A i \in Rids : WF_vars(Respond(i))

-----------------------------------------------------------------------------
(* Properties                                                              *)

TypeOK ==
  /\ handler \in [Requests -> {"idle", "sending", "parked", "waiting",
                               "answered", "failed", "dropped"}]
  /\ queue \in Seq(Requests)
  /\ permit \in {"idle", "waiting", "acquired"} /\ waker \in Requests \cup {None}
  /\ program \in {"start", "loop", "body", "left", "ended", "panicked"}
  /\ poll \in {"none", "woken", "pending"}
  /\ table \in [Rids -> {Free, Gone, ServerResource} \cup
                        [kind : {"request"}, of : Requests]]
  /\ held \subseteq Rids

\* A client that waits has its request in exactly one place, the channel or
\* the resource table: main_handler is never left without anyone who could
\* answer or fail it, also when the program has ended (the channel stays).
InOnePlace ==
  \A r \in Requests : handler[r] = "waiting" =>
    Cardinality({n \in 1 .. Len(queue) : queue[n] = r})
      + Cardinality({i \in Pending : table[i].of = r}) = 1

\* The op is not asleep while a request lies in the channel.
PollAwake == poll = "pending" => queue = <<>>

\* No two handlers wait for space: the second would take the waker of the
\* first out of the shared sender.
Uncrowded == Cardinality({r \in Requests : handler[r] = "parked"}) <= 1

\* While the program runs, every request that arrived is answered, failed or
\* dropped by its client, unless two handlers once waited for space.
Served ==
  []Uncrowded =>
    \A r \in Requests :
      handler[r] = "sending" ~> \/ handler[r] \in {"answered", "failed", "dropped"}
                                \/ program \in {"ended", "panicked"}
=============================================================================
