-------------------------------- MODULE Timers --------------------------------
(***************************************************************************)
(* setTimeout, setInterval and their clearing: cli/js/web/timers.ts, on    *)
(* top of the one timer per isolate of cli/ops/timers.rs and               *)
(* cli/global_timer.rs.                                                    *)
(*                                                                         *)
(* JavaScript keeps the timers in a tree ordered by due time, and one op   *)
(* waits in Rust for the first of them.  When the op is answered, the      *)
(* timers that are due move to pendingFireTimers, from where the macrotask *)
(* callback of the event loop fires them one by one.                       *)
(***************************************************************************)
EXTENDS Integers, Sequences, SequencesExt, FiniteSets, FiniteSetsExt

CONSTANTS
  Timers,        \* timer ids, each is handed out once
  Intervals,     \* the ones made by setInterval
  Delays,        \* the delays programs ask for
  TimeoutMax,    \* TIMEOUT_MAX, 2^31 - 1 in the code
  MaxTime,       \* bound of the clock
  ClearsFiring   \* whether programs clear timers that are about to fire

ASSUME TimersAssumption ==
  /\ IsFiniteSet(Timers) /\ Intervals \subseteq Timers
  /\ Delays \subseteq Int /\ TimeoutMax \in Nat /\ MaxTime \in Nat
  /\ ClearsFiring \in BOOLEAN

VARIABLES
  now,               \* Date.now()
  idMap,             \* the timers that exist
  due, delay,        \* per timer: when it is due, its delay
  dueTree,           \* per due time, the timers of its node, none without a node
  scheduled,         \* the timers whose scheduled flag is set
  pendingFireTimers,
  globalTimeoutDue,  \* what the global timer waits for, or Never
  pendingEvents,     \* calls of setGlobalTimeout that wait for their op
  ticking,           \* the op of the last call has not completed
  phase,             \* of the event loop: "responses" or "macrotasks"
  unused,            \* ids not handed out yet
  rejected           \* an assertion failed in setGlobalTimeout

timerVars == <<idMap, due, delay>>
treeVars  == <<dueTree, scheduled, pendingFireTimers>>
alarmVars == <<globalTimeoutDue, pendingEvents, ticking, rejected>>
vars == <<now, timerVars, treeVars, alarmVars, phase, unused>>

Never == -1

MaxDelay == Max({d \in Delays : d <= TimeoutMax} \cup {TimeoutMax, 1})
Times == 0 .. MaxTime + MaxDelay

Init ==
  /\ now = 0
  /\ idMap = {}
  /\ due = [t \in Timers |-> 0] /\ delay = [t \in Timers |-> 0]
  /\ dueTree = [d \in Times |-> <<>>] /\ scheduled = {} /\ pendingFireTimers = <<>>
  /\ globalTimeoutDue = Never /\ pendingEvents = 0 /\ ticking = FALSE
  /\ rejected = FALSE
  /\ phase = "responses" /\ unused = Timers

-----------------------------------------------------------------------------
\* dueTree.min(), as the due time of its node.
First(tree) ==
  LET nodes == {d \in Times : tree[d] # <<>>}
  IN IF nodes = {} THEN Never ELSE Min(nodes)

\* The global timer: at most one op runs, starting or stopping it completes the one
\* that runs (GlobalTimer).
SetGlobalTimeout(d) ==
  IF d < now
  THEN rejected' = TRUE /\ UNCHANGED <<globalTimeoutDue, pendingEvents, ticking>>
  ELSE /\ globalTimeoutDue' = d
       /\ pendingEvents' = pendingEvents + 1
       /\ ticking' = TRUE
       /\ UNCHANGED rejected

ClearGlobalTimeout ==
  /\ globalTimeoutDue' = Never
  /\ ticking' = FALSE
  /\ UNCHANGED <<pendingEvents, rejected>>

SetOrClear(d) == IF d = Never THEN ClearGlobalTimeout ELSE SetGlobalTimeout(d)

\* A timer due at d comes before the one the global timer waits for.
ComesFirst(d) == globalTimeoutDue = Never \/ globalTimeoutDue > d

\* schedule(timer)
Schedule(t, d) ==
  /\ dueTree' = [dueTree EXCEPT ![d] = Append(@, t)]
  /\ scheduled' = scheduled \cup {t}
  /\ IF ComesFirst(d) THEN SetOrClear(d) ELSE UNCHANGED alarmVars

\* Delays are turned into 32-bit integers, and larger ones than TIMEOUT_MAX into 1.
ToInt32(d) == ((d + TimeoutMax + 1) % (2 * (TimeoutMax + 1))) - (TimeoutMax + 1)

\* Mutant: negative delays are kept.
ClampSigned(d) == ToInt32(IF d > TimeoutMax THEN 1 ELSE d)

Clamp(d) == Max({0, ToInt32(IF d > TimeoutMax THEN 1 ELSE d)})

\* setTimer
SetTimer(t, d) ==
  /\ t \in unused
  /\ now + Clamp(d) <= MaxTime
  /\ unused' = unused \ {t}
  /\ idMap' = idMap \cup {t}
  /\ delay' = [delay EXCEPT ![t] = Clamp(d)]
  /\ due' = [due EXCEPT ![t] = now + Clamp(d)]
  /\ Schedule(t, now + Clamp(d))
  /\ UNCHANGED <<now, pendingFireTimers, phase>>

-----------------------------------------------------------------------------
\* Mutants: the global timer is stopped with the timer it waited for; the wrong timer
\* of a list is dropped.
StopAlarm(t, tree) ==
  IF due[t] = globalTimeoutDue THEN ClearGlobalTimeout ELSE UNCHANGED alarmVars
DropFirst(list, t) == Tail(list)

\* The timer was the next one: the global timer waits for the one after it.
UpdateAlarm(t, tree) ==
  IF due[t] = globalTimeoutDue THEN SetOrClear(First(tree)) ELSE UNCHANGED alarmVars

IndexOf(list, t) == CHOOSE i \in 1 .. Len(list) : list[i] = t

Drop(list, t) == RemoveAt(list, IndexOf(list, t))

\* pendingFireTimers.splice(index) drops every timer from index on.
FiringWithout(t) == SubSeq(pendingFireTimers, 1, IndexOf(pendingFireTimers, t) - 1)

\* unschedule(timer)
Unschedule(t) ==
  IF Contains(pendingFireTimers, t)
  THEN /\ pendingFireTimers' = FiringWithout(t)
       /\ UNCHANGED <<dueTree, scheduled, alarmVars>>
  ELSE /\ UNCHANGED <<pendingFireTimers, scheduled>>
       /\ IF t \notin scheduled THEN UNCHANGED <<dueTree, alarmVars>>
          ELSE /\ dueTree' = [dueTree EXCEPT ![due[t]] = Drop(@, t)]
               /\ IF Len(dueTree[due[t]]) = 1 THEN UpdateAlarm(t, dueTree')
                                              ELSE UNCHANGED alarmVars

\* clearTimer
ClearTimer(t) ==
  /\ t \in idMap
  /\ ClearsFiring \/ ~ Contains(pendingFireTimers, t)
  /\ Unschedule(t)
  /\ idMap' = idMap \ {t}
  /\ UNCHANGED <<now, due, delay, phase, unused>>

-----------------------------------------------------------------------------
\* Nobody waits for the global timer, or a later op will be answered.
BailOut(events) == globalTimeoutDue = Never \/ events > 0

\* Mutant: the op is trusted to be on time.
DueByAlarm == {d \in Times : d <= globalTimeoutDue /\ dueTree[d] # <<>>}

DueNow == {d \in Times : d <= now /\ dueTree[d] # <<>>}

ReadyTimers == UNION {ToSet(dueTree[d]) : d \in DueNow}

\* The timers of one node after the other, in the order of their due times.
NodeByNode(list) ==
  /\ \A i, j \in 1 .. Len(list) : i < j => due[list[i]] <= due[list[j]]
  /\ \A d \in DueNow : \E i \in 0 .. Len(list) - Len(dueTree[d]) :
       SubSeq(list, i + 1, i + Len(dueTree[d])) = dueTree[d]

\* prepareReadyTimers: the nodes that are due leave the tree in order.
PrepareReadyTimers(events) ==
  IF BailOut(events)
  THEN /\ pendingEvents' = events
       /\ UNCHANGED <<treeVars, globalTimeoutDue, ticking, rejected>>
  ELSE LET next == First(dueTree')
       IN /\ dueTree' = [d \in Times |-> IF d \in DueNow THEN <<>> ELSE dueTree[d]]
          /\ scheduled' = scheduled \ ReadyTimers
          /\ \E ready \in SetToSeqs(ReadyTimers) :
               NodeByNode(ready) /\ pendingFireTimers' = pendingFireTimers \o ready
          /\ globalTimeoutDue' = next
          /\ ticking' = (next # Never)
          /\ pendingEvents' = IF next = Never THEN events ELSE events + 1
          /\ UNCHANGED rejected

\* The op has waited long enough by Rust's clock, which JavaScript's need not agree with.
OpCompletes ==
  /\ ticking
  /\ ticking' = FALSE
  /\ UNCHANGED <<now, timerVars, treeVars, globalTimeoutDue, pendingEvents, rejected,
                 phase, unused>>

\* An op that has completed is answered, and setGlobalTimeout goes on.
Respond ==
  /\ phase = "responses"
  /\ pendingEvents > (IF ticking THEN 1 ELSE 0)
  /\ PrepareReadyTimers(pendingEvents - 1)
  /\ UNCHANGED <<now, timerVars, phase, unused>>

\* drain_macrotasks calls handleTimerMacrotask until pendingFireTimers is empty.
StartMacrotasks ==
  /\ phase = "responses" /\ pendingFireTimers # <<>>
  /\ phase' = "macrotasks"
  /\ UNCHANGED <<now, timerVars, treeVars, alarmVars, unused>>

EndMacrotasks ==
  /\ phase = "macrotasks" /\ pendingFireTimers = <<>>
  /\ phase' = "responses"
  /\ UNCHANGED <<now, timerVars, treeVars, alarmVars, unused>>

\* The next time of an interval, never in the past.
NextDue(t) == Max({now, due[t] + delay[t]})

StaysInMap(t) == t \in Intervals

\* fire(timer); its callback may set and clear timers afterwards.
Fire ==
  /\ phase = "macrotasks" /\ pendingFireTimers # <<>>
  /\ pendingFireTimers' = Tail(pendingFireTimers)
  /\ LET t == Head(pendingFireTimers)
     IN IF t \notin idMap
        THEN UNCHANGED <<idMap, due, dueTree, scheduled, alarmVars>>
        ELSE /\ idMap' = IF StaysInMap(t) THEN idMap ELSE idMap \ {t}
             /\ IF t \in Intervals
                THEN /\ due' = [due EXCEPT ![t] = NextDue(t)]
                     /\ Schedule(t, NextDue(t))
                ELSE UNCHANGED <<due, dueTree, scheduled, alarmVars>>
  /\ UNCHANGED <<now, delay, phase, unused>>

Tick ==
  /\ now < MaxTime
  /\ now' = now + 1
  /\ UNCHANGED <<timerVars, treeVars, alarmVars, phase, unused>>

-----------------------------------------------------------------------------
Loop == Respond \/ StartMacrotasks \/ EndMacrotasks \/ Fire

\* A rejected promise ends the isolate.
Next ==
  /\ ~ rejected
  /\ \/ \E t \in Timers, d \in Delays : SetTimer(t, d)
     \/ \E t \in Timers : ClearTimer(t)
     \/ Loop \/ OpCompletes \/ Tick

Spec == Init /\ [][Next]_vars

\* Rust's timer completes and the event loop runs: every poll ends its responses and
\* drains the macrotasks.  Time passes.
FairSpec ==
  /\ Spec
  /\ WF_vars(~ rejected /\ Tick)
  /\ WF_vars(~ rejected /\ OpCompletes)
  /\ WF_vars(~ rejected /\ Loop)
  /\ WF_vars(~ rejected /\ StartMacrotasks)

-----------------------------------------------------------------------------
\* The types of the variables.
TypeOK ==
  /\ now \in 0 .. MaxTime /\ idMap \subseteq Timers \ unused
  /\ due \in [Timers -> Times] /\ delay \in [Timers -> 0 .. TimeoutMax]
  /\ dueTree \in [Times -> Seq(scheduled)]
  /\ pendingFireTimers \in Seq(Timers)
  /\ globalTimeoutDue \in Times \cup {Never} /\ pendingEvents \in Nat
  /\ ticking \in BOOLEAN /\ rejected \in BOOLEAN
  /\ phase \in {"responses", "macrotasks"}

\* A timer that exists is in the tree or about to fire: none is forgotten.  As the
\* assertions of the code say, a node of the tree holds timers of its due time, each
\* once.
NoTimerForgotten ==
  /\ \A t \in idMap : \/ Contains(dueTree[due[t]], t)
                      \/ Contains(pendingFireTimers, t)
  /\ \A d \in Times :
       /\ \A t \in ToSet(dueTree[d]) : due[t] = d
       /\ Cardinality(ToSet(dueTree[d])) = Len(dueTree[d])

\* The global timer waits for the first timer of the tree, and its op is on the way:
\* it ticks, or an answer is still to come that looks at the tree again.
AlarmIsFirst ==
  rejected \/
  /\ globalTimeoutDue = First(dueTree)
  /\ First(dueTree) # Never => pendingEvents > 0

\* Timers fire in the order of their due times, and none before its time.
FireInOrder ==
  \A i, j \in 1 .. Len(pendingFireTimers) :
    /\ due[pendingFireTimers[i]] <= now
    /\ i < j => due[pendingFireTimers[i]] <= due[pendingFireTimers[j]]

\* Every timeout fires or is cleared.
TimeoutSettles ==
  \A t \in Timers \ Intervals : t \in idMap ~> t \notin idMap \/ rejected
=============================================================================
