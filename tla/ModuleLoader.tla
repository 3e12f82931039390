---------------------------- MODULE ModuleLoader ----------------------------
(***************************************************************************)
(* Loading of ES modules: core/modules.rs and core/es_isolate.rs.          *)
(*                                                                         *)
(* A load fetches its root module and, as it registers what arrives, the   *)
(* imports that are not registered yet.  When nothing is left to fetch the *)
(* root is instantiated and evaluated.  The main module is loaded first    *)
(* and alone; the dynamic imports JavaScript makes afterwards proceed      *)
(* concurrently and share the isolate's module map.                        *)
(*                                                                         *)
(* Top-level await is enabled: V8 evaluates the graph of a module depth    *)
(* first, and a module that awaits, or depends on one that does, counts as *)
(* evaluated while its body has not finished, and may fail afterwards.     *)
(*                                                                         *)
(* The loader behind the ModuleLoader trait is external: it fetches a      *)
(* specifier, perhaps under another name (a redirect), or fails.  So is    *)
(* V8: what it does with modules is described as mod_evaluate needs it.    *)
(***************************************************************************)
EXTENDS Naturals, FiniteSets, Sequences

CONSTANTS
  Specifiers,      \* resolved module specifiers
  Found,           \* [Specifiers -> Specifiers], the name a specifier is found under
  Programs,        \* set of [imports : [Specifiers -> SUBSET Specifiers],
                   \*         fault : [Specifiers -> Faults],
                   \*         awaits : SUBSET Specifiers], one is picked; awaits are
                   \*         the modules that have an await at their top level
  Loads,           \* load ids
  MainLoad,        \* the load of the main module, MainSpecifier
  MainSpecifier,
  MaxConcurrent,   \* bound: dynamic imports in progress
  PrepareMayFail   \* whether ModuleLoader::prepare_load may fail

\* What can be wrong with a module: it cannot be fetched, it does not compile, it
\* imports a name that is not exported, or its evaluation throws.
Faults == {"none", "fetch", "compile", "link", "throw"}

ASSUME ModuleLoaderAssumption ==
  /\ IsFiniteSet(Specifiers)
  /\ Found \in [Specifiers -> Specifiers]
  /\ \A s \in Specifiers : Found[Found[s]] = Found[s]
  /\ \A p \in Programs : /\ p.imports \in [Specifiers -> SUBSET Specifiers]
                         /\ p.fault \in [Specifiers -> Faults]
                         /\ p.awaits \subseteq Specifiers
  /\ MainLoad \in Loads /\ MainSpecifier \in Specifiers
  /\ MaxConcurrent \in Nat /\ PrepareMayFail \in BOOLEAN

VARIABLES
  program,     \* the modules of this run
  isolate,     \* "starting" (main module), "running", or "dead": poll returned Err
  registered,  \* names of modules in the module map (SymbolicModule::Mod)
  aliased,     \* names that are aliases of the name they were found under
  status,      \* per registered module, V8's module status
  phase,       \* per load: its LoadState, before it "none" and "preparing", and
               \* after it "evaluating", then "ok" and "failed", how its promise was
               \* settled
  root,        \* per load, the specifier it was asked for
  pending,     \* per load, the fetches under way
  isPending,   \* per load, the imports it has asked for (is_pending)
  fetches,     \* history: per load and specifier, how often it was fetched
  path,        \* V8: the modules it has entered on the way from the one it evaluates
  async,       \* V8: modules whose body has not finished when they are left
  waits,       \* V8: per such module, those whose bodies have to finish before
  promised,    \* V8: modules it was asked to evaluate, and gave a promise for
  unhandled    \* those of them whose promise is in pending_promise_exceptions

vars == <<program, isolate, registered, aliased, status, phase, root, pending,
          isPending, fetches, path, async, waits, promised, unhandled>>

loadVars == <<phase, root, pending, isPending, fetches>>
mapVars  == <<registered, aliased, status>>
evalVars == <<path, async, waits, promised, unhandled>>

Phases == {"none", "preparing", "resolve", "root", "imports", "done", "evaluating",
           "ok", "failed"}
Statuses == {"none", "new", "linked", "evaluating", "evaluated", "errored"}
Active == {l \in Loads : phase[l] \notin {"none", "ok", "failed"}}

Init ==
  /\ program \in Programs
  /\ isolate = "starting"
  /\ registered = {} /\ aliased = {}
  /\ status = [s \in Specifiers |-> "none"]
  /\ phase = [l \in Loads |-> IF l = MainLoad THEN "preparing" ELSE "none"]
  /\ root = [l \in Loads |-> MainSpecifier]
  /\ pending = [l \in Loads |-> {}]
  /\ isPending = [l \in Loads |-> {}]
  /\ fetches = [l \in Loads |-> [s \in Specifiers |-> 0]]
  /\ path = <<>> /\ async = {} /\ promised = {} /\ unhandled = {}
  /\ waits = [s \in Specifiers |-> {}]

-----------------------------------------------------------------------------
\* Modules::is_registered: an alias leads to the module it was found as.
IsRegistered(s) == s \in registered \/ (s \in aliased /\ Found[s] \in registered)

\* The modules a module needs, by the names they are found under.
Dependencies(m) == {Found[s] : s \in program.imports[m]}

\* The modules of the graph of m, m included: what every set has that contains m and
\* the dependencies of its members.
Closed(S) == \A d \in S : Dependencies(d) \subseteq S

Reach(m) ==
  LET graphs == {S \in SUBSET Specifiers : m \in S /\ Closed(S)}
  IN {d \in Specifiers : \A S \in graphs : d \in S}

\* Modules that do not await, and no longer wait for one that does.
Ready == {d \in async \ program.awaits : waits[d] = {}}

\* V8 evaluates nothing, so that the isolate's Rust code, or JavaScript, may go on.
Quiet ==
  /\ isolate # "dead" /\ path = <<>> /\ Ready = {}
  /\ \A l \in Loads : phase[l] # "evaluating"

\* dyn_import_error: the promise of a dynamic import is rejected.  For the main
\* module the error goes to the embedder, which ends the isolate.
Rejects(l) ==
  /\ phase' = [phase EXCEPT ![l] = "failed"]
  /\ pending' = [pending EXCEPT ![l] = {}]
  /\ isolate' = IF l = MainLoad THEN "dead" ELSE isolate

-----------------------------------------------------------------------------
\* dyn_import_cb: JavaScript evaluates import(s).
DynImport(l, s) ==
  /\ Quiet /\ isolate = "running"
  /\ phase[l] = "none"
  /\ Cardinality(Active) < MaxConcurrent
  /\ phase' = [phase EXCEPT ![l] = "preparing"]
  /\ root' = [root EXCEPT ![l] = s]
  /\ UNCHANGED <<program, isolate, mapVars, pending, isPending, fetches, evalVars>>

\* prepare has finished (prepare_dyn_imports, load_module).
Prepared(l) ==
  /\ Quiet /\ phase[l] = "preparing"
  /\ phase' = [phase EXCEPT ![l] = "resolve"]
  /\ UNCHANGED <<program, isolate, mapVars, root, pending, isPending, fetches, evalVars>>

PrepareFailed(l) ==
  /\ Quiet /\ phase[l] = "preparing" /\ PrepareMayFail
  /\ Rejects(l)
  /\ UNCHANGED <<program, mapVars, root, isPending, fetches, evalVars>>

\* The first poll of the load asks for its root.
AddRoot(l) ==
  /\ Quiet /\ phase[l] = "resolve"
  /\ phase' = [phase EXCEPT ![l] = "root"]
  /\ pending' = [pending EXCEPT ![l] = {root[l]}]
  /\ fetches' = [fetches EXCEPT ![l][root[l]] = @ + 1]
  /\ UNCHANGED <<program, isolate, mapVars, root, isPending, evalVars>>

-----------------------------------------------------------------------------
\* Mutants: an import is fetched although it was asked for before; imports that
\* arrive are not searched for further imports.
ToFetchAgain(l, m) == {s \in program.imports[m] : ~ IsRegistered(s)'}
ToFetchShallow(l, m) ==
  {s \in program.imports[m] \ isPending[l] : ~ IsRegistered(s)' /\ phase[l] = "root"}

\* The imports of m the load has to fetch: those that are not registered, and that
\* it has not asked for (add_import).
ToFetch(l, m) == {s \in program.imports[m] \ isPending[l] : ~ IsRegistered(s)'}

\* Mutant: the load is done when it has asked for no import, not when none is pending.
AfterRegisterAsked(l) == IF isPending'[l] = {} THEN "done" ELSE "imports"

\* The load is done when no fetch is under way.
AfterRegister(l) == IF pending'[l] = {} THEN "done" ELSE "imports"

\* register_during_load, for a fetch that has come back: the module is registered
\* unless it is known, and its imports are fetched.
Register(l, s) ==
  LET m == Found[s]
  IN /\ program.fault[m] # "compile" \/ m \in registered
     /\ aliased' = IF s # m THEN aliased \cup {s} ELSE aliased
     /\ registered' = registered \cup {m}
     /\ status' = IF m \in registered THEN status ELSE [status EXCEPT ![m] = "new"]
     /\ isPending' = [isPending EXCEPT ![l] = @ \cup ToFetch(l, m)]
     /\ pending' = [pending EXCEPT ![l] = (@ \ {s}) \cup ToFetch(l, m)]
     /\ fetches' = [fetches EXCEPT ![l] =
                      [t \in Specifiers |-> @[t] + IF t \in ToFetch(l, m) THEN 1 ELSE 0]]
     /\ phase' = [phase EXCEPT ![l] = AfterRegister(l)]
     /\ UNCHANGED isolate

\* The module does not compile: its name stays unregistered.
RegisterFails(l, s) ==
  /\ program.fault[Found[s]] = "compile" /\ Found[s] \notin registered
  /\ aliased' = IF s # Found[s] THEN aliased \cup {s} ELSE aliased
  /\ Rejects(l)
  /\ UNCHANGED <<registered, status, isPending, fetches>>

\* A fetch comes back (poll_dyn_imports, the loop of load_module).
Fetched(l, s) ==
  /\ Quiet /\ phase[l] \in {"root", "imports"} /\ s \in pending[l]
  /\ program.fault[Found[s]] # "fetch"
  /\ Register(l, s) \/ RegisterFails(l, s)
  /\ UNCHANGED <<program, root, evalVars>>

FetchFailed(l, s) ==
  /\ Quiet /\ phase[l] \in {"root", "imports"} /\ s \in pending[l]
  /\ program.fault[Found[s]] = "fetch"
  /\ Rejects(l)
  /\ UNCHANGED <<program, mapVars, root, isPending, fetches, evalVars>>

-----------------------------------------------------------------------------
(* Instantiation and evaluation by V8.                                     *)

RootModule(l) == Found[root[l]]

\* The modules of the graph that are not linked yet; linked ones have all they need.
ToLink(m) == {d \in Reach(m) : status[d] \in {"none", "new"}}

\* module_resolve_cb finds every import, and V8 every imported name.
Links(m) ==
  /\ status[m] # "errored"
  /\ \A d \in ToLink(m) : d \in registered /\ program.fault[d] # "link"
                           /\ \A s \in program.imports[d] : IsRegistered(s)

Linked(m) == [d \in Specifiers |-> IF d \in ToLink(m) THEN "linked" ELSE status[d]]

\* Nothing is left to fetch and the root cannot be instantiated: load_module returns
\* the error, and so does poll_dyn_imports, without settling the import's promise.
InstantiateFails(l) ==
  /\ Quiet /\ phase[l] = "done"
  /\ ~ Links(RootModule(l))
  /\ isolate' = "dead"
  /\ UNCHANGED <<program, mapVars, loadVars, evalVars>>

\* mod_instantiate, and the call of V8's evaluate in mod_evaluate: V8 links the graph
\* of the root, which it has not evaluated before, and enters it.
Evaluate(l) ==
  LET m == RootModule(l)
  IN /\ Quiet /\ phase[l] = "done"
     /\ Links(m) /\ status[m] # "evaluated"
     /\ status' = [Linked(m) EXCEPT ![m] = "evaluating"]
     /\ path' = <<m>>
     /\ promised' = promised \cup {m}
     /\ phase' = [phase EXCEPT ![l] = "evaluating"]
     /\ UNCHANGED <<program, isolate, registered, aliased, root, pending, isPending,
                    fetches, async, waits, unhandled>>

\* The module V8 evaluates now, and all it has entered on the way to it.
Top == path[Len(path)]
Entered == {path[i] : i \in 1..Len(path)}

EnterDependency(d) ==
  /\ path # <<>>
  /\ d \in Dependencies(Top) /\ status[d] = "linked"
  /\ status' = [status EXCEPT ![d] = "evaluating"]
  /\ path' = Append(path, d)
  /\ UNCHANGED <<program, isolate, registered, aliased, loadVars, async, waits,
                 promised, unhandled>>

\* Modules that depend on each other.  Once they are evaluated V8 treats them as one.
Cycle(d) == {e \in Reach(d) : d \in Reach(e)}

\* A dependency that failed earlier makes its dependent fail.
Broken(d) ==
  \/ status[d] = "errored"
  \/ status[d] = "evaluated" /\ \E e \in Cycle(d) : status[e] = "errored"

\* The unfinished bodies that m, once V8 has been through its dependencies, waits for.
Blockers(m) ==
  LET awaited(d) == async \cap (IF status[d] = "evaluated" THEN Cycle(d) ELSE {d})
      direct == UNION {awaited(d) : d \in Dependencies(m)}
  IN direct \cup UNION {waits[d] : d \in direct}

\* V8 has been through the dependencies of the module it evaluates.
DependenciesDone ==
  \A d \in Dependencies(Top) : status[d] \in {"evaluating", "evaluated"} /\ ~ Broken(d)

RunsLater == Top \in program.awaits \/ Blockers(Top) # {}

\* A dependency is broken or the body throws, and V8 leaves everything it has entered
\* without having evaluated it.  The promise is rejected, and nobody handles it.
EvaluationThrows ==
  /\ path # <<>>
  /\ \/ \E d \in Dependencies(Top) : Broken(d)
     \/ DependenciesDone /\ ~ RunsLater /\ program.fault[Top] = "throw"
  /\ LET failed == {d \in Specifiers : status[d] = "evaluating"}
     IN /\ status' = [d \in Specifiers |-> IF d \in failed THEN "errored" ELSE status[d]]
        /\ async' = async \ failed
  /\ path' = <<>>
  /\ unhandled' = unhandled \cup {path[1]}
  /\ UNCHANGED <<program, isolate, registered, aliased, loadVars, waits, promised>>

\* The body has run, or it is left until it can go on.  The modules of a cycle become
\* evaluated together, when V8 leaves the first of them it has entered.
Execute ==
  /\ path # <<>>
  /\ DependenciesDone
  /\ RunsLater \/ program.fault[Top] # "throw"
  /\ async' = IF RunsLater THEN async \cup {Top} ELSE async
  /\ waits' = [waits EXCEPT ![Top] = Blockers(Top)]
  /\ path' = SubSeq(path, 1, Len(path) - 1)
  /\ status' = IF Reach(Top) \cap Entered' = {}
               THEN [d \in Specifiers |->
                       IF d \in Reach(Top) /\ status[d] = "evaluating"
                       THEN "evaluated" ELSE status[d]]
               ELSE status
  /\ UNCHANGED <<program, isolate, registered, aliased, loadVars, promised, unhandled>>

\* A body that was left runs to its end: one that awaits at any time JavaScript may
\* run, the ones that have waited for it right afterwards.
BodyEnds(d) ==
  /\ isolate # "dead" /\ path = <<>>
  /\ d \in async /\ waits[d] = {}
  /\ Ready # {} => d \in Ready
  /\ UNCHANGED <<program, isolate, registered, aliased, loadVars, path, promised>>

Fulfilled(d) ==
  /\ BodyEnds(d) /\ program.fault[d] # "throw"
  /\ async' = async \ {d}
  /\ waits' = [p \in Specifiers |-> waits[p] \ {d}]
  /\ UNCHANGED <<status, unhandled>>

\* It fails, and with it all that wait for it; promise_reject_callback notes the
\* promises V8 has given for them.
Rejected(d) ==
  /\ BodyEnds(d) /\ program.fault[d] = "throw"
  /\ LET failed == {p \in async : p = d \/ d \in waits[p]}
     IN /\ status' = [p \in Specifiers |-> IF p \in failed THEN "errored" ELSE status[p]]
        /\ async' = async \ failed
        /\ unhandled' = unhandled \cup (promised \cap failed)
  /\ UNCHANGED waits

-----------------------------------------------------------------------------
(* The result of evaluating.                                               *)

\* Mutants: mod_evaluate leaves the rejected promise to the next poll as well, or
\* takes all of them out of the table; only an exception of the module itself makes
\* its evaluation fail.
AfterEvaluateNone(m) == unhandled
AfterEvaluateAll(m) == {}
SucceedsAlone(m) == program.fault[m] # "throw"

\* The promise of the evaluation is taken out of pending_promise_exceptions.
AfterEvaluate(m) == unhandled \ {m}

\* mod_evaluate goes by the status V8 gives the module.
Succeeds(m) == status[m] = "evaluated"

\* dyn_import_done or dyn_import_error, or mod_evaluate's return for the main module.
Settle(l) ==
  IF Succeeds(RootModule(l))
  THEN /\ phase' = [phase EXCEPT ![l] = "ok"]
       /\ isolate' = "running"
       /\ UNCHANGED pending
  ELSE Rejects(l)

\* V8's evaluate returns, when the microtasks it has caused have run.
Finish(l) ==
  /\ isolate # "dead" /\ path = <<>> /\ Ready = {} /\ phase[l] = "evaluating"
  /\ Settle(l)
  /\ unhandled' = AfterEvaluate(RootModule(l))
  /\ UNCHANGED <<program, mapVars, root, isPending, fetches, path, async, waits, promised>>

\* The root has been evaluated before, and mod_evaluate does not call V8.
AlreadyEvaluated(l) ==
  /\ Quiet /\ phase[l] = "done"
  /\ Links(RootModule(l)) /\ status[RootModule(l)] = "evaluated"
  /\ Settle(l)
  /\ UNCHANGED <<program, mapVars, root, isPending, fetches, evalVars>>

\* check_promise_exceptions: the poll of the isolate returns a pending rejection.
Report ==
  /\ Quiet
  /\ \E m \in unhandled : unhandled' = unhandled \ {m}
  /\ isolate' = "dead"
  /\ UNCHANGED <<program, mapVars, loadVars, path, async, waits, promised>>

LoadStep(l) ==
  \/ Prepared(l)
  \/ PrepareFailed(l)
  \/ AddRoot(l)
  \/ \E s \in Specifiers : Fetched(l, s) \/ FetchFailed(l, s)
  \/ InstantiateFails(l)
  \/ Evaluate(l)
  \/ Finish(l)
  \/ AlreadyEvaluated(l)

EvaluationStep ==
  \/ \E d \in Specifiers : EnterDependency(d)
  \/ EvaluationThrows
  \/ Execute

BodyStep(d) == Fulfilled(d) \/ Rejected(d)

Next ==
  \/ \E l \in Loads, s \in Specifiers : DynImport(l, s)
  \/ \E l \in Loads : LoadStep(l)
  \/ EvaluationStep
  \/ \E d \in Specifiers : BodyStep(d)
  \/ Report

Spec == Init /\ [][Next]_vars

\* Fetches come back, the executor polls the isolate when they do, and V8 goes on
\* while it has code to run.  What a module awaits need never come.
FairSpec ==
  /\ Spec
  /\ \A l \in Loads : WF_vars(LoadStep(l))
  /\ WF_vars(EvaluationStep)
  /\ WF_vars(\E d \in Ready : BodyStep(d))

-----------------------------------------------------------------------------
\* The types of what V8 keeps for an evaluation.
EvaluationTypeOK ==
  /\ path \in Seq(Specifiers)
  /\ async \subseteq Specifiers /\ waits \in [Specifiers -> SUBSET Specifiers]
  /\ unhandled \subseteq promised /\ promised \subseteq Specifiers

\* The types of the variables; a module has a status exactly if it is registered.
TypeOK ==
  /\ program \in Programs /\ isolate \in {"starting", "running", "dead"}
  /\ registered \subseteq Specifiers /\ aliased \subseteq Specifiers
  /\ status \in [Specifiers -> Statuses]
  /\ \A s \in Specifiers : status[s] # "none" <=> s \in registered
  /\ phase \in [Loads -> Phases] /\ root \in [Loads -> Specifiers]
  /\ pending \in [Loads -> SUBSET Specifiers]
  /\ isPending \in [Loads -> SUBSET Specifiers]
  /\ EvaluationTypeOK

\* A load that has drained its fetches has all of its root's dependencies in the
\* module map (load_module: "load specified module and all of it's dependencies").
Complete(l) == phase[l] = "done" => Reach(RootModule(l)) \subseteq registered

\* A drained load lacks a module only if it met another load that was still
\* fetching it, or that failed to: a load that meets no other one is complete.
CompleteOrShared ==
  \A l \in Loads :
    Complete(l) \/ \E other \in Loads \ {l} : phase[other] \in {"imports", "failed"}

\* A loading load always has a fetch under way: the unreachable!() of
\* RecursiveModuleLoad::poll_next.
NeverDrained ==
  \A l \in Loads : phase[l] \in {"root", "imports"} => pending[l] # {}

\* A load fetches no specifier twice, in spite of diamonds, cycles and redirects.
FetchedOnce == \A l \in Loads, s \in Specifiers : fetches[l][s] <= 1

\* A module that awaits, or that depends on one that does.
Asynchronous(m) == Reach(m) \cap program.awaits # {}

\* An import whose promise is resolved has its whole graph evaluated (the assertion of
\* dyn_import_done): only modules that await, and what depends on them, may still be
\* unfinished, or fail later.  No other import takes that back.
OkMeansEvaluated ==
  \A l \in Loads : phase[l] = "ok" =>
    \A m \in Reach(RootModule(l)) :
      \/ status[m] = "evaluated" /\ (m \in async => Asynchronous(m))
      \/ status[m] = "errored" /\ Asynchronous(m)

\* The failure of a module after its import() was resolved is in the table of pending
\* rejections until the isolate ends with it, whatever else is evaluated meanwhile (the
\* comment in mod_evaluate: "Isolate will return error on next poll()").
LateFailureReported ==
  \A l \in Loads :
    LET m == RootModule(l)
    IN phase[l] = "ok" /\ status[m] = "errored" /\ m \in promised
         => m \in unhandled \/ isolate = "dead"

\* A failure that an import() is rejected with does not end the isolate as well: what
\* is left in the table belongs to an import that was resolved.
ReportedOnce ==
  \A m \in unhandled : \E l \in Loads :
    RootModule(l) = m /\ phase[l] \in {"ok", "evaluating"}

\* Each failure of an evaluation is told once: it rejects an import(), or it stays in the
\* table until the isolate ends with it.
FailureToldOnce == LateFailureReported /\ ReportedOnce

\* Every import is settled, or the isolate ends with an error.
ImportsSettle ==
  \A l \in Loads :
    phase[l] = "preparing" ~> phase[l] \in {"ok", "failed"} \/ isolate = "dead"
=============================================================================
