-------------------------- MODULE ModuleLoaderProofs --------------------------
(***************************************************************************)
(* Loading of ES modules for every set of specifiers and redirects, every  *)
(* program and any number of concurrent imports.                           *)
(***************************************************************************)
EXTENDS ModuleLoader, SequenceTheorems, TLAPS

Types == TypeOK /\ fetches \in [Loads -> [Specifiers -> Nat]]

\* Modules are registered under the names they were found as.
Names == \A s \in registered : Found[s] = s

\* A load that got its root has registered it.
RootKnown ==
  \A l \in Loads : phase[l] \in {"imports", "done"} => RootModule(l) \in registered

\* A load asks for nothing before its root has come, and then for the root only.
RootFirst ==
  \A l \in Loads :
    /\ phase[l] \in {"none", "preparing", "resolve", "root"} => isPending[l] = {}
    /\ phase[l] = "root" => pending[l] = {root[l]}

\* What a loading load has fetched before is its root, or an import it asked for.
Asked ==
  \A l \in Loads, s \in Specifiers :
    /\ phase[l] \in {"none", "preparing", "resolve"} => fetches[l][s] = 0
    /\ phase[l] = "root" /\ s # root[l] => fetches[l][s] = 0
    /\ phase[l] = "imports" /\ fetches[l][s] # 0 => s \in isPending[l] \/ IsRegistered(s)

\* An import that was asked for is under way, or it has arrived.
Arrived ==
  \A l \in Loads : phase[l] = "imports" =>
    \A s \in isPending[l] : s \in pending[l] \/ Found[s] \in registered

\* An import of a registered module is registered, or some load fetches it, unless a
\* load has failed.
Covered ==
  \A m \in registered : \A s \in program.imports[m] :
    \/ Found[s] \in registered
    \/ \E o \in Loads : phase[o] = "imports" /\ s \in pending[o]
    \/ \E o \in Loads : phase[o] = "failed"

\* What holds of the loads and the module map, whatever V8 does.
LoadInv ==
  /\ Types /\ Names /\ RootKnown /\ RootFirst /\ Asked /\ FetchedOnce
  /\ NeverDrained /\ Arrived /\ Covered

\* No module is entered twice at a time, and V8 is evaluating what it has entered.
PathDistinct == \A i, j \in 1..Len(path) : path[i] = path[j] => i = j
PathEvaluating == \A d \in Entered : status[d] = "evaluating"

\* What V8 is evaluating belongs to the graph of the module it was asked for.
Rooted ==
  \A d \in Specifiers : status[d] = "evaluating" => path # <<>> /\ d \in Reach(path[1])

\* A module that V8 has left, but not its cycle, has its dependencies behind it.
LeftDone ==
  \A d \in Specifiers : status[d] = "evaluating" /\ d \notin Entered =>
    \A e \in Dependencies(d) : status[e] \in {"evaluating", "evaluated"}

\* Only modules that await, or depend on one that does, are left unfinished.
AsyncOnly ==
  \A d \in async : Asynchronous(d) /\ status[d] \in {"evaluating", "evaluated"}

\* A module that is evaluated, or was until something it awaits has failed.
Settled(d) == status[d] = "evaluated" \/ (status[d] = "errored" /\ Asynchronous(d))

\* With a module its whole graph is settled.
GraphSettled ==
  \A d \in Specifiers : status[d] = "evaluated" => \A e \in Reach(d) : Settled(e)

\* The whole graph of an import that was resolved is settled.
OkSettled == \A l \in Loads : phase[l] = "ok" => \A e \in Reach(RootModule(l)) : Settled(e)

\* V8 evaluates one module at a time, that of the load which asked for it.
OneEvaluation ==
  /\ path # <<>> => \E l \in Loads : phase[l] = "evaluating" /\ RootModule(l) = path[1]
  /\ \A l \in Loads : phase[l] = "evaluating" =>
       /\ RootModule(l) \in promised
       /\ \A o \in Loads : phase[o] = "evaluating" => o = l
       /\ \A o \in Loads : phase[o] = "ok" => RootModule(o) # RootModule(l)

\* What V8 was asked for is evaluated or failed, once it is not entered any more.
PromisedDone ==
  \A m \in promised :
    status[m] \in {"evaluated", "errored"} \/ (path # <<>> /\ m = path[1])

\* A module that V8 was asked for, and that has not failed, is that of a load which was
\* resolved or is about to be.
PromisedHeld ==
  \A m \in promised : status[m] # "errored" =>
    \E l \in Loads : RootModule(l) = m /\ phase[l] \in {"ok", "evaluating"}

\* What holds of V8's evaluation, whatever the loads do.
EvalInv ==
  /\ PathDistinct /\ PathEvaluating /\ Rooted /\ LeftDone /\ AsyncOnly
  /\ GraphSettled /\ OkSettled /\ OneEvaluation /\ PromisedDone /\ PromisedHeld
  /\ LateFailureReported /\ ReportedOnce

Inv == LoadInv /\ EvalInv

-----------------------------------------------------------------------------
(* Graphs of modules.                                                      *)

\* A module belongs to its own graph.
LEMMA ReachSelf == ASSUME NEW m \in Specifiers PROVE m \in Reach(m)
  BY DEF Reach

\* The graph of a module contains the graphs of its members.
LEMMA ReachTransitive ==
  ASSUME NEW m \in Specifiers, NEW d \in Reach(m), NEW e \in Reach(d)
  PROVE  e \in Reach(m)
  BY DEF Reach

\* A set that is closed under dependencies and has a module has its whole graph.
LEMMA ReachLeast ==
  ASSUME NEW m, NEW S \in SUBSET Specifiers, m \in S, Closed(S)
  PROVE  Reach(m) \subseteq S
  BY DEF Reach

\* The graph of a module consists of specifiers, and has the graphs of its dependencies.
LEMMA ReachDependencies ==
  ASSUME NEW m \in Specifiers
  PROVE  /\ Reach(m) \subseteq Specifiers
         /\ \A d \in Dependencies(m) : d \in Specifiers => d \in Reach(m)
<1>1. \A S \in SUBSET Specifiers : m \in S /\ Closed(S) => Dependencies(m) \subseteq S
  BY DEF Closed
<1> QED
  BY <1>1 DEF Reach

\* What a module of the graph awaits makes the whole graph asynchronous.
LEMMA AsynchronousUp ==
  ASSUME NEW m \in Specifiers, NEW e \in Reach(m), Asynchronous(e)
  PROVE  Asynchronous(m)
  BY ReachTransitive DEF Asynchronous

\* Modules reach the same modules while the program is the same.
LEMMA ReachKept ==
  ASSUME program' = program
  PROVE  /\ \A m : Reach(m)' = Reach(m)
         /\ \A m : Dependencies(m)' = Dependencies(m)
         /\ \A m : Asynchronous(m)' <=> Asynchronous(m)
<1>1. \A m : Dependencies(m)' = Dependencies(m)
  BY DEF Dependencies
<1>2. \A m : Reach(m)' = Reach(m)
  BY DEF Reach, Closed, Dependencies
<1> QED
  BY <1>1, <1>2 DEF Asynchronous

\* The imports of every module are specifiers, whatever the program.
LEMMA ImportsType ==
  ASSUME TypeOK, NEW m \in Specifiers
  PROVE  program.imports[m] \subseteq Specifiers
  BY ModuleLoaderAssumption DEF TypeOK

\* Redirects lead to specifiers and are followed once.
LEMMA FoundType == \A s \in Specifiers : Found[s] \in Specifiers /\ Found[Found[s]] = Found[s]
  BY ModuleLoaderAssumption

-----------------------------------------------------------------------------
(* The inductive invariant.                                                *)

\* Nothing is registered or evaluated at first, and no load has begun.
LEMMA InitInv == Init => Inv
<1> SUFFICES ASSUME Init PROVE Inv
  OBVIOUS
<1>1. EvaluationTypeOK
  <2>1. path \in Seq(Specifiers)
    BY EmptySeq DEF Init
  <2> QED
    BY <2>1 DEF Init, EvaluationTypeOK
<1>2. Types
  BY <1>1, ModuleLoaderAssumption DEF Init, Types, TypeOK, Phases, Statuses
<1>3. /\ Names /\ RootKnown /\ RootFirst /\ Asked /\ FetchedOnce
      /\ NeverDrained /\ Arrived /\ Covered
  BY DEF Init, Names, RootKnown, RootFirst, Asked, FetchedOnce, NeverDrained, Arrived,
         Covered
<1>4. /\ PathDistinct /\ PathEvaluating /\ Rooted /\ LeftDone /\ AsyncOnly
      /\ GraphSettled /\ OkSettled /\ OneEvaluation /\ PromisedDone /\ PromisedHeld
  BY DEF Init, PathDistinct, PathEvaluating, Entered, Rooted, LeftDone, AsyncOnly,
         GraphSettled, OkSettled, OneEvaluation, PromisedDone, PromisedHeld
<1>5. LateFailureReported /\ ReportedOnce
  BY DEF Init, LateFailureReported, ReportedOnce
<1> QED
  BY <1>2, <1>3, <1>4, <1>5 DEF Inv, LoadInv, EvalInv

-----------------------------------------------------------------------------
(* The loads and the module map.                                           *)

\* A load that changes its phase alone, before it has begun to fetch.
LEMMA BeginLoads ==
  ASSUME LoadInv, NEW l \in Loads, NEW s \in Specifiers,
         DynImport(l, s) \/ Prepared(l) \/ AddRoot(l)
  PROVE  LoadInv'
<1>0. EvaluationTypeOK'
  BY DEF LoadInv, Types, TypeOK, EvaluationTypeOK, DynImport, Prepared, AddRoot, evalVars
<1>1. /\ program' = program /\ isolate' = isolate
      /\ registered' = registered /\ aliased' = aliased /\ status' = status
      /\ isPending' = isPending
  BY DEF DynImport, Prepared, AddRoot, mapVars
<1>2. /\ phase[l] \in {"none", "preparing", "resolve"}
      /\ \E p \in {"preparing", "resolve", "root"} : phase' = [phase EXCEPT ![l] = p]
      /\ phase[l] # "none" => root' = root
      /\ \E t \in Specifiers : root' = [root EXCEPT ![l] = t]
  BY DEF LoadInv, Types, TypeOK, DynImport, Prepared, AddRoot
<1>3. \/ phase'[l] # "root" /\ pending' = pending /\ fetches' = fetches
      \/ /\ phase'[l] = "root" /\ root' = root
         /\ pending' = [pending EXCEPT ![l] = {root[l]}]
         /\ fetches' = [fetches EXCEPT ![l][root[l]] = @ + 1]
  BY DEF LoadInv, Types, TypeOK, DynImport, Prepared, AddRoot
<1>4. Types'
  <2>1. phase' \in [Loads -> Phases] /\ root' \in [Loads -> Specifiers]
    BY <1>2 DEF LoadInv, Types, TypeOK, Phases
  <2>2. root[l] \in Specifiers /\ fetches[l] \in [Specifiers -> Nat]
    BY DEF LoadInv, Types, TypeOK
  <2>3. pending' \in [Loads -> SUBSET Specifiers]
    BY <1>3, <2>2 DEF LoadInv, Types, TypeOK
  <2>4. fetches' \in [Loads -> [Specifiers -> Nat]]
    BY <1>3, <2>2 DEF LoadInv, Types
  <2> QED
    BY <1>0, <1>1, <2>1, <2>3, <2>4 DEF LoadInv, Types, TypeOK
<1>5. Names' /\ RootKnown'
  BY <1>1, <1>2 DEF LoadInv, Types, TypeOK, Names, RootKnown, RootModule
<1>6. RootFirst' /\ NeverDrained' /\ Arrived'
  <2>1. \A o \in Loads \ {l} : /\ pending'[o] = pending[o] /\ phase'[o] = phase[o]
                               /\ root'[o] = root[o]
    BY <1>2, <1>3 DEF LoadInv, Types, TypeOK
  <2>2. /\ phase'[l] \in {"preparing", "resolve", "root"}
        /\ phase'[l] = "root" => pending'[l] = {root'[l]}
    BY <1>2, <1>3 DEF LoadInv, Types, TypeOK
  <2>3. isPending[l] = {}
    BY <1>2 DEF LoadInv, RootFirst
  <2>4. RootFirst'
    BY <1>1, <2>1, <2>2, <2>3 DEF LoadInv, RootFirst
  <2>5. NeverDrained'
    BY <2>1, <2>2 DEF LoadInv, NeverDrained
  <2>6. Arrived'
    BY <1>1, <2>1, <2>2 DEF LoadInv, Arrived
  <2> QED
    BY <2>4, <2>5, <2>6
<1>7. Asked' /\ FetchedOnce'
  <2>1. \A t \in Specifiers : fetches[l][t] = 0
    BY <1>2 DEF LoadInv, Asked
  <2>2. \A o \in Loads \ {l} : /\ fetches'[o] = fetches[o] /\ phase'[o] = phase[o]
                               /\ root'[o] = root[o]
    BY <1>2, <1>3 DEF LoadInv, Types, TypeOK
  <2>3. phase'[l] # "root" => fetches'[l] = fetches[l]
    BY <1>3
  <2>4. phase'[l] = "root" => \A t \in Specifiers :
          fetches'[l][t] = IF t = root'[l] THEN 1 ELSE 0
    BY <1>3, <2>1 DEF LoadInv, Types, TypeOK
  <2>5. phase'[l] \in {"preparing", "resolve", "root"}
    BY <1>2 DEF LoadInv, Types, TypeOK
  <2> QED
    BY <1>1, <2>1, <2>2, <2>3, <2>4, <2>5 DEF LoadInv, Asked, FetchedOnce, IsRegistered
<1>8. Covered'
  <2>1. \A o \in Loads : phase[o] \in {"imports", "failed"} =>
          phase'[o] = phase[o] /\ pending'[o] = pending[o]
    BY <1>2, <1>3 DEF LoadInv, Types, TypeOK
  <2> QED
    BY <1>1, <2>1 DEF LoadInv, Covered
<1> QED
  BY <1>4, <1>5, <1>6, <1>7, <1>8 DEF LoadInv

\* A load that fails, whatever else it has registered under another name.
LEMMA FailLoads ==
  ASSUME LoadInv, NEW l \in Loads, Rejects(l), aliased' \in SUBSET Specifiers,
         aliased \subseteq aliased',
         UNCHANGED <<program, registered, root, isPending, fetches>>,
         EvaluationTypeOK', status' \in [Specifiers -> Statuses],
         \A s \in Specifiers : status'[s] # "none" <=> status[s] # "none"
  PROVE  LoadInv'
<1>1. /\ phase' = [phase EXCEPT ![l] = "failed"]
      /\ pending' = [pending EXCEPT ![l] = {}]
      /\ isolate' \in {isolate, "dead"}
  BY DEF Rejects
<1>2. Types'
  BY <1>1 DEF LoadInv, Types, TypeOK, Phases
<1>3. Names' /\ RootKnown'
  BY <1>1 DEF LoadInv, Types, TypeOK, Names, RootKnown, RootModule
<1>4. RootFirst' /\ NeverDrained' /\ Arrived'
  BY <1>1 DEF LoadInv, Types, TypeOK, RootFirst, NeverDrained, Arrived
<1>5. Asked' /\ FetchedOnce'
  BY <1>1 DEF LoadInv, Types, TypeOK, Asked, FetchedOnce, IsRegistered
<1>6. Covered'
  BY <1>1 DEF LoadInv, Types, TypeOK, Covered
<1> QED
  BY <1>2, <1>3, <1>4, <1>5, <1>6 DEF LoadInv

\* A module arrives.  The load asks for those of its imports that are not registered,
\* and that it has not asked for.
LEMMA RegisterLoads ==
  ASSUME LoadInv, NEW l \in Loads, NEW s \in Specifiers, phase[l] \in {"root", "imports"},
         s \in pending[l], Register(l, s), UNCHANGED <<program, root, evalVars>>
  PROVE  LoadInv'
<1> DEFINE m == Found[s]
           F == ToFetch(l, m)
<1>1. /\ aliased' = (IF s # m THEN aliased \cup {s} ELSE aliased)
      /\ registered' = registered \cup {m}
      /\ status' = (IF m \in registered THEN status ELSE [status EXCEPT ![m] = "new"])
      /\ isPending' = [isPending EXCEPT ![l] = @ \cup F]
      /\ pending' = [pending EXCEPT ![l] = (@ \ {s}) \cup F]
      /\ fetches' = [fetches EXCEPT ![l] =
                       [t \in Specifiers |-> @[t] + IF t \in F THEN 1 ELSE 0]]
      /\ phase' = [phase EXCEPT ![l] = IF pending'[l] = {} THEN "done" ELSE "imports"]
      /\ isolate' = isolate
  BY DEF Register, AfterRegister
<1>2. /\ m \in Specifiers /\ Found[m] = m
      /\ program.imports[m] \subseteq Specifiers
      /\ F = {t \in program.imports[m] \ isPending[l] : ~ IsRegistered(t)'}
  BY FoundType, ImportsType DEF LoadInv, Types, ToFetch
<1>3. F \subseteq Specifiers
  BY <1>2
<1>4. \A o \in Loads \ {l} :
        /\ phase'[o] = phase[o] /\ pending'[o] = pending[o]
        /\ isPending'[o] = isPending[o] /\ fetches'[o] = fetches[o]
  BY <1>1 DEF LoadInv, Types, TypeOK
<1>5. /\ pending'[l] = (pending[l] \ {s}) \cup F
      /\ isPending'[l] = isPending[l] \cup F
      /\ phase'[l] = IF pending'[l] = {} THEN "done" ELSE "imports"
      /\ \A t \in Specifiers : fetches'[l][t] = fetches[l][t] + IF t \in F THEN 1 ELSE 0
  BY <1>1 DEF LoadInv, Types, TypeOK
<1>6. \A t \in Specifiers : IsRegistered(t) => IsRegistered(t)'
  BY <1>1 DEF IsRegistered
<1>7. IsRegistered(s)'
  BY <1>1 DEF IsRegistered
<1>8. Types'
  <2>1. status' \in [Specifiers -> Statuses]
        /\ \A t \in Specifiers : status'[t] # "none" <=> t \in registered'
    BY <1>1, <1>2 DEF LoadInv, Types, TypeOK, Statuses
  <2>2. registered' \subseteq Specifiers /\ aliased' \subseteq Specifiers
    BY <1>1, <1>2 DEF LoadInv, Types, TypeOK
  <2>3. /\ pending' \in [Loads -> SUBSET Specifiers]
        /\ isPending' \in [Loads -> SUBSET Specifiers]
    BY <1>1, <1>3 DEF LoadInv, Types, TypeOK
  <2>4. phase' \in [Loads -> Phases]
    BY <1>1 DEF LoadInv, Types, TypeOK, Phases
  <2>5. fetches' \in [Loads -> [Specifiers -> Nat]]
    <3> DEFINE asks == [t \in Specifiers |-> fetches[l][t] + IF t \in F THEN 1 ELSE 0]
    <3>1. fetches[l] \in [Specifiers -> Nat]
      BY DEF LoadInv, Types
    <3>2. asks \in [Specifiers -> Nat]
      BY <3>1
    <3>3. fetches' = [fetches EXCEPT ![l] = asks]
      BY <1>1
    <3> HIDE DEF asks
    <3> QED
      BY <3>2, <3>3 DEF LoadInv, Types
  <2>6. EvaluationTypeOK'
    BY DEF LoadInv, Types, TypeOK, EvaluationTypeOK, evalVars
  <2> QED
    BY <1>1, <2>1, <2>2, <2>3, <2>4, <2>5, <2>6 DEF LoadInv, Types, TypeOK
<1>9. Names'
  BY <1>1, <1>2 DEF LoadInv, Names
<1>10. RootKnown'
  <2>1. phase[l] = "root" => s = root[l]
    BY DEF LoadInv, RootFirst
  <2>2. RootModule(l) \in registered'
    BY <1>1, <2>1 DEF LoadInv, RootKnown, RootModule
  <2> QED
    BY <1>1, <1>4, <2>2 DEF LoadInv, RootKnown, RootModule
<1>11. RootFirst'
  BY <1>4, <1>5 DEF LoadInv, RootFirst
<1>12. NeverDrained'
  BY <1>4, <1>5 DEF LoadInv, NeverDrained
<1>13. \A t \in F : fetches[l][t] = 0
  <2> SUFFICES ASSUME NEW t \in F PROVE fetches[l][t] = 0
    OBVIOUS
  <2>1. t \in Specifiers /\ t \notin isPending[l] /\ ~ IsRegistered(t)'
    BY <1>2, <1>3
  <2>2. ~ IsRegistered(t) /\ t # s
    BY <1>6, <1>7, <2>1
  <2>3. CASE phase[l] = "root"
    BY <2>1, <2>2, <2>3 DEF LoadInv, RootFirst, Asked
  <2>4. CASE phase[l] = "imports"
    BY <2>1, <2>2, <2>4 DEF LoadInv, Asked
  <2> QED
    BY <2>3, <2>4
<1>14. FetchedOnce'
  <2>1. \A t \in Specifiers : fetches[l][t] \in Nat /\ fetches[l][t] <= 1
    BY DEF LoadInv, Types, FetchedOnce
  <2>2. \A t \in Specifiers : fetches'[l][t] <= 1
    BY <1>5, <1>13, <2>1
  <2> QED
    BY <1>4, <2>2 DEF LoadInv, FetchedOnce
<1>15. Asked'
  <2>1. ASSUME NEW t \in Specifiers, phase'[l] = "imports", fetches'[l][t] # 0
        PROVE  t \in isPending'[l] \/ IsRegistered(t)'
    <3>1. CASE t \in F
      BY <1>5, <3>1
    <3>2. CASE t \notin F
      <4>1. fetches[l][t] # 0
        BY <1>5, <2>1, <3>2 DEF LoadInv, Types
      <4>2. t \in isPending[l] \/ IsRegistered(t) \/ t = s
        BY <4>1 DEF LoadInv, Asked, RootFirst
      <4> QED
        BY <1>5, <1>6, <1>7, <4>2
    <3> QED
      BY <3>1, <3>2
  <2>2. phase'[l] \in {"done", "imports"}
    BY <1>5
  <2>3. \A o \in Loads \ {l}, t \in Specifiers :
          /\ phase'[o] \in {"none", "preparing", "resolve"} => fetches'[o][t] = 0
          /\ phase'[o] = "root" /\ t # root'[o] => fetches'[o][t] = 0
          /\ phase'[o] = "imports" /\ fetches'[o][t] # 0
               => t \in isPending'[o] \/ IsRegistered(t)'
    BY <1>4, <1>6 DEF LoadInv, Asked
  <2> QED
    BY <2>1, <2>2, <2>3 DEF Asked
<1>16. \A t \in isPending'[l] : t \in pending'[l] \/ Found[t] \in registered'
  <2> SUFFICES ASSUME NEW t \in isPending'[l]
               PROVE  t \in pending'[l] \/ Found[t] \in registered'
    OBVIOUS
  <2>1. CASE t \in F
    BY <1>5, <2>1
  <2>2. CASE t \in isPending[l]
    <3>1. t \in pending[l] \/ Found[t] \in registered
      BY <2>2 DEF LoadInv, Arrived, RootFirst
    <3> QED
      BY <1>1, <1>5, <3>1
  <2> QED
    BY <1>5, <2>1, <2>2
<1>17. Arrived'
  BY <1>1, <1>4, <1>16 DEF LoadInv, Arrived
<1>18. \A t \in pending[l] : Found[t] \in registered' \/ t \in pending'[l]
  BY <1>1, <1>5
<1>19. pending'[l] # {} => phase'[l] = "imports"
  BY <1>5
<1>20. Covered'
  <2> SUFFICES ASSUME NEW d \in registered', NEW t \in program.imports[d]
               PROVE  \/ Found[t] \in registered'
                      \/ \E o \in Loads : phase'[o] = "imports" /\ t \in pending'[o]
                      \/ \E o \in Loads : phase'[o] = "failed"
    BY DEF Covered
  <2>1. CASE d = m
    <3>1. t \in Specifiers
      BY <1>2, <2>1
    <3>2. IsRegistered(t)' => Found[t] \in registered'
      BY <1>9 DEF IsRegistered, Names
    <3>3. t \in isPending'[l] \/ IsRegistered(t)'
      BY <1>2, <1>5, <2>1
    <3> QED
      BY <1>16, <1>19, <3>2, <3>3
  <2>2. CASE d \in registered
    <3>1. CASE Found[t] \in registered
      BY <1>1, <3>1
    <3>2. ASSUME NEW o \in Loads, phase[o] = "imports", t \in pending[o]
          PROVE  Found[t] \in registered' \/
                 \E p \in Loads : phase'[p] = "imports" /\ t \in pending'[p]
      BY <1>4, <1>18, <1>19, <3>2
    <3>3. ASSUME NEW o \in Loads, phase[o] = "failed"
          PROVE  phase'[o] = "failed"
      BY <1>4, <3>3
    <3> QED
      BY <2>2, <3>1, <3>2, <3>3 DEF LoadInv, Covered
  <2> QED
    BY <1>1, <2>1, <2>2
<1> QED
  BY <1>8, <1>9, <1>10, <1>11, <1>12, <1>14, <1>15, <1>17, <1>20 DEF LoadInv

\* A load whose root is evaluated, or has been.
LEMMA PhaseLoads ==
  ASSUME LoadInv, NEW l \in Loads, phase[l] \in {"done", "evaluating"},
         NEW p \in {"evaluating", "ok"}, phase' = [phase EXCEPT ![l] = p],
         UNCHANGED <<program, registered, aliased, root, pending, isPending, fetches>>,
         TypeOK'
  PROVE  LoadInv'
<1>1. Types' /\ Names' /\ RootKnown'
  BY DEF LoadInv, Types, TypeOK, Names, RootKnown, RootModule
<1>2. RootFirst' /\ NeverDrained' /\ Arrived'
  BY DEF LoadInv, Types, TypeOK, RootFirst, NeverDrained, Arrived
<1>3. Asked' /\ FetchedOnce'
  BY DEF LoadInv, Types, TypeOK, Asked, FetchedOnce, IsRegistered
<1>4. Covered'
  <2>1. \A o \in Loads : phase[o] \in {"imports", "failed"} => phase'[o] = phase[o]
    BY DEF LoadInv, Types, TypeOK
  <2> QED
    BY <2>1 DEF LoadInv, Covered
<1> QED
  BY <1>1, <1>2, <1>3, <1>4 DEF LoadInv

\* Whatever V8 does to the modules' statuses.
LEMMA KeptLoads ==
  ASSUME LoadInv, TypeOK', UNCHANGED <<program, registered, aliased, loadVars>>
  PROVE  LoadInv'
<1>1. Types' /\ Names' /\ RootKnown' /\ RootFirst' /\ Asked'
  BY DEF LoadInv, loadVars, Types, Names, RootKnown, RootModule, RootFirst, Asked, IsRegistered
<1>2. FetchedOnce' /\ NeverDrained' /\ Arrived' /\ Covered'
  BY DEF LoadInv, loadVars, FetchedOnce, NeverDrained, Arrived, Covered
<1> QED
  BY <1>1, <1>2 DEF LoadInv

-----------------------------------------------------------------------------
(* The evaluation.                                                         *)

\* The root modules of loads are specifiers, and a load keeps its root module.
LEMMA RootType ==
  ASSUME LoadInv
  PROVE  \A l \in Loads : RootModule(l) \in Specifiers
  BY FoundType DEF LoadInv, Types, TypeOK, RootModule

\* What is settled stays so when modules fail only late.
LEMMA SettledStays ==
  ASSUME program' = program, NEW d, Settled(d),
         status[d] = "evaluated" =>
           status'[d] = "evaluated" \/ (status'[d] = "errored" /\ Asynchronous(d)),
         status[d] = "errored" => status'[d] = "errored"
  PROVE  Settled(d)'
  BY ReachKept DEF Settled

\* The loads go on, and V8 does nothing but compile and link modules.
LEMMA LoadingEval ==
  ASSUME LoadInv, EvalInv, UNCHANGED <<program, evalVars>>,
         \A d \in Specifiers :
           status'[d] = status[d] \/ (status[d] = "none" /\ status'[d] = "new"),
         \A o \in Loads :
           phase[o] \in {"ok", "evaluating"} \/ phase'[o] \in {"ok", "evaluating"}
             => phase'[o] = phase[o] /\ root'[o] = root[o],
         isolate = "dead" => isolate' = "dead"
  PROVE  EvalInv'
<1>1. UNCHANGED <<path, async, waits, promised, unhandled>> /\ Entered' = Entered
  BY DEF evalVars, Entered
<1>2. \A d \in Specifiers, v \in {"evaluating", "evaluated", "errored"} :
        status'[d] = v <=> status[d] = v
  OBVIOUS
<1>3. \A o \in Loads, v \in {"ok", "evaluating"} :
        /\ phase'[o] = v <=> phase[o] = v
        /\ phase'[o] = v => RootModule(o)' = RootModule(o)
  BY DEF RootModule
<1>4. /\ Entered \subseteq Specifiers /\ async \subseteq Specifiers
      /\ promised \subseteq Specifiers
      /\ \A i \in 1..Len(path) : path[i] \in Specifiers
  BY DEF LoadInv, Types, TypeOK, EvaluationTypeOK, Entered
<1>5. \A d \in Specifiers : Reach(d) \subseteq Specifiers
  BY ReachDependencies
<1>6. \A d \in Specifiers : Settled(d)' <=> Settled(d)
  BY <1>2, ReachKept DEF Settled
<1>7. PathDistinct' /\ PathEvaluating'
  BY <1>1, <1>2, <1>4 DEF EvalInv, PathDistinct, PathEvaluating
<1>8. Rooted'
  BY <1>1, <1>2, ReachKept DEF EvalInv, Rooted
<1>9. LeftDone'
  <2>1. \A d \in Specifiers : \A e \in Dependencies(d) : e \in Specifiers
    BY FoundType, ImportsType DEF LoadInv, Types, Dependencies
  <2> QED
    BY <1>1, <1>2, <2>1, ReachKept DEF EvalInv, LeftDone
<1>10. AsyncOnly'
  BY <1>1, <1>2, <1>4, ReachKept DEF EvalInv, AsyncOnly
<1>11. GraphSettled'
  BY <1>2, <1>5, <1>6, ReachKept DEF EvalInv, GraphSettled
<1>12. OkSettled'
  BY <1>3, <1>5, <1>6, ReachKept, RootType DEF EvalInv, OkSettled
<1>13. OneEvaluation'
  BY <1>1, <1>3 DEF EvalInv, OneEvaluation
<1>14. PromisedDone'
  BY <1>1, <1>2, <1>4 DEF EvalInv, PromisedDone
<1>15. PromisedHeld'
  BY <1>1, <1>2, <1>3, <1>4 DEF EvalInv, PromisedHeld
<1>16. LateFailureReported'
  BY <1>1, <1>2, <1>3, RootType DEF EvalInv, LateFailureReported
<1>17. ReportedOnce'
  BY <1>1, <1>3 DEF EvalInv, ReportedOnce
<1> QED
  BY <1>7, <1>8, <1>9, <1>10, <1>11, <1>12, <1>13, <1>14, <1>15, <1>16, <1>17 DEF EvalInv

\* V8 evaluates nothing: no module is in between.
LEMMA NoneEvaluating ==
  ASSUME EvalInv, path = <<>>
  PROVE  \A d \in Specifiers : status[d] # "evaluating"
  BY DEF EvalInv, Rooted

\* A load whose import was resolved is not affected by another graph's evaluation: its
\* root is neither linked only nor in evaluation.
LEMMA OkRootDone ==
  ASSUME LoadInv, EvalInv, NEW l \in Loads, phase[l] = "ok"
  PROVE  status[RootModule(l)] \in {"evaluated", "errored"}
  BY RootType, ReachSelf DEF EvalInv, OkSettled, Settled

\* V8 links the graph of a root and enters the root.
LEMMA EvaluateInv ==
  ASSUME LoadInv, EvalInv, NEW l \in Loads, Evaluate(l)
  PROVE  LoadInv' /\ EvalInv'
<1> DEFINE m == RootModule(l)
<1>1. /\ path = <<>> /\ phase[l] = "done" /\ Links(m) /\ status[m] # "evaluated"
      /\ status[m] # "errored"
      /\ \A o \in Loads : phase[o] # "evaluating"
      /\ status' = [Linked(m) EXCEPT ![m] = "evaluating"]
      /\ path' = <<m>> /\ promised' = promised \cup {m}
      /\ phase' = [phase EXCEPT ![l] = "evaluating"]
      /\ UNCHANGED <<program, isolate, registered, aliased, root, pending, isPending,
                     fetches, async, waits, unhandled>>
  BY DEF Evaluate, Quiet, Links
<1>2. m \in Specifiers /\ m \in registered
  BY RootType, <1>1 DEF LoadInv, RootKnown
<1>3. ToLink(m) \subseteq registered
  BY <1>1 DEF Links
<1>4. \A d \in Specifiers :
        status'[d] = IF d = m THEN "evaluating"
                     ELSE IF d \in ToLink(m) THEN "linked" ELSE status[d]
  BY <1>1, <1>2 DEF Linked
<1>5. \A d \in ToLink(m) : status[d] \in {"none", "new"}
  BY DEF ToLink
<1>6. \A d \in Specifiers, v \in {"evaluated", "errored"} : status'[d] = v <=> status[d] = v
  BY <1>1, <1>4, <1>5
<1>7. \A d \in Specifiers : status'[d] = "evaluating" <=> d = m
  BY <1>1, <1>4, NoneEvaluating
<1>8. TypeOK'
  <2>1. status' \in [Specifiers -> Statuses]
    <3>1. Linked(m) \in [Specifiers -> Statuses]
      BY DEF Linked, LoadInv, Types, TypeOK, Statuses
    <3>2. [Linked(m) EXCEPT ![m] = "evaluating"] \in [Specifiers -> Statuses]
      BY <3>1 DEF Statuses
    <3> QED
      BY <1>1, <3>2
  <2>2. \A s \in Specifiers : status'[s] # "none" <=> s \in registered'
    BY <1>1, <1>2, <1>3, <1>4 DEF LoadInv, Types, TypeOK
  <2>3. path' \in Seq(Specifiers)
    BY <1>1, <1>2
  <2>4. EvaluationTypeOK'
    BY <1>1, <1>2, <2>3 DEF LoadInv, Types, TypeOK, EvaluationTypeOK
  <2>5. phase' \in [Loads -> Phases]
    BY <1>1 DEF LoadInv, Types, TypeOK, Phases
  <2> QED
    BY <1>1, <2>1, <2>2, <2>4, <2>5 DEF LoadInv, Types, TypeOK
<1>9. LoadInv'
  BY <1>1, <1>8, PhaseLoads
<1>10. \A o \in Loads : /\ RootModule(o)' = RootModule(o)
                        /\ phase'[o] = "evaluating" <=> o = l
                        /\ phase'[o] = "ok" <=> phase[o] = "ok"
  BY <1>1 DEF RootModule, LoadInv, Types, TypeOK
<1>11. \A o \in Loads : phase[o] = "ok" => RootModule(o) # m
  BY <1>1, OkRootDone
<1>12. \A d \in Specifiers : Settled(d) <=> Settled(d)'
  BY <1>1, <1>6, ReachKept DEF Settled
<1>13. \A d \in Specifiers : Reach(d) \subseteq Specifiers
  BY ReachDependencies
<1>14. /\ Len(path') = 1 /\ path'[1] = m /\ path' # <<>> /\ Entered' = {m}
  BY <1>1 DEF Entered
<1>15. PathDistinct' /\ PathEvaluating'
  BY <1>2, <1>7, <1>14 DEF PathDistinct, PathEvaluating
<1>16. Rooted' /\ LeftDone'
  <2>1. \A d \in Specifiers : d \in Reach(d)'
    BY <1>1, ReachSelf, ReachKept
  <2>2. ASSUME NEW d \in Specifiers, status'[d] = "evaluating"
        PROVE  path' # <<>> /\ d \in Reach(path[1])'
    BY <1>7, <1>14, <2>1, <2>2
  <2>3. Rooted'
    BY <2>2 DEF Rooted
  <2>4. LeftDone'
    BY <1>7, <1>14 DEF LeftDone
  <2> QED
    BY <2>3, <2>4
<1>17. AsyncOnly'
  <2>1. \A d \in async : d \in Specifiers /\ status[d] = "evaluated"
    BY <1>1, NoneEvaluating DEF LoadInv, Types, TypeOK, EvaluationTypeOK, EvalInv, AsyncOnly
  <2> QED
    BY <1>1, <1>6, <2>1, ReachKept DEF EvalInv, AsyncOnly
<1>18. GraphSettled'
  BY <1>1, <1>6, <1>12, <1>13, ReachKept DEF EvalInv, GraphSettled
<1>19. OkSettled'
  BY <1>1, <1>10, <1>12, <1>13, RootType, ReachKept DEF EvalInv, OkSettled
<1>20. OneEvaluation'
  BY <1>1, <1>10, <1>11, <1>14 DEF OneEvaluation
<1>21. PromisedDone'
  <2>1. \A d \in promised : d \in Specifiers /\ status[d] \in {"evaluated", "errored"}
    BY <1>1 DEF LoadInv, Types, TypeOK, EvaluationTypeOK, EvalInv, PromisedDone
  <2> QED
    BY <1>1, <1>6, <1>14, <2>1 DEF PromisedDone
<1>22. PromisedHeld'
  <2>1. \A d \in promised : d \in Specifiers
    BY DEF LoadInv, Types, TypeOK, EvaluationTypeOK
  <2> QED
    BY <1>1, <1>6, <1>10, <2>1 DEF EvalInv, PromisedHeld
<1>23. LateFailureReported'
  BY <1>1, <1>6, <1>10, <1>11, RootType DEF EvalInv, LateFailureReported
<1>24. ReportedOnce'
  BY <1>1, <1>10 DEF EvalInv, ReportedOnce
<1> QED
  BY <1>9, <1>15, <1>16, <1>17, <1>18, <1>19, <1>20, <1>21, <1>22, <1>23, <1>24 DEF EvalInv

\* The module V8 evaluates is one of those it has entered, and belongs to the graph of
\* the first of them.
LEMMA TopEntered ==
  ASSUME LoadInv, EvalInv, path # <<>>
  PROVE  /\ path \in Seq(Specifiers) /\ Len(path) \in Nat /\ Len(path) >= 1
         /\ path[1] \in Entered /\ Top \in Entered /\ Entered \subseteq Specifiers
         /\ status[Top] = "evaluating" /\ Top \in Reach(path[1])
<1>1. path \in Seq(Specifiers)
  BY DEF LoadInv, Types, TypeOK, EvaluationTypeOK
<1>2. Len(path) \in Nat /\ Len(path) >= 1
  BY <1>1
<1>3. \A i \in 1..Len(path) : path[i] \in Specifiers
  BY <1>1
<1>4. path[1] \in Entered /\ Top \in Entered /\ Entered \subseteq Specifiers
  BY <1>2, <1>3 DEF Entered, Top
<1>5. status[Top] = "evaluating"
  BY <1>4 DEF EvalInv, PathEvaluating
<1> QED
  BY <1>1, <1>2, <1>4, <1>5 DEF EvalInv, Rooted

\* What V8 does to modules between two calls of evaluate leaves the loads, and what they
\* rely on, as it was, provided that modules fail only late, or in evaluation.
LEMMA LoadsUnaware ==
  ASSUME LoadInv, EvalInv, TypeOK',
         UNCHANGED <<program, isolate, registered, aliased, loadVars, promised>>,
         \A d \in Specifiers :
           /\ status[d] = "evaluated" =>
                \/ status'[d] = "evaluated"
                \/ status'[d] = "errored" /\ Asynchronous(d)
                                          /\ (d \in promised => d \in unhandled')
           /\ status[d] = "errored" => status'[d] = "errored",
         unhandled \subseteq unhandled'
  PROVE  LoadInv' /\ OkSettled' /\ PromisedHeld' /\ LateFailureReported'
<1>1. LoadInv'
  BY KeptLoads
<1>2. phase' = phase /\ root' = root /\ \A o \in Loads : RootModule(o)' = RootModule(o)
  BY DEF loadVars, RootModule
<1>3. \A d \in Specifiers : Reach(d) \subseteq Specifiers
  BY ReachDependencies
<1>4. \A d \in Specifiers : Settled(d) => Settled(d)'
  BY SettledStays
<1>5. OkSettled'
  BY <1>2, <1>3, <1>4, RootType, ReachKept DEF EvalInv, OkSettled
<1>6. PromisedHeld'
  <2>1. \A d \in promised : d \in Specifiers
    BY DEF LoadInv, Types, TypeOK, EvaluationTypeOK
  <2> QED
    BY <1>2, <2>1 DEF EvalInv, PromisedHeld
<1>7. LateFailureReported'
  <2> SUFFICES ASSUME NEW o \in Loads, phase[o] = "ok", status'[RootModule(o)] = "errored",
                      RootModule(o) \in promised
               PROVE  RootModule(o) \in unhandled' \/ isolate = "dead"
    BY <1>2 DEF LateFailureReported
  <2>1. RootModule(o) \in Specifiers /\ status[RootModule(o)] \in {"evaluated", "errored"}
    BY RootType, OkRootDone
  <2>2. CASE status[RootModule(o)] = "evaluated"
    BY <2>1, <2>2
  <2>3. CASE status[RootModule(o)] = "errored"
    BY <2>3 DEF EvalInv, LateFailureReported
  <2> QED
    BY <2>1, <2>2, <2>3
<1> QED
  BY <1>1, <1>5, <1>6, <1>7

\* V8 goes on to a dependency.
LEMMA EnterInv ==
  ASSUME LoadInv, EvalInv, NEW d \in Specifiers, EnterDependency(d)
  PROVE  LoadInv' /\ EvalInv'
<1>1. /\ path # <<>> /\ d \in Dependencies(Top) /\ status[d] = "linked"
      /\ status' = [status EXCEPT ![d] = "evaluating"]
      /\ path' = Append(path, d)
      /\ UNCHANGED <<program, isolate, registered, aliased, loadVars, async, waits,
                     promised, unhandled>>
  BY DEF EnterDependency
<1>2. /\ path \in Seq(Specifiers) /\ Len(path) \in Nat /\ Len(path) >= 1
      /\ Top \in Specifiers /\ Top \in Reach(path[1])
      /\ path[1] \in Specifiers /\ Entered \subseteq Specifiers
  BY <1>1, TopEntered
<1>3. /\ path' \in Seq(Specifiers) /\ path' # <<>> /\ Len(path') = Len(path) + 1
      /\ \A i \in 1..Len(path) : path'[i] = path[i]
      /\ path'[Len(path) + 1] = d
  BY <1>1, <1>2, AppendProperties
<1>4. path'[1] = path[1]
  BY <1>2, <1>3
<1>5. Entered' = Entered \cup {d}
  <2>1. 1..(Len(path) + 1) = 1..Len(path) \cup {Len(path) + 1}
    BY <1>2
  <2>2. Entered' = {path'[i] : i \in 1..(Len(path) + 1)}
    BY <1>3 DEF Entered
  <2> QED
    BY <1>3, <2>1, <2>2 DEF Entered
<1>6. d \notin Entered
  BY <1>1 DEF EvalInv, PathEvaluating
<1>7. \A e \in Specifiers : status'[e] = IF e = d THEN "evaluating" ELSE status[e]
  BY <1>1 DEF LoadInv, Types, TypeOK
<1>8. \A e \in Specifiers, v \in {"evaluated", "errored"} : status'[e] = v <=> status[e] = v
  BY <1>1, <1>7
<1>9. TypeOK'
  <2>1. status' \in [Specifiers -> Statuses]
    BY <1>1 DEF LoadInv, Types, TypeOK, Statuses
  <2>2. \A s \in Specifiers : status'[s] # "none" <=> s \in registered'
    BY <1>1, <1>7 DEF LoadInv, Types, TypeOK
  <2>3. EvaluationTypeOK'
    BY <1>1, <1>3 DEF LoadInv, Types, TypeOK, EvaluationTypeOK
  <2> QED
    BY <1>1, <2>1, <2>2, <2>3 DEF LoadInv, Types, TypeOK, loadVars
<1>10. LoadInv' /\ OkSettled' /\ PromisedHeld' /\ LateFailureReported'
  BY <1>1, <1>8, <1>9, LoadsUnaware
<1>11. phase' = phase /\ \A o \in Loads : RootModule(o)' = RootModule(o)
  BY <1>1 DEF loadVars, RootModule
<1>12. PathDistinct'
  <2>1. \A i \in 1..Len(path) : path'[i] \in Entered
    BY <1>3 DEF Entered
  <2>2. \A i \in 1..Len(path') : i \in 1..Len(path) \/ i = Len(path) + 1
    BY <1>2, <1>3
  <2> QED
    BY <1>3, <1>6, <2>1, <2>2 DEF EvalInv, PathDistinct
<1>13. PathEvaluating'
  BY <1>2, <1>5, <1>7 DEF EvalInv, PathEvaluating
<1>14. Rooted'
  <2>1. d \in Reach(path[1])
    BY <1>1, <1>2, ReachDependencies, ReachTransitive
  <2>2. \A e \in Specifiers : status'[e] = "evaluating" => e \in Reach(path[1])
    BY <1>7, <2>1 DEF EvalInv, Rooted
  <2>3. \A e : Reach(e)' = Reach(e)
    BY <1>1, ReachKept
  <2> QED
    BY <1>3, <1>4, <2>2, <2>3 DEF Rooted
<1>15. LeftDone'
  <2>1. \A e \in Specifiers : \A f \in Dependencies(e) : f \in Specifiers
    BY FoundType, ImportsType DEF LoadInv, Types, Dependencies
  <2> QED
    BY <1>1, <1>5, <1>7, <2>1, ReachKept DEF EvalInv, LeftDone
<1>16. AsyncOnly'
  <2>1. async \subseteq Specifiers
    BY DEF LoadInv, Types, TypeOK, EvaluationTypeOK
  <2> QED
    BY <1>1, <1>7, <2>1, ReachKept DEF EvalInv, AsyncOnly
<1>17. GraphSettled'
  <2>1. \A e \in Specifiers : Reach(e) \subseteq Specifiers
    BY ReachDependencies
  <2>2. \A e \in Specifiers : Settled(e) <=> Settled(e)'
    BY <1>1, <1>8, ReachKept DEF Settled
  <2> QED
    BY <1>1, <1>8, <2>1, <2>2, ReachKept DEF EvalInv, GraphSettled
<1>18. OneEvaluation'
  BY <1>1, <1>3, <1>4, <1>11 DEF EvalInv, OneEvaluation
<1>19. PromisedDone'
  <2>1. promised \subseteq Specifiers
    BY DEF LoadInv, Types, TypeOK, EvaluationTypeOK
  <2> QED
    BY <1>1, <1>3, <1>4, <1>8, <2>1 DEF EvalInv, PromisedDone
<1>20. ReportedOnce'
  BY <1>1, <1>11 DEF EvalInv, ReportedOnce
<1> QED
  BY <1>10, <1>12, <1>13, <1>14, <1>15, <1>16, <1>17, <1>18, <1>19, <1>20 DEF EvalInv

\* A body throws, or a dependency is broken: all that V8 has entered fails, and none of
\* it belongs to a graph that is evaluated.
LEMMA ThrowsInv ==
  ASSUME LoadInv, EvalInv, EvaluationThrows
  PROVE  LoadInv' /\ EvalInv'
<1> DEFINE failed == {d \in Specifiers : status[d] = "evaluating"}
<1>1. /\ path # <<>> /\ path' = <<>>
      /\ status' = [d \in Specifiers |-> IF d \in failed THEN "errored" ELSE status[d]]
      /\ async' = async \ failed
      /\ unhandled' = unhandled \cup {path[1]}
      /\ UNCHANGED <<program, isolate, registered, aliased, loadVars, waits, promised>>
  BY DEF EvaluationThrows
<1>2. path[1] \in Specifiers /\ status[path[1]] = "evaluating"
  BY <1>1, TopEntered DEF EvalInv, PathEvaluating
<1>3. \A d \in Specifiers :
        status'[d] = IF status[d] = "evaluating" THEN "errored" ELSE status[d]
  BY <1>1
<1>4. PICK l \in Loads : phase[l] = "evaluating" /\ RootModule(l) = path[1]
  BY <1>1 DEF EvalInv, OneEvaluation
<1>5. path[1] \in promised
  BY <1>4 DEF EvalInv, OneEvaluation
<1>6. TypeOK'
  <2>1. status' \in [Specifiers -> Statuses]
    BY <1>1 DEF LoadInv, Types, TypeOK, Statuses
  <2>2. \A s \in Specifiers : status'[s] # "none" <=> s \in registered'
    BY <1>1, <1>3 DEF LoadInv, Types, TypeOK
  <2>3. path' \in Seq(Specifiers)
    BY <1>1, EmptySeq
  <2>4. EvaluationTypeOK'
    BY <1>1, <1>5, <2>3 DEF LoadInv, Types, TypeOK, EvaluationTypeOK
  <2> QED
    BY <1>1, <2>1, <2>2, <2>4 DEF LoadInv, Types, TypeOK, loadVars
<1>7. LoadInv' /\ OkSettled' /\ PromisedHeld' /\ LateFailureReported'
  BY <1>1, <1>3, <1>6, LoadsUnaware
<1>8. phase' = phase /\ \A o \in Loads : RootModule(o)' = RootModule(o)
  BY <1>1 DEF loadVars, RootModule
<1>9. Len(path') = 0 /\ Entered' = {}
  BY <1>1 DEF Entered
<1>10. \A d \in Specifiers : status'[d] # "evaluating"
  BY <1>3
<1>11. PathDistinct' /\ PathEvaluating' /\ Rooted' /\ LeftDone'
  BY <1>9, <1>10 DEF PathDistinct, PathEvaluating, Rooted, LeftDone
<1>12. AsyncOnly'
  <2>1. async \subseteq Specifiers
    BY DEF LoadInv, Types, TypeOK, EvaluationTypeOK
  <2> QED
    BY <1>1, <1>3, <2>1, ReachKept DEF EvalInv, AsyncOnly
<1>13. GraphSettled'
  <2>1. \A d \in Specifiers : Reach(d) \subseteq Specifiers
    BY ReachDependencies
  <2>2. \A d \in Specifiers : Settled(d) => Settled(d)'
    BY <1>1, <1>3, SettledStays DEF Settled
  <2> QED
    BY <1>1, <1>3, <2>1, <2>2, ReachKept DEF EvalInv, GraphSettled
<1>14. OneEvaluation'
  BY <1>1, <1>8 DEF EvalInv, OneEvaluation
<1>15. PromisedDone'
  <2>1. promised \subseteq Specifiers
    BY DEF LoadInv, Types, TypeOK, EvaluationTypeOK
  <2> QED
    BY <1>1, <1>2, <1>3, <2>1 DEF EvalInv, PromisedDone
<1>16. ReportedOnce'
  BY <1>1, <1>4, <1>8 DEF EvalInv, ReportedOnce
<1> QED
  BY <1>7, <1>11, <1>12, <1>13, <1>14, <1>15, <1>16 DEF EvalInv

\* The module's body has run, or it is left.  When V8 leaves a cycle with it, the graphs
\* of the cycle's modules have nothing in them that V8 has not been through.
LEMMA ExecuteInv ==
  ASSUME LoadInv, EvalInv, Execute
  PROVE  LoadInv' /\ EvalInv'
<1> DEFINE t == Top
           leaves == Reach(t) \cap Entered' = {}
<1>1. /\ path # <<>> /\ DependenciesDone
      /\ async' = (IF RunsLater THEN async \cup {t} ELSE async)
      /\ waits' = [waits EXCEPT ![t] = Blockers(t)]
      /\ path' = SubSeq(path, 1, Len(path) - 1)
      /\ status' = (IF leaves
                    THEN [d \in Specifiers |->
                            IF d \in Reach(t) /\ status[d] = "evaluating"
                            THEN "evaluated" ELSE status[d]]
                    ELSE status)
      /\ UNCHANGED <<program, isolate, registered, aliased, loadVars, promised, unhandled>>
  BY DEF Execute
<1>2. /\ path \in Seq(Specifiers) /\ Len(path) \in Nat /\ Len(path) >= 1
      /\ t \in Specifiers /\ t \in Entered /\ t \in Reach(path[1])
      /\ status[t] = "evaluating"
      /\ path[1] \in Specifiers /\ Entered \subseteq Specifiers
  BY <1>1, TopEntered
<1>3. /\ path' \in Seq(Specifiers) /\ Len(path') = Len(path) - 1
      /\ \A i \in 1..(Len(path) - 1) : path'[i] = path[i]
  <2>1. \A i \in 1..(Len(path) - 1) : path[i] \in Specifiers
    BY <1>2
  <2>2. /\ SubSeq(path, 1, Len(path) - 1) \in Seq(Specifiers)
        /\ Len(SubSeq(path, 1, Len(path) - 1)) =
             IF 1 <= Len(path) - 1 THEN (Len(path) - 1) - 1 + 1 ELSE 0
        /\ \A i \in 1..((Len(path) - 1) - 1 + 1) :
             SubSeq(path, 1, Len(path) - 1)[i] = path[1 + i - 1]
    BY <1>2, <2>1, SubSeqProperties
  <2>3. (Len(path) - 1) - 1 + 1 = Len(path) - 1
    BY <1>2
  <2>4. \A i \in 1..(Len(path) - 1) : 1 + i - 1 = i
    OBVIOUS
  <2> QED
    BY <1>1, <1>2, <2>2, <2>3, <2>4
<1>4. /\ Entered' = Entered \ {t}
      /\ path' # <<>> => path'[1] = path[1]
      /\ path' = <<>> => path[1] = t /\ Entered' = {}
  <2>1. Entered' = {path[i] : i \in 1..(Len(path) - 1)}
    BY <1>3 DEF Entered
  <2>2. \A i \in 1..(Len(path) - 1) : path[i] # t
    BY <1>2 DEF EvalInv, PathDistinct, Top
  <2>3. \A i \in 1..Len(path) : i \in 1..(Len(path) - 1) \/ path[i] = t
    BY <1>2 DEF Top
  <2>4. Entered' = Entered \ {t}
    <3>1. \A i \in 1..(Len(path) - 1) : i \in 1..Len(path)
      BY <1>2
    <3>2. Entered' \subseteq Entered \ {t}
      BY <2>1, <2>2, <3>1 DEF Entered
    <3>3. Entered \ {t} \subseteq Entered'
      BY <2>1, <2>3 DEF Entered
    <3> QED
      BY <3>2, <3>3
  <2>5. path' # <<>> => path'[1] = path[1]
    BY <1>2, <1>3
  <2>6. path' = <<>> => path[1] = t /\ Entered' = {}
    <3>1. path' = <<>> => Len(path') = 0
      BY EmptySeq
    <3>2. path' = <<>> => Len(path) = 1
      BY <1>2, <1>3, <3>1
    <3>3. 1..(1 - 1) = {}
      OBVIOUS
    <3> QED
      BY <2>1, <3>2, <3>3 DEF Top
  <2> QED
    BY <2>4, <2>5, <2>6
<1>5. \A d \in Specifiers :
        status'[d] = IF leaves /\ d \in Reach(t) /\ status[d] = "evaluating"
                     THEN "evaluated" ELSE status[d]
  BY <1>1
<1>6. Reach(t) \subseteq Specifiers /\ t \in Reach(t)
  BY <1>2, ReachDependencies, ReachSelf
<1>7. TypeOK'
  <2>1. status' \in [Specifiers -> Statuses]
    BY <1>1 DEF LoadInv, Types, TypeOK, Statuses
  <2>2. \A s \in Specifiers : status'[s] # "none" <=> s \in registered'
    BY <1>1, <1>5 DEF LoadInv, Types, TypeOK
  <2>3. Blockers(t) \subseteq Specifiers
    BY DEF Blockers, LoadInv, Types, TypeOK, EvaluationTypeOK
  <2>4. EvaluationTypeOK'
    BY <1>1, <1>2, <1>3, <2>3 DEF LoadInv, Types, TypeOK, EvaluationTypeOK
  <2> QED
    BY <1>1, <2>1, <2>2, <2>4 DEF LoadInv, Types, TypeOK, loadVars
<1>8. LoadInv' /\ OkSettled' /\ PromisedHeld' /\ LateFailureReported'
  BY <1>1, <1>5, <1>7, LoadsUnaware
<1>9. phase' = phase /\ \A o \in Loads : RootModule(o)' = RootModule(o)
  BY <1>1 DEF loadVars, RootModule
<1>10. PathDistinct'
  BY <1>2, <1>3 DEF EvalInv, PathDistinct
<1>11. PathEvaluating'
  BY <1>2, <1>4, <1>5 DEF EvalInv, PathEvaluating
<1>12. Rooted'
  <2>1. ASSUME NEW d \in Specifiers, status'[d] = "evaluating"
        PROVE  path' # <<>> /\ d \in Reach(path[1])
    <3>1. status[d] = "evaluating" /\ d \in Reach(path[1])
      BY <1>5, <2>1 DEF EvalInv, Rooted
    <3>2. ~ (leaves /\ d \in Reach(t))
      BY <1>5, <2>1, <3>1
    <3>3. path' = <<>> => leaves
      BY <1>4
    <3> QED
      BY <1>4, <3>1, <3>2, <3>3
  <2>2. \A d : Reach(d)' = Reach(d)
    BY <1>1, ReachKept
  <2> QED
    BY <1>4, <2>1, <2>2 DEF Rooted
<1>13. \A d \in Specifiers : status[d] = "evaluating" /\ d \notin Entered' =>
         \A e \in Dependencies(d) : status[e] \in {"evaluating", "evaluated"}
  BY <1>1, <1>4 DEF EvalInv, LeftDone, DependenciesDone
<1>14. LeftDone'
  <2>1. \A e \in Specifiers : \A f \in Dependencies(e) : f \in Specifiers
    BY FoundType, ImportsType DEF LoadInv, Types, Dependencies
  <2>2. \A d \in Specifiers : status'[d] = "evaluating" => status[d] = "evaluating"
    BY <1>5
  <2> QED
    BY <1>1, <1>5, <1>13, <2>1, <2>2, ReachKept DEF LeftDone
<1>15. AsyncOnly'
  <2>1. async \subseteq Specifiers
    BY DEF LoadInv, Types, TypeOK, EvaluationTypeOK
  <2>2. RunsLater => Asynchronous(t)
    <3>1. CASE t \in program.awaits
      BY <1>6, <3>1 DEF Asynchronous
    <3>2. CASE Blockers(t) # {}
      <4>1. PICK d \in Dependencies(t) :
              async \cap (IF status[d] = "evaluated" THEN Cycle(d) ELSE {d}) # {}
        BY <3>2 DEF Blockers
      <4>2. d \in Specifiers /\ d \in Reach(t)
        BY <1>2, FoundType, ImportsType, ReachDependencies DEF LoadInv, Types, Dependencies
      <4>3. PICK e \in async : e \in Reach(d)
        BY <4>1, <4>2, ReachSelf DEF Cycle
      <4>4. e \in Reach(t)
        BY <1>2, <4>2, <4>3, ReachTransitive
      <4> QED
        BY <1>2, <4>3, <4>4, AsynchronousUp DEF EvalInv, AsyncOnly
    <3> QED
      BY <3>1, <3>2 DEF RunsLater
  <2>3. \A d \in async' : d \in async \/ (d = t /\ RunsLater)
    BY <1>1
  <2>4. \A d \in async' : Asynchronous(d) /\ status[d] \in {"evaluating", "evaluated"}
    BY <1>2, <2>2, <2>3 DEF EvalInv, AsyncOnly
  <2>5. \A d \in async' : d \in Specifiers
    BY <1>2, <2>1, <2>3
  <2> QED
    BY <1>1, <1>5, <2>4, <2>5, ReachKept DEF AsyncOnly
<1>16. ASSUME leaves PROVE \A e \in Reach(t) : Settled(e)'
  <2> DEFINE done == {e \in Specifiers : \E d \in Specifiers :
                                           status[d] = "evaluated" /\ e \in Reach(d)}
             gone == {e \in Reach(t) : status[e] = "evaluating"} \cup done
  <2>1. t \in gone /\ gone \in SUBSET Specifiers
    BY <1>2, <1>6
  <2>2. \A d, e : d \in Specifiers /\ e \in Dependencies(d) => e \in Specifiers /\ e \in Reach(d)
    BY FoundType, ImportsType, ReachDependencies DEF LoadInv, Types, Dependencies
  <2>3. \A d \in done : Dependencies(d) \subseteq done
    BY <2>2, ReachTransitive
  <2>4. ASSUME NEW d \in Reach(t), status[d] = "evaluating"
        PROVE  Dependencies(d) \subseteq gone
    <3>1. d \notin Entered'
      BY <1>16
    <3>2. \A e \in Dependencies(d) : status[e] \in {"evaluating", "evaluated"}
      BY <1>6, <1>13, <2>4, <3>1
    <3>3. \A e \in Dependencies(d) : e \in Specifiers /\ e \in Reach(d) /\ e \in Reach(t)
      BY <1>2, <1>6, <2>2, ReachTransitive
    <3>4. \A e \in Dependencies(d) : status[e] = "evaluated" => e \in done
      BY <3>3, ReachSelf
    <3> QED
      BY <3>2, <3>3, <3>4
  <2>5. Closed(gone)
    BY <2>3, <2>4 DEF Closed
  <2>6. Reach(t) \subseteq gone
    BY <1>2, <2>1, <2>5, ReachLeast
  <2>7. \A e \in done : Settled(e)
    BY DEF EvalInv, GraphSettled
  <2>8. \A e \in Specifiers : Settled(e) => Settled(e)'
    BY <1>1, <1>5, SettledStays DEF Settled
  <2>9. \A e \in Reach(t) : status[e] = "evaluating" => Settled(e)'
    BY <1>5, <1>6, <1>16 DEF Settled
  <2> QED
    BY <1>6, <2>6, <2>7, <2>8, <2>9
<1>17. GraphSettled'
  <2>1. \A d \in Specifiers : Reach(d) \subseteq Specifiers
    BY ReachDependencies
  <2>2. \A e \in Specifiers : Settled(e) => Settled(e)'
    BY <1>1, <1>5, SettledStays DEF Settled
  <2>3. ASSUME NEW d \in Specifiers, status'[d] = "evaluated", NEW e \in Reach(d)
        PROVE  Settled(e)'
    <3>1. CASE status[d] = "evaluated"
      BY <2>1, <2>2, <3>1 DEF EvalInv, GraphSettled
    <3>2. CASE status[d] # "evaluated"
      <4>1. leaves /\ d \in Reach(t)
        BY <1>5, <2>3, <3>2
      <4>2. e \in Reach(t)
        BY <1>2, <4>1, ReachTransitive
      <4> QED
        BY <1>16, <4>1, <4>2
    <3> QED
      BY <3>1, <3>2
  <2>4. \A d : Reach(d)' = Reach(d)
    BY <1>1, ReachKept
  <2> QED
    BY <2>3, <2>4 DEF GraphSettled
<1>18. OneEvaluation'
  BY <1>1, <1>4, <1>9 DEF EvalInv, OneEvaluation
<1>19. PromisedDone'
  <2> SUFFICES ASSUME NEW d \in promised
               PROVE  \/ status'[d] \in {"evaluated", "errored"}
                      \/ path' # <<>> /\ d = path'[1]
    BY <1>1 DEF PromisedDone
  <2>1. d \in Specifiers
    BY DEF LoadInv, Types, TypeOK, EvaluationTypeOK
  <2>2. CASE status[d] \in {"evaluated", "errored"}
    BY <1>5, <2>1, <2>2
  <2>3. CASE d = path[1] /\ path' # <<>>
    BY <1>4, <2>3
  <2>4. CASE d = path[1] /\ path' = <<>>
    <3>1. d = t /\ Entered' = {}
      BY <1>4, <2>4
    <3> QED
      BY <1>2, <1>5, <1>6, <3>1
  <2> QED
    BY <1>1, <2>2, <2>3, <2>4 DEF EvalInv, PromisedDone
<1>20. ReportedOnce'
  BY <1>1, <1>9 DEF EvalInv, ReportedOnce
<1> QED
  BY <1>8, <1>10, <1>11, <1>12, <1>14, <1>15, <1>17, <1>18, <1>19, <1>20 DEF EvalInv

\* A body that was left ends well, or fails together with all that wait for it.
LEMMA BodyInv ==
  ASSUME LoadInv, EvalInv, NEW d \in Specifiers, BodyStep(d)
  PROVE  LoadInv' /\ EvalInv'
<1>1. /\ path = <<>> /\ path' = path
      /\ UNCHANGED <<program, isolate, registered, aliased, loadVars, promised>>
      /\ async' \subseteq async /\ waits' \in [Specifiers -> SUBSET Specifiers]
  <2>1. waits \in [Specifiers -> SUBSET Specifiers]
    BY DEF LoadInv, Types, TypeOK, EvaluationTypeOK
  <2>2. CASE Fulfilled(d)
    BY <2>1, <2>2 DEF Fulfilled, BodyEnds
  <2>3. CASE Rejected(d)
    BY <2>1, <2>3 DEF Rejected, BodyEnds
  <2> QED
    BY <2>2, <2>3 DEF BodyStep
<1>2. PICK failed \in SUBSET async :
        /\ status' = [p \in Specifiers |-> IF p \in failed THEN "errored" ELSE status[p]]
        /\ async' \cap failed = {}
        /\ unhandled' = unhandled \cup (promised \cap failed)
  <2>1. CASE Fulfilled(d)
    <3>1. status' = [p \in Specifiers |-> IF p \in {} THEN "errored" ELSE status[p]]
      BY <2>1 DEF Fulfilled, LoadInv, Types, TypeOK
    <3>2. unhandled' = unhandled \cup (promised \cap {})
      BY <2>1 DEF Fulfilled
    <3> QED
      BY <3>1, <3>2
  <2>2. CASE Rejected(d)
    <3> DEFINE F == {p \in async : p = d \/ d \in waits[p]}
    <3>1. /\ F \in SUBSET async
          /\ status' = [p \in Specifiers |-> IF p \in F THEN "errored" ELSE status[p]]
          /\ async' \cap F = {}
          /\ unhandled' = unhandled \cup (promised \cap F)
      BY <2>2 DEF Rejected
    <3> HIDE DEF F
    <3> QED
      BY <3>1
  <2> QED
    BY <2>1, <2>2 DEF BodyStep
<1>3. \A p \in Specifiers : status'[p] = IF p \in failed THEN "errored" ELSE status[p]
  BY <1>2
<1>4. /\ async \subseteq Specifiers /\ promised \subseteq Specifiers
      /\ unhandled \subseteq promised /\ path \in Seq(Specifiers)
  BY DEF LoadInv, Types, TypeOK, EvaluationTypeOK
<1>5. \A p \in Specifiers : status[p] # "evaluating" /\ status'[p] # "evaluating"
  BY <1>1, <1>3, NoneEvaluating
<1>6. \A p \in failed : Asynchronous(p) /\ status[p] = "evaluated"
  BY <1>4, <1>5 DEF EvalInv, AsyncOnly
<1>7. TypeOK'
  <2>1. status' \in [Specifiers -> Statuses]
    BY <1>2 DEF LoadInv, Types, TypeOK, Statuses
  <2>2. \A s \in Specifiers : status'[s] # "none" <=> s \in registered'
    BY <1>1, <1>3, <1>6 DEF LoadInv, Types, TypeOK
  <2>3. EvaluationTypeOK'
    BY <1>1, <1>2, <1>4 DEF EvaluationTypeOK
  <2> QED
    BY <1>1, <2>1, <2>2, <2>3 DEF LoadInv, Types, TypeOK, loadVars
<1>8. LoadInv' /\ OkSettled' /\ PromisedHeld' /\ LateFailureReported'
  BY <1>1, <1>2, <1>3, <1>6, <1>7, LoadsUnaware
<1>9. phase' = phase /\ \A o \in Loads : RootModule(o)' = RootModule(o)
  BY <1>1 DEF loadVars, RootModule
<1>10. Len(path) = 0 /\ Len(path') = 0 /\ Entered' = {}
  BY <1>1 DEF Entered
<1>11. PathDistinct' /\ PathEvaluating' /\ Rooted' /\ LeftDone'
  BY <1>5, <1>10 DEF PathDistinct, PathEvaluating, Rooted, LeftDone
<1>12. AsyncOnly'
  <2>1. \A p \in async' : p \in async /\ p \in Specifiers /\ p \notin failed
    BY <1>1, <1>2, <1>4
  <2>2. \A p \in async' : Asynchronous(p) /\ status'[p] \in {"evaluating", "evaluated"}
    BY <1>3, <2>1 DEF EvalInv, AsyncOnly
  <2> QED
    BY <1>1, <2>2, ReachKept DEF AsyncOnly
<1>13. GraphSettled'
  <2>1. \A p \in Specifiers : Reach(p) \subseteq Specifiers
    BY ReachDependencies
  <2>2. \A p \in Specifiers : Settled(p) => Settled(p)'
    BY <1>1, <1>3, <1>6, SettledStays DEF Settled
  <2>3. \A p \in Specifiers : status'[p] = "evaluated" => status[p] = "evaluated"
    BY <1>3
  <2> QED
    BY <1>1, <2>1, <2>2, <2>3, ReachKept DEF EvalInv, GraphSettled
<1>14. OneEvaluation'
  BY <1>1, <1>9 DEF EvalInv, OneEvaluation
<1>15. PromisedDone'
  BY <1>1, <1>3, <1>4 DEF EvalInv, PromisedDone
<1>16. ReportedOnce'
  <2>1. ASSUME NEW m \in promised, m \in failed
        PROVE  \E l \in Loads : RootModule(l) = m /\ phase[l] \in {"ok", "evaluating"}
    BY <1>6, <2>1 DEF EvalInv, PromisedHeld
  <2> QED
    BY <1>2, <1>9, <2>1 DEF EvalInv, ReportedOnce
<1> QED
  BY <1>8, <1>11, <1>12, <1>13, <1>14, <1>15, <1>16 DEF EvalInv

\* A load is settled: mod_evaluate has called V8 for it, whose promise it takes out of the
\* table, or found its root evaluated.
LEMMA SettleInv ==
  ASSUME LoadInv, EvalInv, NEW l \in Loads, Finish(l) \/ AlreadyEvaluated(l)
  PROVE  LoadInv' /\ EvalInv'
<1> DEFINE m == RootModule(l)
<1>1. /\ isolate # "dead" /\ path = <<>> /\ phase[l] \in {"done", "evaluating"}
      /\ UNCHANGED <<program, registered, aliased, status, root, isPending, fetches,
                     path, async, waits, promised>>
      /\ unhandled' \in {unhandled, unhandled \ {m}}
  BY DEF Finish, AlreadyEvaluated, Quiet, AfterEvaluate, mapVars, evalVars
<1>2. \/ /\ status[m] = "evaluated"
         /\ phase' = [phase EXCEPT ![l] = "ok"] /\ pending' = pending
         /\ isolate' = "running"
      \/ /\ phase[l] = "evaluating" /\ status[m] # "evaluated"
         /\ unhandled' = unhandled \ {m}
         /\ Rejects(l)
  BY DEF Finish, AlreadyEvaluated, Settle, Succeeds, AfterEvaluate
<1>3. phase[l] = "evaluating" \/ \A o \in Loads : phase[o] # "evaluating"
  BY DEF Finish, AlreadyEvaluated, Quiet
<1>4. PICK v \in {"ok", "failed"} : /\ phase' = [phase EXCEPT ![l] = v]
                                    /\ v = "ok" => status[m] = "evaluated"
                                    /\ v = "failed" => /\ phase[l] = "evaluating"
                                                       /\ status[m] # "evaluated"
                                                       /\ m \notin unhandled'
  BY <1>2 DEF Rejects
<1>5. \A o \in Loads : phase'[o] = IF o = l THEN v ELSE phase[o]
  BY <1>4 DEF LoadInv, Types, TypeOK
<1>6. isolate' \in {"starting", "running", "dead"}
  BY <1>2 DEF LoadInv, Types, TypeOK, Rejects
<1>7. EvaluationTypeOK'
  BY <1>1 DEF LoadInv, Types, TypeOK, EvaluationTypeOK
<1>8. LoadInv'
  <2>1. CASE v = "ok"
    <3>1. pending' = pending
      BY <1>2, <1>4, <2>1
    <3>2. TypeOK'
      BY <1>1, <1>4, <1>6, <1>7, <2>1, <3>1 DEF LoadInv, Types, TypeOK, Phases
    <3> QED
      BY <1>1, <1>4, <2>1, <3>1, <3>2, PhaseLoads
  <2>2. CASE v = "failed"
    <3>1. Rejects(l)
      BY <1>2, <1>4, <2>2
    <3>2. /\ aliased' \in SUBSET Specifiers /\ aliased \subseteq aliased'
          /\ status' \in [Specifiers -> Statuses] /\ status' = status
      BY <1>1 DEF LoadInv, Types, TypeOK
    <3> QED
      BY <1>1, <1>7, <3>1, <3>2, FailLoads
  <2> QED
    BY <2>1, <2>2
<1>9. \A o \in Loads : RootModule(o)' = RootModule(o)
  BY <1>1 DEF RootModule
<1>10. m \in Specifiers
  BY RootType
<1>11. \A d \in Specifiers : Reach(d)' = Reach(d) /\ (Settled(d)' <=> Settled(d))
  BY <1>1, ReachKept DEF Settled
<1>12. \A d \in Specifiers : Reach(d) \subseteq Specifiers
  BY ReachDependencies
<1>13. Entered' = Entered
  BY <1>1 DEF Entered
<1>14. /\ PathDistinct' /\ PathEvaluating' /\ Rooted' /\ LeftDone'
       /\ AsyncOnly' /\ PromisedDone'
  BY <1>1, <1>13, ReachKept DEF EvalInv, PathDistinct, PathEvaluating, Rooted, LeftDone,
     AsyncOnly, PromisedDone
<1>15. GraphSettled'
  BY <1>1, <1>11, <1>12 DEF EvalInv, GraphSettled
<1>16. OkSettled'
  <2>1. v = "ok" => \A e \in Reach(m) : Settled(e)
    BY <1>4, <1>10 DEF EvalInv, GraphSettled
  <2>2. \A o \in Loads : phase'[o] = "ok" => \A e \in Reach(RootModule(o)) : Settled(e)
    BY <1>5, <2>1 DEF EvalInv, OkSettled
  <2> QED
    BY <1>9, <1>11, <1>12, <2>2, RootType DEF OkSettled
<1>17. \A o \in Loads : phase'[o] # "evaluating"
  BY <1>3, <1>5 DEF EvalInv, OneEvaluation
<1>18. OneEvaluation'
  BY <1>1, <1>17 DEF OneEvaluation
<1>19. v = "failed" => m \in promised /\ status[m] = "errored"
  <2>1. v = "failed" => m \in promised
    BY <1>4 DEF EvalInv, OneEvaluation
  <2> QED
    BY <1>1, <1>4, <2>1 DEF EvalInv, PromisedDone
<1>20. PromisedHeld'
  <2> SUFFICES ASSUME NEW x \in promised, status[x] # "errored"
               PROVE  \E o \in Loads : RootModule(o) = x /\ phase'[o] \in {"ok", "evaluating"}
    BY <1>1, <1>9 DEF PromisedHeld
  <2>1. PICK o \in Loads : RootModule(o) = x /\ phase[o] \in {"ok", "evaluating"}
    BY DEF EvalInv, PromisedHeld
  <2>2. CASE o = l
    BY <1>5, <1>19, <2>1, <2>2
  <2>3. CASE o # l
    BY <1>5, <2>1, <2>3
  <2> QED
    BY <2>2, <2>3
<1>21. LateFailureReported'
  <2> SUFFICES ASSUME NEW o \in Loads, phase'[o] = "ok", status[RootModule(o)] = "errored",
                      RootModule(o) \in promised
               PROVE  RootModule(o) \in unhandled'
    BY <1>1, <1>9 DEF LateFailureReported
  <2>1. o # l /\ phase[o] = "ok"
    BY <1>4, <1>5
  <2>2. RootModule(o) \in unhandled
    BY <1>1, <2>1 DEF EvalInv, LateFailureReported
  <2>3. CASE phase[l] = "evaluating"
    BY <1>1, <2>1, <2>2, <2>3 DEF EvalInv, OneEvaluation
  <2>4. CASE phase[l] = "done"
    BY <2>2, <2>4 DEF Finish, AlreadyEvaluated, evalVars
  <2> QED
    BY <1>1, <2>3, <2>4
<1>22. ReportedOnce'
  <2> SUFFICES ASSUME NEW x \in unhandled'
               PROVE  \E o \in Loads : RootModule(o) = x /\ phase'[o] \in {"ok", "evaluating"}
    BY <1>9 DEF ReportedOnce
  <2>1. x \in unhandled
    BY <1>1
  <2>2. PICK o \in Loads : RootModule(o) = x /\ phase[o] \in {"ok", "evaluating"}
    BY <2>1 DEF EvalInv, ReportedOnce
  <2>3. o = l => v = "ok"
    BY <1>4, <2>2
  <2> QED
    BY <1>5, <2>2, <2>3
<1> QED
  BY <1>8, <1>14, <1>15, <1>16, <1>18, <1>20, <1>21, <1>22 DEF EvalInv

\* The poll of the isolate returns a pending rejection, and the isolate ends.
LEMMA ReportInv ==
  ASSUME LoadInv, EvalInv, Report
  PROVE  LoadInv' /\ EvalInv'
<1>1. /\ unhandled' \subseteq unhandled /\ isolate' = "dead"
      /\ UNCHANGED <<program, mapVars, loadVars, path, async, waits, promised>>
  BY DEF Report
<1>2. EvaluationTypeOK'
  BY <1>1 DEF LoadInv, Types, TypeOK, EvaluationTypeOK
<1>3. TypeOK'
  BY <1>1, <1>2 DEF LoadInv, Types, TypeOK, mapVars, loadVars
<1>4. LoadInv'
  BY <1>1, <1>3, KeptLoads DEF mapVars
<1>5. /\ phase' = phase /\ status' = status /\ Entered' = Entered
      /\ \A o \in Loads : RootModule(o)' = RootModule(o)
  BY <1>1 DEF mapVars, loadVars, RootModule, Entered
<1>6. \A d \in Specifiers : Reach(d)' = Reach(d) /\ (Settled(d)' <=> Settled(d))
  BY <1>1, <1>5, ReachKept DEF Settled
<1>7. \A d \in Specifiers : Reach(d) \subseteq Specifiers
  BY ReachDependencies
<1>8. /\ PathDistinct' /\ PathEvaluating' /\ Rooted' /\ LeftDone'
      /\ AsyncOnly' /\ PromisedDone'
  BY <1>1, <1>5, ReachKept DEF EvalInv, PathDistinct, PathEvaluating, Rooted, LeftDone,
     AsyncOnly, PromisedDone
<1>9. GraphSettled' /\ OkSettled'
  BY <1>5, <1>6, <1>7, RootType DEF EvalInv, GraphSettled, OkSettled
<1>10. OneEvaluation' /\ PromisedHeld'
  BY <1>1, <1>5 DEF EvalInv, OneEvaluation, PromisedHeld
<1>11. LateFailureReported' /\ ReportedOnce'
  BY <1>1, <1>5 DEF EvalInv, LateFailureReported, ReportedOnce
<1> QED
  BY <1>4, <1>8, <1>9, <1>10, <1>11 DEF EvalInv

-----------------------------------------------------------------------------
(* The steps of a load that call no evaluation.                            *)

\* A load that has not been drained, or that could not be linked.
LEMMA LoadingInv ==
  ASSUME LoadInv, EvalInv, NEW l \in Loads,
         \/ Prepared(l) \/ PrepareFailed(l) \/ AddRoot(l) \/ InstantiateFails(l)
         \/ \E s \in Specifiers : DynImport(l, s) \/ Fetched(l, s) \/ FetchFailed(l, s)
  PROVE  LoadInv' /\ EvalInv'
<1>1. /\ Quiet /\ UNCHANGED <<program, evalVars>>
  BY DEF Prepared, PrepareFailed, AddRoot, InstantiateFails, DynImport, Fetched, FetchFailed
<1>2. EvaluationTypeOK'
  BY <1>1 DEF LoadInv, Types, TypeOK, EvaluationTypeOK, evalVars
<1>3. \A o \in Loads : phase[o] # "evaluating"
  BY <1>1 DEF Quiet
<1>4. CASE \E s \in Specifiers : DynImport(l, s) \/ Prepared(l) \/ AddRoot(l)
  <2>1. LoadInv'
    BY <1>4, BeginLoads
  <2>2. /\ UNCHANGED <<isolate, status>>
        /\ phase[l] \in {"none", "preparing", "resolve"}
        /\ \E p \in {"preparing", "resolve", "root"} : phase' = [phase EXCEPT ![l] = p]
        /\ \A o \in Loads \ {l} : root'[o] = root[o]
    BY <1>4 DEF DynImport, Prepared, AddRoot, mapVars, LoadInv, Types, TypeOK
  <2>3. \A o \in Loads :
          phase[o] \in {"ok", "evaluating"} \/ phase'[o] \in {"ok", "evaluating"}
            => phase'[o] = phase[o] /\ root'[o] = root[o]
    BY <2>2 DEF LoadInv, Types, TypeOK
  <2> QED
    BY <1>1, <2>1, <2>2, <2>3, LoadingEval
<1>5. ASSUME Rejects(l), phase[l] # "ok", root' = root
      PROVE  /\ isolate = "dead" => isolate' = "dead"
             /\ \A o \in Loads :
                  phase[o] \in {"ok", "evaluating"} \/ phase'[o] \in {"ok", "evaluating"}
                    => phase'[o] = phase[o] /\ root'[o] = root[o]
  BY <1>3, <1>5 DEF Rejects, LoadInv, Types, TypeOK
<1>6. CASE \/ PrepareFailed(l)
           \/ \E s \in Specifiers : FetchFailed(l, s)
           \/ \E s \in Specifiers : Fetched(l, s) /\ RegisterFails(l, s)
  <2>1. /\ Rejects(l) /\ phase[l] # "ok" /\ root' = root /\ status' = status
        /\ aliased' \in SUBSET Specifiers /\ aliased \subseteq aliased'
        /\ UNCHANGED <<registered, isPending, fetches>>
    BY <1>6 DEF PrepareFailed, FetchFailed, Fetched, RegisterFails, mapVars, LoadInv,
                Types, TypeOK
  <2>2. status' \in [Specifiers -> Statuses]
    BY <2>1 DEF LoadInv, Types, TypeOK
  <2>3. LoadInv'
    BY <1>1, <1>2, <2>1, <2>2, FailLoads
  <2> QED
    BY <1>1, <1>5, <2>1, <2>3, LoadingEval
<1>7. ASSUME NEW s \in Specifiers, Fetched(l, s), Register(l, s)
      PROVE  LoadInv' /\ EvalInv'
  <2>1. LoadInv'
    BY <1>1, <1>7, RegisterLoads DEF Fetched
  <2>2. /\ isolate' = isolate /\ root' = root
        /\ phase[l] \in {"root", "imports"}
        /\ \E p \in {"done", "imports"} : phase' = [phase EXCEPT ![l] = p]
        /\ status' = IF Found[s] \in registered THEN status
                     ELSE [status EXCEPT ![Found[s]] = "new"]
    BY <1>7 DEF Fetched, Register, AfterRegister
  <2>3. \A o \in Loads :
          phase[o] \in {"ok", "evaluating"} \/ phase'[o] \in {"ok", "evaluating"}
            => phase'[o] = phase[o] /\ root'[o] = root[o]
    BY <2>2 DEF LoadInv, Types, TypeOK
  <2>4. \A d \in Specifiers :
          status'[d] = status[d] \/ (status[d] = "none" /\ status'[d] = "new")
    BY <2>2, FoundType DEF LoadInv, Types, TypeOK
  <2> QED
    BY <1>1, <2>1, <2>2, <2>3, <2>4, LoadingEval
<1>8. CASE InstantiateFails(l)
  <2>1. UNCHANGED <<program, mapVars, loadVars>> /\ isolate' = "dead"
    BY <1>8 DEF InstantiateFails
  <2>2. TypeOK'
    BY <1>2, <2>1 DEF LoadInv, Types, TypeOK, mapVars, loadVars
  <2>3. LoadInv'
    BY <2>1, <2>2, KeptLoads DEF mapVars
  <2>4. phase' = phase /\ root' = root /\ status' = status
    BY <2>1 DEF mapVars, loadVars
  <2> QED
    BY <1>1, <2>1, <2>3, <2>4, LoadingEval
<1> QED
  BY <1>4, <1>6, <1>7, <1>8, ModuleLoaderAssumption DEF Fetched

\* The invariant holds in every state, whatever the program and however many loads
\* share the module map.
THEOREM InvHolds == Spec => []Inv
<1>1. Inv /\ [Next]_vars => Inv'
  <2> SUFFICES ASSUME LoadInv, EvalInv, [Next]_vars PROVE LoadInv' /\ EvalInv'
    BY DEF Inv
  <2>1. ASSUME NEW l \in Loads, NEW s \in Specifiers, DynImport(l, s)
        PROVE  LoadInv' /\ EvalInv'
    BY <2>1, LoadingInv
  <2>2. ASSUME NEW l \in Loads, LoadStep(l) PROVE LoadInv' /\ EvalInv'
    BY <2>2, LoadingInv, EvaluateInv, SettleInv DEF LoadStep
  <2>3. CASE EvaluationStep
    BY <2>3, EnterInv, ThrowsInv, ExecuteInv DEF EvaluationStep
  <2>4. ASSUME NEW d \in Specifiers, BodyStep(d) PROVE LoadInv' /\ EvalInv'
    BY <2>4, BodyInv
  <2>5. CASE Report
    BY <2>5, ReportInv
  <2>6. CASE UNCHANGED vars
    <3>1. UNCHANGED <<program, evalVars, loadVars, mapVars, isolate>>
      BY <2>6 DEF vars, evalVars, loadVars, mapVars
    <3>2. TypeOK'
      BY <2>6 DEF vars, LoadInv, Types, TypeOK, EvaluationTypeOK
    <3>3. LoadInv'
      BY <3>1, <3>2, KeptLoads DEF mapVars
    <3>4. phase' = phase /\ root' = root /\ status' = status
      BY <2>6 DEF vars
    <3> QED
      BY <3>1, <3>3, <3>4, LoadingEval
  <2> QED
    BY <2>1, <2>2, <2>3, <2>4, <2>5, <2>6 DEF Next
<1> QED
  BY InitInv, <1>1, PTL DEF Spec

-----------------------------------------------------------------------------
(* What it implies.                                                        *)

\* The module map, V8's statuses, its evaluation and the loads keep their types, and
\* exactly the registered modules have a status.
THEOREM TypeCorrect == Spec => []TypeOK
  BY InvHolds, PTL DEF Inv, LoadInv, Types

\* No load fetches a specifier twice, whatever cycles, diamonds and redirects the
\* program has, and whatever other loads register meanwhile.
THEOREM FetchesOnce == Spec => []FetchedOnce
  BY InvHolds, PTL DEF Inv, LoadInv

\* The unreachable!() of poll_next is unreachable.
THEOREM NotDrained == Spec => []NeverDrained
  BY InvHolds, PTL DEF Inv, LoadInv

\* When an import() is resolved V8 has been through its whole graph.  What has not run to
\* its end awaits something or depends on what does, and nothing else of the graph fails
\* afterwards: neither another import nor another evaluation takes it back.
THEOREM SuccessIsEvaluated == Spec => []OkMeansEvaluated
<1>1. Inv => OkMeansEvaluated
  BY DEF Inv, EvalInv, OkSettled, Settled, AsyncOnly, OkMeansEvaluated
<1> QED
  BY <1>1, InvHolds, PTL

\* A module that V8 was asked to evaluate, and that fails after its import() was resolved,
\* is in the table of pending rejections until the isolate ends; and a failure that is
\* given to an import() is not left to the next poll as well.
THEOREM FailureGivenOnce == Spec => []FailureToldOnce
<1>1. Inv => FailureToldOnce
  BY DEF Inv, EvalInv, FailureToldOnce
<1> QED
  BY <1>1, InvHolds, PTL

\* A load that drains lacks a module only if it met another load: alone it is complete.
THEOREM IncompleteOnlyIfShared == Spec => []CompleteOrShared
<1>1. Inv => CompleteOrShared
  <2> SUFFICES ASSUME LoadInv, NEW l \in Loads, phase[l] = "done",
                      \A o \in Loads \ {l} : phase[o] \notin {"imports", "failed"}
               PROVE  Reach(RootModule(l)) \subseteq registered
    BY DEF Inv, CompleteOrShared, Complete
  <2>1. \A o \in Loads : phase[o] \notin {"imports", "failed"}
    OBVIOUS
  <2>2. Closed(registered)
    BY <2>1 DEF LoadInv, Covered, Closed, Dependencies
  <2>3. RootModule(l) \in registered
    BY DEF LoadInv, RootKnown
  <2>4. registered \in SUBSET Specifiers
    BY DEF LoadInv, Types, TypeOK
  <2> QED
    BY <2>2, <2>3, <2>4, ReachLeast
<1> QED
  BY <1>1, InvHolds, PTL
=============================================================================
