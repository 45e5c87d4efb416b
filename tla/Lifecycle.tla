------------------------------ MODULE Lifecycle ------------------------------
(***************************************************************************)
(* The lifecycle manager: the static modules of a process, started in      *)
(* dependency order and stopped in reverse, and the dynamic modules that   *)
(* application threads register, load and unload while it runs.            *)
(*                                                                         *)
(* unload_module() only schedules: it marks the closure UNLOADING and      *)
(* queues the root for the dedicated shutdown thread, which runs the       *)
(* callbacks outside the graph mutex.  finalize() raises its flags without *)
(* that mutex, so an unload that passed its checks can still be inside its *)
(* critical section.                                                       *)
(*                                                                         *)
(* Module names, callbacks and their arguments are abstracted to module    *)
(* identities and to the outcome of each callback.                         *)
(***************************************************************************)
EXTENDS Naturals, Sequences, FiniteSets, SequencesExt

CONSTANTS
    Static,          \* modules registered before initialize()
    Dynamic,         \* modules registered while the process runs
    Dependencies,    \* [Static \cup Dynamic -> Seq(Static \cup Dynamic)]
    Persistent,      \* dynamic modules only finalize() stops
    OwnerManaged,    \* owner_managed_teardown
    Callers,         \* application threads
    StartOutcomes,   \* of a startup callback: "ok", "throws", "throwsOther"
    StopOutcomes     \* of a shutdown: "ok", "fails" (threw or timed out), "invalid"

VARIABLES
    main,      \* the thread that initializes and finalizes: phase and work list
    graph,     \* m_module_graph: status, ref_count and dependents of each node
    mutex,     \* holder of m_graph_mutation_mutex between two steps
    caller,    \* what each application thread is doing
    pending,   \* m_pending_unload_closures
    tainted,   \* m_contaminated_modules
    dyn,       \* the shutdown thread, its queue and its recursion
    live       \* modules whose startup ran and whose shutdown did not

vars == <<main, graph, mutex, caller, pending, tainted, dyn, live>>

Modules == Static \cup Dynamic
DependsOn == [m \in Modules |-> ToSet(Dependencies[m])]
Nobody == "nobody"
Absent == [status |-> "absent", refs |-> 0, dependents |-> {}]
Finalized == main.phase \notin {"init", "up"}
Free == mutex = Nobody

----------------------------------------------------------------------------
(* registerStaticModule and buildStaticGraph: the graph initialize() sees. *)
StaticNode(m) ==
    [status |-> "registered", refs |-> 0,
     dependents |-> {d \in Static : m \in DependsOn[d]}]

(* topologicalSort: Kahn's algorithm over the dependents pointers.  The    *)
(* order is taken one node at a time: StartsNext is any node that no       *)
(* node of S lists as dependent, StopsNext one that lists no node of S.    *)
StartsNext(S) == {m \in S : \A n \in S : m \notin graph[n].dependents}
StopsNext(S) == {m \in S : graph[m].dependents \cap S = {}}

Init ==
    /\ main = [phase |-> "init", todo |-> Static]
    /\ graph = [m \in Modules |-> IF m \in Static THEN StaticNode(m) ELSE Absent]
    /\ mutex = Nobody
    /\ caller = [c \in Callers |-> [does |-> "idle", arg |-> Nobody]]
    /\ pending = << >>
    /\ tainted = {}
    /\ dyn = [pc |-> "none", stop |-> FALSE, queue |-> <<>>, stack |-> <<>>,
              outcome |-> "ok"]
    /\ live = {}

----------------------------------------------------------------------------
(* initialize(): the static nodes are started in topological order; a      *)
(* cycle or a callback that throws ends the process.                       *)
StartStatic ==
    /\ main.phase = "init"
    /\ \E m \in StartsNext(main.todo), outcome \in StartOutcomes :
         IF outcome = "ok"
           THEN /\ graph' = [graph EXCEPT ![m].status = "started"]
                /\ live' = live \cup {m}
                /\ main' = [phase |-> IF main.todo = {m} THEN "up" ELSE "init",
                            todo |-> main.todo \ {m}]
           ELSE /\ graph' = [graph EXCEPT ![m].status = "failed"]
                /\ main' = [main EXCEPT !.phase = "aborted"]
                /\ UNCHANGED live
    /\ UNCHANGED <<mutex, caller, pending, tainted, dyn>>

----------------------------------------------------------------------------
(* recalculateReferenceCounts: only LOADED modules count, and persistent   *)
(* modules are never counted.                                              *)
References(g, d) ==
    IF d \in Dynamic \ Persistent
      THEN Cardinality({m \in Dynamic : g[m].status = "loaded" /\ d \in DependsOn[m]})
      ELSE 0

Recounted(g) ==
    [m \in Modules |-> [g[m] EXCEPT !.refs =
        IF m \in Dynamic /\ g[m].status # "absent" THEN References(g, m) ELSE @]]

(* registerDynamicModule: every dependency must be in the graph and none   *)
(* may be contaminated; the node is added to its dependencies' dependents. *)
RegisterDynamic(c, m) ==
    /\ caller[c].does = "idle"
    /\ main.phase = "up" /\ Free
    /\ m \in Dynamic /\ graph[m].status = "absent"
    /\ \A d \in DependsOn[m] : graph[d].status # "absent" /\ d \notin tainted
    /\ graph' = [d \in Modules |->
         IF d = m THEN [Absent EXCEPT !.status = "unloaded"]
         ELSE IF d \in DependsOn[m]
                THEN [graph[d] EXCEPT !.dependents = @ \cup {m}]
                ELSE graph[d]]
    /\ UNCHANGED <<main, mutex, caller, pending, tainted, dyn, live>>

(* loadModuleInternal: what loading m can leave behind.  Each outcome      *)
(* records the graph, the modules whose startup ran and the verdict:       *)
(* "yes", "no", or "escapes" for an exception that is no std::exception,   *)
(* which unwinds every frame and leaves them LOADING.                      *)
SetStatus(r, m, s, verdict) ==
    [r EXCEPT !.graph = [@ EXCEPT ![m].status = s], !.verdict = verdict]

RECURSIVE LoadModuleInternal(_, _), LoadDependencies(_, _, _)

LoadDependencies(rs, m, deps) ==
    IF deps = <<>> THEN rs
    ELSE LET d == Head(deps)
             one(r) ==
               IF r.verdict # "yes" THEN {r}
               ELSE IF r.graph[d].status = "absent" THEN {SetStatus(r, m, "failed", "no")}
               ELSE IF d \in Static
                 THEN {IF r.graph[d].status = "started" THEN r
                       ELSE SetStatus(r, m, "failed", "no")}
                 ELSE {IF s.verdict = "no" THEN SetStatus(s, m, "failed", "no") ELSE s :
                         s \in LoadModuleInternal(r, d)}
         IN LoadDependencies(UNION {one(r) : r \in rs}, m, Tail(deps))

LoadModuleInternal(r, m) ==
    IF r.graph[m].status = "loaded" THEN {[r EXCEPT !.verdict = "yes"]}
    ELSE IF r.graph[m].status # "unloaded" THEN {[r EXCEPT !.verdict = "no"]}
    ELSE IF m \in tainted THEN {SetStatus(r, m, "failed", "no")}
    ELSE LET opened == SetStatus(r, m, "loading", "yes")
             ready == LoadDependencies({opened}, m, Dependencies[m])
         IN UNION {IF s.verdict # "yes" THEN {s}
                   ELSE {CASE o = "ok" -> [SetStatus(s, m, "loaded", "yes")
                                             EXCEPT !.started = @ \cup {m}]
                           [] o = "throws" -> SetStatus(s, m, "failed", "no")
                           [] o = "throwsOther" -> [s EXCEPT !.verdict = "escapes"] :
                         o \in StartOutcomes}
                   : s \in ready}

(* loadModule: the whole load runs under the graph mutex; the counts are   *)
(* recalculated unless an exception escaped.                               *)
Load(c, m) ==
    /\ caller[c].does = "idle"
    /\ main.phase = "up" /\ Free
    /\ m \in Dynamic /\ graph[m].status # "absent"
    /\ \E r \in LoadModuleInternal([graph |-> graph, started |-> {}, verdict |-> "yes"], m) :
         /\ graph' = IF r.verdict = "escapes" THEN r.graph ELSE Recounted(r.graph)
         /\ live' = live \cup r.started
    /\ UNCHANGED <<main, mutex, caller, pending, tainted, dyn>>

----------------------------------------------------------------------------
(* computeUnloadClosure: breadth-first over dependencies that no LOADED    *)
(* module outside the closure so far still needs.                          *)
StillNeeded(d, closure) ==
    \E m \in Dynamic \ closure : graph[m].status = "loaded" /\ d \in DependsOn[m]

(* Variant: a dependency that another module still uses joins the closure. *)
ClosableAlways(d, closure) ==
    d \in Dynamic \ Persistent /\ graph[d].status = "loaded"

Closable(d, closure) ==
    /\ d \in Dynamic \ Persistent /\ graph[d].status = "loaded"
    /\ ~StillNeeded(d, closure)

RECURSIVE ClosureFrom(_, _)
ClosureFrom(closure, toVisit) ==
    IF toVisit = <<>> THEN closure
    ELSE LET deps == Dependencies[Head(toVisit)]
             grow(acc, d) == IF d \notin acc.closure /\ Closable(d, acc.closure)
                               THEN [closure |-> acc.closure \cup {d},
                                     visit |-> Append(acc.visit, d)]
                               ELSE acc
             grown == FoldLeft(grow, [closure |-> closure, visit |-> Tail(toVisit)], deps)
         IN ClosureFrom(grown.closure, grown.visit)

ComputeUnloadClosure(m) == ClosureFrom({m}, <<m>>)

(* unloadModule, first half: with the mutex, the finalized flag is read.   *)
UnloadChecks(c, m) ==
    /\ caller[c].does = "idle"
    /\ main.phase = "up" /\ Free
    /\ m \in Dynamic \ Persistent
    /\ graph[m].status = "loaded" /\ graph[m].refs = 0
    /\ ComputeUnloadClosure(m) \cap tainted = {}
    /\ mutex' = c
    /\ caller' = [caller EXCEPT ![c] = [does |-> "unload", arg |-> m]]
    /\ UNCHANGED <<main, graph, pending, tainted, dyn, live>>

(* ... second half: the closure is marked, recorded and queued, and the    *)
(* shutdown thread is started if it never was.                             *)
UnloadSchedules(c) ==
    /\ caller[c].does = "unload"
    /\ LET m == caller[c].arg
           closure == ComputeUnloadClosure(m)
       IN /\ graph' = [n \in Modules |->
               IF n \in closure THEN [graph[n] EXCEPT !.status = "unloading"] ELSE graph[n]]
          /\ pending' = [r \in DOMAIN pending \cup {m} |->
               IF r = m THEN closure ELSE pending[r]]
          /\ dyn' = [dyn EXCEPT !.pc = IF @ = "none" THEN "idle" ELSE @,
                                !.queue = Append(@, m)]
    /\ mutex' = Nobody
    /\ caller' = [caller EXCEPT ![c] = [does |-> "idle", arg |-> Nobody]]
    /\ UNCHANGED <<main, tainted, live>>

(* waitForUnload: blocks while the closure of m is pending; a bounded wait *)
(* may also expire.                                                        *)
WaitForUnload(c, m) ==
    /\ caller[c].does = "idle" /\ Free
    /\ m \in DOMAIN pending
    /\ \E bounded \in BOOLEAN :
         caller' = [caller EXCEPT ![c] =
             [does |-> IF bounded THEN "waitFor" ELSE "wait", arg |-> m]]
    /\ UNCHANGED <<main, graph, mutex, pending, tainted, dyn, live>>

WaitReturns(c) ==
    /\ caller[c].does \in {"wait", "waitFor"} /\ Free
    /\ caller[c].arg \notin DOMAIN pending \/ caller[c].does = "waitFor"
    /\ caller' = [caller EXCEPT ![c] = [does |-> "idle", arg |-> Nobody]]
    /\ UNCHANGED <<main, graph, mutex, pending, tainted, dyn, live>>

----------------------------------------------------------------------------
(* dynShutdownThreadMain: takes the next root, or ends once stopped and    *)
(* drained.                                                                *)
DynTakes ==
    /\ dyn.pc = "idle" /\ dyn.queue # <<>>
    /\ dyn' = [dyn EXCEPT !.pc = "check", !.queue = Tail(@), !.stack = <<Head(dyn.queue)>>]
    /\ UNCHANGED <<main, graph, mutex, caller, pending, tainted, live>>

DynEnds ==
    /\ dyn.pc = "idle" /\ dyn.queue = <<>> /\ dyn.stop
    /\ dyn' = [dyn EXCEPT !.pc = "done"]
    /\ UNCHANGED <<main, graph, mutex, caller, pending, tainted, live>>

Popped(rest) == [dyn EXCEPT !.pc = IF rest = <<>> THEN "idle" ELSE "check", !.stack = rest]

(* processOneUnloadInThread, first critical section, then the validation   *)
(* and the callback outside the mutex.                                     *)
UnloadRuns ==
    /\ dyn.pc = "check" /\ Free
    /\ LET m == Head(dyn.stack) IN
         IF graph[m].status # "unloading"
           THEN dyn' = Popped(Tail(dyn.stack)) /\ UNCHANGED live
           ELSE \E o \in StopOutcomes :
                  /\ dyn' = [dyn EXCEPT !.pc = "settle", !.outcome = o]
                  /\ live' = live \ {m}
    /\ UNCHANGED <<main, graph, mutex, caller, pending, tainted>>

(* The member leaves every pending closure; an emptied closure is dropped. *)
Without(m) ==
    LET left == [r \in DOMAIN pending |-> pending[r] \ {m}]
    IN [r \in {r \in DOMAIN pending : left[r] # {}} |-> left[r]]

(* cleanupAfterUnload_: the node leaves the graph and its dependencies'    *)
(* dependents; its UNLOADING dependencies without references come next.    *)
Cleaned(m) ==
    Recounted([n \in Modules |->
        IF n = m THEN Absent ELSE [graph[n] EXCEPT !.dependents = @ \ {m}]])

NextDependencies(g, m) ==
    LET ready(d) == /\ d \in Dynamic \ Persistent
                    /\ g[d].status = "unloading" /\ g[d].refs = 0
    IN SelectSeq(Dependencies[m], ready)

(* ... second critical section: success removes the node and recurses; a   *)
(* failure contaminates it and leaves its dependencies UNLOADING; failed   *)
(* validation leaves the pending closures as they are.                     *)
UnloadSettles ==
    /\ dyn.pc = "settle" /\ Free
    /\ LET m == Head(dyn.stack)
           success == dyn.outcome = "ok" \/ (dyn.outcome = "invalid" /\ m \in OwnerManaged)
           next == NextDependencies(Cleaned(m), m)
       IN /\ pending' = IF dyn.outcome = "invalid" /\ ~success THEN pending ELSE Without(m)
          /\ IF success
               THEN /\ graph' = Cleaned(m)
                    /\ dyn' = Popped(next \o Tail(dyn.stack))
                    /\ UNCHANGED tainted
               ELSE /\ graph' = [graph EXCEPT ![m].status = "failedShutdown"]
                    /\ tainted' = tainted \cup {m}
                    /\ dyn' = Popped(Tail(dyn.stack))
    /\ UNCHANGED <<main, mutex, caller, live>>

----------------------------------------------------------------------------
(* finalize(): the flags are raised without the graph mutex; a started     *)
(* shutdown thread is drained; then the mutex is taken.                    *)
FinalizeFlags ==
    /\ main.phase = "up"
    /\ main' = [main EXCEPT !.phase = "drain"]
    /\ dyn' = [dyn EXCEPT !.stop = TRUE]
    /\ UNCHANGED <<graph, mutex, caller, pending, tainted, live>>

FinalizeJoins ==
    /\ main.phase = "drain"
    /\ dyn.pc \in {"none", "done"}
    /\ main' = [main EXCEPT !.phase = "lock"]
    /\ UNCHANGED <<graph, mutex, caller, pending, tainted, dyn, live>>

(* Phase 2 stops the dynamic modules still LOADED, phase 3 the static      *)
(* ones, each in reverse topological order of its own kind.                *)
FinalizeLocks ==
    /\ main.phase = "lock" /\ Free
    /\ mutex' = "main"
    /\ main' = [phase |-> "stopDynamic",
                todo |-> {m \in Dynamic : graph[m].status = "loaded"}]
    /\ UNCHANGED <<graph, caller, pending, tainted, dyn, live>>

(* dispatch_shutdown: inline or in a timed thread, the callback of one     *)
(* module.  "shutdown" stands for the three statuses that record how it    *)
(* went, which nothing reads; dynamic_status keeps LOADED.                 *)
FinalizeStops ==
    /\ main.phase \in {"stopDynamic", "stopStatic"}
    /\ \E m \in StopsNext(main.todo) :
         /\ graph' = IF m \in Static THEN [graph EXCEPT ![m].status = "shutdown"] ELSE graph
         /\ live' = live \ {m}
         /\ main' = [main EXCEPT !.todo = @ \ {m}]
    /\ UNCHANGED <<mutex, caller, pending, tainted, dyn>>

FinalizeTurns ==
    /\ main.phase \in {"stopDynamic", "stopStatic"} /\ main.todo = {}
    /\ IF main.phase = "stopDynamic"
         THEN main' = [phase |-> "stopStatic", todo |-> Static] /\ UNCHANGED mutex
         ELSE main' = [main EXCEPT !.phase = "final"] /\ mutex' = Nobody
    /\ UNCHANGED <<graph, caller, pending, tainted, dyn, live>>

----------------------------------------------------------------------------
CallerSteps(c) ==
    \/ \E m \in Dynamic :
         RegisterDynamic(c, m) \/ Load(c, m) \/ UnloadChecks(c, m) \/ WaitForUnload(c, m)
    \/ UnloadSchedules(c)
    \/ WaitReturns(c)

DynSteps == DynTakes \/ DynEnds \/ UnloadRuns \/ UnloadSettles

FinalizeSteps == FinalizeJoins \/ FinalizeLocks \/ FinalizeStops \/ FinalizeTurns

Next ==
    \/ StartStatic
    \/ \E c \in Callers : CallerSteps(c)
    \/ DynSteps
    \/ FinalizeFlags \/ FinalizeSteps

Spec == Init /\ [][Next]_vars

Fairness ==
    /\ WF_vars(DynSteps)
    /\ WF_vars(FinalizeSteps)
    /\ \A c \in Callers : WF_vars(UnloadSchedules(c)) /\ WF_vars(WaitReturns(c))

FairSpec == Spec /\ Fairness

----------------------------------------------------------------------------
(* Until finalize() begins, a LOADED module has every dependency it named: *)
(* no unload, failed load or failed shutdown of another module takes one   *)
(* away (ref_count check and computeUnloadClosure).                        *)
LoadedKeepsDependencies ==
    \A m \in Dynamic :
        graph[m].status = "loaded" /\ ~Finalized => DependsOn[m] \subseteq live

(* A module is shut down only after every module that depends on it        *)
(* ("shut down in the reverse order", lifecycle.hpp).                      *)
DependentsStopFirst ==
    \A m \in live : DependsOn[m] \subseteq live
=============================================================================
