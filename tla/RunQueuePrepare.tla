--------------------------- MODULE RunQueuePrepare ----------------------------
(***************************************************************************)
(* RunQueueData.prepare() (runqueue.py): from the tasks of the recipes and *)
(* their several kinds of dependencies to the graph the run queue runs:    *)
(* dependencies are resolved, recursive ones (recrdeptask) collated and    *)
(* added until nothing changes, unneeded tasks pruned, circular graphs     *)
(* refused, weights computed and the task hashes prepared in order.        *)
(*                                                                         *)
(* A task is a pair <<recipe, task name>>.  Loops over sets and            *)
(* dictionaries run in any order where the order could matter.             *)
(***************************************************************************)
EXTENDS Naturals, FiniteSets, FiniteSetsExt, Functions

CONSTANT Inputs     \* taskData and options: records
                    \*   entries      the tasks of taskData
                    \*   tdepends     [entries -> SUBSET entries]
                    \*   idepends     [entries -> SUBSET tasks], may name
                    \*                tasks that do not exist
                    \*   depids, rdepids  DEPENDS and RDEPENDS by recipe
                    \*   deptask, rdeptask, recrdeptask, recideptask
                    \*                sets of task names by task name
                    \*   failed       recipes that cannot be built (--continue)
                    \*   targets      set of [tid, parents]: parents is the
                    \*                form "task-"
                    \*   runall, runonly  sets of task names

VARIABLES
    input,          \* constant after Init
    phase,          \* the step prepare() is at
    depends,        \* runtaskentries[tid].depends; its domain is the set of
                    \* run queue entries, so that pruning shrinks it
    collate,        \* deps, cumulativedeps and endpoints of Part B
    todo,           \* recursive tasks left in this pass, and extradeps
    weights,        \* weight, deps_left, task_done, endpoints
    dealtwith       \* tasks whose hash was prepared

vars == <<input, phase, depends, collate, todo, weights, dealtwith>>

Entries == DOMAIN depends
Fn(tid) == tid[1]
Name(tid) == tid[2]

Revdeps(d, tid) == {t \in DOMAIN d : tid \in d[t]}

Init ==
    /\ input \in Inputs
    /\ phase = "resolve"
    /\ depends = [t \in {} |-> {}]
    /\ collate = [deps |-> depends, cumulative |-> depends, endpoints |-> {}]
    /\ todo = [tids |-> {}, extradeps |-> FALSE]
    /\ weights = [weight |-> depends, deps_left |-> depends, endpoints |-> {}, done |-> {}]
    /\ dealtwith = {}

------------------------------------------------------------------------------
(* Step A: the kinds of dependencies, resolved into tasks.                 *)

(* add_build_dependencies and add_runtime_dependencies. *)
TasksOf(fns, names) == (fns \X names) \intersect input.entries

Recursive ==
    {t \in input.entries : Fn(t) \notin input.failed /\ input.recrdeptask[Name(t)] # {}}

SelfReferring == {t \in Recursive : Name(t) \in input.recrdeptask[Name(t)]}

RecursiveItasks(tid) ==
    IF tid \in Recursive THEN {Fn(tid)} \X input.recideptask[Name(tid)] ELSE {}

Resolved(tid) ==
    LET fn == Fn(tid)
        name == Name(tid)
    IN  IF fn \in input.failed THEN {} ELSE
        (input.tdepends[tid]
           \union TasksOf(input.depids[fn], input.deptask[name])
           \union TasksOf(input.rdepids[fn], input.rdeptask[name])
           \union input.idepends[tid]
           \union TasksOf(input.depids[fn] \union input.rdepids[fn],
                          input.recrdeptask[name])) \ {tid}

(* bb.msg.fatal for an inter-task dependency on a task that does not exist; the
   loop skips the tasks of failed recipes. *)
Resolve ==
    /\ phase = "resolve"
    /\ IF \E t \in input.entries : /\ Fn(t) \notin input.failed
                                   /\ ~(input.idepends[t] \subseteq input.entries)
       THEN phase' = "fatal_nonexistent" /\ UNCHANGED <<depends, collate>>
       ELSE LET d == [t \in input.entries |-> Resolved(t)]
            IN  /\ phase' = "collate"
                /\ depends' = d
                /\ collate' = [deps |-> d,
                               cumulative |-> [t \in input.entries |-> {}],
                               endpoints |-> {t \in input.entries : d[t] = {}}]
    /\ UNCHANGED <<input, todo, weights, dealtwith>>

------------------------------------------------------------------------------
(* Part B: recursive dependencies.                                         *)

(* One round of the walk up the chains: tasks all whose dependencies are
   collated hand their recipes on. *)
CollateRound ==
    /\ phase = "collate" /\ collate.endpoints # {}
    /\ LET ends == collate.endpoints
           left == [t \in Entries |-> collate.deps[t] \ ends]
       IN  collate' = [deps |-> left,
                       cumulative |-> [t \in Entries |->
                           collate.cumulative[t] \union
                               UNION {{Fn(e)} \union collate.cumulative[e] :
                                         e \in depends[t] \intersect ends}],
                       endpoints |-> {t \in Entries : /\ depends[t] \intersect ends # {}
                                                      /\ left[t] = {}}]
    /\ UNCHANGED <<input, phase, depends, todo, weights, dealtwith>>

BeginRecursion ==
    /\ phase = "collate" /\ collate.endpoints = {}
    /\ phase' = "recurse"
    /\ todo' = [tids |-> Recursive, extradeps |-> FALSE]
    /\ UNCHANGED <<input, depends, collate, weights, dealtwith>>

(* What cumulativedeps adds to a recursive task. *)
Cumulated(tid) ==
    LET items == RecursiveItasks(tid)
        total == depends[tid] \union items
                    \union UNION {depends[i] : i \in items \intersect Entries}
        fns == UNION {collate.cumulative[t] : t \in total \intersect Entries}
    IN  TasksOf(fns, input.recrdeptask[Name(tid)]) \ {tid}

(* What recursive dependencies of a recursive task, with d its dependencies
   so far, add to it; the task itself may be among them. *)
FromRecursive(tid, d) ==
    LET deps == UNION {(IF t = tid THEN d ELSE depends[t]) \ d : t \in d \intersect Recursive}
    IN  {t \in deps \intersect Entries : Name(t) \in input.recrdeptask[Name(tid)]}

\* Mutant: the dependencies of other recursive tasks are not taken over.
RecurseTask_NotRecursive(tid) ==
    /\ phase = "recurse" /\ tid \in todo.tids
    /\ LET all == depends[tid] \union Cumulated(tid)
       IN  /\ depends' = [depends EXCEPT ![tid] = all]
           /\ todo' = [tids |-> todo.tids \ {tid},
                       extradeps |-> todo.extradeps \/ all # depends[tid]]
    /\ UNCHANGED <<input, phase, collate, weights, dealtwith>>

RecurseTask(tid) ==
    /\ phase = "recurse" /\ tid \in todo.tids
    /\ LET d == depends[tid] \union Cumulated(tid)
           all == d \union FromRecursive(tid, d)
       IN  /\ depends' = [depends EXCEPT ![tid] = all]
           /\ todo' = [tids |-> todo.tids \ {tid},
                       extradeps |-> todo.extradeps \/ all # depends[tid]]
    /\ UNCHANGED <<input, phase, collate, weights, dealtwith>>

RecurseAgain ==
    /\ phase = "recurse" /\ todo.tids = {} /\ todo.extradeps
    /\ todo' = [tids |-> Recursive, extradeps |-> FALSE]
    /\ UNCHANGED <<input, phase, depends, collate, weights, dealtwith>>

(* "so that do_a[recrdeptask] = "do_a do_b" can work" *)
RemoveSelfReferences ==
    /\ phase = "recurse" /\ todo.tids = {} /\ ~todo.extradeps
    /\ depends' = [t \in Entries |-> IF t \in SelfReferring
                                     THEN depends[t] \ SelfReferring ELSE depends[t]]
    /\ phase' = "prune"
    /\ UNCHANGED <<input, collate, todo, weights, dealtwith>>

------------------------------------------------------------------------------
(* Steps B and C: mark what is needed, drop the rest.                      *)

(* mark_active from a set of tasks. *)
Marked(d, tids) ==
    LET reach[n \in 0..Cardinality(DOMAIN d)] ==
            IF n = 0 THEN tids
            ELSE reach[n - 1] \union UNION {d[t] : t \in reach[n - 1]}
    IN  reach[Cardinality(DOMAIN d)]

FromTargets ==
    UNION {IF g.parents THEN depends[g.tid] ELSE {g.tid} :
              g \in {h \in input.targets : Fn(h.tid) \notin input.failed}}

(* The tasks of the listed names in the recipes of the active tasks, with
   their dependencies. *)
Runall(active) ==
    Marked(depends, ({Fn(t) : t \in active} \X input.runall) \intersect Entries)

(* A target whose task does not exist is fatal; so is an empty queue. *)
Prune ==
    /\ phase = "prune"
    /\ IF \E g \in input.targets : Fn(g.tid) \notin input.failed /\ g.tid \notin Entries
       THEN phase' = "fatal_nonexistent" /\ UNCHANGED depends
       ELSE LET active == Marked(depends, FromTargets)
                kept == IF input.runall = {} THEN active ELSE Runall(active)
            IN  /\ depends' = Restrict(depends, kept)
                /\ phase' = IF kept = {} THEN "fatal_notasks"
                            ELSE IF input.runonly = {} THEN "check" ELSE "runonly"
    /\ UNCHANGED <<input, collate, todo, weights, dealtwith>>

(* --runonly: of what is left, the listed tasks with their dependencies. *)
PruneRunonly ==
    /\ phase = "runonly"
    /\ LET kept == Marked(depends, {t \in Entries : Name(t) \in input.runonly})
       IN  /\ depends' = Restrict(depends, kept)
           /\ phase' = IF kept = {} THEN "fatal_notasks" ELSE "check"
    /\ UNCHANGED <<input, collate, todo, weights, dealtwith>>

------------------------------------------------------------------------------
(* Step D: circular dependencies, weights, hashes.                         *)

(* Circular dependencies of length two, and the start of the weights. *)
CheckEndpoints ==
    /\ phase = "check"
    /\ IF \E t \in Entries : Revdeps(depends, t) \intersect depends[t] # {}
       THEN phase' = "fatal_circular" /\ UNCHANGED weights
       ELSE LET ends == {t \in Entries : Revdeps(depends, t) = {}}
            IN  /\ phase' = "weights"
                /\ weights' = [weight |-> [t \in Entries |-> IF t \in ends THEN 10 ELSE 1],
                               deps_left |-> [t \in Entries |-> Cardinality(Revdeps(depends, t))],
                               endpoints |-> ends, done |-> ends]
    /\ UNCHANGED <<input, depends, collate, todo, dealtwith>>

(* One round of calculate_task_weights. *)
WeightRound ==
    /\ phase = "weights" /\ weights.endpoints # {}
    /\ LET From(t) == {e \in weights.endpoints : t \in depends[e]}
           left == [t \in Entries |-> weights.deps_left[t] - Cardinality(From(t))]
           next == {t \in Entries : From(t) # {} /\ left[t] = 0}
       IN  weights' = [weight |-> [t \in Entries |->
                            weights.weight[t] + MapThenSumSet(LAMBDA e : weights.weight[e], From(t))],
                       deps_left |-> left,
                       endpoints |-> next, done |-> weights.done \union next]
    /\ UNCHANGED <<input, phase, depends, collate, todo, dealtwith>>

(* Tasks that are "not buildable". *)
ProblemTasks == {t \in Entries : t \notin weights.done \/ weights.deps_left[t] # 0}

CheckCircular ==
    /\ phase = "weights" /\ weights.endpoints = {}
    /\ phase' = IF ProblemTasks # {} THEN "fatal_circular" ELSE "hash"
    /\ UNCHANGED <<input, depends, collate, todo, weights, dealtwith>>

(* prepare_task_hash of a task whose dependencies were dealt with. *)
PrepareTaskHash(tid) ==
    /\ phase = "hash" /\ tid \in Entries \ dealtwith
    /\ depends[tid] \subseteq dealtwith
    /\ dealtwith' = dealtwith \union {tid}
    /\ UNCHANGED <<input, phase, depends, collate, todo, weights>>

Return ==
    /\ phase = "hash" /\ dealtwith = Entries
    /\ phase' = "done"
    /\ UNCHANGED <<input, depends, collate, todo, weights, dealtwith>>

Fatal == {"fatal_nonexistent", "fatal_notasks", "fatal_circular"}

Ended ==
    /\ phase \in {"done"} \union Fatal
    /\ UNCHANGED vars

Next ==
    \/ Resolve
    \/ CollateRound \/ BeginRecursion
    \/ \E t \in todo.tids : RecurseTask(t)
    \/ RecurseAgain \/ RemoveSelfReferences
    \/ Prune \/ PruneRunonly
    \/ CheckEndpoints \/ WeightRound \/ CheckCircular
    \/ \E t \in Entries : PrepareTaskHash(t)
    \/ Return
    \/ Ended

Spec == Init /\ [][Next]_vars

------------------------------------------------------------------------------
(* Reference definitions.                                                  *)

Graph0 == [t \in input.entries |-> Resolved(t)]

(* The graph without recursive dependencies. *)
BaseGraph ==
    [t \in input.entries |->
        IF Fn(t) \in input.failed THEN {}
        ELSE (input.tdepends[t] \union input.idepends[t]
                 \union TasksOf(input.depids[Fn(t)], input.deptask[Name(t)])
                 \union TasksOf(input.rdepids[Fn(t)], input.rdeptask[Name(t)])) \ {t}]

Below(d, tid) == Marked(d, d[tid])

Acyclic(d) == \A t \in DOMAIN d : t \notin Below(d, t)

------------------------------------------------------------------------------
(* The queue's tables belong to tasks of the recipes. *)
TypeOK ==
    /\ Entries \subseteq input.entries
    /\ \A t \in Entries : depends[t] \subseteq input.entries
    /\ dealtwith \subseteq Entries /\ todo.tids \subseteq Recursive

(* cumulativedeps holds the recipes of all tasks below a task, as long as no
   loop is below it; below a loop it never holds too much. *)
CollatedCorrectly ==
    phase = "recurse" /\ todo.tids = Recursive =>
        LET below == [t \in Entries |-> Below(Graph0, t)]
            loops == {t \in Entries : t \in below[t]}
        IN  \A t \in Entries :
                LET fns == {Fn(u) : u \in below[t]}
                IN  /\ collate.cumulative[t] \subseteq fns
                    /\ below[t] \intersect loops = {} => collate.cumulative[t] = fns

(* "makes sure sometask runs after someothertask of all DEPENDS, RDEPENDS and
   intertask dependencies, recursively": of each recipe below a recursive
   task the listed tasks are below it too, whatever order the loops took; for
   a task that lists itself these are all recipes reached over DEPENDS and
   RDEPENDS, although the edges between such tasks are removed. *)
RecursiveComplete ==
    phase = "prune" /\ Acyclic(BaseGraph) =>
        LET links == [f \in DOMAIN input.depids |->
                         IF f \in input.failed THEN {} ELSE input.depids[f] \union input.rdepids[f]]
        IN  \A t \in Recursive :
                LET fns == {Fn(u) : u \in Below(depends, t)}
                             \union IF t \in SelfReferring THEN Below(links, Fn(t)) ELSE {}
                IN  TasksOf(fns, input.recrdeptask[Name(t)])
                       \subseteq Below(depends, t) \union {t}
                           \union (IF t \in SelfReferring THEN SelfReferring ELSE {})

(* Recursive dependencies make no loop of their own: RDEPENDS may be circular
   as long as the other dependencies are not and need no recursive task. *)
OnlyRealCycles ==
    phase = "fatal_circular" =>
        \/ ~Acyclic(BaseGraph)
        \/ \E t \in input.entries \ Recursive : BaseGraph[t] \intersect Recursive # {}

(* Pruning never drops a task that a remaining one needs. *)
PruneClosed ==
    phase \in {"check", "runonly", "weights", "hash", "done"} =>
        \A t \in Entries : depends[t] \subseteq Entries

(* A circular graph is refused, and nothing else is. *)
CircularRefused ==
    /\ phase = "hash" /\ dealtwith = {} => Acyclic(depends)
    /\ phase = "fatal_circular" => ~Acyclic(depends)

(* The weight of a task is its own and that of all tasks that wait for it. *)
WeightsCorrect ==
    phase = "done" =>
        \A t \in Entries :
            LET users == Revdeps(depends, t)
            IN  weights.weight[t] = (IF users = {} THEN 10 ELSE 1)
                    + MapThenSumSet(LAMBDA u : weights.weight[u], users)

==============================================================================
