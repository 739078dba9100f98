---------------------------- MODULE SceneQueueData ----------------------------
(***************************************************************************)
(* The graph of the run queue and the smaller graph of its setscene tasks  *)
(* (bitbake/lib/bb/runqueue.py: RunTaskEntry, SQData and the results of    *)
(* build_scenequeue_data), as operators over one record:                   *)
(*   depends   runtaskentries[t].depends                                   *)
(*   setscene  runq_setscene_tids, the tasks with a setscene variant       *)
(*   targets   target_tids                                                 *)
(*   harddeps  sq_harddeps[d]: the setscene tasks that name d's variant    *)
(*             in their [depends] flag                                     *)
(* SceneQueueBuild.tla runs the collapsing algorithm and compares it with  *)
(* the operators below.                                                    *)
(***************************************************************************)
EXTENDS Naturals, FiniteSets

CONSTANT Tasks      \* task ids; numbers, in the order sorted() gives them

Revdeps(g, t) == {u \in Tasks : t \in g.depends[u]}

(* The tasks reached from the set S by following depends, stopping at (and
   including) setscene tasks: S itself is included. *)
UpToSetscene(g, S) ==
    LET reached[R \in SUBSET Tasks] ==
            LET new == (UNION {g.depends[t] : t \in R \ g.setscene}) \ R
            IN  IF new = {} THEN R ELSE reached[R \union new]
    IN  reached[S]

(* sq_covered_tasks[t]: the tasks other than setscene tasks that need not
   run if the setscene variant of t provides the output of t. *)
SqCoveredTasks(g, t) == UpToSetscene(g, g.depends[t]) \ g.setscene

(* sq_revdeps_squash[t] before the inter-setscene dependencies: the setscene
   tasks that reach t through other tasks only. *)
SqSquashed(g, t) == {s \in g.setscene : t \in UpToSetscene(g, g.depends[s])}

(* sq_revdeps[t]: a task that others depend on explicitly loses its reverse
   dependencies, and gains the tasks its own variant explicitly needs. *)
SqRevdeps(g, t) ==
    (IF g.harddeps[t] # {} THEN {} ELSE SqSquashed(g, t))
        \union {d \in g.setscene : t \in g.harddeps[d]}

SqDeps(g, t) == {u \in g.setscene : t \in SqRevdeps(g, u)}

(* cantskip: requested tasks without a setscene variant. *)
CantSkip(g) == g.targets \ g.setscene

(* unskippable: what the end points of the build reach, up to and including
   the first setscene tasks. *)
Unskippable(g) ==
    UpToSetscene(g, {t \in Tasks : Revdeps(g, t) = {}} \union CantSkip(g))

(* The queue with the tables the server keeps: runtaskentries[t].revdeps and
   the fields of SQData. *)
BuildScenequeueData(g) ==
    [g EXCEPT !.revdeps = [t \in Tasks |-> Revdeps(g, t)],
              !.sq_covered_tasks = [t \in g.setscene |-> SqCoveredTasks(g, t)],
              !.sq_revdeps = [t \in g.setscene |-> SqRevdeps(g, t)],
              !.sq_deps = [t \in g.setscene |-> SqDeps(g, t)],
              !.cantskip = CantSkip(g),
              !.unskippable = Unskippable(g)]

==============================================================================
