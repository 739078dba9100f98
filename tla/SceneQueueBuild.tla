--------------------------- MODULE SceneQueueBuild ----------------------------
(***************************************************************************)
(* build_scenequeue_data (bitbake/lib/bb/runqueue.py): the graph of the    *)
(* run queue is collapsed into one that holds only the setscene tasks, by  *)
(* moving end points down the graph and carrying along the setscene tasks  *)
(* met on the way.  The loops go over dictionaries and sets whose order    *)
(* depends on hashing: every order is allowed here.  The results must be   *)
(* those of SceneQueueData.                                                *)
(***************************************************************************)
EXTENDS SceneQueueData

CONSTANT Graphs     \* records with depends, setscene, targets and harddeps

VARIABLES
    g,                  \* the graph, constant after Init
    stage,              \* the loop that runs
    sq_revdeps,         \* reverse dependencies not yet processed
    sq_revdeps_squash,  \* setscene tasks carried to a task
    sq_collated_deps,   \* becomes sq_covered_tasks
    endpoints,          \* the points left in this round, with their tasks
    newendpoints,       \* the points of the next round
    unskippable,
    unresolved          \* setscene tasks whose explicit dependencies are left

buildVars == <<g, stage, sq_revdeps, sq_revdeps_squash, sq_collated_deps,
               endpoints, newendpoints, unskippable, unresolved>>

Setscene == g.setscene

(* The chains up to the first setscene task, and those between them. *)
Init ==
    /\ g \in Graphs
    /\ stage = "collapse"
    /\ sq_revdeps = [t \in Tasks |-> Revdeps(g, t) \ Setscene]
    /\ sq_revdeps_squash = [t \in Tasks |-> {}]
    /\ sq_collated_deps = [t \in Setscene |-> {}]
    /\ endpoints =
         [t \in {u \in Tasks : \/ Revdeps(g, u) = {} /\ u \notin Setscene
                               \/ Revdeps(g, u) \intersect Setscene # {}} |->
            Revdeps(g, t) \intersect Setscene]
    /\ newendpoints = [t \in {} |-> {}]
    /\ unskippable = {t \in Tasks : Revdeps(g, t) = {}} \union CantSkip(g)
    /\ unresolved = Setscene

Without(f, p) == [q \in DOMAIN f \ {p} |-> f[q]]

(* One iteration of process_endpoints.  A setscene task keeps what reached
   it; any other point is covered by it and hands it on. *)
ProcessEndpoint(p) ==
    LET tasks == endpoints[p] \union sq_revdeps_squash[p]
        moves == IF p \in Setscene THEN {} ELSE g.depends[p]
    IN  /\ stage = "collapse" /\ p \in DOMAIN endpoints
        /\ endpoints' = Without(endpoints, p)
        /\ sq_collated_deps' = [t \in Setscene |->
              IF t \in tasks /\ p \notin Setscene
              THEN sq_collated_deps[t] \union {p} ELSE sq_collated_deps[t]]
        /\ sq_revdeps' = [t \in Tasks |->
              IF t \in moves THEN sq_revdeps[t] \ {p} ELSE sq_revdeps[t]]
        /\ sq_revdeps_squash' = [t \in Tasks |->
              IF t = p THEN IF p \in Setscene THEN tasks ELSE {}
              ELSE IF t \in moves THEN sq_revdeps_squash[t] \union tasks
              ELSE sq_revdeps_squash[t]]
        /\ LET free == {d \in moves \ Setscene : sq_revdeps'[d] = {}}
           IN  newendpoints' = [t \in DOMAIN newendpoints \union free |->
                  IF t \in free THEN endpoints[p] ELSE newendpoints[t]]
        /\ UNCHANGED <<g, stage, unskippable, unresolved>>

(* The recursive call of process_endpoints, or its end. *)
NextRound ==
    /\ stage = "collapse" /\ DOMAIN endpoints = {}
    /\ endpoints' = newendpoints
    /\ newendpoints' = endpoints
    /\ stage' = IF DOMAIN newendpoints = {} THEN "unskippable" ELSE stage
    /\ UNCHANGED <<g, sq_revdeps, sq_revdeps_squash, sq_collated_deps,
                   unskippable, unresolved>>

(* One pass of the while loop that collects the unskippable tasks. *)
GrowUnskippable ==
    LET grown == unskippable \union
                    UNION {g.depends[t] : t \in unskippable \ Setscene}
    IN  /\ stage = "unskippable"
        /\ unskippable' = grown
        /\ stage' = IF grown = unskippable THEN "resolve" ELSE stage
        /\ UNCHANGED <<g, sq_revdeps, sq_revdeps_squash, sq_collated_deps,
                       endpoints, newendpoints, unresolved>>

(* The setscene tasks whose variant t explicitly depends on. *)
Explicit(t) == {d \in Setscene : t \in g.harddeps[d]}

(* The explicit dependencies of one setscene task: what it depends on loses
   the reverse dependencies found so far. *)
ResolveDepends(t) ==
    /\ stage = "resolve" /\ t \in unresolved
    /\ sq_revdeps_squash' = [u \in Tasks |->
          IF u \in Explicit(t) THEN {}
          ELSE IF u = t THEN sq_revdeps_squash[u] \union Explicit(t)
          ELSE sq_revdeps_squash[u]]
    /\ unresolved' = unresolved \ {t}
    /\ UNCHANGED <<g, stage, sq_revdeps, sq_collated_deps, endpoints,
                   newendpoints, unskippable>>

\* Mutant: the dependencies emptied meanwhile are not added again.
AddHarddeps_Once ==
    /\ stage = "resolve" /\ unresolved = {}
    /\ stage' = "done"
    /\ UNCHANGED <<g, sq_revdeps, sq_revdeps_squash, sq_collated_deps,
                   endpoints, newendpoints, unskippable, unresolved>>

(* The loop over sq_harddeps that adds them again. *)
AddHarddeps ==
    /\ stage = "resolve" /\ unresolved = {}
    /\ sq_revdeps_squash' = [t \in Tasks |->
          sq_revdeps_squash[t] \union (IF t \in Setscene THEN Explicit(t) ELSE {})]
    /\ stage' = "done"
    /\ UNCHANGED <<g, sq_revdeps, sq_collated_deps, endpoints, newendpoints,
                   unskippable, unresolved>>

Done == stage = "done" /\ UNCHANGED buildVars

Next ==
    \/ \E p \in Tasks : ProcessEndpoint(p)
    \/ NextRound
    \/ GrowUnskippable
    \/ \E t \in Tasks : ResolveDepends(t)
    \/ AddHarddeps
    \/ Done

Spec == Init /\ [][Next]_buildVars /\ WF_buildVars(Next)

------------------------------------------------------------------------------
(* "Something went badly wrong during scenequeue generation": no task other
   than a setscene task is left with something to carry. *)
NothingLeftBehind ==
    stage # "collapse" =>
        \A t \in Tasks \ Setscene : sq_revdeps_squash[t] = {}

(* The collapsed graph is the reference one, in whatever order the points
   and the setscene tasks are taken. *)
CollapsedCorrectly ==
    stage = "done" =>
        \A t \in Setscene :
            /\ sq_revdeps_squash[t] = SqRevdeps(g, t)
            /\ sq_collated_deps[t] = SqCoveredTasks(g, t)

(* The unskippable tasks are those between the end points of the build and
   the first setscene tasks. *)
UnskippableCorrect == stage = "done" => unskippable = Unskippable(g)

==============================================================================
