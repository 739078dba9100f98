------------------------------ MODULE MCPlanning ------------------------------
(***************************************************************************)
(* The algorithms that run before anything is built, over bounded inputs.  *)
(* A behaviour is about one of them, which `part' names; the others keep   *)
(* their initial states, on one fixed input:                               *)
(*   "providers" ProviderLookup: three files of a recipe beside another    *)
(*               recipe, and four recipes that provide a name at run time  *)
(*   "taskdata"  TaskData: four recipes, names with one and two providers  *)
(*   "prepare"   RunQueuePrepare: three recipes of two tasks               *)
(*   "scene"     SceneQueueBuild: every graph of SceneTasks                *)
(*   "scheduler" Scheduler: two recipes of up to two tasks                 *)
(***************************************************************************)
EXTENDS TaskData, Scheduler, Functions

CONSTANTS Parts, SceneTasks

VARIABLES
    part,
    dataCache, cfgData, asked,
    options, phase, depends, collate, todo, weights, dealtwith,
    g, stage, sq_revdeps, sq_revdeps_squash, sq_collated_deps, endpoints, newendpoints,
    unskippable, unresolved

lookupVars == <<dataCache, cfgData, asked>>
prepareVars == <<options, phase, depends, collate, todo, weights, dealtwith>>
sceneVars == <<g, stage, sq_revdeps, sq_revdeps_squash, sq_collated_deps, endpoints,
               newendpoints, unskippable, unresolved>>
allVars == <<part, lookupVars, vars, prepareVars, sceneVars, schedulerVars>>

------------------------------------------------------------------------------
(* Recipe 1 has three files, recipe 2 one; both provide item 3. *)
VersionInputs ==
  {[dataCache |-> [pkg_fn |-> <<1, 1, 1, 2>>,
                   bbfile_priority |-> pri \o <<1>>, pkg_dp |-> dp \o <<1>>,
                   pkg_pepvpr |-> ver \o <<1>>,
                   pn_provides |-> <<<<1, 3>>, <<2, 3>>>>,
                   providers |-> <<1..3, {4}, 1..4>>,
                   rproviders |-> <<1..3, {4}, 1..4>>],
    cfgData |-> [REQUIRED |-> req, PREFERRED |-> <<pref, {}>>,
                 PROVIDER |-> <<0, 0, prov>>, RPROVIDER |-> <<0, 0, 0>>]] :
     pri \in [1..3 -> 1..2], ver \in [1..3 -> 1..2],
     dp \in {<<1, 1, 1>>, <<2, 1, 1>>, <<1, 2, 1>>, <<1, 1, 2>>},
     req \in {<<a, b>> : a \in {{}, {1}}, b \in {{}, {2}}}, pref \in {{}, {2}, {1, 2}},
     prov \in {0, 2}}

(* RecipeInputs 1 to 4 have a file each, all of which provide item 5 at run     *)
(* time; items 6 and 7 are names several of them also provide.             *)
RuntimeInputs ==
  {[dataCache |-> [pkg_fn |-> <<1, 2, 3, 4>>,
                   bbfile_priority |-> <<1, 1, 1, 1>>, pkg_dp |-> <<1, 1, 1, 1>>,
                   pkg_pepvpr |-> <<1, 1, 1, 1>>,
                   pn_provides |-> provides,
                   providers |-> <<{1}, {2}, {3}, {4}, 1..4, {}, {}>>,
                   rproviders |-> <<{1}, {2}, {3}, {4}, 1..4, {}, {}>>],
    cfgData |-> [REQUIRED |-> <<{}, {}, {}, {}>>, PREFERRED |-> <<{}, {}, {}, {}>>,
                 PROVIDER |-> <<0, 0, 0, 0, 0, six, seven>>,
                 RPROVIDER |-> <<0, 0, 0, 0, rprov, 0, 0>>]] :
     provides \in [1..4 -> {<<>>, <<6>>, <<7>>, <<6, 7>>}],
     six \in 0..3, seven \in 0..3, rprov \in {0, 2}}

------------------------------------------------------------------------------
(* Four recipes of a file each.  Item i is recipe i's own name; item 5 is  *)
(* a name recipes 2 and 3 both provide, nobody provides item 6, and item 7 *)
(* is in ASSUME_PROVIDED.  Package 2 is one of recipe 4.                   *)
B(i) == <<"b", i>>
R(i) == <<"r", i>>

RecipeCache(shared) ==
  [pkg_fn |-> <<1, 2, 3, 4>>, bbfile_priority |-> <<1, 1, 1, 1>>,
   pkg_dp |-> <<0, 0, 0, 0>>, pkg_pepvpr |-> <<1, 1, 1, 1>>,
   pn_provides |-> <<<<1>>, <<2, 5>>, <<3, 5>>, <<4>>>>,
   providers |-> <<{1}, {2}, {3}, {4}, shared, {}, {}>>,
   rproviders |-> <<{1}, {4}, {3}, {4}, shared, {}, {}>>]

Preferences(five) ==
  [REQUIRED |-> <<{}, {}, {}, {}>>, PREFERRED |-> <<{}, {}, {}, {}>>,
   PROVIDER |-> <<0, 0, 0, 0, five, 0, 0>>, RPROVIDER |-> <<0, 0, 0, 0, 0, 0, 0>>]

TaskInput(shared, five, deps, ideps, wanted, halt, incomplete) ==
  [dataCache |-> RecipeCache(shared), cfgData |-> Preferences(five), deps |-> deps, ideps |-> ideps,
   ignored |-> {B(7)}, wanted |-> wanted, halt |-> halt, allowincomplete |-> incomplete]

Deps == {<<a, b, c, d>> :
           a \in {{B(5)}, {B(2), B(5)}, {B(4), R(5)}},
           b \in {{}, {B(4)}, {B(6)}, {R(4)}, {R(6), B(7)}},
           c \in {{}, {B(4)}, {B(6)}, {R(2)}, {B(2), R(4)}},
           d \in {{}, {B(6)}, {R(6)}, {B(2)}, {B(7), R(3)}}}

NoTaskDeps == <<{}, {}, {}, {}>>

\* Every name has one provider.
UniqueInputs ==
  {TaskInput({2}, 0, deps, <<{}, {B(3)}, {}, {}>>, wanted, halt, FALSE) :
     deps \in Deps, wanted \in {{1}, {1, 3}}, halt \in BOOLEAN}

\* Two recipes provide item 5; the files have no task dependencies.
SharedInputs ==
  {TaskInput({2, 3}, five, deps, NoTaskDeps, wanted, halt, incomplete) :
     five \in {0, 3}, deps \in Deps, wanted \in {{1}, {1, 4}},
     halt \in {FALSE}, incomplete \in BOOLEAN}

\* Recipe 2 needs a package of recipe 1, which needs item 6 of recipes 3 and 4.
\* Nobody provides item 7 for recipe 3; recipe 4 needs recipe 5, found to need
\* item 7 too when that has failed.
GivenUpInputs ==
  {[dataCache |-> [pkg_fn |-> <<1, 2, 3, 4, 5>>, bbfile_priority |-> <<1, 1, 1, 1, 1>>,
                   pkg_dp |-> <<0, 0, 0, 0, 0>>, pkg_pepvpr |-> <<1, 1, 1, 1, 1>>,
                   pn_provides |-> <<<<1>>, <<2>>, <<3, 6>>, <<4, 6>>, <<5>>>>,
                   providers |-> <<{1}, {2}, {3}, {4}, {5}, {3, 4}, {}>>,
                   rproviders |-> <<{1}, {2}, {3}, {4}, {5}, {}, {}>>],
    cfgData |-> [REQUIRED |-> <<{}, {}, {}, {}, {}>>, PREFERRED |-> <<{}, {}, {}, {}, {}>>,
                 PROVIDER |-> <<0, 0, 0, 0, 0, 0, 0>>, RPROVIDER |-> <<0, 0, 0, 0, 0, 0, 0>>],
    deps |-> <<{B(6)}, {R(1)}, {B(7)}, {B(5)}, {B(7)}>>, ideps |-> <<{}, {}, {}, {}, {}>>,
    ignored |-> {}, wanted |-> {1, 2}, halt |-> halt, allowincomplete |-> FALSE] :
     halt \in BOOLEAN}

ResolutionInputs == UniqueInputs \cup SharedInputs \cup GivenUpInputs

------------------------------------------------------------------------------
(* Three recipes with the tasks "stage" and "build". *)
Fns == 1..3
Names == {"stage", "build"}
AllTids == Fns \X Names

Relations(pairs) == {[f \in Fns |-> {h \in Fns : <<f, h>> \in r}] : r \in SUBSET pairs}

Upward == {p \in Fns \X Fns : p[1] < p[2]}
AnyPair == {p \in Fns \X Fns : p[1] # p[2]}

ByName(onStage, onBuild) == [n \in Names |-> IF n = "stage" THEN onStage ELSE onBuild]

PrepareInput(depids, rdepids, deptask, recr, ideps) ==
    [entries |-> AllTids, depids |-> depids, rdepids |-> rdepids,
     tdepends |-> [t \in AllTids |-> IF t[2] = "build" THEN {<<t[1], "stage">>} ELSE {}],
     idepends |-> [t \in AllTids |-> {e[2] : e \in {i \in ideps : i[1] = t}}],
     deptask |-> ByName(deptask, {}), rdeptask |-> ByName({}, {}),
     recrdeptask |-> ByName({}, recr), recideptask |-> ByName({}, {}),
     failed |-> {}, runall |-> {}, runonly |-> {},
     targets |-> {[tid |-> <<1, "build">>, parents |-> FALSE]}]

(* Inter-task dependencies: none, a loop with "stage", one on a build
   and one on a stage task of another recipe. *)
Idepends ==
    {{}, {<<<<3, "stage">>, <<1, "build">>>>}, {<<<<2, "stage">>, <<3, "build">>>>},
     {<<<<2, "build">>, <<3, "stage">>>>}}

(* The two sides: every RDEPENDS, and the other kinds with fewer of them. *)
RecipeInputs ==
    {PrepareInput(depids, rdepids, deptask, recr, {}) :
        depids \in Relations(Upward), rdepids \in Relations(AnyPair),
        deptask \in {{"stage"}, {}}, recr \in SUBSET Names}
    \union
    {PrepareInput(depids, rdepids, {"stage"}, recr, ideps) :
        depids \in Relations(Upward), rdepids \in Relations({<<1, 2>>, <<2, 1>>, <<3, 1>>}),
        recr \in SUBSET Names, ideps \in Idepends}

OptionInputs ==
    {[PrepareInput(depids, [f \in Fns |-> {}], {"stage"}, recr, {}) EXCEPT
        !.targets = {[tid |-> tid, parents |-> parents]},
        !.runall = runall, !.runonly = runonly, !.failed = unbuildable,
        !.rdeptask = ByName({}, rdeptask), !.recideptask = ByName({}, recideptask),
        !.rdepids[2] = {3}, !.idepends[<<2, "build">>] = ideps,
        !.entries = @ \ missing] :
        depids \in Relations(Upward \ {<<1, 3>>}), recr \in {{}, {"stage"}},
        tid \in {<<1, "build">>, <<2, "stage">>, <<1, "none">>}, parents \in BOOLEAN,
        runall \in {{}, {"build"}}, runonly \in {{}, {"stage"}, {"none"}},
        unbuildable \in {{}, {1}, {2}}, missing \in {{}, {<<3, "build">>}},
        ideps \in {{}, {<<3, "none">>}}, rdeptask \in {{}, {"build"}},
        recideptask \in {{}, {"stage"}}}

------------------------------------------------------------------------------
(* Every graph with the tasks SceneTasks and every choice of setscene      *)
(* tasks, and up to two explicit dependencies between setscene tasks.      *)
Dags == {d \in [SceneTasks -> SUBSET SceneTasks] : \A t \in SceneTasks : d[t] \subseteq 1..(t-1)}

EndPoints(d) == {t \in SceneTasks : \A u \in SceneTasks : t \notin d[u]}

Harddeps(a, b) ==
    [t \in SceneTasks |-> (IF t = a[1] THEN {a[2]} ELSE {})
                        \union (IF t = b[1] THEN {b[2]} ELSE {})]

Graph(d, ss, h) ==
    [depends |-> d, setscene |-> ss, targets |-> EndPoints(d), harddeps |-> h]

(* Explicit dependencies go one way, as those of one class of tasks do. *)
Pairs(ss) == {<<0, 0>>} \union {p \in ss \X ss : p[1] < p[2]}

AllGraphs ==
    UNION {UNION {{Graph(d, ss, Harddeps(p, q)) :
                      p \in Pairs(ss), q \in IF ss = SceneTasks THEN Pairs(ss) ELSE {<<0, 0>>}} :
                  ss \in SUBSET SceneTasks} : d \in Dags}

------------------------------------------------------------------------------
(* Recipes of the tasks "compile" and "build", some without one of them,   *)
(* every set of dependencies on the tasks of the next recipe, the weights  *)
(* of calculate_task_weights.                                              *)
All == (1..2) \X {"compile", "build"}

TidSets == {s \in SUBSET All : \A fn \in 1..2 : \E tid \in s : tid[1] = fn}

Order(tids) ==
    SetToSortSeq(tids, LAMBDA s, t : \/ s[1] < t[1]
                                     \/ s[1] = t[1] /\ s[2] = "compile" /\ t[2] = "build")

(* The compile task before the build task, and what other recipes add. *)
Depends(tids, extra) ==
    [t \in tids |-> {s \in tids : \/ s[1] = t[1] /\ s[2] = "compile" /\ t[2] = "build"
                                  \/ <<t, s>> \in extra}]

Extras(tids) == SUBSET {e \in tids \X tids : e[2][1] = e[1][1] + 1}

(* Longest chains have one task per recipe and name. *)
Weight(needs) ==
    LET rev(t) == {s \in DOMAIN needs : t \in needs[s]}
        W[n \in 0..4] ==
            [t \in DOMAIN needs |->
                IF rev(t) = {} THEN 10
                ELSE IF n = 0 THEN 0
                ELSE FoldSet(LAMBDA s, sum : sum + W[n - 1][s], 1, rev(t))]
    IN  W[4]

(* With shared stamps the recipes are one recipe in two multiconfigs. *)
SchedulerQueue(tids, extra, kind, threads, halt, forward, shared) ==
    LET d == Depends(tids, extra)
    IN  [scheduler |-> kind, depends |-> d, weight |-> Weight(d), halt |-> halt,
         entries |-> IF forward THEN Order(tids) ELSE Reverse(Order(tids)),
         stamp |-> [t \in tids |-> IF shared /\ t[1] = 2 THEN <<1, t[2]>> ELSE t],
         number_threads |-> [n \in {"compile", "build"} |->
                                IF n = "compile" THEN threads ELSE 0]]

SchedulerQueues ==
    UNION {{SchedulerQueue(tids, extra, kind, threads, halt, forward, shared) :
                extra \in Extras(tids), kind \in {"basic", "speed", "completion"},
                threads \in {0, 1}, halt \in BOOLEAN, forward \in BOOLEAN,
                shared \in BOOLEAN} :
              tids \in TidSets}

------------------------------------------------------------------------------
Lookup == INSTANCE ProviderLookup WITH Inputs <- VersionInputs \cup RuntimeInputs
Prepare == INSTANCE RunQueuePrepare WITH Inputs <- RecipeInputs \cup OptionInputs, input <- options
Scene == INSTANCE SceneQueueBuild WITH Tasks <- SceneTasks, Graphs <- AllGraphs

(* The fixed inputs. *)
Lookup0 == INSTANCE ProviderLookup WITH
    Inputs <- {[dataCache |-> RecipeCache({2}), cfgData |-> Preferences(0)]}
Resolution0 == INSTANCE TaskData WITH
    Inputs <- {TaskInput({2}, 0, NoTaskDeps, NoTaskDeps, {1}, FALSE, FALSE)}
Prepare0 == INSTANCE RunQueuePrepare WITH
    Inputs <- {PrepareInput([f \in Fns |-> {}], [f \in Fns |-> {}], {}, {}, {})},
    input <- options
Scene0 == INSTANCE SceneQueueBuild WITH
    Tasks <- SceneTasks,
    Graphs <- {Graph([t \in SceneTasks |-> {}], {}, [t \in SceneTasks |-> {}])}
Sched0 == INSTANCE Scheduler WITH
    Builds <- {SchedulerQueue(All, {}, "speed", 0, TRUE, TRUE, FALSE)},
    NumberTasks <- 2, MonitorPressure <- TRUE

MCInit ==
    /\ part \in Parts
    /\ IF part = "providers" THEN Lookup!Init ELSE Lookup0!Init
    /\ IF part = "taskdata" THEN Init ELSE Resolution0!Init
    /\ IF part = "prepare" THEN Prepare!Init ELSE Prepare0!Init
    /\ IF part = "scene" THEN Scene!Init ELSE Scene0!Init
    /\ IF part = "scheduler" THEN SchedulerInit ELSE Sched0!SchedulerInit

MCNext ==
    \/ /\ part = "providers" /\ Lookup!Next
       /\ UNCHANGED <<part, vars, prepareVars, sceneVars, schedulerVars>>
    \/ /\ part = "taskdata" /\ Next
       /\ UNCHANGED <<part, lookupVars, prepareVars, sceneVars, schedulerVars>>
    \/ /\ part = "prepare" /\ Prepare!Next
       /\ UNCHANGED <<part, lookupVars, vars, sceneVars, schedulerVars>>
    \/ /\ part = "scene" /\ Scene!Next
       /\ UNCHANGED <<part, lookupVars, vars, prepareVars, schedulerVars>>
    \/ /\ part = "scheduler" /\ SchedulerNext
       /\ UNCHANGED <<part, lookupVars, vars, prepareVars, sceneVars>>

MCSpec == MCInit /\ [][MCNext]_allVars

------------------------------------------------------------------------------
(* findBestProvider takes the best file whatever order the disk lists them
   in, a build uses the same one but for files that rank the same, every
   recipe that provides an item offers one file, the preferred one first, and
   a single preference for a runtime item is honoured. *)
ChoicesCorrect ==
    /\ Lookup!BestProvider
    /\ Lookup!BuildAgreesWithBest
    /\ Lookup!OnePerRecipe
    /\ Lookup!RuntimePreferred

(* Two recipes whose preferences differ are counted as a conflict
   (ProviderLookup!RuntimeConflictFound). *)
RuntimeConflictFound == Lookup!RuntimeConflictFound

(* The task graph is the reference one in whatever order the recursive
   dependencies are added: of each recipe below a recursive task the listed
   tasks are below it too, loops that come from recursion alone are taken out
   and others refused, pruning drops no task that a remaining one needs, and
   a task weighs what all that wait for it weigh. *)
GraphCorrect ==
    /\ Prepare!TypeOK
    /\ Prepare!CollatedCorrectly
    /\ Prepare!RecursiveComplete
    /\ Prepare!OnlyRealCycles
    /\ Prepare!CircularRefused
    /\ Prepare!PruneClosed
    /\ Prepare!WeightsCorrect

(* The collapsed graph and the unskippable tasks are the reference ones, in
   whatever order the points and the setscene tasks are taken, and no task is
   left over. *)
SceneQueueCorrect ==
    /\ Scene!NothingLeftBehind
    /\ Scene!CollapsedCorrectly
    /\ Scene!UnskippableCorrect

(* The speed and the completion scheduler know every task of the queue, once,
   and the loop ends with tasks that never ran only after one failed. *)
OrderCorrect ==
    /\ PrioMapComplete
    /\ FailsOnlyAfterFailure
==============================================================================
