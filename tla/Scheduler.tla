------------------------------ MODULE Scheduler -------------------------------
(***************************************************************************)
(* The task schedulers of the run queue (runqueue.py, RunQueueScheduler    *)
(* and its subclasses): the priority map each one computes from the task   *)
(* weights, and next_buildable_task(), with the limits of                  *)
(* task[number_threads], of tasks that share a stamp and of the host's     *)
(* pressure.  RunQueue.tla leaves the order of tasks open; here setscene   *)
(* tasks are left out and the order is the subject.                        *)
(*                                                                         *)
(* A task is a pair <<recipe file, task name>>.                            *)
(***************************************************************************)
EXTENDS Naturals, FiniteSets, SequencesExt

CONSTANTS
    Builds,         \* prepared queues with the options of the build: records
                    \* scheduler (BB_SCHEDULER), entries (the keys of
                    \* runtaskentries in their order), depends, weight, stamp
                    \* (bb.build.stampfile), number_threads (the varflag by
                    \* task name, 0 where it is not set), halt (no --continue)
    NumberTasks,    \* BB_NUMBER_THREADS
    MonitorPressure \* whether BB_PRESSURE_MAX_* is set and readable

ASSUME SchedulerAssumption ==
    /\ NumberTasks \in Nat
    /\ \A b \in Builds :
          /\ IsFiniteSet(ToSet(b.entries))
          /\ \A n \in DOMAIN b.number_threads : b.number_threads[n] \in Nat

VARIABLES
    build,          \* the prepared queue, constant after Init
    prio_map,       \* tasks, most important first
    buildable,      \* the scheduler's set of buildable tasks
    rq,             \* runq_running, runq_complete, failed_tids, state
    pressure        \* whether the host exceeds the configured pressure

schedulerVars == <<build, prio_map, buildable, rq, pressure>>

Tids == ToSet(build.entries)
Fn(tid) == tid[1]
TaskName(tid) == tid[2]

(* stats.active: a failed or finished task is active no more. *)
Active == (rq.running \ rq.complete) \ rq.failed

SchedulerInit ==
    /\ build \in Builds
    /\ prio_map = <<>>
    /\ buildable = {}
    /\ rq = [running |-> {}, complete |-> {}, failed |-> {}, state |-> "prepare"]
    /\ pressure = FALSE

------------------------------------------------------------------------------
(* The priority maps.                                                      *)

(* Ascending by weight, in the order of the entries where weights are equal,
   then reversed. *)
SpeedMap ==
    LET Index(tid) == CHOOSE i \in DOMAIN build.entries : build.entries[i] = tid
        Lighter(s, t) == \/ build.weight[s] < build.weight[t]
                         \/ build.weight[s] = build.weight[t] /\ Index(s) < Index(t)
    IN  Reverse(SortSeq(build.entries, Lighter))

(* task_lists: the task names of a recipe in the order of the speed map. *)
TaskList(prio, fn) ==
    LET own == SelectSeq(prio, LAMBDA tid : Fn(tid) = fn)
    IN  [i \in DOMAIN own |-> TaskName(own[i])]

(* The recipes in the order in which the speed map first names them. *)
Recipes(prio) ==
    FoldLeft(LAMBDA fns, tid : IF Contains(fns, Fn(tid)) THEN fns ELSE Append(fns, Fn(tid)),
             <<>>, prio)

(* A task name the list has moves the index behind it (the fast path is the
   case that it is at the index already); a new one is inserted there. *)
MergeTask(m, name) ==
    IF Contains(m.all, name)
    THEN [m EXCEPT !.index = 1 + CHOOSE i \in DOMAIN m.all : m.all[i] = name]
    ELSE [all |-> InsertAt(m.all, m.index, name), index |-> m.index + 1]

\* Mutant: the names of the first recipe only.
AllTasks_FirstRecipe(prio) == TaskList(prio, Recipes(prio)[1])

AllTasks(prio) ==
    LET MergeList(all, fn) ==
            FoldLeft(MergeTask, [all |-> all, index |-> 1], TaskList(prio, fn)).all
    IN  FoldLeft(MergeList, <<>>, Recipes(prio))

(* The tasks of one name together, the name that runs last first. *)
CompletionMap ==
    LET prio == SpeedMap
        names == Reverse(AllTasks(prio))
    IN  FlattenSeq([i \in DOMAIN names |->
            SelectSeq(prio, LAMBDA tid : TaskName(tid) = names[i])])

(* The basic scheduler's list has one element that is no task: the view of
   the dictionary's keys. *)
KeysView == <<0, "dict_keys">>

PrioMap ==
    CASE build.scheduler = "basic"      -> <<KeysView>>
      [] build.scheduler = "speed"      -> SpeedMap
      [] build.scheduler = "completion" -> CompletionMap

(* The scheduler is constructed, then the tasks without dependencies become
   buildable. *)
Construct ==
    /\ rq.state = "prepare"
    /\ prio_map' = PrioMap
    /\ buildable' = {t \in Tids : build.depends[t] = {}}
    /\ rq' = [rq EXCEPT !.state = "running"]
    /\ UNCHANGED <<build, pressure>>

------------------------------------------------------------------------------
(* next_buildable_task().                                                  *)

Runnable == buildable \ rq.running

(* skip_buildable: what counts against task[number_threads]. *)
OfThatName(name) == {t \in rq.running \ rq.complete : TaskName(t) = name}

ThreadsLeft(tid) ==
    \/ build.number_threads[TaskName(tid)] = 0
    \/ Cardinality(OfThatName(TaskName(tid))) < build.number_threads[TaskName(tid)]

\* Mutant: the stamps of running tasks are not looked at.
StampFree_Always(tid) == TRUE

StampFree(tid) == \A t \in Active : build.stamp[t] # build.stamp[tid]

PressureHolds == Active # {} /\ MonitorPressure /\ pressure

Admissible == {t \in Runnable : ThreadsLeft(t) /\ StampFree(t)}

(* prio_map.index raises ValueError when the list does not hold the task.
   The only buildable task is returned without a look at the map. *)
Raises ==
    /\ Runnable # {} /\ ~PressureHolds
    /\ \/ Cardinality(Runnable) > 1
       \/ \E t \in Runnable : ThreadsLeft(t) /\ ~StampFree(t)
    /\ \E t \in Tids : ~Contains(prio_map, t)

Best(tid) ==
    /\ tid \in Admissible
    /\ Cardinality(Runnable) > 1 =>
          \A t \in Admissible :
              \A i, j \in DOMAIN prio_map : prio_map[i] = tid /\ prio_map[j] = t => i <= j

------------------------------------------------------------------------------
(* The run queue's loop around the scheduler.                              *)

CanStartTask == Cardinality(Active) < NumberTasks

StartTask(tid) ==
    /\ rq.state = "running" /\ CanStartTask
    /\ ~Raises /\ ~PressureHolds /\ Best(tid)
    /\ rq' = [rq EXCEPT !.running = @ \union {tid}]
    /\ buildable' = Runnable
    /\ UNCHANGED <<build, prio_map, pressure>>

RaiseValueError ==
    /\ rq.state = "running" /\ CanStartTask /\ Raises
    /\ rq' = [rq EXCEPT !.state = "raised"]
    /\ UNCHANGED <<build, prio_map, buildable, pressure>>

(* next() returned no task and nothing is active: the build is over. *)
NoMoreTasks ==
    /\ rq.state = "running" /\ Active = {}
    /\ ~Raises
    /\ PressureHolds \/ \A t \in Tids : ~Best(t)
    /\ rq' = [rq EXCEPT !.state = IF rq.failed # {} \/ Tids # rq.complete
                                  THEN "failed" ELSE "complete"]
    /\ UNCHANGED <<build, prio_map, buildable, pressure>>

TaskComplete(tid) ==
    /\ rq.state \in {"running", "cleanup"} /\ tid \in Active
    /\ rq' = [rq EXCEPT !.complete = @ \union {tid}]
    /\ buildable' = buildable \union
          {t \in Tids \ rq.running : /\ tid \in build.depends[t]
                                     /\ build.depends[t] \subseteq rq.complete \union {tid}}
    /\ UNCHANGED <<build, prio_map, pressure>>

TaskFail(tid) ==
    /\ rq.state \in {"running", "cleanup"} /\ tid \in Active
    /\ rq' = [rq EXCEPT !.failed = @ \union {tid},
                        !.state = IF build.halt THEN "cleanup" ELSE @]
    /\ UNCHANGED <<build, prio_map, buildable, pressure>>

(* finish(): after a failure without --continue the active tasks end. *)
CleanUp ==
    /\ rq.state = "cleanup" /\ Active = {}
    /\ rq' = [rq EXCEPT !.state = "failed"]
    /\ UNCHANGED <<build, prio_map, buildable, pressure>>

PressureChanges ==
    /\ MonitorPressure /\ rq.state \in {"running", "cleanup"}
    /\ pressure' = ~pressure
    /\ UNCHANGED <<build, prio_map, buildable, rq>>

(* The command that runs the queue is over. *)
SchedulerEnds ==
    /\ rq.state \in {"failed", "complete", "raised"}
    /\ UNCHANGED schedulerVars

SchedulerNext ==
    \/ Construct
    \/ \E t \in Tids : StartTask(t)
    \/ RaiseValueError
    \/ NoMoreTasks
    \/ \E t \in Tids : TaskComplete(t)
    \/ \E t \in Tids : TaskFail(t)
    \/ CleanUp
    \/ PressureChanges
    \/ SchedulerEnds

SchedulerSpec == SchedulerInit /\ [][SchedulerNext]_schedulerVars

------------------------------------------------------------------------------
(* The state's types; a finished or failed task was started. *)
SchedulerTypeOK ==
    /\ buildable \subseteq Tids
    /\ rq \in [running : SUBSET Tids, complete : SUBSET Tids, failed : SUBSET Tids,
              state : {"prepare", "running", "cleanup", "failed", "complete", "raised"}]
    /\ rq.complete \union rq.failed \subseteq rq.running
    /\ rq.complete \intersect rq.failed = {}

(* "do_fetch[number_threads]: uses no more than two simultaneous execution
   threads": the limit holds for the tasks that really run, at any order of
   starts, ends and failures. *)
NumberThreadsRespected ==
    \A n \in DOMAIN build.number_threads :
        build.number_threads[n] > 0 =>
            Cardinality({t \in Active : TaskName(t) = n}) <= build.number_threads[n]

(* Two tasks that would write one stamp (the same work in two multiconfigs)
   never run at the same time. *)
StampsExclusive ==
    \A s, t \in Active : s # t => build.stamp[s] # build.stamp[t]

(* Whatever the order of starts, ends and failures: no more tasks run than
   BB_NUMBER_THREADS, those of a name keep its limit, and no two of them
   would write one stamp. *)
AdmissionCorrect ==
    /\ SchedulerTypeOK
    /\ Cardinality(Active) <= NumberTasks
    /\ NumberThreadsRespected
    /\ StampsExclusive

(* A task of the priority map is never lost: prio_map.index finds each task
   of the queue (speed and completion). *)
PrioMapComplete ==
    rq.state # "prepare" /\ build.scheduler # "basic" =>
        /\ IsInjective(prio_map)
        /\ ToSet(prio_map) = Tids

(* The loop gives up only after a failure: neither the pressure of the host
   nor the thread limits nor shared stamps make it end with tasks that
   "never ran". *)
FailsOnlyAfterFailure == rq.state = "failed" => rq.failed # {}

==============================================================================
