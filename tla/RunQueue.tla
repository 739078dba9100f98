------------------------------- MODULE RunQueue -------------------------------
(***************************************************************************)
(* BitBake's run queue (bitbake/lib/bb/runqueue.py): the server loop that  *)
(* decides which tasks run, which are replaced by their setscene variant   *)
(* (unpacked from the shared-state cache) and which are skipped, while     *)
(* worker processes run tasks and report exit codes and hash changes       *)
(* through a pipe.                                                         *)
(*                                                                         *)
(* rqexe is the RunQueueExecute object with rq.state; the methods of the   *)
(* class are operators from such a record to such a record, under the      *)
(* names of the source.  One call of _execute_runqueue() is one step: the  *)
(* server is single threaded and only the workers run beside it.           *)
(***************************************************************************)
EXTENDS SceneQueueData, Integers, Sequences, SequencesExt

CONSTANTS
    RunQueues,      \* the prepared queues: records as in SceneQueueData plus
                    \* options, noexec, nostamp, fn (recipe file of a task), twin (the tasks
                    \* of one recipe name, task name and first hash in
                    \* several multiconfigs), stamps and sstate on disk
    Hashes,         \* unihash values; every task begins with FirstHash
    FirstHash,
    MaxReports,     \* bound on the taskUniHashUpdate events of a run
    NumberTasks,    \* BB_NUMBER_THREADS
    IgnoreTasks,    \* tasks BB_SETSCENE_ENFORCE_IGNORE_TASKS matches
    Interrupts      \* whether a shutdown or the death of a worker may happen

ASSUME QueuesAssumption ==
    \A q \in RunQueues : /\ q.depends \in [Tasks -> SUBSET Tasks]
                         /\ {"depends", "setscene", "harddeps", "twin", "revdeps",
                             "sq_covered_tasks", "sq_revdeps", "sq_deps"} \subseteq DOMAIN q

VARIABLES
    rqdata,     \* the prepared queue, constant after Init
    rqexe,      \* RunQueueExecute and rq.state
    worker,     \* what the worker processes run: <<task, variant, unihash>>
    pipe,       \* what the workers wrote and read_workers() has not read
    disk,       \* stamp files and shared-state objects
    reports,    \* tasks that reported a changed unihash (bound MaxReports)
    broken      \* a worker died or the user interrupted the build

vars == <<rqdata, rqexe, worker, pipe, disk, reports, broken>>

Ended == {"Complete", "Failed"}

(* The options of the command line: --force, --skip-setscene,
   --setscene-only, and taskData.halt, which --continue clears. *)
Forced == "force" \in rqdata.options
SkipSetscene == "skipsetscene" \in rqdata.options
SetsceneOnly == "setsceneonly" \in rqdata.options
Halt == "continue" \notin rqdata.options

(* BB_SETSCENE_ENFORCE = "1". *)
Enforce == "enforce" \in rqdata.options

(* The keys of runtaskentries. *)
Tids == DOMAIN rqdata.depends

------------------------------------------------------------------------------
(* Stamps and the shared-state cache, both by the current unihash.         *)

HasStamp(x, t, variant) ==
    \/ <<t, variant, x.unihash[t]>> \in disk.stamps
    \/ variant = "setscene" /\ t \in rqdata.setscene \intersect rqdata.noexec

(* The stamp of d is newer than that of t: only d ran in this build. *)
Newer(d, t) == d \in disk.fresh /\ t \notin disk.fresh

\* Mutant: the stamps of the dependencies are not compared.
CheckStampTask_NoDeps(x, t, recurse) == HasStamp(x, t, "run") /\ t \notin rqdata.nostamp

(* check_stamp_task(tid, recurse): t is no "nostamp" task and has a stamp, and so
   has every task of the same recipe that it depends on, no newer than its own;
   with recurse those are current too.  A newer setscene stamp is as good. *)
CheckStampTask(x, t, recurse) ==
    LET current[u \in Tasks] ==
            /\ HasStamp(x, u, "run") /\ u \notin rqdata.nostamp
            /\ \A d \in rqdata.depends[u] :
                  \/ HasStamp(x, d, "setscene")
                  \/ rqdata.fn[d] # rqdata.fn[u]
                  \/ /\ HasStamp(x, d, "run")
                     /\ ~Newer(d, u)
                     /\ recurse => current[d]
    IN  current[t]

(* check_setscene_stamps: noexec, or one of the stamps is current. *)
NoExec(t) == t \in rqdata.noexec
StampPresent(x, t) ==
    HasStamp(x, t, "setscene") \/ CheckStampTask(x, t, TRUE)

(* validate_hashes: the shared-state cache has the object. *)
Validated(x, t) == <<rqdata.twin[t], x.unihash[t]>> \in disk.sstate

------------------------------------------------------------------------------
(* The scene queue.                                                        *)

Deferred(x) == DOMAIN x.sq_deferred
Undefer(x, tids) ==
    [x EXCEPT !.sq_deferred = [u \in Deferred(x) \ tids |-> x.sq_deferred[u]]]

Settled(x) == x.scenequeue_covered \union x.scenequeue_notcovered

(* The loop at the end of scenequeue_updatecounters: tasks all of whose
   reverse dependencies the scene queue is done with are done too. *)
MarkSceneQueueDone(done, tids) ==
    LET mark[marked \in SUBSET Tasks, next \in SUBSET Tasks] ==
            LET all == marked \union next
                new == {d \in UNION {rqdata.depends[t] : t \in next} :
                           /\ d \notin rqdata.setscene \union all
                           /\ rqdata.revdeps[d] \subseteq all}
            IN  IF next = {} THEN marked ELSE mark[all, new]
    IN  mark[done, tids]

(* What hard-depends on a failed task of F and is neither settled nor has no
   need of the setscene variant: sq_task_failoutright. *)
FailsWith(x, F) ==
    {d \in UNION {rqdata.sq_deps[t] \intersect rqdata.harddeps[t] : t \in F} :
        d \notin Settled(x) /\ ~NoExec(d) /\ ~StampPresent(x, d)}

(* The setscene tasks that fail with those of tids, each taking others along. *)
HardFailing(x, tids) ==
    LET closed == {F \in SUBSET rqdata.setscene :
                      tids \subseteq F /\ FailsWith(x, F) \subseteq F}
    IN  IF FailsWith(x, tids) \subseteq tids THEN tids
        ELSE {t \in rqdata.setscene : \A F \in closed : t \in F}

\* Mutant: a hard dependency that fails counts as settled, like any other.
ScenequeueUpdatecounters_Soft(x, tids, fail) ==
    [x EXCEPT
       !.sq_buildable = @ \union {d \in UNION {rqdata.sq_deps[t] : t \in tids} :
                                    rqdata.sq_revdeps[d] \subseteq Settled(x)},
       !.tasks_scenequeue_done = MarkSceneQueueDone(@, tids),
       !.holdoff_need_update = @ \/ tids # {}]

(* The tasks of ended are settled, those of tids at first; what waited for
   settled tasks only becomes buildable. *)
Release(x, tids, ended, fail) ==
    LET failed == ended \ tids
        released ==
            {d \in UNION {rqdata.sq_deps[t] \ (IF fail THEN rqdata.harddeps[t] ELSE {}) :
                             t \in ended} :
                rqdata.sq_revdeps[d] \subseteq Settled(x) \union failed}
    IN  [x EXCEPT
           !.sq_running = @ \union failed,
           !.sq_buildable = @ \union failed \union released,
           !.scenequeue_notcovered = @ \union failed,
           !.tasks_scenequeue_done = MarkSceneQueueDone(@, ended),
           !.holdoff_need_update = @ \/ tids # {}]

(* scenequeue_updatecounters(task, fail) for the tasks of tids, which are
   settled in x: failed ones take those that hard-depend on them along. *)
ScenequeueUpdatecounters(x, tids, fail) ==
    Release(x, tids, IF fail THEN HardFailing(x, tids) ELSE tids, fail)

SqTaskFailoutright(x, tids) ==
    ScenequeueUpdatecounters(
        [x EXCEPT !.sq_running = @ \union tids,
                  !.sq_buildable = @ \union tids,
                  !.scenequeue_notcovered = @ \union tids], tids, TRUE)

SqTaskCompleteoutright(x, tids) ==
    ScenequeueUpdatecounters(
        [x EXCEPT !.scenequeue_covered = @ \union tids], tids, FALSE)

SqTaskSkip(x, tids) ==
    SqTaskCompleteoutright(
        [x EXCEPT !.sq_running = @ \union tids,
                  !.sq_buildable = @ \union tids], tids)

(* sq_task_fail with sq_check_taskfail: with BB_SETSCENE_ENFORCE a failing
   setscene task that is not exempt stops the build. *)
SqTaskFail(x, t) ==
    [ScenequeueUpdatecounters([x EXCEPT !.scenequeue_notcovered = @ \union {t}], {t}, TRUE)
        EXCEPT !.state = IF Enforce /\ t \notin IgnoreTasks THEN "CleanUp" ELSE @]

(* What is left without stamp, cached object or verdict may fail outright. *)
OutrightFail(x, tids) ==
    [x EXCEPT !.outrightfail = @ \union
        (tids \ (x.stamppresent \union x.valid \union x.noexec
                    \union Settled(x) \union Deferred(x)))]

(* update_scenequeue_data(tids): look again at the stamps and the cache. *)
UpdateScenequeueData(x, tids) ==
    LET none == {t \in tids : NoExec(t)}
        stamped == {t \in tids \ none : StampPresent(x, t)}
        skipped == none \union stamped
    IN  OutrightFail(
            SqTaskSkip(
                [x EXCEPT
                   !.noexec = @ \union none,
                   !.stamppresent = (@ \ tids) \union stamped,
                   !.valid = (@ \ tids) \union {t \in tids \ skipped : Validated(x, t)},
                   !.outrightfail = @ \ tids], skipped), tids)

------------------------------------------------------------------------------
(* The run queue proper.                                                   *)

Setbuildable(x, S) == [x EXCEPT !.runq_buildable = @ \union S]

(* task_completeoutright: reverse dependencies whose dependencies are all
   complete become buildable, and setscene tasks deferred behind t are
   looked at again. *)
TaskCompleteoutright(x, t) ==
    LET complete == x.runq_complete \union {t}
        ready == {r \in rqdata.revdeps[t] \ x.runq_running :
                     rqdata.depends[r] \subseteq complete}
        waiting == {d \in Deferred(x) : x.sq_deferred[d] = t}
    IN  UpdateScenequeueData(
            Undefer(Setbuildable([x EXCEPT !.runq_complete = complete], ready), waiting),
            waiting)

TaskComplete(x, t) ==
    [TaskCompleteoutright([x EXCEPT !.active = @ - 1], t)
        EXCEPT !.runq_tasksrun = @ \union {t}]

\* Mutant: the failed task is not recorded.
TaskFail_Forgotten(x, t) ==
    [x EXCEPT !.active = @ - 1, !.state = "CleanUp"]

(* stats.active may go below zero (FailUnexpected) and has no lower bound:
   from LowestActive on, no number of tasks that start brings it back to a
   value the code tells apart. *)
LowestActive == -(Cardinality(Tasks) + NumberTasks)

TaskFail(x, t) ==
    [x EXCEPT !.active = IF @ > LowestActive THEN @ - 1 ELSE @,
              !.failed_tids = @ \union {t},
              !.state = IF Halt THEN "CleanUp" ELSE @]

\* Mutant: a skipped task is not marked as running.
TaskSkip_NotRunning(x, t) == TaskCompleteoutright(Setbuildable(x, {t}), t)

(* task_skip: taskSkipped() and taskCompleted() leave active as it was. *)
TaskSkip(x, t) ==
    TaskCompleteoutright(
        Setbuildable([x EXCEPT !.runq_running = @ \union {t}], {t}), t)

\* Mutant: a setscene task stays in sq_live.
ReadMessage_StaysLive(x, m) ==
    IF m.kind = "unihash"
    THEN [x EXCEPT !.updated_taskhash_queue =
                       Append(@, <<m.task, m.unihash>>)]
    ELSE IF m.task \in x.sq_live
    THEN IF m.ok THEN SqTaskCompleteoutright(x, {m.task})
         ELSE SqTaskFail(x, m.task)
    ELSE IF m.ok THEN TaskComplete(x, m.task) ELSE TaskFail(x, m.task)

(* runqueue_process_waitpid, and the event branch of runQueuePipe.read. *)
ReadMessage(x, m) ==
    IF m.kind = "unihash"
    THEN [x EXCEPT !.updated_taskhash_queue =
                       Append(@, <<m.task, m.unihash>>)]
    ELSE IF m.task \in x.sq_live
    THEN [IF m.ok THEN SqTaskCompleteoutright(x, {m.task}) ELSE SqTaskFail(x, m.task)
            EXCEPT !.sq_live = @ \ {m.task}]
    ELSE IF m.ok THEN TaskComplete(x, m.task) ELSE TaskFail(x, m.task)

(* read_workers(): the first n messages of a pipe. *)
ReadWorkers(x, msgs, n) ==
    LET read[i \in 0..n] ==
            IF i = 0 THEN x ELSE ReadMessage(read[i - 1], msgs[i])
    IN  read[n]

CanStartTask(x) == x.active + Cardinality(x.sq_live) < NumberTasks

\* Mutant: nothing is held off, and whatever is settled may run.
UpdateHoldofftasks_None(x) ==
    [Setbuildable(x, {t \in Tasks : rqdata.depends[t] \subseteq x.runq_complete})
       EXCEPT !.tasks_notcovered = Tasks \ x.scenequeue_covered,
              !.tasks_covered = x.scenequeue_covered]

(* update_holdofftasks. *)
UpdateHoldofftasks(x) ==
    LET notcovered ==
            (x.scenequeue_notcovered \union rqdata.cantskip
              \union (UNION {rqdata.sq_covered_tasks[t] :
                                t \in x.scenequeue_notcovered})
              \union (rqdata.unskippable \ rqdata.setscene))
            \intersect x.tasks_scenequeue_done
        covered ==
            ((x.scenequeue_covered
              \union (UNION {rqdata.sq_covered_tasks[t] :
                                t \in x.scenequeue_covered})) \ notcovered)
            \intersect x.tasks_scenequeue_done
        buildable == {t \in Tasks :
                         /\ t \in notcovered \union covered
                         /\ rqdata.depends[t] \subseteq x.runq_complete}
        pending == rqdata.setscene \ Settled(x)
    IN  IF ~x.holdoff_need_update THEN x
        ELSE [Setbuildable(x, buildable) EXCEPT
                !.tasks_covered = covered,
                !.tasks_notcovered = notcovered,
                !.holdoff_tasks = pending \union
                    ((UNION {rqdata.sq_covered_tasks[t] : t \in pending})
                        \ x.runq_complete),
                !.holdoff_need_update = FALSE]

(* summarise_scenequeue_errors: the sanity checks of the scene queue. *)
ScenequeueErrors(x) ==
    \/ Deferred(x) # {}
    \/ x.updated_taskhash_queue # <<>>
    \/ x.holdoff_tasks # {}
    \/ \E t \in rqdata.setscene :
          t \notin Settled(x) \intersect x.sq_buildable \intersect x.sq_running
    \/ \E t \in Tasks :
          \/ t \notin x.tasks_covered \union x.tasks_notcovered
          \/ t \notin x.tasks_scenequeue_done
          \/ rqdata.depends[t] = {} /\ t \notin x.runq_buildable

------------------------------------------------------------------------------
(* process_possible_migrations: hash equivalence changed the unihash of a  *)
(* task that ran; the setscene tasks after it get a second chance.         *)

RevdepClosure(S) ==
    LET closure[R \in SUBSET Tasks] ==
            LET up == R \union UNION {rqdata.revdeps[t] : t \in R}
            IN  IF up = R THEN R ELSE closure[up]
    IN  closure[S]

(* Entries of running tasks stay queued; the others are applied, also to
   the tasks deferred behind them. *)
Processable(x, e) == ~(e[1] \in x.runq_running /\ e[1] \notin x.runq_complete)

ApplyUpdates(x) ==
    LET visit(acc, e) ==
            IF e[2] = acc.unihash[e[1]] THEN acc
            ELSE LET torehash == {e[1]} \union
                        {d \in Deferred(x) : x.sq_deferred[d] = e[1]}
                 IN  [unihash |-> [t \in Tasks |-> IF t \in torehash THEN e[2]
                                                   ELSE acc.unihash[t]],
                      toprocess |-> acc.toprocess \union torehash]
        applied == FoldLeft(visit, [unihash |-> x.unihash, toprocess |-> {}],
                            SelectSeq(x.updated_taskhash_queue,
                                      LAMBDA e : Processable(x, e)))
    IN  [x |-> [x EXCEPT !.unihash = applied.unihash,
                         !.updated_taskhash_queue =
                            SelectSeq(@, LAMBDA e : ~Processable(x, e))],
         toprocess |-> applied.toprocess]

(* The unihash the server may give the tasks downstream of toprocess: it
   changes only where that of some dependency did. *)
NewUnihashes(x, toprocess) ==
    LET total == RevdepClosure(UNION {rqdata.revdeps[t] : t \in toprocess})
    IN  {nu \in [Tasks -> Hashes] : \A t \in Tasks :
           nu[t] # x.unihash[t] =>
             /\ t \in total
             /\ \E d \in rqdata.depends[t] :
                   d \in toprocess \/ nu[d] # x.unihash[d]}

(* What the loop over pending_migrations decides about t: it is too late, or t
   has to wait for a task it covers ("If covered tasks are running, need to wait
   for them to complete"), or work of a covered task is lost. *)
TooLate(x, t) == t \in x.runq_running \union x.sq_live

Blocked(x, t) ==
    rqdata.sq_covered_tasks[t] \intersect (x.runq_running \ x.runq_complete) # {}

Lost(x, t) ==
    rqdata.sq_covered_tasks[t] \intersect (x.runq_complete \ x.runq_tasksrun) # {}

(* The orders in which a loop may go through a set: rank numbers the tasks. *)
Orders(tids) == {rank \in [tids -> tids] : \A t, u \in tids : rank[t] = rank[u] => t = u}

(* The loop's error branch returns: only the tasks up to the first lost one are
   looked at. *)
LookedAt(x, rank) ==
    LET losing == {t \in x.pending_migrations :
                      ~TooLate(x, t) /\ ~Blocked(x, t) /\ Lost(x, t)}
    IN  {t \in x.pending_migrations :
            /\ ~TooLate(x, t) /\ ~Blocked(x, t)
            /\ \A u \in losing : rank[t] <= rank[u]}

(* The verdict about t goes; tasks before it in the loop have lost theirs. *)
HarddepFail(x, t, before) ==
    \E d \in (rqdata.setscene \intersect x.scenequeue_notcovered) \ before :
        t \in rqdata.harddeps[d]

Migratable(x, t, before) ==
    \/ /\ ~HarddepFail(x, t, before)
       /\ rqdata.sq_revdeps[t] \subseteq Settled(x) \ before
    \/ rqdata.sq_revdeps[t] = {}

\* Mutant: the earlier verdict is kept.
Migrate_KeepVerdict(x, rank) ==
    LET tids == {t \in x.pending_migrations : ~TooLate(x, t)}
    IN  [update |-> tids, hardfail |-> {}, halted |-> FALSE,
         x |-> [x EXCEPT !.pending_migrations = {},
                         !.sq_buildable = @ \union tids,
                         !.sq_running = @ \ tids]]

(* The loop over pending_migrations, in one order; halted is its early return. *)
Migrate(x, rank) ==
    LET lookedAt == LookedAt(x, rank)
        lost == {t \in lookedAt : Lost(x, t)}
        update == lookedAt \ lost
        before(t) == {u \in update : rank[u] < rank[t]}
    IN  [update |-> update,
         hardfail |-> {t \in update : HarddepFail(x, t, before(t))},
         halted |-> lost # {},
         x |-> [x EXCEPT
            !.pending_migrations =
                {t \in @ \ lookedAt : TooLate(x, t) => \E u \in lost : rank[u] < rank[t]},
            !.tasks_scenequeue_done =
                (@ \ lookedAt) \
                    ((UNION {rqdata.sq_covered_tasks[t] : t \in update})
                        \ (x.runq_complete \union rqdata.unskippable)),
            !.sq_buildable =
                (@ \ update) \union {t \in update : Migratable(x, t, before(t))},
            !.sq_running = @ \ update,
            !.outrightfail = @ \ update,
            !.scenequeue_notcovered = @ \ update,
            !.scenequeue_covered = @ \ update,
            !.scenequeue_notneeded = @ \ update,
            !.failed_tids = @ \union lost,
            !.state = IF lost # {} THEN "CleanUp" ELSE @]]

(* sqdata.hashes: the first task that was seen with a recipe and a hash. *)
HashOwner(g, t, h) ==
    LET same == {u \in g.setscene : g.twin[u] = g.twin[t] /\ h = FirstHash}
    IN  IF same \subseteq {t} THEN t ELSE CHOOSE u \in same : \A v \in same : u <= v

DeferTwins(x, tids) ==
    [x EXCEPT !.sq_deferred =
       [t \in Deferred(x) \union
              {t \in tids : HashOwner(rqdata, t, x.unihash[t]) # t} |->
          IF t \in tids /\ HashOwner(rqdata, t, x.unihash[t]) # t
          THEN HashOwner(rqdata, t, x.unihash[t]) ELSE x.sq_deferred[t]]]

(* The new unihashes nu for tasks whose work is not yet taken from the cache. *)
Rehash(x, changed, nu) ==
    [x EXCEPT !.unihash = [t \in Tasks |-> IF t \in changed THEN nu[t] ELSE @[t]],
              !.pending_migrations = @ \union (changed \intersect rqdata.setscene)]

(* The migrated tasks are looked at again, or fail with a hard dependency. *)
LookAgain(mig) ==
    LET y == UpdateScenequeueData(DeferTwins([mig.x EXCEPT !.sqdone = FALSE], mig.update),
                                  mig.update)
    IN  SqTaskFailoutright(y, mig.hardfail)

Migrated(mig, rehashed) ==
    IF mig.halted THEN mig.x
    ELSE [IF mig.update = {} THEN mig.x ELSE LookAgain(mig)
            EXCEPT !.holdoff_need_update = @ \/ rehashed \/ mig.update # {}]

(* The results process_possible_migrations may have after ApplyUpdates. *)
Migrations(applied) ==
    LET x == applied.x
        changed(nu) == {t \in Tasks \ (x.scenequeue_covered \union x.sq_live) :
                           nu[t] # x.unihash[t]}
    IN  UNION {LET w == Rehash(x, changed(nu), nu)
               IN  {Migrated(Migrate(w, rank), changed(nu) # {}) :
                       rank \in Orders(w.pending_migrations)} :
               nu \in NewUnihashes(x, applied.toprocess)}

ProcessPossibleMigrations(x) == Migrations(ApplyUpdates(x))

------------------------------------------------------------------------------
(* Setting up: RunQueueExecute.__init__, build_scenequeue_data and the     *)
(* runQueueSceneInit branch of _execute_runqueue.                          *)

NewRunQueueExecute ==
    [state |-> "Running", active |-> 0, failed_tids |-> {},
     sq_buildable |-> {t \in rqdata.setscene : rqdata.sq_revdeps[t] = {}},
     sq_running |-> {}, sq_live |-> {},
     sq_deferred |->
        [t \in {u \in rqdata.setscene : HashOwner(rqdata, u, FirstHash) # u} |->
           HashOwner(rqdata, t, FirstHash)],
     scenequeue_covered |-> {}, scenequeue_notcovered |-> {},
     scenequeue_notneeded |-> {},
     tasks_scenequeue_done |-> rqdata.unskippable \ rqdata.setscene,
     tasks_covered |-> {},
     tasks_notcovered |-> IF rqdata.setscene = {} THEN Tasks ELSE {},
     runq_buildable |->
        {t \in Tasks : /\ rqdata.depends[t] = {}
                       /\ \/ t \in rqdata.unskippable \ rqdata.setscene
                          \/ rqdata.setscene = {}},
     runq_running |-> {}, runq_complete |-> {}, runq_tasksrun |-> {},
     holdoff_tasks |-> {}, holdoff_need_update |-> TRUE,
     sqdone |-> rqdata.setscene = {},
     outrightfail |-> {}, valid |-> {}, stamppresent |-> {}, noexec |-> {},
     unihash |-> [t \in Tasks |-> FirstHash],
     updated_taskhash_queue |-> <<>>, pending_migrations |-> {}]

Init ==
    /\ \E q \in RunQueues : rqdata = BuildScenequeueData(q)
    /\ disk = [stamps |-> rqdata.stamps, fresh |-> {}, sstate |-> rqdata.sstate]
    /\ rqexe = UpdateScenequeueData(NewRunQueueExecute, rqdata.setscene)
    /\ worker = {}
    /\ pipe = <<>>
    /\ reports = {}
    /\ broken = FALSE

------------------------------------------------------------------------------
(* One call of _execute_runqueue.                                          *)

(* finish(): wait for what is active, then end. *)
FinishStep(x, unread) ==
    LET y == [x EXCEPT !.state = "CleanUp"]
    IN  IF x.active + Cardinality(x.sq_live) > 0
        THEN \E n \in 0..Len(unread) :
                /\ rqexe' = ReadWorkers(y, unread, n)
                /\ pipe' = SubSeq(unread, n + 1, Len(unread))
        ELSE /\ rqexe' = [y EXCEPT !.state = IF x.failed_tids # {}
                                             THEN "Failed" ELSE "Complete"]
             /\ pipe' = unread

(* The rest of _execute_runqueue after execute() left the state x. *)
Return(x, unread) ==
    IF x.state = "CleanUp" THEN FinishStep(x, unread)
    ELSE rqexe' = x /\ pipe' = unread

(* The second read_workers() of execute(), when something is active. *)
ReadAndReturn(x, unread) ==
    \E n \in 0..Len(unread) :
        Return(ReadWorkers(x, unread, n),
               SubSeq(unread, n + 1, Len(unread)))

Runtask(t, variant, x) == worker' = worker \union {<<t, variant, x.unihash[t]>>}

NothingStarted == UNCHANGED <<worker, disk>>

(* The setscene tasks execute() may take up next. *)
SceneCandidates(x) ==
    IF x.sqdone \/ ~CanStartTask(x) THEN {} ELSE x.sq_buildable \ x.sq_running

DeferredBehind(x, t) ==
    t \in Deferred(x) /\ x.sq_deferred[t] \notin x.runq_complete

(* Everything that needs t's output is already covered, and the metadata's
   BB_SETSCENE_DEPVALID function agrees (either answer is possible). *)
NotNeeded(x, t) ==
    /\ t \notin rqdata.unskippable \union rqdata.targets
    /\ rqdata.sq_revdeps[t] # {}
    /\ rqdata.sq_revdeps[t] \subseteq x.scenequeue_covered

SkipNotNeeded(x, unread) ==
    \E t \in SceneCandidates(x) :
        /\ NotNeeded(x, t)
        /\ Return([Undefer(SqTaskSkip(x, {t}), {t}) EXCEPT
                     !.scenequeue_notneeded = @ \union {t}], unread)
        /\ NothingStarted

(* No usable object, or the task itself is current or forced. *)
SetsceneRefused(x, t) ==
    \/ t \in Deferred(x) /\ ~Validated(x, t)
    \/ t \in x.outrightfail
    \/ CheckStampTask(x, t, TRUE)
    \/ Forced /\ t \in rqdata.targets

RefuseSetscene(x, unread) ==
    \E t \in SceneCandidates(x) :
        /\ ~DeferredBehind(x, t)
        /\ \/ SetsceneRefused(x, t)
           \/ SkipSetscene /\ ~HasStamp(x, t, "setscene")
        /\ Return(SqTaskFailoutright(Undefer(x, {t}), {t}), unread)
        /\ NothingStarted

SetsceneStamped(x, unread) ==
    \E t \in SceneCandidates(x) :
        /\ ~DeferredBehind(x, t) /\ ~SetsceneRefused(x, t)
        /\ HasStamp(x, t, "setscene")
        /\ Return(SqTaskSkip(Undefer(x, {t}), {t}), unread)
        /\ NothingStarted

StartSetscene(x, unread) ==
    \E t \in SceneCandidates(x) :
        /\ ~DeferredBehind(x, t) /\ ~SetsceneRefused(x, t)
        /\ ~HasStamp(x, t, "setscene") /\ ~SkipSetscene
        /\ LET y == [Undefer(x, {t}) EXCEPT !.sq_running = @ \union {t},
                                          !.sq_live = @ \union {t}]
           IN  IF CanStartTask(y) THEN Return(y, unread)
               ELSE ReadAndReturn(UpdateHoldofftasks(y), unread)
        /\ Runtask(t, "setscene", x)
        /\ UNCHANGED disk

(* The scene queue has nothing left to do; in the state z its sanity checks
   run and the real tasks may follow. *)
SceneQueueDone(z) ==
    /\ z.sq_live = {} /\ ~z.sqdone /\ Deferred(z) = {}
    /\ z.updated_taskhash_queue = <<>> /\ z.holdoff_tasks = {}

EndSceneQueue(z) ==
    IF ~SceneQueueDone(z) THEN z
    ELSE [z EXCEPT !.sqdone = ~ScenequeueErrors(z) /\ ~SetsceneOnly,
                   !.state = IF ScenequeueErrors(z) THEN "Failed"
                             ELSE IF SetsceneOnly THEN "Complete" ELSE @]

(* RunQueueScheduler.next_buildable_task without the order of priorities. *)
NextBuildable(z) ==
    IF SetsceneOnly \/ ~CanStartTask(z) THEN {}
    ELSE ((z.runq_buildable \ z.runq_running) \ z.holdoff_tasks)
            \intersect (z.tasks_covered \union z.tasks_notcovered)

(* check_setscene_ignore_tasks. *)
Unexpected(z, t) ==
    /\ Enforce
    /\ t \notin z.tasks_covered \union rqdata.noexec \union IgnoreTasks
    /\ ~CheckStampTask(z, t, FALSE)

(* A task that needs no execution: covered by a setscene task, or current. *)
SkipTask(z, unread) ==
    \E t \in NextBuildable(z) :
        /\ ~Unexpected(z, t)
        /\ t \in z.tasks_covered \/ CheckStampTask(z, t, FALSE)
        /\ Return([TaskSkip(z, t) EXCEPT
                     !.runq_tasksrun = IF t \in z.tasks_covered THEN @ ELSE @ \union {t}],
                  unread)
        /\ NothingStarted

FailUnexpected(z, unread) ==
    \E t \in NextBuildable(z) :
        /\ Unexpected(z, t)
        /\ Return(TaskFail(z, t), unread)
        /\ NothingStarted

Executed(z, t) ==
    /\ ~Unexpected(z, t)
    /\ t \notin z.tasks_covered
    /\ ~CheckStampTask(z, t, FALSE)

(* make_stamp: the other stamps of the task go. *)
WithStamp(d, t, variant, h) ==
    [d EXCEPT !.stamps = {s \in @ : ~(s[1] = t /\ (variant = "run" \/ s[2] = variant))}
                            \union {<<t, variant, h>>},
              !.fresh = IF variant = "run" THEN @ \union {t} ELSE @]

CompleteNoexec(z, unread) ==
    \E t \in NextBuildable(z) \intersect rqdata.noexec :
        /\ Executed(z, t)
        /\ Return(TaskComplete([z EXCEPT !.runq_running = @ \union {t},
                                         !.active = @ + 1], t), unread)
        /\ disk' = IF Enforce THEN disk
                   ELSE WithStamp(disk, t, "run", z.unihash[t])
        /\ UNCHANGED worker

StartTask(z, unread) ==
    \E t \in NextBuildable(z) \ rqdata.noexec :
        /\ Executed(z, t)
        /\ LET y == [z EXCEPT !.runq_running = @ \union {t}, !.active = @ + 1]
           IN  IF CanStartTask(y) THEN Return(y, unread)
               ELSE ReadAndReturn(y, unread)
        /\ Runtask(t, "run", z)
        /\ UNCHANGED disk

(* The end of execute(), when no task is found: wait for the workers, break
   a deadlock of deferred tasks, or end the build after the last checks.
   With tasks active the scheduler may also hold tasks back (pressure, or
   the number_threads flag of a task). *)
NeverFinished(z) ==
    Tasks \ (z.runq_buildable \intersect z.runq_running \intersect z.runq_complete)

NoTaskFound(z, unread) ==
    /\ \/ /\ z.active > 0 \/ z.sq_live # {}
          /\ ReadAndReturn(z, unread)
       \/ /\ z.active <= 0 /\ z.sq_live = {}
          /\ NextBuildable(z) = {}
          /\ \/ \E t \in Deferred(z) : Return(Undefer(z, {t}), unread)
             \/ /\ Deferred(z) = {}
                /\ Return([z EXCEPT !.state =
                      IF \/ z.failed_tids # {}
                         \/ ScenequeueErrors(z)
                         \/ NeverFinished(z) # {}
                      THEN "Failed" ELSE "Complete"], unread)
    /\ NothingStarted

(* execute() after the setscene tasks were looked at. *)
ExecuteTasks(x, unread) ==
    /\ \A t \in SceneCandidates(x) : DeferredBehind(x, t)
    /\ \E y \in {UpdateHoldofftasks(x)} : \E z \in {EndSceneQueue(y)} :
         IF SceneQueueDone(y) /\ ~z.sqdone THEN Return(z, unread) /\ NothingStarted
         ELSE \/ SkipTask(z, unread)
              \/ FailUnexpected(z, unread)
              \/ CompleteNoexec(z, unread)
              \/ StartTask(z, unread)
              \/ NoTaskFound(z, unread)

(* _execute_runqueue with state runQueueRunning. *)
Execute ==
    /\ rqexe.state = "Running"
    /\ \E n \in 0..Len(pipe) :
       \E read \in {ReadWorkers(rqexe, pipe, n)} :
       \E unread \in {SubSeq(pipe, n + 1, Len(pipe))} :
       \E x \in IF \/ read.updated_taskhash_queue # <<>>
                   \/ read.pending_migrations # {}
                THEN ProcessPossibleMigrations(read) ELSE {read} :
            \/ SkipNotNeeded(x, unread)
            \/ RefuseSetscene(x, unread)
            \/ SetsceneStamped(x, unread)
            \/ StartSetscene(x, unread)
            \/ ExecuteTasks(x, unread)
    /\ UNCHANGED <<rqdata, reports, broken>>

(* _execute_runqueue with state runQueueCleanUp. *)
CleanUp ==
    /\ rqexe.state = "CleanUp"
    /\ FinishStep(rqexe, pipe)
    /\ UNCHANGED <<rqdata, worker, disk, reports, broken>>

(* finish_runqueue(now) from the cooker: Ctrl-C once, or twice; the latter
   is also what runQueuePipe.read does when a worker process has died. *)
Shutdown ==
    /\ Interrupts /\ rqexe.state = "Running"
    /\ FinishStep(rqexe, pipe)
    /\ broken' = TRUE
    /\ UNCHANGED <<rqdata, worker, disk, reports>>

FinishNow ==
    /\ Interrupts /\ rqexe.state \notin Ended
    /\ rqexe' = [rqexe EXCEPT !.state = IF rqexe.failed_tids # {}
                                        THEN "Failed" ELSE "Complete"]
    /\ worker' = {}
    /\ broken' = TRUE
    /\ UNCHANGED <<rqdata, pipe, disk, reports>>

------------------------------------------------------------------------------
(* The workers.                                                            *)

(* A task with a setscene variant reports that the hash equivalence server
   knows its output under another unihash (taskUniHashUpdate). *)
ReportUnihash(t, h) ==
    \E w \in worker :
        /\ w[1] = t /\ w[2] = "run" /\ w[3] # h
        /\ t \in rqdata.setscene \ reports
        /\ Cardinality(reports) < MaxReports
        /\ reports' = reports \union {t}
        /\ worker' = (worker \ {w}) \union {<<t, "run", h>>}
        /\ pipe' = Append(pipe, [kind |-> "unihash", task |-> t, unihash |-> h])
        /\ UNCHANGED <<rqdata, rqexe, disk, broken>>

(* process_waitpid in bitbake-worker: the exit code of a task.  A task that
   succeeded left its stamp, unless it is "nostamp", and its output in the
   shared-state cache. *)
TaskExit(w, ok) ==
    /\ w \in worker
    /\ worker' = worker \ {w}
    /\ pipe' = Append(pipe, [kind |-> "exit", task |-> w[1], ok |-> ok])
    /\ disk' = IF ~ok THEN disk
               ELSE [IF w[2] = "run" /\ w[1] \in rqdata.nostamp THEN disk
                     ELSE WithStamp(disk, w[1], w[2], w[3]) EXCEPT !.sstate =
                       IF w[2] = "run" /\ w[1] \in rqdata.setscene
                       THEN @ \union {<<rqdata.twin[w[1]], w[3]>>} ELSE @]
    /\ UNCHANGED <<rqdata, rqexe, reports, broken>>

Terminated == rqexe.state \in Ended /\ UNCHANGED vars

Next ==
    \/ Execute
    \/ CleanUp
    \/ Shutdown
    \/ FinishNow
    \/ \E t \in Tasks, h \in Hashes : ReportUnihash(t, h)
    \/ \E t \in Tasks, v \in {"run", "setscene"}, h \in Hashes, ok \in BOOLEAN :
          TaskExit(<<t, v, h>>, ok)
    \/ Terminated

Spec == Init /\ [][Next]_vars

(* The server keeps calling the idle function while a build is under way,
   and every task process ends. *)
FairSpec ==
    /\ Spec
    /\ WF_vars(Execute) /\ WF_vars(CleanUp)
    /\ \A t \in Tasks, v \in {"run", "setscene"}, h \in Hashes :
          WF_vars(\E ok \in BOOLEAN : TaskExit(<<t, v, h>>, ok))

------------------------------------------------------------------------------
TaskSets == {"sq_buildable", "sq_running", "sq_live", "scenequeue_covered",
             "scenequeue_notcovered", "scenequeue_notneeded",
             "tasks_scenequeue_done", "tasks_covered", "tasks_notcovered",
             "runq_buildable", "runq_running", "runq_complete",
             "runq_tasksrun", "holdoff_tasks", "outrightfail", "valid",
             "stamppresent", "noexec", "failed_tids", "pending_migrations"}

(* The fields of the RunQueueExecute object hold what the code puts there. *)
TypeOK ==
    /\ rqdata.setscene \union rqdata.targets \subseteq Tasks
    /\ \A f \in TaskSets : rqexe[f] \subseteq Tasks
    /\ rqexe.state \in {"Running", "CleanUp"} \union Ended
    /\ rqexe.active \in LowestActive..NumberTasks
    /\ rqexe.sqdone \in BOOLEAN /\ rqexe.holdoff_need_update \in BOOLEAN
    /\ rqexe.unihash \in [Tasks -> Hashes]
    /\ Deferred(rqexe) \subseteq rqdata.setscene
    /\ worker \subseteq Tasks \X {"run", "setscene"} \X Hashes
    /\ broken \in BOOLEAN

Running(t, variant) == \E w \in worker : w[1] = t /\ w[2] = variant

(* No setscene task runs while its own task, or a task whose work it would
   replace, runs: both write the same files.  The comment "If covered tasks
   are running, need to wait for them to complete" is the intent; the loop
   under it has no effect, so the hold-off sets have to ensure it. *)
SetsceneExclusive ==
    \A t \in rqdata.setscene :
        Running(t, "setscene") =>
            \A u \in {t} \union rqdata.sq_covered_tasks[t] : ~Running(u, "run")

(* "No task should end up in both covered and uncovered, that is a bug." *)
CoveredOnce ==
    /\ rqexe.scenequeue_covered \intersect rqexe.scenequeue_notcovered = {}
    /\ rqexe.tasks_covered \intersect rqexe.tasks_notcovered = {}

(* A build that was not interrupted ends as failed only because a task
   failed: the sanity checks of summarise_scenequeue_errors and of the end
   of execute() never fire. *)
SanityChecksPass ==
    rqexe.state = "Failed" => rqexe.failed_tids # {}

(* A build that was not interrupted and ends without failure has completed
   or skipped every task; with BB_SETSCENE_ENFORCE a failing setscene task
   ends the build early. *)
CompleteMeansAll ==
    rqexe.state = "Complete" /\ ~broken /\ ~SetsceneOnly /\ ~Enforce =>
        rqexe.runq_complete = Tids

(* The build ends only when no worker runs a task any more: finish() counts
   stats.active and sq_live, never the processes themselves. *)
EndedMeansIdle == rqexe.state \in Ended => worker = {}

(* In a multiconfig build a task deferred behind the same task of another
   multiconfig does not run, in either variant, while it waits. *)
DeferredNotRunning ==
    \A t \in Deferred(rqexe) : ~Running(t, "run") /\ ~Running(t, "setscene")

(* A setscene task runs only while those it hard-depends on are covered:
   "was unavailable and is a hard dependency of ... so skipping". *)
HardDepsAvailable ==
    \A d \in rqdata.setscene : \A t \in rqdata.harddeps[d] :
        Running(t, "setscene") => d \in rqexe.scenequeue_covered

(* After a build that completed, the same build finds nothing to do: every
   task that was not covered, and is no "nostamp" task, has a current stamp, no
   older than those of the tasks of its recipe it depends on. *)
RebuildFindsStamps ==
    rqexe.state = "Complete" /\ ~broken /\ ~SetsceneOnly /\ ~Enforce =>
        \A t \in Tids \ (rqexe.tasks_covered \union rqdata.nostamp) :
            /\ HasStamp(rqexe, t, "run")
            /\ \A d \in rqdata.depends[t] :
                  rqdata.fn[d] = rqdata.fn[t] => ~Newer(d, t)

(* The build ends: with Ended reached, nothing waits on anything. *)
BuildEnds == <>(rqexe.state \in Ended)

(* The run queue implements the promise of TaskGraph: a task begins only when
   all it depends on is finished, and what is finished stays finished. *)
Graph == INSTANCE TaskGraph WITH
    depends <- rqdata.depends,
    begun <- rqexe.runq_running, finished <- rqexe.runq_complete
ImplementsTaskGraph == Graph!GraphSpec

==============================================================================
