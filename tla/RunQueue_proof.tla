--------------------------- MODULE RunQueue_proof ---------------------------
(***************************************************************************)
(* Proofs about the run queue, for any tasks, any dependency graph and any *)
(* options: however the passes of execute(), the workers' answers, reports *)
(* of new hashes and interruptions interleave, a task begins only after    *)
(* all it depends on is finished.                                          *)
(*                                                                         *)
(* The order of the tasks rests on three sets of the RunQueueExecute       *)
(* object (buildable, running, complete) and on who may still report:      *)
(* runq_buildable holds only tasks whose dependencies are complete, and no *)
(* task is both running a setscene variant that is awaited and reported    *)
(* complete as if its own had run (Awaited).  Most of an execute() pass    *)
(* leaves those sets alone (SameRuns); reading the workers' pipes adds     *)
(* finished tasks (Reads, Continues), and one task at a time begins        *)
(* (Advances).                                                             *)
(*                                                                         *)
(* The last part proves that two setscene tasks with common work never run *)
(* at once: a setscene task still open has none of its work under way, and *)
(* once it runs that work is held off (Scene, Ready, Rest); steps that     *)
(* only finish or settle tasks keep this (Calm); and a task is run by one  *)
(* worker and reported once (Single).                                      *)
(***************************************************************************)
EXTENDS RunQueue, SequenceTheorems, FiniteSetTheorems, WellFoundedInduction, TLAPS

Messages ==
    [kind : {"unihash"}, task : Tasks, unihash : Hashes]
        \union [kind : {"exit"}, task : Tasks, ok : BOOLEAN]

Fields ==
    TaskSets \union {"state", "active", "sq_deferred", "holdoff_need_update",
                     "sqdone", "unihash", "updated_taskhash_queue"}

(* The tables of the queue. *)
DataOK ==
    /\ rqdata.depends \in [Tasks -> SUBSET Tasks]
    /\ \A t \in Tasks : rqdata.revdeps[t] \subseteq Tasks

(* What holds of a RunQueueExecute object between any two calls. *)
RunsOK(x) ==
    /\ DOMAIN x = Fields
    /\ x.runq_running \subseteq Tasks
    /\ x.runq_complete \subseteq x.runq_running
    /\ \A t \in x.runq_buildable : t \in Tasks /\ rqdata.depends[t] \subseteq x.runq_complete
    /\ x.sq_live \subseteq x.sq_running

IsExit(m) == m.kind # "unihash"

(* The answers that x waits for from the workers W and from the messages of P
   after the n-th: a task that has not begun is known to the workers only as a
   live setscene task, and once. *)
Awaited(x, W, P, n) ==
    /\ \A w \in W : \/ w[1] \in x.runq_running
                    \/ w[2] # "run" /\ w[1] \in x.sq_live
    /\ \A v, w \in W : v[1] = w[1] /\ v # w => v[1] \in x.runq_running
    /\ \A w \in W, i \in (n+1)..Len(P) :
          IsExit(P[i]) /\ P[i].task = w[1] => w[1] \in x.runq_running
    /\ \A i \in (n+1)..Len(P) :
          IsExit(P[i]) => P[i].task \in x.runq_running \union x.sq_live
    /\ \A i, j \in (n+1)..Len(P) :
          i # j /\ IsExit(P[i]) /\ IsExit(P[j]) /\ P[i].task = P[j].task
             => P[i].task \in x.runq_running

(* A build is cleaned up after a failure only, and called complete when all
   tasks are, but for the options that say otherwise. *)
Honest(x) ==
    /\ x.state = "CleanUp" => x.failed_tids # {} \/ Enforce
    /\ x.state = "Complete" => Tasks \subseteq x.runq_complete \/ SetsceneOnly \/ Enforce

(* y differs from x in nothing the order of the tasks depends on. *)
SameRuns(x, y) ==
    /\ DOMAIN y = DOMAIN x
    /\ y.runq_running = x.runq_running
    /\ y.runq_complete = x.runq_complete
    /\ y.runq_buildable = x.runq_buildable
    /\ y.sq_live = x.sq_live
    /\ x.sq_live \subseteq x.sq_running => y.sq_live \subseteq y.sq_running
    /\ Honest(x) => Honest(y)

LEMMA SameRunsTransitive ==
    ASSUME NEW x, NEW y, NEW z, SameRuns(x, y), SameRuns(y, z)
    PROVE  SameRuns(x, z)
BY DEF SameRuns, Honest

LEMMA SameRunsKeeps ==
    ASSUME NEW x, NEW y, NEW W, NEW P, NEW n, SameRuns(x, y)
    PROVE  /\ RunsOK(x) => RunsOK(y)
           /\ Awaited(x, W, P, n) => Awaited(y, W, P, n)
<1>1. RunsOK(x) => RunsOK(y)
  BY DEF SameRuns, Honest, RunsOK
<1>2. Awaited(x, W, P, n) => Awaited(y, W, P, n)
  BY DEF SameRuns, Honest, Awaited
<1> QED
  BY <1>1, <1>2

(* With more tasks begun the workers' answers are still awaited. *)
LEMMA AwaitedGrows ==
    ASSUME NEW x, NEW y, NEW W, NEW P, NEW n, Awaited(x, W, P, n),
           x.runq_running \subseteq y.runq_running, x.sq_live \subseteq y.sq_live
    PROVE  Awaited(y, W, P, n)
BY DEF Awaited

-----------------------------------------------------------------------------
(* The scene queue *)

LEMMA UpdatecountersRuns ==
    ASSUME NEW x, DOMAIN x = Fields, NEW tids, NEW fail
    PROVE  SameRuns(x, ScenequeueUpdatecounters(x, tids, fail))
<1> SUFFICES ASSUME NEW ended
             PROVE  SameRuns(x, Release(x, tids, ended, fail))
  BY DEF ScenequeueUpdatecounters
<1> QED
  BY DEF Release, SameRuns, Honest, Fields, TaskSets

LEMMA FailoutrightRuns ==
    ASSUME NEW x, DOMAIN x = Fields, NEW tids
    PROVE  SameRuns(x, SqTaskFailoutright(x, tids))
<1> DEFINE y == [x EXCEPT !.sq_running = @ \union tids,
                          !.sq_buildable = @ \union tids,
                          !.scenequeue_notcovered = @ \union tids]
<1>1. SameRuns(x, y) /\ DOMAIN y = Fields
  BY DEF SameRuns, Honest, Fields, TaskSets
<1> QED
  BY <1>1, UpdatecountersRuns, SameRunsTransitive DEF SqTaskFailoutright

LEMMA CompleteoutrightRuns ==
    ASSUME NEW x, DOMAIN x = Fields, NEW tids
    PROVE  SameRuns(x, SqTaskCompleteoutright(x, tids))
<1> DEFINE y == [x EXCEPT !.scenequeue_covered = @ \union tids]
<1>1. SameRuns(x, y) /\ DOMAIN y = Fields
  BY DEF SameRuns, Honest, Fields, TaskSets
<1> QED
  BY <1>1, UpdatecountersRuns, SameRunsTransitive DEF SqTaskCompleteoutright

LEMMA SqSkipRuns ==
    ASSUME NEW x, DOMAIN x = Fields, NEW tids
    PROVE  SameRuns(x, SqTaskSkip(x, tids))
<1> DEFINE y == [x EXCEPT !.sq_running = @ \union tids,
                          !.sq_buildable = @ \union tids]
<1>1. SameRuns(x, y) /\ DOMAIN y = Fields
  BY DEF SameRuns, Honest, Fields, TaskSets
<1> QED
  BY <1>1, CompleteoutrightRuns, SameRunsTransitive DEF SqTaskSkip

LEMMA SqFailRuns ==
    ASSUME NEW x, DOMAIN x = Fields, NEW t
    PROVE  SameRuns(x, SqTaskFail(x, t))
<1> DEFINE y == [x EXCEPT !.scenequeue_notcovered = @ \union {t}]
           z == ScenequeueUpdatecounters(y, {t}, TRUE)
           u == [z EXCEPT !.state = IF Enforce /\ t \notin IgnoreTasks
                                    THEN "CleanUp" ELSE @]
<1>1. SameRuns(x, y) /\ DOMAIN y = Fields
  BY DEF SameRuns, Honest, Fields, TaskSets
<1>2. u = SqTaskFail(x, t)
  BY DEF SqTaskFail
<1> HIDE DEF y
<1>3. SameRuns(y, z)
  BY <1>1, UpdatecountersRuns
<1> HIDE DEF z
<1>4. SameRuns(z, u)
  BY <1>1, <1>3 DEF SameRuns, Honest, Fields, TaskSets
<1> HIDE DEF u
<1> QED
  BY <1>1, <1>2, <1>3, <1>4, SameRunsTransitive

LEMMA UndeferRuns ==
    ASSUME NEW x, DOMAIN x = Fields, NEW tids
    PROVE  SameRuns(x, Undefer(x, tids))
BY DEF Undefer, SameRuns, Honest, Fields, TaskSets

LEMMA UpdateDataRuns ==
    ASSUME NEW x, DOMAIN x = Fields, NEW tids
    PROVE  SameRuns(x, UpdateScenequeueData(x, tids))
<1> DEFINE none == {t \in tids : NoExec(t)}
           stamped == {t \in tids \ none : StampPresent(x, t)}
           skipped == none \union stamped
           valid == {t \in tids \ skipped : Validated(x, t)}
           v == [x EXCEPT !.noexec = @ \union none,
                          !.stamppresent = (@ \ tids) \union stamped,
                          !.valid = (@ \ tids) \union valid,
                          !.outrightfail = @ \ tids]
           y == SqTaskSkip(v, skipped)
           z == OutrightFail(y, tids)
<1>1. z = UpdateScenequeueData(x, tids)
  BY DEF UpdateScenequeueData
<1> HIDE DEF none, stamped, skipped, valid
<1>2. SameRuns(x, v) /\ DOMAIN v = Fields
  BY DEF SameRuns, Honest, Fields, TaskSets
<1> HIDE DEF v
<1>3. SameRuns(v, y) /\ DOMAIN y = Fields
  BY <1>2, SqSkipRuns DEF SameRuns, Honest
<1> HIDE DEF y
<1>4. SameRuns(y, z)
  BY <1>3 DEF OutrightFail, SameRuns, Honest, Fields, TaskSets
<1> HIDE DEF z
<1> QED
  BY <1>1, <1>2, <1>3, <1>4, SameRunsTransitive

-----------------------------------------------------------------------------
(* The run queue *)

(* y is x after answers of workers were read: tasks may be finished. *)
Reads(x, y) ==
    /\ RunsOK(y)
    /\ y.runq_running = x.runq_running
    /\ x.runq_complete \subseteq y.runq_complete
    /\ Honest(x) => Honest(y)

LEMMA SameRunsReads ==
    ASSUME NEW x, NEW y, RunsOK(x), SameRuns(x, y)
    PROVE  Reads(x, y)
BY DEF RunsOK, SameRuns, Honest, Reads

LEMMA ReadsTransitive ==
    ASSUME NEW x, NEW y, NEW z, Reads(x, y), Reads(y, z)
    PROVE  Reads(x, z)
BY DEF Reads

(* A task that has begun is completed, and what only waited for it becomes
   buildable. *)
LEMMA CompleteTaskReads ==
    ASSUME DataOK, NEW x, RunsOK(x), NEW t \in x.runq_running
    PROVE  /\ Reads(x, TaskCompleteoutright(x, t))
           /\ TaskCompleteoutright(x, t).sq_live = x.sq_live
<1> DEFINE complete == x.runq_complete \union {t}
           ready == {r \in rqdata.revdeps[t] \ x.runq_running :
                        rqdata.depends[r] \subseteq complete}
           waiting == {d \in Deferred(x) : x.sq_deferred[d] = t}
           v == [x EXCEPT !.runq_complete = complete]
           w == Setbuildable(v, ready)
           y == Undefer(w, waiting)
           z == UpdateScenequeueData(y, waiting)
<1>1. z = TaskCompleteoutright(x, t)
  BY DEF TaskCompleteoutright
<1> HIDE DEF waiting
<1>2. /\ DOMAIN w = Fields
      /\ w.runq_running = x.runq_running
      /\ w.runq_complete = complete
      /\ w.runq_buildable = x.runq_buildable \union ready
      /\ w.sq_live = x.sq_live
      /\ w.sq_running = x.sq_running
      /\ w.state = x.state /\ w.failed_tids = x.failed_tids
  BY DEF Setbuildable, RunsOK, Fields, TaskSets
<1>3. Reads(x, w)
  <2>1. t \in Tasks
    BY DEF RunsOK
  <2>2. \A r \in ready : r \in Tasks /\ rqdata.depends[r] \subseteq complete
    BY <2>1 DEF DataOK
  <2> HIDE DEF ready, w
  <2> QED
    BY <1>2, <2>2 DEF RunsOK, Reads, Honest
<1> HIDE DEF w
<1>4. SameRuns(w, y) /\ DOMAIN y = Fields
  BY <1>2, UndeferRuns DEF SameRuns, Honest
<1> HIDE DEF y
<1>5. SameRuns(y, z)
  BY <1>4, UpdateDataRuns
<1>6. SameRuns(w, z)
  BY <1>4, <1>5, SameRunsTransitive
<1>7. Reads(w, z) /\ z.sq_live = x.sq_live
  BY <1>2, <1>3, <1>6, SameRunsReads DEF Reads, SameRuns, Honest
<1> QED
  BY <1>1, <1>3, <1>7, ReadsTransitive

LEMMA TaskCompleteReads ==
    ASSUME DataOK, NEW x, RunsOK(x), NEW t \in x.runq_running
    PROVE  /\ Reads(x, TaskComplete(x, t))
           /\ TaskComplete(x, t).sq_live = x.sq_live
<1> DEFINE v == [x EXCEPT !.active = @ - 1]
           y == TaskCompleteoutright(v, t)
           z == [y EXCEPT !.runq_tasksrun = @ \union {t}]
<1>1. z = TaskComplete(x, t)
  BY DEF TaskComplete
<1>2. SameRuns(x, v)
  BY DEF SameRuns, Honest, RunsOK, Fields, TaskSets
<1> HIDE DEF v
<1>3. Reads(x, v) /\ v.sq_live = x.sq_live /\ t \in v.runq_running
  BY <1>2, SameRunsReads DEF SameRuns, Honest
<1>4. Reads(v, y) /\ y.sq_live = v.sq_live
  BY <1>3, CompleteTaskReads DEF Reads
<1> HIDE DEF y
<1>5. SameRuns(y, z)
  BY <1>4 DEF SameRuns, Honest, Reads, RunsOK, Fields, TaskSets
<1> HIDE DEF z
<1>6. Reads(y, z) /\ z.sq_live = y.sq_live
  BY <1>4, <1>5, SameRunsReads DEF Reads, SameRuns, Honest
<1> QED
  BY <1>1, <1>3, <1>4, <1>6, ReadsTransitive

LEMMA TaskFailRuns ==
    ASSUME NEW x, DOMAIN x = Fields, NEW t
    PROVE  SameRuns(x, TaskFail(x, t))
BY DEF TaskFail, SameRuns, Honest, Fields, TaskSets

-----------------------------------------------------------------------------
(* What the workers answer *)

(* One message read: the answer of a live setscene task settles it, any other
   answer is of a task that has begun. *)
LEMMA ReadMessageReads ==
    ASSUME DataOK, NEW x, RunsOK(x), NEW W, NEW P \in Seq(Messages),
           NEW n \in 1..Len(P), Awaited(x, W, P, n - 1)
    PROVE  /\ Reads(x, ReadMessage(x, P[n]))
           /\ Awaited(ReadMessage(x, P[n]), W, P, n)
<1> DEFINE m == P[n]
           y == ReadMessage(x, m)
<1>0. /\ n \in ((n-1)+1)..Len(P)
      /\ (n+1)..Len(P) \subseteq ((n-1)+1)..Len(P)
      /\ \A i \in (n+1)..Len(P) : i # n
  OBVIOUS
<1>0a. Awaited(x, W, P, n)
  BY <1>0 DEF Awaited
<1> SUFFICES Reads(x, y) /\ Awaited(y, W, P, n)
  OBVIOUS
<1>1. CASE ~IsExit(m)
  <2> DEFINE z == [x EXCEPT !.updated_taskhash_queue = Append(@, <<m.task, m.unihash>>)]
  <2>1. y = z
    BY <1>1 DEF ReadMessage, IsExit
  <2>2. SameRuns(x, z)
    BY DEF SameRuns, Honest, RunsOK, Fields, TaskSets
  <2> HIDE DEF z, y
  <2> QED
    BY <2>1, <2>2, <1>0a, SameRunsReads, SameRunsKeeps
<1>2. CASE IsExit(m) /\ m.task \in x.sq_live
  <2> DEFINE v == IF m.ok THEN SqTaskCompleteoutright(x, {m.task})
                  ELSE SqTaskFail(x, m.task)
             z == [v EXCEPT !.sq_live = @ \ {m.task}]
  <2>1. y = z
    BY <1>2 DEF ReadMessage, IsExit
  <2>2. SameRuns(x, v) /\ DOMAIN v = Fields
    BY CompleteoutrightRuns, SqFailRuns DEF RunsOK, SameRuns, Honest
  <2>3. RunsOK(v)
    BY <2>2, SameRunsKeeps
  <2> HIDE DEF v
  <2>4. /\ DOMAIN z = Fields
        /\ z.runq_running = x.runq_running
        /\ z.runq_complete = x.runq_complete
        /\ z.runq_buildable = x.runq_buildable
        /\ z.sq_live = x.sq_live \ {m.task}
        /\ z.sq_running = v.sq_running
        /\ Honest(x) => Honest(z)
    BY <2>2 DEF SameRuns, Honest, Fields, TaskSets
  <2> HIDE DEF z
  <2>5. Reads(x, z)
    BY <2>2, <2>3, <2>4 DEF Reads, RunsOK, SameRuns
  <2>6. Awaited(z, W, P, n)
    <3>1. \A w \in W : \/ w[1] \in x.runq_running
                       \/ w[2] # "run" /\ w[1] \in x.sq_live \ {m.task}
      BY <1>0, <1>2 DEF Awaited
    <3>2. \A i \in (n+1)..Len(P) :
             IsExit(P[i]) => P[i].task \in x.runq_running \union (x.sq_live \ {m.task})
      <4> SUFFICES ASSUME NEW i \in (n+1)..Len(P), IsExit(P[i]), P[i].task = m.task
                   PROVE  P[i].task \in x.runq_running
        BY <1>0 DEF Awaited
      <4> QED
        BY <1>0, <1>2 DEF Awaited
    <3> HIDE DEF m
    <3> QED
      BY <1>0a, <2>4, <3>1, <3>2 DEF Awaited
  <2> QED
    BY <2>1, <2>5, <2>6
<1>3. CASE IsExit(m) /\ m.task \notin x.sq_live
  <2>1. m.task \in x.runq_running
    BY <1>0, <1>3 DEF Awaited
  <2>2. y = IF m.ok THEN TaskComplete(x, m.task) ELSE TaskFail(x, m.task)
    BY <1>3 DEF ReadMessage, IsExit
  <2>3. SameRuns(x, TaskFail(x, m.task))
    BY TaskFailRuns DEF RunsOK
  <2>4. Reads(x, y) /\ y.sq_live = x.sq_live
    <3>1. CASE m.ok
      BY <2>1, <2>2, <3>1, TaskCompleteReads
    <3>2. CASE ~m.ok
      BY <2>2, <2>3, <3>2, SameRunsReads DEF SameRuns, Honest
    <3> QED
      BY <3>1, <3>2
  <2> HIDE DEF y
  <2> QED
    BY <1>0a, <2>4 DEF Awaited, Reads
<1> QED
  BY <1>1, <1>2, <1>3

Less == OpToRel(<, Nat)

(* The least-number principle, from the well-foundedness of < on Nat. *)
LEMMA LeastNat ==
    ASSUME NEW T \in SUBSET Nat, T # {}
    PROVE  \E x \in T : \A y \in T : x <= y
<1>1. IsWellFoundedOn(Less, Nat)
  BY NatLessThanWellFounded, Zenon DEF Less
<1>2. \A x, y \in Nat : <<x, y>> \in Less <=> x < y
  BY DEF Less, OpToRel
<1>3. PICK x \in T : \A y \in T : ~(<<y, x>> \in Less)
  <2> HIDE DEF Less
  <2> QED BY <1>1, WFMin, Zenon
<1>4. \A y \in T : ~(y < x)
  BY <1>2, <1>3
<1> QED BY <1>4

(* Reading makes a sequence of objects, one per message. *)
ReadAll(x, P, n, f) ==
    f = [i \in 0..n |-> IF i = 0 THEN x ELSE ReadMessage(f[i - 1], P[i])]

LEMMA ReadAllExists ==
    ASSUME NEW x, NEW P, NEW n \in Nat
    PROVE  \E f : ReadAll(x, P, n, f)
<1> DEFINE Missing == {k \in Nat : ~\E f : ReadAll(x, P, k, f)}
<1>1. SUFFICES ASSUME Missing # {} PROVE FALSE
  OBVIOUS
<1>2. PICK k \in Missing : \A l \in Missing : k <= l
  <2>1. Missing \in SUBSET Nat
    OBVIOUS
  <2> HIDE DEF Missing
  <2> QED
    BY <1>1, <2>1, LeastNat
<1>3. k # 0
  <2> DEFINE f == [i \in 0..0 |-> x]
  <2>1. ReadAll(x, P, 0, f)
    BY DEF ReadAll
  <2> QED
    BY <2>1, <1>2
<1>4. k - 1 \in Nat /\ k - 1 \notin Missing
  BY <1>2, <1>3
<1>5. PICK f : ReadAll(x, P, k - 1, f)
  BY <1>4
<1> DEFINE g == [i \in 0..k |-> IF i = k THEN ReadMessage(f[k - 1], P[k]) ELSE f[i]]
<1>6. \A i \in 0..k : g[i] = IF i = 0 THEN x ELSE ReadMessage(g[i - 1], P[i])
  <2> SUFFICES ASSUME NEW i \in 0..k
               PROVE  g[i] = IF i = 0 THEN x ELSE ReadMessage(g[i - 1], P[i])
    OBVIOUS
  <2>1. CASE i = k
    <3>1. g[i] = ReadMessage(f[k - 1], P[k]) /\ g[k - 1] = f[k - 1]
      BY <1>4, <2>1
    <3> HIDE DEF g
    <3> QED
      BY <1>3, <2>1, <3>1
  <2>2. CASE i = 0
    BY <1>3, <1>5, <2>2, <1>4 DEF ReadAll
  <2>3. CASE i # k /\ i # 0
    <3>1. i \in 0..(k - 1) /\ i - 1 \in 0..k /\ i - 1 # k
      BY <1>4, <2>3
    <3>2. g[i] = f[i] /\ g[i - 1] = f[i - 1]
      BY <2>3, <3>1
    <3>3. f[i] = ReadMessage(f[i - 1], P[i])
      BY <1>5, <2>3, <3>1 DEF ReadAll
    <3> HIDE DEF g
    <3> QED
      BY <2>3, <3>2, <3>3
  <2> QED
    BY <2>1, <2>2, <2>3
<1>7. ReadAll(x, P, k, g)
  <2>1. g = [i \in 0..k |-> g[i]]
    OBVIOUS
  <2> HIDE DEF g
  <2> QED
    BY <1>6, <2>1 DEF ReadAll
<1> QED
  BY <1>2, <1>7

(* Any number of messages read: every one finds the answers it is about awaited. *)
LEMMA ReadWorkersReads ==
    ASSUME DataOK, NEW x, RunsOK(x), NEW W, NEW P \in Seq(Messages),
           NEW n \in 0..Len(P), Awaited(x, W, P, 0)
    PROVE  LET y == ReadWorkers(x, P, n)
           IN  Reads(x, y) /\ Awaited(y, W, P, n)
<1> DEFINE read == CHOOSE f : ReadAll(x, P, n, f)
<1>1. ReadAll(x, P, n, read)
  BY ReadAllExists
<1>2. ReadWorkers(x, P, n) = read[n]
  BY DEF ReadWorkers, ReadAll
<1> HIDE DEF read
<1> DEFINE Bad == {k \in 0..n : ~(Reads(x, read[k]) /\ Awaited(read[k], W, P, k))}
<1>3. SUFFICES ASSUME Bad # {} PROVE FALSE
  BY <1>2
<1>4. PICK k \in Bad : \A l \in Bad : k <= l
  <2>1. Bad \in SUBSET Nat
    OBVIOUS
  <2> HIDE DEF Bad
  <2> QED
    BY <1>3, <2>1, LeastNat
<1>5. k # 0
  <2>1. read[0] = x
    BY <1>1 DEF ReadAll
  <2>2. Reads(x, x)
    BY DEF Reads
  <2> QED
    BY <1>4, <2>1, <2>2
<1>6. k - 1 \in 0..n /\ k - 1 \notin Bad /\ k - 1 < Len(P)
  BY <1>4, <1>5
<1>7. Reads(x, read[k - 1]) /\ Awaited(read[k - 1], W, P, k - 1)
  BY <1>6
<1>8. read[k] = ReadMessage(read[k - 1], P[k])
  BY <1>1, <1>4, <1>5 DEF ReadAll
<1>9. Reads(read[k - 1], read[k]) /\ Awaited(read[k], W, P, k)
  <2>1. k \in 1..Len(P) /\ RunsOK(read[k - 1])
    BY <1>4, <1>5, <1>7 DEF Reads
  <2> QED
    BY <1>7, <1>8, <2>1, ReadMessageReads
<1> QED
  BY <1>4, <1>7, <1>9, ReadsTransitive

(* The messages that were not read are a pipe of their own. *)
LEMMA UnreadAwaited ==
    ASSUME NEW x, NEW W, NEW P \in Seq(Messages), NEW n \in 0..Len(P),
           Awaited(x, W, P, n)
    PROVE  LET Q == SubSeq(P, n + 1, Len(P))
           IN  Q \in Seq(Messages) /\ Awaited(x, W, Q, 0)
<1> DEFINE Q == SubSeq(P, n + 1, Len(P))
<1> SUFFICES Q \in Seq(Messages) /\ Awaited(x, W, Q, 0)
  OBVIOUS
<1>1. /\ Q \in Seq(Messages)
      /\ Len(Q) = Len(P) - n
      /\ \A i \in 1..Len(Q) : Q[i] = P[n + i]
  OBVIOUS
<1> HIDE DEF Q
<1>2. \A i \in 1..Len(Q) : n + i \in (n+1)..Len(P)
  BY <1>1
<1>3. \A i, j \in 1..Len(Q) : i # j => n + i # n + j
  BY <1>1
<1>4. Awaited(x, W, Q, 0)
  <2>1. \A w \in W, i \in 1..Len(Q) :
           IsExit(Q[i]) /\ Q[i].task = w[1] => w[1] \in x.runq_running
    BY <1>1, <1>2 DEF Awaited
  <2>2. \A i \in 1..Len(Q) :
           IsExit(Q[i]) => Q[i].task \in x.runq_running \union x.sq_live
    BY <1>1, <1>2 DEF Awaited
  <2>3. \A i, j \in 1..Len(Q) :
           i # j /\ IsExit(Q[i]) /\ IsExit(Q[j]) /\ Q[i].task = Q[j].task
             => Q[i].task \in x.runq_running
    <3> SUFFICES ASSUME NEW i \in 1..Len(Q), NEW j \in 1..Len(Q), i # j,
                        IsExit(Q[i]), IsExit(Q[j]), Q[i].task = Q[j].task
                 PROVE  Q[i].task \in x.runq_running
      OBVIOUS
    <3>1. /\ n + i \in (n+1)..Len(P) /\ n + j \in (n+1)..Len(P)
          /\ n + i # n + j /\ Q[i] = P[n + i] /\ Q[j] = P[n + j]
      BY <1>1, <1>2, <1>3
    <3> QED
      BY <3>1 DEF Awaited
  <2> QED
    BY <2>1, <2>2, <2>3 DEF Awaited
<1> QED
  BY <1>1, <1>4

-----------------------------------------------------------------------------
(* Migrations *)

LEMMA ApplyUpdatesRuns ==
    ASSUME NEW x, DOMAIN x = Fields
    PROVE  SameRuns(x, ApplyUpdates(x).x)
<1> DEFINE visit(acc, e) ==
            IF e[2] = acc.unihash[e[1]] THEN acc
            ELSE LET torehash == {e[1]} \union
                        {d \in Deferred(x) : x.sq_deferred[d] = e[1]}
                 IN  [unihash |-> [t \in Tasks |-> IF t \in torehash THEN e[2]
                                                   ELSE acc.unihash[t]],
                      toprocess |-> acc.toprocess \union torehash]
           applied == FoldLeft(visit, [unihash |-> x.unihash, toprocess |-> {}],
                               SelectSeq(x.updated_taskhash_queue,
                                         LAMBDA e : Processable(x, e)))
           queue == SelectSeq(x.updated_taskhash_queue, LAMBDA e : ~Processable(x, e))
           y == [x EXCEPT !.unihash = applied.unihash, !.updated_taskhash_queue = queue]
<1>1. ApplyUpdates(x).x = y
  BY DEF ApplyUpdates
<1> HIDE DEF applied, queue
<1>2. SameRuns(x, y)
  BY DEF SameRuns, Honest, Fields, TaskSets
<1> QED
  BY <1>1, <1>2

LEMMA RehashRuns ==
    ASSUME NEW x, DOMAIN x = Fields, NEW changed, NEW nu
    PROVE  SameRuns(x, Rehash(x, changed, nu))
BY DEF Rehash, SameRuns, Honest, Fields, TaskSets

LEMMA DeferTwinsRuns ==
    ASSUME NEW x, DOMAIN x = Fields, NEW tids
    PROVE  SameRuns(x, DeferTwins(x, tids))
BY DEF DeferTwins, SameRuns, Honest, Fields, TaskSets

(* A task whose verdict is taken back is not a live one. *)
LEMMA MigrateRuns ==
    ASSUME NEW x, DOMAIN x = Fields, NEW rank
    PROVE  SameRuns(x, Migrate(x, rank).x)
<1> DEFINE lookedAt == LookedAt(x, rank)
           lost == {t \in lookedAt : Lost(x, t)}
           update == lookedAt \ lost
           before(t) == {u \in update : rank[u] < rank[t]}
           pending == {t \in x.pending_migrations \ lookedAt :
                          TooLate(x, t) => \E u \in lost : rank[u] < rank[t]}
           done == (x.tasks_scenequeue_done \ lookedAt) \
                      ((UNION {rqdata.sq_covered_tasks[t] : t \in update})
                          \ (x.runq_complete \union rqdata.unskippable))
           migratable == {t \in update : Migratable(x, t, before(t))}
           state == IF lost # {} THEN "CleanUp" ELSE x.state
           y == [x EXCEPT
                   !.pending_migrations = pending,
                   !.tasks_scenequeue_done = done,
                   !.sq_buildable = (@ \ update) \union migratable,
                   !.sq_running = @ \ update,
                   !.outrightfail = @ \ update,
                   !.scenequeue_notcovered = @ \ update,
                   !.scenequeue_covered = @ \ update,
                   !.scenequeue_notneeded = @ \ update,
                   !.failed_tids = @ \union lost,
                   !.state = state]
<1>1. Migrate(x, rank).x = y
  BY DEF Migrate
<1>2. update \intersect x.sq_live = {}
  BY DEF LookedAt, TooLate
<1>2a. state = IF lost # {} THEN "CleanUp" ELSE x.state
  OBVIOUS
<1> HIDE DEF lookedAt, lost, update, pending, done, migratable, state
<1> DEFINE failed == x.failed_tids \union lost
<1>2b. y.state = state /\ y.failed_tids = failed /\ y.runq_complete = x.runq_complete
  BY DEF Fields, TaskSets
<1>2c. Honest(x) => Honest(y)
  BY <1>2a, <1>2b DEF Honest
<1>3. SameRuns(x, y)
  BY <1>2, <1>2c DEF SameRuns, Fields, TaskSets
<1> QED
  BY <1>1, <1>3

LEMMA MigratedRuns ==
    ASSUME NEW mig, DOMAIN mig.x = Fields, NEW rehashed
    PROVE  SameRuns(mig.x, Migrated(mig, rehashed))
<1>1. SameRuns(mig.x, LookAgain(mig))
  <2> DEFINE u == [mig.x EXCEPT !.sqdone = FALSE]
             v == DeferTwins(u, mig.update)
             y == UpdateScenequeueData(v, mig.update)
  <2>1. LookAgain(mig) = SqTaskFailoutright(y, mig.hardfail)
    BY DEF LookAgain
  <2>2. SameRuns(mig.x, u) /\ DOMAIN u = Fields
    BY DEF SameRuns, Honest, Fields, TaskSets
  <2> HIDE DEF u
  <2>3. SameRuns(u, v) /\ DOMAIN v = Fields
    BY <2>2, DeferTwinsRuns DEF SameRuns, Honest
  <2> HIDE DEF v
  <2>4. SameRuns(v, y) /\ DOMAIN y = Fields
    BY <2>3, UpdateDataRuns DEF SameRuns, Honest
  <2> HIDE DEF y
  <2>5. SameRuns(y, SqTaskFailoutright(y, mig.hardfail))
    BY <2>4, FailoutrightRuns
  <2> QED
    BY <2>1, <2>2, <2>3, <2>4, <2>5, SameRunsTransitive
<1> DEFINE w == IF mig.update = {} THEN mig.x ELSE LookAgain(mig)
           need == w.holdoff_need_update \/ rehashed \/ mig.update # {}
           z == [w EXCEPT !.holdoff_need_update = need]
<1>2. SameRuns(mig.x, w) /\ DOMAIN w = Fields
  BY <1>1 DEF SameRuns, Honest
<1>3. Migrated(mig, rehashed) = IF mig.halted THEN mig.x ELSE z
  BY DEF Migrated
<1> HIDE DEF w, need
<1>4. SameRuns(w, z)
  BY <1>2 DEF SameRuns, Honest, Fields, TaskSets
<1> HIDE DEF z
<1>5. SameRuns(mig.x, mig.x)
  BY DEF SameRuns, Honest
<1> QED
  BY <1>2, <1>3, <1>4, <1>5, SameRunsTransitive

(* Whatever the hash equivalence server answers, no task begins or finishes,
   and no live setscene task is forgotten. *)
LEMMA MigrationsRuns ==
    ASSUME NEW x, DOMAIN x = Fields, NEW y \in ProcessPossibleMigrations(x)
    PROVE  SameRuns(x, y)
<1> DEFINE a == ApplyUpdates(x)
           v == a.x
           changed(nu) == {t \in Tasks \ (v.scenequeue_covered \union v.sq_live) :
                              nu[t] # v.unihash[t]}
<1>1. SameRuns(x, v) /\ DOMAIN v = Fields
  BY ApplyUpdatesRuns DEF SameRuns
<1>2. PICK nu, rank : y = Migrated(Migrate(Rehash(v, changed(nu), nu), rank), changed(nu) # {})
  BY DEF ProcessPossibleMigrations, Migrations
<1> DEFINE w == Rehash(v, changed(nu), nu)
           mig == Migrate(w, rank)
           rehashed == changed(nu) # {}
<1>3. SameRuns(v, w) /\ DOMAIN w = Fields
  BY <1>1, RehashRuns DEF SameRuns
<1>4. y = Migrated(mig, rehashed)
  BY <1>2
<1> HIDE DEF v, w, rehashed
<1>5. SameRuns(w, mig.x) /\ DOMAIN mig.x = Fields
  BY <1>3, MigrateRuns DEF SameRuns
<1> HIDE DEF mig
<1>6. SameRuns(mig.x, y)
  BY <1>4, <1>5, MigratedRuns
<1> QED
  BY <1>1, <1>3, <1>5, <1>6, SameRunsTransitive

-----------------------------------------------------------------------------
(* The rest of _execute_runqueue *)

(* The step goes on from x, with the workers W, by reading only. *)
Continues(x, W) ==
    /\ RunsOK(rqexe')
    /\ rqexe'.runq_running = x.runq_running
    /\ x.runq_complete \subseteq rqexe'.runq_complete
    /\ Honest(x) \/ broken' => Honest(rqexe') \/ broken'
    /\ pipe' \in Seq(Messages)
    /\ Awaited(rqexe', W, pipe', 0)

LEMMA ReadContinues ==
    ASSUME DataOK, NEW x, RunsOK(x), NEW W, NEW P \in Seq(Messages),
           Awaited(x, W, P, 0), NEW n \in 0..Len(P),
           rqexe' = ReadWorkers(x, P, n), pipe' = SubSeq(P, n + 1, Len(P))
    PROVE  Continues(x, W)
BY ReadWorkersReads, UnreadAwaited DEF Continues, Reads

(* A step that goes on from y goes on from x. *)
LEMMA ContinuesFrom ==
    ASSUME NEW x, NEW y, NEW W, Continues(y, W),
           y.runq_running = x.runq_running, x.runq_complete \subseteq y.runq_complete,
           Honest(x) \/ broken' => Honest(y) \/ broken'
    PROVE  Continues(x, W)
BY DEF Continues

(* The state of a build, changed from outside. *)
LEMMA StateRuns ==
    ASSUME NEW x, RunsOK(x), NEW s
    PROVE  LET y == [x EXCEPT !.state = s]
           IN  /\ RunsOK(y)
               /\ y.state = s /\ y.failed_tids = x.failed_tids
               /\ y.runq_running = x.runq_running
               /\ y.runq_complete = x.runq_complete
               /\ y.sq_live = x.sq_live
               /\ Honest(y) => SameRuns(x, y)
<1> DEFINE y == [x EXCEPT !.state = s]
<1>1. /\ DOMAIN x = Fields /\ DOMAIN y = DOMAIN x
      /\ y.state = s
      /\ \A f \in Fields \ {"state"} : y[f] = x[f]
  BY DEF RunsOK, Fields
<1> HIDE DEF y
<1>2. /\ y.failed_tids = x.failed_tids
      /\ y.runq_running = x.runq_running
      /\ y.runq_complete = x.runq_complete
      /\ y.runq_buildable = x.runq_buildable
      /\ y.sq_live = x.sq_live /\ y.sq_running = x.sq_running
  BY <1>1 DEF Fields, TaskSets
<1>3. RunsOK(y) /\ (Honest(y) => SameRuns(x, y))
  BY <1>1, <1>2 DEF RunsOK, SameRuns
<1> QED
  BY <1>1, <1>2, <1>3 DEF y

LEMMA FailedOrComplete ==
    ASSUME NEW x, RunsOK(x), NEW failed
    PROVE  LET y == [x EXCEPT !.state = IF failed # {} THEN "Failed" ELSE "Complete"]
           IN  /\ RunsOK(y)
               /\ y.state = IF failed # {} THEN "Failed" ELSE "Complete"
               /\ y.runq_running = x.runq_running
               /\ y.runq_complete = x.runq_complete
               /\ y.sq_live = x.sq_live
<1> DEFINE s == IF failed # {} THEN "Failed" ELSE "Complete"
<1> HIDE DEF s
<1>1. LET y == [x EXCEPT !.state = s]
      IN  /\ RunsOK(y) /\ y.state = s
          /\ y.runq_running = x.runq_running /\ y.runq_complete = x.runq_complete
          /\ y.sq_live = x.sq_live
  BY StateRuns
<1> QED
  BY <1>1 DEF s

LEMMA FinishContinues ==
    ASSUME DataOK, NEW x, RunsOK(x), NEW W, NEW P \in Seq(Messages),
           Awaited(x, W, P, 0), FinishStep(x, P), x.state = "CleanUp" \/ broken'
    PROVE  Continues(x, W)
<1> DEFINE y == [x EXCEPT !.state = "CleanUp"]
           z == [y EXCEPT !.state = IF x.failed_tids # {} THEN "Failed" ELSE "Complete"]
<1>1. /\ RunsOK(y) /\ y.state = "CleanUp" /\ y.failed_tids = x.failed_tids
      /\ y.runq_running = x.runq_running /\ y.runq_complete = x.runq_complete
      /\ y.sq_live = x.sq_live
  BY StateRuns
<1>2. CASE x.active + Cardinality(x.sq_live) > 0
  <2>1. PICK n \in 0..Len(P) : /\ rqexe' = ReadWorkers(y, P, n)
                               /\ pipe' = SubSeq(P, n + 1, Len(P))
    BY <1>2 DEF FinishStep
  <2> HIDE DEF y
  <2>2. Awaited(y, W, P, 0)
    BY <1>1, AwaitedGrows
  <2>3. Continues(y, W)
    BY <1>1, <2>1, <2>2, ReadContinues
  <2>4. Honest(x) \/ broken' => Honest(y) \/ broken'
    BY <1>1 DEF Honest
  <2> QED
    BY <1>1, <2>3, <2>4, ContinuesFrom
<1>3. CASE ~(x.active + Cardinality(x.sq_live) > 0)
  <2>1. rqexe' = z /\ pipe' = P
    BY <1>3 DEF FinishStep
  <2> HIDE DEF y
  <2>2. /\ RunsOK(z)
        /\ z.state = IF x.failed_tids # {} THEN "Failed" ELSE "Complete"
        /\ z.runq_running = x.runq_running /\ z.runq_complete = x.runq_complete
        /\ z.sq_live = x.sq_live
    BY <1>1, FailedOrComplete
  <2> HIDE DEF z
  <2>3. Awaited(z, W, P, 0)
    BY <2>2, AwaitedGrows
  <2>4. Honest(x) \/ broken' => Honest(z) \/ broken'
    BY <2>2 DEF Honest
  <2> QED
    BY <2>1, <2>2, <2>3, <2>4 DEF Continues
<1> QED
  BY <1>2, <1>3

LEMMA ReturnContinues ==
    ASSUME DataOK, NEW x, RunsOK(x), NEW W, NEW P \in Seq(Messages),
           Awaited(x, W, P, 0), Return(x, P)
    PROVE  Continues(x, W)
<1>1. Reads(x, x)
  BY DEF Reads
<1> QED
  BY <1>1, FinishContinues DEF Return, Continues, Reads

LEMMA ReadAndReturnContinues ==
    ASSUME DataOK, NEW x, RunsOK(x), NEW W, NEW P \in Seq(Messages),
           Awaited(x, W, P, 0), ReadAndReturn(x, P)
    PROVE  Continues(x, W)
<1>1. PICK n \in 0..Len(P) : Return(ReadWorkers(x, P, n), SubSeq(P, n + 1, Len(P)))
  BY DEF ReadAndReturn
<1> DEFINE y == ReadWorkers(x, P, n)
           Q == SubSeq(P, n + 1, Len(P))
<1>2. Reads(x, y) /\ Awaited(y, W, P, n)
  BY ReadWorkersReads
<1> HIDE DEF y
<1>3. Q \in Seq(Messages) /\ Awaited(y, W, Q, 0)
  BY <1>2, UnreadAwaited
<1>4. Return(y, Q)
  BY <1>1 DEF y
<1> HIDE DEF Q
<1>5. Continues(y, W)
  BY <1>2, <1>3, <1>4, ReturnContinues DEF Reads
<1> QED
  BY <1>2, <1>5, ContinuesFrom DEF Reads

-----------------------------------------------------------------------------
(* One step *)

(* What a step from x that leaves the workers W makes of it: a task begins only
   when what it depends on was finished before, and all else is kept. *)
Advances(x, W) ==
    /\ RunsOK(rqexe')
    /\ pipe' \in Seq(Messages)
    /\ Awaited(rqexe', W, pipe', 0)
    /\ x.runq_running \subseteq rqexe'.runq_running
    /\ x.runq_complete \subseteq rqexe'.runq_complete
    /\ \A t \in rqexe'.runq_running \ x.runq_running :
          rqdata.depends[t] \subseteq rqexe'.runq_complete \ {t}
    /\ Honest(x) \/ broken' => Honest(rqexe') \/ broken'

LEMMA ContinuesAdvances ==
    ASSUME NEW x, RunsOK(x), NEW y, NEW W, Continues(y, W),
           x.runq_running \subseteq y.runq_running,
           x.runq_complete \subseteq y.runq_complete, Honest(x) => Honest(y),
           \A t \in y.runq_running \ x.runq_running :
              rqdata.depends[t] \subseteq x.runq_complete
    PROVE  Advances(x, W)
BY DEF RunsOK, Continues, Reads, Advances

(* The steps that only settle a setscene task. *)
LEMMA SameRunsAdvances ==
    ASSUME DataOK, NEW x, RunsOK(x), NEW P \in Seq(Messages), NEW W, Awaited(x, W, P, 0),
           NEW y, SameRuns(x, y), Return(y, P)
    PROVE  Advances(x, W)
<1>1. RunsOK(y) /\ Awaited(y, W, P, 0)
  BY SameRunsKeeps
<1>2. Continues(y, W)
  BY <1>1, ReturnContinues
<1>3. Reads(x, y)
  BY SameRunsReads
<1> QED
  BY <1>2, <1>3, ContinuesAdvances DEF Reads

LEMMA SkipNotNeededAdvances ==
    ASSUME DataOK, NEW x, RunsOK(x), NEW P \in Seq(Messages), Awaited(x, worker, P, 0),
           SkipNotNeeded(x, P)
    PROVE  Advances(x, worker')
<1>1. PICK t : /\ Return([Undefer(SqTaskSkip(x, {t}), {t}) EXCEPT
                            !.scenequeue_notneeded = @ \union {t}], P)
               /\ worker' = worker
  BY DEF SkipNotNeeded, NothingStarted
<1> DEFINE v == SqTaskSkip(x, {t})
           w == Undefer(v, {t})
           y == [w EXCEPT !.scenequeue_notneeded = @ \union {t}]
<1>2. Return(y, P)
  BY <1>1
<1>3. SameRuns(x, v) /\ DOMAIN v = Fields
  BY SqSkipRuns DEF RunsOK, SameRuns, Honest
<1> HIDE DEF v
<1>4. SameRuns(v, w) /\ DOMAIN w = Fields
  BY <1>3, UndeferRuns DEF SameRuns, Honest
<1> HIDE DEF w
<1>5. SameRuns(w, y)
  BY <1>4 DEF SameRuns, Honest, Fields, TaskSets
<1> HIDE DEF y
<1>6. SameRuns(x, y)
  BY <1>3, <1>4, <1>5, SameRunsTransitive
<1> QED
  BY <1>1, <1>2, <1>6, SameRunsAdvances

LEMMA RefuseSetsceneAdvances ==
    ASSUME DataOK, NEW x, RunsOK(x), NEW P \in Seq(Messages), Awaited(x, worker, P, 0),
           RefuseSetscene(x, P)
    PROVE  Advances(x, worker')
<1>1. PICK t : /\ Return(SqTaskFailoutright(Undefer(x, {t}), {t}), P)
               /\ worker' = worker
  BY DEF RefuseSetscene, NothingStarted
<1> DEFINE w == Undefer(x, {t})
           y == SqTaskFailoutright(w, {t})
<1>2. SameRuns(x, w) /\ DOMAIN w = Fields
  BY UndeferRuns DEF RunsOK, SameRuns, Honest
<1> HIDE DEF w
<1>3. SameRuns(w, y)
  BY <1>2, FailoutrightRuns
<1>4. Return(y, P)
  BY <1>1 DEF w
<1> HIDE DEF y
<1>5. SameRuns(x, y)
  BY <1>2, <1>3, SameRunsTransitive
<1> QED
  BY <1>1, <1>4, <1>5, SameRunsAdvances

LEMMA SetsceneStampedAdvances ==
    ASSUME DataOK, NEW x, RunsOK(x), NEW P \in Seq(Messages), Awaited(x, worker, P, 0),
           SetsceneStamped(x, P)
    PROVE  Advances(x, worker')
<1>1. PICK t : /\ Return(SqTaskSkip(Undefer(x, {t}), {t}), P)
               /\ worker' = worker
  BY DEF SetsceneStamped, NothingStarted
<1> DEFINE w == Undefer(x, {t})
           y == SqTaskSkip(w, {t})
<1>2. SameRuns(x, w) /\ DOMAIN w = Fields
  BY UndeferRuns DEF RunsOK, SameRuns, Honest
<1> HIDE DEF w
<1>3. SameRuns(w, y)
  BY <1>2, SqSkipRuns
<1>4. Return(y, P)
  BY <1>1 DEF w
<1> HIDE DEF y
<1>5. SameRuns(x, y)
  BY <1>2, <1>3, SameRunsTransitive
<1> QED
  BY <1>1, <1>4, <1>5, SameRunsAdvances

(* What is settled may become buildable, when its dependencies are finished. *)
LEMMA HoldoffReads ==
    ASSUME NEW x, RunsOK(x)
    PROVE  /\ Reads(x, UpdateHoldofftasks(x))
           /\ UpdateHoldofftasks(x).runq_complete = x.runq_complete
           /\ UpdateHoldofftasks(x).sq_live = x.sq_live
<1> DEFINE notcovered ==
            (x.scenequeue_notcovered \union rqdata.cantskip
              \union (UNION {rqdata.sq_covered_tasks[t] :
                                t \in x.scenequeue_notcovered})
              \union (rqdata.unskippable \ rqdata.setscene))
            \intersect x.tasks_scenequeue_done
           covered ==
            ((x.scenequeue_covered
              \union (UNION {rqdata.sq_covered_tasks[t] :
                                t \in x.scenequeue_covered})) \ notcovered)
            \intersect x.tasks_scenequeue_done
           buildable == {t \in Tasks :
                         /\ t \in notcovered \union covered
                         /\ rqdata.depends[t] \subseteq x.runq_complete}
           pending == rqdata.setscene \ Settled(x)
           held == pending \union
                    ((UNION {rqdata.sq_covered_tasks[t] : t \in pending}) \ x.runq_complete)
           v == Setbuildable(x, buildable)
           y == [v EXCEPT
                  !.tasks_covered = covered,
                  !.tasks_notcovered = notcovered,
                  !.holdoff_tasks = held,
                  !.holdoff_need_update = FALSE]
<1>1. UpdateHoldofftasks(x) = IF ~x.holdoff_need_update THEN x ELSE y
  BY DEF UpdateHoldofftasks
<1>2. \A t \in buildable : t \in Tasks /\ rqdata.depends[t] \subseteq x.runq_complete
  OBVIOUS
<1> HIDE DEF buildable, covered, notcovered, held
<1>3. /\ DOMAIN v = Fields
      /\ v.runq_running = x.runq_running
      /\ v.runq_complete = x.runq_complete
      /\ v.runq_buildable = x.runq_buildable \union buildable
      /\ v.sq_live = x.sq_live
      /\ v.sq_running = x.sq_running
      /\ v.state = x.state /\ v.failed_tids = x.failed_tids
  BY DEF Setbuildable, RunsOK, Fields, TaskSets
<1> HIDE DEF v
<1>4. SameRuns(v, y)
  BY <1>3 DEF SameRuns, Honest, Fields, TaskSets
<1>5. RunsOK(v) /\ (Honest(x) => Honest(v))
  BY <1>2, <1>3 DEF RunsOK, Honest
<1> HIDE DEF y
<1>6. Reads(x, y) /\ y.runq_complete = x.runq_complete /\ y.sq_live = x.sq_live
  BY <1>3, <1>4, <1>5, SameRunsReads DEF Reads, SameRuns
<1>7. Reads(x, x)
  BY DEF Reads
<1> QED
  BY <1>1, <1>6, <1>7

(* A setscene task is started: no answer about it was awaited. *)
LEMMA StartSetsceneAdvances ==
    ASSUME DataOK, NEW x, RunsOK(x), NEW P \in Seq(Messages), Awaited(x, worker, P, 0),
           StartSetscene(x, P)
    PROVE  Advances(x, worker')
<1>1. PICK t \in SceneCandidates(x) :
          LET y == [Undefer(x, {t}) EXCEPT !.sq_running = @ \union {t},
                                           !.sq_live = @ \union {t}]
          IN  /\ IF CanStartTask(y) THEN Return(y, P)
                 ELSE ReadAndReturn(UpdateHoldofftasks(y), P)
              /\ Runtask(t, "setscene", x)
  BY DEF StartSetscene
<1> DEFINE w == Undefer(x, {t})
           y == [w EXCEPT !.sq_running = @ \union {t}, !.sq_live = @ \union {t}]
           z == UpdateHoldofftasks(y)
           new == <<t, "setscene", x.unihash[t]>>
           W == worker \union {new}
<1>2. t \notin x.sq_live
  BY DEF SceneCandidates, RunsOK
<1>3. worker' = W
  BY <1>1 DEF Runtask
<1>4. Return(y, P) \/ ReadAndReturn(z, P)
  BY <1>1
<1>5. SameRuns(x, w) /\ DOMAIN w = Fields
  BY UndeferRuns DEF RunsOK, SameRuns, Honest
<1>6. RunsOK(w)
  BY <1>5, SameRunsKeeps
<1> HIDE DEF w
<1>7. /\ DOMAIN y = Fields
      /\ y.runq_running = x.runq_running
      /\ y.runq_complete = x.runq_complete
      /\ y.runq_buildable = x.runq_buildable
      /\ y.sq_live = x.sq_live \union {t}
      /\ y.sq_running = w.sq_running \union {t}
      /\ y.state = w.state /\ y.failed_tids = w.failed_tids
  BY <1>5 DEF SameRuns, Honest, Fields, TaskSets
<1> HIDE DEF y
<1>8. RunsOK(y) /\ (Honest(x) => Honest(y))
  <2>1. Honest(x) => Honest(w)
    BY <1>5 DEF SameRuns
  <2>2. Honest(w) => Honest(y)
    BY <1>5, <1>7 DEF Honest, SameRuns
  <2> QED
    BY <1>5, <1>6, <1>7, <2>1, <2>2 DEF RunsOK, SameRuns
<1>9. Awaited(y, W, P, 0)
  <2>1. Awaited(y, worker, P, 0)
    BY <1>7, AwaitedGrows
  <2>2. new[1] = t /\ new[2] = "setscene"
    OBVIOUS
  <2> HIDE DEF new
  <2>3. t \in x.runq_running \/ \A v \in worker : v[1] # t
    BY <1>2 DEF Awaited
  <2>4. t \in x.runq_running \/ \A i \in (0+1)..Len(P) : IsExit(P[i]) => P[i].task # t
    BY <1>2 DEF Awaited
  <2>5. \A v \in W : \/ v[1] \in y.runq_running
                     \/ v[2] # "run" /\ v[1] \in y.sq_live
    BY <2>1, <2>2, <1>7 DEF Awaited
  <2>6. \A u, v \in W : u[1] = v[1] /\ u # v => u[1] \in y.runq_running
    BY <2>1, <2>2, <2>3, <1>7 DEF Awaited
  <2>7. \A v \in W, i \in (0+1)..Len(P) :
           IsExit(P[i]) /\ P[i].task = v[1] => v[1] \in y.runq_running
    BY <2>1, <2>2, <2>4, <1>7 DEF Awaited
  <2> QED
    BY <2>1, <2>5, <2>6, <2>7 DEF Awaited
<1> HIDE DEF W
<1>10. Reads(y, z) /\ z.runq_complete = y.runq_complete /\ z.sq_live = y.sq_live
  BY <1>8, HoldoffReads
<1> HIDE DEF z
<1>11. /\ RunsOK(z) /\ Awaited(z, W, P, 0) /\ z.runq_running = x.runq_running
       /\ Honest(x) => Honest(z)
  BY <1>7, <1>8, <1>9, <1>10, AwaitedGrows DEF Reads
<1>12. Continues(y, W) \/ Continues(z, W)
  BY <1>4, <1>8, <1>9, <1>11, ReturnContinues, ReadAndReturnContinues
<1> QED
  BY <1>3, <1>7, <1>8, <1>10, <1>11, <1>12, ContinuesAdvances

(* A task begins: what it depends on is finished, and it was not begun. *)
Begins(x, y, t) ==
    /\ RunsOK(y)
    /\ y.runq_running = x.runq_running \union {t}
    /\ x.runq_complete \subseteq y.runq_complete
    /\ y.sq_live = x.sq_live
    /\ rqdata.depends[t] \subseteq x.runq_complete
    /\ Honest(x) => Honest(y)

LEMMA BeginsAdvances ==
    ASSUME NEW x, RunsOK(x), NEW y, NEW t, NEW W, Begins(x, y, t), Continues(y, W)
    PROVE  Advances(x, W)
BY ContinuesAdvances DEF Begins

(* runq_running.add(tid): of a task next_buildable_task() returned. *)
LEMMA RunningBegins ==
    ASSUME DataOK, NEW x, RunsOK(x), NEW t \in NextBuildable(x), NEW y,
           DOMAIN y = Fields,
           y.runq_running = x.runq_running \union {t},
           y.runq_complete = x.runq_complete,
           y.runq_buildable \subseteq x.runq_buildable \union {t},
           y.sq_live = x.sq_live, y.sq_running = x.sq_running,
           y.state = x.state, y.failed_tids = x.failed_tids
    PROVE  Begins(x, y, t)
<1>1. t \in x.runq_buildable
  BY DEF NextBuildable
<1> QED
  BY <1>1 DEF RunsOK, Begins, Honest

LEMMA TaskSkipBegins ==
    ASSUME DataOK, NEW x, RunsOK(x), NEW t \in NextBuildable(x)
    PROVE  Begins(x, TaskSkip(x, t), t)
<1> DEFINE v == [x EXCEPT !.runq_running = @ \union {t}]
           w == Setbuildable(v, {t})
           y == TaskCompleteoutright(w, t)
<1>1. y = TaskSkip(x, t)
  BY DEF TaskSkip
<1>2. /\ DOMAIN w = Fields
      /\ w.runq_running = x.runq_running \union {t}
      /\ w.runq_complete = x.runq_complete
      /\ w.runq_buildable = x.runq_buildable \union {t}
      /\ w.sq_live = x.sq_live
      /\ w.sq_running = x.sq_running
      /\ w.state = x.state /\ w.failed_tids = x.failed_tids
  BY DEF Setbuildable, RunsOK, Fields, TaskSets
<1> HIDE DEF w
<1>3. Begins(x, w, t)
  BY <1>2, RunningBegins
<1>4. Reads(w, y) /\ y.sq_live = w.sq_live
  BY <1>2, <1>3, CompleteTaskReads DEF Begins
<1> HIDE DEF y
<1> QED
  BY <1>1, <1>3, <1>4 DEF Begins, Reads

LEMMA SkipTaskAdvances ==
    ASSUME DataOK, NEW z, RunsOK(z), NEW P \in Seq(Messages), Awaited(z, worker, P, 0),
           SkipTask(z, P)
    PROVE  Advances(z, worker')
<1>1. PICK t \in NextBuildable(z) :
         /\ Return([TaskSkip(z, t) EXCEPT
                     !.runq_tasksrun = IF t \in z.tasks_covered THEN @ ELSE @ \union {t}], P)
         /\ worker' = worker
  BY DEF SkipTask, NothingStarted
<1> DEFINE v == TaskSkip(z, t)
           y == [v EXCEPT
                  !.runq_tasksrun = IF t \in z.tasks_covered THEN @ ELSE @ \union {t}]
<1>2. Begins(z, v, t)
  BY TaskSkipBegins
<1> HIDE DEF v
<1>3. SameRuns(v, y)
  BY <1>2 DEF Begins, RunsOK, SameRuns, Honest, Fields, TaskSets
<1>4. Return(y, P)
  BY <1>1 DEF v
<1> HIDE DEF y
<1>5. Begins(z, y, t)
  BY <1>2, <1>3, SameRunsKeeps DEF Begins, SameRuns, Honest
<1>6. Awaited(y, worker, P, 0)
  BY <1>5, AwaitedGrows DEF Begins
<1>7. Continues(y, worker)
  BY <1>4, <1>5, <1>6, ReturnContinues DEF Begins
<1> QED
  BY <1>1, <1>5, <1>7, BeginsAdvances

LEMMA FailUnexpectedAdvances ==
    ASSUME DataOK, NEW z, RunsOK(z), NEW P \in Seq(Messages), Awaited(z, worker, P, 0),
           FailUnexpected(z, P)
    PROVE  Advances(z, worker')
<1>1. PICK t \in NextBuildable(z) : Return(TaskFail(z, t), P) /\ worker' = worker
  BY DEF FailUnexpected, NothingStarted
<1>2. SameRuns(z, TaskFail(z, t))
  BY TaskFailRuns DEF RunsOK
<1> QED
  BY <1>1, <1>2, SameRunsAdvances

LEMMA CompleteNoexecAdvances ==
    ASSUME DataOK, NEW z, RunsOK(z), NEW P \in Seq(Messages), Awaited(z, worker, P, 0),
           CompleteNoexec(z, P)
    PROVE  Advances(z, worker')
<1>1. PICK t \in NextBuildable(z) :
         /\ Return(TaskComplete([z EXCEPT !.runq_running = @ \union {t},
                                          !.active = @ + 1], t), P)
         /\ worker' = worker
  BY DEF CompleteNoexec
<1> DEFINE v == [z EXCEPT !.runq_running = @ \union {t}, !.active = @ + 1]
           y == TaskComplete(v, t)
<1>2. /\ DOMAIN v = Fields
      /\ v.runq_running = z.runq_running \union {t}
      /\ v.runq_complete = z.runq_complete
      /\ v.runq_buildable = z.runq_buildable
      /\ v.sq_live = z.sq_live
      /\ v.sq_running = z.sq_running
      /\ v.state = z.state /\ v.failed_tids = z.failed_tids
  BY DEF RunsOK, Fields, TaskSets
<1>3. Return(y, P)
  BY <1>1
<1> HIDE DEF v
<1>4. Begins(z, v, t)
  BY <1>2, RunningBegins
<1>5. Reads(v, y) /\ y.sq_live = v.sq_live
  BY <1>2, <1>4, TaskCompleteReads DEF Begins
<1> HIDE DEF y
<1>6. Begins(z, y, t)
  BY <1>4, <1>5 DEF Begins, Reads
<1>7. Awaited(y, worker, P, 0)
  BY <1>6, AwaitedGrows DEF Begins
<1>8. Continues(y, worker)
  BY <1>3, <1>6, <1>7, ReturnContinues DEF Begins
<1> QED
  BY <1>1, <1>6, <1>8, BeginsAdvances

LEMMA StartTaskAdvances ==
    ASSUME DataOK, NEW z, RunsOK(z), NEW P \in Seq(Messages), Awaited(z, worker, P, 0),
           StartTask(z, P)
    PROVE  Advances(z, worker')
<1>1. PICK t \in NextBuildable(z) :
         LET y == [z EXCEPT !.runq_running = @ \union {t}, !.active = @ + 1]
         IN  /\ IF CanStartTask(y) THEN Return(y, P) ELSE ReadAndReturn(y, P)
             /\ Runtask(t, "run", z)
  BY DEF StartTask
<1> DEFINE y == [z EXCEPT !.runq_running = @ \union {t}, !.active = @ + 1]
           new == <<t, "run", z.unihash[t]>>
           W == worker \union {new}
<1>2. /\ DOMAIN y = Fields
      /\ y.runq_running = z.runq_running \union {t}
      /\ y.runq_complete = z.runq_complete
      /\ y.runq_buildable = z.runq_buildable
      /\ y.sq_live = z.sq_live
      /\ y.sq_running = z.sq_running
      /\ y.state = z.state /\ y.failed_tids = z.failed_tids
  BY DEF RunsOK, Fields, TaskSets
<1>3. worker' = W
  BY <1>1 DEF Runtask
<1>4. Return(y, P) \/ ReadAndReturn(y, P)
  BY <1>1
<1> HIDE DEF y
<1>5. Begins(z, y, t)
  BY <1>2, RunningBegins
<1>6. Awaited(y, W, P, 0)
  <2>1. Awaited(y, worker, P, 0)
    BY <1>5, AwaitedGrows DEF Begins
  <2>2. new[1] = t /\ t \in y.runq_running
    BY <1>2
  <2> HIDE DEF new
  <2>3. \A v \in W : \/ v[1] \in y.runq_running
                     \/ v[2] # "run" /\ v[1] \in y.sq_live
    BY <2>1, <2>2 DEF Awaited
  <2>4. \A u, v \in W : u[1] = v[1] /\ u # v => u[1] \in y.runq_running
    BY <2>1, <2>2 DEF Awaited
  <2>5. \A v \in W, i \in (0+1)..Len(P) :
           IsExit(P[i]) /\ P[i].task = v[1] => v[1] \in y.runq_running
    BY <2>1, <2>2 DEF Awaited
  <2> QED
    BY <2>1, <2>3, <2>4, <2>5 DEF Awaited
<1> HIDE DEF W
<1>7. Continues(y, W)
  BY <1>4, <1>5, <1>6, ReturnContinues, ReadAndReturnContinues DEF Begins
<1> QED
  BY <1>3, <1>5, <1>7, BeginsAdvances

LEMMA NoTaskFoundAdvances ==
    ASSUME DataOK, NEW z, RunsOK(z), NEW P \in Seq(Messages), Awaited(z, worker, P, 0),
           NoTaskFound(z, P)
    PROVE  Advances(z, worker')
<1>0. worker' = worker
  BY DEF NoTaskFound, NothingStarted
<1>1. CASE ReadAndReturn(z, P)
  <2>1. Continues(z, worker)
    BY <1>1, ReadAndReturnContinues
  <2> QED
    BY <1>0, <2>1, ContinuesAdvances
<1>2. CASE \E t \in Deferred(z) : Return(Undefer(z, {t}), P)
  <2>1. PICK t : Return(Undefer(z, {t}), P)
    BY <1>2
  <2>2. SameRuns(z, Undefer(z, {t}))
    BY UndeferRuns DEF RunsOK
  <2> QED
    BY <1>0, <2>1, <2>2, SameRunsAdvances
<1> DEFINE s == IF \/ z.failed_tids # {}
                   \/ ScenequeueErrors(z)
                   \/ NeverFinished(z) # {}
                THEN "Failed" ELSE "Complete"
           y == [z EXCEPT !.state = s]
<1>3. \/ ReadAndReturn(z, P)
      \/ \E t \in Deferred(z) : Return(Undefer(z, {t}), P)
      \/ Return(y, P)
  BY DEF NoTaskFound
<1>4. s = "Failed" \/ (s = "Complete" /\ Tasks \subseteq z.runq_complete)
  BY DEF NeverFinished
<1> HIDE DEF s
<1>5. /\ y.state = s /\ y.runq_complete = z.runq_complete
      /\ Honest(y) => SameRuns(z, y)
  BY StateRuns
<1> HIDE DEF y
<1>6. SameRuns(z, y)
  BY <1>4, <1>5 DEF Honest
<1>7. CASE Return(y, P)
  BY <1>0, <1>6, <1>7, SameRunsAdvances
<1> QED
  BY <1>1, <1>2, <1>3, <1>7

LEMMA ExecuteTasksAdvances ==
    ASSUME DataOK, NEW x, RunsOK(x), NEW P \in Seq(Messages), Awaited(x, worker, P, 0),
           ExecuteTasks(x, P)
    PROVE  Advances(x, worker')
<1> DEFINE y == UpdateHoldofftasks(x)
           errors == ScenequeueErrors(y)
           sqdone == ~errors /\ ~SetsceneOnly
           state == IF errors THEN "Failed"
                    ELSE IF SetsceneOnly THEN "Complete" ELSE y.state
           e == [y EXCEPT !.sqdone = sqdone, !.state = state]
           z == EndSceneQueue(y)
<1>1. Reads(x, y) /\ y.runq_complete = x.runq_complete /\ y.sq_live = x.sq_live
  BY HoldoffReads
<1>2. \/ Return(z, P) /\ NothingStarted
      \/ SkipTask(z, P)
      \/ FailUnexpected(z, P)
      \/ CompleteNoexec(z, P)
      \/ StartTask(z, P)
      \/ NoTaskFound(z, P)
  BY DEF ExecuteTasks
<1> HIDE DEF y
<1>3. z = y \/ z = e
  BY DEF EndSceneQueue
<1> HIDE DEF errors, sqdone, state, z
<1>4. SameRuns(y, y) /\ SameRuns(y, e)
  <2>1. \/ state = "Failed"
        \/ state = "Complete" /\ SetsceneOnly
        \/ state = y.state
    BY DEF state
  <2>2. /\ DOMAIN y = Fields /\ DOMAIN e = Fields
        /\ e.state = state
        /\ \A f \in Fields \ {"state", "sqdone"} : e[f] = y[f]
    BY <1>1 DEF Reads, RunsOK, Fields
  <2> HIDE DEF e
  <2>3. /\ e.failed_tids = y.failed_tids
        /\ e.runq_running = y.runq_running
        /\ e.runq_complete = y.runq_complete
        /\ e.runq_buildable = y.runq_buildable
        /\ e.sq_live = y.sq_live /\ e.sq_running = y.sq_running
    BY <2>2 DEF Fields, TaskSets
  <2>4. Honest(y) => Honest(e)
    BY <2>1, <2>2, <2>3 DEF Honest
  <2> QED
    BY <2>2, <2>3, <2>4 DEF SameRuns
<1> HIDE DEF e
<1>5. SameRuns(y, z)
  BY <1>3, <1>4
<1>6. RunsOK(z) /\ Reads(y, z)
  BY <1>1, <1>5, SameRunsReads DEF Reads
<1>7. /\ z.runq_running = x.runq_running /\ z.runq_complete = x.runq_complete
      /\ Honest(x) => Honest(z)
  BY <1>1, <1>5 DEF SameRuns, Reads
<1>8. Awaited(z, worker, P, 0)
  BY <1>1, <1>5, <1>7, AwaitedGrows DEF SameRuns, Honest
<1>9. Advances(z, worker')
  <2>1. CASE Return(z, P) /\ NothingStarted
    <3>1. Continues(z, worker) /\ worker' = worker
      BY <1>6, <1>8, <2>1, ReturnContinues DEF NothingStarted
    <3> QED
      BY <1>6, <3>1, ContinuesAdvances
  <2>2. CASE SkipTask(z, P)
    BY <1>6, <1>8, <2>2, SkipTaskAdvances
  <2>3. CASE FailUnexpected(z, P)
    BY <1>6, <1>8, <2>3, FailUnexpectedAdvances
  <2>4. CASE CompleteNoexec(z, P)
    BY <1>6, <1>8, <2>4, CompleteNoexecAdvances
  <2>5. CASE StartTask(z, P)
    BY <1>6, <1>8, <2>5, StartTaskAdvances
  <2>6. CASE NoTaskFound(z, P)
    BY <1>6, <1>8, <2>6, NoTaskFoundAdvances
  <2> QED
    BY <1>2, <2>1, <2>2, <2>3, <2>4, <2>5, <2>6
<1> QED
  BY <1>7, <1>9 DEF Advances

LEMMA ExecuteAdvances ==
    ASSUME DataOK, RunsOK(rqexe), pipe \in Seq(Messages), Awaited(rqexe, worker, pipe, 0),
           Execute
    PROVE  Advances(rqexe, worker')
<1>1. PICK n \in 0..Len(pipe) :
      \E x \in IF \/ ReadWorkers(rqexe, pipe, n).updated_taskhash_queue # <<>>
                 \/ ReadWorkers(rqexe, pipe, n).pending_migrations # {}
              THEN ProcessPossibleMigrations(ReadWorkers(rqexe, pipe, n))
              ELSE {ReadWorkers(rqexe, pipe, n)} :
         \/ SkipNotNeeded(x, SubSeq(pipe, n + 1, Len(pipe)))
         \/ RefuseSetscene(x, SubSeq(pipe, n + 1, Len(pipe)))
         \/ SetsceneStamped(x, SubSeq(pipe, n + 1, Len(pipe)))
         \/ StartSetscene(x, SubSeq(pipe, n + 1, Len(pipe)))
         \/ ExecuteTasks(x, SubSeq(pipe, n + 1, Len(pipe)))
  BY DEF Execute
<1> DEFINE read == ReadWorkers(rqexe, pipe, n)
           Q == SubSeq(pipe, n + 1, Len(pipe))
<1>2. PICK x \in ProcessPossibleMigrations(read) \union {read} :
         \/ SkipNotNeeded(x, Q)
         \/ RefuseSetscene(x, Q)
         \/ SetsceneStamped(x, Q)
         \/ StartSetscene(x, Q)
         \/ ExecuteTasks(x, Q)
  BY <1>1
<1>3. Reads(rqexe, read) /\ Awaited(read, worker, pipe, n)
  BY ReadWorkersReads
<1> HIDE DEF read
<1>4. Q \in Seq(Messages) /\ Awaited(read, worker, Q, 0)
  BY <1>3, UnreadAwaited
<1> HIDE DEF Q
<1>5. SameRuns(read, x)
  <2>1. SameRuns(read, read)
    BY DEF SameRuns, Honest
  <2> QED
    BY <1>3, <2>1, MigrationsRuns DEF Reads, RunsOK
<1>6. /\ RunsOK(x) /\ Awaited(x, worker, Q, 0)
      /\ x.runq_running = rqexe.runq_running
      /\ rqexe.runq_complete \subseteq x.runq_complete
      /\ Honest(rqexe) => Honest(x)
  BY <1>3, <1>4, <1>5, SameRunsKeeps DEF Reads, SameRuns
<1>7. Advances(x, worker')
  BY <1>2, <1>4, <1>6, SkipNotNeededAdvances, RefuseSetsceneAdvances,
     SetsceneStampedAdvances, StartSetsceneAdvances, ExecuteTasksAdvances
<1> QED
  BY <1>6, <1>7 DEF Advances

-----------------------------------------------------------------------------
(* The run queue implements TaskGraph *)

(* The inductive invariant. *)
RunInv ==
    /\ DataOK
    /\ RunsOK(rqexe)
    /\ pipe \in Seq(Messages)
    /\ Awaited(rqexe, worker, pipe, 0)
    /\ Honest(rqexe) \/ broken

LEMMA InitRunInv == Init => RunInv /\ Graph!GraphInit
<1> SUFFICES ASSUME Init PROVE RunInv /\ Graph!GraphInit
  OBVIOUS
<1>1. DataOK
  <2>1. PICK q \in RunQueues : rqdata = BuildScenequeueData(q)
    BY DEF Init
  <2>2. q.depends \in [Tasks -> SUBSET Tasks] /\ {"depends", "revdeps"} \subseteq DOMAIN q
    BY QueuesAssumption
  <2> DEFINE revdeps == [t \in Tasks |-> Revdeps(q, t)]
             covers == [t \in q.setscene |-> SqCoveredTasks(q, t)]
             sqrevdeps == [t \in q.setscene |-> SqRevdeps(q, t)]
             sqdeps == [t \in q.setscene |-> SqDeps(q, t)]
             cantskip == CantSkip(q)
             unskippable == Unskippable(q)
  <2>3. rqdata = [q EXCEPT !.revdeps = revdeps,
                           !.sq_covered_tasks = covers,
                           !.sq_revdeps = sqrevdeps,
                           !.sq_deps = sqdeps,
                           !.cantskip = cantskip,
                           !.unskippable = unskippable]
    BY <2>1 DEF BuildScenequeueData
  <2>4. \A t \in Tasks : revdeps[t] \subseteq Tasks
    BY DEF Revdeps
  <2> HIDE DEF revdeps, covers, sqrevdeps, sqdeps, cantskip, unskippable
  <2>5. rqdata.depends = q.depends /\ rqdata.revdeps = revdeps
    BY <2>2, <2>3
  <2> QED
    BY <2>2, <2>4, <2>5 DEF DataOK
<1> DEFINE x == NewRunQueueExecute
           y == UpdateScenequeueData(x, rqdata.setscene)
<1>2. /\ DOMAIN x = Fields
      /\ x.runq_running = {} /\ x.runq_complete = {}
      /\ \A t \in x.runq_buildable : t \in Tasks /\ rqdata.depends[t] = {}
      /\ x.sq_live = {} /\ x.state = "Running"
  BY DEF NewRunQueueExecute, Fields, TaskSets
<1>3. RunsOK(x) /\ Honest(x)
  BY <1>2 DEF RunsOK, Honest
<1> HIDE DEF x
<1>4. SameRuns(x, y)
  BY <1>2, UpdateDataRuns
<1>5. rqexe = y /\ worker = {} /\ pipe = <<>>
  BY DEF Init, x
<1> HIDE DEF y
<1>6. /\ RunsOK(rqexe) /\ rqexe.runq_running = {} /\ rqexe.runq_complete = {}
      /\ Honest(rqexe)
  BY <1>2, <1>3, <1>4, <1>5, SameRunsKeeps DEF SameRuns
<1>7. pipe \in Seq(Messages) /\ Awaited(rqexe, worker, pipe, 0)
  <2>1. Len(pipe) = 0 /\ pipe \in Seq(Messages)
    BY <1>5
  <2>2. (0+1)..Len(pipe) = {}
    BY <2>1
  <2> QED
    BY <1>5, <2>1, <2>2 DEF Awaited
<1>8. Graph!GraphInit
  BY <1>1, <1>6 DEF Graph!GraphInit, DataOK
<1> QED
  BY <1>1, <1>6, <1>7, <1>8 DEF RunInv

(* A pass of the server that advances is a step of TaskGraph. *)
LEMMA AdvancesImplements ==
    ASSUME RunInv, Advances(rqexe, worker'), UNCHANGED rqdata, broken => broken'
    PROVE  RunInv' /\ Graph!Advance
<1>1. RunInv'
  <2>1. Honest(rqexe') \/ broken'
    BY DEF Advances, RunInv
  <2>2. (Honest(rqexe) \/ broken)'
    BY <2>1 DEF Honest, Enforce, SetsceneOnly
  <2>3. (DataOK /\ RunsOK(rqexe) /\ pipe \in Seq(Messages) /\ Awaited(rqexe, worker, pipe, 0))'
    BY DEF Advances, RunInv, RunsOK, DataOK, Awaited
  <2> QED
    BY <2>2, <2>3 DEF RunInv
<1>2. Graph!Advance
  BY DEF Graph!Advance, Advances, RunInv, RunsOK, DataOK
<1> QED
  BY <1>1, <1>2

LEMMA ContinuesImplements ==
    ASSUME RunInv, Continues(rqexe, worker'), UNCHANGED rqdata, broken => broken'
    PROVE  RunInv' /\ Graph!Advance
<1>1. Advances(rqexe, worker')
  BY ContinuesAdvances DEF RunInv
<1> QED
  BY <1>1, AdvancesImplements

(* A worker that writes to the pipe leaves the server as it is. *)
LEMMA WorkerImplements ==
    ASSUME RunInv, UNCHANGED <<rqdata, rqexe>>, pipe' \in Seq(Messages),
           Awaited(rqexe, worker', pipe', 0), UNCHANGED broken
    PROVE  RunInv' /\ UNCHANGED <<rqdata.depends, rqexe.runq_running, rqexe.runq_complete>>
<1>1. (Honest(rqexe) \/ broken)'
  BY DEF RunInv, Honest, Enforce, SetsceneOnly
<1>2. (DataOK /\ RunsOK(rqexe) /\ pipe \in Seq(Messages) /\ Awaited(rqexe, worker, pipe, 0))'
  BY DEF RunInv, RunsOK, DataOK, Awaited
<1> QED
  BY <1>1, <1>2 DEF RunInv

LEMMA ReportAwaited ==
    ASSUME RunInv, NEW t \in Tasks, NEW h \in Hashes, ReportUnihash(t, h)
    PROVE  pipe' \in Seq(Messages) /\ Awaited(rqexe, worker', pipe', 0)
<1> DEFINE m == [kind |-> "unihash", task |-> t, unihash |-> h]
           new == <<t, "run", h>>
<1>1. PICK w \in worker : /\ w[1] = t /\ w[2] = "run"
                          /\ worker' = (worker \ {w}) \union {new}
                          /\ pipe' = Append(pipe, m)
  BY DEF ReportUnihash
<1>2. m \in Messages /\ ~IsExit(m)
  BY DEF Messages, IsExit
<1>3. new[1] = t /\ t \in rqexe.runq_running
  BY <1>1 DEF RunInv, Awaited
<1> HIDE DEF m, new
<1>4. /\ pipe' \in Seq(Messages)
      /\ \A i \in (0+1)..Len(pipe') : IsExit(pipe'[i]) => i \in (0+1)..Len(pipe) /\ pipe'[i] = pipe[i]
  BY <1>1, <1>2 DEF RunInv
<1> DEFINE W == worker' Q == pipe'
<1>5. \A v \in W : \/ v[1] \in rqexe.runq_running
                   \/ v[2] # "run" /\ v[1] \in rqexe.sq_live
  BY <1>1, <1>3 DEF RunInv, Awaited
<1>6. \A u, v \in W : u[1] = v[1] /\ u # v => u[1] \in rqexe.runq_running
  BY <1>1, <1>3 DEF RunInv, Awaited
<1>7. \A v \in W, i \in (0+1)..Len(Q) :
         IsExit(Q[i]) /\ Q[i].task = v[1] => v[1] \in rqexe.runq_running
  BY <1>1, <1>3, <1>4 DEF RunInv, Awaited
<1>8. \A i \in (0+1)..Len(Q) :
         IsExit(Q[i]) => Q[i].task \in rqexe.runq_running \union rqexe.sq_live
  BY <1>4 DEF RunInv, Awaited
<1>9. \A i, j \in (0+1)..Len(Q) :
         i # j /\ IsExit(Q[i]) /\ IsExit(Q[j]) /\ Q[i].task = Q[j].task
            => Q[i].task \in rqexe.runq_running
  BY <1>4 DEF RunInv, Awaited
<1> HIDE DEF W, Q
<1>10. Awaited(rqexe, W, Q, 0)
  BY <1>5, <1>6, <1>7, <1>8, <1>9 DEF Awaited
<1> QED
  BY <1>4, <1>10 DEF W, Q

LEMMA ExitAwaited ==
    ASSUME RunInv, NEW t \in Tasks, NEW v \in {"run", "setscene"}, NEW h \in Hashes,
           NEW ok \in BOOLEAN, TaskExit(<<t, v, h>>, ok)
    PROVE  pipe' \in Seq(Messages) /\ Awaited(rqexe, worker', pipe', 0)
<1> DEFINE w == <<t, v, h>>
           m == [kind |-> "exit", task |-> t, ok |-> ok]
<1>1. /\ w \in worker /\ worker' = worker \ {w}
      /\ pipe' = Append(pipe, m)
  BY DEF TaskExit
<1>2. m \in Messages /\ IsExit(m) /\ m.task = t
  BY DEF Messages, IsExit
<1>3. w[1] = t
  OBVIOUS
<1> HIDE DEF m, w
<1>4. /\ pipe' \in Seq(Messages)
      /\ \A i \in (0+1)..Len(pipe') :
            \/ i \in (0+1)..Len(pipe) /\ pipe'[i] = pipe[i]
            \/ i = Len(pipe') /\ pipe'[i] = m
  BY <1>1, <1>2 DEF RunInv
<1>5. t \in rqexe.runq_running \union rqexe.sq_live
  BY <1>1, <1>3 DEF RunInv, Awaited
<1>6. t \in rqexe.runq_running \/ \A i \in (0+1)..Len(pipe) : IsExit(pipe[i]) => pipe[i].task # t
  BY <1>1, <1>3 DEF RunInv, Awaited
<1> DEFINE W == worker' Q == pipe'
<1>7. \A u \in W : \/ u[1] \in rqexe.runq_running
                   \/ u[2] # "run" /\ u[1] \in rqexe.sq_live
  BY <1>1 DEF RunInv, Awaited
<1>8. \A u, x \in W : u[1] = x[1] /\ u # x => u[1] \in rqexe.runq_running
  BY <1>1 DEF RunInv, Awaited
<1>9. \A u \in W, i \in (0+1)..Len(Q) :
         IsExit(Q[i]) /\ Q[i].task = u[1] => u[1] \in rqexe.runq_running
  <2> SUFFICES ASSUME NEW u \in W, NEW i \in (0+1)..Len(Q), IsExit(Q[i]), Q[i].task = u[1]
               PROVE  u[1] \in rqexe.runq_running
    OBVIOUS
  <2>1. CASE i \in (0+1)..Len(pipe) /\ Q[i] = pipe[i]
    BY <1>1, <2>1 DEF RunInv, Awaited
  <2>2. CASE Q[i] = m
    BY <1>1, <1>2, <1>3, <2>2 DEF RunInv, Awaited
  <2> QED
    BY <1>4, <2>1, <2>2
<1>10. \A i \in (0+1)..Len(Q) :
         IsExit(Q[i]) => Q[i].task \in rqexe.runq_running \union rqexe.sq_live
  BY <1>2, <1>4, <1>5 DEF RunInv, Awaited
<1>11. \A i, j \in (0+1)..Len(Q) :
         i # j /\ IsExit(Q[i]) /\ IsExit(Q[j]) /\ Q[i].task = Q[j].task
            => Q[i].task \in rqexe.runq_running
  <2> SUFFICES ASSUME NEW i \in (0+1)..Len(Q), NEW j \in (0+1)..Len(Q), i # j,
                      IsExit(Q[i]), IsExit(Q[j]), Q[i].task = Q[j].task
               PROVE  Q[i].task \in rqexe.runq_running
    OBVIOUS
  <2>1. CASE i \in (0+1)..Len(pipe) /\ Q[i] = pipe[i] /\ j \in (0+1)..Len(pipe) /\ Q[j] = pipe[j]
    BY <2>1 DEF RunInv, Awaited
  <2>2. CASE i \in (0+1)..Len(pipe) /\ Q[i] = pipe[i] /\ Q[j] = m
    BY <1>2, <1>6, <2>2
  <2>3. CASE j \in (0+1)..Len(pipe) /\ Q[j] = pipe[j] /\ Q[i] = m
    BY <1>2, <1>6, <2>3
  <2> QED
    BY <1>4, <2>1, <2>2, <2>3
<1> HIDE DEF W, Q
<1>12. Awaited(rqexe, W, Q, 0)
  BY <1>7, <1>8, <1>9, <1>10, <1>11 DEF Awaited
<1> QED
  BY <1>4, <1>12 DEF W, Q

LEMMA NextImplements ==
    ASSUME RunInv, [Next]_vars
    PROVE  RunInv' /\ [Graph!GraphNext]_Graph!graphVars
<1> USE DEF Graph!GraphNext, Graph!graphVars
<1>1. CASE Execute
  BY <1>1, ExecuteAdvances, AdvancesImplements DEF RunInv, Execute
<1>2. CASE CleanUp
  <2>1. Continues(rqexe, worker') /\ UNCHANGED rqdata /\ (broken => broken')
    BY <1>2, FinishContinues DEF CleanUp, RunInv
  <2> QED
    BY <2>1, ContinuesImplements
<1>3. CASE Shutdown
  <2>1. Continues(rqexe, worker') /\ UNCHANGED rqdata /\ (broken => broken')
    BY <1>3, FinishContinues DEF Shutdown, RunInv
  <2> QED
    BY <2>1, ContinuesImplements
<1>4. CASE FinishNow
  <2> DEFINE y == [rqexe EXCEPT !.state = IF rqexe.failed_tids # {} THEN "Failed" ELSE "Complete"]
  <2>1. /\ RunsOK(y) /\ y.runq_running = rqexe.runq_running
        /\ y.runq_complete = rqexe.runq_complete /\ y.sq_live = rqexe.sq_live
    BY FailedOrComplete DEF RunInv
  <2>2. /\ rqexe' = y /\ worker' = {} /\ broken'
        /\ UNCHANGED <<rqdata, pipe>>
    BY <1>4 DEF FinishNow
  <2> HIDE DEF y
  <2>3. Awaited(y, worker, pipe, 0)
    BY <2>1, AwaitedGrows DEF RunInv
  <2>4. Awaited(y, {}, pipe, 0)
    BY <2>3 DEF Awaited
  <2>5. Continues(rqexe, worker')
    BY <2>1, <2>2, <2>4 DEF Continues, RunInv
  <2> QED
    BY <2>2, <2>5, ContinuesImplements
<1>5. CASE \E t \in Tasks, h \in Hashes : ReportUnihash(t, h)
  BY <1>5, ReportAwaited, WorkerImplements DEF ReportUnihash
<1>6. CASE \E t \in Tasks, v \in {"run", "setscene"}, h \in Hashes, ok \in BOOLEAN :
             TaskExit(<<t, v, h>>, ok)
  <2>1. PICK t \in Tasks, v \in {"run", "setscene"}, h \in Hashes, ok \in BOOLEAN :
           TaskExit(<<t, v, h>>, ok)
    BY <1>6
  <2>2. pipe' \in Seq(Messages) /\ Awaited(rqexe, worker', pipe', 0)
    BY <2>1, ExitAwaited
  <2>3. UNCHANGED <<rqdata, rqexe, broken>>
    BY <2>1 DEF TaskExit
  <2> QED
    BY <2>2, <2>3, WorkerImplements
<1>7. CASE UNCHANGED vars
  BY <1>7, WorkerImplements DEF vars, RunInv
<1> QED
  BY <1>1, <1>2, <1>3, <1>4, <1>5, <1>6, <1>7 DEF Next, Terminated

(***************************************************************************)
(* The run queue implements TaskGraph, for any tasks, any graph, any limit *)
(* and options, however tasks, setscene tasks and reports of new hashes    *)
(* interleave: a task is begun at most once and only after every task it   *)
(* depends on is finished, and what is finished stays finished.            *)
(***************************************************************************)
THEOREM ImplementsTaskGraphTheorem == Spec => ImplementsTaskGraph
<1>1. Init => RunInv /\ Graph!GraphInit
  BY InitRunInv
<1>2. RunInv /\ [Next]_vars => RunInv' /\ [Graph!GraphNext]_Graph!graphVars
  BY NextImplements
<1> QED
  BY <1>1, <1>2, PTL DEF Spec, ImplementsTaskGraph, Graph!GraphSpec

(* Whatever is begun has only finished dependencies. *)
OrderInv == Graph!DownwardClosed /\ Graph!FinishedBegun

LEMMA AdvanceKeepsOrder == OrderInv /\ [Graph!GraphNext]_Graph!graphVars => OrderInv'
<1> SUFFICES ASSUME OrderInv, [Graph!GraphNext]_Graph!graphVars PROVE OrderInv'
  OBVIOUS
<1>1. CASE Graph!Advance
  <2>1. /\ rqexe.runq_complete \subseteq rqexe'.runq_complete
        /\ rqexe'.runq_complete \subseteq rqexe'.runq_running
        /\ rqdata'.depends = rqdata.depends
        /\ \A t \in rqexe'.runq_running \ rqexe.runq_running :
              rqdata.depends[t] \subseteq rqexe'.runq_complete \ {t}
    BY <1>1 DEF Graph!Advance
  <2>2. \A t \in rqexe.runq_running : rqdata.depends[t] \subseteq rqexe.runq_complete
    BY DEF OrderInv, Graph!DownwardClosed
  <2> QED
    BY <2>1, <2>2 DEF OrderInv, Graph!DownwardClosed, Graph!FinishedBegun
<1>2. CASE UNCHANGED Graph!graphVars
  BY <1>2 DEF OrderInv, Graph!graphVars, Graph!DownwardClosed, Graph!FinishedBegun
<1> QED
  BY <1>1, <1>2 DEF Graph!GraphNext

(***************************************************************************)
(* At every moment of every build a begun task, and so a finished one, has *)
(* only finished dependencies: no order of setscene covers, skips,         *)
(* migrations and executions leaves a task built on something unbuilt.     *)
(***************************************************************************)
THEOREM BuildIsDownwardClosed == Spec => [](Graph!DownwardClosed /\ Graph!FinishedBegun)
<1>1. Init => RunInv /\ OrderInv
  BY InitRunInv DEF OrderInv, Graph!GraphInit, Graph!DownwardClosed, Graph!FinishedBegun
<1>2. RunInv /\ OrderInv /\ [Next]_vars => (RunInv /\ OrderInv)'
  BY NextImplements, AdvanceKeepsOrder
<1>3. OrderInv => Graph!DownwardClosed /\ Graph!FinishedBegun
  BY DEF OrderInv
<1> QED
  BY <1>1, <1>2, <1>3, PTL DEF Spec

(***************************************************************************)
(* A build that nobody interrupted and that ends without failure completed *)
(* or skipped every task: no order of covers, skips, migrations, failures  *)
(* and clean-ups lets the server report success with a task left out.      *)
(***************************************************************************)
THEOREM CompleteMeansAllTheorem == Spec => []CompleteMeansAll
<1>1. Init => RunInv
  BY InitRunInv
<1>2. RunInv /\ [Next]_vars => RunInv'
  BY NextImplements
<1>3. RunInv => CompleteMeansAll
  BY DEF RunInv, RunsOK, DataOK, Honest, CompleteMeansAll, Tids
<1> QED
  BY <1>1, <1>2, <1>3, PTL DEF Spec

-----------------------------------------------------------------------------
(* A setscene task has its work to itself *)

Open(x) == rqdata.setscene \ Settled(x)
Busy(x) == x.runq_running \ x.runq_complete

(* No task has a setscene variant that needs another's. *)
Soft == \A t \in rqdata.setscene : rqdata.harddeps[t] = {}

(* The tables of the scene queue. *)
SceneTables ==
    /\ \A t \in rqdata.setscene : rqdata.sq_deps[t] \subseteq rqdata.setscene
    /\ \A t, d \in rqdata.setscene :
          d \in rqdata.harddeps[t] => t \in rqdata.sq_revdeps[d]

(* No two setscene tasks are the same task of two multiconfigs. *)
NoTwins == \A t, u \in rqdata.setscene : rqdata.twin[t] = rqdata.twin[u] => t = u
Apart == Soft \/ NoTwins

(* No task is in both covered and uncovered, nor will be once the multiconfig
   task it waits for is complete. *)
Verdicts(x) ==
    /\ x.scenequeue_covered \intersect x.scenequeue_notcovered = {}
    /\ x.tasks_covered \intersect x.tasks_notcovered = {}
    /\ Deferred(x) \intersect x.scenequeue_notcovered = {}
    /\ Soft \/ Deferred(x) = {}

(* The bookkeeping of the scene queue, L being setscene tasks that run: they
   are open, nobody waits for another multiconfig with one of them running,
   and what hard-depends on an open task has not become buildable. *)
Scene(x, L) ==
    /\ DOMAIN x = Fields
    /\ L \subseteq Open(x) \intersect x.sq_running \intersect x.sq_buildable
    /\ L \intersect Deferred(x) = {}
    /\ Settled(x) \subseteq x.sq_running
    /\ x.sq_buildable \union x.pending_migrations \union Deferred(x) \subseteq rqdata.setscene
    /\ \A t, d \in rqdata.setscene :
          d \in rqdata.harddeps[t] /\ d \in x.sq_buildable => {t, d} \intersect Settled(x) # {}
    /\ \/ Soft
       \/ x.updated_taskhash_queue = <<>> /\ x.pending_migrations = {}
    /\ Apart => Verdicts(x)

(* None of S, and nothing whose work one of S would replace, is running. *)
NotBusy(x, S) ==
    \A t \in S : /\ t \notin x.runq_running
                 /\ rqdata.sq_covered_tasks[t] \intersect Busy(x) = {}

(* ... and nothing of it begins before the hold-off sets are made anew. *)
Held(x, S) ==
    \/ x.holdoff_need_update
    \/ \A t \in S :
          {t} \union rqdata.sq_covered_tasks[t] \subseteq x.holdoff_tasks \union x.runq_complete

(* From x to y tasks finish and setscene tasks are settled, and no more. *)
Calm(x, y) ==
    /\ y.runq_running = x.runq_running
    /\ x.runq_complete \subseteq y.runq_complete
    /\ x.runq_complete \subseteq x.runq_running => y.runq_complete \subseteq y.runq_running
    /\ y.sq_live \subseteq x.sq_live
    /\ Settled(x) \subseteq Settled(y)
    /\ y.holdoff_tasks = x.holdoff_tasks
    /\ x.holdoff_need_update => y.holdoff_need_update
    /\ y.state = "Running" => x.state = "Running"

LEMMA SceneFields ==
    ASSUME NEW x, NEW L, Scene(x, L)
    PROVE  DOMAIN x = Fields
BY DEF Scene

LEMMA CalmTransitive ==
    ASSUME NEW x, NEW y, NEW z, Calm(x, y), Calm(y, z)
    PROVE  Calm(x, z)
BY DEF Calm

LEMMA CalmKeeps ==
    ASSUME NEW x, NEW y, Calm(x, y), NEW S, NEW T \in SUBSET S
    PROVE  /\ NotBusy(x, S) => NotBusy(y, T)
           /\ Held(x, S) => Held(y, T)
           /\ Open(y) \subseteq Open(x)
BY DEF Calm, NotBusy, Held, Busy, Open

(* What fails with tids was not buildable. *)
LEMMA HardFailingBlocked ==
    ASSUME SceneTables, NEW w, NEW L, Scene(w, L), NEW tids \in SUBSET rqdata.setscene,
           tids \intersect Settled(w) = {}, NEW x, Settled(x) = Settled(w) \union tids
    PROVE  /\ tids \subseteq HardFailing(x, tids)
           /\ HardFailing(x, tids) \subseteq rqdata.setscene
           /\ HardFailing(x, tids) \intersect w.sq_buildable \subseteq tids \union Settled(w)
           /\ HardFailing(x, tids) \intersect Settled(x) \subseteq tids
           /\ Soft => HardFailing(x, tids) = tids
<1> DEFINE all == tids \union ((rqdata.setscene \ w.sq_buildable) \ Settled(w))
<1>1. FailsWith(x, all) \subseteq all
  <2> SUFFICES ASSUME NEW t \in all, NEW d \in rqdata.sq_deps[t] \intersect rqdata.harddeps[t],
                      d \notin Settled(x)
               PROVE  d \in all
    BY DEF FailsWith
  <2>1. d \in rqdata.setscene /\ t \in rqdata.setscene
    BY DEF SceneTables
  <2>2. t \notin Settled(w) /\ d \notin Settled(w)
    OBVIOUS
  <2> QED
    BY <2>1, <2>2 DEF Scene
<1>2. all \in SUBSET rqdata.setscene /\ tids \subseteq all
  OBVIOUS
<1>3. /\ all \intersect w.sq_buildable \subseteq tids
      /\ all \intersect Settled(x) \subseteq tids
  OBVIOUS
<1>4. Soft => FailsWith(x, tids) \subseteq tids
  BY DEF Soft, FailsWith
<1> HIDE DEF all
<1> QED
  BY <1>1, <1>2, <1>3, <1>4 DEF HardFailing

(* The tasks of tids, none of them running, are settled and what waited for
   them is released. *)
LEMMA ReleaseScene ==
    ASSUME SceneTables, NEW w, NEW L, Scene(w, L), NEW tids \in SUBSET rqdata.setscene,
           tids \intersect L = {}, NEW x, DOMAIN x = Fields,
           Settled(x) = Settled(w) \union tids,
           w.sq_running \union tids \subseteq x.sq_running,
           w.sq_buildable \subseteq x.sq_buildable,
           x.sq_buildable \subseteq w.sq_buildable \union tids,
           Deferred(x) = Deferred(w), x.pending_migrations = w.pending_migrations,
           x.updated_taskhash_queue = w.updated_taskhash_queue,
           NEW ended \in SUBSET rqdata.setscene, tids \subseteq ended,
           ended \intersect w.sq_buildable \subseteq tids \union Settled(w),
           ended \intersect Settled(x) \subseteq tids, Soft => ended = tids,
           Apart => Verdicts(x), NEW fail
    PROVE  /\ Scene(Release(x, tids, ended, fail), L)
           /\ Calm(x, Release(x, tids, ended, fail))
<1> DEFINE failed == ended \ tids
           released ==
             {d \in UNION {rqdata.sq_deps[t] \ (IF fail THEN rqdata.harddeps[t] ELSE {}) :
                             t \in ended} :
                rqdata.sq_revdeps[d] \subseteq Settled(x) \union failed}
           done == MarkSceneQueueDone(x.tasks_scenequeue_done, ended)
           need == x.holdoff_need_update \/ tids # {}
           y == [x EXCEPT
                   !.sq_running = @ \union failed,
                   !.sq_buildable = @ \union failed \union released,
                   !.scenequeue_notcovered = @ \union failed,
                   !.tasks_scenequeue_done = done,
                   !.holdoff_need_update = need]
<1>1. Release(x, tids, ended, fail) = y
  BY DEF Release
<1>2. released \subseteq rqdata.setscene
  BY DEF SceneTables
<1>3. \A d \in released : rqdata.sq_revdeps[d] \subseteq Settled(x) \union failed
  OBVIOUS
<1>4. failed \intersect w.sq_buildable \subseteq Settled(w)
  OBVIOUS
<1>4a. /\ failed \subseteq rqdata.setscene /\ failed \intersect Settled(x) = {}
       /\ Soft => failed = {}
  OBVIOUS
<1>5. x.holdoff_need_update => need
  OBVIOUS
<1> HIDE DEF failed, released, done, need
<1>6. /\ DOMAIN y = Fields
      /\ y.sq_running = x.sq_running \union failed
      /\ y.sq_buildable = x.sq_buildable \union failed \union released
      /\ Settled(y) = Settled(x) \union failed
      /\ Deferred(y) = Deferred(x) /\ y.pending_migrations = x.pending_migrations
      /\ y.updated_taskhash_queue = x.updated_taskhash_queue
      /\ y.scenequeue_covered = x.scenequeue_covered
      /\ y.scenequeue_notcovered = x.scenequeue_notcovered \union failed
      /\ y.tasks_covered = x.tasks_covered /\ y.tasks_notcovered = x.tasks_notcovered
  BY DEF Settled, Deferred, Fields, TaskSets
<1>7. Calm(x, y)
  BY <1>5, <1>6 DEF Calm, Fields, TaskSets
<1> HIDE DEF y
<1>8. L \subseteq Open(y) \intersect y.sq_running \intersect y.sq_buildable
  BY <1>4, <1>6 DEF Scene, Open
<1>9. \A t, d \in rqdata.setscene :
         d \in rqdata.harddeps[t] /\ d \in y.sq_buildable => {t, d} \intersect Settled(y) # {}
  <2> SUFFICES ASSUME NEW t \in rqdata.setscene, NEW d \in rqdata.setscene,
                      d \in rqdata.harddeps[t], d \in y.sq_buildable
               PROVE  t \in Settled(y) \/ d \in Settled(y)
    OBVIOUS
  <2>1. CASE d \in released
    BY <1>3, <1>6, <2>1 DEF SceneTables
  <2>2. CASE d \in w.sq_buildable
    BY <1>6, <2>2 DEF Scene
  <2> QED
    BY <1>6, <2>1, <2>2
<1>10. Apart => Verdicts(y)
  BY <1>4a, <1>6 DEF Verdicts, Settled
<1>11. Scene(y, L)
  BY <1>2, <1>4a, <1>6, <1>8, <1>9, <1>10 DEF Scene
<1> QED
  BY <1>1, <1>7, <1>11

LEMMA UpdatecountersScene ==
    ASSUME SceneTables, NEW w, NEW L, Scene(w, L), NEW tids \in SUBSET rqdata.setscene,
           tids \intersect L = {}, NEW x, DOMAIN x = Fields,
           Settled(x) = Settled(w) \union tids,
           w.sq_running \union tids \subseteq x.sq_running,
           w.sq_buildable \subseteq x.sq_buildable,
           x.sq_buildable \subseteq w.sq_buildable \union tids,
           Deferred(x) = Deferred(w), x.pending_migrations = w.pending_migrations,
           x.updated_taskhash_queue = w.updated_taskhash_queue,
           Apart => Verdicts(x),
           NEW fail, fail => tids \intersect Settled(w) = {}
    PROVE  /\ Scene(ScenequeueUpdatecounters(x, tids, fail), L)
           /\ Calm(x, ScenequeueUpdatecounters(x, tids, fail))
<1> DEFINE ended == IF fail THEN HardFailing(x, tids) ELSE tids
<1>1. /\ ended \in SUBSET rqdata.setscene /\ tids \subseteq ended
      /\ ended \intersect w.sq_buildable \subseteq tids \union Settled(w)
      /\ ended \intersect Settled(x) \subseteq tids /\ (Soft => ended = tids)
  BY HardFailingBlocked
<1> HIDE DEF ended
<1>2. /\ Scene(Release(x, tids, ended, fail), L)
      /\ Calm(x, Release(x, tids, ended, fail))
  BY <1>1, ReleaseScene
<1> QED
  BY <1>2 DEF ScenequeueUpdatecounters, ended

(* What a method does to the scene queue, none of its tasks running. *)
LEMMA FailoutrightScene ==
    ASSUME SceneTables, NEW x, NEW L, Scene(x, L), NEW tids \in SUBSET rqdata.setscene,
           tids \intersect (L \union Settled(x)) = {},
           Apart => tids \intersect Deferred(x) = {}
    PROVE  Scene(SqTaskFailoutright(x, tids), L) /\ Calm(x, SqTaskFailoutright(x, tids))
<1> DEFINE y == [x EXCEPT !.sq_running = @ \union tids,
                          !.sq_buildable = @ \union tids,
                          !.scenequeue_notcovered = @ \union tids]
<1>1. /\ DOMAIN y = Fields
      /\ Settled(y) = Settled(x) \union tids
      /\ y.sq_running = x.sq_running \union tids
      /\ y.sq_buildable = x.sq_buildable \union tids
      /\ Deferred(y) = Deferred(x) /\ y.pending_migrations = x.pending_migrations
      /\ y.updated_taskhash_queue = x.updated_taskhash_queue
  BY DEF Scene, Settled, Deferred, Fields, TaskSets
<1>2. Calm(x, y)
  BY <1>1 DEF Calm, Scene, Fields, TaskSets
<1>2z. Apart => Verdicts(y)
  BY <1>1 DEF Scene, Verdicts, Settled, Open, Fields, TaskSets
<1> HIDE DEF y
<1>3. /\ Scene(ScenequeueUpdatecounters(y, tids, TRUE), L)
      /\ Calm(y, ScenequeueUpdatecounters(y, tids, TRUE))
  BY <1>1, <1>2z, UpdatecountersScene
<1> QED
  BY <1>2, <1>3, CalmTransitive DEF SqTaskFailoutright, y

(* sq_task_completeoutright, of tasks that were taken up. *)
LEMMA CompleteoutrightScene ==
    ASSUME SceneTables, NEW x, NEW L, Scene(x, L), NEW tids \in SUBSET rqdata.setscene,
           tids \intersect L = {}, tids \subseteq x.sq_running,
           Apart => tids \intersect x.scenequeue_notcovered = {}
    PROVE  Scene(SqTaskCompleteoutright(x, tids), L) /\ Calm(x, SqTaskCompleteoutright(x, tids))
<1> DEFINE y == [x EXCEPT !.scenequeue_covered = @ \union tids]
<1>1. /\ DOMAIN y = Fields
      /\ Settled(y) = Settled(x) \union tids
      /\ y.sq_running = x.sq_running
      /\ y.sq_buildable = x.sq_buildable
      /\ Deferred(y) = Deferred(x) /\ y.pending_migrations = x.pending_migrations
      /\ y.updated_taskhash_queue = x.updated_taskhash_queue
  BY DEF Scene, Settled, Deferred, Fields, TaskSets
<1>2. Calm(x, y)
  BY <1>1 DEF Calm, Scene, Fields, TaskSets
<1>2z. Apart => Verdicts(y)
  BY <1>1 DEF Scene, Verdicts, Settled, Open, Fields, TaskSets
<1> HIDE DEF y
<1>3. /\ Scene(ScenequeueUpdatecounters(y, tids, FALSE), L)
      /\ Calm(y, ScenequeueUpdatecounters(y, tids, FALSE))
  BY <1>1, <1>2z, UpdatecountersScene
<1> QED
  BY <1>2, <1>3, CalmTransitive DEF SqTaskCompleteoutright, y

LEMMA SqSkipScene ==
    ASSUME SceneTables, NEW x, NEW L, Scene(x, L), NEW tids \in SUBSET rqdata.setscene,
           tids \intersect L = {}, Apart => tids \intersect x.scenequeue_notcovered = {}
    PROVE  Scene(SqTaskSkip(x, tids), L) /\ Calm(x, SqTaskSkip(x, tids))
<1> DEFINE u == [x EXCEPT !.sq_running = @ \union tids, !.sq_buildable = @ \union tids]
           y == [u EXCEPT !.scenequeue_covered = @ \union tids]
<1>1. /\ DOMAIN y = Fields
      /\ Settled(y) = Settled(x) \union tids
      /\ y.sq_running = x.sq_running \union tids
      /\ y.sq_buildable = x.sq_buildable \union tids
      /\ Deferred(y) = Deferred(x) /\ y.pending_migrations = x.pending_migrations
      /\ y.updated_taskhash_queue = x.updated_taskhash_queue
  BY DEF Scene, Settled, Deferred, Fields, TaskSets
<1>2. Calm(x, y)
  BY <1>1 DEF Calm, Scene, Fields, TaskSets
<1>2z. Apart => Verdicts(y)
  BY <1>1 DEF Scene, Verdicts, Settled, Open, Fields, TaskSets
<1>3. SqTaskSkip(x, tids) = ScenequeueUpdatecounters(y, tids, FALSE)
  BY DEF SqTaskSkip, SqTaskCompleteoutright
<1> HIDE DEF y
<1>4. /\ Scene(ScenequeueUpdatecounters(y, tids, FALSE), L)
      /\ Calm(y, ScenequeueUpdatecounters(y, tids, FALSE))
  BY <1>1, <1>2z, UpdatecountersScene
<1> QED
  BY <1>2, <1>3, <1>4, CalmTransitive

LEMMA SqFailScene ==
    ASSUME SceneTables, NEW x, NEW L, Scene(x, L),
           NEW t \in (x.sq_running \intersect Open(x)) \ L, Apart => t \notin Deferred(x)
    PROVE  Scene(SqTaskFail(x, t), L) /\ Calm(x, SqTaskFail(x, t))
<1> DEFINE y == [x EXCEPT !.scenequeue_notcovered = @ \union {t}]
           z == ScenequeueUpdatecounters(y, {t}, TRUE)
           s == IF Enforce /\ t \notin IgnoreTasks THEN "CleanUp" ELSE z.state
           u == [z EXCEPT !.state = s]
<1>0. u = SqTaskFail(x, t)
  BY DEF SqTaskFail
<1>1. /\ DOMAIN y = Fields
      /\ Settled(y) = Settled(x) \union {t}
      /\ y.sq_running = x.sq_running
      /\ y.sq_buildable = x.sq_buildable
      /\ Deferred(y) = Deferred(x) /\ y.pending_migrations = x.pending_migrations
      /\ y.updated_taskhash_queue = x.updated_taskhash_queue
  BY DEF Scene, Settled, Deferred, Fields, TaskSets
<1>2. Calm(x, y)
  BY <1>1 DEF Calm, Scene, Fields, TaskSets
<1>2z. Apart => Verdicts(y)
  BY <1>1 DEF Scene, Verdicts, Settled, Open, Fields, TaskSets
<1> HIDE DEF y
<1>2a. {t} \in SUBSET rqdata.setscene /\ {t} \intersect (L \union Settled(x)) = {}
       /\ x.sq_running \union {t} \subseteq y.sq_running
  BY <1>1 DEF Open
<1>3. Scene(z, L) /\ Calm(y, z)
  BY <1>1, <1>2a, <1>2z, UpdatecountersScene
<1>4. s = "Running" => z.state = "Running"
  OBVIOUS
<1> HIDE DEF z, s
<1>5. Scene(u, L) /\ Calm(z, u)
  BY <1>3, <1>4 DEF Scene, Calm, Open, Settled, Deferred, Verdicts, Fields, TaskSets
<1> QED
  BY <1>0, <1>2, <1>3, <1>5, CalmTransitive

LEMMA UndeferScene ==
    ASSUME NEW x, NEW L, Scene(x, L), NEW tids
    PROVE  /\ Scene(Undefer(x, tids), L) /\ Calm(x, Undefer(x, tids))
           /\ Settled(Undefer(x, tids)) = Settled(x)
           /\ Undefer(x, tids).sq_running = x.sq_running
           /\ Undefer(x, tids).sq_buildable = x.sq_buildable
           /\ Undefer(x, tids).sq_live = x.sq_live
           /\ Undefer(x, tids).scenequeue_notcovered = x.scenequeue_notcovered
           /\ Deferred(Undefer(x, tids)) = Deferred(x) \ tids
<1> DEFINE y == Undefer(x, tids)
<1>1. /\ DOMAIN y = Fields
      /\ Settled(y) = Settled(x)
      /\ y.sq_running = x.sq_running
      /\ y.sq_buildable = x.sq_buildable
      /\ y.sq_live = x.sq_live
      /\ Deferred(y) = Deferred(x) \ tids /\ y.pending_migrations = x.pending_migrations
      /\ y.updated_taskhash_queue = x.updated_taskhash_queue
      /\ y.scenequeue_covered = x.scenequeue_covered
      /\ y.scenequeue_notcovered = x.scenequeue_notcovered
      /\ y.tasks_covered = x.tasks_covered /\ y.tasks_notcovered = x.tasks_notcovered
  BY DEF Scene, Undefer, Settled, Deferred, Fields, TaskSets
<1>2. Calm(x, y)
  BY <1>1 DEF Calm, Scene, Undefer, Fields, TaskSets
<1> HIDE DEF y
<1> QED
  BY <1>1, <1>2 DEF Scene, Open, Verdicts, y

LEMMA UpdateDataScene ==
    ASSUME SceneTables, NEW x, NEW L, Scene(x, L), NEW tids \in SUBSET rqdata.setscene,
           tids \intersect L = {}, Apart => tids \intersect x.scenequeue_notcovered = {}
    PROVE  Scene(UpdateScenequeueData(x, tids), L) /\ Calm(x, UpdateScenequeueData(x, tids))
<1> DEFINE none == {t \in tids : NoExec(t)}
           stamped == {t \in tids \ none : StampPresent(x, t)}
           skipped == none \union stamped
           valid == {t \in tids \ skipped : Validated(x, t)}
           v == [x EXCEPT !.noexec = @ \union none,
                          !.stamppresent = (@ \ tids) \union stamped,
                          !.valid = (@ \ tids) \union valid,
                          !.outrightfail = @ \ tids]
           y == SqTaskSkip(v, skipped)
           z == OutrightFail(y, tids)
<1>1. z = UpdateScenequeueData(x, tids)
  BY DEF UpdateScenequeueData
<1>2. /\ skipped \in SUBSET rqdata.setscene /\ skipped \intersect L = {}
      /\ Apart => skipped \intersect x.scenequeue_notcovered = {}
  OBVIOUS
<1> HIDE DEF none, stamped, skipped, valid
<1>3. Scene(v, L) /\ Calm(x, v) /\ v.scenequeue_notcovered = x.scenequeue_notcovered
  BY DEF Scene, Calm, Open, Settled, Deferred, Verdicts, Fields, TaskSets
<1> HIDE DEF v
<1>4. Scene(y, L) /\ Calm(v, y)
  BY <1>2, <1>3, SqSkipScene
<1> HIDE DEF y
<1>5. Scene(z, L) /\ Calm(y, z)
  BY <1>4 DEF OutrightFail, Scene, Calm, Open, Settled, Deferred, Verdicts, Fields, TaskSets
<1> QED
  BY <1>1, <1>3, <1>4, <1>5, CalmTransitive

(* A task is complete: setscene tasks deferred behind it are not running. *)
LEMMA CompleteTaskScene ==
    ASSUME SceneTables, NEW x, NEW L, Scene(x, L), NEW t \in x.runq_running
    PROVE  Scene(TaskCompleteoutright(x, t), L) /\ Calm(x, TaskCompleteoutright(x, t))
<1> DEFINE complete == x.runq_complete \union {t}
           ready == {r \in rqdata.revdeps[t] \ x.runq_running :
                        rqdata.depends[r] \subseteq complete}
           waiting == {d \in Deferred(x) : x.sq_deferred[d] = t}
           v == [x EXCEPT !.runq_complete = complete]
           w == Setbuildable(v, ready)
           y == Undefer(w, waiting)
           z == UpdateScenequeueData(y, waiting)
<1>1. z = TaskCompleteoutright(x, t)
  BY DEF TaskCompleteoutright
<1>2. waiting \in SUBSET rqdata.setscene /\ waiting \intersect L = {}
  BY DEF Scene
<1>2a. waiting \subseteq Deferred(x)
  OBVIOUS
<1> HIDE DEF waiting, ready
<1>3. Scene(w, L) /\ Calm(x, w) /\ Deferred(w) = Deferred(x)
  <2>1. w = [x EXCEPT !.runq_complete = complete, !.runq_buildable = @ \union ready]
    BY DEF Setbuildable, Scene, Fields, TaskSets
  <2>2. complete \subseteq x.runq_running <=> x.runq_complete \subseteq x.runq_running
    OBVIOUS
  <2>3. x.runq_complete \subseteq complete
    OBVIOUS
  <2> HIDE DEF w, complete
  <2> QED
    BY <2>1, <2>2, <2>3 DEF Scene, Calm, Open, Settled, Deferred, Verdicts, Fields, TaskSets
<1> HIDE DEF w
<1>4. /\ Scene(y, L) /\ Calm(w, y)
      /\ y.scenequeue_notcovered = w.scenequeue_notcovered
  BY <1>3, UndeferScene
<1> HIDE DEF y
<1>4a. Apart => waiting \intersect y.scenequeue_notcovered = {}
  BY <1>2a, <1>3, <1>4 DEF Scene, Verdicts
<1>5. Scene(z, L) /\ Calm(y, z)
  BY <1>2, <1>4, <1>4a, UpdateDataScene
<1> QED
  BY <1>1, <1>3, <1>4, <1>5, CalmTransitive

LEMMA TaskCompleteScene ==
    ASSUME SceneTables, NEW x, NEW L, Scene(x, L), NEW t \in x.runq_running
    PROVE  Scene(TaskComplete(x, t), L) /\ Calm(x, TaskComplete(x, t))
<1> DEFINE v == [x EXCEPT !.active = @ - 1]
           y == TaskCompleteoutright(v, t)
           z == [y EXCEPT !.runq_tasksrun = @ \union {t}]
<1>1. z = TaskComplete(x, t)
  BY DEF TaskComplete
<1>2. Scene(v, L) /\ Calm(x, v)
  BY DEF Scene, Calm, Open, Settled, Deferred, Verdicts, Fields, TaskSets
<1> HIDE DEF v
<1>3. Scene(y, L) /\ Calm(v, y)
  BY <1>2, CompleteTaskScene DEF Calm
<1> HIDE DEF y
<1>4. Scene(z, L) /\ Calm(y, z)
  BY <1>3 DEF Scene, Calm, Open, Settled, Deferred, Verdicts, Fields, TaskSets
<1> QED
  BY <1>1, <1>2, <1>3, <1>4, CalmTransitive

LEMMA TaskFailScene ==
    ASSUME NEW x, NEW L, Scene(x, L), NEW t
    PROVE  Scene(TaskFail(x, t), L) /\ Calm(x, TaskFail(x, t))
BY DEF TaskFail, Scene, Calm, Open, Settled, Deferred, Verdicts, Fields, TaskSets

(* A completed task is finished; the running ones stay as they are. *)
LEMMA CompleteTaskSets ==
    ASSUME NEW x, DOMAIN x = Fields, NEW t
    PROVE  LET y == TaskCompleteoutright(x, t)
           IN  /\ DOMAIN y = Fields
               /\ y.runq_running = x.runq_running
               /\ y.runq_complete = x.runq_complete \union {t}
               /\ y.sq_live = x.sq_live
<1> DEFINE complete == x.runq_complete \union {t}
           ready == {r \in rqdata.revdeps[t] \ x.runq_running :
                        rqdata.depends[r] \subseteq complete}
           waiting == {d \in Deferred(x) : x.sq_deferred[d] = t}
           w == Setbuildable([x EXCEPT !.runq_complete = complete], ready)
           y == Undefer(w, waiting)
           z == UpdateScenequeueData(y, waiting)
<1>1. TaskCompleteoutright(x, t) = z
  BY DEF TaskCompleteoutright
<1> HIDE DEF waiting, ready
<1>2. /\ DOMAIN w = Fields
      /\ w.runq_running = x.runq_running
      /\ w.runq_complete = x.runq_complete \union {t}
      /\ w.sq_live = x.sq_live
  BY DEF Setbuildable, Fields, TaskSets
<1> HIDE DEF w
<1>3. SameRuns(w, y) /\ DOMAIN y = Fields
  BY <1>2, UndeferRuns DEF SameRuns
<1> HIDE DEF y
<1>4. SameRuns(y, z)
  BY <1>3, UpdateDataRuns
<1> HIDE DEF z
<1> QED
  BY <1>1, <1>2, <1>3, <1>4 DEF SameRuns

LEMMA TaskCompleteSets ==
    ASSUME NEW x, DOMAIN x = Fields, NEW t
    PROVE  LET y == TaskComplete(x, t)
           IN  /\ y.runq_running = x.runq_running
               /\ y.runq_complete = x.runq_complete \union {t}
               /\ y.sq_live = x.sq_live
<1> DEFINE a == [x EXCEPT !.active = @ - 1]
           y == TaskCompleteoutright(a, t)
           z == [y EXCEPT !.runq_tasksrun = @ \union {t}]
<1>1. z = TaskComplete(x, t)
  BY DEF TaskComplete
<1>2. /\ DOMAIN a = Fields /\ a.runq_running = x.runq_running
      /\ a.runq_complete = x.runq_complete /\ a.sq_live = x.sq_live
  BY DEF Fields, TaskSets
<1> HIDE DEF a
<1>3. /\ DOMAIN y = Fields /\ y.runq_running = x.runq_running
      /\ y.runq_complete = x.runq_complete \union {t} /\ y.sq_live = x.sq_live
  BY <1>2, CompleteTaskSets
<1> HIDE DEF y
<1> QED
  BY <1>1, <1>3 DEF Fields, TaskSets

(* What the workers W run and the messages of P after the n-th answer: every
   task once, a task under way or a live setscene task. *)
Single(x, W, P, n) ==
    /\ \A v, w \in W : v[1] = w[1] => v = w
    /\ \A w \in W : w[1] \in IF w[2] = "run" THEN Busy(x) ELSE x.sq_live
    /\ \A w \in W, i \in (n+1)..Len(P) : IsExit(P[i]) => P[i].task # w[1]
    /\ \A i, j \in (n+1)..Len(P) :
          i # j /\ IsExit(P[i]) /\ IsExit(P[j]) => P[i].task # P[j].task
    /\ \A i \in (n+1)..Len(P) : IsExit(P[i]) => P[i].task \in Busy(x) \union x.sq_live
    /\ \A i \in (n+1)..Len(P) : Soft \/ IsExit(P[i])

LEMMA SingleKept ==
    ASSUME NEW x, NEW y, NEW W, NEW P, NEW n, Single(x, W, P, n),
           Busy(x) \subseteq Busy(y), x.sq_live \subseteq y.sq_live
    PROVE  Single(y, W, P, n)
BY DEF Single

(* One message read. *)
LEMMA ReadMessageScene ==
    ASSUME SceneTables, NEW x, Scene(x, x.sq_live), NEW W, NEW P \in Seq(Messages),
           NEW n \in 1..Len(P), Single(x, W, P, n - 1)
    PROVE  LET y == ReadMessage(x, P[n])
           IN  Scene(y, y.sq_live) /\ Calm(x, y) /\ Single(y, W, P, n)
<1> DEFINE m == P[n]
           y == ReadMessage(x, m)
<1> SUFFICES Scene(y, y.sq_live) /\ Calm(x, y) /\ Single(y, W, P, n)
  OBVIOUS
<1>1. /\ n \in ((n-1)+1)..Len(P)
      /\ (n+1)..Len(P) \subseteq ((n-1)+1)..Len(P)
      /\ \A i \in (n+1)..Len(P) : i # n
  OBVIOUS
<1>2. Single(x, W, P, n)
  BY <1>1 DEF Single
<1>3. /\ Soft \/ IsExit(m)
      /\ IsExit(m) => m.task \in Busy(x) \union x.sq_live
      /\ IsExit(m) => \A w \in W : w[1] # m.task
      /\ IsExit(m) => \A i \in (n+1)..Len(P) : IsExit(P[i]) => P[i].task # m.task
  BY <1>1 DEF Single
<1>4. CASE ~IsExit(m)
  <2> DEFINE q == Append(x.updated_taskhash_queue, <<m.task, m.unihash>>)
             z == [x EXCEPT !.updated_taskhash_queue = q]
  <2>1. y = z
    BY <1>4 DEF ReadMessage, IsExit
  <2> HIDE DEF q, y
  <2>2. Scene(z, z.sq_live) /\ Calm(x, z)
    BY <1>3, <1>4 DEF Scene, Calm, Open, Settled, Deferred, Verdicts, Fields, TaskSets
  <2>3. Busy(z) = Busy(x) /\ z.sq_live = x.sq_live
    BY DEF Scene, Busy, Fields, TaskSets
  <2> HIDE DEF z
  <2> QED
    BY <1>2, <2>1, <2>2, <2>3, SingleKept
<1>5. CASE IsExit(m) /\ m.task \in x.sq_live
  <2> DEFINE L == x.sq_live \ {m.task}
             v == IF m.ok THEN SqTaskCompleteoutright(x, {m.task})
                  ELSE SqTaskFail(x, m.task)
             z == [v EXCEPT !.sq_live = @ \ {m.task}]
  <2>1. y = z
    BY <1>5 DEF ReadMessage, IsExit
  <2>2. Scene(x, L)
    BY DEF Scene
  <2>2a. /\ m.task \notin Deferred(x)
         /\ {m.task} \intersect x.scenequeue_notcovered = {}
    BY <1>5 DEF Scene, Open, Settled
  <2>3. /\ {m.task} \in SUBSET rqdata.setscene /\ {m.task} \intersect L = {}
        /\ {m.task} \subseteq x.sq_running
        /\ m.task \in (x.sq_running \intersect Open(x)) \ L
    BY <1>5 DEF Scene, Open
  <2> HIDE DEF L
  <2>4. Scene(v, L) /\ Calm(x, v)
    BY <2>2, <2>2a, <2>3, CompleteoutrightScene, SqFailScene
  <2>5. SameRuns(x, v)
    BY CompleteoutrightRuns, SqFailRuns DEF Scene
  <2> HIDE DEF v, y
  <2>6. z.sq_live = L /\ Busy(z) = Busy(x) /\ DOMAIN z = Fields
    BY <2>4, <2>5 DEF Scene, SameRuns, Busy, L, Fields, TaskSets
  <2>7. Scene(z, L) /\ Calm(v, z)
    BY <2>4 DEF Scene, Calm, Open, Settled, Deferred, Verdicts, Fields, TaskSets
  <2> HIDE DEF z
  <2>8. Single(z, W, P, n)
    <3>1. /\ \A w \in W : w[2] # "run" => w[1] \in L
          /\ \A i \in (n+1)..Len(P) : IsExit(P[i]) => P[i].task \in Busy(x) \union L
      BY <1>2, <1>3, <1>5 DEF Single, L
    <3> HIDE DEF m
    <3> QED
      BY <1>2, <2>6, <3>1 DEF Single
  <2> QED
    BY <2>1, <2>4, <2>6, <2>7, <2>8, CalmTransitive
<1>6. CASE IsExit(m) /\ m.task \notin x.sq_live /\ m.ok
  <2> DEFINE z == TaskComplete(x, m.task)
  <2>1. y = z /\ m.task \in x.runq_running
    BY <1>3, <1>6 DEF ReadMessage, IsExit, Busy
  <2>2. Scene(z, x.sq_live) /\ Calm(x, z)
    BY <2>1, TaskCompleteScene
  <2>3. z.sq_live = x.sq_live /\ Busy(z) = Busy(x) \ {m.task}
    BY TaskCompleteSets DEF Scene, Busy
  <2> HIDE DEF z, y
  <2>4. Single(z, W, P, n)
    <3>1. /\ \A w \in W : w[2] = "run" => w[1] \in Busy(z)
          /\ \A i \in (n+1)..Len(P) : IsExit(P[i]) => P[i].task \in Busy(z) \union x.sq_live
      BY <1>2, <1>3, <1>6, <2>3 DEF Single
    <3> HIDE DEF m
    <3> QED
      BY <1>2, <2>3, <3>1 DEF Single
  <2> QED
    BY <2>1, <2>2, <2>3, <2>4
<1>7. CASE IsExit(m) /\ m.task \notin x.sq_live /\ ~m.ok
  <2> DEFINE z == TaskFail(x, m.task)
  <2>1. y = z
    BY <1>7 DEF ReadMessage, IsExit
  <2>2. Scene(z, x.sq_live) /\ Calm(x, z)
    BY TaskFailScene
  <2>3. z.sq_live = x.sq_live /\ Busy(z) = Busy(x)
    BY TaskFailRuns DEF Scene, SameRuns, Busy
  <2> HIDE DEF z, y
  <2> QED
    BY <1>2, <2>1, <2>2, <2>3, SingleKept
<1> QED
  BY <1>4, <1>5, <1>6, <1>7

(* Any number of messages read. *)
LEMMA ReadWorkersScene ==
    ASSUME SceneTables, NEW x, Scene(x, x.sq_live), NEW W, NEW P \in Seq(Messages),
           NEW n \in 0..Len(P), Single(x, W, P, 0)
    PROVE  LET y == ReadWorkers(x, P, n)
           IN  Scene(y, y.sq_live) /\ Calm(x, y) /\ Single(y, W, P, n)
<1> DEFINE read == CHOOSE f : ReadAll(x, P, n, f)
           OK(y, k) == Scene(y, y.sq_live) /\ Calm(x, y) /\ Single(y, W, P, k)
<1>1. ReadAll(x, P, n, read)
  BY ReadAllExists
<1>2. ReadWorkers(x, P, n) = read[n]
  BY DEF ReadWorkers, ReadAll
<1> HIDE DEF read
<1> DEFINE Bad == {k \in 0..n : ~OK(read[k], k)}
<1>3. SUFFICES ASSUME Bad # {} PROVE FALSE
  BY <1>2
<1>4. PICK k \in Bad : \A l \in Bad : k <= l
  <2>1. Bad \in SUBSET Nat
    OBVIOUS
  <2> HIDE DEF Bad
  <2> QED
    BY <1>3, <2>1, LeastNat
<1>5. k # 0
  <2>1. read[0] = x
    BY <1>1 DEF ReadAll
  <2>2. Calm(x, x)
    BY DEF Calm
  <2> QED
    BY <1>4, <2>1, <2>2
<1>6. k - 1 \in 0..n /\ k - 1 \notin Bad /\ k \in 1..Len(P)
  BY <1>4, <1>5
<1>7. OK(read[k - 1], k - 1)
  BY <1>6
<1>8. read[k] = ReadMessage(read[k - 1], P[k])
  BY <1>1, <1>4, <1>5 DEF ReadAll
<1>9. /\ Scene(read[k], read[k].sq_live) /\ Calm(read[k - 1], read[k])
      /\ Single(read[k], W, P, k)
  BY <1>6, <1>7, <1>8, ReadMessageScene
<1> QED
  BY <1>4, <1>7, <1>9, CalmTransitive

(* The messages that were not read are a pipe of their own. *)
LEMMA UnreadSingle ==
    ASSUME NEW x, NEW W, NEW P \in Seq(Messages), NEW n \in 0..Len(P), Single(x, W, P, n)
    PROVE  LET Q == SubSeq(P, n + 1, Len(P))
           IN  Q \in Seq(Messages) /\ Single(x, W, Q, 0)
<1> DEFINE Q == SubSeq(P, n + 1, Len(P))
<1> SUFFICES Q \in Seq(Messages) /\ Single(x, W, Q, 0)
  OBVIOUS
<1>1. /\ Q \in Seq(Messages)
      /\ Len(Q) = Len(P) - n
      /\ \A i \in 1..Len(Q) : Q[i] = P[n + i]
  OBVIOUS
<1> HIDE DEF Q
<1>2. \A i \in 1..Len(Q) : n + i \in (n+1)..Len(P)
  BY <1>1
<1>3. \A i, j \in 1..Len(Q) : i # j => n + i # n + j
  BY <1>1
<1>4. \A w \in W, i \in 1..Len(Q) : IsExit(Q[i]) => Q[i].task # w[1]
  BY <1>1, <1>2 DEF Single
<1>5. \A i \in 1..Len(Q) :
         /\ IsExit(Q[i]) => Q[i].task \in Busy(x) \union x.sq_live
         /\ Soft \/ IsExit(Q[i])
  BY <1>1, <1>2 DEF Single
<1>6. \A i, j \in 1..Len(Q) :
         i # j /\ IsExit(Q[i]) /\ IsExit(Q[j]) => Q[i].task # Q[j].task
  <2> SUFFICES ASSUME NEW i \in 1..Len(Q), NEW j \in 1..Len(Q), i # j,
                      IsExit(Q[i]), IsExit(Q[j])
               PROVE  Q[i].task # Q[j].task
    OBVIOUS
  <2>1. /\ n + i \in (n+1)..Len(P) /\ n + j \in (n+1)..Len(P)
        /\ n + i # n + j /\ Q[i] = P[n + i] /\ Q[j] = P[n + j]
    BY <1>1, <1>2, <1>3
  <2> QED
    BY <2>1 DEF Single
<1> QED
  BY <1>1, <1>4, <1>5, <1>6 DEF Single

-----------------------------------------------------------------------------
(* What holds of the RunQueueExecute object between two calls of the server:
   no live setscene task has its work under way; and while the build runs no
   open one has, or will have before the hold-off sets are made anew. *)
Rest(x) ==
    /\ Scene(x, x.sq_live)
    /\ x.runq_complete \subseteq x.runq_running
    /\ NotBusy(x, x.sq_live)
    /\ x.state = "Running" => NotBusy(x, Open(x)) /\ Held(x, Open(x))

(* ... and within a pass, which goes on after a failure was read.  A migration
   that was halted opens tasks that nothing holds off; the build then only
   cleans up. *)
Ready(x) ==
    /\ Scene(x, x.sq_live)
    /\ x.runq_complete \subseteq x.runq_running
    /\ NotBusy(x, Open(x))
    /\ Held(x, x.sq_live)
    /\ x.state = "Running" => Held(x, Open(x))

LEMMA ReadyRests ==
    ASSUME NEW x, Ready(x)
    PROVE  Rest(x)
BY DEF Ready, Rest, Scene, NotBusy

LEMMA CalmRests ==
    ASSUME NEW x, NEW y, Calm(x, y), Scene(y, y.sq_live)
    PROVE  /\ Rest(x) => Rest(y)
           /\ Ready(x) => Ready(y)
<1>1. y.sq_live \subseteq x.sq_live /\ Open(y) \subseteq Open(x)
  BY DEF Calm, Open
<1>2. /\ NotBusy(x, x.sq_live) => NotBusy(y, y.sq_live)
      /\ Held(x, x.sq_live) => Held(y, y.sq_live)
  BY <1>1, CalmKeeps
<1>3. /\ NotBusy(x, Open(x)) => NotBusy(y, Open(y))
      /\ Held(x, Open(x)) => Held(y, Open(y))
  BY <1>1, CalmKeeps
<1> QED
  BY <1>2, <1>3 DEF Rest, Ready, Calm

LEMMA ReadyScene ==
    ASSUME NEW x, Ready(x)
    PROVE  Scene(x, x.sq_live) /\ DOMAIN x = Fields
BY DEF Ready, Scene

(* The step ends at rest, the workers being W. *)
EndsAtRest(W) ==
    /\ Rest(rqexe')
    /\ pipe' \in Seq(Messages)
    /\ Single(rqexe', W, pipe', 0)

(* The state of a build, changed from outside, to one that does not run. *)
LEMMA StateScene ==
    ASSUME NEW x, NEW L, Scene(x, L), NEW s, s # "Running" \/ s = x.state
    PROVE  LET y == [x EXCEPT !.state = s]
           IN  Scene(y, L) /\ Calm(x, y) /\ Busy(y) = Busy(x) /\ y.sq_live = x.sq_live
BY DEF Scene, Calm, Busy, Open, Settled, Deferred, Verdicts, Fields, TaskSets

LEMMA FinishRests ==
    ASSUME SceneTables, NEW x, Rest(x), NEW W, NEW P \in Seq(Messages), Single(x, W, P, 0),
           FinishStep(x, P)
    PROVE  EndsAtRest(W)
<1> DEFINE y == [x EXCEPT !.state = "CleanUp"]
           s == IF x.failed_tids # {} THEN "Failed" ELSE "Complete"
           z == [y EXCEPT !.state = s]
<1>1. /\ Scene(y, x.sq_live) /\ Calm(x, y) /\ Busy(y) = Busy(x) /\ y.sq_live = x.sq_live
  BY StateScene DEF Rest
<1>2. Rest(y) /\ Single(y, W, P, 0)
  BY <1>1, CalmRests, SingleKept
<1>3. CASE x.active + Cardinality(x.sq_live) > 0
  <2>1. PICK n \in 0..Len(P) : /\ rqexe' = ReadWorkers(y, P, n)
                               /\ pipe' = SubSeq(P, n + 1, Len(P))
    BY <1>3 DEF FinishStep
  <2> HIDE DEF y
  <2>2. /\ Scene(rqexe', rqexe'.sq_live) /\ Calm(y, rqexe')
        /\ Single(rqexe', W, P, n)
    BY <1>2, <2>1, ReadWorkersScene DEF Rest
  <2> QED
    BY <1>2, <2>1, <2>2, CalmRests, UnreadSingle DEF EndsAtRest
<1>4. CASE ~(x.active + Cardinality(x.sq_live) > 0)
  <2>1. rqexe' = z /\ pipe' = P
    BY <1>4 DEF FinishStep
  <2>2. s # "Running"
    OBVIOUS
  <2> HIDE DEF y, s
  <2>3. Scene(z, y.sq_live) /\ Calm(y, z) /\ Busy(z) = Busy(y) /\ z.sq_live = y.sq_live
    BY <1>2, <2>2, StateScene DEF Rest
  <2> HIDE DEF z
  <2> QED
    BY <1>2, <2>1, <2>3, CalmRests, SingleKept DEF EndsAtRest
<1> QED
  BY <1>3, <1>4

LEMMA ReturnRests ==
    ASSUME SceneTables, NEW x, Rest(x), NEW W, NEW P \in Seq(Messages), Single(x, W, P, 0),
           Return(x, P)
    PROVE  EndsAtRest(W)
BY FinishRests DEF Return, EndsAtRest

LEMMA ReadAndReturnRests ==
    ASSUME SceneTables, NEW x, Rest(x), NEW W, NEW P \in Seq(Messages), Single(x, W, P, 0),
           ReadAndReturn(x, P)
    PROVE  EndsAtRest(W)
<1>1. PICK n \in 0..Len(P) : Return(ReadWorkers(x, P, n), SubSeq(P, n + 1, Len(P)))
  BY DEF ReadAndReturn
<1> DEFINE y == ReadWorkers(x, P, n)
           Q == SubSeq(P, n + 1, Len(P))
<1>2. Scene(y, y.sq_live) /\ Calm(x, y) /\ Single(y, W, P, n)
  BY ReadWorkersScene DEF Rest
<1>3. Rest(y) /\ Q \in Seq(Messages) /\ Single(y, W, Q, 0)
  BY <1>2, CalmRests, UnreadSingle
<1> QED
  BY <1>1, <1>3, ReturnRests

(* The branches of a pass that only settle a setscene task. *)
LEMMA SettlingRests ==
    ASSUME SceneTables, NEW x, Ready(x), NEW P \in Seq(Messages), Single(x, worker, P, 0),
           NEW y, Scene(y, x.sq_live), Calm(x, y), SameRuns(x, y), Return(y, P)
    PROVE  EndsAtRest(worker)
<1>1. y.sq_live = x.sq_live /\ Busy(y) = Busy(x)
  BY DEF SameRuns, Busy
<1> QED
  BY <1>1, ReadyRests, CalmRests, SingleKept, ReturnRests

(* A task execute() may take up is open and not live. *)
LEMMA CandidateOpen ==
    ASSUME NEW x, Scene(x, x.sq_live), NEW t \in SceneCandidates(x)
    PROVE  /\ t \in Open(x) /\ t \notin x.sq_live /\ t \in x.sq_buildable
           /\ {t} \in SUBSET rqdata.setscene
           /\ {t} \intersect (x.sq_live \union Settled(x)) = {}
           /\ {t} \intersect x.scenequeue_notcovered = {}
BY DEF SceneCandidates, Scene, Open, Settled

LEMMA SkipNotNeededRests ==
    ASSUME SceneTables, NEW x, Ready(x), NEW P \in Seq(Messages), Single(x, worker, P, 0),
           SkipNotNeeded(x, P)
    PROVE  EndsAtRest(worker')
<1>1. PICK t \in SceneCandidates(x) :
         /\ Return([Undefer(SqTaskSkip(x, {t}), {t}) EXCEPT
                      !.scenequeue_notneeded = @ \union {t}], P)
         /\ worker' = worker
  BY DEF SkipNotNeeded, NothingStarted
<1> DEFINE v == SqTaskSkip(x, {t})
           w == Undefer(v, {t})
           y == [w EXCEPT !.scenequeue_notneeded = @ \union {t}]
<1>2. Scene(v, x.sq_live) /\ Calm(x, v) /\ SameRuns(x, v)
  BY ReadyScene, CandidateOpen, SqSkipScene, SqSkipRuns
<1> HIDE DEF v
<1>3. Scene(w, x.sq_live) /\ Calm(v, w) /\ SameRuns(v, w)
  BY <1>2, SceneFields, UndeferScene, UndeferRuns
<1> HIDE DEF w
<1>4. Scene(y, x.sq_live) /\ Calm(w, y) /\ SameRuns(w, y)
  BY <1>3 DEF Scene, Calm, Open, Settled, Deferred, Verdicts, SameRuns, Honest, Fields, TaskSets
<1> HIDE DEF y
<1>5. Calm(x, y) /\ SameRuns(x, y)
  BY <1>2, <1>3, <1>4, CalmTransitive, SameRunsTransitive
<1> QED
  BY <1>1, <1>4, <1>5, SettlingRests DEF v, w, y

LEMMA RefuseSetsceneRests ==
    ASSUME SceneTables, NEW x, Ready(x), NEW P \in Seq(Messages), Single(x, worker, P, 0),
           RefuseSetscene(x, P)
    PROVE  EndsAtRest(worker')
<1>1. PICK t \in SceneCandidates(x) :
         Return(SqTaskFailoutright(Undefer(x, {t}), {t}), P) /\ worker' = worker
  BY DEF RefuseSetscene, NothingStarted
<1> DEFINE w == Undefer(x, {t})
           y == SqTaskFailoutright(w, {t})
<1>2. /\ Scene(w, x.sq_live) /\ Calm(x, w) /\ SameRuns(x, w)
      /\ Settled(w) = Settled(x) /\ {t} \intersect Deferred(w) = {}
  BY ReadyScene, UndeferScene, UndeferRuns
<1> HIDE DEF w
<1>3. Scene(y, x.sq_live) /\ Calm(w, y) /\ SameRuns(w, y)
  BY <1>2, ReadyScene, SceneFields, CandidateOpen, FailoutrightScene, FailoutrightRuns
<1> HIDE DEF y
<1>4. Calm(x, y) /\ SameRuns(x, y)
  BY <1>2, <1>3, CalmTransitive, SameRunsTransitive
<1> QED
  BY <1>1, <1>3, <1>4, SettlingRests DEF w, y

LEMMA SetsceneStampedRests ==
    ASSUME SceneTables, NEW x, Ready(x), NEW P \in Seq(Messages), Single(x, worker, P, 0),
           SetsceneStamped(x, P)
    PROVE  EndsAtRest(worker')
<1>1. PICK t \in SceneCandidates(x) :
         Return(SqTaskSkip(Undefer(x, {t}), {t}), P) /\ worker' = worker
  BY DEF SetsceneStamped, NothingStarted
<1> DEFINE w == Undefer(x, {t})
           y == SqTaskSkip(w, {t})
<1>2. /\ Scene(w, x.sq_live) /\ Calm(x, w) /\ SameRuns(x, w)
      /\ w.scenequeue_notcovered = x.scenequeue_notcovered
  BY ReadyScene, UndeferScene, UndeferRuns
<1> HIDE DEF w
<1>3. Scene(y, x.sq_live) /\ Calm(w, y) /\ SameRuns(w, y)
  BY <1>2, ReadyScene, SceneFields, CandidateOpen, SqSkipScene, SqSkipRuns
<1> HIDE DEF y
<1>4. Calm(x, y) /\ SameRuns(x, y)
  BY <1>2, <1>3, CalmTransitive, SameRunsTransitive
<1> QED
  BY <1>1, <1>3, <1>4, SettlingRests DEF w, y

(* The hold-off sets made anew hold every open task off. *)
LEMMA HoldoffRests ==
    ASSUME NEW x, Scene(x, x.sq_live)
    PROVE  LET y == UpdateHoldofftasks(x)
           IN  /\ Rest(x) => Rest(y)
               /\ Ready(x) => Ready(y)
               /\ ~y.holdoff_need_update
               /\ y.runq_running = x.runq_running /\ y.runq_complete = x.runq_complete
               /\ y.sq_live = x.sq_live
<1> DEFINE notcovered ==
            (x.scenequeue_notcovered \union rqdata.cantskip
              \union (UNION {rqdata.sq_covered_tasks[t] :
                                t \in x.scenequeue_notcovered})
              \union (rqdata.unskippable \ rqdata.setscene))
            \intersect x.tasks_scenequeue_done
           covered ==
            ((x.scenequeue_covered
              \union (UNION {rqdata.sq_covered_tasks[t] :
                                t \in x.scenequeue_covered})) \ notcovered)
            \intersect x.tasks_scenequeue_done
           buildable == {t \in Tasks :
                         /\ t \in notcovered \union covered
                         /\ rqdata.depends[t] \subseteq x.runq_complete}
           pending == rqdata.setscene \ Settled(x)
           held == pending \union
                    ((UNION {rqdata.sq_covered_tasks[t] : t \in pending}) \ x.runq_complete)
           y == [Setbuildable(x, buildable) EXCEPT
                  !.tasks_covered = covered,
                  !.tasks_notcovered = notcovered,
                  !.holdoff_tasks = held,
                  !.holdoff_need_update = FALSE]
<1>1. UpdateHoldofftasks(x) = IF ~x.holdoff_need_update THEN x ELSE y
  BY DEF UpdateHoldofftasks
<1>2. \A t \in Open(x) :
         {t} \union rqdata.sq_covered_tasks[t] \subseteq held \union x.runq_complete
  <2> SUFFICES ASSUME NEW t \in pending
               PROVE  {t} \union rqdata.sq_covered_tasks[t] \subseteq held \union x.runq_complete
    BY DEF Open
  <2> DEFINE work == UNION {rqdata.sq_covered_tasks[u] : u \in pending}
  <2>1. held = pending \union (work \ x.runq_complete)
    OBVIOUS
  <2> HIDE DEF held
  <2>2. rqdata.sq_covered_tasks[t] \subseteq work
    OBVIOUS
  <2> HIDE DEF pending, work
  <2> QED
    BY <2>1, <2>2
<1>2a. covered \intersect notcovered = {}
  OBVIOUS
<1> HIDE DEF buildable, covered, notcovered, held
<1>3. /\ Scene(y, x.sq_live) /\ y.sq_live = x.sq_live
      /\ y.runq_running = x.runq_running /\ y.runq_complete = x.runq_complete
      /\ Settled(y) = Settled(x) /\ y.holdoff_tasks = held /\ y.state = x.state
      /\ ~y.holdoff_need_update
  BY <1>2a DEF Setbuildable, Scene, Open, Settled, Deferred, Verdicts, Fields, TaskSets
<1> HIDE DEF y
<1>4. Open(y) = Open(x) /\ Busy(y) = Busy(x)
  BY <1>3 DEF Open, Busy
<1>5. Held(y, Open(y)) /\ Held(y, y.sq_live)
  <2>1. y.sq_live \subseteq Open(y)
    BY <1>3, <1>4 DEF Scene
  <2> QED
    BY <1>2, <1>3, <1>4, <2>1 DEF Held
<1>6. NotBusy(x, Open(x)) => NotBusy(y, Open(y))
  BY <1>3, <1>4 DEF NotBusy
<1>7. NotBusy(x, x.sq_live) => NotBusy(y, y.sq_live)
  BY <1>3, <1>4 DEF NotBusy
<1>8. (Rest(x) => Rest(y)) /\ (Ready(x) => Ready(y))
  BY <1>3, <1>5, <1>6, <1>7 DEF Rest, Ready
<1> QED
  BY <1>1, <1>3, <1>8

(* A setscene task is started: neither its task nor any it covers is under way. *)
LEMMA StartSetsceneRests ==
    ASSUME SceneTables, NEW x, Ready(x), NEW P \in Seq(Messages), Single(x, worker, P, 0),
           StartSetscene(x, P)
    PROVE  EndsAtRest(worker')
<1>1. PICK t \in SceneCandidates(x) :
          LET y == [Undefer(x, {t}) EXCEPT !.sq_running = @ \union {t},
                                           !.sq_live = @ \union {t}]
          IN  /\ IF CanStartTask(y) THEN Return(y, P)
                 ELSE ReadAndReturn(UpdateHoldofftasks(y), P)
              /\ Runtask(t, "setscene", x)
  BY DEF StartSetscene
<1> DEFINE w == Undefer(x, {t})
           y == [w EXCEPT !.sq_running = @ \union {t}, !.sq_live = @ \union {t}]
           z == UpdateHoldofftasks(y)
           new == <<t, "setscene", x.unihash[t]>>
           W == worker \union {new}
<1>2. worker' = W
  BY <1>1 DEF Runtask
<1>3. Return(y, P) \/ ReadAndReturn(z, P)
  BY <1>1
<1>4. /\ t \in Open(x) /\ t \notin x.sq_live /\ t \in x.sq_buildable
      /\ t \notin x.runq_running
  BY ReadyScene, CandidateOpen DEF Ready, NotBusy
<1>5. /\ Scene(w, x.sq_live) /\ Settled(w) = Settled(x)
      /\ w.sq_running = x.sq_running /\ w.sq_buildable = x.sq_buildable
      /\ w.sq_live = x.sq_live
  BY ReadyScene, UndeferScene
<1>6. /\ t \notin Deferred(w)
      /\ w.runq_running = x.runq_running /\ w.runq_complete = x.runq_complete
      /\ w.holdoff_tasks = x.holdoff_tasks
      /\ w.holdoff_need_update = x.holdoff_need_update
      /\ w.state = x.state
  BY ReadyScene DEF Undefer, Deferred, Fields, TaskSets
<1> HIDE DEF w
<1>7. /\ DOMAIN y = Fields
      /\ y.sq_running = w.sq_running \union {t}
      /\ y.sq_live = w.sq_live \union {t}
      /\ y.sq_buildable = w.sq_buildable
      /\ Settled(y) = Settled(w) /\ Deferred(y) = Deferred(w)
      /\ y.pending_migrations = w.pending_migrations
      /\ y.updated_taskhash_queue = w.updated_taskhash_queue
      /\ y.scenequeue_covered = w.scenequeue_covered
      /\ y.scenequeue_notcovered = w.scenequeue_notcovered
      /\ y.tasks_covered = w.tasks_covered /\ y.tasks_notcovered = w.tasks_notcovered
      /\ y.runq_running = w.runq_running /\ y.runq_complete = w.runq_complete
      /\ y.holdoff_tasks = w.holdoff_tasks
      /\ y.holdoff_need_update = w.holdoff_need_update
      /\ y.state = w.state
  BY <1>5, SceneFields DEF Settled, Deferred, Fields, TaskSets
<1> HIDE DEF y
<1>8. Scene(y, y.sq_live)
  BY <1>4, <1>5, <1>6, <1>7 DEF Scene, Open, Verdicts
<1>9. Open(y) = Open(x) /\ Busy(y) = Busy(x)
  BY <1>5, <1>6, <1>7 DEF Open, Busy
<1>10. y.sq_live \subseteq Open(x)
  BY <1>4, <1>5, <1>7, ReadyScene DEF Scene
<1>11. Rest(y)
  <2>1. NotBusy(y, Open(x)) /\ y.runq_complete \subseteq y.runq_running
    BY <1>6, <1>7, <1>9 DEF Ready, NotBusy
  <2>2. NotBusy(y, y.sq_live)
    BY <1>10, <2>1 DEF NotBusy
  <2>3. y.state = "Running" => Held(y, Open(y))
    BY <1>6, <1>7, <1>9 DEF Ready, Held
  <2> QED
    BY <1>8, <1>9, <2>1, <2>2, <2>3 DEF Rest
<1>12. Single(y, W, P, 0)
  <2>1. Single(y, worker, P, 0)
    BY <1>5, <1>7, <1>9, SingleKept
  <2>2. new[1] = t /\ new[2] = "setscene" /\ t \notin Busy(x) \union x.sq_live
    BY <1>4 DEF Busy
  <2> HIDE DEF new
  <2>3. \A v \in worker : v[1] # t
    BY <2>2 DEF Single
  <2>4. \A i \in (0+1)..Len(P) : IsExit(P[i]) => P[i].task # t
    BY <2>2 DEF Single
  <2>5. \A v, u \in W : v[1] = u[1] => v = u
    BY <2>1, <2>2, <2>3 DEF Single
  <2>6. \A v \in W : v[1] \in IF v[2] = "run" THEN Busy(y) ELSE y.sq_live
    BY <1>7, <2>1, <2>2 DEF Single
  <2>7. \A v \in W, i \in (0+1)..Len(P) : IsExit(P[i]) => P[i].task # v[1]
    BY <2>1, <2>2, <2>4 DEF Single
  <2> HIDE DEF W
  <2> QED
    BY <2>1, <2>5, <2>6, <2>7 DEF Single
<1>13. Rest(z) /\ Single(z, W, P, 0)
  BY <1>8, <1>11, <1>12, HoldoffRests, SingleKept DEF Busy
<1> HIDE DEF W, z
<1> QED
  BY <1>2, <1>3, <1>11, <1>12, <1>13, ReturnRests, ReadAndReturnRests

(* A task begins that is not held off: no open setscene task covers it. *)
LEMMA BeginRests ==
    ASSUME NEW z, Ready(z), ~z.holdoff_need_update, NEW t \in NextBuildable(z), NEW y,
           Scene(y, z.sq_live), y.sq_live = z.sq_live, Settled(y) = Settled(z),
           y.runq_running = z.runq_running \union {t}, y.runq_complete = z.runq_complete,
           y.holdoff_tasks = z.holdoff_tasks,
           y.holdoff_need_update = z.holdoff_need_update, y.state = z.state
    PROVE  /\ Rest(y)
           /\ t \notin z.sq_live /\ t \notin z.runq_running /\ t \notin z.runq_complete
           /\ Busy(y) = Busy(z) \union {t}
<1>1. t \notin z.runq_running /\ t \notin z.holdoff_tasks /\ t \notin z.runq_complete
  BY DEF NextBuildable, Ready
<1>2. \A u \in z.sq_live : t \notin {u} \union rqdata.sq_covered_tasks[u]
  BY <1>1 DEF Ready, Held
<1>3. z.state = "Running" =>
         \A u \in Open(z) : t \notin {u} \union rqdata.sq_covered_tasks[u]
  BY <1>1 DEF Ready, Held
<1>4. Busy(y) = Busy(z) \union {t} /\ Open(y) = Open(z)
  BY <1>1 DEF Busy, Open
<1>5. NotBusy(y, z.sq_live)
  BY <1>2, <1>4, ReadyRests DEF Rest, NotBusy
<1>6. z.state = "Running" => NotBusy(y, Open(z)) /\ Held(y, Open(z))
  BY <1>3, <1>4 DEF Ready, NotBusy, Held
<1>7. y.runq_complete \subseteq y.runq_running
  BY DEF Ready
<1> QED
  BY <1>1, <1>2, <1>4, <1>5, <1>6, <1>7 DEF Rest

(* A task that begins and is complete at once: y is the object then. *)
LEMMA PassesRests ==
    ASSUME SceneTables, NEW z, Ready(z), NEW P \in Seq(Messages), Single(z, worker, P, 0),
           NEW t, t \notin z.runq_running, NEW v, Rest(v), NEW y, Scene(y, y.sq_live),
           Calm(v, y), y.sq_live = z.sq_live,
           y.runq_running = z.runq_running \union {t},
           y.runq_complete = z.runq_complete \union {t}, Return(y, P)
    PROVE  EndsAtRest(worker)
<1>1. Rest(y)
  BY CalmRests
<1>2. Busy(y) = Busy(z)
  BY DEF Busy, Ready
<1> QED
  BY <1>1, <1>2, SingleKept, ReturnRests

LEMMA SkipTaskRests ==
    ASSUME SceneTables, NEW z, Ready(z), ~z.holdoff_need_update, NEW P \in Seq(Messages),
           Single(z, worker, P, 0), SkipTask(z, P)
    PROVE  EndsAtRest(worker')
<1>1. PICK t \in NextBuildable(z) :
         /\ Return([TaskSkip(z, t) EXCEPT
                     !.runq_tasksrun = IF t \in z.tasks_covered THEN @ ELSE @ \union {t}], P)
         /\ worker' = worker
  BY DEF SkipTask, NothingStarted
<1> DEFINE w == Setbuildable([z EXCEPT !.runq_running = @ \union {t}], {t})
           v == TaskCompleteoutright(w, t)
           y == [v EXCEPT
                  !.runq_tasksrun = IF t \in z.tasks_covered THEN @ ELSE @ \union {t}]
<1>2. Return(y, P)
  BY <1>1 DEF TaskSkip
<1>3. /\ Scene(w, z.sq_live) /\ w.sq_live = z.sq_live /\ Settled(w) = Settled(z)
      /\ w.runq_running = z.runq_running \union {t} /\ w.runq_complete = z.runq_complete
      /\ w.holdoff_tasks = z.holdoff_tasks
      /\ w.holdoff_need_update = z.holdoff_need_update /\ w.state = z.state
  BY ReadyScene DEF Setbuildable, Scene, Open, Settled, Deferred, Verdicts, Fields, TaskSets
<1> HIDE DEF w
<1>4. Rest(w) /\ t \notin z.runq_running
  BY <1>3, BeginRests
<1>5. /\ Scene(v, z.sq_live) /\ Calm(w, v) /\ v.sq_live = z.sq_live
      /\ v.runq_running = z.runq_running \union {t}
      /\ v.runq_complete = z.runq_complete \union {t}
  BY <1>3, SceneFields, CompleteTaskScene, CompleteTaskSets
<1> HIDE DEF v
<1>6. /\ Scene(y, z.sq_live) /\ Calm(v, y) /\ y.sq_live = z.sq_live
      /\ y.runq_running = v.runq_running /\ y.runq_complete = v.runq_complete
  BY <1>5, SceneFields DEF Scene, Calm, Open, Settled, Deferred, Verdicts, Fields, TaskSets
<1> HIDE DEF y
<1> QED
  BY <1>1, <1>2, <1>4, <1>5, <1>6, CalmTransitive, PassesRests

LEMMA CompleteNoexecRests ==
    ASSUME SceneTables, NEW z, Ready(z), ~z.holdoff_need_update, NEW P \in Seq(Messages),
           Single(z, worker, P, 0), CompleteNoexec(z, P)
    PROVE  EndsAtRest(worker')
<1>1. PICK t \in NextBuildable(z) :
         /\ Return(TaskComplete([z EXCEPT !.runq_running = @ \union {t},
                                          !.active = @ + 1], t), P)
         /\ worker' = worker
  BY DEF CompleteNoexec
<1> DEFINE w == [z EXCEPT !.runq_running = @ \union {t}, !.active = @ + 1]
           y == TaskComplete(w, t)
<1>2. Return(y, P)
  BY <1>1
<1>3. /\ Scene(w, z.sq_live) /\ w.sq_live = z.sq_live /\ Settled(w) = Settled(z)
      /\ w.runq_running = z.runq_running \union {t} /\ w.runq_complete = z.runq_complete
      /\ w.holdoff_tasks = z.holdoff_tasks
      /\ w.holdoff_need_update = z.holdoff_need_update /\ w.state = z.state
  BY ReadyScene DEF Scene, Open, Settled, Deferred, Verdicts, Fields, TaskSets
<1> HIDE DEF w
<1>4. Rest(w) /\ t \notin z.runq_running
  BY <1>3, BeginRests
<1>5. /\ Scene(y, z.sq_live) /\ Calm(w, y) /\ y.sq_live = z.sq_live
      /\ y.runq_running = z.runq_running \union {t}
      /\ y.runq_complete = z.runq_complete \union {t}
  BY <1>3, SceneFields, TaskCompleteScene, TaskCompleteSets
<1> HIDE DEF y
<1> QED
  BY <1>1, <1>2, <1>4, <1>5, PassesRests

LEMMA FailUnexpectedRests ==
    ASSUME SceneTables, NEW z, Ready(z), NEW P \in Seq(Messages), Single(z, worker, P, 0),
           FailUnexpected(z, P)
    PROVE  EndsAtRest(worker')
<1>1. PICK t : Return(TaskFail(z, t), P) /\ worker' = worker
  BY DEF FailUnexpected, NothingStarted
<1>2. /\ Scene(TaskFail(z, t), z.sq_live) /\ Calm(z, TaskFail(z, t))
      /\ SameRuns(z, TaskFail(z, t))
  BY ReadyScene, TaskFailScene, TaskFailRuns
<1> QED
  BY <1>1, <1>2, SettlingRests

LEMMA StartTaskRests ==
    ASSUME SceneTables, NEW z, Ready(z), ~z.holdoff_need_update, NEW P \in Seq(Messages),
           Single(z, worker, P, 0), StartTask(z, P)
    PROVE  EndsAtRest(worker')
<1>1. PICK t \in NextBuildable(z) :
         LET y == [z EXCEPT !.runq_running = @ \union {t}, !.active = @ + 1]
         IN  /\ IF CanStartTask(y) THEN Return(y, P) ELSE ReadAndReturn(y, P)
             /\ Runtask(t, "run", z)
  BY DEF StartTask
<1> DEFINE y == [z EXCEPT !.runq_running = @ \union {t}, !.active = @ + 1]
           new == <<t, "run", z.unihash[t]>>
           W == worker \union {new}
<1>2. worker' = W
  BY <1>1 DEF Runtask
<1>3. Return(y, P) \/ ReadAndReturn(y, P)
  BY <1>1
<1>4. /\ Scene(y, z.sq_live) /\ y.sq_live = z.sq_live /\ Settled(y) = Settled(z)
      /\ y.runq_running = z.runq_running \union {t} /\ y.runq_complete = z.runq_complete
      /\ y.holdoff_tasks = z.holdoff_tasks
      /\ y.holdoff_need_update = z.holdoff_need_update /\ y.state = z.state
  BY ReadyScene DEF Scene, Open, Settled, Deferred, Verdicts, Fields, TaskSets
<1> HIDE DEF y
<1>5. Rest(y) /\ t \notin Busy(z) \union z.sq_live /\ Busy(y) = Busy(z) \union {t}
  BY <1>4, BeginRests DEF Busy
<1>6. Single(y, W, P, 0)
  <2>1. Single(y, worker, P, 0)
    BY <1>4, <1>5, SingleKept
  <2>2. new[1] = t /\ new[2] = "run" /\ t \in Busy(y)
    BY <1>5
  <2> HIDE DEF new
  <2>3. \A v \in worker : v[1] # t
    BY <1>5 DEF Single
  <2>4. \A i \in (0+1)..Len(P) : IsExit(P[i]) => P[i].task # t
    BY <1>5 DEF Single
  <2>5. \A v, u \in W : v[1] = u[1] => v = u
    BY <2>1, <2>2, <2>3 DEF Single
  <2>6. \A v \in W : v[1] \in IF v[2] = "run" THEN Busy(y) ELSE y.sq_live
    BY <2>1, <2>2 DEF Single
  <2>7. \A v \in W, i \in (0+1)..Len(P) : IsExit(P[i]) => P[i].task # v[1]
    BY <2>1, <2>2, <2>4 DEF Single
  <2> HIDE DEF W
  <2> QED
    BY <2>1, <2>5, <2>6, <2>7 DEF Single
<1> HIDE DEF W
<1> QED
  BY <1>2, <1>3, <1>5, <1>6, ReturnRests, ReadAndReturnRests

LEMMA NoTaskFoundRests ==
    ASSUME SceneTables, NEW z, Ready(z), NEW P \in Seq(Messages), Single(z, worker, P, 0),
           NoTaskFound(z, P)
    PROVE  EndsAtRest(worker')
<1> DEFINE s == IF \/ z.failed_tids # {}
                   \/ ScenequeueErrors(z)
                   \/ NeverFinished(z) # {}
                THEN "Failed" ELSE "Complete"
           y == [z EXCEPT !.state = s]
<1>1. /\ worker' = worker
      /\ \/ ReadAndReturn(z, P)
         \/ \E t \in Deferred(z) : Return(Undefer(z, {t}), P)
         \/ Return(y, P)
  BY DEF NoTaskFound, NothingStarted
<1>2. s # "Running"
  OBVIOUS
<1> HIDE DEF s
<1>3. CASE ReadAndReturn(z, P)
  BY <1>1, <1>3, ReadyRests, ReadAndReturnRests
<1>4. CASE \E t \in Deferred(z) : Return(Undefer(z, {t}), P)
  <2>1. PICK t : Return(Undefer(z, {t}), P)
    BY <1>4
  <2>2. /\ Scene(Undefer(z, {t}), z.sq_live) /\ Calm(z, Undefer(z, {t}))
        /\ SameRuns(z, Undefer(z, {t}))
    BY ReadyScene, UndeferScene, UndeferRuns
  <2> QED
    BY <1>1, <2>1, <2>2, SettlingRests
<1>5. CASE Return(y, P)
  <2>1. Scene(y, z.sq_live) /\ Calm(z, y) /\ Busy(y) = Busy(z) /\ y.sq_live = z.sq_live
    BY <1>2, ReadyScene, StateScene
  <2> HIDE DEF y
  <2> QED
    BY <1>1, <1>5, <2>1, ReadyRests, CalmRests, SingleKept, ReturnRests
<1> QED
  BY <1>1, <1>3, <1>4, <1>5

LEMMA ExecuteTasksRests ==
    ASSUME SceneTables, NEW x, Ready(x), NEW P \in Seq(Messages), Single(x, worker, P, 0),
           ExecuteTasks(x, P)
    PROVE  EndsAtRest(worker')
<1> DEFINE y == UpdateHoldofftasks(x)
           errors == ScenequeueErrors(y)
           sqdone == ~errors /\ ~SetsceneOnly
           state == IF errors THEN "Failed"
                    ELSE IF SetsceneOnly THEN "Complete" ELSE y.state
           e == [y EXCEPT !.sqdone = sqdone, !.state = state]
           z == EndSceneQueue(y)
<1>1. /\ Ready(y) /\ ~y.holdoff_need_update
      /\ Busy(y) = Busy(x) /\ y.sq_live = x.sq_live
  BY ReadyScene, HoldoffRests DEF Busy
<1>2. \/ Return(z, P) /\ NothingStarted
      \/ SkipTask(z, P)
      \/ FailUnexpected(z, P)
      \/ CompleteNoexec(z, P)
      \/ StartTask(z, P)
      \/ NoTaskFound(z, P)
  BY DEF ExecuteTasks
<1> HIDE DEF y
<1>3. z = y \/ z = e
  BY DEF EndSceneQueue
<1>4. state = "Running" => y.state = "Running"
  OBVIOUS
<1> HIDE DEF errors, sqdone, state, z
<1>5. /\ Scene(e, y.sq_live) /\ Calm(y, e) /\ Busy(e) = Busy(y) /\ e.sq_live = y.sq_live
      /\ ~e.holdoff_need_update
  BY <1>1, <1>4, ReadyScene DEF Scene, Calm, Busy, Open, Settled, Deferred, Verdicts, Fields, TaskSets
<1> HIDE DEF e
<1>6. Ready(e)
  BY <1>1, <1>5, CalmRests
<1>7. Ready(z) /\ ~z.holdoff_need_update /\ Single(z, worker, P, 0)
  BY <1>1, <1>3, <1>5, <1>6, SingleKept
<1>8. CASE Return(z, P) /\ NothingStarted
  BY <1>7, <1>8, ReadyRests, ReturnRests DEF NothingStarted
<1> QED
  BY <1>2, <1>7, <1>8, SkipTaskRests, FailUnexpectedRests, CompleteNoexecRests,
     StartTaskRests, NoTaskFoundRests

-----------------------------------------------------------------------------
(* Migrations, with no hard dependencies *)

LEMMA ApplyUpdatesScene ==
    ASSUME NEW x, Scene(x, x.sq_live), Soft
    PROVE  LET y == ApplyUpdates(x).x
           IN  Scene(y, x.sq_live) /\ Calm(x, y)
<1> DEFINE visit(acc, e) ==
            IF e[2] = acc.unihash[e[1]] THEN acc
            ELSE LET torehash == {e[1]} \union
                        {d \in Deferred(x) : x.sq_deferred[d] = e[1]}
                 IN  [unihash |-> [t \in Tasks |-> IF t \in torehash THEN e[2]
                                                   ELSE acc.unihash[t]],
                      toprocess |-> acc.toprocess \union torehash]
           applied == FoldLeft(visit, [unihash |-> x.unihash, toprocess |-> {}],
                               SelectSeq(x.updated_taskhash_queue,
                                         LAMBDA e : Processable(x, e)))
           queue == SelectSeq(x.updated_taskhash_queue, LAMBDA e : ~Processable(x, e))
           y == [x EXCEPT !.unihash = applied.unihash, !.updated_taskhash_queue = queue]
<1>1. ApplyUpdates(x).x = y
  BY DEF ApplyUpdates
<1> HIDE DEF applied, queue
<1>2. Scene(y, x.sq_live) /\ Calm(x, y)
  BY DEF Scene, Calm, Open, Settled, Deferred, Verdicts, Fields, TaskSets
<1> QED
  BY <1>1, <1>2

LEMMA RehashScene ==
    ASSUME NEW x, NEW L, Scene(x, L), Soft, NEW changed, NEW nu
    PROVE  Scene(Rehash(x, changed, nu), L) /\ Calm(x, Rehash(x, changed, nu))
<1> DEFINE y == Rehash(x, changed, nu)
<1>1. y.pending_migrations = x.pending_migrations \union (changed \intersect rqdata.setscene)
  BY DEF Rehash, Scene, Fields, TaskSets
<1>2. /\ DOMAIN y = Fields
      /\ Settled(y) = Settled(x) /\ Deferred(y) = Deferred(x)
      /\ y.sq_running = x.sq_running /\ y.sq_buildable = x.sq_buildable
      /\ y.scenequeue_covered = x.scenequeue_covered
      /\ y.scenequeue_notcovered = x.scenequeue_notcovered
      /\ y.tasks_covered = x.tasks_covered /\ y.tasks_notcovered = x.tasks_notcovered
  BY DEF Rehash, Scene, Settled, Deferred, Fields, TaskSets
<1>3. Calm(x, y)
  BY <1>2 DEF Rehash, Scene, Calm, Fields, TaskSets
<1> HIDE DEF y
<1>4. y.pending_migrations \subseteq rqdata.setscene
  BY <1>1 DEF Scene
<1>5. Scene(y, L)
  <2>1. L \subseteq Open(y) \intersect y.sq_running \intersect y.sq_buildable
    BY <1>2 DEF Scene, Open
  <2>2. L \intersect Deferred(y) = {} /\ Settled(y) \subseteq y.sq_running
    BY <1>2 DEF Scene
  <2>3. y.sq_buildable \union y.pending_migrations \union Deferred(y) \subseteq rqdata.setscene
    BY <1>2, <1>4 DEF Scene
  <2>4. \A t, d \in rqdata.setscene :
          d \in rqdata.harddeps[t] /\ d \in y.sq_buildable => {t, d} \intersect Settled(y) # {}
    BY <1>2 DEF Scene
  <2>5. Apart => Verdicts(y)
    BY <1>2 DEF Scene, Verdicts
  <2> QED
    BY <1>2, <2>1, <2>2, <2>3, <2>4, <2>5 DEF Scene
<1> QED
  BY <1>3, <1>5 DEF y

LEMMA DeferTwinsScene ==
    ASSUME NEW x, NEW L, Scene(x, L), NEW tids \in SUBSET rqdata.setscene,
           tids \intersect L = {}, tids \intersect x.scenequeue_notcovered = {}, Soft
    PROVE  /\ Scene(DeferTwins(x, tids), L) /\ Calm(x, DeferTwins(x, tids))
           /\ DeferTwins(x, tids).scenequeue_notcovered = x.scenequeue_notcovered
<1> DEFINE y == DeferTwins(x, tids)
           deferred == [t \in Deferred(x) \union
                           {t \in tids : HashOwner(rqdata, t, x.unihash[t]) # t} |->
                         IF t \in tids /\ HashOwner(rqdata, t, x.unihash[t]) # t
                         THEN HashOwner(rqdata, t, x.unihash[t]) ELSE x.sq_deferred[t]]
<1>1. y = [x EXCEPT !.sq_deferred = deferred]
  BY DEF DeferTwins
<1>2. DOMAIN deferred \subseteq Deferred(x) \union tids
  OBVIOUS
<1> HIDE DEF deferred, y
<1>3. /\ DOMAIN y = Fields
      /\ Settled(y) = Settled(x) /\ Deferred(y) = DOMAIN deferred
      /\ y.sq_running = x.sq_running /\ y.sq_buildable = x.sq_buildable
      /\ y.pending_migrations = x.pending_migrations
      /\ y.updated_taskhash_queue = x.updated_taskhash_queue
      /\ y.scenequeue_covered = x.scenequeue_covered
      /\ y.scenequeue_notcovered = x.scenequeue_notcovered
      /\ y.tasks_covered = x.tasks_covered /\ y.tasks_notcovered = x.tasks_notcovered
  BY <1>1 DEF Scene, Settled, Deferred, Fields, TaskSets
<1>4. Calm(x, y)
  BY <1>1, <1>3 DEF Scene, Calm, Fields, TaskSets
<1>5. Apart => Verdicts(y)
  BY <1>2, <1>3 DEF Scene, Verdicts
<1>6. Scene(y, L)
  BY <1>2, <1>3, <1>5 DEF Scene, Open
<1> QED
  BY <1>3, <1>4, <1>6 DEF y

(* The verdict that is taken back is that of a task which is not running, and
   none of whose covered tasks is: what opens is at rest. *)
LEMMA MigrateScene ==
    ASSUME NEW x, Ready(x), Soft, NEW rank
    PROVE  LET mig == Migrate(x, rank)
               y == mig.x
           IN  /\ Scene(y, y.sq_live) /\ y.runq_complete \subseteq y.runq_running
               /\ NotBusy(y, Open(y)) /\ Held(y, y.sq_live)
               /\ mig.halted => y.state = "CleanUp"
               /\ ~mig.halted /\ mig.update = {} => Ready(y)
               /\ mig.update \in SUBSET rqdata.setscene
               /\ mig.update \intersect (y.sq_live \union y.scenequeue_notcovered) = {}
               /\ mig.hardfail = {}
<1> DEFINE lookedAt == LookedAt(x, rank)
           lost == {t \in lookedAt : Lost(x, t)}
           update == lookedAt \ lost
           before(t) == {u \in update : rank[u] < rank[t]}
           pending == {t \in x.pending_migrations \ lookedAt :
                          TooLate(x, t) => \E u \in lost : rank[u] < rank[t]}
           done == (x.tasks_scenequeue_done \ lookedAt) \
                      ((UNION {rqdata.sq_covered_tasks[t] : t \in update})
                          \ (x.runq_complete \union rqdata.unskippable))
           migratable == {t \in update : Migratable(x, t, before(t))}
           hardfail == {t \in update : HarddepFail(x, t, before(t))}
           state == IF lost # {} THEN "CleanUp" ELSE x.state
           y == [x EXCEPT
                   !.pending_migrations = pending,
                   !.tasks_scenequeue_done = done,
                   !.sq_buildable = (@ \ update) \union migratable,
                   !.sq_running = @ \ update,
                   !.outrightfail = @ \ update,
                   !.scenequeue_notcovered = @ \ update,
                   !.scenequeue_covered = @ \ update,
                   !.scenequeue_notneeded = @ \ update,
                   !.failed_tids = @ \union lost,
                   !.state = state]
<1>1. /\ Migrate(x, rank).x = y /\ Migrate(x, rank).update = update
      /\ Migrate(x, rank).hardfail = hardfail /\ Migrate(x, rank).halted = (lost # {})
  BY DEF Migrate
<1>2. /\ update \subseteq x.pending_migrations
      /\ update \intersect (x.runq_running \union x.sq_live) = {}
      /\ \A t \in update : rqdata.sq_covered_tasks[t] \intersect Busy(x) = {}
  BY DEF LookedAt, TooLate, Blocked, Busy
<1>3. update \subseteq rqdata.setscene
  BY <1>2, ReadyScene DEF Scene
<1>4. hardfail = {}
  BY DEF HarddepFail, Soft
<1>5. /\ lost # {} => state = "CleanUp"
      /\ lost = {} => state = x.state
      /\ migratable \subseteq update /\ pending \subseteq x.pending_migrations
  OBVIOUS
<1> HIDE DEF lookedAt, lost, update, pending, done, migratable, state, hardfail
<1>6. /\ DOMAIN y = Fields
      /\ y.sq_live = x.sq_live /\ Deferred(y) = Deferred(x)
      /\ y.runq_running = x.runq_running /\ y.runq_complete = x.runq_complete
      /\ Settled(y) = Settled(x) \ update
      /\ y.sq_running = x.sq_running \ update
      /\ y.sq_buildable = (x.sq_buildable \ update) \union migratable
      /\ y.pending_migrations = pending
      /\ y.updated_taskhash_queue = x.updated_taskhash_queue
      /\ y.scenequeue_covered = x.scenequeue_covered \ update
      /\ y.scenequeue_notcovered = x.scenequeue_notcovered \ update
      /\ y.tasks_covered = x.tasks_covered /\ y.tasks_notcovered = x.tasks_notcovered
      /\ y.holdoff_tasks = x.holdoff_tasks
      /\ y.holdoff_need_update = x.holdoff_need_update /\ y.state = state
  BY ReadyScene DEF Settled, Deferred, Fields, TaskSets
<1> HIDE DEF y
<1>7. Open(y) = Open(x) \union update /\ Busy(y) = Busy(x)
  BY <1>3, <1>6 DEF Open, Busy
<1>8. Scene(y, y.sq_live)
  <2>1. Scene(x, x.sq_live)
    BY ReadyScene
  <2>2. Apart => Verdicts(y)
    BY <2>1, <1>6 DEF Scene, Verdicts
  <2>3. \A t, d \in rqdata.setscene :
           d \in rqdata.harddeps[t] /\ d \in y.sq_buildable => {t, d} \intersect Settled(y) # {}
    BY DEF Soft
  <2> QED
    BY <2>1, <2>2, <2>3, <1>2, <1>3, <1>5, <1>6, <1>7 DEF Scene
<1>9. NotBusy(y, Open(y))
  BY <1>2, <1>6, <1>7 DEF Ready, NotBusy
<1>10. Held(y, y.sq_live) /\ y.runq_complete \subseteq y.runq_running
  BY <1>6 DEF Ready, Held
<1>11. lost = {} /\ update = {} => Ready(y)
  BY <1>5, <1>6, <1>7, <1>8, <1>9, <1>10 DEF Ready, Held
<1> QED
  BY <1>1, <1>2, <1>3, <1>4, <1>5, <1>6, <1>8, <1>9, <1>10, <1>11

LEMMA MigrationsReady ==
    ASSUME SceneTables, NEW x, Ready(x), Soft, NEW y \in ProcessPossibleMigrations(x)
    PROVE  Ready(y)
<1> DEFINE v == ApplyUpdates(x).x
           changed(nu) == {t \in Tasks \ (v.scenequeue_covered \union v.sq_live) :
                              nu[t] # v.unihash[t]}
<1>1. Scene(v, x.sq_live) /\ Calm(x, v) /\ v.sq_live = x.sq_live
  BY ReadyScene, ApplyUpdatesScene, ApplyUpdatesRuns DEF SameRuns
<1>2. PICK nu, rank : y = Migrated(Migrate(Rehash(v, changed(nu), nu), rank), changed(nu) # {})
  BY DEF ProcessPossibleMigrations, Migrations
<1> DEFINE w == Rehash(v, changed(nu), nu)
           mig == Migrate(w, rank)
           rehashed == changed(nu) # {}
           m == mig.x
<1> HIDE DEF v, changed
<1>3. Scene(w, x.sq_live) /\ Calm(v, w) /\ w.sq_live = v.sq_live
  BY <1>1, SceneFields, RehashScene, RehashRuns DEF SameRuns
<1>4. Ready(w)
  BY <1>1, <1>3, CalmRests
<1> HIDE DEF w, rehashed
<1>5. /\ Scene(m, m.sq_live) /\ m.runq_complete \subseteq m.runq_running
      /\ NotBusy(m, Open(m)) /\ Held(m, m.sq_live)
      /\ mig.halted => m.state = "CleanUp"
      /\ ~mig.halted /\ mig.update = {} => Ready(m)
      /\ mig.update \in SUBSET rqdata.setscene
      /\ mig.update \intersect (m.sq_live \union m.scenequeue_notcovered) = {}
      /\ mig.hardfail = {}
  BY <1>4, MigrateScene
<1> HIDE DEF mig
<1>6. Scene(LookAgain(mig), m.sq_live) /\ Calm(m, LookAgain(mig)) /\ LookAgain(mig).sq_live = m.sq_live
  <2> DEFINE a == [m EXCEPT !.sqdone = FALSE]
             b == DeferTwins(a, mig.update)
             c == UpdateScenequeueData(b, mig.update)
             d == SqTaskFailoutright(c, mig.hardfail)
  <2>1. LookAgain(mig) = d
    BY DEF LookAgain
  <2>2. /\ Scene(a, m.sq_live) /\ Calm(m, a) /\ SameRuns(m, a)
        /\ a.scenequeue_notcovered = m.scenequeue_notcovered
    BY <1>5, SceneFields DEF Scene, Calm, Open, Settled, Deferred, Verdicts, SameRuns, Honest, Fields, TaskSets
  <2> HIDE DEF a, m
  <2>3. /\ Scene(b, m.sq_live) /\ Calm(a, b) /\ SameRuns(a, b)
        /\ b.scenequeue_notcovered = m.scenequeue_notcovered
    BY <1>5, <2>2, SceneFields, DeferTwinsScene, DeferTwinsRuns
  <2> HIDE DEF b
  <2>4. Scene(c, m.sq_live) /\ Calm(b, c) /\ SameRuns(b, c)
    BY <1>5, <2>3, SceneFields, UpdateDataScene, UpdateDataRuns
  <2> HIDE DEF c
  <2>5. Scene(d, m.sq_live) /\ Calm(c, d) /\ SameRuns(c, d)
    BY <1>5, <2>4, SceneFields, FailoutrightScene, FailoutrightRuns
  <2> HIDE DEF d
  <2>6. Calm(m, d)
    BY <2>2, <2>3, <2>4, <2>5, CalmTransitive
  <2> QED
    BY <2>1, <2>2, <2>3, <2>4, <2>5, <2>6 DEF SameRuns
<1> DEFINE l == IF mig.update = {} THEN m ELSE LookAgain(mig)
           need == l.holdoff_need_update \/ rehashed \/ mig.update # {}
           z == [l EXCEPT !.holdoff_need_update = need]
<1>7. y = IF mig.halted THEN m ELSE z
  BY <1>2 DEF Migrated, mig, w, rehashed
<1>8. /\ Scene(l, l.sq_live) /\ Calm(m, l)
      /\ l.runq_complete \subseteq l.runq_running
  <2>1. Calm(m, m)
    BY DEF Calm
  <2> QED
    BY <1>5, <1>6, <2>1 DEF Calm
<1> HIDE DEF l
<1>9. l.holdoff_need_update => need
  OBVIOUS
<1>9a. mig.update # {} => need
  OBVIOUS
<1> HIDE DEF need
<1>10. /\ Scene(z, z.sq_live) /\ Calm(l, z)
       /\ z.holdoff_need_update = need
  BY <1>8, <1>9, SceneFields DEF Scene, Calm, Open, Settled, Deferred, Verdicts, Fields, TaskSets
<1> HIDE DEF z
<1>11. Calm(m, z)
  BY <1>8, <1>10, CalmTransitive
<1>12. CASE mig.halted
  BY <1>5, <1>7, <1>12 DEF Ready
<1>13. CASE ~mig.halted /\ mig.update = {}
  BY <1>5, <1>7, <1>10, <1>11, <1>13, CalmRests
<1>14. CASE ~mig.halted /\ mig.update # {}
  <2>1. z.sq_live \subseteq m.sq_live /\ Open(z) \subseteq Open(m)
    BY <1>11 DEF Calm, Open
  <2>2. NotBusy(z, Open(z))
    BY <1>5, <1>11, <2>1, CalmKeeps
  <2>3. Held(z, z.sq_live) /\ Held(z, Open(z))
    BY <1>9a, <1>10, <1>14 DEF Held
  <2>4. z.runq_complete \subseteq z.runq_running
    BY <1>5, <1>11 DEF Calm
  <2> QED
    BY <1>7, <1>10, <1>14, <2>2, <2>3, <2>4 DEF Ready
<1> QED
  BY <1>12, <1>13, <1>14

-----------------------------------------------------------------------------
(* A step *)

LEMMA ExecuteRests ==
    ASSUME SceneTables, pipe \in Seq(Messages), Rest(rqexe),
           Single(rqexe, worker, pipe, 0), Execute
    PROVE  EndsAtRest(worker')
<1>1. PICK n \in 0..Len(pipe) :
      \E x \in IF \/ ReadWorkers(rqexe, pipe, n).updated_taskhash_queue # <<>>
                 \/ ReadWorkers(rqexe, pipe, n).pending_migrations # {}
              THEN ProcessPossibleMigrations(ReadWorkers(rqexe, pipe, n))
              ELSE {ReadWorkers(rqexe, pipe, n)} :
         \/ SkipNotNeeded(x, SubSeq(pipe, n + 1, Len(pipe)))
         \/ RefuseSetscene(x, SubSeq(pipe, n + 1, Len(pipe)))
         \/ SetsceneStamped(x, SubSeq(pipe, n + 1, Len(pipe)))
         \/ StartSetscene(x, SubSeq(pipe, n + 1, Len(pipe)))
         \/ ExecuteTasks(x, SubSeq(pipe, n + 1, Len(pipe)))
  BY DEF Execute
<1> DEFINE read == ReadWorkers(rqexe, pipe, n)
           Q == SubSeq(pipe, n + 1, Len(pipe))
<1>2. PICK x : /\ \/ x = read
                  \/ /\ read.updated_taskhash_queue # <<>> \/ read.pending_migrations # {}
                     /\ x \in ProcessPossibleMigrations(read)
               /\ \/ SkipNotNeeded(x, Q)
                  \/ RefuseSetscene(x, Q)
                  \/ SetsceneStamped(x, Q)
                  \/ StartSetscene(x, Q)
                  \/ ExecuteTasks(x, Q)
  BY <1>1
<1>3. Ready(rqexe)
  BY DEF Execute, Rest, Ready, Scene, Held
<1>4. /\ Scene(read, read.sq_live) /\ Calm(rqexe, read)
      /\ Single(read, worker, pipe, n)
  BY ReadWorkersScene DEF Rest
<1> HIDE DEF read
<1>5. Q \in Seq(Messages) /\ Single(read, worker, Q, 0)
  BY <1>4, UnreadSingle
<1> HIDE DEF Q
<1>6. Ready(read)
  BY <1>3, <1>4, CalmRests
<1>7. Ready(x) /\ Single(x, worker, Q, 0)
  <2>1. CASE x = read
    BY <1>5, <1>6, <2>1
  <2>2. CASE /\ read.updated_taskhash_queue # <<>> \/ read.pending_migrations # {}
             /\ x \in ProcessPossibleMigrations(read)
    <3>1. Soft
      BY <1>4, <2>2 DEF Scene
    <3>2. Ready(x)
      BY <1>6, <2>2, <3>1, MigrationsReady
    <3>3. SameRuns(read, x)
      BY <1>4, <2>2, SceneFields, MigrationsRuns
    <3>4. Busy(x) = Busy(read) /\ x.sq_live = read.sq_live
      BY <3>3 DEF SameRuns, Busy
    <3> QED
      BY <1>5, <3>2, <3>4, SingleKept
  <2> QED
    BY <1>2, <2>1, <2>2
<1> QED
  BY <1>2, <1>5, <1>7, SkipNotNeededRests, RefuseSetsceneRests, SetsceneStampedRests,
     StartSetsceneRests, ExecuteTasksRests

(* The inductive invariant; without hard dependencies or without reports of
   new hashes. *)
SceneInv ==
    /\ SceneTables
    /\ Rest(rqexe)
    /\ Single(rqexe, worker, pipe, 0)
    /\ \/ Soft
       \/ MaxReports = 0 /\ reports = {}

(* In every queue no setscene task needs the setscene variant of another, or
   no task reports a changed hash. *)
NoHardMigration ==
    \/ \A q \in RunQueues : \A t \in q.setscene : q.harddeps[t] = {}
    \/ MaxReports = 0

LEMMA InitScene == ASSUME NoHardMigration, Init PROVE SceneInv
<1>1. PICK q \in RunQueues : rqdata = BuildScenequeueData(q)
  BY DEF Init
<1>2. {"depends", "setscene", "harddeps", "twin", "revdeps",
       "sq_covered_tasks", "sq_revdeps", "sq_deps"} \subseteq DOMAIN q
  BY QueuesAssumption
<1> DEFINE revdeps == [t \in Tasks |-> Revdeps(q, t)]
           covers == [t \in q.setscene |-> SqCoveredTasks(q, t)]
           sqrevdeps == [t \in q.setscene |-> SqRevdeps(q, t)]
           sqdeps == [t \in q.setscene |-> SqDeps(q, t)]
           cantskip == CantSkip(q)
           unskippable == Unskippable(q)
<1>3. rqdata = [q EXCEPT !.revdeps = revdeps,
                         !.sq_covered_tasks = covers,
                         !.sq_revdeps = sqrevdeps,
                         !.sq_deps = sqdeps,
                         !.cantskip = cantskip,
                         !.unskippable = unskippable]
  BY <1>1 DEF BuildScenequeueData
<1>4. \A t \in q.setscene : sqdeps[t] \subseteq q.setscene
  BY DEF SqDeps
<1>5. \A t, d \in q.setscene : d \in q.harddeps[t] => t \in sqrevdeps[d]
  BY DEF SqRevdeps
<1> HIDE DEF revdeps, covers, sqrevdeps, sqdeps, cantskip, unskippable
<1>6. /\ rqdata.setscene = q.setscene /\ rqdata.harddeps = q.harddeps
      /\ rqdata.sq_revdeps = sqrevdeps /\ rqdata.sq_deps = sqdeps
  BY <1>2, <1>3
<1>7. SceneTables
  BY <1>4, <1>5, <1>6 DEF SceneTables
<1>8. Soft \/ MaxReports = 0
  BY <1>6 DEF NoHardMigration, Soft
<1> DEFINE x == NewRunQueueExecute
           y == UpdateScenequeueData(x, rqdata.setscene)
<1>9. /\ DOMAIN x = Fields
      /\ x.sq_buildable = {t \in rqdata.setscene : rqdata.sq_revdeps[t] = {}}
      /\ x.sq_live = {} /\ Settled(x) = {} /\ Deferred(x) \subseteq rqdata.setscene
      /\ x.updated_taskhash_queue = <<>> /\ x.pending_migrations = {}
      /\ x.runq_running = {} /\ x.runq_complete = {}
      /\ x.holdoff_need_update
      /\ x.scenequeue_covered = {} /\ x.scenequeue_notcovered = {}
      /\ x.tasks_covered = {}
      /\ Deferred(x) = {u \in rqdata.setscene : HashOwner(rqdata, u, FirstHash) # u}
  BY DEF NewRunQueueExecute, Settled, Deferred, Fields, TaskSets
<1> HIDE DEF x
<1>10. Scene(x, {})
  <2>1. NoTwins => \A u \in rqdata.setscene : HashOwner(rqdata, u, FirstHash) = u
    BY DEF HashOwner, NoTwins
  <2>2. Apart => Verdicts(x)
    BY <1>9, <2>1 DEF Apart, Verdicts
  <2> QED
    BY <1>7, <1>9, <2>2 DEF Scene, SceneTables
<1>11. Scene(y, {}) /\ Calm(x, y) /\ SameRuns(x, y)
  BY <1>7, <1>9, <1>10, UpdateDataScene, UpdateDataRuns
<1>12. rqexe = y /\ worker = {} /\ pipe = <<>> /\ reports = {}
  BY DEF Init, x
<1> HIDE DEF y
<1>13. Rest(y)
  BY <1>9, <1>11 DEF Rest, Calm, SameRuns, NotBusy, Held, Busy
<1>14. Single(rqexe, worker, pipe, 0)
  <2>1. (0+1)..Len(pipe) = {}
    BY <1>12
  <2> QED
    BY <1>12, <2>1 DEF Single
<1> QED
  BY <1>7, <1>8, <1>12, <1>13, <1>14 DEF SceneInv

(* With the tables unchanged what is at rest stays so. *)
LEMMA RestKept ==
    ASSUME SceneInv, UNCHANGED rqdata, EndsAtRest(worker'),
           Soft \/ reports' = reports
    PROVE  SceneInv'
<1>1. SceneTables' /\ (Soft' <=> Soft)
  BY DEF SceneInv, SceneTables, Soft
<1>1a. (Apart' <=> Apart) /\ (Verdicts(rqexe)' <=> Verdicts(rqexe'))
  BY <1>1 DEF Apart, NoTwins, Verdicts, Deferred
<1>2. Rest(rqexe)'
  BY <1>1, <1>1a DEF EndsAtRest, Rest, Scene, NotBusy, Held, Open, Busy, Settled, Deferred
<1>3. Single(rqexe, worker, pipe, 0)'
  BY <1>1 DEF EndsAtRest, Single, Busy
<1> QED
  BY <1>1, <1>2, <1>3 DEF SceneInv

LEMMA ReportScene ==
    ASSUME pipe \in Seq(Messages), SceneInv, NEW t \in Tasks, NEW h \in Hashes,
           ReportUnihash(t, h)
    PROVE  EndsAtRest(worker') /\ Soft
<1> DEFINE m == [kind |-> "unihash", task |-> t, unihash |-> h]
           new == <<t, "run", h>>
           W == worker'
           Q == pipe'
<1>1. PICK w \in worker : /\ w[1] = t /\ w[2] = "run"
                          /\ worker' = (worker \ {w}) \union {new}
                          /\ pipe' = Append(pipe, m)
                          /\ rqexe' = rqexe
                          /\ Cardinality(reports) < MaxReports
  BY DEF ReportUnihash
<1>2. m \in Messages /\ ~IsExit(m) /\ new[1] = t /\ new[2] = "run"
  BY DEF Messages, IsExit
<1>3. Soft
  <2>1. SUFFICES ASSUME ~Soft
                 PROVE  FALSE
    OBVIOUS
  <2>2. MaxReports = 0 /\ reports = {}
    BY <2>1 DEF SceneInv
  <2>3. Cardinality({}) = 0
    BY FS_EmptySet, Zenon
  <2>4. Cardinality(reports) = 0
    BY <2>2, <2>3, Zenon
  <2>5. 0 < 0
    BY <1>1, <2>2, <2>4, Zenon
  <2>6. QED
    BY <2>5, SMT
<1> HIDE DEF m, new
<1>4. /\ pipe' \in Seq(Messages)
      /\ \A i \in (0+1)..Len(pipe') : IsExit(pipe'[i]) => i \in (0+1)..Len(pipe) /\ pipe'[i] = pipe[i]
  BY <1>1, <1>2
<1>5. t \in Busy(rqexe)
  BY <1>1 DEF SceneInv, Single
<1>6. \A v \in W : v = new \/ (v \in worker /\ v[1] # t)
  BY <1>1 DEF SceneInv, Single
<1>7. \A u, v \in W : u[1] = v[1] => u = v
  BY <1>2, <1>6 DEF SceneInv, Single
<1>8. \A v \in W : v[1] \in IF v[2] = "run" THEN Busy(rqexe) ELSE rqexe.sq_live
  BY <1>2, <1>5, <1>6 DEF SceneInv, Single
<1>9. \A v \in W, i \in (0+1)..Len(Q) : IsExit(Q[i]) => Q[i].task # v[1]
  BY <1>1, <1>2, <1>4, <1>6 DEF SceneInv, Single
<1>10. \A i, j \in (0+1)..Len(Q) :
          i # j /\ IsExit(Q[i]) /\ IsExit(Q[j]) => Q[i].task # Q[j].task
  BY <1>4 DEF SceneInv, Single
<1>11. \A i \in (0+1)..Len(Q) : IsExit(Q[i]) => Q[i].task \in Busy(rqexe) \union rqexe.sq_live
  BY <1>4 DEF SceneInv, Single
<1> HIDE DEF W, Q
<1>12. Single(rqexe, W, Q, 0)
  BY <1>3, <1>7, <1>8, <1>9, <1>10, <1>11 DEF Single
<1> QED
  BY <1>1, <1>3, <1>4, <1>12 DEF EndsAtRest, SceneInv, W, Q

LEMMA ExitScene ==
    ASSUME pipe \in Seq(Messages), SceneInv, NEW t \in Tasks, NEW v \in {"run", "setscene"},
           NEW h \in Hashes, NEW ok \in BOOLEAN, TaskExit(<<t, v, h>>, ok)
    PROVE  EndsAtRest(worker')
<1> DEFINE w == <<t, v, h>>
           m == [kind |-> "exit", task |-> t, ok |-> ok]
           W == worker'
           Q == pipe'
<1>1. /\ w \in worker /\ worker' = worker \ {w}
      /\ pipe' = Append(pipe, m) /\ rqexe' = rqexe
  BY DEF TaskExit
<1>2. m \in Messages /\ IsExit(m) /\ m.task = t
  BY DEF Messages, IsExit
<1>3. w[1] = t
  OBVIOUS
<1> HIDE DEF m, w
<1>4. /\ pipe' \in Seq(Messages)
      /\ \A i \in (0+1)..Len(pipe') :
            \/ i \in (0+1)..Len(pipe) /\ pipe'[i] = pipe[i]
            \/ i = Len(pipe') /\ pipe'[i] = m
  BY <1>1, <1>2
<1>5. t \in Busy(rqexe) \union rqexe.sq_live
  BY <1>1, <1>3 DEF SceneInv, Single
<1>6. \A i \in (0+1)..Len(pipe) : IsExit(pipe[i]) => pipe[i].task # t
  BY <1>1, <1>3 DEF SceneInv, Single
<1>7. \A u \in W : u \in worker /\ u[1] # t
  BY <1>1, <1>3 DEF SceneInv, Single
<1>8. \A u \in W, i \in (0+1)..Len(Q) : IsExit(Q[i]) => Q[i].task # u[1]
  BY <1>2, <1>4, <1>7 DEF SceneInv, Single
<1>9. \A i, j \in (0+1)..Len(Q) :
         i # j /\ IsExit(Q[i]) /\ IsExit(Q[j]) => Q[i].task # Q[j].task
  <2> SUFFICES ASSUME NEW i \in (0+1)..Len(Q), NEW j \in (0+1)..Len(Q), i # j,
                      IsExit(Q[i]), IsExit(Q[j])
               PROVE  Q[i].task # Q[j].task
    OBVIOUS
  <2>1. CASE i \in (0+1)..Len(pipe) /\ Q[i] = pipe[i] /\ j \in (0+1)..Len(pipe) /\ Q[j] = pipe[j]
    BY <2>1 DEF SceneInv, Single
  <2>2. CASE i \in (0+1)..Len(pipe) /\ Q[i] = pipe[i] /\ Q[j] = m
    BY <1>2, <1>6, <2>2
  <2>3. CASE j \in (0+1)..Len(pipe) /\ Q[j] = pipe[j] /\ Q[i] = m
    BY <1>2, <1>6, <2>3
  <2> QED
    BY <1>4, <2>1, <2>2, <2>3
<1>10. \A i \in (0+1)..Len(Q) :
          /\ IsExit(Q[i]) => Q[i].task \in Busy(rqexe) \union rqexe.sq_live
          /\ Soft \/ IsExit(Q[i])
  BY <1>2, <1>4, <1>5 DEF SceneInv, Single
<1>11. /\ \A u, x \in W : u[1] = x[1] => u = x
       /\ \A u \in W : u[1] \in IF u[2] = "run" THEN Busy(rqexe) ELSE rqexe.sq_live
  BY <1>7 DEF SceneInv, Single
<1> HIDE DEF W, Q
<1>12. Single(rqexe, W, Q, 0)
  BY <1>8, <1>9, <1>10, <1>11 DEF Single
<1> QED
  BY <1>1, <1>4, <1>12 DEF EndsAtRest, SceneInv, W, Q

LEMMA NextScene ==
    ASSUME pipe \in Seq(Messages), SceneInv, [Next]_vars
    PROVE  SceneInv'
<1>1. CASE Execute
  BY <1>1, ExecuteRests, RestKept DEF SceneInv, Execute
<1>2. CASE CleanUp
  <2>1. EndsAtRest(worker')
    BY <1>2, FinishRests DEF CleanUp, SceneInv
  <2> QED
    BY <1>2, <2>1, RestKept DEF CleanUp
<1>3. CASE Shutdown
  <2>1. EndsAtRest(worker')
    BY <1>3, FinishRests DEF Shutdown, SceneInv
  <2> QED
    BY <1>3, <2>1, RestKept DEF Shutdown
<1>4. CASE FinishNow
  <2> DEFINE s == IF rqexe.failed_tids # {} THEN "Failed" ELSE "Complete"
             y == [rqexe EXCEPT !.state = s]
  <2>1. /\ rqexe' = y /\ worker' = {} /\ UNCHANGED <<rqdata, pipe, reports>>
    BY <1>4 DEF FinishNow
  <2>2. s # "Running"
    OBVIOUS
  <2> HIDE DEF s
  <2>3. /\ Scene(y, rqexe.sq_live) /\ Calm(rqexe, y)
        /\ Busy(y) = Busy(rqexe) /\ y.sq_live = rqexe.sq_live
    BY <2>2, StateScene DEF SceneInv, Rest
  <2> HIDE DEF y
  <2>4. Rest(y) /\ Single(y, worker, pipe, 0)
    BY <2>3, CalmRests, SingleKept DEF SceneInv
  <2>5. Single(y, {}, pipe, 0)
    BY <2>4 DEF Single
  <2>6. EndsAtRest(worker')
    BY <2>1, <2>4, <2>5 DEF EndsAtRest
  <2> QED
    BY <2>1, <2>6, RestKept
<1>5. CASE \E t \in Tasks, h \in Hashes : ReportUnihash(t, h)
  <2>1. EndsAtRest(worker') /\ Soft /\ UNCHANGED rqdata
    BY <1>5, ReportScene DEF ReportUnihash
  <2> QED
    BY <2>1, RestKept
<1>6. CASE \E t \in Tasks, v \in {"run", "setscene"}, h \in Hashes, ok \in BOOLEAN :
             TaskExit(<<t, v, h>>, ok)
  <2>1. PICK t \in Tasks, v \in {"run", "setscene"}, h \in Hashes, ok \in BOOLEAN :
           TaskExit(<<t, v, h>>, ok)
    BY <1>6
  <2>2. EndsAtRest(worker')
    BY <2>1, ExitScene
  <2>3. UNCHANGED <<rqdata, reports>>
    BY <2>1 DEF TaskExit
  <2> QED
    BY <2>2, <2>3, RestKept
<1>7. CASE UNCHANGED vars
  <2>1. EndsAtRest(worker') /\ UNCHANGED <<rqdata, reports>>
    BY <1>7 DEF vars, EndsAtRest, SceneInv
  <2> QED
    BY <2>1, RestKept
<1> QED
  BY <1>1, <1>2, <1>3, <1>4, <1>5, <1>6, <1>7 DEF Next, Terminated

(***************************************************************************)
(* While a setscene task unpacks its object, neither its own task nor one  *)
(* whose work it replaces runs, for any tasks, any graph, any limit and    *)
(* options and with interruptions: the hold-off sets do ensure what the    *)
(* loop in execute() that means to wait for covered tasks does not.  It    *)
(* is proved with changed hashes where no setscene task hard-depends on    *)
(* another, and with hard dependencies where no hash changes.              *)
(***************************************************************************)
THEOREM SetsceneExclusiveTheorem ==
    ASSUME NoHardMigration PROVE Spec => []SetsceneExclusive
<1>1. Init => RunInv /\ SceneInv
  BY InitRunInv, InitScene
<1>2. RunInv /\ SceneInv /\ [Next]_vars => (RunInv /\ SceneInv)'
  <2>1. RunInv /\ SceneInv /\ [Next]_vars => SceneInv'
    BY NextScene DEF RunInv
  <2> QED
    BY <2>1, NextImplements
<1>3. SceneInv => SetsceneExclusive
  <2> SUFFICES ASSUME SceneInv, NEW t \in rqdata.setscene, NEW v \in worker,
                      v[1] = t, v[2] = "setscene",
                      NEW u \in {t} \union rqdata.sq_covered_tasks[t], NEW w \in worker,
                      w[1] = u, w[2] = "run"
               PROVE  FALSE
    BY DEF SetsceneExclusive, Running
  <2>1. t \in rqexe.sq_live
    BY DEF SceneInv, Single
  <2>2. u \in Busy(rqexe)
    BY DEF SceneInv, Single
  <2> QED
    BY <2>1, <2>2 DEF SceneInv, Rest, NotBusy, Busy
<1> QED
  BY <1>1, <1>2, <1>3, PTL DEF Spec

(* In no queue are there both hard dependencies and setscene tasks that wait for
   the same task of another multiconfig. *)
NoHardTwins ==
    \A q \in RunQueues : \/ \A t \in q.setscene : q.harddeps[t] = {}
                         \/ \A t, u \in q.setscene : q.twin[t] = q.twin[u] => t = u

LEMMA InitApart == ASSUME NoHardTwins, Init PROVE Apart
<1>1. PICK q \in RunQueues : rqdata = BuildScenequeueData(q)
  BY DEF Init
<1>2. {"setscene", "harddeps", "twin"} \subseteq DOMAIN q
  BY QueuesAssumption
<1>3. /\ rqdata.setscene = q.setscene /\ rqdata.harddeps = q.harddeps
      /\ rqdata.twin = q.twin
  BY <1>1, <1>2 DEF BuildScenequeueData
<1> QED
  BY <1>3 DEF NoHardTwins, Apart, Soft, NoTwins

LEMMA NextTables == [Next]_vars => UNCHANGED rqdata
<1> SUFFICES ASSUME [Next]_vars PROVE UNCHANGED rqdata
  OBVIOUS
<1>1. CASE Execute
  BY <1>1 DEF Execute
<1>2. CASE CleanUp \/ Shutdown \/ FinishNow
  BY <1>2 DEF CleanUp, Shutdown, FinishNow
<1>3. CASE \E t \in Tasks, h \in Hashes : ReportUnihash(t, h)
  BY <1>3 DEF ReportUnihash
<1>4. CASE \E t \in Tasks, v \in {"run", "setscene"}, h \in Hashes, ok \in BOOLEAN :
             TaskExit(<<t, v, h>>, ok)
  BY <1>4 DEF TaskExit
<1>5. CASE UNCHANGED vars
  BY <1>5 DEF vars
<1> QED
  BY <1>1, <1>2, <1>3, <1>4, <1>5 DEF Next, Terminated

(***************************************************************************)
(* "No task should end up in both covered and uncovered, that is a bug."   *)
(* (the check of summarise_scenequeue_errors): a verdict once given stays  *)
(* the only one until a migration takes it back, whatever answers, skips,  *)
(* failures and clean-ups interleave.  It is proved for queues in which no *)
(* setscene task hard-depends on another, with changed hashes and several  *)
(* multiconfigs, and with hard dependencies where no hash changes and no   *)
(* task is deferred behind that of another multiconfig, which the code     *)
(* fails when a hard dependency is both.                                   *)
(***************************************************************************)
THEOREM CoveredOnceTheorem ==
    ASSUME NoHardMigration, NoHardTwins PROVE Spec => []CoveredOnce
<1> DEFINE Inv == RunInv /\ SceneInv /\ Apart
<1>1. Init => Inv
  BY InitRunInv, InitScene, InitApart
<1>2. Inv /\ [Next]_vars => Inv'
  <2>1. RunInv /\ SceneInv /\ [Next]_vars => SceneInv'
    BY NextScene DEF RunInv
  <2>2. [Next]_vars => UNCHANGED rqdata
    BY NextTables
  <2>3. Apart /\ UNCHANGED rqdata => Apart'
    BY DEF Apart, Soft, NoTwins
  <2> QED
    BY <2>1, <2>2, <2>3, NextImplements
<1>3. Inv => CoveredOnce
  BY DEF SceneInv, Rest, Scene, Verdicts, CoveredOnce
<1> QED
  BY <1>1, <1>2, <1>3, PTL DEF Spec
=============================================================================
