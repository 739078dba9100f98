-------------------------------- MODULE Worker --------------------------------
(***************************************************************************)
(* bitbake-worker: the process that forks the tasks for the run queue, and *)
(* the byte streams it sits between.  The cooker's commands arrive on      *)
(* stdin, the events of every task on a pipe of its own, and events and    *)
(* exit codes leave on stdout, written by a thread of their own.  All      *)
(* messages are framed by tags in a stream, read and written in parts.     *)
(***************************************************************************)
EXTENDS Naturals, Sequences, FiniteSets, SequencesExt

CONSTANTS
    Tasks, NoTask,
    Writers,        \* processes of a task that fire events
    TagInside,      \* who fires events whose pickle contains "</event>":
                    \* tasks, or NoTask for the worker itself
    PipeSize,       \* capacity of the pipes, in tokens
    MaxHashes,      \* bound: how often the cooker sends new task hashes
    MaxOwn,         \* bound: events of the worker itself
    MaxEvents,      \* bound: events of a process of a task
    Faults          \* which of "kill", "finish", "cooker" may happen: a task
                    \* is killed, the build is stopped, the cooker dies

VARIABLES
    cooker,     \* wbuf: the buffer of worker.stdin; flushing; queue of the
                \* runQueuePipe; state; hashes: version of the task hashes;
                \* asked: version sent before each runtask
    got,        \* messages the cooker took out of the stream
    cmds,       \* pipe to the worker's stdin
    worker,     \* queue; hashes; state; own: events it fired itself
    child,      \* phase, hashes and status of each task's process
    pipe,       \* pipe of each task, and
    pqueue,     \*   the queue of its runQueueWorkerPipe
    writing,    \* what each process of a task has still to write
    lock,       \* who has worker_pipe_lock of a task
    written,    \* history: the events a task wrote completely
    out,        \* worker_queue and worker_queue_int
    events      \* pipe from the worker's stdout

cookerVars == <<cooker, got>>
childVars == <<child, pipe, writing, lock, written>>
vars == <<cookerVars, cmds, worker, childVars, pqueue, out, events>>

------------------------------------------------------------------------------
(* The streams.  A token is a tag or a piece of pickled data.              *)

Msg(kind, t, n) == [kind |-> kind, task |-> t, n |-> n]
Token(type, m) == [type |-> type, msg |-> m]
Open(kind) == Token("open", Msg(kind, NoTask, 0))
Close(kind) == Token("close", Msg(kind, NoTask, 0))

(* What pickle.dumps() returns. *)
Body(m) ==
    IF m.kind = "event" /\ m.task \in TagInside
    THEN <<Token("first", m), Close("event"), Token("rest", m)>>
    ELSE <<Token("all", m)>>

Frame(m) == <<Open(m.kind)>> \o Body(m) \o <<Close(m.kind)>>

(* pickle.loads() of a piece of the stream. *)
Loads(s) == s # <<>> /\ s[1].type \in {"first", "all"} /\ s = Body(s[1].msg)
Truncated(s) == s # <<>> /\ s[1].type = "first" /\ IsStrictPrefix(s, Body(s[1].msg))

StartsWith(q, kind) == q # <<>> /\ q[1] = Open(kind)
Find(q, kind) == SelectInSeq(q, LAMBDA x : x = Close(kind))
DropFirst(q, n) == SubSeq(q, n + 1, Len(q))

(* step applied again and again until it changes nothing, at most n times. *)
Repeat(step(_), z, n) == FoldLeft(LAMBDA a, i : step(a), z, [i \in 1..n |-> i])

------------------------------------------------------------------------------
Live == {"forked", "guarded", "leader"}

Init ==
    /\ cooker = [wbuf |-> <<>>, flushing |-> FALSE, queue |-> <<>>, state |-> "running",
                 hashes |-> 0, asked |-> <<>>]
    /\ got = <<>>
    /\ cmds = <<>>
    /\ worker = [queue |-> <<>>, hashes |-> 0, state |-> "serving", own |-> 0]
    /\ child = [t \in Tasks |-> [phase |-> "none", hashes |-> 0, ok |-> FALSE]]
    /\ pipe = [t \in Tasks |-> <<>>]
    /\ pqueue = [t \in Tasks |-> <<>>]
    /\ writing = [t \in Tasks |-> [w \in Writers |-> [todo |-> <<>>, fired |-> 0]]]
    /\ lock = [t \in Tasks |-> {}]
    /\ written = [t \in Tasks |-> <<>>]
    /\ out = <<>>
    /\ events = <<>>

------------------------------------------------------------------------------
(* The cooker's side (runqueue.py).  A write to stdin blocks the cooker.   *)

Asked == {cooker.asked[i].task : i \in DOMAIN cooker.asked}
Reported == {got[i].task : i \in {j \in DOMAIN got : got[j].kind = "exitcode"}}

Send(m, flush, state) ==
    /\ ~cooker.flushing
    /\ cooker' = [cooker EXCEPT !.wbuf = @ \o Frame(m), !.flushing = flush, !.state = state,
                    !.asked = IF m.kind = "runtask" THEN Append(@, m) ELSE @,
                    !.hashes = IF m.kind = "newtaskhashes" THEN m.n ELSE @]
    /\ UNCHANGED <<got, cmds, worker, childVars, pqueue, out, events>>

(* write and flush of a runtask message. *)
SendRuntask(t) ==
    /\ cooker.state = "running" /\ t \notin Asked
    /\ Send(Msg("runtask", t, cooker.hashes), TRUE, "running")

(* process_possible_migrations writes without a flush: the message waits for
   the next one unless it is larger than the buffer. *)
SendNewtaskhashes ==
    /\ cooker.state = "running" /\ cooker.hashes < MaxHashes
    /\ \E flush \in BOOLEAN :
          Send(Msg("newtaskhashes", NoTask, cooker.hashes + 1), flush, "running")

(* finish_now. *)
SendFinishnow ==
    /\ "finish" \in Faults /\ cooker.state = "running"
    /\ Send(Msg("finishnow", NoTask, 0), TRUE, "finished")

(* _teardown_worker, when nothing is running any more or after finish_now. *)
SendQuit ==
    /\ \/ cooker.state = "running" /\ Asked = Reported
       \/ cooker.state = "finished"
    /\ Send(Msg("quit", NoTask, 0), TRUE, "teardown")

WriteCommands ==
    /\ cooker.flushing /\ cooker.state # "dead"
    /\ \/ /\ cooker.wbuf # <<>> /\ Len(cmds) < PipeSize /\ worker.state # "gone"
          /\ cmds' = Append(cmds, Head(cooker.wbuf))
          /\ cooker' = [cooker EXCEPT !.wbuf = Tail(@), !.flushing = Len(cooker.wbuf) > 1]
       \/ /\ worker.state = "gone"     \* IOError
          /\ cooker' = [cooker EXCEPT !.wbuf = <<>>, !.flushing = FALSE]
          /\ UNCHANGED cmds
    /\ UNCHANGED <<got, worker, childVars, pqueue, out, events>>

(* One message off the front of the runQueuePipe's queue.  The data of an
   event may contain the closing tag: then the next one is tried. *)
TakeMessage(z) ==
    LET q == z.queue
        ends == {i \in DOMAIN q : q[i] = Close("event") /\ Loads(SubSeq(q, 2, i - 1))}
        bad == {i \in DOMAIN q : /\ q[i] = Close("event")
                                 /\ ~Loads(SubSeq(q, 2, i - 1)) /\ ~Truncated(SubSeq(q, 2, i - 1))
                                 /\ \A j \in ends : i < j}
        k == Find(q, "exitcode")
    IN CASE StartsWith(q, "event") /\ bad # {} -> [z EXCEPT !.fatal = TRUE]
         [] StartsWith(q, "event") /\ bad = {} /\ ends # {} ->
              LET i == CHOOSE j \in ends : \A n \in ends : j <= n
              IN [z EXCEPT !.got = Append(@, q[2].msg), !.queue = DropFirst(q, i)]
         [] StartsWith(q, "exitcode") /\ k # 0 ->
              [z EXCEPT !.got = Append(@, q[2].msg), !.queue = DropFirst(q, k)]
         [] OTHER -> z

TakeMessages(q) == Repeat(TakeMessage, [queue |-> q, got |-> got, fatal |-> FALSE], Len(q))

(* runQueuePipe.read(): a worker that is gone ends the build; then whatever
   has arrived is taken. *)
CookerRead ==
    /\ ~cooker.flushing /\ cooker.state # "dead"
    /\ events # <<>> \/ (worker.state = "gone" /\ cooker.state \in {"running", "finished"})
    /\ \E n \in 0..Len(events) :
       \E z \in {TakeMessages(cooker.queue \o SubSeq(events, 1, n))} :
             /\ events = <<>> \/ n > 0
             /\ events' = DropFirst(events, n)
             /\ got' = z.got
             /\ cooker' = [cooker EXCEPT !.queue = z.queue,
                             !.state = IF z.fatal THEN "dead"
                                       ELSE IF worker.state = "gone" THEN "teardown" ELSE @]
    /\ UNCHANGED <<cmds, worker, childVars, pqueue, out>>

(* The cooker is killed; the kernel closes its pipes. *)
CookerDies ==
    /\ "cooker" \in Faults /\ cooker.state # "dead"
    /\ cooker' = [cooker EXCEPT !.state = "dead", !.flushing = FALSE, !.wbuf = <<>>]
    /\ UNCHANGED <<got, cmds, worker, childVars, pqueue, out, events>>

------------------------------------------------------------------------------
(* The worker's main thread.                                               *)

(* kill(-pid, SIGTERM) reaches the processes of the task once it is the
   leader of its group; then waitpid().  No exit code is sent. *)
Terminate(ch) ==
    [t \in Tasks |-> IF ch[t].phase \in {"leader", "exited"}
                     THEN [ch[t] EXCEPT !.phase = "gone"] ELSE ch[t]]

(* A parent that exits: prctl(PR_SET_PDEATHSIG) of the tasks. *)
ParentExits(ch) ==
    [t \in Tasks |-> IF ch[t].phase \in {"guarded", "leader"}
                     THEN [ch[t] EXCEPT !.phase = "gone"] ELSE ch[t]]

HandleCommand(z, m) ==
    CASE m.kind = "newtaskhashes" -> [z EXCEPT !.hashes = m.n]
      [] m.kind = "runtask" ->
           [z EXCEPT !.child[m.task] = [phase |-> "forked", hashes |-> z.hashes, ok |-> FALSE]]
      [] m.kind = "finishnow" -> [z EXCEPT !.child = Terminate(z.child)]
      [] m.kind = "quit" -> [z EXCEPT !.state = "exiting"]

(* One round of the loop of handle_item: up to the first closing tag, whatever
   the queue starts with by now. *)
HandleNext(z, kind) ==
    LET i == Find(z.queue, kind)
        data == SubSeq(z.queue, 2, i - 1)
    IN IF i = 0 \/ z.state # "serving" THEN z
       ELSE IF ~Loads(data) THEN [z EXCEPT !.state = "error"]
       ELSE [HandleCommand(z, data[1].msg) EXCEPT !.queue = DropFirst(z.queue, i)]

HandleItem(z, kind) ==
    IF ~StartsWith(z.queue, kind) THEN z
    ELSE Repeat(LAMBDA a : HandleNext(a, kind), z, Len(z.queue))

(* The order in which serve() tries the kinds of messages.  (The three kinds
   of configuration data that come first in the stream are left out.) *)
Kinds == <<"newtaskhashes", "runtask", "finishnow", "quit">>

(* One round of serve(): commands. *)
Serve ==
    /\ worker.state = "serving"
    /\ cmds # <<>> \/ worker.queue # <<>>
    /\ \E n \in 0..Len(cmds) :
       \E z \in {FoldLeft(HandleItem, [queue |-> worker.queue \o SubSeq(cmds, 1, n),
                                      hashes |-> worker.hashes, state |-> "serving",
                                      child |-> child], Kinds)} :
             /\ cmds' = DropFirst(cmds, n)
             /\ worker' = [worker EXCEPT !.queue = z.queue, !.hashes = z.hashes,
                             !.state = z.state]
             /\ child' = z.child
             /\ cmds' # cmds \/ worker' # worker
    /\ UNCHANGED <<cookerVars, pipe, pqueue, writing, lock, written, out, events>>

(* EOF on stdin: sigterm_exception. *)
ServeEOF ==
    /\ worker.state = "serving" /\ cooker.state = "dead" /\ cmds = <<>>
    /\ worker' = [worker EXCEPT !.state = "gone"]
    /\ child' = ParentExits(Terminate(child))
    /\ UNCHANGED <<cookerVars, cmds, pipe, pqueue, writing, lock, written, out, events>>

(* worker_fire: an event of the worker itself. *)
WorkerFire ==
    /\ worker.state = "serving" /\ worker.own < MaxOwn
    /\ worker' = [worker EXCEPT !.own = @ + 1]
    /\ out' = out \o Frame(Msg("event", NoTask, worker.own + 1))
    /\ UNCHANGED <<cookerVars, cmds, childVars, pqueue, events>>

(* Split the queue of a task's pipe at the closing tags.  The assertion: each
   piece is one event. *)
SplitEvent(z) ==
    LET i == Find(z.queue, "event")
        piece == SubSeq(z.queue, 1, i)
    IN IF i = 0 \/ z.failed THEN z
       ELSE IF ~StartsWith(piece, "event") \/ Len(SelectSeq(piece, LAMBDA x : x = Open("event"))) # 1
            THEN [z EXCEPT !.failed = TRUE]
       ELSE [z EXCEPT !.out = @ \o piece, !.queue = DropFirst(z.queue, i)]

ReadPipe(t, n) ==
    LET q == pqueue[t] \o SubSeq(pipe[t], 1, n)
    IN Repeat(SplitEvent, [queue |-> q, out |-> out, failed |-> FALSE], Len(q))

(* runQueueWorkerPipe.read(). *)
ReadTask(t) ==
    /\ worker.state = "serving" /\ child[t].phase \in Live \union {"exited"}
    /\ \E n \in 1..Len(pipe[t]) :
       \E z \in {ReadPipe(t, n)} :
             /\ pipe' = [pipe EXCEPT ![t] = DropFirst(@, n)]
             /\ pqueue' = [pqueue EXCEPT ![t] = z.queue]
             /\ out' = z.out
             /\ worker' = [worker EXCEPT !.state = IF z.failed THEN "error" ELSE @]
    /\ UNCHANGED <<cookerVars, cmds, child, writing, lock, written, events>>

\* Mutant: the exit code is sent before the pipe is emptied.
Reap_ExitFirst(t) ==
    /\ worker.state = "serving" /\ child[t].phase = "exited"
    /\ LET z == ReadPipe(t, Len(pipe[t]))
           exit == Frame(Msg("exitcode", t, IF child[t].ok THEN 0 ELSE 1))
       IN /\ child' = [child EXCEPT ![t].phase = "reaped"]
          /\ pipe' = [pipe EXCEPT ![t] = <<>>]
          /\ pqueue' = [pqueue EXCEPT ![t] = <<>>]
          /\ out' = out \o exit \o SubSeq(z.out, Len(out) + 1, Len(z.out))
    /\ UNCHANGED <<cookerVars, cmds, worker, writing, lock, written, events>>

(* process_waitpid: close() of the pipe reads until nothing comes any more
   and drops an incomplete message, then the exit code is sent. *)
Reap(t) ==
    /\ worker.state = "serving" /\ child[t].phase = "exited"
    /\ \E z \in {ReadPipe(t, Len(pipe[t]))} :
          /\ child' = [child EXCEPT ![t].phase = "reaped"]
          /\ pipe' = [pipe EXCEPT ![t] = <<>>]
          /\ pqueue' = [pqueue EXCEPT ![t] = <<>>]
          /\ out' = IF z.failed THEN z.out
                    ELSE z.out \o Frame(Msg("exitcode", t, IF child[t].ok THEN 0 ELSE 1))
          /\ worker' = [worker EXCEPT !.state = IF z.failed THEN "error" ELSE @]
    /\ UNCHANGED <<cookerVars, cmds, writing, lock, written, events>>

------------------------------------------------------------------------------
(* worker_flush: the thread that writes.                                   *)

Flush ==
    /\ out # <<>> /\ worker.state # "gone" /\ cooker.state # "dead"
    /\ \E n \in 1..Len(out) :
          /\ n <= PipeSize - Len(events)
          /\ events' = events \o SubSeq(out, 1, n)
          /\ out' = DropFirst(out, n)
    /\ UNCHANGED <<cookerVars, cmds, worker, childVars, pqueue>>

(* EPIPE is ignored like EAGAIN: without a reader the thread tries again. *)
FlushEPIPE ==
    /\ out # <<>> /\ worker.state # "gone" /\ cooker.state = "dead"
    /\ UNCHANGED vars

(* worker_thread.join() and exit. *)
Exit ==
    /\ worker.state \in {"exiting", "error"} /\ out = <<>>
    /\ worker' = [worker EXCEPT !.state = "gone"]
    /\ child' = ParentExits(child)
    /\ UNCHANGED <<cookerVars, cmds, pipe, pqueue, writing, lock, written, out, events>>

------------------------------------------------------------------------------
(* The tasks.                                                              *)

Phase(t, from, to) ==
    /\ child[t].phase = from
    /\ child' = [child EXCEPT ![t].phase = to]
    /\ UNCHANGED <<cookerVars, cmds, worker, pipe, pqueue, writing, lock, written, out, events>>

SignalOnParentExit(t) == Phase(t, "forked", "guarded")
Setsid(t) == Phase(t, "guarded", "leader")

(* worker_child_fire: acquire the lock, then write. *)
FireEvent(t, w) ==
    /\ child[t].phase = "leader" /\ lock[t] = {}
    /\ writing[t][w].fired < MaxEvents
    /\ lock' = [lock EXCEPT ![t] = {w}]
    /\ writing' = [writing EXCEPT ![t][w] = [todo |-> Frame(Msg("event", t, Len(written[t]) + 1)),
                                             fired |-> @.fired + 1]]
    /\ UNCHANGED <<cookerVars, cmds, worker, child, pipe, pqueue, written, out, events>>

(* Part of a message; the last part releases the lock. *)
WriteEvent(t, w) ==
    /\ child[t].phase = "leader" /\ worker.state # "gone"
    /\ writing[t][w].todo # <<>> /\ Len(pipe[t]) < PipeSize
    /\ LET todo == writing[t][w].todo
       IN /\ pipe' = [pipe EXCEPT ![t] = Append(@, Head(todo))]
          /\ writing' = [writing EXCEPT ![t][w].todo = Tail(todo)]
          /\ lock' = [lock EXCEPT ![t] = IF Len(todo) = 1 THEN @ \ {w} ELSE @]
          /\ written' = [written EXCEPT ![t] =
                           IF Len(todo) = 1 THEN Append(@, Len(@) + 1) ELSE @]
    /\ UNCHANGED <<cookerVars, cmds, worker, child, pqueue, out, events>>

(* os._exit() of a task whose other processes are done, or its death. *)
TaskExit(t) ==
    /\ child[t].phase = "leader"
    /\ \E ok \in BOOLEAN :
          /\ \A w \in Writers : writing[t][w].todo = <<>>
          /\ child' = [child EXCEPT ![t] = [@ EXCEPT !.phase = "exited", !.ok = ok]]
    /\ UNCHANGED <<cookerVars, cmds, worker, pipe, pqueue, writing, lock, written, out, events>>

(* Nobody reads the pipe any more: IOError, sigterm_handler. *)
WriteFails(t) ==
    /\ child[t].phase = "leader" /\ worker.state = "gone"
    /\ \E w \in Writers : writing[t][w].todo # <<>>
    /\ Phase(t, "leader", "gone")

TaskKilled(t) ==
    /\ "kill" \in Faults /\ child[t].phase = "leader"
    /\ child' = [child EXCEPT ![t].phase = "exited"]
    /\ UNCHANGED <<cookerVars, cmds, worker, pipe, pqueue, writing, lock, written, out, events>>

TaskStep(t) ==
    \/ SignalOnParentExit(t) \/ Setsid(t) \/ TaskExit(t) \/ WriteFails(t)
    \/ \E w \in Writers : FireEvent(t, w) \/ WriteEvent(t, w)

WorkerStep == Serve \/ ServeEOF \/ WorkerFire \/ Exit \/ \E t \in Tasks : ReadTask(t) \/ Reap(t)

CookerStep == WriteCommands \/ CookerRead

(* Everybody is done. *)
Terminated ==
    /\ cooker.state \in {"teardown", "dead"} /\ worker.state = "gone"
    /\ UNCHANGED vars

Next ==
    \/ \E t \in Tasks : SendRuntask(t)
    \/ SendNewtaskhashes \/ SendFinishnow \/ SendQuit \/ CookerDies
    \/ CookerStep \/ WorkerStep \/ Flush \/ FlushEPIPE
    \/ \E t \in Tasks : TaskStep(t) \/ TaskKilled(t)
    \/ Terminated

Spec == Init /\ [][Next]_vars

(* The cooker reads and writes, the worker's loop and its thread go round and
   tasks end: each is a process or thread of its own. *)
FairSpec ==
    /\ Spec
    /\ WF_vars(CookerStep) /\ WF_vars(WorkerStep) /\ WF_vars(Flush)
    /\ \A t \in Tasks : WF_vars(TaskStep(t))

------------------------------------------------------------------------------
(* Types; a lock has one owner. *)
TypeOK ==
    /\ cooker.state \in {"running", "finished", "teardown", "dead"}
    /\ worker.state \in {"serving", "exiting", "error", "gone"}
    /\ \A t \in Tasks :
          /\ child[t].phase \in Live \union {"none", "exited", "reaped", "gone"}
          /\ Cardinality(lock[t]) <= 1
          /\ Len(pipe[t]) <= PipeSize
    /\ Len(cmds) <= PipeSize /\ Len(events) <= PipeSize

EventsGot(t) ==
    LET s == SelectSeq(got, LAMBDA m : m.kind = "event" /\ m.task = t)
    IN [i \in DOMAIN s |-> s[i].n]

(* When the cooker learns that a task has ended it has every event the task
   wrote, once and in order: the log is complete before the task counts as
   done, however the three streams were cut into pieces. *)
EventsBeforeExit ==
    /\ \A t \in Reported : EventsGot(t) = written[t]
    /\ \A t \in Tasks : IsPrefix(EventsGot(t), written[t])
    /\ IsPrefix(EventsGot(NoTask), [i \in 1..worker.own |-> i])

(* A task runs with the task hashes that the cooker had sent before it. *)
HashesBeforeTask ==
    \A i \in DOMAIN cooker.asked :
        LET m == cooker.asked[i]
        IN child[m.task].phase # "none" => child[m.task].hashes = m.n

(* The cooker reports a worker that exits on its own as unexpected: it does
   not, whatever it was sent and whichever tasks were killed. *)
NoUnexpectedExit == worker.state # "error"

(* The messages in the cooker's stream can always be unpickled. *)
CookerSurvives == "cooker" \notin Faults => cooker.state # "dead"

(* A normal end loses nothing: when a worker that was told to quit is gone and
   the streams are empty, every exit code of a task it reaped has arrived. *)
NothingLostAtQuit ==
    worker.state = "gone" /\ events = <<>> /\ cooker.state = "teardown" =>
        \A t \in Tasks : child[t].phase = "reaped" => t \in Reported

==============================================================================
