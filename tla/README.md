# MegaRAC Community Edition: TLA+ models, checks and proofs

The repository is a BMC firmware distribution. Two bodies of code in it have
concurrency, failures and protocols of their own:

* the **Platform Event Filtering (PEF) subsystem** in
  `meta-ami/meta-common/recipes-ami/pef` (C++): two D-Bus daemons and a mail
  client that turn records of the system event log into power actions, mails and
  SNMP traps, according to tables that IPMI, Redfish and web clients edit;
* **BitBake** in `poky/bitbake` (Python), which builds the distribution: a
  server with its user interfaces, parser processes, a planner, a run queue with
  worker processes, lock files, a fetcher, and the hash equivalence and PR
  services.

This project models both, model-checks the models with TLC and proves the central
invariants with TLAPS. `PROJECT.json` maps every definition to the lines it
stands for, and lists components, runs, hazards and theorems.

## 1. Inventory

### PEF

| Component | State it keeps | Operations | Interacts with |
|---|---|---|---|
| Property server (`pef_config.cpp`, patch 0004) | D-Bus properties: PEFConfInfo, EventFilterTable, AlertPolicyTable, DestinationSelectorTable, ArmPEFPostponeTmr, TmrCountdownValue | start from the JSON file; Get / Set from clients | signals PropertiesChanged to the event filtering daemon; never writes the file |
| Configuration monitors (`pef_config_update.hpp`) | the JSON file | on each change signal: parse file, set one value, truncate, write | the file is what the property server reads at its next start |
| Postpone timer monitor (`pef_action.hpp`) | a local countdown | on a change of ArmPEFPostponeTmr: one second and one Set per tick, then Set 0 | holds the daemon's only thread for the whole countdown |
| PEF task (`pef_action.cpp`, patch 0004) | locals of one doPefTask call | read controls, scan filters, per match: power action, scan policies, trap or mails, set LastBMCProcessedEventID | about a dozen blocking D-Bus calls per event, each a point where clients interleave |
| SEL logger caller (patch 0007) | record id | one doPefTask call per record, 5 s timeout | the daemon's message queue |
| Mail alert manager (`mail_alert_manager.cpp`) | SMTP settings and their file | SetSmtpConfig, GetSmtpConfig, SendMail, load at start | called by the PEF task |

Hard here: the event filtering daemon is one thread with one message queue for
events, change signals and the countdown; between any two of its blocking calls
clients may change every table; the file is truncated before it is rewritten;
signals sent while the daemon is down are lost; both daemons crash and are
restarted by systemd independently. Correct means: changes end up in the file,
an armed timer is served, actions are taken only on permissions that were given,
in event order, not twice, and every event is handled.

### BitBake

| Component | State it keeps | Hard because | Correct means |
|---|---|---|---|
| Server process and user interfaces (`main.py`, `server/process.py`) | bitbake.lock, the pid in it, bitbake.sock, the controlling connection | start, connect, kill, crash and exit race over three files | one server per build directory, it can be found, nobody hangs |
| Cooker and commands (`cooker.py`, `command.py`) | state, configuration, recipe cache, unread inotify events, idle functions | clients leave while commands run; files change; shutdown is asked for at any time | a command sees every change the server was told of before it was given, runs on a complete cache, ends |
| Recipe parser processes (`cooker.py`) | shares of the recipes, a multiprocessing.Queue with its feeder threads | a process killed while others write; joins against full pipes | "complete" is true, parsing ends |
| Provider selection, dependency resolution (`providers.py`, `taskdata.py`) | tables of targets, providers, failed files | recursion that removes what a loop further up runs over; listing order | the best file is taken; what takes part finds its dependencies |
| Task graph, setscene queue (`runqueue.py`) | dependencies, recursive dependencies, weights, collapsed graph | fixpoint loops over sets and dictionaries in any order | results do not depend on the order |
| Run queue (`runqueue.py`) | task sets (buildable, running, covered, held off, deferred ...), stamps | a setscene task replaces real tasks, fails, or comes back through a new unihash while others run | dependencies first, no setscene beside its task, ends, the rebuild finds nothing to do |
| Schedulers (`runqueue.py`) | priority map | limits, shared stamps and pressure together | limits hold, nobody is left out |
| Worker and pipes (`bitbake-worker`, `runqueue.py`) | queues of tagged messages | streams are cut anywhere; processes die | every event arrives before the exit status, once and in order |
| Lock files (`utils.py`) | inodes of a name | the holder removes the file | mutual exclusion |
| Fetcher (`fetch2`) | file, done stamp, lock | killed between two steps; recipes that share a file name | download() goes through only with the expected file |
| Hash equivalence, PR service, asyncrpc (`hashserv`, `prserv`, `asyncrpc`) | databases, connections, backfill queue | awaits between look-up and insert, repeats, crashes between answer and commit | a unihash never changes, values never go down, answers belong to their requests |

## 2. Modules

```
PefFilter             matching of one event against one filter entry (pure)
 └ DataMatch          the bytes it is matched on
PefConfig             property server, clients, change signals, crash and restart
 └ PefMonitors        + the daemon's signal handlers, file writes, countdown, crash
    └ PefTask         + doPefTask, one action per blocking call  (also EXTENDS PefFilter)
       └ PefAlerting  the composition, its fairness and its properties
MailAlert             the mail alert manager

Providers             which file satisfies a name (pure)
 ├ ProviderLookup     look-ups, and what they have to agree on
 └ TaskData            from targets to the files that take part
RunQueuePrepare       RunQueueData.prepare
SceneQueueData        the graph of the setscene tasks (reference definitions)
 ├ SceneQueueBuild    build_scenequeue_data, compared with them
 └ RunQueue           RunQueueExecute; implements TaskGraph (abstract)
Scheduler             priority maps and next_buildable_task
Worker                bitbake-worker, its pipes and its cooker's end of them
LockFile              lockfile/unlockfile by system call; implements SharedLock (abstract)
CookerParser          parser processes and the server's end of the result queue
Cooker                state, commands and caches of a resident server
ProcessServer         user interfaces, server start, serve and exit
Fetcher               download, unpack, clean of one file name
HashServ, PRServ, AsyncRPC      the services and their RPC client

MCPef, MCPlanning, MCRunQueue, MCProcesses, MCServices, MCServer, MCEnds
                      instances for TLC (RunQueueInputs: queues for two of them)
PefMonitors_proof, PefAlerting_proof (with MailAlert and DataMatch),
Processes_proof (LockFile, Fetcher, CookerParser), ProcessServer_proof, Cooker_proof,
Services_proof, Planning_proof (TaskData, Scheduler), RunQueue_proof (with TaskGraph)
                      theorems about the modules they extend
```

*Sum modules.* An MC module holds the variables of several components and a
variable `part` that names the one a behaviour is about; the others keep their
initial values, so a run asks one family of questions of several instances
without multiplying their states. An MC module EXTENDS the components that
theorems are about, so that the properties of its run are the ones the theorems
name (ProcessServer, Cooker, LockFile, Fetcher, CookerParser, HashServ, PRServ,
AsyncRPC, TaskData, Scheduler, RunQueue and the PEF modules); the other parts,
and further instances of these, are INSTANCEs with constants of their own.

*Conventions.* Operators keep the names of the source where TLA+ allows it. A
method that only computes on an object is an operator from a record to a record
(`RunQueue`, `Cooker`); a step is split only where the code blocks, awaits,
makes a system call another process can see, or can be killed with an effect.
Loops over Python sets and dictionaries run in any order. Definitions marked
*Mutant* are variants of the definition after them with a plausible bug; nothing
uses them but the mutation check.

*PEF state.* `conf` is the value of every property, `file` the JSON file (`Torn`
when it does not parse), `inbox` the queue of the daemon's connection, `pc` the
control point of its thread, `task` the locals of doPefTask; `confState` is
`up`, `down`, or `bare` when the property server runs without tables because the
file did not parse. Bit masks are sets of bit names; a byte in PefFilter is the
set of its 1 bits; `& 0x0F` and `& 0x07` are `% 16` and `% 8`. Every handler is
split only where its thread blocks in a D-Bus call or between truncating and
writing a file. A call to the property server fails exactly when the object is
not served; a call to another service may fail at any time. The history variables
(`lost`, `acts`, `seen`, `status`, `sent`, `unsaved`) record what the properties
speak of; only `status` and `unsaved` are read by guards, as bounds and as the
state of a stream.

*BitBake state.* `RunQueue.rqexe` is the RunQueueExecute object, `worker` and
`pipe` what the workers run and have reported, `disk` stamps and sstate objects.
`LockFile.path` is the inode under the name, `fd` and `held` what a process has
open and locked. `Worker` has one sequence of tokens per pipe and per reader's
buffer; `Fetcher` the file, its stamp (a checksum is the content it is of) and
whether the stamp is newer than the file; `HashServ` the tables in memory and on
disk, a slot per handler, the backfill queue; `ProcessServer` the lock's holder,
the pid in the lock file, the server behind the socket file and a record per
process. History variables: `HashServ.told` and `pinned`, `PRServ.log` and
`imported`, `Worker.got` and `written`, `Cooker.ck.abandoned`, `asked` and `due`.

## 3. Runs

| Run | Parts and bounds | Properties |
|---|---|---|
| `pef_alerting` | 2 events, 2 filter entries (the scan stops before the last), 2 recipients, 3 inputs (events and client writes), 1 fault; every control a client can change is changed between any two reads | OffExcludesReset, ActionsInEventOrder, NoActionTwice, ActionsPermitted |
| `pef_daemons` | monitors alone: 4 writes, 2 faults; the whole daemon with 3 inputs; mail manager: 2 hosts, 2 calls of each method, 2 faults; matching: all quadruples of 3-bit bytes (the rule is per bit with all-zeros and all-ones as special cases) | ChangesReachFile, ArmedTimerIsServed, DataMatchCorrect, ConfigSurvivesRestart, TornFileMeansNoMail, EventuallySaved, EventsHandled |
| `planning` | providers: 3 files of a recipe beside another recipe, 4 run-time providers; resolution: 4 recipes, names with one and two providers, and 5 recipes on which a required target is given up; graph: 3 recipes of 2 tasks, every DEPENDS and RDEPENDS, recursive and inter-task dependencies, options; setscene queue: every graph of 4 tasks; schedulers: 2 recipes of up to 2 tasks | ChoicesCorrect, Closed, GraphCorrect, SceneQueueCorrect, AdmissionCorrect, OrderCorrect |
| `runqueue` | every graph of 3 tasks with every choice of setscene tasks, cached objects, stamps of an earlier build, hard dependencies, options; one new unihash, also with a hard dependency; tasks without code or without stamps; an interruption or a dead worker; BB_SETSCENE_ENFORCE; two multiconfigs of 2 tasks; 2 threads | SetsceneExclusive, CoveredOnce, CompleteMeansAll, WaitingDoNotRun, EndsProperly, ImplementsTaskGraph |
| `processes` | lock: 3 processes, 3 inodes, all kinds of calls, deaths, inode reuse; worker: a task of two writing processes, or two tasks with new hashes between them; parser: 4 recipes, 2 processes, 1 killed; fetcher: 2 recipes, 2 premirrors (a directory and a http server), the URL and 2 mirrors, each with an old, a bad, another recipe's, the right or no file, 3 deaths, an I/O error, a clean | MessagesDelivered, ParseVerdictTrue, FetchedIsExpected, ImplementsLock |
| `services` | 2 clients, 2 taskhashes, 2 outhashes, 2 requests each, a crash and a time-out, or an upstream server; an upstream server that goes down, 1 request each; PR service: 2 servers, 4 requests, an export and import, both modes; RPC: 4 calls, 2 of them long, made whether an earlier one raised or not | OneUnihash, ValuesKept, AnswersMatch, UnihashesKept |
| `server` | 2 user interfaces and a killer, or 2 with time-outs, 2-3 servers, 1 crash, processes that keep a lock; cooker: 2 clients of 2 commands, configuration and recipes that change at any time, also between being read and being watched | OneServer, ServerReachable, CommandsSeeChanges, CommandsRunSafely, PatientRunsSafely |
| `ends` | smaller instances of run queue, server process, cooker and parser, under fairness | BuildEnds, EverybodyEnds, CommandsEnd, ParseEnds |
| `pef_trap`, `pef_persistent`, `planning_conflict`, `worker_adjacent` | statements of the repository the code does not keep | section 5 |

Only the PEF runs switch deadlock checking off: with the budgets used up and the
queue empty those daemons wait. The BitBake modules say explicitly when they have
come to an end, so that a deadlock there is an error; the one exception is
`ServerHangs` of MCProcesses, a server that waits for a parser process which forgot
its signal (section 5, `DefersSignals`).

The MC modules state several properties as conjunctions of the parts' own:

* `ChoicesCorrect`: BestProvider, BuildAgreesWithBest, OnePerRecipe,
  RuntimePreferred of ProviderLookup.
* `GraphCorrect`: the collated, recursive, cycle and weight results of
  RunQueuePrepare equal reference definitions by transitive closure, and pruning
  drops no task that a remaining one needs. `SceneQueueCorrect`: the same for
  SceneQueueBuild.
* `AdmissionCorrect`: BB_NUMBER_THREADS, number_threads and shared stamps.
  `OrderCorrect`: every task has a priority, and the scheduler leaves none out
  unless one failed.
* `WaitingDoNotRun`: a setscene task runs only while those it hard-depends on are
  covered (HardDepsAvailable), and one deferred behind another multiconfig's does
  not run. `EndsProperly`: the sanity checks of `execute()` pass, a build that has
  ended is idle, and the same build, called again, finds the stamps it needs.
* `MessagesDelivered`: events before exit, the cooker survives its worker,
  nothing lost at quit, no exit on its own, hashes before the task that needs them.
* `OneUnihash`: tasks first reported with one output have one unihash, and clients
  are told one unihash for a taskhash (EquivalentOutputs, AnswersAgree).
  `UnihashesKept`: a unihash never changes, and backfill-wait answers only when
  what clients were told is in the table.
* `CommandsRunSafely`: a shutdown is heeded, a command that needs the cache runs
  on a complete one, no parser with work left is dropped, each under the
  conditions its comment gives reasons for; `PatientRunsSafely` asks the same of
  an instance whose clients wait for their commands.
* `AnswersMatch`: a call raises or returns the answer to its own request; only at or
  after a call that raised may one return the late answer to an earlier call.
* `CommandsSeeChanges` is about changes the server was told of (an inotify event that
  was sent, whether read or not), or that were there when it read the file. What
  changes between the reading and the watch is nobody's event (section 5).
* `EverybodyEnds`: every user interface gets its session or an error, and then no
  server runs and the lock is free, unless processes that a server forked keep it.
* `ParseVerdictTrue` and `ValuesKept` likewise. The type
  invariant of a component is a conjunct of one of its properties, or is proved
  (section 4).

What would break the others: `ActionsPermitted`, a permission cached across a
blocking call (each permission an action needs was given at some moment since
the event was sent; the code reads them one by one and cannot promise more);
`ChangesReachFile` and `EventuallySaved`, a monitor that writes a stale
document; `ArmedTimerIsServed`, a countdown that swallows a timer armed anew;
`SetsceneExclusive`, a hold-off set that is one task short (the loop under "If
covered tasks are running, need to wait for them to complete" has no effect);
`ServerReachable`, an exiting server that removes its successor's socket;
`FetchedIsExpected`, a done stamp trusted for another file.

*Refinement.* RunQueue implements TaskGraph (a task begins once, after all it
depends on is finished, and stays finished), and LockFile implements SharedLock
(one exclusive holder or any number of shared ones).

*Fairness.* Weak fairness of everything a process does by itself: the daemon's
thread, the restarts (`Restart=always` in both unit files), the server loop, the
idle functions, the parser's processes and feeder threads. Tasks and commands
end, successfully or not; a run queue under a command ends even if the command
is re-examined between its passes (strong fairness of `BuildFinishes`, which
stands for many steps of the run queue that `BuildEnds` shows to end). A server
notices that nobody came for 30 s. Nothing is assumed of clients, files, signals
or faults.

*Bounds.* Each counter of inputs or faults has a named constant. They are large
enough for the orders that matter: a change, a change back and a crash in between;
two faults in a row; a second owner for every resource and a third who comes
late (locks); a repeat after a repeat. Three tasks hold chains, forks and joins;
the fourth in the setscene queue holds a path around a setscene task.

## 4. Proofs

For all values of the constants, under the assumptions named in the modules that
declare them. These give constants their types (`ConfigAssumption`,
`TaskAssumption`, `MailAssumption`, `BitsAssumption`, `LockFileAssumption`,
`ServerAssumption`, `RpcAssumption`, `PrAssumption`, `HashAssumption`,
`FetchAssumption`, `ParserAssumption`, `CookerAssumption`,
`SchedulerAssumption`; `QueuesAssumption`: the graph of a queue is over `Tasks` and
the queue has its tables),
keep the special values (`None`, `Torn` ...) out of the sets
they are added to, and bound no set (a queue's tasks, parser processes and recipes to
parse are finitely many); TLC evaluates each of them in a run. `TaskData` needs
none.

| Module | Theorems | Stated of a run's property |
|---|---|---|
| `PefMonitors_proof` | MonitorTypeTheorem, ChangesReachFileTheorem, ArmedTimerIsServedTheorem, TornOnlyByFaultTheorem | ChangesReachFile, ArmedTimerIsServed |
| `PefAlerting_proof` | ActionsInEventOrderTheorem, NoActionTwiceTheorem, OffExcludesResetTheorem, ActionsPermittedTheorem, MonitorsAmongTasksTheorem, DataMatchTheorem, MailTypeTheorem, ConfigSurvivesRestartTheorem, TornFileMeansNoMailTheorem | ActionsInEventOrder, NoActionTwice, OffExcludesReset, ActionsPermitted, DataMatchCorrect, ConfigSurvivesRestart, TornFileMeansNoMail |
| `Processes_proof` | MutualExclusionTheorem, ImplementsLockTheorem, FetchTypeTheorem, FetchedIsExpectedTheorem, ParseVerdictTheorem | ImplementsLock, FetchedIsExpected, ParseVerdictTrue |
| `ProcessServer_proof` | ServerTypeTheorem, OneServerTheorem, ServerReachableTheorem | OneServer, ServerReachable |
| `Services_proof` | RpcTypeTheorem, AnswersMatchTheorem, PrTypeTheorem, ValuesKeptTheorem, HashTypeTheorem, UnihashesKeptTheorem, OneUnihashTheorem | AnswersMatch, ValuesKept, UnihashesKept, OneUnihash |
| `Cooker_proof` | CommandsSeeChangesTheorem, CommandsRunSafelyTheorem | CommandsSeeChanges, CommandsRunSafely |
| `Planning_proof` | ClosedTheorem, AdmissionCorrectTheorem | Closed, AdmissionCorrect |
| `RunQueue_proof` | ImplementsTaskGraphTheorem, BuildIsDownwardClosed, CompleteMeansAllTheorem, SetsceneExclusiveTheorem, CoveredOnceTheorem | ImplementsTaskGraph, CompleteMeansAll, SetsceneExclusive, CoveredOnce |

Six theorems have a hypothesis on a constant that switches a behaviour on. Of
four, section 5 says what happens with it: `MutualExclusionTheorem` and
`ImplementsLockTheorem` need that flock() converts a lock atomically
(`AtomicConversion`), the PR theorems that a server is not killed between
answer and commit (`~Crashes`). `SetsceneExclusiveTheorem` has one on the queues
(`NoHardMigration`): no setscene task hard-depends on another, or no task reports a
changed hash. With both, and stamps left by earlier builds, a task that has begun
may be settled by the failure of one it hard-depends on, after a migration opened
that one again; the invariant does not rule this out. TLC finds no violation
where both happen (the migrations of the run `runqueue`), but nothing is proved of it.
`CoveredOnceTheorem` needs `NoHardTwins` besides: no queue has both hard dependencies
and setscene tasks deferred behind the same task of another multiconfig. With both
the code puts a task in both sets (runqueue.py:2556, section 5).

No property above is inductive as it stands. What was added, and why:

*PefMonitors.* `ChangesReachFile` says nothing while a signal is queued or a write
is under way. `SaveInv` strengthens it: for every watched property whose change
was not lost, the latest queued signal carries the current value, and without one
the document (the data being written, or else the file) holds it.
`WriteMeansTorn` is needed because a crash during a save makes `SaveInv` void only
if the file is indeed torn then; `ArmInv` says which value the queued timer signal
carries, because a queued 0 would not be served.

*PefAlerting.* Order needs that the events in the daemon's queue are sorted, come
after the one in hand, and that this one is not before any action performed.
`NoActionTwice` needs the lists of the loops (`Loops`, `Passed`): they rise, and
whatever was performed for the event in hand belongs to entries, policies and
recipients the loops have passed. `ActionsPermitted`
needs, at each control point, which of the permissions an action requires have
been found already (`Allowed`), as facts about `seen`, which only grows. `MonitorsAmongTasks`
carries the monitors' invariants over to the whole daemon: the steps of a task
leave the file alone, and where they set a property they are client writes to the
monitors.

*LockFile.* Two processes may hold locks on two inodes of one name, as long as at
most one of them is past its comparison. The invariant says, by control point,
what a process has open and locked, that flock's rule holds per inode, and that a
process past the comparison has locked the inode that is now under the name:
nobody can remove it without the exclusive lock on that same inode.

*Fetcher.* A download that goes through has verified the file in place, or trusts
a done stamp. `StampTrue` says that a stamp that counts (it is there and not older
than the file) is of the contents in place, whoever was killed where. It is kept
because there is no stamp while sources are tried (`At`), so that update_stamp,
which only touches a stamp that exists, cannot make an old one count for a new
file, nor for what a mirror put in place unchecked: that is checked against the
recipe at the end (`LastUpdate`), or, of a premirror, right after it (`EarlyUpdate`).
That one task is inside download() at a time is part of the type.

*CookerParser.* That a result is added once needs that every recipe is in one
place on its way from its process to the caches: not begun, in hand, in a feeder's
buffer, in the queue, or added (`Once`). Results are written in two halves by
several feeders; `Alternate` and `Matched` say that the halves stay in pairs. That
"died" is true needs that no recipe is lost on the way while nobody was killed
(`NoneLost`) and that a process that has ended has written everything (`Gone`). The
theorem also covers feeders killed between two halves (`TornWrites`), which the
runs leave out because get() then waits for ever (section 5).

*Cooker.* Most of `CookerInv` is about the cooker's record alone, and is shown of
each method before the actions are followed: `Shape` (one idle function while a
command is in progress, the build's if there is a run queue), `Fresh` (a
configuration or cache that counts as valid is the newest one the server was told of
or read, or an event that says otherwise has not been read; nothing it was told of is
newer than the disk), `Seen` (what a command in progress works with is as
new as the command). `Whole`, `Heeded`, `Waits` and `Kept` carry the parts of
`CommandsRunSafely`, under the conditions it names: without them the code fails it,
as section 5 says of each.

*TaskData.* `Closed` speaks of a resolution that is over. On the way there a file
that stays may depend on a failed target, but then the removal of that target is on
the stack (`FailedDepsFail`); a failed file may be in a provider list, but then the
frame that takes it out is on the stack (`FailedFilesGo`); and while a loop does not
know that it has to go round again, every unresolved target is still before it
(`NothingMissed`). An exception clears the stack, which breaks the first two: hence
`Fine`, which excludes a command that gives up a required target (`GivenUp`).

*Scheduler.* A failed task still counts against number_threads, so the limit that
is inductive is on all tasks of a name that were started and did not complete
(`StartedBounded`), which is what next_buildable_task counts.

*RunQueue.* A pass of the server is a long composition of methods on one record, so
the proof follows the code: of each method it is shown once what it does to the few
fields the order of tasks depends on. Most (scene queue counters, stamps, hold-off,
migrations) leave them as they are, which is `SameRuns`; reading messages only adds
finished tasks (`Reads`); what execute() takes up begins tasks of which `RunsOK`
says that their dependencies are finished (runq_buildable holds no other).
TaskGraph lets a task begin once, and a task finishes when a message says so. What
has to be invariant is therefore who may still report: `Awaited` says that a task
which has not begun is known to the workers, and to the unread messages, only as
one live setscene task; without it a late answer of a setscene task would count as
the end of its own task. `Honest`, for `CompleteMeansAll`: a build is cleaned up only
after a failure, and complete only with every task done, unless it was interrupted,
or BB_SETSCENE_ENFORCE or a setscene-only build ends it on purpose. Then each pass
is one step of TaskGraph, and `BuildIsDownwardClosed` follows from TaskGraph alone.

For `SetsceneExclusive` it is not enough that nothing of a running setscene task's
work runs: it must not begin before the task has ended. While a build runs,
therefore, no setscene task still open (neither covered nor notcovered) has work
under way, and all of that work is in holdoff_tasks, or those are due to be made anew
before anything else begins (`Rest`; `Ready` inside a pass). A pass only settles
setscene tasks and finishes others (`Calm`), except where a migration opens some
again, which must not have begun. What is live is open and in no defer
list (`Scene`), and every process runs one task, under way or live, and reports it
once (`Single`).

For `CoveredOnce`, `Scene` has a last part, `Verdicts`: covered and uncovered share
no task, and none that is deferred is uncovered, since the end of the task it waits
for will cover it. A method gives a verdict only to open tasks, whatever the order of
answers, skips and failures, and a migration takes both verdicts back at once. The
exception is a failure that passes along hard dependencies to a deferred task; hence,
where there are hard dependencies, nothing is deferred (`Apart`).

*ProcessServer.* That a server which starts, or removes the socket on its way out,
meets no other needs the lock: `LockHeld` says that it passes from the user
interface that has waited for it to the server it forks, and stays there until the
socket file is gone.

*AsyncRPC.* While nothing has been raised the connection carries nothing but the
call being made: its request, or a rest of its answer (`ConnectionInv`). Every error
path but the last attempt's closes the connection, which is what the mutant of the
run removes. Once a call has raised, the connection may still carry earlier calls:
whatever is on it and is not the current call's (`Owed`) belongs to a call that
raised, or came after one that did (`Blamed`).

*PRServ.* Values are compared with the maximum of a column, so a maximum has to
exist: no value exceeds the number of answers given (`Bounded`). The invariant
ties every row to the answer that made it or the import that brought it, and the
table in memory to the one on disk outside of an import.

*HashServ.* `HashInv`: unihashes are committed in the step that inserts them
(`UniCommitted`), so that a crash takes none back; what clients were told, or is in
a socket on its way to them, is in the table, or queued, or in the worker's hands
(`ToldIsKept`); what is queued is known upstream (`KnownUpstream`), or the worker
would drop it and backfill-wait would answer too early. `AloneInv`, without an
upstream: every answer is the one of the tables; rows are dated in the order of
their reports and no two alike (`RowsDated`); a task has the unihash of the first
task with its first output (`OfFirstOutput`): a new row is never the first of its
output unless it is the only one, and a task with a row has a unihash, so that a
later report does not move it.

The library's induction theorems cannot be used by the provers at hand; where a
proof needs the least element of a set of numbers (the oldest row, the largest
value, the first message at which a claim about the messages read so far fails),
`LeastNat` in `Services_proof` and `RunQueue_proof` has it from the well-foundedness
of < on Nat.

*Only model-checked:* liveness under fairness (EventuallySaved, EventsHandled,
BuildEnds, EverybodyEnds, CommandsEnd, ParseEnds); `ChoicesCorrect`,
`GraphCorrect` and `SceneQueueCorrect` of the planning modules, and the priority
maps of `OrderCorrect`, which compare a computation with a reference definition
(transitive closure, sorting) and need induction over data;
`WaitingDoNotRun` and `EndsProperly` of RunQueue: whether a setscene task's stamp is
current (`check_stamp_task`, recursive over dependencies) may change while it is open,
and the sanity checks rest on what scenequeue_updatecounters reaches by recursion,
of which `RunInv` and `SceneInv` say nothing; `MessagesDelivered` of Worker, whose
readers take a stream apart by repetition.
`PatientRunsSafely` is `CommandsRunSafely` of a second instance, which the theorem
covers with every other.

## 5. Where code and documentation disagree

With a run (`findings` in PROJECT.json quotes both sides):

* `pef_persistent`: DestinationSelectorTable has no monitor, so destination types
  are lost at a restart.
* `pef_trap`: a destination that cannot be read counts as type 0, SNMP.
* `planning_conflict`: the loop that looks for conflicting preferences removes
  from the list it runs over and passes over the second recipe.
* `worker_adjacent`: a runtask, newtaskhashes and a runtask message in one read
  make the worker unpickle from the wrong place and exit.

Met while modelling, without a run of their own; the models contain the
behaviour, and the constants of the runs or the wording of the properties leave it
out:

* PEF: `pef_action.cpp:790` assigns where a comparison is meant, so countdown
  values do not suspend PEF, only 0xFE does. SendMail returns 0 when the SMTP
  session cannot be started. Filter entry 40 is never scanned. 0xFE written
  during a countdown is overwritten at its end. A torn file is never repaired;
  changes made while the event filtering daemon is down are not saved.
* Run queue (`runqueue.py`): a failed task counts against number_threads for the
  rest of the build (233); the merged order of the completion scheduler need not
  contain each recipe's order (376); the basic scheduler's map is a list of one
  dict view, and its look-up raises (151); a task that BB_SETSCENE_ENFORCE
  ignores is failed although it never ran, so more tasks than BB_NUMBER_THREADS
  run, with --continue the build never ends, and a failing setscene task ends it
  early (2194): the enforce part is left out of `CompleteMeansAll` and of the idle end; a deferred
  setscene task failed through a hard dependency stays deferred and is covered
  later as well (2556): the multiconfig part has no hard dependencies.
* Worker (`bitbake-worker`): a task's event that contains the closing tag fails
  an assertion (353; `TagInside`); finishnow misses a task just forked (522);
  `worker_flush` never gives up when the cooker is gone (111).
* Lock files (`utils.py:524`): flock(2) does not promise an atomic conversion,
  without which two processes can hold the lock (`AtomicConversion = FALSE`).
* Hash equivalence server (`server.py`): with an upstream server two reports of
  one output may get two unihashes (425) and clients two answers for a taskhash
  (355), so `OneUnihash` speaks of servers without one; the backfill worker ends
  for good after four failed attempts (540), and backfill-wait then waits until
  its client times out.
* PR service (`serv.py:44`): the answer is written before the commit; a server
  killed in between returns a smaller value later (`Crashes`).
* asyncrpc (`client.py:79`): after the last failed attempt the connection stays
  open, and a caller that goes on with the client (`siggen.py:588, 667, 707`) reads a
  late answer as its own: the exception that `AnswersMatch` names.
* Server process (`process.py:168`): terminateServer is lost when the server sees
  the closed connection first; a server with a time-out then stays. Processes that a
  server forked have its lock open and may keep it, and the server waits for them
  (271-333); until they end, nobody gets a server.
* Cooker (`cooker.py`): updateCache overwrites a shutdown a signal asked for
  (1678; `MaxSignals`), setFeatures resets under a running build whose client
  has gone (1780), a client finds the completion of an earlier one's command in
  its queue (`command.py:150`), parseConfiguration during parsing leaves a
  command with recipes missing (470).
* Cooker, files that change while they are read: the watch on a file begins after the
  file was read (the configuration: 360, 389, 404; the directories of recipes: 1664,
  1672; what a recipe depends on, only when its result is added), and a change in
  between is never heard of. Modification times are kept until an event of the file
  (`parse/__init__.py:49`), so that a new parser may take an older recipe for the
  current one. The model has both (`Becomes`, `RecipesRead`); `CommandsSeeChanges`
  speaks of the changes that were told or read.
* Parser (`cooker.py:2306`): a process killed inside a write leaves half a result,
  and get() waits for the rest without limit (`TornWrites`).
* Parser (`server/process.py:760`): a SIGTERM that reaches a parser process while it
  sends an event is put off until it has left the critical section, and then lost:
  `signal_received.pop()` is one number, the TypeError of the loop over it is not the
  IndexError that is caught, and `fire_ui_handlers` swallows it. shutdown() joins the
  process without a time-out (`cooker.py:2256`), and for ever if the result pipe, which
  nobody reads any more, is full or locked by a process that was terminated, although
  the comment says "We must not terminate holding this lock else processes will hang.
  For SIGTERM, raising afterwards avoids this." With `DefersSignals = TRUE` TLC finds
  `ParseEnds` violated; the run `ends` has FALSE. The run `processes` and
  `ParseVerdictTheorem` allow it.
* Providers and taskdata: a missing required version does not stop the build if
  an earlier recipe has a preferred version (`providers.py:266`); an unbuildable
  first provider takes the target away from a buildable second one
  (`taskdata.py:380`); task dependencies on failed targets are not
  looked at when a recipe is added later (157).
* taskdata, without --continue: a target the user asked for turns out not to be
  buildable while add_unresolved resolves something else. remove_buildtarget raises
  NoProvider, but the handler in add_unresolved takes it for one about the target in
  its hands (`taskdata.py:520`), which is removed instead, and the command goes on
  without the required target. What fail_fn and remove_buildtarget had yet to do is
  not done: a failed file can stay the provider of a target that another recipe
  depends on, and the run queue builds it. `GivenUpInputs` of MCPlanning has such
  recipes (run against the Python code, they give the same result); `Closed` and
  its theorem exclude the case (`GivenUp`).
* Fetcher (`fetch2/__init__.py`): the handler of IOError drops every error but
  ESTALE (1800); verify_donestamp renames a good file of another recipe (733);
  a bad checksum of a file:// mirror renames the mirror's own file (1088); a
  mirror's file is put in place without a look at its checksum (983), and with the
  wrong one in MIRRORS the download fails (1798) although another mirror may have the
  right file; after a wrong one of a premirror the other premirrors are not tried (1745).

## 6. Plan

Done: the modules and runs above, two refinements, eight proof modules.

1. *Proofs*: `MessagesDelivered` of Worker; `WaitingDoNotRun` and `EndsProperly` of
   RunQueue, and `SetsceneExclusive` without its hypothesis, starting from
   `SceneInv`; that pruning keeps what is needed.
2. *PEF*: the sensor helper methods (SetFilterEnable is a read-modify-write over
   two calls), the sensor number map, an abstract specification of alerting, the
   composition with MailAlert.
3. *BitBake*: signature generators as far as the run queue uses them, event
   queues of user interfaces, memory of the stamp cache, the XML-RPC server,
   version control fetchers' shared clones.

## 7. Not modelled, and the limits of what is

The map covers about 6,200 of 139,000 lines of Python (4.5 %), and the PEF code
in C++. The rest is mostly not the subject of a state model: vendored libraries
(ply, BeautifulSoup, pyinotify), Toaster, test suites (OEQA, BitBake's own),
devtool and recipetool, which edit text in sequence, layers and recipes of third
parties. BitBake's data store, parser and code analysis compute on text. Out of
the repository: phosphor-snmp, libesmtp, the power control service and the
Redfish and IPMI front ends, which the models let do anything their interface
allows.

Left out of modelled parts:

* PEF: tables nothing in the alerting path reads; filter fields no client changes
  are the constant `Criteria`; wording of mails and traps.
* RunQueue: the stamp cache, --dump-signatures, stamps shared between multiconfigs
  (Scheduler has them), tasks that stamp themselves (`selfstamp`). A worker that is gone
  is noticed while messages are read (3107), in the middle of a pass whose rest still
  runs; here that is a step of its own (`FinishNow`), so that what the rest of the pass
  does is a pass before it. Setscene candidates and buildable tasks are taken in any
  order; the priority rules are in Scheduler.
* RunQueuePrepare: multiconfig dependencies, provider warnings, -f and -C. Its
  statement on recursive dependencies is about recipes whose recursive tasks list
  the same tasks.
* Worker: a failing fork, configuration messages; the processes of a task die
  together; a stream is cut between tokens (tag, body, tag). That
  it does not exit on its own is checked with pipes too short for adjacent messages,
  because of `worker_adjacent`.
* HashServ: connections to the upstream server are opened by the first request on
  them (`asyncrpc/client.py:66`), so that handlers and the worker start while it is
  down. One method, no statistics, no read-only servers; the upstream server
  has none itself; `created` comes from one clock. PRServ: a version and its
  architecture are one key; no read-only servers.
* ProcessServer: starting and stopping take less than 5 s and connecting less
  than 30 s unless a time-out is spent; the 8 attempts are 2 or 3 (three user
  interfaces can use up all 8); no XML-RPC, no listen backlog. The processes that
  keep a lock keep the socket open too: after a crash a connect would succeed and the
  handshake fail after 60 s; here the connect fails.
* Cooker: memory-resident servers, no parse errors of the base configuration, no
  exceptions of idle functions; the parsed statements of classes and .inc files that
  BBHandler keeps (`BBHandler.py:80`); what a command computes. `Patient` clients wait
  for their commands.
* CookerParser: saving the cache at exit and the sync thread. A result is written
  in two halves. The lock of the event pipe is not modelled: SIGKILL inside the section
  that defers signals (`process.py:754`) would leave it locked, and other processes
  waiting for it.
* TaskData: multiconfig dependencies, order of provider lists;
  getRuntimeProviders and packages_dynamic are the table rproviders.
* Fetcher: one file name, wget and local methods; BB_NO_NETWORK, mirror tarballs,
  recipes without checksums, ESTALE are left out.
* The whole is not composed: RunQueue takes the worker's messages as delivered in
  order, which Worker shows, and the graphs SceneQueueBuild shows to be right.

Out of this prover's reach and left to TLC: liveness and ENABLED, induction over
data, RECURSIVE operators.
