------------------------------- MODULE Cooker -------------------------------
(***************************************************************************)
(* The cooker of a server that stays resident: its state, the commands of  *)
(* its clients (lib/bb/command.py), the idle functions that run them       *)
(* (lib/bb/server/process.py), and what invalidates configuration and      *)
(* recipe cache (lib/bb/cooker.py).                                        *)
(*                                                                         *)
(* The server has one thread.  In every pass of its loop it handles at     *)
(* most one command or disconnection and then calls each idle function     *)
(* once; files change and signals arrive at any time.  Files are read first *)
(* and watched afterwards, and a change in between is never heard of.      *)
(* Left out are the parsed statements of classes and .inc files, which     *)
(* BBHandler keeps from one reading to the next.                           *)
(***************************************************************************)
EXTENDS Naturals, Sequences, FiniteSets

CONSTANTS
  MaxClients,       \* clients, one after the other
  MaxCommands,      \* asynchronous commands of each
  MaxConfChanges, MaxRecipeChanges, MaxSignals,
  NumRecipes,
  Patient,          \* clients stay until their command is completed
  SyncCommands,     \* the synchronous commands clients use
  AsyncCommands     \* and the asynchronous ones

ASSUME CookerAssumption ==
  /\ MaxClients \in Nat /\ MaxCommands \in Nat /\ NumRecipes \in Nat
  /\ MaxConfChanges \in Nat /\ MaxRecipeChanges \in Nat /\ MaxSignals \in Nat
  /\ Patient \in BOOLEAN
  /\ "none" \notin AsyncCommands

VARIABLES
  ck,        \* the cooker and its Command object
  todo,      \* the idle functions still to be called in this pass
  disk,      \* versions of the configuration and of the recipes in the file system
  client,    \* the last client: its number, whether it is connected, what it
             \* said of itself, how many commands it sent, whether it waits for
             \* one, and the completions it has not read
  signals

cookerVars == <<ck, todo, disk, client, signals>>

NoCommand == [cmd |-> "none", by |-> 0, since |-> [conf |-> 0, rec |-> 0]]
NewClient(id) == [id |-> id, on |-> TRUE, said |-> {}, sent |-> 0, waiting |-> FALSE, events |-> <<>>]

\* Commands with needcache = True, and those that start a run queue
NeedCache == {"buildTargets", "showVersions"}
Builds == {"buildTargets", "buildFile"}
Stopping == {"shutdown", "forceshutdown"}

\* base, cache: baseconfig_valid and parsecache_valid; conf: the version in
\* self.data; rec, have: version and number of the recipes in recipecaches;
\* ev: unread inotify events; parser: none, live or shut down, with processes
\* (procs) or everything from its cache; updating: updateCache() is past its tests.
\* The others record what happened: a shutdown the command in progress has not
\* been told of (asked); a live parser dropped (abandoned); the newest versions
\* that were read, that an event was sent of, or that nothing was read of before
\* (due); the files that a step has read and not watched yet (read).
NewCooker ==
  [st |-> "initial", data |-> FALSE, base |-> FALSE, cache |-> FALSE,
   conf |-> 0, rec |-> 0, have |-> 0, ev |-> {},
   parser |-> "none", procs |-> FALSE, left |-> 0, err |-> FALSE, updating |-> FALSE,
   current |-> NoCommand, idle |-> {}, rq |-> "none",
   asked |-> FALSE, abandoned |-> FALSE, due |-> [conf |-> 1, rec |-> 1], read |-> {}]

CookerInit ==
  /\ ck = NewCooker
  /\ todo = {}
  /\ disk = [conf |-> 1, rec |-> 1]
  /\ client = [NewClient(0) EXCEPT !.on = FALSE]
  /\ signals = 0

Versions == [conf : Nat, rec : Nat]
Command == [cmd : AsyncCommands \cup {"none"}, by : Nat, since : Versions]

CookerState ==
  [st : {"initial", "parsing", "running"} \cup Stopping,
   data : BOOLEAN, base : BOOLEAN, cache : BOOLEAN,
   conf : Nat, rec : Nat, have : Nat, ev : SUBSET {"conf", "rec"},
   parser : {"none", "live", "down"}, procs : BOOLEAN, left : Nat, err : BOOLEAN,
   updating : BOOLEAN, current : Command, idle : SUBSET {"run", "build"},
   rq : {"none", "running", "finishing"}, asked : BOOLEAN, abandoned : BOOLEAN,
   due : Versions, read : SUBSET {"conf", "rec"}]

ClientState ==
  [id : Nat, on : BOOLEAN, said : SUBSET {"setFeatures", "updateConfig"}, sent : Nat,
   waiting : BOOLEAN, events : Seq(Nat)]

CookerTypeOK ==
  /\ ck \in CookerState /\ disk \in Versions /\ client \in ClientState /\ signals \in Nat
  /\ ck.left + ck.have <= NumRecipes
  /\ ck.due.conf <= disk.conf /\ ck.due.rec <= disk.rec /\ ck.read = {}
  /\ todo \subseteq ck.idle
  /\ ck.rq # "none" <=> "build" \in ck.idle
  /\ ck.current = NoCommand <=> ck.idle = {}
  /\ ck.asked => ck.current # NoCommand
  /\ client.waiting => client.on
-----------------------------------------------------------------------------
(* Methods of BBCooker, as functions of its state *)

InitConfigurationData(c) ==
  [c EXCEPT !.st = "initial", !.data = TRUE, !.base = TRUE, !.cache = FALSE,
            !.conf = disk.conf, !.ev = @ \ {"conf"},
            !.due = [@ EXCEPT !.conf = disk.conf], !.read = @ \cup {"conf"}]

InitConfigdata(c) == IF c.data THEN c ELSE InitConfigurationData(c)

\* Mutant: changed recipes are not noticed
ProcessInotifyUpdates_OnlyConf(c) ==
  [c EXCEPT !.base = @ /\ "conf" \notin c.ev, !.ev = {}]

ProcessInotifyUpdates(c) ==
  [c EXCEPT !.base = @ /\ "conf" \notin c.ev, !.cache = @ /\ "rec" \notin c.ev, !.ev = {}]

UpdateCacheSync(c) ==
  IF c.st # "running" /\ ~c.base THEN InitConfigurationData(c) ELSE c

\* The recipe caches are emptied
ParseConfiguration(c) == [UpdateCacheSync(c) EXCEPT !.have = 0, !.cache = FALSE]

\* Mutant: only a parser at its end is shut down
ParserShutdown_AtEnd(c) == IF c.procs /\ c.left = 0 THEN [c EXCEPT !.parser = "down"] ELSE c

\* CookerParser.shutdown does nothing unless there are processes
ParserShutdown(c) == IF c.procs THEN [c EXCEPT !.parser = "down"] ELSE c

Shutdown(c, force) ==
  [ParserShutdown(c) EXCEPT !.st = IF force THEN "forceshutdown" ELSE "shutdown",
                            !.asked = @ \/ c.current # NoCommand]

ClientComplete(c) == [c EXCEPT !.st = "initial", !.cache = FALSE, !.base = FALSE]

\* Mutant: the command stays the current one after a failure
FinishAsyncCommand_KeepsCommand(c) == [c EXCEPT !.asked = FALSE, !.st = "initial"]

FinishAsyncCommand(c) ==
  [c EXCEPT !.current = NoCommand, !.asked = FALSE, !.st = "initial"]

\* What a new parser takes for the recipes: those on the disk, or the old ones as
\* long as nothing was heard of a change (the modification times bb.parse keeps)
RecipesRead == {disk.rec} \cup ({ck.rec} \cap {ck.due.rec})

\* Every recipe is read from the cache file or parsed by a new set of processes
NewParser(c, procs, rec) ==
  [ParseConfiguration(c) EXCEPT !.cache = TRUE, !.parser = "live", !.procs = procs,
     !.left = NumRecipes, !.err = FALSE, !.rec = rec, !.ev = @ \ {"rec"},
     !.due = [@ EXCEPT !.rec = rec], !.read = @ \cup {"rec"},
     !.abandoned = @ \/ (c.parser = "live" /\ c.procs /\ c.left > 0)]

\* updateCache up to the assignment of state.parsing
UpdateCache(c, procs, rec) ==
  LET synced == IF c.st # "parsing" THEN UpdateCacheSync(c) ELSE c
  IN  [(IF synced.st # "parsing" /\ ~synced.cache THEN NewParser(synced, procs, rec) ELSE synced)
         EXCEPT !.updating = TRUE]
-----------------------------------------------------------------------------
(* One pass of the server: a command, then the idle functions *)

InCommandPhase == todo = {} /\ ~ck.updating

\* The files at the end of a step: those that were read and are only then watched
\* may have changed in between
Later(f, read, changes) == disk[f] .. (IF f \in read THEN changes + 1 ELSE disk[f])
Becomes(c) ==
  /\ ck' = [c EXCEPT !.read = {}]
  /\ disk' \in [conf : Later("conf", c.read, MaxConfChanges),
                rec : Later("rec", c.read, MaxRecipeChanges)]

\* The next pass calls the functions that are registered then
Pass(c) == Becomes(c) /\ todo' = c.idle

ConnectClient ==
  /\ InCommandPhase /\ ~client.on /\ client.id < MaxClients
  /\ client' = NewClient(client.id + 1)
  /\ Pass(ck)
  /\ UNCHANGED signals

\* What a synchronous command does after the cooker is ready for commands
Method(c, cmd) ==
  CASE cmd = "setFeatures" /\ c.st \in Stopping \cup {"initial"} ->
         IF c.data THEN InitConfigurationData(c) ELSE c
    [] cmd = "updateConfig" -> InitConfigurationData(c)
    [] cmd = "parseConfiguration" -> ParseConfiguration(c)
    [] cmd = "stateShutdown" -> Shutdown(UpdateCacheSync(c), FALSE)
    [] cmd = "stateForceShutdown" -> Shutdown(UpdateCacheSync(c), TRUE)
    [] cmd = "getVariable" -> UpdateCacheSync(c)
    [] OTHER -> c

\* A changed feature set and a changed environment reset the cooker; both are
\* sent once, and the configuration is asked for, before any other command
Preamble == {"setFeatures", "updateConfig"}

\* runCommand of a synchronous command
RunSync(cmd) ==
  /\ InCommandPhase /\ client.on
  /\ cmd \in Preamble \cup {"parseConfiguration"} => client.sent = 0
  /\ cmd \notin client.said
  /\ client' = [client EXCEPT !.said = @ \cup (Preamble \cap {cmd})]
  /\ LET ready == IF cmd \in Preamble THEN ck ELSE InitConfigdata(ck)
     IN  Pass(Method(ProcessInotifyUpdates(ready), cmd))
  /\ UNCHANGED signals

\* runCommand of an asynchronous command: taken, or "Busy"
RunAsync(cmd) ==
  /\ InCommandPhase /\ client.on /\ ~client.waiting /\ client.sent < MaxCommands
  /\ LET ready == InitConfigdata(ck) IN
     IF ready.current # NoCommand
     THEN /\ Pass(ready)
          /\ client' = [client EXCEPT !.sent = MaxCommands]
     ELSE /\ Pass([ready EXCEPT !.current = [cmd |-> cmd, by |-> client.id, since |-> ready.due],
                                !.idle = @ \cup {"run"}])
          /\ client' = [client EXCEPT !.sent = @ + 1, !.waiting = cmd # "triggerEvent"]
  /\ UNCHANGED signals

\* disconnect_client: the client goes, at any time
Disconnect ==
  /\ InCommandPhase /\ client.on /\ (Patient => ~client.waiting)
  /\ Pass(ClientComplete(ck))
  /\ client' = [client EXCEPT !.on = FALSE, !.said = {}, !.waiting = FALSE, !.events = <<>>]
  /\ UNCHANGED signals

\* The client reads the event that its command is completed
ReadEvent ==
  /\ client.waiting /\ client.events # <<>>
  /\ client' = [client EXCEPT !.waiting = FALSE, !.events = Tail(@)]
  /\ UNCHANGED <<ck, todo, disk, signals>>

\* A pass without a command
NoCommandArrives ==
  /\ InCommandPhase /\ ck.idle # {}
  /\ Pass(ck)
  /\ UNCHANGED <<client, signals>>

\* An idle function returns; it is removed if it returned False
Called(f, c, keep) ==
  /\ Becomes(IF keep THEN c ELSE [c EXCEPT !.idle = @ \ {f}])
  /\ todo' = todo \ {f}

\* The event that ends a command goes to the client of the moment
Completion ==
  client' = IF client.on THEN [client EXCEPT !.events = Append(@, ck.current.by)] ELSE client

\* runAsyncCommand: the server is to stop, so the command fails
CommandHalted ==
  /\ "run" \in todo /\ ~ck.updating /\ ck.st \in Stopping
  /\ Called("run", FinishAsyncCommand(ParserShutdown(ProcessInotifyUpdates(ck))), FALSE)
  /\ Completion
  /\ UNCHANGED signals

\* The cache is needed and has to be checked
CommandUpdatesCache ==
  /\ "run" \in todo /\ ~ck.updating /\ ck.st \notin Stopping \cup {"running"}
  /\ ck.current.cmd \in NeedCache
  /\ \E procs \in BOOLEAN, rec \in RecipesRead :
       Becomes(UpdateCache(ProcessInotifyUpdates(ck), procs, rec))
  /\ UNCHANGED <<todo, client, signals>>

\* Mutant: the parser's errors are not counted
ParseNext_NoErrors ==
  LET c == [ck EXCEPT !.st = "parsing", !.updating = FALSE]
  IN  IF c.left > 0 /\ c.parser = "live"
      THEN [c EXCEPT !.left = @ - 1, !.have = @ + 1]
      ELSE [ParserShutdown(c) EXCEPT !.st = "running"]

\* A recipe is added, or there are no more.  A parser that was shut down before
\* its end answers with an exception for ever, and so does one that had an error.
ParseNext ==
  LET c == [ck EXCEPT !.st = "parsing", !.updating = FALSE]
  IN  CASE c.left > 0 /\ c.parser = "live" -> [c EXCEPT !.left = @ - 1, !.have = @ + 1]
        [] c.left = 0 /\ ~c.err -> [ParserShutdown(c) EXCEPT !.st = "running"]
        [] OTHER -> [c EXCEPT !.err = TRUE]

\* The rest of updateCache: state.parsing is assigned whatever the state is now
CommandParses ==
  /\ ck.updating
  /\ \/ /\ Called("run", ParseNext, TRUE)
        /\ ~ParseNext.err
        /\ UNCHANGED client
     \/ /\ ParseNext.err \/ ck.left > 0
        /\ Called("run", FinishAsyncCommand(ParserShutdown([ck EXCEPT !.updating = FALSE, !.err = TRUE])), FALSE)
        /\ Completion
  /\ UNCHANGED signals

\* The command runs: a build goes on as an idle function of its own, or cannot
\* be prepared; the others are finished at once.
CommandRuns ==
  /\ "run" \in todo /\ ~ck.updating /\ ck.st \notin Stopping
  /\ ck.current.cmd \in NeedCache => ck.st = "running"
  /\ LET c == ProcessInotifyUpdates(ck)
         cmd == c.current.cmd
         prepared == IF cmd = "buildFile" THEN ParseConfiguration(c) ELSE c
     IN  \/ /\ cmd \in Builds
            /\ Called("run", [prepared EXCEPT !.idle = @ \cup {"build"}, !.rq = "running"], FALSE)
            /\ UNCHANGED client
         \/ /\ cmd # "triggerEvent"
            /\ Called("run", FinishAsyncCommand(IF cmd = "resetCooker" THEN InitConfigurationData(c)
                                                ELSE prepared), FALSE)
            /\ Completion
         \/ /\ cmd = "triggerEvent"
            /\ Called("run", [c EXCEPT !.current = NoCommand, !.asked = FALSE], FALSE)
            /\ UNCHANGED client
  /\ UNCHANGED signals

\* buildTargetsIdle and buildFileIdle: the run queue is told to finish, and executed
Told(c) == IF c.st \in Stopping THEN [c EXCEPT !.rq = "finishing", !.asked = FALSE] ELSE c

BuildGoesOn ==
  /\ "build" \in todo
  /\ Called("build", Told(ck), TRUE)
  /\ UNCHANGED <<client, signals>>

BuildFinishes ==
  /\ "build" \in todo
  /\ LET ended == FinishAsyncCommand([Told(ck) EXCEPT !.rq = "none"])
     IN  Called("build", IF ck.current.cmd = "buildFile" THEN [ended EXCEPT !.cache = FALSE] ELSE ended,
                FALSE)
  /\ Completion
  /\ UNCHANGED signals
-----------------------------------------------------------------------------
(* The environment *)

ChangeConf ==
  /\ disk.conf <= MaxConfChanges
  /\ disk' = [disk EXCEPT !.conf = @ + 1]
  /\ ck' = [ck EXCEPT !.due = [@ EXCEPT !.conf = disk.conf + 1],
                       !.ev = @ \cup (IF ck.data THEN {"conf"} ELSE {})]
  /\ UNCHANGED <<todo, client, signals>>

\* Nothing is heard of a file a recipe depends on before its result was added
ChangeRecipe ==
  /\ disk.rec <= MaxRecipeChanges
  /\ disk' = [disk EXCEPT !.rec = @ + 1]
  /\ \/ ck' = [ck EXCEPT !.due = [@ EXCEPT !.rec = disk.rec + 1],
                          !.ev = @ \cup (IF ck.parser # "none" THEN {"rec"} ELSE {})]
     \/ ck.left > 0 /\ UNCHANGED ck
  /\ UNCHANGED <<todo, client, signals>>

\* sigterm_exception, between any two statements of the server
Sigterm ==
  /\ signals < MaxSignals
  /\ signals' = signals + 1
  /\ ck' = [ck EXCEPT !.st = "forceshutdown", !.asked = @ \/ ck.current # NoCommand]
  /\ UNCHANGED <<todo, disk, client>>

\* All clients are gone and nothing is left to do
CookerDone ==
  /\ ~client.on /\ client.id = MaxClients /\ ck.idle = {}
  /\ UNCHANGED cookerVars

Idle ==
  \/ CommandHalted \/ CommandUpdatesCache \/ CommandParses
  \/ CommandRuns \/ BuildGoesOn \/ BuildFinishes

CookerNext ==
  \/ ConnectClient \/ Disconnect \/ ReadEvent \/ NoCommandArrives
  \/ \E cmd \in SyncCommands : RunSync(cmd)
  \/ \E cmd \in AsyncCommands : RunAsync(cmd)
  \/ Idle \/ ChangeConf \/ ChangeRecipe \/ Sigterm
  \/ CookerDone

CookerSpec == CookerInit /\ [][CookerNext]_cookerVars

\* The loop goes on, and a run queue that is executed again and again ends
\* (BuildEnds of module RunQueue)
CookerFairSpec ==
  /\ CookerSpec
  /\ WF_cookerVars(NoCommandArrives) /\ WF_cookerVars(Idle) /\ SF_cookerVars(BuildFinishes)
-----------------------------------------------------------------------------
\* A command works with every change of the configuration and of the recipes that
\* the server had been told of when the command was given, or that was there when
\* it read them: events that were not read yet, a reset or a client that leaves
\* never let it go on with older files.  (A change that falls between the reading
\* and the watch is nobody's event, and not promised.)
CommandsSeeChanges ==
  ck.current # NoCommand =>
    /\ ck.current.cmd \in NeedCache /\ ck.st = "running" =>
         ck.conf >= ck.current.since.conf /\ ck.rec >= ck.current.since.rec
    /\ ck.rq # "none" => ck.conf >= ck.current.since.conf

\* A command that needs the recipe cache runs when every recipe is in it: not
\* after an error or with what an interrupted parse left.
CacheComplete ==
  ck.st = "running" /\ ck.rq = "none" /\ ck.current.cmd \in NeedCache => ck.have = NumRecipes

\* A parser is replaced when its processes have been shut down: nobody would
\* read their results or wait for them any more.
ParserNotAbandoned == ~ck.abandoned

\* A shutdown is in force until the command in progress has been told: the run
\* queue to finish, or a command that is not running yet to fail.
ShutdownHeeded == ck.asked => ck.st \in Stopping

\* What makes commands run safely.  A shutdown reaches the command in progress
\* unless a signal overtakes updateCache; the cache is complete unless
\* parseConfiguration empties it under a command that needs it, which takes a
\* second client; and no parser is abandoned where clients wait for their
\* commands and the configuration stays.
CommandsRunSafely ==
  /\ CookerTypeOK
  /\ MaxSignals = 0 => ShutdownHeeded
  /\ "parseConfiguration" \notin SyncCommands => CacheComplete
  /\ Patient /\ MaxConfChanges = 0 /\ "triggerEvent" \notin AsyncCommands =>
       ParserNotAbandoned /\ CacheComplete

\* Every command that was taken is finished, so that the server is not busy for ever.
CommandsEnd == (ck.current # NoCommand) ~> (ck.current = NoCommand)
=============================================================================
