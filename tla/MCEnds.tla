------------------------------- MODULE MCEnds --------------------------------
(***************************************************************************)
(* What must eventually happen.  A behaviour is about one of these parts,  *)
(* which `part' names; the variables of the others keep their initial      *)
(* values, and fairness is asked for the steps of the part it is about:    *)
(*   "build"     RunQueue, three tasks in a chain or a fork, options       *)
(*   "server"    ProcessServer, two user interfaces, a crash, a time-out   *)
(*   "commands"  Cooker, clients that go at any time, a signal             *)
(*   "parse"     CookerParser, three recipes and two processes             *)
(***************************************************************************)
EXTENDS RunQueueInputs

CONSTANTS Parts, UIs, DefersSignals

VARIABLES
    part,
    rqdata, rqexe, worker, pipe, rqdisk, reports, broken,
    lock, contents, sock, srv, ui, crashes, timeouts,
    ck, todo, disk, client, signals,
    ppc, jobs, work, buf, queue, wlock, quit,
    mpc, procs, parsed, empty, first, ending, kills

queueVars == <<rqdata, rqexe, worker, pipe, rqdisk, reports, broken>>
serverVars == <<lock, contents, sock, srv, ui, crashes, timeouts>>
cookerVars == <<ck, todo, disk, client, signals>>
parserVars == <<ppc, jobs, work, buf, queue, wlock, quit, mpc, procs, parsed, empty, first,
                ending, kills>>
allVars == <<part, queueVars, serverVars, cookerVars, parserVars>>

------------------------------------------------------------------------------
(* A chain and a fork, with setscene variants of the first two tasks, the
   second of which may fail with the first. *)
EndQueues ==
    {[Queue(d, {1, 2}, EndPoints(d)) EXCEPT
         !.sstate = FirstObjects(have), !.options = o, !.harddeps = h] :
        d \in {<<{}, {1}, {2}>>, <<{}, {1}, {1}>>}, have \in {{2}, {1, 2}},
        o \in {{}, {"continue"}, {"skipsetscene"}, {"setsceneonly"}},
        h \in {<<{}, {}, {}>>, <<{2}, {}, {}>>}}

Build == INSTANCE RunQueue WITH
    Tasks <- 1..3, RunQueues <- EndQueues,
    Hashes <- {0}, FirstHash <- 0, MaxReports <- 0, NumberTasks <- 2,
    IgnoreTasks <- {}, Interrupts <- FALSE, disk <- rqdisk

Build0 == INSTANCE RunQueue WITH
    Tasks <- 1..3, RunQueues <- {Queue(<<{}, {1}, {2}>>, {}, {3})},
    Hashes <- {0}, FirstHash <- 0, MaxReports <- 0, NumberTasks <- 2,
    IgnoreTasks <- {}, Interrupts <- FALSE, disk <- rqdisk

Process == INSTANCE ProcessServer WITH
    Killers <- {}, NumServers <- 2, Timeout <- "none", MaxRetries <- 2,
    MaxCrashes <- 1, MaxTimeouts <- 1

Commands == INSTANCE Cooker WITH
    MaxClients <- 2, MaxCommands <- 1, MaxConfChanges <- 1, MaxRecipeChanges <- 0,
    MaxSignals <- 1, NumRecipes <- 2, Patient <- FALSE,
    SyncCommands <- {"setFeatures", "updateConfig", "stateShutdown", "stateForceShutdown"},
    AsyncCommands <- {"buildTargets", "showVersions", "buildFile", "resetCooker"}

Parser == INSTANCE CookerParser WITH
    Parsers <- {"p1", "p2"}, Nobody <- "nobody", Jobs <- {"r1", "r2", "r3"},
    Share <- [j \in {"r1", "r2", "r3"} |-> IF j = "r2" THEN "p2" ELSE "p1"], Bad <- {"r3"},
    QueueSize <- 2, MayShutdown <- TRUE, MaxParserKills <- 1, TornWrites <- FALSE

------------------------------------------------------------------------------
MCInit ==
    /\ part \in Parts
    /\ IF part = "build" THEN Build!Init ELSE Build0!Init
    /\ Process!Init
    /\ Commands!CookerInit
    /\ Parser!ParserInit

MCNext ==
    \/ /\ part = "build" /\ Build!Next
       /\ UNCHANGED <<part, serverVars, cookerVars, parserVars>>
    \/ /\ part = "server" /\ Process!Next
       /\ UNCHANGED <<part, queueVars, cookerVars, parserVars>>
    \/ /\ part = "commands" /\ Commands!CookerNext
       /\ UNCHANGED <<part, queueVars, serverVars, parserVars>>
    \/ /\ part = "parse" /\ Parser!ParserNext
       /\ UNCHANGED <<part, queueVars, serverVars, cookerVars>>

(* The fairness of RunQueue!FairSpec, ProcessServer!FairSpec, Cooker!CookerFairSpec
   and CookerParser!ParserFairSpec, each for its own part. *)
MCFairness ==
    /\ WF_queueVars(part = "build" /\ Build!Execute)
    /\ WF_queueVars(part = "build" /\ Build!CleanUp)
    /\ \A t \in 1..3, v \in {"run", "setscene"} :
          WF_queueVars(part = "build" /\ \E ok \in BOOLEAN : Build!TaskExit(<<t, v, 0>>, ok))
    /\ \A u \in UIs : WF_serverVars(part = "server" /\ Process!UI(u))
    /\ \A s \in 1..2 :
          /\ WF_serverVars(part = "server" /\ Process!Server(s))
          /\ WF_serverVars(part = "server" /\ (Process!IdleTimeout(s) \/ Process!NoUITimeout(s)))
    /\ WF_cookerVars(part = "commands" /\ Commands!NoCommandArrives)
    /\ WF_cookerVars(part = "commands" /\ Commands!Idle)
    /\ SF_cookerVars(part = "commands" /\ Commands!BuildFinishes)
    /\ WF_parserVars(part = "parse" /\ Parser!Server)
    /\ \A p \in {"p1", "p2"} :
          /\ WF_parserVars(part = "parse" /\ Parser!Process(p))
          /\ WF_parserVars(part = "parse" /\ Parser!Feed(p))

MCFairSpec == MCInit /\ [][MCNext]_allVars /\ MCFairness

------------------------------------------------------------------------------
(* A build ends, whichever tasks and setscene tasks fail: nothing is held off
   or deferred behind something that never comes (RunQueue!BuildEnds). *)
BuildEnds == <>(part = "build" => rqexe.state \in {"Complete", "Failed"})

(* Every user interface gets its session or an error, and afterwards no server
   runs and the lock is free, unless processes that a server forked keep the lock,
   for which an exiting server waits: no user interface hangs on a server that
   exits or dies, and no server outlives its user interfaces. *)
EverybodyEnds ==
    <>[](part = "server" =>
          /\ \A u \in UIs : Process!Ended(u)
          /\ \/ lock = Process!Nobody /\ \A s \in 1..2 : ~Process!Running(s)
             \/ /\ lock = Process!ByOrphans
                /\ \A s \in 1..2 : Process!Running(s) => Process!Delayed(s))

(* Every command that was taken is finished, so that the server is not busy
   for ever (Cooker!CommandsEnd). *)
CommandsEnd == Commands!CommandsEnd

(* Parsing ends and the processes are gone, without anybody waiting for
   anybody (CookerParser!ParseEnds), unless a process forgets that it was told to
   terminate (DefersSignals). *)
ParseEnds ==
    <>(part = "parse" => mpc = "down" /\ \A p \in {"p1", "p2"} : ~Parser!Alive(p))
==============================================================================
