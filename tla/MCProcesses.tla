----------------------------- MODULE MCProcesses -----------------------------
(***************************************************************************)
(* The instances of the modules about processes that share files, pipes    *)
(* and locks.  A behaviour is about one of them, which `part' names; the   *)
(* variables of the others keep their initial values:                      *)
(*   "lock"      LockFile, the calls lockfile(name), lockfile(name,        *)
(*               shared=True) and lockfile(name, retry=False)              *)
(*   "worker"    Worker with one task of two processes                     *)
(*   "hashes"    Worker with two tasks and new task hashes                 *)
(*   "parser"    CookerParser, four recipes shared out to two processes    *)
(*   "fetch"     Fetcher, two recipes that name the same file and expect   *)
(*               the same content or different ones                        *)
(***************************************************************************)
EXTENDS LockFile, Fetcher, CookerParser

CONSTANT Parts

VARIABLES
    part,
    cooker, got, cmds, worker, child, pipe, pqueue, writing, plock, written, out, events

lockVars == <<path, fd, held, pc, req>>
workerVars == <<cooker, got, cmds, worker, child, pipe, pqueue, writing, plock, written,
                out, events>>
allVars == <<part, lockVars, workerVars, parserVars, fetchVars>>

------------------------------------------------------------------------------
Kinds == {<<FALSE, TRUE, FALSE>>, <<TRUE, TRUE, FALSE>>, <<FALSE, FALSE, FALSE>>}

MCRequests ==
    {r \in [shared : BOOLEAN, retry : BOOLEAN, block : BOOLEAN] :
        <<r.shared, r.retry, r.block>> \in Kinds}

(* Messages whose pickle contains "</event>" come from the worker itself;
   tasks are killed and the build is stopped. *)
Worker1 == INSTANCE Worker WITH
    Tasks <- {"t1"}, NoTask <- "worker", Writers <- {"w1", "w2"}, TagInside <- {"worker"},
    PipeSize <- 2, MaxHashes <- 0, MaxOwn <- 1, MaxEvents <- 1,
    Faults <- {"kill", "finish"}, lock <- plock

Worker2 == INSTANCE Worker WITH
    Tasks <- {"t1", "t2"}, NoTask <- "worker", Writers <- {"w1"}, TagInside <- {},
    PipeSize <- 9, MaxHashes <- 1, MaxOwn <- 0, MaxEvents <- 0,
    Faults <- {"cooker"}, lock <- plock

(* One recipe is bad, the server may be told to stop, and a process may be
   killed between two writes. *)
MCShare == [j \in Jobs |-> IF j \in {"r1", "r3"} THEN "p1" ELSE "p2"]

(* The premirrors have an old file and a bad one, the original URL a wrong one
   for recipe a, the second mirror the right one; what is right for recipe b is
   the original, the mirror's, or the local one. *)
OnlyMirror == [local |-> "old", pm |-> "bad", up |-> "other", m1 |-> "none", m2 |-> "good"]
MCPremirrors == <<"local", "pm">>
MCMirrors == <<"m1", "m2">>

------------------------------------------------------------------------------
MCInit ==
    /\ part \in Parts
    /\ Init /\ (part # "lock" => \A p, q \in Procs : req[p] = req[q] /\ ~req[p].retry)
    /\ IF part = "hashes" THEN Worker2!Init ELSE Worker1!Init
    /\ ParserInit
    /\ FetchInit /\ expects["a"] = "good" /\ (part # "fetch" => expects["b"] = "good")

(* A parser process that forgot its SIGTERM is waited for without end: what
   MCEnds!ParseEnds is about, and no deadlock of the other parts. *)
ServerHangs == DefersSignals /\ mpc = "join"

MCNext ==
    \/ part = "lock" /\ Next /\ UNCHANGED <<part, workerVars, parserVars, fetchVars>>
    \/ part = "worker" /\ Worker1!Next /\ UNCHANGED <<part, lockVars, parserVars, fetchVars>>
    \/ part = "hashes" /\ Worker2!Next /\ UNCHANGED <<part, lockVars, parserVars, fetchVars>>
    \/ part = "parser" /\ ParserNext /\ UNCHANGED <<part, lockVars, workerVars, fetchVars>>
    \/ part = "parser" /\ ServerHangs /\ UNCHANGED allVars
    \/ part = "fetch" /\ FetchNext /\ UNCHANGED <<part, lockVars, workerVars, parserVars>>

MCSpec == MCInit /\ [][MCNext]_allVars

------------------------------------------------------------------------------
(* When the cooker learns that a task has ended it has every event the task
   wrote, once and in order (Worker!EventsBeforeExit), it is not stopped by a
   message of its worker (Worker!CookerSurvives), a worker that was told to
   quit has delivered everything (Worker!NothingLostAtQuit), none exits on its
   own (Worker!NoUnexpectedExit), and a task runs with the hashes sent before
   it (Worker!HashesBeforeTask), however the streams were cut. *)
MessagesDelivered ==
    /\ part # "hashes" => /\ Worker1!TypeOK
                          /\ Worker1!EventsBeforeExit
                          /\ Worker1!CookerSurvives
                          /\ Worker1!NothingLostAtQuit
                          /\ Worker1!NoUnexpectedExit
    /\ part = "hashes" => Worker2!HashesBeforeTask

(* "exited unexpectedly" is what the cooker says when a worker goes that was
   not told to (Worker!NoUnexpectedExit); here new task hashes are sent between
   two tasks, and the pipe holds all three messages. *)
WorkerStays == part = "hashes" => Worker2!NoUnexpectedExit
==============================================================================
