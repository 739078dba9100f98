----------------------------- MODULE MCRunQueue ------------------------------
(***************************************************************************)
(* The queues RunQueue is checked on.                A behaviour is about *)
(* one kind of build, which `part' names:                                  *)
(*   "build"      three tasks, every graph: cached objects, stamps of an   *)
(*                earlier build, hard dependencies, options                *)
(*   "migration"  three tasks, one of which reports a new unihash          *)
(*   "stop"       three tasks, the build is interrupted or a worker dies   *)
(*   "enforce"    three tasks with BB_SETSCENE_ENFORCE                     *)
(*   "twins"      four tasks, two multiconfigs that build the same         *)
(***************************************************************************)
EXTENDS RunQueueInputs, RunQueue

CONSTANT Parts

VARIABLE part

allVars == <<part, vars>>

Three == 1..3
Four == 1..4

------------------------------------------------------------------------------
NoHarddeps == [t \in Three |-> {}]

(* Every graph, every choice of setscene tasks, every content of the cache;
   a task other tasks need may be a target. *)
CacheQueues ==
    UNION {UNION {{[Queue(d, ss, EndPoints(d) \union tg) EXCEPT !.sstate = FirstObjects(have)] :
                      tg \in {{}} \union {{t} : t \in Three}, have \in SUBSET ss} :
                  ss \in SUBSET Three} : d \in Dags(Three)}

(* Hash equivalence: the first task has to run, its new hash may make cached
   objects of the others usable; one may hard-depend on another. *)
MigrationQueues ==
    UNION {UNION {{[Queue(d, ss, EndPoints(d)) EXCEPT !.sstate = have] :
                      have \in SUBSET ((ss \ {1}) \X {0, 1})} :
                  ss \in {s \in SUBSET Three : 1 \in s}} : d \in Dags(Three)}
    \union
    UNION {UNION {{[Queue(d, Three, EndPoints(d)) EXCEPT
                       !.harddeps = [NoHarddeps EXCEPT ![hard[1]] = {hard[2]}],
                       !.sstate = have \X {1}] :
                      have \in SUBSET {2, 3}} :
                  hard \in {h \in Three \X Three : h[1] # h[2]}} : d \in Dags(Three)}

(* What a task of RebuildQueues is marked as. *)
Flags == {[noexec |-> {}, nostamp |-> {}], [noexec |-> {1}, nostamp |-> {}],
          [noexec |-> {2}, nostamp |-> {}], [noexec |-> {}, nostamp |-> {2}]}

(* A second build: some tasks and setscene tasks left stamps, one task has
   no code of its own or never leaves a stamp, and the tasks are of one recipe
   or of two. *)
RebuildQueues ==
    UNION {UNION {{[Queue(d, ss, EndPoints(d)) EXCEPT
                       !.stamps = {<<t, "run", 0>> : t \in ran}
                          \union {<<t, "setscene", 0>> : t \in unpacked},
                       !.noexec = flags.noexec, !.nostamp = flags.nostamp,
                       !.fn = [t \in Three |-> IF t = 1 THEN fn ELSE 2],
                       !.sstate = FirstObjects(ss)] :
                      ran \in SUBSET Three, unpacked \in SUBSET ss,
                      flags \in Flags, fn \in {1, 2}} :
                  ss \in SUBSET Three} : d \in Dags(Three)}

(* Setscene tasks that need the setscene variant of another one, with
   --continue. *)
HardQueues ==
    UNION {{[Queue(d, ss, EndPoints(d)) EXCEPT
                !.harddeps = [NoHarddeps EXCEPT ![hard[1]] = {hard[2]}],
                !.sstate = FirstObjects(have),
                !.noexec = ne,
                !.options = {"continue"}] :
               ss \in {s \in SUBSET Three : {hard[1], hard[2]} \subseteq s},
               have \in SUBSET Three, ne \in {{}, {hard[2]}}} :
             d \in Dags(Three), hard \in {h \in Three \X Three : h[1] # h[2]}}

(* The options of the command line, on the graphs with one setscene task
   less than tasks. *)
OptionQueues ==
    UNION {{[Queue(d, ss, EndPoints(d) \union tg) EXCEPT
                !.sstate = FirstObjects(have),
                !.stamps = {<<t, "setscene", 0>> : t \in unpacked},
                !.options = o] :
               ss \in {s \in SUBSET Three : Cardinality(s) = 2},
               tg \in {{}, {2}}, have \in {{2}, Three}, unpacked \in {{}, {2}},
               o \in {{"force"}, {"skipsetscene"}, {"setsceneonly"},
                      {"continue"}}} :
             d \in Dags(Three)}

(* Two multiconfigs build the same: 1 and 2 are one task, and so are 3 and 4
   where they depend alike; setscene tasks of the second multiconfig are
   deferred behind those of the first.  The object of a task serves both. *)
TwinDags == {d \in Dags(Four) : d[2] = {} /\ d[3] \subseteq {1} /\ d[4] \subseteq {2}}

TwinQueues ==
    UNION {{[Queue(d, ss, EndPoints(d)) EXCEPT
                !.twin = [v \in Four |-> IF v = 2 THEN 1
                             ELSE IF v = 4 /\ (d[3] = {}) = (d[4] = {}) THEN 3
                             ELSE v],
                !.sstate = FirstObjects(have)] :
               ss \in {Four, {1, 2}}, have \in SUBSET {1, 3}} :
             d \in TwinDags}

EnforceQueues == {[q EXCEPT !.options = @ \union {"enforce"}] : q \in OptionQueues}

Build == INSTANCE RunQueue WITH
    Tasks <- Three, RunQueues <- CacheQueues \union RebuildQueues \union HardQueues
                                    \union OptionQueues,
    Hashes <- {0}, FirstHash <- 0, MaxReports <- 0, NumberTasks <- 2,
    IgnoreTasks <- {}, Interrupts <- FALSE

Migration == INSTANCE RunQueue WITH
    Tasks <- Three, RunQueues <- MigrationQueues,
    Hashes <- {0, 1}, FirstHash <- 0, MaxReports <- 1, NumberTasks <- 2,
    IgnoreTasks <- {}, Interrupts <- FALSE

Stopped == INSTANCE RunQueue WITH
    Tasks <- Three, RunQueues <- OptionQueues,
    Hashes <- {0}, FirstHash <- 0, MaxReports <- 0, NumberTasks <- 2,
    IgnoreTasks <- {}, Interrupts <- TRUE

Enforced == INSTANCE RunQueue WITH
    Tasks <- Three, RunQueues <- EnforceQueues,
    Hashes <- {0}, FirstHash <- 0, MaxReports <- 0, NumberTasks <- 2,
    IgnoreTasks <- {1}, Interrupts <- FALSE

------------------------------------------------------------------------------
MCInit ==
    /\ part \in Parts
    /\ \/ part = "build" /\ Build!Init
       \/ part = "migration" /\ Migration!Init
       \/ part = "stop" /\ Stopped!Init
       \/ part = "enforce" /\ Enforced!Init
       \/ part = "twins" /\ Init

MCNext ==
    \/ part = "build" /\ Build!Next /\ UNCHANGED part
    \/ part = "migration" /\ Migration!Next /\ UNCHANGED part
    \/ part = "stop" /\ Stopped!Next /\ UNCHANGED part
    \/ part = "enforce" /\ Enforced!Next /\ UNCHANGED part
    \/ part = "twins" /\ Next /\ UNCHANGED part

MCSpec == MCInit /\ [][MCNext]_allVars

------------------------------------------------------------------------------
(* Who waits does not run: a setscene task runs only while those it
   hard-depends on are covered (RunQueue!HardDepsAvailable), and one deferred
   behind the same task of another multiconfig runs in neither variant
   (RunQueue!DeferredNotRunning).  The state is of the types it is read with. *)
WaitingDoNotRun ==
    /\ HardDepsAvailable
    /\ part = "twins" => TypeOK /\ DeferredNotRunning
    /\ part = "build" => Build!TypeOK
    /\ part = "migration" => Migration!TypeOK

(* How a build ends: the sanity checks execute() makes at the end of the
   setscene phase pass (RunQueue!SanityChecksPass), no worker has anything to do
   any more (RunQueue!EndedMeansIdle; with BB_SETSCENE_ENFORCE a failing
   setscene task ends the build early), and the same build, called again, would
   find all it needs (RunQueue!RebuildFindsStamps). *)
EndsProperly ==
    /\ SanityChecksPass
    /\ Enforce \/ EndedMeansIdle
    /\ RebuildFindsStamps
==============================================================================
