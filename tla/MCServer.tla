------------------------------ MODULE MCServer -------------------------------
(***************************************************************************)
(* The instances of the server process and of the cooker in it.  A         *)
(* behaviour is about one of them, which `part' names; the variables of    *)
(* the others keep their initial values:                                   *)
(*   "kill"      two user interfaces and one that kills the server; a      *)
(*               crash                                                     *)
(*   "timeouts"  two user interfaces, time-outs of all kinds and a crash   *)
(*   "patient"   the cooker, clients that wait for their commands          *)
(*   "changes"   the cooker, clients that go at any time, a changed        *)
(*               configuration and changed recipes                         *)
(***************************************************************************)
EXTENDS ProcessServer, Cooker, TLC

CONSTANTS Parts, Clients

VARIABLE part

allVars == <<part, vars, cookerVars>>

Symmetry == Permutations(Clients)

------------------------------------------------------------------------------
\* "kill" and "changes" have the constants of this module.
Late == INSTANCE ProcessServer WITH
    UIs <- Clients, Killers <- {}, Timeout <- "finite", MaxRetries <- 2, MaxTimeouts <- 2

Stay == INSTANCE Cooker WITH
    MaxConfChanges <- 0, MaxRecipeChanges <- 2, Patient <- TRUE,
    SyncCommands <- SyncCommands \cup {"parseConfiguration"},
    AsyncCommands <- AsyncCommands \ {"triggerEvent"}

------------------------------------------------------------------------------
MCInit ==
    /\ part \in Parts
    /\ IF part = "timeouts" THEN Late!Init ELSE Init
    /\ CookerInit

MCNext ==
    \/ part = "kill" /\ Next /\ UNCHANGED <<part, cookerVars>>
    \/ part = "timeouts" /\ Late!Next /\ UNCHANGED <<part, cookerVars>>
    \/ part = "patient" /\ Stay!CookerNext /\ UNCHANGED <<part, vars>>
    \/ part = "changes" /\ CookerNext /\ UNCHANGED <<part, vars>>

MCSpec == MCInit /\ [][MCNext]_allVars

------------------------------------------------------------------------------
(* Where clients wait for their commands and the configuration stays, no parser
   with processes is replaced and the cache is complete whenever a command that
   needs it runs (Cooker!CommandsRunSafely). *)
PatientRunsSafely == part = "patient" => Stay!CommandsRunSafely
==============================================================================
