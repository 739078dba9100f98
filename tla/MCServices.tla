----------------------------- MODULE MCServices ------------------------------
(***************************************************************************)
(* The instances of the services a build talks to.  A behaviour is about   *)
(* one of them, which `part' names; the variables of the others keep their *)
(* initial values:                                                         *)
(*   "hashserv"  the hash equivalence server alone, which crashes once     *)
(*   "upstream"  one that reads through an upstream server                 *)
(*   "outage"    the same, while the upstream server goes down once        *)
(*   "prserv"    two PR services in either mode, an export and an import   *)
(*   "rpc"       a client of asyncrpc that makes four calls, two of them   *)
(*               with long answers                                         *)
(* The same model values serve as hashes and clients of the first two and  *)
(* as checksums, versions and servers of the next two.                     *)
(***************************************************************************)
EXTENDS HashServ, AsyncRPC, PRServ, TLC

CONSTANT Parts

VARIABLE part

allVars == <<part, hashVars, prVars, rpcVars>>

Symmetry == Permutations(Clients) \cup Permutations(Taskhashes)
            \cup Permutations(Outhashes) \cup Permutations(Unihashes)

------------------------------------------------------------------------------
Through == INSTANCE HashServ WITH
    Outhashes <- {"o"},
    Kinds <- {"report", "get", "get-all", "get-outhash", "get-stream", "backfill-wait"},
    MaxAsked <- 2, MaxUpReports <- 1, MaxCrashes <- 0, MaxOutages <- 0, MaxTimeouts <- 0

Outage == INSTANCE HashServ WITH
    Outhashes <- {"o"},
    Kinds <- {"report", "get", "get-stream", "backfill-wait"},
    MaxAsked <- 1, MaxUpReports <- 1, MaxCrashes <- 0, MaxOutages <- 1, MaxTimeouts <- 0

------------------------------------------------------------------------------
MCInit ==
    /\ part \in Parts
    /\ IF part = "upstream" THEN Through!HashInit
       ELSE IF part = "outage" THEN Outage!HashInit ELSE HashInit
    /\ upstream = (part \in {"upstream", "outage"})
    /\ PrInit /\ (part # "prserv" => nohist)
    /\ RpcInit

MCNext ==
    \/ part = "hashserv" /\ HashNext /\ UNCHANGED <<part, prVars, rpcVars>>
    \/ part = "upstream" /\ Through!HashNext /\ UNCHANGED <<part, prVars, rpcVars>>
    \/ part = "outage" /\ Outage!HashNext /\ UNCHANGED <<part, prVars, rpcVars>>
    \/ part = "prserv" /\ PrNext /\ UNCHANGED <<part, hashVars, rpcVars>>
    \/ part = "rpc" /\ RpcNext /\ UNCHANGED <<part, hashVars, prVars>>

MCSpec == MCInit /\ [][MCNext]_allVars
==============================================================================
