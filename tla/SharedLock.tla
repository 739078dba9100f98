------------------------------ MODULE SharedLock ------------------------------
(***************************************************************************)
(* What bb.utils.lockfile() and unlockfile() promise for one lock name:    *)
(* one exclusive holder, or any number of shared ones.                     *)
(***************************************************************************)
CONSTANT Procs

VARIABLES sharers, owners   \* processes that hold the lock, by kind

lockVars == <<sharers, owners>>

LockInit == sharers = {} /\ owners = {}

AcquireShared(p) ==
    /\ owners = {}
    /\ sharers' = sharers \union {p}
    /\ UNCHANGED owners

AcquireExclusive(p) ==
    /\ owners = {} /\ sharers = {}
    /\ owners' = {p}
    /\ UNCHANGED sharers

Release(p) ==
    /\ sharers' = sharers \ {p}
    /\ owners' = owners \ {p}

LockNext == \E p \in Procs : AcquireShared(p) \/ AcquireExclusive(p) \/ Release(p)

LockSpec == LockInit /\ [][LockNext]_lockVars
==============================================================================
