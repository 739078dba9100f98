------------------------------ MODULE TaskGraph ------------------------------
(***************************************************************************)
(* What a BitBake build promises about the order of its tasks, whatever    *)
(* the scheduler, the shared-state cache or the hash equivalence server    *)
(* do: a task is begun at most once, only after every task it depends on   *)
(* is finished, and what is finished stays finished.  RunQueue.tla is      *)
(* shown to implement this module.                                         *)
(***************************************************************************)
CONSTANT Tasks      \* task ids

VARIABLES depends,  \* for the tasks of the build: runtaskentries[t].depends
          begun,    \* tasks that were started or skipped
          finished  \* tasks that were completed or skipped

graphVars == <<depends, begun, finished>>

GraphInit ==
    /\ \E tids \in SUBSET Tasks : depends \in [tids -> SUBSET tids]
    /\ begun = {}
    /\ finished = {}

(***************************************************************************)
(* One pass of the run queue: some begun tasks finish, and tasks whose     *)
(* dependencies are then all finished begin (a skipped task does both).    *)
(***************************************************************************)
Advance ==
    /\ begun \subseteq begun' /\ begun' \subseteq DOMAIN depends
    /\ finished \subseteq finished' /\ finished' \subseteq begun'
    /\ \A t \in begun' \ begun : depends[t] \subseteq finished' \ {t}
    /\ UNCHANGED depends

GraphNext == Advance

GraphSpec == GraphInit /\ [][GraphNext]_graphVars

------------------------------------------------------------------------------
(* Finished tasks have only finished dependencies.                         *)
DownwardClosed == \A t \in begun : depends[t] \subseteq finished

(* No task is finished without having been begun.                          *)
FinishedBegun == finished \subseteq begun

==============================================================================
