------------------------------- MODULE LockFile -------------------------------
(***************************************************************************)
(* bb.utils.lockfile() and unlockfile(): a lock shared by the processes of *)
(* all builds that use a directory (downloads, caches, bitbake.lock), made *)
(* of flock() on a file that every holder removes when it unlocks.  One    *)
(* action per system call; processes may die between any two.              *)
(***************************************************************************)
EXTENDS Naturals, FiniteSets

CONSTANTS
    Procs,              \* processes
    Inodes, NoInode,    \* inode numbers; the kernel uses a number again once
                        \* no name and no descriptor refers to the file
    Requests,           \* the calls: records shared, retry, block
    AtomicConversion    \* whether flock() converts a shared lock to an
                        \* exclusive one in one step; flock(2) does not
                        \* guarantee it

ASSUME LockFileAssumption ==
    /\ NoInode \notin Inodes
    /\ AtomicConversion \in BOOLEAN
    /\ Requests \subseteq [shared : BOOLEAN, retry : BOOLEAN, block : BOOLEAN]

VARIABLES
    path,       \* the inode the name refers to
    fd,         \* the file each process has open
    held,       \* the flock each process has on it: "none", "SH", "EX"
    pc,         \* the next system call of each process
    req         \* the parameters of its call of lockfile()

vars == <<path, fd, held, pc, req>>

PCs == {"idle", "open", "flock", "exists", "stat", "close", "locked",
        "promote", "unlink", "unlock"}

Init ==
    /\ path = NoInode
    /\ fd = [p \in Procs |-> NoInode]
    /\ held = [p \in Procs |-> "none"]
    /\ pc = [p \in Procs |-> "idle"]
    /\ req \in [Procs -> Requests]

------------------------------------------------------------------------------
(* The kernel (flock(2), open(2)).                                         *)

(* p could get the lock of this kind on the file it has open. *)
Grantable(p, kind) ==
    \A q \in Procs \ {p} :
        fd[q] = fd[p] => held[q] = "none" \/ (kind = "SH" /\ held[q] = "SH")

Free(i) == i # path /\ \A p \in Procs : fd[p] # i

Goto(p, label) == pc' = [pc EXCEPT ![p] = label]

------------------------------------------------------------------------------
(* lockfile().                                                             *)

Call(p) ==
    /\ pc[p] = "idle"
    /\ \E r \in Requests : req' = [req EXCEPT ![p] = r]
    /\ Goto(p, "open")
    /\ UNCHANGED <<path, fd, held>>

(* open(name, 'a+') creates the file if there is none. *)
Open(p) ==
    /\ pc[p] = "open"
    /\ \/ /\ path # NoInode
          /\ fd' = [fd EXCEPT ![p] = path]
          /\ UNCHANGED path
       \/ /\ path = NoInode
          /\ \E i \in Inodes :
                /\ Free(i)
                /\ path' = i
                /\ fd' = [fd EXCEPT ![p] = i]
    /\ Goto(p, "flock")
    /\ UNCHANGED <<held, req>>

Op(p) == IF req[p].shared THEN "SH" ELSE "EX"
NonBlocking(p) == ~req[p].retry /\ ~req[p].block

FlockGranted(p) ==
    /\ pc[p] = "flock" /\ Grantable(p, Op(p))
    /\ held' = [held EXCEPT ![p] = Op(p)]
    /\ Goto(p, "exists")
    /\ UNCHANGED <<path, fd, req>>

(* LOCK_NB: BlockingIOError, the except clause closes the file. *)
FlockRefused(p) ==
    /\ pc[p] = "flock" /\ ~Grantable(p, Op(p)) /\ NonBlocking(p)
    /\ Goto(p, "close")
    /\ UNCHANGED <<path, fd, held, req>>

Exists(p) ==
    /\ pc[p] = "exists"
    /\ Goto(p, IF path # NoInode THEN "stat" ELSE "close")
    /\ UNCHANGED <<path, fd, held, req>>

(* The inode of the name is the one that was locked; os.stat() raises if the
   name is gone by now. *)
Stat(p) ==
    /\ pc[p] = "stat"
    /\ Goto(p, IF path = fd[p] THEN "locked" ELSE "close")
    /\ UNCHANGED <<path, fd, held, req>>

(* lf.close() gives the lock up; then the loop goes round or None is
   returned. *)
Close(p) ==
    /\ pc[p] = "close"
    /\ fd' = [fd EXCEPT ![p] = NoInode]
    /\ held' = [held EXCEPT ![p] = "none"]
    /\ Goto(p, IF req[p].retry THEN "open" ELSE "idle")
    /\ UNCHANGED <<path, req>>

------------------------------------------------------------------------------
(* unlockfile().                                                           *)

\* Mutant: the file is removed without the attempt to promote the lock.
Promote_Never(p) ==
    /\ pc[p] = "locked"
    /\ Goto(p, "unlink")
    /\ UNCHANGED <<path, fd, held, req>>

(* flock(LOCK_EX|LOCK_NB).  An exclusive lock stays as it is; the conversion
   of a shared one may begin with its removal. *)
Promote(p) ==
    /\ pc[p] = "locked"
    /\ IF AtomicConversion \/ held[p] = "EX"
       THEN IF Grantable(p, "EX")
            THEN /\ held' = [held EXCEPT ![p] = "EX"]
                 /\ Goto(p, "unlink")
            ELSE /\ held' = [held EXCEPT ![p] = "none"]
                 /\ Goto(p, "unlock")
       ELSE /\ held' = [held EXCEPT ![p] = "none"]
            /\ Goto(p, "promote")
    /\ UNCHANGED <<path, fd, req>>

PromoteTake(p) ==
    /\ pc[p] = "promote"
    /\ IF Grantable(p, "EX")
       THEN held' = [held EXCEPT ![p] = "EX"] /\ Goto(p, "unlink")
       ELSE UNCHANGED held /\ Goto(p, "unlock")
    /\ UNCHANGED <<path, fd, req>>

(* os.unlink(lf.name); an error is ignored. *)
Unlink(p) ==
    /\ pc[p] = "unlink"
    /\ path' = NoInode
    /\ Goto(p, "unlock")
    /\ UNCHANGED <<fd, held, req>>

(* flock(LOCK_UN) and close(). *)
Unlock(p) ==
    /\ pc[p] = "unlock"
    /\ fd' = [fd EXCEPT ![p] = NoInode]
    /\ held' = [held EXCEPT ![p] = "none"]
    /\ Goto(p, "idle")
    /\ UNCHANGED <<path, req>>

(* The process dies: the kernel closes its files, the name stays. *)
Die(p) ==
    /\ pc[p] # "idle"
    /\ fd' = [fd EXCEPT ![p] = NoInode]
    /\ held' = [held EXCEPT ![p] = "none"]
    /\ Goto(p, "idle")
    /\ UNCHANGED <<path, req>>

Attempt(p) ==
    \/ Open(p) \/ FlockGranted(p) \/ FlockRefused(p)
    \/ Exists(p) \/ Stat(p) \/ Close(p)

Leave(p) == Promote(p) \/ PromoteTake(p) \/ Unlink(p) \/ Unlock(p)

Next == \E p \in Procs : Call(p) \/ Attempt(p) \/ Leave(p) \/ Die(p)

Spec == Init /\ [][Next]_vars

------------------------------------------------------------------------------
Sharers == {p \in Procs : pc[p] = "locked" /\ req[p].shared}
Owners == {p \in Procs : pc[p] = "locked" /\ ~req[p].shared}

Lock == INSTANCE SharedLock WITH sharers <- Sharers, owners <- Owners

(* Types; a process has the file open from open() to close(). *)
TypeOK ==
    /\ path \in Inodes \union {NoInode}
    /\ fd \in [Procs -> Inodes \union {NoInode}]
    /\ held \in [Procs -> {"none", "SH", "EX"}]
    /\ pc \in [Procs -> PCs]
    /\ req \in [Procs -> Requests]
    /\ \A p \in Procs : (fd[p] = NoInode) <=> (pc[p] \in {"idle", "open"})

(* A process that has the lock exclusively has it alone: the removal of the
   file by earlier holders, the creation of a new one by others and the use
   of an inode number again never let two of them in. *)
MutualExclusion ==
    \A p, q \in Procs :
        p # q /\ pc[p] = "locked" /\ pc[q] = "locked" => req[p].shared /\ req[q].shared

(* The file of a holder is the file others will try: nobody removes it
   before the holder is done. *)
HolderKeepsName == \A p \in Procs : pc[p] = "locked" => path = fd[p]

(* Calls of lockfile() and unlockfile() act as those of a lock. *)
ImplementsLock == Lock!LockSpec

==============================================================================
