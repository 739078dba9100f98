--------------------------- MODULE Processes_proof ---------------------------
(***************************************************************************)
(* Proofs about processes that share files, pipes and locks, for any       *)
(* number of them:                                                         *)
(*   - lockfile() and unlockfile() exclude, if flock() converts a shared   *)
(*     lock to an exclusive one in one step.  (With AtomicConversion =     *)
(*     FALSE, TLC finds two holders.)                                      *)
(*   - With any recipes that share a file name, any mirrors, kills, I/O    *)
(*     errors and cleans, a download that goes through leaves the file its *)
(*     recipe expects.                                                     *)
(*   - The parser's verdict is true, however its processes end.            *)
(***************************************************************************)
EXTENDS LockFile, Fetcher, CookerParser, SequenceTheorems, FiniteSetTheorems, TLAPS

------------------------------------------------------------------------------
(* LockFile                                                                *)

(* Nobody holds a lock beside an exclusive one on the same file. *)
Compatible ==
    \A p, q \in Procs :
        p # q /\ fd[p] = fd[q] /\ held[p] = "EX" => held[q] = "none"

(* Which lock a process has at which system call. *)
LockAtPC ==
    \A p \in Procs :
        /\ pc[p] # "promote"
        /\ pc[p] \in {"idle", "open", "flock"} => held[p] = "none"
        /\ pc[p] \in {"exists", "stat", "locked"} => held[p] = Op(p)
        /\ pc[p] = "unlink" => held[p] = "EX"

(* The name refers to the file of a holder, until the holder removes it. *)
NameKept == \A p \in Procs : pc[p] \in {"locked", "unlink"} => path = fd[p]

(***************************************************************************)
(* The inductive invariant.  MutualExclusion alone is not inductive: that  *)
(* a second process cannot pass the inode test needs NameKept, and NameKept *)
(* survives os.unlink only because the process that removes the name holds *)
(* the exclusive lock of the file it refers to.                            *)
(***************************************************************************)
IInv == TypeOK /\ Compatible /\ LockAtPC /\ NameKept

(* No process holds the lock at its initial state. *)
LEMMA InitIInv == Init => IInv
BY LockFileAssumption DEF Init, IInv, TypeOK, Compatible, LockAtPC, NameKept, PCs

(* Types are preserved by every system call. *)
LEMMA NextTypeOK == TypeOK /\ [Next]_vars => TypeOK'
<1> SUFFICES ASSUME TypeOK, [Next]_vars PROVE TypeOK'
  OBVIOUS
<1> USE LockFileAssumption DEF TypeOK, PCs
<1>1. ASSUME NEW p \in Procs, Call(p) PROVE TypeOK'
  BY <1>1 DEF Call, Goto
<1>2. ASSUME NEW p \in Procs, Open(p) PROVE TypeOK'
  BY <1>2 DEF Open, Goto
<1>3. ASSUME NEW p \in Procs, FlockGranted(p) PROVE TypeOK'
  BY <1>3 DEF FlockGranted, Goto, Op
<1>4. ASSUME NEW p \in Procs, FlockRefused(p) PROVE TypeOK'
  BY <1>4 DEF FlockRefused, Goto
<1>5. ASSUME NEW p \in Procs, Exists(p) PROVE TypeOK'
  BY <1>5 DEF Exists, Goto
<1>6. ASSUME NEW p \in Procs, Stat(p) PROVE TypeOK'
  BY <1>6 DEF Stat, Goto
<1>7. ASSUME NEW p \in Procs, Close(p) PROVE TypeOK'
  BY <1>7 DEF Close, Goto
<1>8. ASSUME NEW p \in Procs, Promote(p) PROVE TypeOK'
  BY <1>8 DEF Promote, Goto
<1>9. ASSUME NEW p \in Procs, PromoteTake(p) PROVE TypeOK'
  BY <1>9 DEF PromoteTake, Goto
<1>10. ASSUME NEW p \in Procs, Unlink(p) PROVE TypeOK'
  BY <1>10 DEF Unlink, Goto
<1>11. ASSUME NEW p \in Procs, Unlock(p) PROVE TypeOK'
  BY <1>11 DEF Unlock, Goto
<1>12. ASSUME NEW p \in Procs, Die(p) PROVE TypeOK'
  BY <1>12 DEF Die, Goto
<1>13. CASE UNCHANGED vars
  BY <1>13 DEF vars
<1> QED
  BY <1>1, <1>2, <1>3, <1>4, <1>5, <1>6, <1>7, <1>8, <1>9, <1>10, <1>11, <1>12, <1>13
     DEF Next, Attempt, Leave

(* Every system call preserves the invariant. *)
LEMMA NextIInv ==
  ASSUME AtomicConversion, IInv, [Next]_vars
  PROVE  IInv'
<1>0. TypeOK'
  BY NextTypeOK DEF IInv
<1> USE LockFileAssumption, <1>0 DEF IInv, TypeOK, PCs, Compatible, LockAtPC, NameKept, Op
<1>1. ASSUME NEW p \in Procs, Call(p) PROVE IInv'
  BY <1>1 DEF Call, Goto
<1>2. ASSUME NEW p \in Procs, Open(p) PROVE IInv'
  <2>1. Compatible' /\ LockAtPC'
    BY <1>2 DEF Open, Goto
  <2>2. NameKept'
    BY <1>2 DEF Open, Goto
  <2> QED
    BY <2>1, <2>2
<1>3. ASSUME NEW p \in Procs, FlockGranted(p) PROVE IInv'
  <2>1. LockAtPC' /\ NameKept'
    BY <1>3 DEF FlockGranted, Goto
  <2>2. Compatible'
    BY <1>3 DEF FlockGranted, Goto, Grantable
  <2> QED
    BY <2>1, <2>2
<1>4. ASSUME NEW p \in Procs, FlockRefused(p) PROVE IInv'
  BY <1>4 DEF FlockRefused, Goto
<1>5. ASSUME NEW p \in Procs, Exists(p) PROVE IInv'
  BY <1>5 DEF Exists, Goto
<1>6. ASSUME NEW p \in Procs, Stat(p) PROVE IInv'
  BY <1>6 DEF Stat, Goto
<1>7. ASSUME NEW p \in Procs, Close(p) PROVE IInv'
  BY <1>7 DEF Close, Goto
<1>8. ASSUME NEW p \in Procs, Promote(p) PROVE IInv'
  <2>1. LockAtPC' /\ NameKept'
    BY <1>8 DEF Promote, Goto
  <2>2. Compatible'
    BY <1>8 DEF Promote, Goto, Grantable
  <2> QED
    BY <2>1, <2>2
<1>9. ASSUME NEW p \in Procs, PromoteTake(p) PROVE IInv'
  BY <1>9 DEF PromoteTake
<1>10. ASSUME NEW p \in Procs, Unlink(p) PROVE IInv'
  <2>1. Compatible' /\ LockAtPC'
    BY <1>10 DEF Unlink, Goto
  <2>2. ASSUME NEW q \in Procs, q # p PROVE pc[q] \notin {"locked", "unlink"}
    BY <1>10, <2>2 DEF Unlink
  <2>3. NameKept'
    BY <1>10, <2>2 DEF Unlink, Goto
  <2> QED
    BY <2>1, <2>3
<1>11. ASSUME NEW p \in Procs, Unlock(p) PROVE IInv'
  BY <1>11 DEF Unlock, Goto
<1>12. ASSUME NEW p \in Procs, Die(p) PROVE IInv'
  BY <1>12 DEF Die, Goto
<1>13. CASE UNCHANGED vars
  BY <1>13 DEF vars
<1> QED
  BY <1>1, <1>2, <1>3, <1>4, <1>5, <1>6, <1>7, <1>8, <1>9, <1>10, <1>11, <1>12, <1>13
     DEF Next, Attempt, Leave

(* Holders share one file, and an exclusive lock on it has no company. *)
LEMMA IInvExcludes == IInv => MutualExclusion
BY LockFileAssumption DEF IInv, TypeOK, Compatible, LockAtPC, NameKept, MutualExclusion, Op

(***************************************************************************)
(* Two processes are never both past lockfile() unless both asked for a    *)
(* shared lock, whatever files were removed and created in between and     *)
(* whichever processes died.                                               *)
(***************************************************************************)
THEOREM MutualExclusionTheorem ==
  ASSUME AtomicConversion
  PROVE  Spec => [](MutualExclusion /\ HolderKeepsName)
<1>1. Init => IInv
  BY InitIInv
<1>2. IInv /\ [Next]_vars => IInv'
  BY NextIInv
<1>3. IInv => MutualExclusion /\ HolderKeepsName
  BY IInvExcludes DEF IInv, NameKept, HolderKeepsName
<1> QED
  BY <1>1, <1>2, <1>3, PTL DEF Spec

(***************************************************************************)
(* The system calls implement the abstract lock: os.stat() with the same   *)
(* inode is the moment of acquisition, the first call of unlockfile() or   *)
(* the death of the process that of release.                               *)
(***************************************************************************)
THEOREM ImplementsLockTheorem ==
  ASSUME AtomicConversion
  PROVE  Spec => ImplementsLock
<1>1. Init => Lock!LockInit
  BY DEF Init, Lock!LockInit, Sharers, Owners
<1>2. IInv' => MutualExclusion'
  BY LockFileAssumption DEF IInv, TypeOK, Compatible, LockAtPC, NameKept, MutualExclusion, Op
<1>3. IInv /\ IInv' /\ [Next]_vars => [Lock!LockNext]_(Lock!lockVars)
  <2> SUFFICES ASSUME IInv, IInv', [Next]_vars
               PROVE  [Lock!LockNext]_(Lock!lockVars)
    OBVIOUS
  <2> USE DEF Lock!lockVars, Sharers, Owners, Goto
  <2>0. TypeOK /\ MutualExclusion'
    BY <1>2 DEF IInv
  <2>1. ASSUME NEW p \in Procs, Stat(p), path = fd[p] PROVE Lock!LockNext
    <3>1. pc' = [pc EXCEPT ![p] = "locked"] /\ req' = req /\ pc[p] = "stat"
      BY <2>1 DEF Stat
    <3>2. CASE req[p].shared
      <4>1. Sharers' = Sharers \union {p} /\ Owners' = Owners
        BY <2>0, <3>1, <3>2 DEF TypeOK
      <4>2. Owners = {}
        BY <2>0, <3>1, <3>2 DEF TypeOK, MutualExclusion
      <4> QED
        BY <4>1, <4>2 DEF Lock!LockNext, Lock!AcquireShared
    <3>3. CASE ~req[p].shared
      <4>1. Sharers' = Sharers /\ Owners' = Owners \union {p}
        BY <2>0, <3>1, <3>3 DEF TypeOK
      <4>2. Owners = {} /\ Sharers = {}
        BY <2>0, <3>1, <3>3 DEF TypeOK, MutualExclusion
      <4> QED
        BY <4>1, <4>2 DEF Lock!LockNext, Lock!AcquireExclusive
    <3> QED
      BY <3>2, <3>3
  <2>2. ASSUME NEW p \in Procs, Promote(p) \/ Die(p) PROVE Lock!LockNext
    <3>1. Sharers' = Sharers \ {p} /\ Owners' = Owners \ {p}
      BY <2>2, <2>0 DEF Promote, Die, TypeOK
    <3> QED
      BY <3>1 DEF Lock!LockNext, Lock!Release
  <2>3. ASSUME NEW p \in Procs,
               \/ Call(p) \/ Open(p) \/ FlockGranted(p) \/ FlockRefused(p) \/ Exists(p)
               \/ (Stat(p) /\ path # fd[p]) \/ Close(p)
               \/ PromoteTake(p) \/ Unlink(p) \/ Unlock(p)
        PROVE  Sharers' = Sharers /\ Owners' = Owners
    BY <2>3, <2>0 DEF TypeOK, Call, Open, FlockGranted, FlockRefused, Exists, Stat, Close,
                      PromoteTake, Unlink, Unlock
  <2>4. CASE UNCHANGED vars
    BY <2>4 DEF vars
  <2> QED
    BY <2>1, <2>2, <2>3, <2>4 DEF Next, Attempt, Leave
<1>4. Init => IInv
  BY InitIInv
<1>5. IInv /\ [Next]_vars => IInv'
  BY NextIInv
<1> QED
  BY <1>1, <1>3, <1>4, <1>5, PTL DEF Spec, ImplementsLock, Lock!LockSpec

------------------------------------------------------------------------------
(* Fetcher                                                                 *)

(* A stamp that counts tells the truth about the file.  While a task tries  *)
(* sources, and until what it got has been checked, there is no stamp, so   *)
(* that update_stamp, which only touches one that exists, cannot make an    *)
(* old one count for a new file, or for the unchecked one of a mirror.      *)
StampTrue == Recorded /\ FileExists => Content = stamp

At(t) ==
  /\ fpc[t] \in {"try", "update"} => stamp = "none"
  /\ fpc[t] \in {"restamp", "dump", "dumpLast"} => stamp = "empty" /\ Content = expects[t]
  /\ fpc[t] = "last" => stamp = "none" \/ (stamp = expects[t] /\ Content = expects[t])
  /\ fpc[t] = "success" => stamp = expects[t] /\ Content = expects[t]

FetchInv == FetchTypeOK /\ StampTrue /\ \A t \in Tasks : At(t)

------------------------------------------------------------------------------
(* The sources a task goes through are sources. *)
LEMMA SourcesType ==
  ASSUME NEW k \in {"premirror", "upstream", "mirror"}
  PROVE  SourcesOf(k) \in Seq(Sources) /\ Len(SourcesOf(k)) \in Nat
<1>1. <<Upstream>> \in Seq(Sources)
  BY FetchAssumption
<1>2. SourcesOf(k) \in Seq(Sources)
  BY <1>1, FetchAssumption DEF SourcesOf
<1> QED BY <1>2, LenProperties

LEMMA SourceType ==
  ASSUME FetchTypeOK, NEW t \in Tasks, Trying(t)
  PROVE  Source(t) \in Sources
<1> DEFINE seq == SourcesOf(phase[t])
           i == index[t]
<1>1. seq \in Seq(Sources) /\ Len(seq) \in Nat
  BY SourcesType DEF FetchTypeOK
<1>2. i \in 1..Len(seq)
  BY <1>1 DEF FetchTypeOK, Trying
<1> HIDE DEF seq, i
<1>3. seq[i] \in Sources
  BY <1>1, <1>2, ElementOfSeq
<1> QED BY <1>3 DEF Source, seq, i

(* What the records of files stand for. *)
LEMMA FileFacts ==
  /\ \A c : Data(c).data = c /\ Data(c).link = "none"
  /\ \A s : Link(s).data = "none" /\ Link(s).link = s
BY DEF Data, Link

(* What is in place has a content of the model, or none; "empty" is none. *)
LEMMA ContentType ==
  ASSUME FetchTypeOK
  PROVE  Content \in Contents \cup {"none"} /\ Content # "empty" /\ "empty" \notin Contents
<1>1. CASE file \in {Data(c) : c \in Contents \cup {"none"}}
  BY <1>1, FileFacts, FetchAssumption DEF Content, Contents
<1>2. CASE file \in {Link(s) : s \in LocalSources}
  <2>1. PICK s \in LocalSources : file = Link(s)
    BY <1>2
  <2>2. s # "none" /\ s \in Sources
    BY FetchAssumption
  <2>3. Content = offers[s]
    BY <2>1, <2>2, FileFacts DEF Content
  <2>4. "empty" \notin Contents
    BY FetchAssumption DEF Contents
  <2> QED BY <2>2, <2>3, <2>4 DEF FetchTypeOK
<1> QED BY <1>1, <1>2 DEF FetchTypeOK

------------------------------------------------------------------------------
(* The lock and the place of every task. *)
LockOK ==
  /\ fpc \in [Tasks -> Downloading \cup {"start", "fetched", "end"}]
  /\ flock = {t \in Tasks : fpc[t] \in Downloading}
  /\ \A t, u \in flock : t = u

PlaceOK ==
  /\ phase \in [Tasks -> {"premirror", "upstream", "mirror"}]
  /\ index \in [Tasks -> Nat \ {0}]
  /\ \A t \in Tasks : index[t] <= Len(SourcesOf(phase[t])) + 1

FilesOK ==
  /\ file \in {Data(c) : c \in Contents \cup {"none"}} \cup {Link(s) : s \in LocalSources}
  /\ stamp \in Contents \cup {"none", "empty"}
  /\ fresh \in BOOLEAN
  /\ offers \in [Sources -> Contents \cup {"none"}]

LEMMA TypeParts == FetchTypeOK <=> LockOK /\ PlaceOK /\ FilesOK /\ expects \in [Tasks -> Expected]
BY DEF FetchTypeOK, LockOK, PlaceOK, FilesOK

(* The task that holds the lock moves and keeps it. *)
LEMMA MoveHolding ==
  ASSUME LockOK, NEW t \in Tasks, fpc[t] \in Downloading,
         NEW w \in Downloading, FetchGoto(t, w), UNCHANGED flock
  PROVE  LockOK'
BY DEF LockOK, FetchGoto

(* It moves to a place outside and gives the lock up. *)
LEMMA MoveOut ==
  ASSUME LockOK, NEW t \in Tasks,
         NEW w \in {"start", "fetched", "end"}, FetchGoto(t, w), flock' = flock \ {t}
  PROVE  LockOK'
BY DEF LockOK, FetchGoto, Downloading

LEMMA Alone ==
  ASSUME LockOK, NEW t \in Tasks, fpc[t] \in Downloading, NEW u \in Tasks, u # t
  PROVE  fpc[u] \notin Downloading
BY DEF LockOK

LEMMA PlaceKept == PlaceOK /\ UNCHANGED place => PlaceOK'
BY DEF PlaceOK, place, SourcesOf

LEMMA TryPlace ==
  ASSUME PlaceOK, NEW t \in Tasks, NEW k \in {"premirror", "upstream", "mirror"}, Try(t, k)
  PROVE  PlaceOK'
<1>1. \A u \in Tasks : u # t => phase'[u] = phase[u] /\ index'[u] = index[u]
  BY DEF Try, PlaceOK
<1>2. phase'[t] = k /\ index'[t] = 1
  BY DEF Try, PlaceOK
<1>3. \A kk : SourcesOf(kk)' = SourcesOf(kk)
  BY DEF SourcesOf
<1>4. phase' \in [Tasks -> {"premirror", "upstream", "mirror"}] /\ index' \in [Tasks -> Nat \ {0}]
  BY DEF Try, PlaceOK
<1>5. \A u \in Tasks : index'[u] <= Len(SourcesOf(phase'[u])) + 1
  BY <1>1, <1>2, <1>3, SourcesType DEF PlaceOK
<1> QED BY <1>4, <1>5 DEF PlaceOK, SourcesOf

LEMMA NextPlace ==
  ASSUME PlaceOK, NEW t \in Tasks, Trying(t), NextSource(t)
  PROVE  PlaceOK'
<1>1. /\ phase' = phase /\ index' \in [Tasks -> Nat \ {0}]
      /\ \A u \in Tasks : u # t => index'[u] = index[u]
      /\ index'[t] = index[t] + 1
  BY DEF NextSource, PlaceOK
<1>2. \A u \in Tasks : index'[u] <= Len(SourcesOf(phase[u])) + 1
  BY <1>1, SourcesType DEF PlaceOK, Trying
<1> QED BY <1>1, <1>2 DEF PlaceOK, SourcesOf
------------------------------------------------------------------------------
(* Every step keeps the type. *)
LEMMA TypeStep == FetchTypeOK /\ [FetchNext]_fetchVars => FetchTypeOK'
<1> SUFFICES ASSUME FetchTypeOK, [FetchNext]_fetchVars
             PROVE  LockOK' /\ PlaceOK' /\ FilesOK'
  BY DEF FetchTypeOK, LockOK, PlaceOK, FilesOK, FetchNext, fetchVars
<1>0. LockOK /\ PlaceOK /\ FilesOK
  BY TypeParts
<1>1. /\ Absent \in {Data(c) : c \in Contents \cup {"none"}}
      /\ \A c \in Contents \cup {"none"} : Data(c) \in {Data(d) : d \in Contents \cup {"none"}}
      /\ \A s \in LocalSources : Link(s) \in {Link(r) : r \in LocalSources}
  BY DEF Absent
<1>2. Content \in Contents \cup {"none"}
  BY ContentType
<1>u. UNCHANGED <<file, stamp, fresh, offers>> => FilesOK'
  BY <1>0 DEF FilesOK, Contents, Data, Link
<1>g. ASSUME NEW t \in Tasks, fpc[t] \in Downloading, GiveUp(t)
      PROVE  LockOK' /\ PlaceOK'
  <2>1. CASE phase[t] = "premirror" /\ Try(t, "upstream") /\ UNCHANGED <<result, flock>>
    BY <1>0, <1>g, <2>1, TryPlace, MoveHolding DEF Try, Downloading
  <2>2. CASE phase[t] = "upstream" /\ Try(t, "mirror") /\ UNCHANGED <<result, flock>>
    BY <1>0, <1>g, <2>2, TryPlace, MoveHolding DEF Try, Downloading
  <2>3. CASE phase[t] = "mirror" /\ EndDownload(t, "failed") /\ UNCHANGED place
    BY <1>0, <1>g, <2>3, PlaceKept, MoveOut DEF EndDownload
  <2> QED BY <1>g, <2>1, <2>2, <2>3 DEF GiveUp
<1>3. ASSUME NEW t \in Tasks, LockDownload(t)
      PROVE  LockOK' /\ PlaceOK' /\ FilesOK'
  <2>1. LockOK'
    BY <1>0, <1>3 DEF LockOK, LockDownload, FetchGoto, Downloading
  <2> QED BY <1>0, <1>3, <1>u, <2>1, PlaceKept DEF LockDownload
<1>4. ASSUME NEW t \in Tasks, VerifyDonestamp(t)
      PROVE  LockOK' /\ PlaceOK' /\ FilesOK'
  <2>1. fpc[t] \in Downloading
    BY <1>4 DEF VerifyDonestamp, Downloading
  <2>2. LockOK'
    BY <1>0, <1>4, <2>1, MoveHolding DEF VerifyDonestamp, Try, Downloading
  <2>3. PlaceOK'
    BY <1>0, <1>4, TryPlace, PlaceKept DEF VerifyDonestamp
  <2>4. FilesOK'
    BY <1>0, <1>1, <1>4 DEF VerifyDonestamp, FilesOK, Contents, Data, Link
  <2> QED BY <2>2, <2>3, <2>4
<1>5. ASSUME NEW t \in Tasks, VerifyUnstamps(t)
      PROVE  LockOK' /\ PlaceOK' /\ FilesOK'
  <2>1. LockOK' /\ PlaceOK'
    BY <1>0, <1>5, TryPlace, MoveHolding DEF VerifyUnstamps, Try, Downloading
  <2>2. FilesOK'
    BY <1>0, <1>5 DEF VerifyUnstamps, FilesOK, Contents, Data, Link
  <2> QED BY <2>1, <2>2
<1>6. ASSUME NEW t \in Tasks, VerifyRestamps(t) \/ WriteStamp(t)
      PROVE  LockOK' /\ PlaceOK' /\ FilesOK'
  <2>1. LockOK' /\ PlaceOK'
    BY <1>0, <1>6, PlaceKept, MoveHolding DEF VerifyRestamps, WriteStamp, Dump, Downloading
  <2>2. FilesOK'
    BY <1>0, <1>2, <1>6 DEF VerifyRestamps, WriteStamp, Dump, FilesOK, Contents, Data, Link
  <2> QED BY <2>1, <2>2
<1>7. ASSUME NEW t \in Tasks, TryRemote(t)
      PROVE  LockOK' /\ PlaceOK' /\ FilesOK'
  <2>1. fpc[t] \in Downloading /\ Trying(t) /\ Source(t) \in Sources
    BY <1>7, SourceType DEF TryRemote, Trying, Downloading
  <2>2. CASE Wget(t, Source(t))
    <3>1. LockOK' /\ PlaceOK'
      BY <1>0, <1>7, <2>1, <2>2, PlaceKept, MoveHolding DEF TryRemote, Downloading
    <3>2. offers[Source(t)] \in Contents \cup {"none"}
      BY <1>0, <2>1 DEF FilesOK
    <3>3. FilesOK'
      BY <1>0, <1>1, <1>7, <2>2, <3>2 DEF TryRemote, FilesOK, Contents, Data, Link
    <3> QED BY <3>1, <3>3
  <2>3. CASE ~Wget(t, Source(t))
    <3>1. LockOK'
      BY <1>0, <1>7, <2>1, <2>3 DEF TryRemote, NextSource, LockOK
    <3>2. PlaceOK'
      BY <1>0, <1>7, <2>1, <2>3, NextPlace DEF TryRemote
    <3>3. FilesOK'
      BY <1>0, <1>1, <1>7, <2>3 DEF TryRemote, FilesOK, Contents, Data, Link
    <3> QED BY <3>1, <3>2, <3>3
  <2> QED BY <2>2, <2>3
<1>8. ASSUME NEW t \in Tasks, TryLocal(t)
      PROVE  LockOK' /\ PlaceOK' /\ FilesOK'
  <2> DEFINE s == Source(t)
  <2>1. fpc[t] \in Downloading /\ Trying(t) /\ s \in Sources /\ s \in LocalSources
    BY <1>8, SourceType DEF TryLocal, Trying, Downloading
  <2>2. CASE offers[s] = "none" /\ NextSource(t) /\ UNCHANGED <<file, fresh, offers>>
    <3>1. LockOK' /\ FilesOK'
      BY <1>0, <1>8, <1>u, <2>2 DEF TryLocal, NextSource, LockOK
    <3> QED BY <1>0, <2>1, <2>2, <3>1, NextPlace
  <2>3. CASE /\ file' = Link(s) /\ fresh' = FALSE
             /\ FetchGoto(t, "update")
             /\ UNCHANGED <<offers, place>>
    <3>1. LockOK' /\ PlaceOK'
      BY <1>0, <1>8, <2>1, <2>3, PlaceKept, MoveHolding DEF TryLocal, Downloading
    <3>2. FilesOK'
      BY <1>0, <1>1, <1>8, <2>1, <2>3 DEF TryLocal, FilesOK, Contents, Data, Link
    <3> QED BY <3>1, <3>2
  <2>4. CASE /\ file' = Absent
             /\ offers' = [offers EXCEPT ![s] = "none"]
             /\ NextSource(t)
             /\ UNCHANGED fresh
    <3>1. LockOK'
      BY <1>0, <1>8, <2>4 DEF TryLocal, NextSource, LockOK
    <3>2. FilesOK'
      BY <1>0, <1>1, <1>8, <2>1, <2>4 DEF TryLocal, FilesOK, Contents, Data, Link
    <3> QED BY <1>0, <2>1, <2>4, <3>1, <3>2, NextPlace
  <2> QED BY <1>8, <2>2, <2>3, <2>4 DEF TryLocal
<1>9. ASSUME NEW t \in Tasks, Exhausted(t)
      PROVE  LockOK' /\ PlaceOK' /\ FilesOK'
  BY <1>9, <1>g, <1>u DEF Exhausted, Downloading
<1>10. ASSUME NEW t \in Tasks, EarlyUpdate(t)
      PROVE  LockOK' /\ PlaceOK' /\ FilesOK'
  <2>1. fpc[t] \in Downloading
    BY <1>10 DEF EarlyUpdate, Downloading
  <2>2. LockOK' /\ PlaceOK'
    BY <1>0, <1>10, <1>g, <2>1, PlaceKept, MoveHolding DEF EarlyUpdate, UpdateStamp, Downloading
  <2>3. FilesOK'
    BY <1>0, <1>1, <1>10 DEF EarlyUpdate, UpdateStamp, FilesOK, Contents, Data, Link
  <2> QED BY <2>2, <2>3
<1>11. ASSUME NEW t \in Tasks, LastUpdate(t)
      PROVE  LockOK' /\ PlaceOK' /\ FilesOK'
  <2>1. fpc[t] \in Downloading
    BY <1>11 DEF LastUpdate, Downloading
  <2>2. LockOK' /\ PlaceOK'
    BY <1>0, <1>11, <2>1, PlaceKept, MoveHolding, MoveOut
       DEF LastUpdate, UpdateStamp, EndDownload, Downloading
  <2>3. FilesOK'
    BY <1>0, <1>1, <1>11 DEF LastUpdate, UpdateStamp, FilesOK, Contents, Data, Link
  <2> QED BY <2>2, <2>3
<1>12. ASSUME NEW t \in Tasks, UnlockDownload(t) \/ IOError(t) \/ Kill(t)
      PROVE  LockOK' /\ PlaceOK' /\ FilesOK'
  <2>1. LockOK' /\ PlaceOK'
    BY <1>0, <1>12, PlaceKept, MoveOut DEF UnlockDownload, IOError, Kill, EndDownload
  <2> QED BY <1>12, <1>u, <2>1 DEF UnlockDownload, IOError, Kill
<1>13. ASSUME NEW t \in Tasks, Unpack(t)
      PROVE  LockOK' /\ PlaceOK' /\ FilesOK'
  <2>1. flock' = flock \ {t}
    BY <1>13 DEF Unpack
  <2>2. LockOK' /\ PlaceOK'
    BY <1>0, <1>13, <2>1, PlaceKept, MoveOut DEF Unpack
  <2> QED BY <1>13, <1>u, <2>2 DEF Unpack
<1>14. CASE Clean
  <2>1. LockOK' /\ PlaceOK'
    BY <1>0, <1>14, PlaceKept DEF Clean, LockOK
  <2>2. FilesOK'
    BY <1>0, <1>1, <1>14 DEF Clean, FilesOK, Contents, Data, Link
  <2> QED BY <2>1, <2>2
<1>15. CASE UNCHANGED fetchVars
  <2>1. LockOK' /\ PlaceOK'
    BY <1>0, <1>15, PlaceKept DEF fetchVars, place, LockOK
  <2> QED BY <1>15, <1>u, <2>1 DEF fetchVars
<1> QED
  BY <1>3, <1>4, <1>5, <1>6, <1>7, <1>8, <1>9, <1>10, <1>11, <1>12, <1>13, <1>14, <1>15
     DEF FetchNext, Step, Done

------------------------------------------------------------------------------
(* A step of the task that holds the lock leaves the others, which are not  *)
(* downloading, where they are.                                             *)
LEMMA OthersAside ==
  ASSUME LockOK, NEW t \in Tasks, fpc[t] \in Downloading,
         NEW w, FetchGoto(t, w) \/ UNCHANGED fpc, NEW u \in Tasks, u # t
  PROVE  At(u)'
<1>1. fpc[u] \notin Downloading
  BY Alone
<1>2. fpc'[u] = fpc[u]
  BY DEF FetchGoto, LockOK
<1> QED BY <1>1, <1>2 DEF At, Downloading

(* A task outside download() is bound by nothing. *)
LEMMA OutsideAt ==
  ASSUME NEW t, fpc[t] \in {"start", "fetched", "end", "verify", "unstamp"}
  PROVE  At(t)
BY DEF At

(* Every step keeps the invariant. *)
LEMMA InvStep == FetchInv /\ [FetchNext]_fetchVars => FetchInv'
<1> SUFFICES ASSUME FetchInv, [FetchNext]_fetchVars PROVE FetchInv'
  OBVIOUS
<1>0. /\ FetchTypeOK /\ LockOK /\ PlaceOK /\ FilesOK
      /\ expects \in [Tasks -> Expected] /\ UNCHANGED expects
      /\ fpc \in [Tasks -> Downloading \cup {"start", "fetched", "end"}]
      /\ StampTrue /\ \A t \in Tasks : At(t)
  BY TypeParts DEF FetchInv, FetchNext, fetchVars, LockOK
<1>1. FetchTypeOK'
  BY <1>0, TypeStep
<1>2. /\ Content \in Contents \cup {"none"} /\ Content # "empty"
      /\ \A t \in Tasks : expects[t] \notin {"none", "empty"}
  BY <1>0, ContentType, FetchAssumption
<1> SUFFICES StampTrue' /\ \A t \in Tasks : At(t)'
  BY <1>1 DEF FetchInv
<1>a. Absent.link = "none" /\ Absent.data = "none"
  BY FileFacts DEF Absent
<1>u. UNCHANGED <<file, offers>> => Content' = Content
  BY DEF Content
<1>s. UNCHANGED <<file, stamp, fresh, offers>> => StampTrue'
  BY <1>0 DEF StampTrue, Recorded, FileExists, Content
<1>n. file' = Absent \/ stamp' \in {"none", "empty"} => StampTrue'
  BY <1>a DEF StampTrue, Recorded, FileExists, Content
<1>o. ASSUME NEW t \in Tasks, fpc[t] \in Downloading,
             NEW w, FetchGoto(t, w) \/ UNCHANGED fpc, At(t)'
      PROVE  \A u \in Tasks : At(u)'
  BY <1>0, <1>o, OthersAside
<1>w. ASSUME NEW t \in Tasks, NEW w, FetchGoto(t, w)
      PROVE  fpc'[t] = w
  BY <1>0, <1>w DEF FetchGoto
<1>x. ASSUME NEW t \in Tasks, NEW w \in {"start", "fetched", "end"}, FetchGoto(t, w),
             UNCHANGED <<file, stamp, fresh, offers>>
      PROVE  StampTrue' /\ \A u \in Tasks : At(u)'
  <2>1. At(t)'
    BY <1>x, <1>w, OutsideAt DEF At
  <2>2. ASSUME NEW u \in Tasks, u # t PROVE At(u)'
    BY <1>0, <1>x, <1>u, <2>2 DEF At, FetchGoto
  <2> QED BY <1>x, <1>s, <2>1, <2>2
<1>g. ASSUME NEW t \in Tasks, fpc[t] \in Downloading, GiveUp(t), stamp' = "none"
      PROVE  StampTrue' /\ \A u \in Tasks : At(u)'
  <2>1. PICK w \in {"try", "fetched"} : FetchGoto(t, w)
    BY <1>g DEF GiveUp, Try, EndDownload
  <2>2. At(t)'
    BY <1>g, <1>w, <2>1 DEF At
  <2> QED BY <1>g, <1>n, <1>o, <2>1, <2>2
<1>3. ASSUME NEW t \in Tasks, LockDownload(t)
      PROVE  StampTrue' /\ \A u \in Tasks : At(u)'
  <2>1. At(t)'
    BY <1>3, <1>w DEF LockDownload, At
  <2>2. ASSUME NEW u \in Tasks, u # t PROVE At(u)'
    BY <1>0, <1>3, <1>u, <2>2 DEF At, FetchGoto, LockDownload
  <2> QED BY <1>3, <1>s, <2>1, <2>2 DEF LockDownload
<1>4. ASSUME NEW t \in Tasks, VerifyDonestamp(t)
      PROVE  StampTrue' /\ \A u \in Tasks : At(u)'
  <2>0. fpc[t] \in Downloading
    BY <1>4 DEF VerifyDonestamp, Downloading
  <2>1. CASE ~FileExists /\ stamp' = "none" /\ Try(t, "premirror")
    <3>1. FetchGoto(t, "try") /\ At(t)'
      BY <1>w, <2>1 DEF Try, At
    <3> QED BY <1>n, <1>o, <2>0, <2>1, <3>1
  <2>2. CASE /\ FileExists /\ Checksums = expects[t] /\ Recorded
             /\ FetchGoto(t, "last") /\ stamp' = stamp /\ UNCHANGED <<file, fresh, offers>>
    <3>1. stamp = expects[t] /\ Content = stamp
      BY <1>0, <2>2 DEF StampTrue, Checksums
    <3>2. At(t)'
      BY <1>0, <1>u, <1>w, <2>2, <3>1 DEF At
    <3> QED BY <1>o, <1>s, <2>0, <2>2, <3>2
  <2>3. CASE /\ FileExists /\ Checksums = expects[t] /\ ~Recorded
             /\ FetchGoto(t, "restamp") /\ stamp' = "empty" /\ UNCHANGED <<file, fresh, offers>>
    <3>1. Content = expects[t]
      BY <2>3 DEF Checksums
    <3>2. At(t)'
      BY <1>0, <1>u, <1>w, <2>3, <3>1 DEF At
    <3> QED BY <1>o, <1>n, <2>0, <2>3, <3>2
  <2>4. CASE file' = Absent /\ FetchGoto(t, "unstamp")
    <3>1. At(t)'
      BY <1>w, <2>4 DEF At
    <3> QED BY <1>o, <1>n, <2>0, <2>4, <3>1
  <2> QED BY <1>4, <2>1, <2>2, <2>3, <2>4 DEF VerifyDonestamp
<1>5. ASSUME NEW t \in Tasks, VerifyUnstamps(t)
      PROVE  StampTrue' /\ \A u \in Tasks : At(u)'
  <2>1. fpc[t] \in Downloading /\ FetchGoto(t, "try") /\ At(t)'
    BY <1>5, <1>w DEF VerifyUnstamps, Try, At, Downloading
  <2> QED BY <1>5, <1>n, <1>o, <2>1 DEF VerifyUnstamps
<1>6. ASSUME NEW t \in Tasks, VerifyRestamps(t) \/ WriteStamp(t)
      PROVE  StampTrue' /\ \A u \in Tasks : At(u)'
  <2>1. fpc[t] \in {"restamp", "dump", "dumpLast"} /\ fpc[t] \in Downloading
    BY <1>6 DEF VerifyRestamps, WriteStamp, Downloading
  <2>2. Content = expects[t] /\ Content' = Content
    BY <1>0, <1>6, <1>u, <2>1 DEF At, VerifyRestamps, WriteStamp
  <2>3. /\ FetchGoto(t, "last") \/ FetchGoto(t, "success")
        /\ stamp' = Content
    BY <1>6 DEF VerifyRestamps, WriteStamp, Dump
  <2>4. fpc'[t] \in {"last", "success"}
    BY <1>w, <2>3
  <2>5. At(t)'
    BY <1>0, <2>2, <2>3, <2>4 DEF At
  <2>6. StampTrue'
    BY <2>2, <2>3 DEF StampTrue
  <2> QED BY <1>o, <2>1, <2>3, <2>5, <2>6
<1>7. ASSUME NEW t \in Tasks, TryRemote(t)
      PROVE  StampTrue' /\ \A u \in Tasks : At(u)'
  <2>1. fpc[t] = "try" /\ fpc[t] \in Downloading /\ stamp' = "none"
    BY <1>0, <1>7 DEF TryRemote, Trying, Downloading, At
  <2>2. PICK w \in {"try", "update", "last"} : FetchGoto(t, w) \/ (w = "try" /\ UNCHANGED fpc)
    BY <1>7 DEF TryRemote, NextSource
  <2>3. At(t)'
    BY <1>w, <2>1, <2>2 DEF At
  <2> QED BY <1>n, <1>o, <2>1, <2>2, <2>3
<1>8. ASSUME NEW t \in Tasks, TryLocal(t)
      PROVE  StampTrue' /\ \A u \in Tasks : At(u)'
  <2>1. fpc[t] = "try" /\ fpc[t] \in Downloading /\ stamp' = "none"
    BY <1>0, <1>8 DEF TryLocal, Trying, Downloading, At
  <2>2. PICK w \in {"try", "update"} : FetchGoto(t, w) \/ (w = "try" /\ UNCHANGED fpc)
    BY <1>8 DEF TryLocal, NextSource
  <2>3. At(t)'
    BY <1>w, <2>1, <2>2 DEF At
  <2> QED BY <1>n, <1>o, <2>1, <2>2, <2>3
<1>9. ASSUME NEW t \in Tasks, Exhausted(t)
      PROVE  StampTrue' /\ \A u \in Tasks : At(u)'
  <2>1. fpc[t] \in Downloading /\ stamp' = "none"
    BY <1>0, <1>9 DEF Exhausted, At, Downloading
  <2> QED BY <1>9, <1>g, <2>1 DEF Exhausted
<1>10. ASSUME NEW t \in Tasks, EarlyUpdate(t)
       PROVE  StampTrue' /\ \A u \in Tasks : At(u)'
  <2>1. fpc[t] \in Downloading /\ stamp = "none"
    BY <1>0, <1>10 DEF EarlyUpdate, At, Downloading
  <2>2. CASE ~Mismatch(t)
    <3>1. Content = expects[t]
      BY <2>1, <2>2 DEF Mismatch
    <3>2. FetchGoto(t, "dump") /\ stamp' = "empty" /\ Content' = Content
      BY <1>10, <1>u, <2>1, <2>2 DEF EarlyUpdate, UpdateStamp
    <3>3. At(t)'
      BY <1>0, <1>w, <3>1, <3>2 DEF At
    <3> QED BY <1>n, <1>o, <2>1, <3>2, <3>3
  <2>3. CASE Mismatch(t) /\ GiveUp(t) /\ stamp' = "none"
    BY <1>g, <2>1, <2>3
  <2> QED BY <1>10, <2>2, <2>3 DEF EarlyUpdate
<1>11. ASSUME NEW t \in Tasks, LastUpdate(t)
       PROVE  StampTrue' /\ \A u \in Tasks : At(u)'
  <2>1. fpc[t] \in Downloading /\ (stamp = "none" \/ (stamp = expects[t] /\ Content = expects[t]))
    BY <1>0, <1>11 DEF LastUpdate, At, Downloading
  <2>2. CASE FileExists /\ ~Mismatch(t) /\ stamp = "none"
    <3>1. Content = expects[t]
      BY <2>2 DEF Mismatch
    <3>2. FetchGoto(t, "dumpLast") /\ stamp' = "empty" /\ Content' = Content
      BY <1>11, <1>u, <2>2 DEF LastUpdate, UpdateStamp
    <3>3. At(t)'
      BY <1>0, <1>w, <3>1, <3>2 DEF At
    <3> QED BY <1>n, <1>o, <2>1, <3>2, <3>3
  <2>3. CASE FileExists /\ ~Mismatch(t) /\ stamp # "none"
    <3>1. FetchGoto(t, "success") /\ stamp' = stamp /\ Content' = Content
      BY <1>11, <1>u, <2>3 DEF LastUpdate, UpdateStamp
    <3>2. At(t)'
      BY <1>0, <1>w, <2>1, <2>3, <3>1 DEF At
    <3>3. StampTrue'
      BY <2>1, <2>3, <3>1 DEF StampTrue
    <3> QED BY <1>o, <2>1, <3>1, <3>2, <3>3
  <2>4. CASE ~FileExists \/ Mismatch(t)
    <3>1. FetchGoto(t, "fetched") /\ file' \in {file, Absent} /\ UNCHANGED <<stamp, fresh, offers>>
      BY <1>11, <2>4 DEF LastUpdate, EndDownload
    <3>2. At(t)'
      BY <1>w, <3>1 DEF At
    <3>3. StampTrue'
      BY <1>n, <1>s, <3>1
    <3> QED BY <1>o, <2>1, <3>1, <3>2, <3>3
  <2> QED BY <2>2, <2>3, <2>4
<1>12. ASSUME NEW t \in Tasks, UnlockDownload(t) \/ IOError(t) \/ Kill(t) \/ Unpack(t)
       PROVE  StampTrue' /\ \A u \in Tasks : At(u)'
  BY <1>12, <1>x DEF UnlockDownload, IOError, Kill, Unpack, EndDownload
<1>13. CASE Clean
  <2>1. ASSUME NEW u \in Tasks PROVE At(u)'
    <3>1. fpc[u] \notin Downloading /\ fpc' = fpc
      BY <1>0, <1>13 DEF Clean, LockOK
    <3> QED BY <3>1 DEF At, Downloading
  <2> QED BY <1>13, <1>n, <2>1 DEF Clean
<1>14. CASE UNCHANGED fetchVars
  <2>1. ASSUME NEW u \in Tasks PROVE At(u)'
    BY <1>0, <1>14, <1>u DEF fetchVars, At
  <2> QED BY <1>14, <1>s, <2>1 DEF fetchVars
<1> QED
  BY <1>3, <1>4, <1>5, <1>6, <1>7, <1>8, <1>9, <1>10, <1>11, <1>12, <1>13, <1>14
     DEF FetchNext, Step, Done

LEMMA InvInit == FetchInit => FetchInv
<1> SUFFICES ASSUME FetchInit PROVE FetchInv
  OBVIOUS
<1>1. LockOK
  BY DEF FetchInit, LockOK, Downloading
<1>2. PlaceOK
  BY SourcesType DEF FetchInit, PlaceOK
<1>3. FilesOK
  BY FetchAssumption DEF FetchInit, FilesOK, Absent, Contents
<1>4. StampTrue /\ \A t \in Tasks : At(t)
  BY DEF FetchInit, StampTrue, Recorded, At
<1> QED BY <1>1, <1>2, <1>3, <1>4, TypeParts DEF FetchInv, FetchInit

(* The types, with the lock: a task is between lockfile() and the finally   *)
(* clause of download() exactly while it holds the lock, which one task at  *)
(* a time does, and it never looks for a source past the end of its list.   *)
THEOREM FetchTypeTheorem == FetchSpec => []FetchTypeOK
<1>1. FetchInv => FetchTypeOK
  BY DEF FetchInv
<1> QED BY <1>1, InvInit, InvStep, PTL DEF FetchSpec

(* For any recipes that share a file name, any lists of mirrors and sources *)
(* and any number of kills, I/O errors and cleans: a download() that goes   *)
(* through has in place the file whose checksum its recipe gives.           *)
THEOREM FetchedIsExpectedTheorem == FetchSpec => []FetchedIsExpected
<1>1. FetchInv => FetchedIsExpected
  BY DEF FetchInv, FetchedIsExpected, At
<1> QED BY <1>1, InvInit, InvStep, PTL DEF FetchSpec

------------------------------------------------------------------------------
(* CookerParser                                                            *)

\* The next half of a result in the queue is its second.
Midway == mpc \in {"reading", "drainread"}

\* Halves alternate, and the feeder that has the lock wrote the last one.
Alternate ==
  /\ \A i \in 1 .. Len(queue) - 1 : queue[i].half # queue[i + 1].half
  /\ queue # <<>> => queue[1].half = IF Midway THEN 2 ELSE 1
  /\ wlock = Nobody <=> IF queue = <<>> THEN ~Midway ELSE queue[Len(queue)].half = 2

\* The two halves of a result belong together, wherever they are.
Same(h, r) == h.job = r.job /\ h.ok = r.ok

Matched ==
  /\ \A i \in 1 .. Len(queue) - 1 : queue[i].half = 1 => Same(queue[i], queue[i + 1])
  /\ mpc = "reading" /\ queue # <<>> => Same(first, queue[1])
  /\ wlock # Nobody =>
       /\ buf[wlock] # <<>>
       /\ queue # <<>> => Same(queue[Len(queue)], buf[wlock][1])
       /\ mpc = "reading" /\ queue = <<>> => Same(first, buf[wlock][1])
  /\ mpc = "reading" => first \in Results

\* A recipe is in the hands of the process it was given to.
InHand(p) == ppc[p] \in {"parse", "put"}

Owned ==
  \A p \in Parsers :
     /\ \A j \in jobs[p] : Share[j] = p
     /\ InHand(p) => work[p].job \in Jobs /\ Share[work[p].job] = p
     /\ \A i \in 1 .. Len(buf[p]) : Share[buf[p][i].job] = p

\* A recipe is in one place: not begun, in hand, in a buffer, in the queue or
\* added; and there once.  In the queue the second half counts.
BegunOnce ==
  \A p \in Parsers : \A j \in jobs[p] :
     /\ InHand(p) => work[p].job # j
     /\ \A i \in 1 .. Len(buf[p]) : buf[p][i].job # j
     /\ \A i \in 1 .. Len(queue) : queue[i].half = 2 => queue[i].job # j
     /\ \A i \in 1 .. Len(parsed) : parsed[i] # j

HandOnce ==
  \A p \in Parsers : InHand(p) =>
     /\ \A i \in 1 .. Len(buf[p]) : buf[p][i].job # work[p].job
     /\ \A i \in 1 .. Len(queue) : queue[i].half = 2 => queue[i].job # work[p].job
     /\ \A i \in 1 .. Len(parsed) : parsed[i] # work[p].job

BufferedOnce ==
  \A p \in Parsers : \A k \in 1 .. Len(buf[p]) :
     /\ \A i \in 1 .. Len(buf[p]) : buf[p][i].job = buf[p][k].job => i = k
     /\ \A i \in 1 .. Len(queue) : queue[i].half = 2 => queue[i].job # buf[p][k].job
     /\ \A i \in 1 .. Len(parsed) : parsed[i] # buf[p][k].job

QueuedOnce ==
  \A k \in 1 .. Len(queue) : queue[k].half = 2 =>
     /\ \A i \in 1 .. Len(queue) : queue[i].half = 2 /\ queue[i].job = queue[k].job => i = k
     /\ \A i \in 1 .. Len(parsed) : parsed[i] # queue[k].job

AddedOnce == \A i, k \in 1 .. Len(parsed) : parsed[i] = parsed[k] => i = k

Once == Owned /\ BegunOnce /\ HandOnce /\ BufferedOnce /\ QueuedOnce /\ AddedOnce

\* A result that says so was parsed.
Truthful ==
  /\ \A p \in Parsers : InHand(p) /\ work[p].ok => work[p].job \notin Bad
  /\ \A p \in Parsers : \A i \in 1 .. Len(buf[p]) : buf[p][i].ok => buf[p][i].job \notin Bad
  /\ \A i \in 1 .. Len(queue) : queue[i].ok => queue[i].job \notin Bad
  /\ first.ok => first.job \notin Bad
  /\ \A i \in 1 .. Len(parsed) : parsed[i] \notin Bad

\* Where a recipe can be
Buffered(j) == \E i \in 1 .. Len(buf[Share[j]]) : buf[Share[j]][i].job = j
Queued(j) == \E i \in 1 .. Len(queue) : queue[i].half = 2 /\ queue[i].job = j
Added(j) == \E i \in 1 .. Len(parsed) : parsed[i] = j
Placed(j) ==
  \/ j \in jobs[Share[j]]
  \/ InHand(Share[j]) /\ work[Share[j]].job = j
  \/ Buffered(j) \/ Queued(j) \/ Added(j)

\* As long as parsing goes on and nobody was killed no recipe is lost.
NoneLost ==
  kills = 0 /\ ending = "none" =>
    /\ \A j \in Jobs : Placed(j)
    /\ \A p \in Parsers : /\ ppc[p] # "killed"
                          /\ ppc[p] \in {"closing", "exited"} => jobs[p] = {}

\* A process that is not in the list any more has ended, and one that exited has
\* written everything.  When the generator has nothing to wait for the queue is empty.
Gone ==
  /\ \A p \in Parsers : ppc[p] = "exited" => buf[p] = <<>>
  /\ \A p \in Parsers \ procs : ~Alive(p)
  /\ mpc = "reading" => ~empty
  /\ mpc = "generate" /\ procs = {} /\ empty => queue = <<>>

\* Tokens are written when parsing ends.
Tokens == ending = "none" => quit = 0

\* The verdict is right when it is given.
Verdict ==
  /\ ending = "complete" => Len(parsed) = ToParse
  /\ DiedMeansKilled

(***************************************************************************)
(* The inductive invariant.  CompleteMeansAll alone is not inductive: that *)
(* a result is added once needs that every recipe is in one place on its   *)
(* way from its process to the caches (Once), which needs that the halves  *)
(* that several feeders write stay in pairs (Alternate, Matched); that     *)
(* "died" is true needs that none is lost on the way (NoneLost) and that a *)
(* process that has ended has written everything (Gone).                   *)
(***************************************************************************)
ParserInv ==
  /\ ParserTypeOK /\ Tokens /\ Alternate /\ Matched /\ Once
  /\ Truthful /\ NoneLost /\ Gone /\ Verdict
-------------------------------------------------------------------------------
\* The numbers of processes and recipes are numbers.
LEMMA ParserFinite ==
  /\ Cardinality(Parsers) \in Nat /\ ToParse \in Nat
  /\ \A S \in SUBSET Parsers : Cardinality(S) \in 0 .. Cardinality(Parsers)
<1>1. ASSUME NEW S \in SUBSET Parsers PROVE Cardinality(S) \in 0 .. Cardinality(Parsers)
  BY FS_Subset, FS_CardinalityType, ParserAssumption
<1>. QED  BY <1>1, FS_CardinalityType, ParserAssumption DEF ToParse

\* A sequence without its first element
LEMMA TailFacts ==
  ASSUME NEW S, NEW s \in Seq(S), s # <<>>
  PROVE  /\ Len(s) \in Nat /\ Len(s) > 0 /\ Head(s) = s[1] /\ s[1] \in S
         /\ Tail(s) \in Seq(S) /\ Len(Tail(s)) = Len(s) - 1
         /\ \A i \in 1 .. Len(s) - 1 : Tail(s)[i] = s[i + 1]
         /\ Tail(s) = <<>> <=> Len(s) = 1
<1>1. Len(s) \in Nat /\ Len(s) > 0 /\ Head(s) = s[1] /\ s[1] \in S
  BY EmptySeq, LenProperties, ElementOfSeq
<1>2. Tail(s) \in Seq(S) /\ Len(Tail(s)) = Len(s) - 1 /\ \A i \in 1 .. Len(s) - 1 : Tail(s)[i] = s[i + 1]
  BY HeadTailProperties
<1>3. Tail(s) = <<>> <=> Len(Tail(s)) = 0
  BY <1>2, EmptySeq
<1>. QED  BY <1>1, <1>2, <1>3

\* A sequence and one element more
LEMMA AppendFacts ==
  ASSUME NEW S, NEW s \in Seq(S), NEW x \in S
  PROVE  /\ Len(s) \in Nat /\ Append(s, x) \in Seq(S) /\ Len(Append(s, x)) = Len(s) + 1
         /\ \A i \in 1 .. Len(s) : Append(s, x)[i] = s[i]
         /\ Append(s, x)[Len(s) + 1] = x /\ Append(s, x) # <<>>
         /\ s = <<>> <=> Len(s) = 0
<1>1. Len(s) \in Nat /\ Append(s, x) \in Seq(S) /\ Len(Append(s, x)) = Len(s) + 1
  BY AppendProperties, LenProperties
<1>2. (\A i \in 1 .. Len(s) : Append(s, x)[i] = s[i]) /\ Append(s, x)[Len(s) + 1] = x
  BY AppendProperties, LenProperties
<1>. QED  BY <1>1, <1>2, EmptySeq

\* What is in the queue
Halves == [job : Jobs, ok : BOOLEAN, half : {1, 2}]

\* Every step of a process or of the server keeps the types; tokens come last.
LEMMA ParserTypeStep == ParserTypeOK /\ Tokens /\ Owned /\ Matched /\ [ParserNext]_parserVars => ParserTypeOK' /\ Tokens'
<1>. SUFFICES ASSUME ParserTypeOK, Tokens, Owned, Matched, [ParserNext]_parserVars PROVE ParserTypeOK' /\ Tokens'
  OBVIOUS
<1>. USE ParserFinite, ParserAssumption
<1>1. ASSUME NEW p \in Parsers, Loop(p) PROVE ParserTypeOK' /\ Tokens'
  <2>1. CASE UNCHANGED <<jobs, work>> /\ Set(p, "closing") /\ quit > 0 /\ quit' = quit - 1
    BY <1>1, <2>1 DEF ParserTypeOK, Tokens, Loop, Set, serverVars
  <2>2. CASE UNCHANGED <<jobs, work, quit>> /\ Set(p, "closing")
    BY <1>1, <2>2 DEF ParserTypeOK, Tokens, Loop, Set, serverVars
  <2>3. ASSUME NEW j \in jobs[p], UNCHANGED quit, Set(p, "parse"),
               jobs' = [jobs EXCEPT ![p] = @ \ {j}],
               work' = [work EXCEPT ![p] = [job |-> j, ok |-> FALSE]]
        PROVE  ParserTypeOK' /\ Tokens'
    <3>1. jobs' \in [Parsers -> SUBSET Jobs] /\ [job |-> j, ok |-> FALSE] \in Results
      BY <2>3 DEF ParserTypeOK, Results
    <3>2. work' \in [Parsers -> Results \cup {NoResult}]
      BY <2>3, <3>1 DEF ParserTypeOK
    <3>. QED  BY <1>1, <2>3, <3>1, <3>2 DEF ParserTypeOK, Tokens, Loop, Set, serverVars
  <2>. QED  BY <1>1, <2>1, <2>2, <2>3 DEF Loop
<1>2. ASSUME NEW p \in Parsers, Parse(p) PROVE ParserTypeOK' /\ Tokens'
  <2>1. [job |-> work[p].job, ok |-> work[p].job \notin Bad] \in Results
    BY <1>2 DEF Parse, Owned, InHand, Results
  <2>2. work' \in [Parsers -> Results \cup {NoResult}]
    BY <1>2, <2>1 DEF ParserTypeOK, Parse
  <2>. QED  BY <1>2, <2>2 DEF ParserTypeOK, Tokens, Parse, Set, serverVars
<1>3. ASSUME NEW p \in Parsers, Put(p) PROVE ParserTypeOK' /\ Tokens'
  <2>1. work[p] \in Results
    <3>1. work[p].job \in Jobs
      BY <1>3 DEF Put, Owned, InHand
    <3>2. CASE work[p] = NoResult
      BY <3>1, <3>2 DEF Results, NoResult
    <3>. QED  BY <3>2 DEF ParserTypeOK
  <2>2. buf' \in [Parsers -> Seq(Results)]
    BY <1>3, <2>1, AppendFacts DEF ParserTypeOK, Put
  <2>. QED  BY <1>3, <2>2 DEF ParserTypeOK, Tokens, Put, Set, serverVars
<1>4. ASSUME NEW p \in Parsers, CloseResults(p) PROVE ParserTypeOK' /\ Tokens'
  BY <1>4 DEF ParserTypeOK, Tokens, CloseResults, Set, serverVars
<1>5. ASSUME NEW p \in Parsers, Feed(p) PROVE ParserTypeOK' /\ Tokens'
  <2>1. Head(buf[p]) \in Results /\ Tail(buf[p]) \in Seq(Results)
    BY <1>5, TailFacts DEF ParserTypeOK, Feed
  <2>2. \A n \in {1, 2} : Half(Head(buf[p]), n) \in Halves
    BY <2>1 DEF Half, Halves, Results
  <2>3. queue \in Seq(Halves)
    BY DEF ParserTypeOK, Halves
  <2>4. queue' \in Seq(Halves) /\ Len(queue') = Len(queue) + 1 /\ Len(queue) \in Nat
    BY <1>5, <2>2, <2>3, AppendFacts DEF Feed
  <2>5. buf' \in [Parsers -> Seq(Results)]
    BY <1>5, <2>1 DEF ParserTypeOK, Feed
  <2>. QED  BY <1>5, <2>4, <2>5 DEF ParserTypeOK, Halves, Tokens, Feed, serverVars
<1>6. ASSUME NEW p \in Parsers, Killed(p) PROVE ParserTypeOK' /\ Tokens'
  BY <1>6 DEF ParserTypeOK, Tokens, Killed, Set, serverVars
<1>7. ASSUME Len(queue) \in Nat, mpc \in {"generate", "reading"}, mpc' = "drain", ending' \in {"complete", "died", "error", "stopped"},
             procs' \in SUBSET Parsers, quit' = quit + Cardinality(procs')
      PROVE  quit' \in 0 .. Cardinality(Parsers) /\ Tokens'
  <2>1. ending = "none" /\ quit = 0
    BY <1>7 DEF ParserTypeOK, Tokens
  <2>. QED  BY <1>7, <2>1 DEF Tokens
<1>8. CASE GeneratorEnds
  <2>1. procs' \in SUBSET Parsers /\ ending' \in {"complete", "died"} /\ mpc' = "drain" /\ quit' = quit + Cardinality(procs')
    BY <1>8 DEF GeneratorEnds, Down, Living, ParserTypeOK
  <2>2. Len(queue) \in Nat
    BY LenProperties DEF ParserTypeOK
  <2>3. quit' \in 0 .. Cardinality(Parsers) /\ Tokens'
    BY <1>8, <1>7, <2>1, <2>2 DEF GeneratorEnds
  <2>. QED  BY <1>8, <2>1, <2>3 DEF ParserTypeOK, GeneratorEnds
<1>9. CASE GeneratorChecks
  BY <1>9 DEF ParserTypeOK, Tokens, GeneratorChecks, Living
<1>10. CASE GeneratorGets
  <2>1. CASE queue = <<>> /\ empty' = TRUE /\ mpc' = "generate" /\ UNCHANGED <<queue, first>>
    BY <1>10, <2>1 DEF ParserTypeOK, Tokens, GeneratorGets
  <2>2. CASE queue # <<>> /\ empty' = FALSE /\ mpc' = "reading"
             /\ first' = [job |-> Head(queue).job, ok |-> Head(queue).ok] /\ queue' = Tail(queue)
    <3>1. queue \in Seq(Halves)
      BY DEF ParserTypeOK, Halves
    <3>2. Head(queue) \in Halves /\ queue' \in Seq(Halves) /\ Len(queue) \in Nat /\ Len(queue') = Len(queue) - 1
      BY <2>2, <3>1, TailFacts
    <3>3. first' \in Results
      BY <2>2, <3>2 DEF Halves, Results
    <3>4. Len(queue') <= QueueSize
      BY <3>2 DEF ParserTypeOK
    <3>5. Tokens' /\ (ending' = "none" <=> mpc' \in {"generate", "get", "reading"})
      BY <1>10, <2>2 DEF ParserTypeOK, GeneratorGets, Tokens
    <3>. QED  BY <1>10, <2>2, <3>2, <3>3, <3>4, <3>5 DEF ParserTypeOK, GeneratorGets, Halves
  <2>. QED  BY <1>10, <2>1, <2>2 DEF GeneratorGets
<1>11. CASE Receive
  <2>1. queue' \in Seq(Halves) /\ Len(queue) \in Nat /\ Len(queue') = Len(queue) - 1
    BY <1>11, TailFacts DEF ParserTypeOK, Halves, Receive
  <2>2. CASE first.ok /\ parsed' = Append(parsed, first.job) /\ mpc' = "generate" /\ UNCHANGED <<procs, ending, quit>>
    <3>1. first.job \in Jobs
      BY <1>11 DEF Receive, Matched, Results
    <3>2. parsed' \in Seq(Jobs)
      BY <2>2, <3>1, AppendFacts DEF ParserTypeOK
    <3>. QED  BY <1>11, <2>1, <2>2, <3>2 DEF ParserTypeOK, Tokens, Receive, Halves
  <2>3. CASE ~first.ok /\ Down(procs, "error") /\ UNCHANGED parsed
    <3>1. procs' \in SUBSET Parsers /\ ending' = "error" /\ mpc' = "drain" /\ quit' = quit + Cardinality(procs')
      BY <2>3 DEF Down, ParserTypeOK
    <3>2. quit' \in 0 .. Cardinality(Parsers) /\ Tokens'
      BY <1>11, <1>7, <2>1, <3>1 DEF Receive
    <3>. QED  BY <1>11, <2>1, <2>3, <3>1, <3>2 DEF ParserTypeOK, Receive, Halves
  <2>. QED  BY <1>11, <2>2, <2>3 DEF Receive
<1>12. CASE ToldToStop
  <2>1. procs' \in SUBSET Parsers /\ ending' = "stopped" /\ mpc' = "drain" /\ quit' = quit + Cardinality(procs')
    BY <1>12 DEF ToldToStop, Down, ParserTypeOK
  <2>2. Len(queue) \in Nat
    BY LenProperties DEF ParserTypeOK
  <2>3. quit' \in 0 .. Cardinality(Parsers) /\ Tokens'
    BY <1>12, <1>7, <2>1, <2>2 DEF ToldToStop
  <2>. QED  BY <1>12, <2>1, <2>3 DEF ParserTypeOK, ToldToStop
<1>13. CASE Drain
  <2>1. CASE queue = <<>>
    BY <1>13, <2>1 DEF ParserTypeOK, Tokens, Drain
  <2>2. CASE queue # <<>>
    <3>. queue' = Tail(queue)
      BY <1>13, <2>2 DEF Drain
    <3>1. queue' \in Seq(Halves) /\ Len(queue) \in Nat /\ Len(queue') = Len(queue) - 1
      BY <2>2, TailFacts DEF ParserTypeOK, Halves
    <3>2. Len(queue') <= QueueSize
      BY <3>1 DEF ParserTypeOK
    <3>3. mpc' \in {"drain", "drainread"} /\ mpc \in {"drain", "drainread"}
      BY <1>13, <2>2 DEF Drain
    <3>. QED  BY <1>13, <3>1, <3>2, <3>3 DEF ParserTypeOK, Tokens, Drain, Halves
  <2>. QED  BY <2>1, <2>2
<1>14. CASE Interrupt
  <2>. PICK late \in SUBSET Living :
       /\ ppc' = [p \in Parsers |->
            IF p \in late /\ ppc[p] = "parse" THEN "put"
            ELSE IF p \in late /\ ppc[p] \in {"loop", "put"} THEN "closing"
            ELSE ppc[p]]
       /\ work' = [p \in Parsers |->
            IF p \in late /\ ppc[p] = "parse" THEN [job |-> work[p].job, ok |-> FALSE] ELSE work[p]]
    BY <1>14 DEF Interrupt
  <2>1. \A p \in Parsers : ppc[p] = "parse" => [job |-> work[p].job, ok |-> FALSE] \in Results
    BY DEF Owned, InHand, Results
  <2>2. work' \in [Parsers -> Results \cup {NoResult}]
    BY <2>1 DEF ParserTypeOK
  <2>3. ppc' \in [Parsers -> {"loop", "parse", "put", "closing", "exited", "killed"}]
    BY DEF ParserTypeOK
  <2>. QED  BY <1>14, <2>2, <2>3 DEF ParserTypeOK, Tokens, Interrupt
<1>15. CASE Terminate
  BY <1>15 DEF ParserTypeOK, Tokens, Terminate
<1>16. CASE Join
  BY <1>16 DEF ParserTypeOK, Tokens, Join
<1>17. CASE UNCHANGED parserVars
  BY <1>17 DEF ParserTypeOK, Tokens, parserVars, serverVars
<1>. QED
  BY <1>1, <1>2, <1>3, <1>4, <1>5, <1>6, <1>8, <1>9, <1>10, <1>11, <1>12, <1>13, <1>14, <1>15, <1>16, <1>17
  DEF ParserNext, Process, Server, ParserDone
-------------------------------------------------------------------------------
\* What the invariants say of the sequences
LEMMA QueueType ==
  ASSUME ParserTypeOK
  PROVE  /\ queue \in Seq(Halves) /\ Len(queue) \in Nat /\ (queue = <<>> <=> Len(queue) = 0)
         /\ \A i \in 1 .. Len(queue) : queue[i] \in Halves /\ queue[i].half \in {1, 2}
         /\ \A p \in Parsers : /\ buf[p] \in Seq(Results) /\ Len(buf[p]) \in Nat
                               /\ (buf[p] = <<>> <=> Len(buf[p]) = 0)
                               /\ \A i \in 1 .. Len(buf[p]) : buf[p][i] \in Results
         /\ parsed \in Seq(Jobs) /\ Len(parsed) \in Nat
<1>1. queue \in Seq(Halves)
  BY DEF ParserTypeOK, Halves
<1>2. Len(queue) \in Nat /\ (queue = <<>> <=> Len(queue) = 0)
  BY <1>1, EmptySeq, LenProperties
<1>3. \A i \in 1 .. Len(queue) : queue[i] \in Halves
  BY <1>1, ElementOfSeq
<1>4. ASSUME NEW p \in Parsers
      PROVE  /\ buf[p] \in Seq(Results) /\ Len(buf[p]) \in Nat /\ (buf[p] = <<>> <=> Len(buf[p]) = 0)
             /\ \A i \in 1 .. Len(buf[p]) : buf[p][i] \in Results
  <2>1. buf[p] \in Seq(Results)
    BY DEF ParserTypeOK
  <2>. QED  BY <2>1, EmptySeq, LenProperties, ElementOfSeq
<1>5. parsed \in Seq(Jobs) /\ Len(parsed) \in Nat
  BY LenProperties DEF ParserTypeOK
<1>. QED  BY <1>1, <1>2, <1>3, <1>4, <1>5 DEF Halves

\* The first result of a buffer goes to the end of the queue, in halves.
LEMMA FeedFacts ==
  ASSUME ParserTypeOK, NEW p \in Parsers, Feed(p)
  PROVE  /\ Len(queue') = Len(queue) + 1 /\ queue' # <<>>
         /\ \A i \in 1 .. Len(queue) : queue'[i] = queue[i]
         /\ Same(queue'[Len(queue) + 1], buf[p][1])
         /\ queue'[Len(queue) + 1].half = IF wlock = p THEN 2 ELSE 1
         /\ wlock = p => /\ Len(buf'[p]) = Len(buf[p]) - 1
                         /\ \A i \in 1 .. Len(buf[p]) - 1 : buf'[p][i] = buf[p][i + 1]
         /\ \A q \in Parsers : q # p => buf'[q] = buf[q]
<1>. buf[p] \in Seq(Results) /\ buf[p] # <<>>
  BY DEF ParserTypeOK, Feed
<1>1. /\ Head(buf[p]) = buf[p][1] /\ buf[p][1] \in Results /\ Len(Tail(buf[p])) = Len(buf[p]) - 1
      /\ \A i \in 1 .. Len(buf[p]) - 1 : Tail(buf[p])[i] = buf[p][i + 1]
  BY TailFacts
<1>2. \A n \in {1, 2} : Half(buf[p][1], n) \in Halves /\ Same(Half(buf[p][1], n), buf[p][1]) /\ Half(buf[p][1], n).half = n
  BY <1>1 DEF Half, Halves, Results, Same
<1>3. \A n \in {1, 2} :
        LET q == Append(queue, Half(buf[p][1], n)) IN
          /\ Len(q) = Len(queue) + 1 /\ q # <<>>
          /\ \A i \in 1 .. Len(queue) : q[i] = queue[i]
          /\ q[Len(queue) + 1] = Half(buf[p][1], n)
  BY <1>2, AppendFacts, QueueType
<1>4. CASE wlock = p
  <2>1. queue' = Append(queue, Half(buf[p][1], 2)) /\ buf' = [buf EXCEPT ![p] = Tail(@)]
    BY <1>1, <1>4, ParserAssumption DEF Feed
  <2>2. buf'[p] = Tail(buf[p]) /\ \A q \in Parsers : q # p => buf'[q] = buf[q]
    BY <2>1 DEF ParserTypeOK
  <2>3. /\ Len(queue') = Len(queue) + 1 /\ queue' # <<>>
        /\ \A i \in 1 .. Len(queue) : queue'[i] = queue[i]
        /\ queue'[Len(queue) + 1] = Half(buf[p][1], 2)
    BY <1>3, <2>1
  <2>4. Same(queue'[Len(queue) + 1], buf[p][1]) /\ queue'[Len(queue) + 1].half = 2
    BY <1>2, <2>3
  <2>5. Len(buf'[p]) = Len(buf[p]) - 1 /\ \A i \in 1 .. Len(buf[p]) - 1 : buf'[p][i] = buf[p][i + 1]
    BY <1>1, <2>2
  <2>. QED  BY <1>4, <2>2, <2>3, <2>4, <2>5
<1>5. CASE wlock # p
  <2>1. queue' = Append(queue, Half(buf[p][1], 1)) /\ buf' = buf
    BY <1>1, <1>5 DEF Feed
  <2>. QED  BY <1>2, <1>3, <1>5, <2>1
<1>. QED  BY <1>4, <1>5

\* The queue loses its first element.
LEMMA TakeFacts ==
  ASSUME ParserTypeOK, queue # <<>>, queue' = Tail(queue)
  PROVE  /\ Len(queue') = Len(queue) - 1 /\ Len(queue) \in Nat \ {0}
         /\ Head(queue) = queue[1] /\ queue[1] \in Halves
         /\ \A i \in 1 .. Len(queue) - 1 : queue'[i] = queue[i + 1]
         /\ queue' = <<>> <=> Len(queue) = 1
BY TailFacts, QueueType

\* Put() adds to the end of one buffer.
LEMMA BufferKept ==
  ASSUME ParserTypeOK, NEW p \in Parsers, Put(p), work[p] \in Results
  PROVE  /\ Len(buf'[p]) = Len(buf[p]) + 1 /\ buf'[p][Len(buf[p]) + 1] = work[p] /\ buf'[p] # <<>>
         /\ \A i \in 1 .. Len(buf[p]) : buf'[p][i] = buf[p][i]
         /\ \A q \in Parsers : q # p => buf'[q] = buf[q]
<1>1. buf'[p] = Append(buf[p], work[p]) /\ \A q \in Parsers : q # p => buf'[q] = buf[q]
  BY DEF Put, ParserTypeOK
<1>. QED  BY <1>1, AppendFacts, QueueType

\* What a process has in hand is a result.
LEMMA WorkType ==
  ASSUME ParserTypeOK, Owned
  PROVE  \A p \in Parsers : InHand(p) => work[p] \in Results /\ work[p].job \in Jobs
<1>. SUFFICES ASSUME NEW p \in Parsers, InHand(p) PROVE work[p] \in Results /\ work[p].job \in Jobs
  OBVIOUS
<1>1. work[p].job \in Jobs
  BY DEF Owned
<1>2. CASE work[p] = NoResult
  BY <1>1, <1>2 DEF Results, NoResult
<1>. QED  BY <1>1, <1>2 DEF ParserTypeOK

\* The halves in the queue stay in pairs, whichever feeders write and whoever reads.
QueueOK == Alternate /\ Matched

\* Every step keeps the halves in pairs.
LEMMA QueueStep ==
  ParserTypeOK /\ Owned /\ QueueOK /\ [ParserNext]_parserVars => QueueOK'
<1>. SUFFICES ASSUME ParserTypeOK, Owned, QueueOK, [ParserNext]_parserVars PROVE QueueOK'
  OBVIOUS
<1>. USE QueueType
<1>1. ASSUME UNCHANGED <<queue, wlock, buf>>, (Midway <=> Midway'), mpc' # "reading" \/ UNCHANGED <<mpc, first>> PROVE QueueOK'
  BY <1>1 DEF QueueOK, Alternate, Matched, Same
<1>2. ASSUME NEW p \in Parsers, Put(p) PROVE QueueOK'
  <2>1. InHand(p) /\ UNCHANGED <<queue, wlock, serverVars>>
    BY <1>2 DEF Put, InHand
  <2>2. Alternate'
    BY <2>1 DEF QueueOK, Alternate, Midway, serverVars
  <2>3. wlock # Nobody => buf'[wlock] # <<>> /\ buf'[wlock][1] = buf[wlock][1]
    <3>1. CASE wlock = p
      <4>1. Len(buf[p]) > 0 \/ wlock = Nobody
        BY <3>1 DEF QueueOK, Matched
      <4>2. buf'[p] # <<>> /\ \A i \in 1 .. Len(buf[p]) : buf'[p][i] = buf[p][i]
        BY <1>2, <2>1, WorkType, BufferKept
      <4>. QED  BY <3>1, <4>1, <4>2
    <3>2. CASE wlock # p
      BY <1>2, <2>1, <3>2, WorkType, BufferKept DEF QueueOK, Matched, ParserTypeOK
    <3>. QED  BY <3>1, <3>2
  <2>. QED  BY <2>1, <2>2, <2>3 DEF QueueOK, Matched, Same, serverVars
<1>3. ASSUME NEW p \in Parsers, Feed(p) PROVE QueueOK'
  <2>. /\ Len(queue') = Len(queue) + 1 /\ queue' # <<>>
       /\ \A i \in 1 .. Len(queue) : queue'[i] = queue[i]
       /\ Same(queue'[Len(queue) + 1], buf[p][1])
       /\ queue'[Len(queue) + 1].half = IF wlock = p THEN 2 ELSE 1
    BY <1>3, FeedFacts
  <2>1. UNCHANGED <<mpc, first>> /\ (Midway <=> Midway') /\ wlock \in {p, Nobody} /\ p # Nobody
    BY <1>3, ParserAssumption DEF Feed, Midway, serverVars
  <2>2. wlock' = IF wlock = p THEN Nobody ELSE p
    BY <1>3, <2>1 DEF Feed
  <2>3. \A i \in 1 .. Len(queue) - 1 : queue'[i] = queue[i] /\ queue'[i + 1] = queue[i + 1]
    OBVIOUS
  <2>4. Alternate'
    <3>1. CASE queue = <<>>
      BY <2>1, <2>2, <3>1 DEF QueueOK, Alternate
    <3>2. CASE queue # <<>>
      <4>1. queue[Len(queue)].half = IF wlock = p THEN 1 ELSE 2
        BY <2>1, <3>2 DEF QueueOK, Alternate
      <4>2. \A i \in 1 .. Len(queue') - 1 : queue'[i].half # queue'[i + 1].half
        BY <2>3, <4>1, <3>2 DEF QueueOK, Alternate
      <4>3. queue'[1] = queue[1]
        BY <3>2
      <4>. QED  BY <2>1, <2>2, <3>2, <4>2, <4>3 DEF QueueOK, Alternate
    <3>. QED  BY <3>1, <3>2
  <2>5. Matched'
    <3>1. \A i \in 1 .. Len(queue') - 1 : queue'[i].half = 1 => Same(queue'[i], queue'[i + 1])
      <4>1. CASE queue = <<>>
        BY <4>1
      <4>2. CASE queue # <<>>
        <5>1. queue[Len(queue)].half = 1 => wlock = p /\ Same(queue[Len(queue)], buf[p][1])
          BY <2>1, <4>2 DEF QueueOK, Alternate, Matched
        <5>2. queue'[Len(queue)].half = 1 => Same(queue'[Len(queue)], queue'[Len(queue) + 1])
          BY <5>1, <4>2 DEF Same
        <5>. QED  BY <2>3, <5>2, <4>2 DEF QueueOK, Matched
      <4>. QED  BY <4>1, <4>2
    <3>2. mpc = "reading" => Same(first, queue'[1])
      <4>1. CASE queue = <<>>
        BY <2>1, <4>1 DEF QueueOK, Matched, Alternate, Midway, Same
      <4>2. CASE queue # <<>>
        BY <4>2 DEF QueueOK, Matched
      <4>. QED  BY <4>1, <4>2
    <3>3. wlock' # Nobody => buf'[wlock'] # <<>> /\ Same(queue'[Len(queue')], buf'[wlock'][1])
      BY <1>3, <2>1, <2>2 DEF Feed
    <3>. QED  BY <2>1, <3>1, <3>2, <3>3 DEF QueueOK, Matched
  <2>. QED  BY <2>4, <2>5 DEF QueueOK
<1>4. ASSUME queue # <<>>, queue' = Tail(queue), UNCHANGED <<wlock, buf>>, (Midway <=> ~Midway'),
             mpc' = "reading" => first' = [job |-> queue[1].job, ok |-> queue[1].ok]
      PROVE  QueueOK'
  <2>. /\ Len(queue') = Len(queue) - 1 /\ queue[1] \in Halves
       /\ \A i \in 1 .. Len(queue) - 1 : queue'[i] = queue[i + 1]
       /\ queue' = <<>> <=> Len(queue) = 1
    BY <1>4, TakeFacts
  <2>1. \A i \in 1 .. Len(queue') - 1 : queue'[i] = queue[i + 1] /\ queue'[i + 1] = queue[i + 2] /\ i + 1 \in 1 .. Len(queue) - 1
    OBVIOUS
  <2>2. queue' # <<>> => queue'[1] = queue[2] /\ 1 \in 1 .. Len(queue) - 1 /\ queue'[Len(queue')] = queue[Len(queue)]
    BY <1>4
  <2>3. Alternate'
    <3>1. \A i \in 1 .. Len(queue') - 1 : queue'[i].half # queue'[i + 1].half
      BY <2>1 DEF QueueOK, Alternate
    <3>2. ASSUME queue' # <<>> PROVE queue'[1].half = IF Midway' THEN 2 ELSE 1
      <4>1. queue'[1] = queue[2] /\ queue[1].half # queue[2].half
        BY <2>2, <3>2 DEF QueueOK, Alternate
      <4>2. queue[1].half = IF Midway THEN 2 ELSE 1
        BY <1>4 DEF QueueOK, Alternate
      <4>3. queue[2].half \in {1, 2}
        BY <2>2, <3>2
      <4>. QED  BY <1>4, <4>1, <4>2, <4>3
    <3>3. wlock' = Nobody <=> IF queue' = <<>> THEN ~Midway' ELSE queue'[Len(queue')].half = 2
      <4>1. CASE queue' = <<>>
        BY <1>4, <4>1 DEF QueueOK, Alternate
      <4>2. CASE queue' # <<>>
        BY <1>4, <2>2, <4>2 DEF QueueOK, Alternate
      <4>. QED  BY <4>1, <4>2
    <3>. QED  BY <3>1, <3>2, <3>3 DEF Alternate
  <2>4. mpc' = "reading" => first' \in Results /\ Same(first', queue[1]) /\ queue[1].half = 1
    BY <1>4 DEF QueueOK, Alternate, Halves, Results, Same, Midway
  <2>5. Matched'
    <3>1. \A i \in 1 .. Len(queue') - 1 : queue'[i].half = 1 => Same(queue'[i], queue'[i + 1])
      BY <2>1 DEF QueueOK, Matched
    <3>2. mpc' = "reading" /\ queue' # <<>> => Same(first', queue'[1])
      BY <2>2, <2>4 DEF QueueOK, Matched, Same
    <3>3. wlock # Nobody =>
            /\ buf[wlock] # <<>>
            /\ queue' # <<>> => Same(queue'[Len(queue')], buf[wlock][1])
            /\ mpc' = "reading" /\ queue' = <<>> => Same(first', buf[wlock][1])
      BY <1>4, <2>2, <2>4 DEF QueueOK, Matched, Same
    <3>. QED  BY <1>4, <2>4, <3>1, <3>2, <3>3 DEF Matched
  <2>. QED  BY <2>3, <2>5 DEF QueueOK
<1>5. CASE \E p \in Parsers : Loop(p) \/ Parse(p) \/ CloseResults(p) \/ Killed(p)
  BY <1>5, <1>1 DEF Loop, Parse, CloseResults, Killed, serverVars, Midway
<1>6. CASE GeneratorEnds \/ ToldToStop
  BY <1>6, <1>1 DEF GeneratorEnds, ToldToStop, Down, Midway
<1>7. CASE GeneratorChecks
  BY <1>7, <1>1 DEF GeneratorChecks, Midway
<1>8. CASE GeneratorGets
  <2>1. CASE queue = <<>>
    BY <1>1, <1>8, <2>1 DEF GeneratorGets, Midway
  <2>2. CASE queue # <<>>
    BY <1>4, <1>8, <2>2, TakeFacts DEF GeneratorGets, Midway
  <2>. QED  BY <2>1, <2>2
<1>9. CASE Receive
  BY <1>4, <1>9 DEF Receive, Down, Midway
<1>10. CASE Drain
  <2>1. CASE queue = <<>>
    BY <1>1, <1>10, <2>1 DEF Drain, Midway
  <2>2. CASE queue # <<>>
    BY <1>4, <1>10, <2>2 DEF Drain, Midway
  <2>. QED  BY <2>1, <2>2
<1>11. CASE Interrupt \/ Terminate \/ Join
  BY <1>1, <1>11 DEF Interrupt, Terminate, Join, Midway
<1>12. CASE UNCHANGED parserVars
  BY <1>1, <1>12 DEF parserVars, serverVars, Midway
<1>. QED
  BY <1>2, <1>3, <1>5, <1>6, <1>7, <1>8, <1>9, <1>10, <1>11, <1>12 DEF ParserNext, Process, Server, ParserDone
-------------------------------------------------------------------------------
\* A process takes its next recipe or leaves the loop.
LEMMA LoopFacts ==
  ASSUME ParserTypeOK, NEW p \in Parsers, Loop(p)
  PROVE  /\ UNCHANGED <<buf, queue, parsed, first>>
         /\ \A q \in Parsers : q # p => ppc'[q] = ppc[q] /\ jobs'[q] = jobs[q] /\ work'[q] = work[q]
         /\ \/ /\ ppc'[p] = "closing" /\ jobs'[p] = jobs[p] /\ work'[p] = work[p]
               /\ jobs[p] = {} \/ quit # 0
            \/ /\ ppc'[p] = "parse" /\ work'[p].job \in jobs[p] /\ ~work'[p].ok
               /\ jobs'[p] = jobs[p] \ {work'[p].job}
<1>. UNCHANGED <<buf, queue, parsed, first>>
  BY DEF Loop, serverVars
<1>1. CASE UNCHANGED <<jobs, work>> /\ Set(p, "closing") /\ (jobs[p] = {} \/ quit > 0)
  BY <1>1 DEF Set, ParserTypeOK
<1>2. ASSUME NEW j \in jobs[p], Set(p, "parse"), jobs' = [jobs EXCEPT ![p] = @ \ {j}],
             work' = [work EXCEPT ![p] = [job |-> j, ok |-> FALSE]]
      PROVE  /\ \A q \in Parsers : q # p => ppc'[q] = ppc[q] /\ jobs'[q] = jobs[q] /\ work'[q] = work[q]
             /\ ppc'[p] = "parse" /\ work'[p].job \in jobs[p] /\ ~work'[p].ok /\ jobs'[p] = jobs[p] \ {work'[p].job}
  BY <1>2 DEF Set, ParserTypeOK
<1>. QED  BY <1>1, <1>2 DEF Loop

\* Steps that leave the recipes where they are, except that some are dropped.
LEMMA OnceKept ==
  ASSUME ParserTypeOK, Once, UNCHANGED <<jobs, buf, queue, parsed>>,
         \A p \in Parsers : InHand(p)' => InHand(p) /\ work'[p].job = work[p].job
  PROVE  Once'
<1>1. Owned'
  BY DEF Once, Owned
<1>2. BegunOnce'
  BY DEF Once, BegunOnce
<1>3. HandOnce'
  BY DEF Once, HandOnce
<1>4. BufferedOnce' /\ QueuedOnce' /\ AddedOnce'
  BY DEF Once, BufferedOnce, QueuedOnce, AddedOnce
<1>. QED  BY <1>1, <1>2, <1>3, <1>4 DEF Once

\* A step moves a recipe to the next place, or drops it, and never doubles it.
LEMMA OnceStep ==
  ParserTypeOK /\ QueueOK /\ Once /\ [ParserNext]_parserVars => Once'
<1>. SUFFICES ASSUME ParserTypeOK, QueueOK, Once, [ParserNext]_parserVars PROVE Once'
  OBVIOUS
<1>. Len(queue) \in Nat /\ Len(parsed) \in Nat /\ \A p \in Parsers : Len(buf[p]) \in Nat
  BY QueueType
<1>0. \A p \in Parsers : ppc[p] \in {"loop", "parse", "put", "closing", "exited", "killed"}
  BY DEF ParserTypeOK
<1>1. ASSUME NEW p \in Parsers, Loop(p) PROVE Once'
  <2>. /\ UNCHANGED <<buf, queue, parsed, first>>
       /\ \A q \in Parsers : q # p => ppc'[q] = ppc[q] /\ jobs'[q] = jobs[q] /\ work'[q] = work[q]
    BY <1>1, LoopFacts
  <2>1. CASE ppc'[p] = "closing" /\ jobs'[p] = jobs[p] /\ work'[p] = work[p]
    <3>1. \A q \in Parsers : jobs'[q] = jobs[q] /\ (InHand(q)' => InHand(q) /\ work'[q].job = work[q].job)
      BY <2>1 DEF InHand
    <3>2. Owned'
      BY <3>1 DEF Once, Owned
    <3>3. BegunOnce'
      BY <3>1 DEF Once, BegunOnce
    <3>4. HandOnce'
      BY <3>1 DEF Once, HandOnce
    <3>. QED  BY <3>2, <3>3, <3>4 DEF Once, BufferedOnce, QueuedOnce, AddedOnce
  <2>2. CASE ppc'[p] = "parse" /\ work'[p].job \in jobs[p] /\ jobs'[p] = jobs[p] \ {work'[p].job}
    <3>1. \A q \in Parsers : q # p => jobs'[q] = jobs[q] /\ (InHand(q)' => InHand(q) /\ work'[q].job = work[q].job)
      BY DEF InHand
    <3>2. Owned'
      <4>1. work'[p].job \in Jobs /\ Share[work'[p].job] = p
        BY <2>2 DEF Once, Owned, ParserTypeOK
      <4>. QED  BY <2>2, <3>1, <4>1 DEF Once, Owned
    <3>3. BegunOnce'
      BY <2>2, <3>1 DEF Once, BegunOnce
    <3>4. HandOnce'
      BY <2>2, <3>1 DEF Once, BegunOnce, HandOnce
    <3>. QED  BY <3>2, <3>3, <3>4 DEF Once, BufferedOnce, QueuedOnce, AddedOnce
  <2>. QED  BY <1>1, <2>1, <2>2, LoopFacts
<1>2. ASSUME NEW p \in Parsers, Parse(p) PROVE Once'
  <2>1. /\ \A q \in Parsers : work'[q].job = work[q].job
        /\ ppc[p] = "parse" /\ \A q \in Parsers : q # p => ppc'[q] = ppc[q]
    BY <1>2 DEF Parse, Set, ParserTypeOK
  <2>. QED  BY <1>2, <2>1, OnceKept DEF Parse, InHand, serverVars
<1>3. ASSUME NEW p \in Parsers, Put(p) PROVE Once'
  <2>1. InHand(p) /\ ~InHand(p)' /\ \A q \in Parsers : q # p => (InHand(q)' <=> InHand(q))
    BY <1>3 DEF Put, Set, InHand, ParserTypeOK
  <2>2. jobs' = jobs /\ work' = work /\ queue' = queue /\ parsed' = parsed
    BY <1>3 DEF Put, serverVars
  <2>3. work[p] \in Results /\ work[p].job \in Jobs /\ Share[work[p].job] = p
    BY <2>1, WorkType DEF Once, Owned
  <2>. /\ Len(buf'[p]) = Len(buf[p]) + 1 /\ buf'[p][Len(buf[p]) + 1] = work[p]
       /\ \A i \in 1 .. Len(buf[p]) : buf'[p][i] = buf[p][i]
       /\ \A q \in Parsers : q # p => buf'[q] = buf[q]
    BY <1>3, <2>3, BufferKept
  <2>4. \A i \in 1 .. Len(buf'[p]) : IF i \in 1 .. Len(buf[p]) THEN buf'[p][i] = buf[p][i] ELSE i = Len(buf[p]) + 1 /\ buf'[p][i] = work[p]
    OBVIOUS
  <2>5. Owned'
    BY <2>1, <2>2, <2>3, <2>4 DEF Once, Owned
  <2>6. BegunOnce'
    <3>. SUFFICES ASSUME NEW q \in Parsers, NEW x \in jobs[q]
                  PROVE  /\ InHand(q)' => work[q].job # x
                         /\ \A i \in 1 .. Len(buf'[q]) : buf'[q][i].job # x
                         /\ \A i \in 1 .. Len(queue) : queue[i].half = 2 => queue[i].job # x
                         /\ \A i \in 1 .. Len(parsed) : parsed[i] # x
      BY <2>2 DEF BegunOnce
    <3>1. (InHand(q) => work[q].job # x) /\ \A i \in 1 .. Len(buf[q]) : buf[q][i].job # x
      BY DEF Once, BegunOnce
    <3>2. \A i \in 1 .. Len(buf'[q]) : buf'[q][i].job # x
      BY <2>1, <2>4, <3>1
    <3>. QED  BY <2>1, <3>1, <3>2 DEF Once, BegunOnce
  <2>7. HandOnce'
    BY <2>1, <2>2 DEF Once, HandOnce
  <2>8. BufferedOnce'
    <3>. SUFFICES ASSUME NEW q \in Parsers, NEW k \in 1 .. Len(buf'[q])
                  PROVE  /\ \A i \in 1 .. Len(buf'[q]) : buf'[q][i].job = buf'[q][k].job => i = k
                         /\ \A i \in 1 .. Len(queue) : queue[i].half = 2 => queue[i].job # buf'[q][k].job
                         /\ \A i \in 1 .. Len(parsed) : parsed[i] # buf'[q][k].job
      BY <2>2 DEF BufferedOnce
    <3>1. CASE q = p
      <4>1. \A i, n \in 1 .. Len(buf[p]) : buf[p][i].job = buf[p][n].job => i = n
        BY DEF Once, BufferedOnce
      <4>2. \A i \in 1 .. Len(buf[p]) : buf[p][i].job # work[p].job
        BY <2>1 DEF Once, HandOnce
      <4>. Len(buf[p]) \in Nat /\ k \in 1 .. Len(buf'[p])
        BY <3>1
      <4>3. ASSUME NEW i \in 1 .. Len(buf'[p]), buf'[p][i].job = buf'[p][k].job PROVE i = k
        <5>1. CASE i \in 1 .. Len(buf[p]) /\ k \in 1 .. Len(buf[p])
          BY <2>4, <4>1, <4>3, <5>1
        <5>2. CASE i \in 1 .. Len(buf[p]) <=> k \notin 1 .. Len(buf[p])
          BY <2>4, <4>2, <4>3, <5>2
        <5>. QED  BY <2>4, <5>1, <5>2
      <4>4. CASE k \in 1 .. Len(buf[p])
        <5>1. buf'[p][k] = buf[p][k]
          BY <4>4
        <5>. QED  BY <3>1, <4>3, <4>4, <5>1 DEF Once, BufferedOnce
      <4>5. CASE buf'[p][k] = work[p]
        BY <2>1, <3>1, <4>3, <4>5 DEF Once, HandOnce
      <4>. QED  BY <2>4, <3>1, <4>4, <4>5
    <3>2. CASE q # p
      BY <3>2 DEF Once, BufferedOnce
    <3>. QED  BY <3>1, <3>2
  <2>9. QueuedOnce' /\ AddedOnce'
    BY <2>2 DEF Once, QueuedOnce, AddedOnce
  <2>. QED  BY <2>5, <2>6, <2>7, <2>8, <2>9 DEF Once
<1>4. ASSUME NEW p \in Parsers, Feed(p) PROVE Once'
  <2>. /\ Len(queue') = Len(queue) + 1 /\ queue' # <<>>
       /\ \A i \in 1 .. Len(queue) : queue'[i] = queue[i]
       /\ Same(queue'[Len(queue) + 1], buf[p][1])
       /\ queue'[Len(queue) + 1].half = IF wlock = p THEN 2 ELSE 1
    BY <1>4, FeedFacts
  <2>. UNCHANGED <<ppc, jobs, work, parsed>> /\ buf[p] # <<>> /\ \A q \in Parsers : InHand(q)' <=> InHand(q)
    BY <1>4 DEF Feed, serverVars, InHand
  <2>1. CASE wlock # p
    <3>1. UNCHANGED buf
      BY <1>4, <2>1 DEF Feed
    <3>2. \A i \in 1 .. Len(queue') : queue'[i].half = 2 => i \in 1 .. Len(queue) /\ queue'[i] = queue[i]
      BY <2>1
    <3>. buf' = buf /\ jobs' = jobs /\ work' = work /\ parsed' = parsed
      BY <3>1
    <3>3. Owned'
      BY <3>1 DEF Once, Owned
    <3>4. BegunOnce'
      BY <3>1, <3>2 DEF Once, BegunOnce
    <3>5. HandOnce'
      BY <3>1, <3>2 DEF Once, HandOnce
    <3>6. BufferedOnce'
      BY <3>1, <3>2 DEF Once, BufferedOnce
    <3>7. QueuedOnce'
      BY <3>2 DEF Once, QueuedOnce
    <3>. QED  BY <3>3, <3>4, <3>5, <3>6, <3>7 DEF Once, AddedOnce
  <2>2. CASE wlock = p
    <3>. DEFINE j == buf[p][1].job
    <3>1. /\ Len(buf'[p]) = Len(buf[p]) - 1 /\ 1 \in 1 .. Len(buf[p])
          /\ \A i \in 1 .. Len(buf[p]) - 1 : buf'[p][i] = buf[p][i + 1]
          /\ \A q \in Parsers : q # p => buf'[q] = buf[q]
      BY <1>4, <2>2, FeedFacts
    <3>2. j \in Jobs /\ Share[j] = p
      BY <3>1, QueueType DEF Once, Owned, Results
    <3>3. \A i \in 1 .. Len(queue') : IF i \in 1 .. Len(queue) THEN queue'[i] = queue[i] ELSE i = Len(queue) + 1 /\ queue'[i].job = j
      BY DEF Same
    <3>. jobs' = jobs /\ work' = work /\ parsed' = parsed /\ Len(buf[p]) \in Nat
      OBVIOUS
    <3>4. /\ \A k \in 1 .. Len(buf'[p]) : k + 1 \in 1 .. Len(buf[p]) /\ buf'[p][k] = buf[p][k + 1]
          /\ \A q \in Parsers : q # p => buf'[q] = buf[q]
      BY <3>1
    <3>. HIDE DEF j
    <3>12. \A q \in Parsers : \A k \in 1 .. Len(buf'[q]) : \E n \in 1 .. Len(buf[q]) : buf'[q][k] = buf[q][n]
      <4>. SUFFICES ASSUME NEW q \in Parsers, NEW k \in 1 .. Len(buf'[q])
                    PROVE  \E n \in 1 .. Len(buf[q]) : buf'[q][k] = buf[q][n]
        OBVIOUS
      <4>1. CASE q = p
        BY <3>4, <4>1
      <4>2. CASE q # p
        BY <3>4, <4>2
      <4>. QED  BY <4>1, <4>2
    <3>5. Owned'
      <4>1. \A q \in Parsers : \A k \in 1 .. Len(buf'[q]) : Share[buf'[q][k].job] = q
        <5>. SUFFICES ASSUME NEW q \in Parsers, NEW k \in 1 .. Len(buf'[q]) PROVE Share[buf'[q][k].job] = q
          OBVIOUS
        <5>. PICK n \in 1 .. Len(buf[q]) : buf'[q][k] = buf[q][n]
          BY <3>12
        <5>. QED  BY DEF Once, Owned
      <4>. QED  BY <4>1 DEF Once, Owned
    <3>6. \A q \in Parsers : j \notin jobs[q] /\ (InHand(q) => work[q].job # j)
      BY <3>1, <3>2 DEF Once, Owned, BegunOnce, HandOnce, j
    <3>7. BegunOnce'
      <4>. SUFFICES ASSUME NEW q \in Parsers, NEW x \in jobs[q]
                    PROVE  /\ InHand(q) => work[q].job # x
                           /\ \A i \in 1 .. Len(buf'[q]) : buf'[q][i].job # x
                           /\ \A i \in 1 .. Len(queue') : queue'[i].half = 2 => queue'[i].job # x
                           /\ \A i \in 1 .. Len(parsed) : parsed[i] # x
        BY DEF BegunOnce
      <4>1. (InHand(q) => work[q].job # x) /\ \A i \in 1 .. Len(parsed) : parsed[i] # x
        BY DEF Once, BegunOnce
      <4>2. \A i \in 1 .. Len(buf'[q]) : buf'[q][i].job # x
        <5>. SUFFICES ASSUME NEW i \in 1 .. Len(buf'[q]) PROVE buf'[q][i].job # x
          OBVIOUS
        <5>. PICK n \in 1 .. Len(buf[q]) : buf'[q][i] = buf[q][n]
          BY <3>12
        <5>. QED  BY DEF Once, BegunOnce
      <4>3. \A i \in 1 .. Len(queue') : queue'[i].half = 2 => queue'[i].job # x
        BY <3>3, <3>6 DEF Once, BegunOnce
      <4>. QED  BY <4>1, <4>2, <4>3
    <3>8. HandOnce'
      <4>. SUFFICES ASSUME NEW q \in Parsers, InHand(q)
                    PROVE  /\ \A i \in 1 .. Len(buf'[q]) : buf'[q][i].job # work[q].job
                           /\ \A i \in 1 .. Len(queue') : queue'[i].half = 2 => queue'[i].job # work[q].job
                           /\ \A i \in 1 .. Len(parsed) : parsed[i] # work[q].job
        BY DEF HandOnce
      <4>1. \A i \in 1 .. Len(buf'[q]) : buf'[q][i].job # work[q].job
        <5>. SUFFICES ASSUME NEW i \in 1 .. Len(buf'[q]) PROVE buf'[q][i].job # work[q].job
          OBVIOUS
        <5>. PICK n \in 1 .. Len(buf[q]) : buf'[q][i] = buf[q][n]
          BY <3>12
        <5>. QED  BY DEF Once, HandOnce
      <4>2. \A i \in 1 .. Len(queue') : queue'[i].half = 2 => queue'[i].job # work[q].job
        BY <3>3, <3>6 DEF Once, HandOnce
      <4>. QED  BY <4>1, <4>2 DEF Once, HandOnce
    <3>9. BufferedOnce'
      <4>. SUFFICES ASSUME NEW q \in Parsers, NEW k \in 1 .. Len(buf'[q])
                    PROVE  /\ \A i \in 1 .. Len(buf'[q]) : buf'[q][i].job = buf'[q][k].job => i = k
                           /\ \A i \in 1 .. Len(queue') : queue'[i].half = 2 => queue'[i].job # buf'[q][k].job
                           /\ \A i \in 1 .. Len(parsed') : parsed'[i] # buf'[q][k].job
        BY Zenon DEF BufferedOnce
      <4>1. \A i, m \in 1 .. Len(buf[q]) : buf[q][i].job = buf[q][m].job => i = m
        BY DEF Once, BufferedOnce
      <4>2. ASSUME q = p PROVE buf'[q][k].job # j /\ \A i \in 1 .. Len(buf'[q]) : buf'[q][i].job = buf'[q][k].job => i = k
        <5>1. \A i \in 1 .. Len(buf'[p]) : buf'[p][i].job = buf'[p][k].job => i + 1 = k + 1
          <6>. SUFFICES ASSUME NEW i \in 1 .. Len(buf'[p]), buf'[p][i].job = buf'[p][k].job PROVE i + 1 = k + 1
            OBVIOUS
          <6>1. i + 1 \in 1 .. Len(buf[p]) /\ k + 1 \in 1 .. Len(buf[p]) /\ buf[p][i + 1].job = buf[p][k + 1].job
            BY <3>4, <4>2
          <6>. QED  BY <4>1, <4>2, <6>1
        <5>2. \A i \in 1 .. Len(buf'[p]) : buf'[p][i].job = buf'[p][k].job => i = k
          BY <5>1
        <5>3. k + 1 # 1
          BY <4>2
        <5>4. buf'[p][k].job # j
          <6>1. k + 1 \in 1 .. Len(buf[p]) /\ buf'[p][k] = buf[p][k + 1]
            BY <3>4, <4>2
          <6>. QED  BY <3>1, <4>1, <4>2, <5>3, <6>1 DEF j
        <5>. QED  BY <4>2, <5>2, <5>4
      <4>3. ASSUME q # p PROVE buf'[q][k].job # j /\ \A i \in 1 .. Len(buf'[q]) : buf'[q][i].job = buf'[q][k].job => i = k
        BY <3>2, <3>4, <4>1, <4>3 DEF Once, Owned
      <4>4. buf'[q][k].job # j /\ \A i \in 1 .. Len(buf'[q]) : buf'[q][i].job = buf'[q][k].job => i = k
        BY <4>2, <4>3
      <4>. PICK n \in 1 .. Len(buf[q]) : buf'[q][k] = buf[q][n]
        BY <3>12
      <4>5. \A i \in 1 .. Len(queue') : queue'[i].half = 2 => queue'[i].job # buf'[q][k].job
        BY <3>3, <4>4 DEF Once, BufferedOnce
      <4>6. \A i \in 1 .. Len(parsed) : parsed[i] # buf'[q][k].job
        BY DEF Once, BufferedOnce
      <4>. QED  BY <4>4, <4>5, <4>6
    <3>10. /\ \A i \in 1 .. Len(queue) : queue[i].half = 2 => queue[i].job # j
           /\ \A i \in 1 .. Len(parsed) : parsed[i] # j
      BY <3>1 DEF Once, BufferedOnce, j
    <3>11. QueuedOnce'
      BY <3>3, <3>10 DEF Once, QueuedOnce
    <3>. QED  BY <3>5, <3>7, <3>8, <3>9, <3>11 DEF Once, AddedOnce
  <2>. QED  BY <2>1, <2>2
<1>5. ASSUME queue # <<>>, queue' = Tail(queue), UNCHANGED <<ppc, jobs, work, buf>>,
             UNCHANGED parsed \/ (mpc = "reading" /\ parsed' = Append(parsed, first.job))
      PROVE  Once'
  <2>. /\ Len(queue') = Len(queue) - 1 /\ Len(queue) \in Nat \ {0}
       /\ \A i \in 1 .. Len(queue) - 1 : queue'[i] = queue[i + 1]
    BY <1>5, TakeFacts
  <2>1. \A i \in 1 .. Len(queue') : i + 1 \in 1 .. Len(queue) /\ queue'[i] = queue[i + 1]
    OBVIOUS
  <2>2. /\ Owned' /\ \A q \in Parsers : InHand(q)' <=> InHand(q)
    BY <1>5 DEF Once, Owned, InHand
  <2>3. CASE UNCHANGED parsed
    <3>1. BegunOnce' /\ HandOnce'
      BY <1>5, <2>1, <2>2, <2>3 DEF Once, BegunOnce, HandOnce
    <3>2. BufferedOnce'
      BY <1>5, <2>1, <2>3 DEF Once, BufferedOnce
    <3>3. QueuedOnce'
      <4>. SUFFICES ASSUME NEW k \in 1 .. Len(queue'), queue'[k].half = 2
                    PROVE  /\ \A i \in 1 .. Len(queue') : queue'[i].half = 2 /\ queue'[i].job = queue'[k].job => i = k
                           /\ \A i \in 1 .. Len(parsed) : parsed[i] # queue'[k].job
        BY <2>3 DEF QueuedOnce
      <4>1. \A i \in 1 .. Len(queue') : queue'[i].half = 2 /\ queue'[i].job = queue'[k].job => i + 1 = k + 1
        <5>. SUFFICES ASSUME NEW i \in 1 .. Len(queue'), queue'[i].half = 2, queue'[i].job = queue'[k].job PROVE i + 1 = k + 1
          OBVIOUS
        <5>1. /\ i + 1 \in 1 .. Len(queue) /\ k + 1 \in 1 .. Len(queue) /\ queue[i + 1].half = 2
              /\ queue[k + 1].half = 2 /\ queue[i + 1].job = queue[k + 1].job
          BY <2>1
        <5>. QED  BY <5>1 DEF Once, QueuedOnce
      <4>2. \A i \in 1 .. Len(queue') : queue'[i].half = 2 /\ queue'[i].job = queue'[k].job => i = k
        BY <4>1
      <4>. QED  BY <2>1, <4>2 DEF Once, QueuedOnce
    <3>. QED  BY <2>2, <2>3, <3>1, <3>2, <3>3 DEF Once, AddedOnce
  <2>4. CASE mpc = "reading" /\ parsed' = Append(parsed, first.job)
    <3>. DEFINE j == first.job
    <3>1. queue[1].half = 2 /\ queue[1].job = j /\ j \in Jobs /\ 1 \in 1 .. Len(queue)
      BY <1>5, <2>4 DEF QueueOK, Alternate, Matched, Midway, Same, Results
    <3>. HIDE DEF j
    <3>2. Len(parsed') = Len(parsed) + 1 /\ parsed'[Len(parsed) + 1] = j /\ \A i \in 1 .. Len(parsed) : parsed'[i] = parsed[i]
      BY <2>4, <3>1, AppendFacts DEF j
    <3>3. \A i \in 1 .. Len(parsed') : IF i \in 1 .. Len(parsed) THEN parsed'[i] = parsed[i] ELSE i = Len(parsed) + 1 /\ parsed'[i] = j
      BY <3>2
    <3>4. BegunOnce'
      BY <1>5, <2>1, <2>2, <3>1, <3>3 DEF Once, BegunOnce
    <3>5. HandOnce'
      BY <1>5, <2>1, <2>2, <3>1, <3>3 DEF Once, HandOnce
    <3>6. BufferedOnce'
      BY <1>5, <2>1, <3>1, <3>3 DEF Once, BufferedOnce
    <3>7. \A i \in 1 .. Len(parsed) : parsed[i] # j
      BY <3>1 DEF Once, QueuedOnce
    <3>8. QueuedOnce'
      <4>. SUFFICES ASSUME NEW k \in 1 .. Len(queue'), queue'[k].half = 2
                    PROVE  /\ \A i \in 1 .. Len(queue') : queue'[i].half = 2 /\ queue'[i].job = queue'[k].job => i = k
                           /\ \A i \in 1 .. Len(parsed') : parsed'[i] # queue'[k].job
        BY DEF QueuedOnce
      <4>1. \A i \in 1 .. Len(queue') : queue'[i].half = 2 /\ queue'[i].job = queue'[k].job => i + 1 = k + 1
        <5>. SUFFICES ASSUME NEW i \in 1 .. Len(queue'), queue'[i].half = 2, queue'[i].job = queue'[k].job PROVE i + 1 = k + 1
          OBVIOUS
        <5>1. /\ i + 1 \in 1 .. Len(queue) /\ k + 1 \in 1 .. Len(queue) /\ queue[i + 1].half = 2
              /\ queue[k + 1].half = 2 /\ queue[i + 1].job = queue[k + 1].job
          BY <2>1
        <5>. QED  BY <5>1 DEF Once, QueuedOnce
      <4>2. \A i \in 1 .. Len(queue') : queue'[i].half = 2 /\ queue'[i].job = queue'[k].job => i = k
        BY <4>1
      <4>3. queue'[k].job # j
        <5>1. k + 1 # 1
          OBVIOUS
        <5>. QED  BY <2>1, <3>1, <5>1 DEF Once, QueuedOnce
      <4>4. \A i \in 1 .. Len(parsed) : parsed[i] # queue'[k].job
        BY <2>1 DEF Once, QueuedOnce
      <4>. QED  BY <3>3, <4>2, <4>3, <4>4
    <3>9. AddedOnce'
      BY <3>3, <3>7 DEF Once, AddedOnce
    <3>. QED  BY <2>2, <3>4, <3>5, <3>6, <3>8, <3>9 DEF Once
  <2>. QED  BY <1>5, <2>3, <2>4
<1>6. CASE \E p \in Parsers : CloseResults(p) \/ Killed(p)
  <2>. PICK p \in Parsers : CloseResults(p) \/ Killed(p)
    BY <1>6
  <2>1. \A q \in Parsers : InHand(q)' => InHand(q)
    BY DEF CloseResults, Killed, Set, InHand, ParserTypeOK
  <2>. QED  BY <2>1, OnceKept DEF CloseResults, Killed, serverVars
<1>7. CASE GeneratorEnds \/ ToldToStop \/ GeneratorChecks \/ Join \/ UNCHANGED parserVars
  BY <1>7, OnceKept DEF GeneratorEnds, ToldToStop, GeneratorChecks, Join, parserVars, serverVars, InHand
<1>8. CASE GeneratorGets
  <2>1. CASE queue = <<>>
    BY <1>8, <2>1, OnceKept DEF GeneratorGets, InHand
  <2>2. CASE queue # <<>>
    BY <1>5, <1>8, <2>2 DEF GeneratorGets
  <2>. QED  BY <2>1, <2>2
<1>9. CASE Receive
  BY <1>5, <1>9 DEF Receive, Down
<1>10. CASE Drain
  <2>1. CASE queue = <<>>
    BY <1>10, <2>1, OnceKept DEF Drain, InHand
  <2>2. CASE queue # <<>>
    BY <1>5, <1>10, <2>2 DEF Drain
  <2>. QED  BY <2>1, <2>2
<1>11. CASE Interrupt
  <2>1. \A q \in Parsers : InHand(q)' => InHand(q) /\ work'[q].job = work[q].job
    BY <1>11 DEF Interrupt, InHand, ParserTypeOK
  <2>. QED  BY <1>11, <2>1, OnceKept DEF Interrupt
<1>12. CASE Terminate
  <2>1. \A q \in Parsers : InHand(q)' => InHand(q)
    BY <1>12 DEF Terminate, InHand, ParserTypeOK
  <2>. QED  BY <1>12, <2>1, OnceKept DEF Terminate
<1>. QED
  BY <1>1, <1>2, <1>3, <1>4, <1>6, <1>7, <1>8, <1>9, <1>10, <1>11, <1>12 DEF ParserNext, Process, Server, ParserDone
-------------------------------------------------------------------------------
\* There are at most as many results as recipes, and as many if every recipe is added.
LEMMA AddedCount ==
  ASSUME parsed \in Seq(Jobs), AddedOnce
  PROVE  /\ Len(parsed) \in Nat /\ Len(parsed) <= ToParse
         /\ (\A j \in Jobs : Added(j)) => Len(parsed) = ToParse
<1>1. Len(parsed) \in Nat /\ parsed \in [1 .. Len(parsed) -> Jobs]
  BY LenProperties
<1>2. parsed \in Injection(1 .. Len(parsed), Jobs)
  BY <1>1 DEF AddedOnce, Injection, IsInjective
<1>3. IsFiniteSet(1 .. Len(parsed)) /\ Cardinality(1 .. Len(parsed)) = Len(parsed)
  <2>1. IsFiniteSet(1 .. Len(parsed)) /\ Cardinality(1 .. Len(parsed)) = IF 1 > Len(parsed) THEN 0 ELSE Len(parsed) - 1 + 1
    BY <1>1, FS_Interval
  <2>. QED  BY <1>1, <2>1
<1>4. Len(parsed) <= ToParse
  BY <1>2, <1>3, FS_Injection, ParserAssumption DEF ToParse
<1>5. ASSUME \A j \in Jobs : Added(j) PROVE Len(parsed) = ToParse
  <2>1. parsed \in Surjection(1 .. Len(parsed), Jobs)
    BY <1>1, <1>5 DEF Added, Surjection
  <2>2. ToParse <= Len(parsed)
    BY <1>3, <2>1, FS_Surjection DEF ToParse
  <2>3. ToParse \in Nat
    BY ParserFinite
  <2>4. Len(parsed) \in Nat
    BY <1>1
  <2>5. \A m, n \in Nat : m <= n /\ n <= m => m = n
    OBVIOUS
  <2>. QED  BY <1>4, <2>2, <2>3, <2>4, <2>5, Zenon
<1>. QED  BY <1>1, <1>4, <1>5

\* Only what could be parsed is passed on as parsed.
LEMMA TruthfulStep ==
  ParserTypeOK /\ QueueOK /\ Owned /\ Truthful /\ [ParserNext]_parserVars => Truthful'
<1>. SUFFICES ASSUME ParserTypeOK, QueueOK, Owned, Truthful, [ParserNext]_parserVars PROVE Truthful'
  OBVIOUS
<1>. Len(queue) \in Nat /\ Len(parsed) \in Nat /\ \A p \in Parsers : Len(buf[p]) \in Nat
  BY QueueType
<1>1. ASSUME UNCHANGED <<buf, queue, parsed, first>>,
             \A p \in Parsers : InHand(p)' /\ work'[p].ok => work'[p].job \notin Bad
      PROVE  Truthful'
  BY <1>1 DEF Truthful
<1>2. ASSUME NEW p \in Parsers, Loop(p) PROVE Truthful'
  <2>1. \A q \in Parsers : InHand(q)' /\ work'[q].ok => work'[q].job \notin Bad
    BY <1>2, LoopFacts DEF InHand, Truthful
  <2>. QED  BY <1>1, <1>2, <2>1, LoopFacts
<1>3. ASSUME NEW p \in Parsers, Parse(p) PROVE Truthful'
  <2>1. \A q \in Parsers : InHand(q)' /\ work'[q].ok => work'[q].job \notin Bad
    BY <1>3 DEF Parse, Set, InHand, Truthful, ParserTypeOK
  <2>. QED  BY <1>1, <1>3, <2>1 DEF Parse, serverVars
<1>4. ASSUME NEW p \in Parsers, Put(p) PROVE Truthful'
  <2>1. InHand(p) /\ work' = work /\ queue' = queue /\ parsed' = parsed /\ first' = first
    BY <1>4 DEF Put, InHand, serverVars
  <2>2. \A q \in Parsers : InHand(q)' => InHand(q)
    BY <1>4 DEF Put, Set, InHand, ParserTypeOK
  <2>3. \A q \in Parsers : \A i \in 1 .. Len(buf'[q]) : buf'[q][i].ok => buf'[q][i].job \notin Bad
    <3>1. /\ Len(buf'[p]) = Len(buf[p]) + 1 /\ buf'[p][Len(buf[p]) + 1] = work[p]
          /\ \A i \in 1 .. Len(buf[p]) : buf'[p][i] = buf[p][i]
          /\ \A q \in Parsers : q # p => buf'[q] = buf[q]
      BY <1>4, <2>1, WorkType, BufferKept
    <3>2. work[p].ok => work[p].job \notin Bad
      BY <2>1 DEF Truthful
    <3>3. \A i \in 1 .. Len(buf'[p]) : i \in 1 .. Len(buf[p]) \/ i = Len(buf[p]) + 1
      BY <3>1, Len(buf[p]) \in Nat
    <3>4. \A i \in 1 .. Len(buf[p]) : buf[p][i].ok => buf[p][i].job \notin Bad
      BY DEF Truthful
    <3>5. \A i \in 1 .. Len(buf'[p]) : buf'[p][i].ok => buf'[p][i].job \notin Bad
      BY <3>1, <3>2, <3>3, <3>4
    <3>. QED  BY <3>1, <3>5 DEF Truthful
  <2>. QED  BY <2>1, <2>2, <2>3 DEF Truthful
<1>5. ASSUME NEW p \in Parsers, Feed(p) PROVE Truthful'
  <2>1. work' = work /\ parsed' = parsed /\ first' = first /\ \A q \in Parsers : InHand(q)' <=> InHand(q)
    BY <1>5 DEF Feed, InHand, serverVars
  <2>2. buf[p] # <<>> /\ 1 \in 1 .. Len(buf[p])
    BY <1>5, QueueType DEF Feed
  <2>3. \A i \in 1 .. Len(queue') : queue'[i].ok => queue'[i].job \notin Bad
    BY <1>5, <2>2, FeedFacts DEF Truthful, Same
  <2>4. \A q \in Parsers : \A i \in 1 .. Len(buf'[q]) : buf'[q][i].ok => buf'[q][i].job \notin Bad
    <3>1. CASE wlock = p
      <4>1. \A i \in 1 .. Len(buf'[p]) : i + 1 \in 1 .. Len(buf[p]) /\ buf'[p][i] = buf[p][i + 1]
        BY <1>5, <3>1, FeedFacts
      <4>2. \A i \in 1 .. Len(buf'[p]) : buf'[p][i].ok => buf'[p][i].job \notin Bad
        BY <4>1 DEF Truthful
      <4>. QED  BY <1>5, <4>2, FeedFacts DEF Truthful
    <3>2. CASE wlock # p
      BY <1>5, <3>2 DEF Feed, Truthful
    <3>. QED  BY <3>1, <3>2
  <2>. QED  BY <2>1, <2>3, <2>4 DEF Truthful
<1>6. ASSUME queue # <<>>, queue' = Tail(queue), UNCHANGED <<ppc, work, buf>>,
             UNCHANGED parsed \/ (first.ok /\ mpc = "reading" /\ parsed' = Append(parsed, first.job)),
             first' \in {first, NoResult, [job |-> queue[1].job, ok |-> queue[1].ok]}
      PROVE  Truthful'
  <2>1. \A i \in 1 .. Len(queue') : i + 1 \in 1 .. Len(queue) /\ queue'[i] = queue[i + 1]
    BY <1>6, TakeFacts
  <2>2. \A i \in 1 .. Len(queue') : queue'[i].ok => queue'[i].job \notin Bad
    BY <2>1 DEF Truthful
  <2>3. 1 \in 1 .. Len(queue)
    BY <1>6, QueueType
  <2>4. first'.ok => first'.job \notin Bad
    <3>1. CASE first' = first
      BY <3>1 DEF Truthful
    <3>2. CASE first' = NoResult
      BY <3>2 DEF NoResult
    <3>3. CASE first' = [job |-> queue[1].job, ok |-> queue[1].ok]
      BY <3>3, <2>3 DEF Truthful
    <3>. QED  BY <1>6, <3>1, <3>2, <3>3
  <2>5. \A i \in 1 .. Len(parsed') : parsed'[i] \notin Bad
    <3>1. CASE UNCHANGED parsed
      BY <3>1 DEF Truthful
    <3>2. CASE first.ok /\ mpc = "reading" /\ parsed' = Append(parsed, first.job)
      <4>1. first.job \in Jobs /\ first.job \notin Bad
        BY <3>2 DEF QueueOK, Matched, Results, Truthful
      <4>2. Len(parsed') = Len(parsed) + 1 /\ parsed'[Len(parsed) + 1] = first.job /\ \A i \in 1 .. Len(parsed) : parsed'[i] = parsed[i]
        BY <3>2, <4>1, AppendFacts, QueueType
      <4>. QED  BY <4>1, <4>2 DEF Truthful
    <3>. QED  BY <1>6, <3>1, <3>2
  <2>. QED  BY <1>6, <2>2, <2>4, <2>5 DEF Truthful, InHand
<1>7. CASE \E p \in Parsers : CloseResults(p) \/ Killed(p)
  <2>. PICK p \in Parsers : CloseResults(p) \/ Killed(p)
    BY <1>7
  <2>1. \A q \in Parsers : InHand(q)' => InHand(q)
    BY DEF CloseResults, Killed, Set, InHand, ParserTypeOK
  <2>. QED  BY <2>1, <1>1 DEF CloseResults, Killed, serverVars, Truthful
<1>8. CASE GeneratorEnds \/ ToldToStop \/ GeneratorChecks \/ Join \/ UNCHANGED parserVars
  BY <1>8, <1>1 DEF GeneratorEnds, ToldToStop, GeneratorChecks, Join, parserVars, serverVars, InHand, Truthful
<1>9. CASE GeneratorGets
  <2>1. CASE queue = <<>>
    BY <1>9, <2>1, <1>1 DEF GeneratorGets, InHand, Truthful
  <2>2. CASE queue # <<>>
    BY <1>6, <1>9, <2>2, TakeFacts DEF GeneratorGets
  <2>. QED  BY <2>1, <2>2
<1>10. CASE Receive
  BY <1>6, <1>10 DEF Receive, Down
<1>11. CASE Drain
  <2>1. CASE queue = <<>>
    BY <1>11, <2>1, <1>1 DEF Drain, InHand, Truthful
  <2>2. CASE queue # <<>>
    BY <1>6, <1>11, <2>2 DEF Drain
  <2>. QED  BY <2>1, <2>2
<1>12. CASE Interrupt
  <2>1. \A q \in Parsers : InHand(q)' /\ work'[q].ok => work'[q].job \notin Bad
    BY <1>12 DEF Interrupt, InHand, ParserTypeOK, Truthful
  <2>. QED  BY <1>12, <2>1, <1>1 DEF Interrupt
<1>13. CASE Terminate
  <2>1. \A q \in Parsers : InHand(q)' => InHand(q)
    BY <1>13 DEF Terminate, InHand, ParserTypeOK
  <2>. QED  BY <1>13, <2>1, <1>1 DEF Terminate, Truthful
<1>. QED
  BY <1>2, <1>3, <1>4, <1>5, <1>7, <1>8, <1>9, <1>10, <1>11, <1>12, <1>13 DEF ParserNext, Process, Server, ParserDone

\* Processes leave the list when they have ended, and end when they have written.
LEMMA GoneStep ==
  ParserTypeOK /\ QueueOK /\ Gone /\ [ParserNext]_parserVars => Gone'
<1>. SUFFICES ASSUME ParserTypeOK, QueueOK, Gone, [ParserNext]_parserVars PROVE Gone'
  OBVIOUS
<1>1. ASSUME NEW p \in Parsers, Loop(p) PROVE Gone'
  <2>1. ppc[p] = "loop" /\ ppc'[p] \in {"closing", "parse"} /\ \A q \in Parsers : q # p => ppc'[q] = ppc[q]
    BY <1>1, LoopFacts DEF Loop
  <2>. QED  BY <1>1, <2>1 DEF Gone, Alive, Loop, serverVars
<1>2. ASSUME NEW p \in Parsers, Parse(p) PROVE Gone'
  BY <1>2 DEF Gone, Alive, Parse, Set, ParserTypeOK, serverVars
<1>3. ASSUME NEW p \in Parsers, Put(p) PROVE Gone'
  <2>1. ppc[p] = "put" /\ ppc'[p] = "loop" /\ \A q \in Parsers : q # p => ppc'[q] = ppc[q] /\ buf'[q] = buf[q]
    BY <1>3 DEF Put, Set, ParserTypeOK
  <2>. QED  BY <1>3, <2>1 DEF Gone, Alive, Put, serverVars
<1>4. ASSUME NEW p \in Parsers, CloseResults(p) PROVE Gone'
  BY <1>4 DEF Gone, Alive, CloseResults, Set, ParserTypeOK, serverVars
<1>5. ASSUME NEW p \in Parsers, Feed(p) PROVE Gone'
  <2>1. p \in procs /\ ppc[p] # "exited"
    BY <1>5 DEF Feed, Gone, Alive
  <2>2. ppc' = ppc /\ \A q \in Parsers : q # p => buf'[q] = buf[q]
    BY <1>5, FeedFacts DEF Feed
  <2>. QED  BY <1>5, <2>1, <2>2 DEF Gone, Alive, Feed, serverVars
<1>6. ASSUME NEW p \in Parsers, Killed(p) PROVE Gone'
  BY <1>6 DEF Gone, Alive, Killed, Set, ParserTypeOK, serverVars
<1>7. CASE GeneratorEnds
  BY <1>7 DEF Gone, Alive, GeneratorEnds, Down, Living
<1>8. CASE GeneratorChecks
  BY <1>8 DEF Gone, Alive, GeneratorChecks, Living
<1>9. CASE GeneratorGets
  BY <1>9 DEF Gone, Alive, GeneratorGets
<1>10. CASE Receive
  BY <1>10 DEF Gone, Alive, Receive, Down
<1>11. CASE ToldToStop
  BY <1>11 DEF Gone, Alive, ToldToStop, Down
<1>12. CASE Drain
  BY <1>12 DEF Gone, Alive, Drain
<1>13. CASE Interrupt
  BY <1>13 DEF Gone, Alive, Interrupt, ParserTypeOK
<1>14. CASE Terminate
  BY <1>14 DEF Gone, Alive, Terminate, Living, ParserTypeOK
<1>15. CASE Join \/ UNCHANGED parserVars
  BY <1>15 DEF Gone, Alive, Join, parserVars, serverVars
<1>. QED
  BY <1>1, <1>2, <1>3, <1>4, <1>5, <1>6, <1>7, <1>8, <1>9, <1>10, <1>11, <1>12, <1>13, <1>14, <1>15 DEF ParserNext, Process, Server, ParserDone

\* Without kills and before the end no step drops a recipe.
LEMMA NoneLostStep ==
  ParserTypeOK /\ Tokens /\ QueueOK /\ Once /\ NoneLost /\ [ParserNext]_parserVars => NoneLost'
<1>. SUFFICES ASSUME ParserTypeOK, Tokens, QueueOK, Once, NoneLost, [ParserNext]_parserVars,
                     kills' = 0, ending' = "none"
              PROVE  /\ \A j \in Jobs : Placed(j)'
                     /\ \A p \in Parsers : /\ ppc'[p] # "killed"
                                           /\ ppc'[p] \in {"closing", "exited"} => jobs'[p] = {}
  BY DEF NoneLost
<1>. DEFINE Goal == /\ \A j \in Jobs : Placed(j)'
                    /\ \A p \in Parsers : /\ ppc'[p] # "killed"
                                          /\ ppc'[p] \in {"closing", "exited"} => jobs'[p] = {}
<1>. Len(queue) \in Nat /\ Len(parsed) \in Nat /\ \A p \in Parsers : Len(buf[p]) \in Nat
  BY QueueType
<1>0. ASSUME ending = "none", kills = 0
      PROVE  /\ \A j \in Jobs : Placed(j) /\ Share[j] \in Parsers
             /\ \A p \in Parsers : /\ ppc[p] # "killed"
                                   /\ ppc[p] \in {"closing", "exited"} => jobs[p] = {}
  BY <1>0, ParserAssumption DEF NoneLost
<1>1. ASSUME NEW p \in Parsers, Loop(p) PROVE Goal
  <2>. ending = "none" /\ kills = 0 /\ quit = 0
    BY <1>1 DEF Loop, Tokens, serverVars
  <2>1. buf' = buf /\ queue' = queue /\ parsed' = parsed /\ ppc[p] = "loop"
    BY <1>1, LoopFacts DEF Loop
  <2>. \A q \in Parsers : q # p => ppc'[q] = ppc[q] /\ jobs'[q] = jobs[q] /\ work'[q] = work[q]
    BY <1>1, LoopFacts
  <2>2. CASE ppc'[p] = "closing" /\ jobs'[p] = jobs[p] /\ jobs[p] = {}
    <3>1. ASSUME NEW j \in Jobs PROVE Placed(j)'
      BY <1>0, <2>1, <2>2 DEF Placed, InHand, Buffered, Queued, Added
    <3>. QED  BY <1>0, <2>2, <3>1
  <2>3. CASE ppc'[p] = "parse" /\ work'[p].job \in jobs[p] /\ jobs'[p] = jobs[p] \ {work'[p].job}
    <3>1. ASSUME NEW j \in Jobs PROVE Placed(j)'
      BY <1>0, <2>1, <2>3 DEF Placed, InHand, Buffered, Queued, Added
    <3>. QED  BY <1>0, <2>3, <3>1
  <2>. QED  BY <1>1, <2>2, <2>3, LoopFacts
<1>2. ASSUME NEW p \in Parsers, Parse(p) PROVE Goal
  <2>. ending = "none" /\ kills = 0
    BY <1>2 DEF Parse, serverVars
  <2>1. /\ \A q \in Parsers : work'[q].job = work[q].job
        /\ ppc[p] = "parse" /\ ppc'[p] = "put" /\ \A q \in Parsers : q # p => ppc'[q] = ppc[q]
        /\ jobs' = jobs /\ buf' = buf /\ queue' = queue /\ parsed' = parsed
    BY <1>2 DEF Parse, Set, ParserTypeOK, serverVars
  <2>2. ASSUME NEW j \in Jobs PROVE Placed(j)'
    BY <1>0, <2>1 DEF Placed, InHand, Buffered, Queued, Added
  <2>. QED  BY <1>0, <2>1, <2>2
<1>3. ASSUME NEW p \in Parsers, Put(p) PROVE Goal
  <2>. ending = "none" /\ kills = 0
    BY <1>3 DEF Put, serverVars
  <2>1. /\ jobs' = jobs /\ work' = work /\ queue' = queue /\ parsed' = parsed
        /\ ppc[p] = "put" /\ ppc'[p] = "loop" /\ \A q \in Parsers : q # p => ppc'[q] = ppc[q]
    BY <1>3 DEF Put, Set, ParserTypeOK, serverVars
  <2>2. /\ Len(buf'[p]) = Len(buf[p]) + 1 /\ buf'[p][Len(buf[p]) + 1] = work[p]
        /\ \A i \in 1 .. Len(buf[p]) : buf'[p][i] = buf[p][i]
        /\ \A q \in Parsers : q # p => buf'[q] = buf[q]
    BY <1>3, <2>1, WorkType, BufferKept DEF InHand, Once
  <2>3. ASSUME NEW j \in Jobs PROVE Placed(j)'
    <3>1. Buffered(j) => Buffered(j)'
      BY <1>0, <2>2 DEF Buffered
    <3>2. Share[j] = p /\ work[p].job = j => Buffered(j)'
      <4>1. Len(buf[p]) + 1 \in 1 .. Len(buf'[p])
        BY <2>2
      <4>. QED  BY <2>2, <4>1 DEF Buffered
    <3>. QED  BY <1>0, <2>1, <3>1, <3>2 DEF Placed, InHand, Queued, Added
  <2>. QED  BY <1>0, <2>1, <2>3
<1>4. ASSUME NEW p \in Parsers, CloseResults(p) PROVE Goal
  <2>. ending = "none" /\ kills = 0
    BY <1>4 DEF CloseResults, serverVars
  <2>1. /\ jobs' = jobs /\ work' = work /\ buf' = buf /\ queue' = queue /\ parsed' = parsed
        /\ ppc[p] = "closing" /\ ppc'[p] = "exited" /\ \A q \in Parsers : q # p => ppc'[q] = ppc[q]
    BY <1>4 DEF CloseResults, Set, ParserTypeOK, serverVars
  <2>2. ASSUME NEW j \in Jobs PROVE Placed(j)'
    BY <1>0, <2>1 DEF Placed, InHand, Buffered, Queued, Added
  <2>. QED  BY <1>0, <2>1, <2>2
<1>5. ASSUME NEW p \in Parsers, Feed(p) PROVE Goal
  <2>. ending = "none" /\ kills = 0 /\ jobs' = jobs /\ work' = work /\ ppc' = ppc /\ parsed' = parsed
    BY <1>5 DEF Feed, serverVars
  <2>. /\ Len(queue') = Len(queue) + 1
       /\ \A i \in 1 .. Len(queue) : queue'[i] = queue[i]
       /\ Same(queue'[Len(queue) + 1], buf[p][1])
       /\ queue'[Len(queue) + 1].half = IF wlock = p THEN 2 ELSE 1
    BY <1>5, FeedFacts
  <2>1. ASSUME NEW j \in Jobs PROVE Placed(j)'
    <3>1. Queued(j) => Queued(j)'
      BY DEF Queued
    <3>2. Buffered(j) => Buffered(j)' \/ Queued(j)'
      <4>. SUFFICES ASSUME NEW i \in 1 .. Len(buf[Share[j]]), buf[Share[j]][i].job = j
                    PROVE  Buffered(j)' \/ Queued(j)'
        BY DEF Buffered
      <4>1. CASE Share[j] # p \/ wlock # p
        <5>1. buf'[Share[j]] = buf[Share[j]]
          BY <1>0, <1>5, <4>1, FeedFacts DEF Feed
        <5>. QED  BY <5>1 DEF Buffered
      <4>2. CASE Share[j] = p /\ wlock = p /\ i = 1
        <5>1. Len(queue) + 1 \in 1 .. Len(queue')
          OBVIOUS
        <5>. QED  BY <4>2, <5>1 DEF Queued, Same
      <4>3. CASE Share[j] = p /\ wlock = p /\ i # 1
        <5>1. i - 1 \in 1 .. Len(buf[p]) - 1 /\ (i - 1) + 1 = i
          BY <4>3
        <5>2. Len(buf'[p]) = Len(buf[p]) - 1 /\ buf'[p][i - 1] = buf[p][i]
          BY <1>5, <4>3, <5>1, FeedFacts
        <5>. QED  BY <4>3, <5>1, <5>2 DEF Buffered
      <4>. QED  BY <4>1, <4>2, <4>3
    <3>. QED  BY <1>0, <3>1, <3>2 DEF Placed, InHand, Added
  <2>. QED  BY <1>0, <2>1
<1>6. ASSUME queue # <<>>, queue' = Tail(queue), ppc' = ppc, jobs' = jobs, work' = work, buf' = buf,
             ending = "none", kills = 0,
             \/ mpc = "get" /\ parsed' = parsed
             \/ mpc = "reading" /\ parsed' = Append(parsed, first.job)
      PROVE  Goal
  <2>. /\ Len(queue') = Len(queue) - 1 /\ Len(queue) \in Nat \ {0}
       /\ \A i \in 1 .. Len(queue) - 1 : queue'[i] = queue[i + 1]
    BY <1>6, TakeFacts
  <2>1. ASSUME NEW j \in Jobs, NEW i \in 2 .. Len(queue), queue[i].half = 2, queue[i].job = j PROVE Queued(j)'
    <3>1. i - 1 \in 1 .. Len(queue) - 1 /\ (i - 1) + 1 = i
      BY <2>1
    <3>2. queue'[i - 1] = queue[i] /\ i - 1 \in 1 .. Len(queue')
      BY <3>1
    <3>. QED  BY <2>1, <3>2 DEF Queued
  <2>2. CASE mpc = "get" /\ parsed' = parsed
    <3>1. queue[1].half = 1
      BY <1>6, <2>2 DEF QueueOK, Alternate, Midway
    <3>2. ASSUME NEW j \in Jobs, Queued(j) PROVE Queued(j)'
      <4>. PICK i \in 1 .. Len(queue) : queue[i].half = 2 /\ queue[i].job = j
        BY <3>2 DEF Queued
      <4>1. i \in 2 .. Len(queue)
        BY <3>1
      <4>. QED  BY <2>1, <4>1
    <3>3. ASSUME NEW j \in Jobs PROVE Placed(j)'
      BY <1>0, <1>6, <2>2, <3>2 DEF Placed, InHand, Buffered, Added
    <3>. QED  BY <1>0, <1>6, <3>3
  <2>3. CASE mpc = "reading" /\ parsed' = Append(parsed, first.job)
    <3>1. queue[1].job = first.job /\ first.job \in Jobs
      BY <1>6, <2>3 DEF QueueOK, Matched, Same, Results
    <3>2. Len(parsed') = Len(parsed) + 1 /\ parsed'[Len(parsed) + 1] = first.job /\ \A i \in 1 .. Len(parsed) : parsed'[i] = parsed[i]
      BY <2>3, <3>1, AppendFacts, QueueType
    <3>3. ASSUME NEW j \in Jobs, Queued(j) PROVE Queued(j)' \/ Added(j)'
      <4>. PICK i \in 1 .. Len(queue) : queue[i].half = 2 /\ queue[i].job = j
        BY <3>3 DEF Queued
      <4>1. CASE i = 1
        <5>1. Len(parsed) + 1 \in 1 .. Len(parsed')
          BY <3>2
        <5>. QED  BY <3>1, <3>2, <4>1, <5>1 DEF Added
      <4>2. CASE i # 1
        BY <2>1, <4>2
      <4>. QED  BY <4>1, <4>2
    <3>4. ASSUME NEW j \in Jobs, Added(j) PROVE Added(j)'
      BY <3>2, <3>4 DEF Added
    <3>5. ASSUME NEW j \in Jobs PROVE Placed(j)'
      BY <1>0, <1>6, <3>3, <3>4 DEF Placed, InHand, Buffered
    <3>. QED  BY <1>0, <1>6, <3>5
  <2>. QED  BY <1>6, <2>2, <2>3
<1>7. ASSUME ppc' = ppc, jobs' = jobs, work' = work, buf' = buf, queue' = queue, parsed' = parsed,
             ending = "none", kills = 0
      PROVE  Goal
  BY <1>0, <1>7 DEF Placed, InHand, Buffered, Queued, Added
<1>8. CASE GeneratorEnds \/ ToldToStop \/ (Receive /\ ~first.ok)
  BY <1>8 DEF GeneratorEnds, ToldToStop, Receive, Down
<1>9. CASE GeneratorChecks
  BY <1>7, <1>9 DEF GeneratorChecks
<1>10. CASE GeneratorGets
  <2>1. CASE queue = <<>>
    BY <1>7, <1>10, <2>1 DEF GeneratorGets
  <2>2. CASE queue # <<>>
    BY <1>6, <1>10, <2>2 DEF GeneratorGets
  <2>. QED  BY <2>1, <2>2
<1>11. CASE Receive /\ first.ok
  <2>1. /\ queue # <<>> /\ queue' = Tail(queue) /\ ppc' = ppc /\ jobs' = jobs /\ work' = work /\ buf' = buf
        /\ ending = "none" /\ kills = 0 /\ mpc = "reading" /\ parsed' = Append(parsed, first.job)
    BY <1>11 DEF Receive
  <2>. QED  BY <1>6, <2>1
<1>12. CASE Drain \/ Interrupt \/ Terminate \/ Join
  BY <1>12 DEF Drain, Interrupt, Terminate, Join, ParserTypeOK
<1>13. CASE UNCHANGED parserVars
  BY <1>7, <1>13 DEF parserVars, serverVars
<1>14. CASE \E p \in Parsers : Killed(p)
  BY <1>14 DEF Killed, ParserTypeOK
<1>. QED
  BY <1>1, <1>2, <1>3, <1>4, <1>5, <1>8, <1>9, <1>10, <1>11, <1>12, <1>13, <1>14 DEF ParserNext, Process, Server, ParserDone

\* When the generator ends it counts what was added, and nothing is on its way.
LEMMA VerdictStep ==
  ParserTypeOK /\ QueueOK /\ Once /\ NoneLost /\ Gone /\ Verdict /\ [ParserNext]_parserVars => Verdict'
<1>. SUFFICES ASSUME ParserTypeOK, QueueOK, Once, NoneLost, Gone, Verdict, [ParserNext]_parserVars PROVE Verdict'
  OBVIOUS
<1>1. Len(parsed) \in Nat /\ Len(parsed) <= ToParse /\ ((\A j \in Jobs : Added(j)) => Len(parsed) = ToParse)
  BY AddedCount DEF ParserTypeOK, Once
<1>2. ToParse \in Nat
  BY ParserFinite
<1>3. ASSUME ending' = ending, parsed' = parsed, kills' = kills PROVE Verdict'
  BY <1>3 DEF Verdict, DiedMeansKilled
<1>4. ASSUME ending' \notin {"complete", "died"} PROVE Verdict'
  BY <1>4 DEF Verdict, DiedMeansKilled
<1>5. CASE \E p \in Parsers : Process(p) \/ Feed(p)
  BY <1>3, <1>5 DEF Process, Loop, Parse, Put, CloseResults, Feed, serverVars
<1>6. CASE \E p \in Parsers : Killed(p)
  <2>1. ending' = ending /\ parsed' = parsed /\ kills' > 0
    BY <1>6 DEF Killed, serverVars, ParserTypeOK
  <2>. QED  BY <2>1 DEF Verdict, DiedMeansKilled
<1>7. CASE GeneratorEnds
  <2>1. parsed' = parsed /\ kills' = kills /\ ending = "none" /\ kills \in Nat
    BY <1>7 DEF GeneratorEnds, ParserTypeOK
  <2>2. CASE Len(parsed) >= ToParse
    <3>1. ending' = "complete"
      BY <1>7, <2>2 DEF GeneratorEnds, Down
    <3>. QED  BY <1>1, <1>2, <2>1, <2>2, <3>1 DEF Verdict, DiedMeansKilled
  <2>3. CASE ~(Len(parsed) >= ToParse)
    <3>1. ending' = "died" /\ NothingComes /\ mpc = "generate"
      BY <1>7, <2>3 DEF GeneratorEnds, Down
    <3>2. queue = <<>> /\ \A p \in Parsers : ppc[p] \in {"exited", "killed"}
      BY <3>1 DEF Gone, NothingComes, Alive
    <3>3. ASSUME kills = 0 PROVE FALSE
      <4>1. \A p \in Parsers : ppc[p] = "exited" /\ jobs[p] = {} /\ buf[p] = <<>>
        BY <2>1, <3>2, <3>3 DEF NoneLost, Gone
      <4>2. ASSUME NEW j \in Jobs PROVE Added(j)
        <5>1. Placed(j) /\ Share[j] \in Parsers
          BY <2>1, <3>3, ParserAssumption DEF NoneLost
        <5>2. ~Buffered(j) /\ ~Queued(j)
          BY <3>2, <4>1, <5>1, EmptySeq DEF Buffered, Queued
        <5>. QED  BY <4>1, <5>1, <5>2 DEF Placed, InHand
      <4>. QED  BY <1>1, <1>2, <2>3, <4>2
    <3>. QED  BY <2>1, <3>1, <3>3 DEF Verdict, DiedMeansKilled
  <2>. QED  BY <2>2, <2>3
<1>8. CASE ToldToStop
  BY <1>4, <1>8 DEF ToldToStop, Down
<1>9. CASE Receive
  <2>1. ending' = "none" \/ ending' = "error"
    BY <1>9 DEF Receive, Down, ParserTypeOK
  <2>. QED  BY <1>4, <2>1
<1>10. CASE GeneratorChecks \/ GeneratorGets \/ Drain \/ Interrupt \/ Terminate \/ Join
  BY <1>3, <1>10 DEF GeneratorChecks, GeneratorGets, Drain, Interrupt, Terminate, Join
<1>11. CASE UNCHANGED parserVars
  BY <1>3, <1>11 DEF parserVars, serverVars
<1>. QED
  BY <1>5, <1>6, <1>7, <1>8, <1>9, <1>10, <1>11 DEF ParserNext, Server, ParserDone

\* At the start every recipe is with its process.
LEMMA ParserInitInv == ParserInit => ParserInv
<1>. SUFFICES ASSUME ParserInit PROVE ParserInv
  OBVIOUS
<1>. USE DEF ParserInit
<1>1. ParserTypeOK /\ Tokens
  <2>1. queue \in Seq([job : Jobs, ok : BOOLEAN, half : {1, 2}]) /\ Len(queue) = 0 /\ parsed \in Seq(Jobs)
    BY EmptySeq
  <2>2. buf \in [Parsers -> Seq(Results)]
    BY EmptySeq
  <2>3. ppc \in [Parsers -> {"loop", "parse", "put", "closing", "exited", "killed"}]
    OBVIOUS
  <2>4. jobs \in [Parsers -> SUBSET Jobs] /\ work \in [Parsers -> Results \cup {NoResult}]
    OBVIOUS
  <2>5. quit \in 0 .. Cardinality(Parsers) /\ Len(queue) <= QueueSize
    BY <2>1, ParserAssumption, ParserFinite
  <2>. QED  BY <2>1, <2>2, <2>3, <2>4, <2>5 DEF ParserTypeOK, Tokens
<1>2. \A p \in Parsers : Len(buf[p]) = 0 /\ ~InHand(p) /\ Alive(p) /\ ppc[p] = "loop"
  BY EmptySeq DEF InHand, Alive
<1>3. Len(queue) = 0 /\ Len(parsed) = 0 /\ ~Midway
  BY EmptySeq DEF Midway
<1>4. Alternate /\ Matched
  BY <1>3 DEF Alternate, Matched
<1>5. Once
  BY <1>2, <1>3 DEF Once, Owned, BegunOnce, HandOnce, BufferedOnce, QueuedOnce, AddedOnce
<1>6. Truthful
  BY <1>2, <1>3 DEF Truthful, NoResult
<1>7. NoneLost
  BY <1>2, ParserAssumption DEF NoneLost, Placed
<1>8. Gone
  BY <1>2, <1>3 DEF Gone
<1>9. Verdict
  BY DEF Verdict, DiedMeansKilled
<1>. QED  BY <1>1, <1>4, <1>5, <1>6, <1>7, <1>8, <1>9 DEF ParserInv

\* The invariant is inductive.
LEMMA ParserStep == ParserInv /\ [ParserNext]_parserVars => ParserInv'
<1>. SUFFICES ASSUME ParserInv, [ParserNext]_parserVars PROVE ParserInv'
  OBVIOUS
<1>. USE DEF ParserInv, QueueOK
<1>1. ParserTypeOK' /\ Tokens'
  BY ParserTypeStep DEF Once
<1>2. QueueOK'
  BY QueueStep DEF Once
<1>3. Once'
  BY OnceStep
<1>4. Truthful'
  BY TruthfulStep DEF Once
<1>5. NoneLost'
  BY NoneLostStep
<1>6. Gone'
  BY GoneStep
<1>7. Verdict'
  BY VerdictStep
<1>. QED  BY <1>1, <1>2, <1>3, <1>4, <1>5, <1>6, <1>7

\* However the processes end, are killed or are told to stop, "complete" is
\* reported only when each recipe was parsed and added once, and "died" only
\* when a process was killed (CookerParser.parse_generator, parse_next).
THEOREM ParseVerdictTheorem == ParserSpec => []ParseVerdictTrue
<1>1. ParserInit => ParserInv
  BY ParserInitInv
<1>2. ParserInv /\ [ParserNext]_parserVars => ParserInv'
  BY ParserStep
<1>3. ParserInv => ParseVerdictTrue
  BY DEF ParserInv, ParseVerdictTrue, CompleteMeansAll, Verdict, Once, AddedOnce, Truthful
<1>. QED  BY <1>1, <1>2, <1>3, PTL DEF ParserSpec
==============================================================================
