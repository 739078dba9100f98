-------------------------------- MODULE Fetcher -------------------------------
(***************************************************************************)
(* Fetching one file into DL_DIR (fetch2/__init__.py, with the wget and    *)
(* local methods): tasks of several recipes that name a file of the same   *)
(* basename share the file, its done stamp and its lock.  Fetch.download() *)
(* looks at the stamp, then tries the premirrors, the original URL and the *)
(* mirrors, and leaves a stamp with the checksums; unpack() reads the file *)
(* later, under the lock again.                                            *)
(*                                                                         *)
(* A checksum is the content it is of.  A file:// mirror is linked to, not *)
(* copied; what a http mirror has is put in place unchecked, and checked   *)
(* afterwards.  Between two steps a task may be killed: the lock goes,     *)
(* what is in DL_DIR stays.                                                *)
(***************************************************************************)
EXTENDS Naturals, Sequences

CONSTANTS
    Tasks,
    Expected,       \* the contents whose checksums recipes give
    PREMIRRORS, MIRRORS,        \* sequences of sources
    Upstream,       \* the source of SRC_URI
    LocalSources,   \* file:// sources
    Offered,        \* the content each source has, or "none"
    MaxIOErrors, MaxKills, MaxCleans

Sources == DOMAIN Offered

\* "none" and "empty" stand for no content, no link and a stamp without checksums.
ASSUME FetchAssumption ==
    /\ Expected \cap {"none", "empty"} = {}
    /\ Offered = [s \in Sources |-> Offered[s]]        \* a function
    /\ \A s \in Sources : Offered[s] # "empty"
    /\ LocalSources \subseteq Sources /\ "none" \notin LocalSources
    /\ PREMIRRORS \in Seq(Sources) /\ MIRRORS \in Seq(Sources) /\ Upstream \in Sources
    /\ MaxIOErrors \in Nat /\ MaxKills \in Nat /\ MaxCleans \in Nat

VARIABLES
    file,           \* ud.localpath: a content, a link to a source, or absent
    stamp,          \* ud.donestamp: "none", "empty" (or cut off), or checksums
    fresh,          \* the stamp is newer than the file
    offers,         \* what the sources have now
    flock,          \* holders of ud.lockfile
    fpc,            \* where each task is
    phase, index,   \* the kind of source it tries, and which of them
    result,         \* what download() and unpack() came to
    expects,        \* the content whose checksum each task's recipe gives
    faults          \* I/O errors, kills and cleans so far

fetchVars == <<file, stamp, fresh, offers, flock, fpc, phase, index, result, expects, faults>>

Data(content) == [data |-> content, link |-> "none"]
Link(s) == [data |-> "none", link |-> s]
Absent == Data("none")
Content == IF file.link # "none" THEN offers[file.link] ELSE file.data
FileExists == Content # "none"

FetchInit ==
  /\ file = Absent /\ stamp = "none" /\ fresh = FALSE
  /\ offers = Offered
  /\ flock = {}
  /\ fpc = [t \in Tasks |-> "start"]
  /\ phase = [t \in Tasks |-> "premirror"]
  /\ index = [t \in Tasks |-> 1]
  /\ result = [t \in Tasks |-> "none"]
  /\ expects \in [Tasks -> Expected]
  /\ faults = [io |-> 0, kills |-> 0, cleans |-> 0]

FetchGoto(t, where) == fpc' = [fpc EXCEPT ![t] = where]
Try(t, kind) ==
  /\ FetchGoto(t, "try")
  /\ phase' = [phase EXCEPT ![t] = kind]
  /\ index' = [index EXCEPT ![t] = 1]
place == <<phase, index>>

(* The finally clause of download(). *)
EndDownload(t, r) ==
  /\ FetchGoto(t, "fetched")
  /\ result' = [result EXCEPT ![t] = r]
  /\ flock' = flock \ {t}

LockDownload(t) ==
  /\ fpc[t] = "start" /\ flock = {}
  /\ flock' = {t}
  /\ FetchGoto(t, "verify")
  /\ UNCHANGED <<file, stamp, fresh, offers, place, result, faults>>

------------------------------------------------------------------------------
(* verify_donestamp and update_stamp. *)

(* The checksums of the stamp are used while it is newer than the file.    *)
Recorded == stamp \notin {"none", "empty"} /\ fresh
Checksums == IF Recorded THEN stamp ELSE Content

\* Mutant: the stamp of a file that is gone stays.
VerifyDonestamp_KeepsStamp(t) ==
  /\ fpc[t] = "verify"
  /\ \/ /\ ~FileExists
        /\ Try(t, "premirror")
        /\ UNCHANGED <<file, stamp, fresh>>
     \/ /\ FileExists /\ Checksums = expects[t]
        /\ FetchGoto(t, IF Recorded THEN "last" ELSE "restamp")
        /\ stamp' = IF Recorded THEN stamp ELSE "empty"
        /\ UNCHANGED <<file, fresh, place>>
     \/ /\ FileExists /\ Checksums # expects[t]
        /\ file' = Absent
        /\ FetchGoto(t, "unstamp")
        /\ UNCHANGED <<stamp, fresh, place>>
  /\ UNCHANGED <<offers, flock, result, faults>>

\* At the start of download(): a stamp without its file is removed; a file
\* whose checksum is not the recipe's is renamed, and then the stamp removed;
\* a stamp without the checksums is written anew.
VerifyDonestamp(t) ==
  /\ fpc[t] = "verify"
  /\ \/ /\ ~FileExists
        /\ stamp' = "none"
        /\ Try(t, "premirror")
        /\ UNCHANGED <<file, fresh>>
     \/ /\ FileExists /\ Checksums = expects[t]
        /\ FetchGoto(t, IF Recorded THEN "last" ELSE "restamp")
        /\ stamp' = IF Recorded THEN stamp ELSE "empty"
        /\ UNCHANGED <<file, fresh, place>>
     \/ /\ FileExists /\ Checksums # expects[t]
        /\ file' = Absent
        /\ FetchGoto(t, "unstamp")
        /\ UNCHANGED <<stamp, fresh, place>>
  /\ UNCHANGED <<offers, flock, result, faults>>

VerifyUnstamps(t) ==
  /\ fpc[t] = "unstamp"
  /\ stamp' = "none"
  /\ Try(t, "premirror")
  /\ UNCHANGED <<file, fresh, offers, flock, result, faults>>

(* The second half of writing a stamp, after open() has truncated it. *)
Dump(t, next) ==
  /\ stamp' = Content /\ fresh' = TRUE
  /\ FetchGoto(t, next)

VerifyRestamps(t) ==
  /\ fpc[t] = "restamp"
  /\ Dump(t, "last")
  /\ UNCHANGED <<file, offers, place, flock, result, faults>>

(* update_stamp touches an existing stamp; otherwise it checks the file,   *)
(* and opens the stamp for writing.                                        *)
Mismatch(t) == stamp = "none" /\ Content # expects[t]

UpdateStamp(t, dump, next) ==
  \/ stamp # "none" /\ fresh' = TRUE /\ FetchGoto(t, next) /\ UNCHANGED stamp
  \/ stamp = "none" /\ stamp' = "empty" /\ FetchGoto(t, dump) /\ UNCHANGED fresh

WriteStamp(t) ==
  /\ \/ fpc[t] = "dump" /\ Dump(t, "last")
     \/ fpc[t] = "dumpLast" /\ Dump(t, "success")
  /\ UNCHANGED <<file, offers, place, flock, result, faults>>

------------------------------------------------------------------------------
(* The sources. *)

SourcesOf(kind) == CASE kind = "premirror" -> PREMIRRORS
                     [] kind = "upstream" -> <<Upstream>>
                     [] kind = "mirror" -> MIRRORS
Trying(t) == fpc[t] = "try" /\ index[t] <= Len(SourcesOf(phase[t]))
Source(t) == SourcesOf(phase[t])[index[t]]
NextSource(t) == index' = [index EXCEPT ![t] = @ + 1] /\ UNCHANGED <<phase, fpc>>

(* A mirror's FetchData has ignore_checksums = True.                       *)
IgnoresChecksums(t) == phase[t] # "upstream"

(* wget: a file with the wrong checksum never gets past the .tmp file,     *)
(* unless the checksums are ignored.                                       *)
Wget(t, s) == offers[s] # "none" /\ (IgnoresChecksums(t) \/ offers[s] = expects[t])

\* The original URL, or try_mirror_url of an http mirror, whose localpath and
\* stamp are those of the original: the stamp of a file that is not there is
\* removed; clean() after a failure.  A premirror's file and the original one
\* are checked early, a mirror's only at the end of download().
TryRemote(t) ==
  /\ Trying(t) /\ Source(t) \notin LocalSources
  /\ stamp' = IF phase[t] # "upstream" /\ ~FileExists THEN "none" ELSE stamp
  /\ IF Wget(t, Source(t))
     THEN /\ file' = Data(offers[Source(t)]) /\ fresh' = FALSE
          /\ FetchGoto(t, IF phase[t] = "mirror" THEN "last" ELSE "update")
          /\ UNCHANGED place
     ELSE /\ file' = Absent
          /\ NextSource(t)
          /\ UNCHANGED fresh
  /\ UNCHANGED <<offers, flock, result, faults>>

\* try_mirror_url of a file:// mirror: ensure_symlink and update_stamp, which
\* renames the link if it finds a mismatch; then what it leads to is renamed.
TryLocal(t) ==
  /\ Trying(t) /\ Source(t) \in LocalSources
  /\ \E s \in {Source(t)} :
       \/ /\ offers[s] = "none" /\ NextSource(t)
          /\ UNCHANGED <<file, fresh, offers>>
       \/ /\ offers[s] # "none" /\ (stamp = "none" => offers[s] = expects[t])
          /\ file' = Link(s) /\ fresh' = FALSE
          /\ FetchGoto(t, "update")
          /\ UNCHANGED <<offers, place>>
       \/ /\ offers[s] \notin {"none", expects[t]} /\ stamp = "none"
          /\ file' = Absent
          /\ offers' = [offers EXCEPT ![s] = "none"]
          /\ NextSource(t)
          /\ UNCHANGED fresh
  /\ UNCHANGED <<stamp, flock, result, faults>>

(* Premirrors, original URL, mirrors. *)
GiveUp(t) ==
  \/ phase[t] = "premirror" /\ Try(t, "upstream") /\ UNCHANGED <<result, flock>>
  \/ phase[t] = "upstream" /\ Try(t, "mirror") /\ UNCHANGED <<result, flock>>
  \/ phase[t] = "mirror" /\ EndDownload(t, "failed") /\ UNCHANGED place

Exhausted(t) ==
  /\ fpc[t] = "try" /\ ~Trying(t)
  /\ GiveUp(t)
  /\ UNCHANGED <<file, stamp, fresh, offers, faults>>

\* The stamp after a source has succeeded ("early checksum verify"): a
\* premirror's file with the wrong checksum is renamed, and the original URL
\* tried.
EarlyUpdate(t) ==
  /\ fpc[t] = "update"
  /\ \/ /\ ~Mismatch(t)
        /\ UpdateStamp(t, "dump", "last")
        /\ UNCHANGED <<file, place, result, flock>>
     \/ /\ Mismatch(t)
        /\ file' = Absent /\ stamp' = "none"
        /\ GiveUp(t)
        /\ UNCHANGED fresh
  /\ UNCHANGED <<offers, faults>>

\* The last update_donestamp of download(), the only check of what a mirror
\* had: a file with the wrong checksum is renamed and the download fails, with
\* no other mirror tried.
LastUpdate(t) ==
  /\ fpc[t] = "last"
  /\ \/ /\ FileExists /\ ~Mismatch(t)
        /\ UpdateStamp(t, "dumpLast", "success")
        /\ UNCHANGED <<file, flock, result>>
     \/ /\ FileExists /\ Mismatch(t)
        /\ file' = Absent
        /\ EndDownload(t, "failed")
        /\ UNCHANGED <<stamp, fresh>>
     \/ /\ ~FileExists
        /\ EndDownload(t, "failed")
        /\ UNCHANGED <<file, stamp, fresh>>
  /\ UNCHANGED <<offers, place, faults>>

UnlockDownload(t) ==
  /\ fpc[t] = "success"
  /\ EndDownload(t, "ok")
  /\ UNCHANGED <<file, stamp, fresh, offers, place, faults>>

------------------------------------------------------------------------------
(* unpack() in a later task of the same recipe; faults. *)

Unpack(t) ==
  /\ fpc[t] = "fetched" /\ result[t] = "ok" /\ flock = {}
  /\ FetchGoto(t, "end")
  /\ result' = [result EXCEPT ![t] = IF FileExists THEN Content ELSE "failed"]
  /\ UNCHANGED <<file, stamp, fresh, offers, place, flock, faults>>

\* An I/O error other than ESTALE while a file is put in place or a stamp
\* written: the handler of download() takes it and returns.
IOError(t) ==
  /\ faults.io < MaxIOErrors
  /\ fpc[t] \in {"restamp", "dump", "dumpLast", "update", "last"} \/ Trying(t)
  /\ faults' = [faults EXCEPT !.io = @ + 1]
  /\ EndDownload(t, "ok")
  /\ UNCHANGED <<file, stamp, fresh, offers, place>>

\* The task is killed; a later build runs it again.
Kill(t) ==
  /\ faults.kills < MaxKills /\ fpc[t] \notin {"start", "fetched", "end"}
  /\ faults' = [faults EXCEPT !.kills = @ + 1]
  /\ flock' = flock \ {t}
  /\ FetchGoto(t, "start")
  /\ UNCHANGED <<file, stamp, fresh, offers, place, result>>

\* Fetch.clean() of do_cleanall; it may be killed before it has removed the
\* stamp.
Clean ==
  /\ faults.cleans < MaxCleans /\ flock = {}
  /\ faults' = [faults EXCEPT !.cleans = @ + 1]
  /\ file' = Absent
  /\ \/ stamp' = "none"
     \/ UNCHANGED stamp
  /\ UNCHANGED <<fresh, offers, flock, fpc, place, result>>

Step(t) ==
  \/ VerifyDonestamp(t) \/ VerifyUnstamps(t) \/ VerifyRestamps(t) \/ WriteStamp(t)
  \/ TryRemote(t) \/ TryLocal(t) \/ Exhausted(t) \/ EarlyUpdate(t) \/ LastUpdate(t)
  \/ UnlockDownload(t)

\* Every task has failed or unpacked the file.
Done == (\A t \in Tasks : fpc[t] = "end" \/ result[t] = "failed") /\ UNCHANGED fetchVars

FetchNext ==
  /\ \/ \E t \in Tasks : LockDownload(t) \/ Step(t) \/ Unpack(t) \/ IOError(t) \/ Kill(t)
     \/ Clean
     \/ Done
  /\ UNCHANGED expects

FetchSpec == FetchInit /\ [][FetchNext]_fetchVars

------------------------------------------------------------------------------
Contents == {Offered[s] : s \in Sources} \cup Expected

\* The places between the lock and the finally clause of download()
Downloading == {"verify", "unstamp", "restamp", "try", "update", "dump", "last",
                "dumpLast", "success"}

FetchTypeOK ==
  /\ file \in {Data(c) : c \in Contents \cup {"none"}} \cup {Link(s) : s \in LocalSources}
  /\ stamp \in Contents \cup {"none", "empty"}
  /\ fresh \in BOOLEAN
  /\ offers \in [Sources -> Contents \cup {"none"}]
  /\ fpc \in [Tasks -> Downloading \cup {"start", "fetched", "end"}]
  /\ flock = {t \in Tasks : fpc[t] \in Downloading} /\ \A t, u \in flock : t = u
  /\ phase \in [Tasks -> {"premirror", "upstream", "mirror"}]
  /\ index \in [Tasks -> Nat \ {0}]
  /\ \A t \in Tasks : index[t] <= Len(SourcesOf(phase[t])) + 1
  /\ expects \in [Tasks -> Expected]

\* When download() has gone through, the file in place is the one whose
\* checksum the recipe gives, whatever was killed where before, whichever
\* recipes share the file name and whatever the mirrors hold.
FetchedIsExpected == \A t \in Tasks : fpc[t] = "success" => Content = expects[t]

===============================================================================
