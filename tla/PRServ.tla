------------------------------- MODULE PRServ -------------------------------
(***************************************************************************)
(* The PR service (lib/prserv/serv.py, lib/prserv/db.py): servers that     *)
(* number the builds of a package, and the export from one server and      *)
(* import into another (meta/lib/oe/prservice.py).                         *)
(*                                                                         *)
(* A handler has no await between reading a request and committing, so the *)
(* event loop runs it to the end; but the answer is written before the     *)
(* commit, and the process may die between the two.  A version and its     *)
(* package architecture are one key here.  Read-only servers are left out. *)
(***************************************************************************)
EXTENDS Integers, Sequences, FiniteSets, FiniteSetsExt

CONSTANTS
  Servers,
  Versions,       \* pairs of a version and a package architecture
  Checksums,
  MaxRequests,    \* answers in a behaviour
  MaxExports,
  Crashes         \* may a server die before it has committed?

ASSUME PrAssumption == MaxRequests \in Nat /\ MaxExports \in Nat /\ Crashes \in BOOLEAN

VARIABLES
  nohist,    \* "No History" mode, as PRServer uses it, or "History" mode
  table,     \* the rows each server sees: [Versions -> [Checksums -> value]]
  disk,      \* the rows it has committed
  syncing,   \* servers that have written an answer and not committed yet
  log,       \* the answers so far
  file,      \* the file of an export: rows and where they are still to go
  imported,  \* per server, the imports that are complete: rows and the length of log
  exports

prVars == <<nohist, table, disk, syncing, log, file, imported, exports>>

Absent == -1

Max0(S) == Max(S \cup {Absent})

\* select ifnull(max(value)+1,0): Absent + 1 is 0
Values(tab, v) == {tab[v][c] : c \in Checksums}
NextValue(tab, v) == Max0(Values(tab, v)) + 1
-----------------------------------------------------------------------------
\* Mutant: a checksum seen before gets its old value back
GetValueNohist_Old(tab, v, c) ==
  IF tab[v][c] # Absent THEN tab ELSE [tab EXCEPT ![v][c] = NextValue(tab, v)]

\* Only a row with the largest value is good enough; otherwise the checksum's
\* row is replaced by one with a larger value
GetValueNohist(tab, v, c) ==
  IF tab[v][c] # Absent /\ tab[v][c] >= Max0(Values(tab, v)) THEN tab
  ELSE [tab EXCEPT ![v][c] = NextValue(tab, v)]

GetValueHist(tab, v, c) ==
  IF tab[v][c] # Absent THEN tab ELSE [tab EXCEPT ![v][c] = NextValue(tab, v)]

getValue(tab, v, c) == IF nohist THEN GetValueNohist(tab, v, c) ELSE GetValueHist(tab, v, c)

\* INSERT, or UPDATE where the value is smaller
ImportNohist(tab, r) == [tab EXCEPT ![r.v][r.c] = Max({@, r.value})]

ImportHist(tab, r) == IF tab[r.v][r.c] = Absent THEN [tab EXCEPT ![r.v][r.c] = r.value] ELSE tab

importone(tab, r) == IF nohist THEN ImportNohist(tab, r) ELSE ImportHist(tab, r)

Rows(tab) ==
  {[v |-> p[1], c |-> p[2], value |-> tab[p[1]][p[2]]] :
     p \in {q \in Versions \X Checksums : tab[q[1]][q[2]] # Absent}}

\* In "No History" mode the rows with the largest value, otherwise all
export(tab) ==
  {r \in Rows(tab) : nohist => r.value = Max0(Values(tab, r.v))}
-----------------------------------------------------------------------------
NoFile == [rows |-> {}]

Row == [v : Versions, c : Checksums, value : Nat]
Answer == [s : Servers, v : Versions, c : Checksums, value : Nat]
Table == [Versions -> [Checksums -> Int]]
Files == [rows : SUBSET Row]
         \cup [rows : SUBSET Row, to : Servers, left : SUBSET Row]

PrTypeOK ==
  /\ nohist \in BOOLEAN
  /\ table \in [Servers -> Table] /\ disk \in [Servers -> Table]
  /\ syncing \in SUBSET Servers
  /\ log \in Seq(Answer)
  /\ file \in Files
  /\ imported \in [Servers -> SUBSET [rows : SUBSET Row, at : Nat]]
  /\ exports \in 0..MaxExports

PrInit ==
  /\ nohist \in BOOLEAN
  /\ table = [s \in Servers |-> [v \in Versions |-> [c \in Checksums |-> Absent]]]
  /\ disk = table
  /\ syncing = {}
  /\ log = <<>>
  /\ file = NoFile
  /\ imported = [s \in Servers |-> {}]
  /\ exports = 0

\* handle_get_pr: the answer is written, the commit is to come
handle_get_pr(s, v, c) ==
  /\ s \notin syncing /\ Len(log) < MaxRequests
  /\ \E tab \in {getValue(table[s], v, c)} :
       /\ table' = [table EXCEPT ![s] = tab]
       /\ syncing' = IF tab = table[s] THEN syncing ELSE syncing \cup {s}
       /\ log' = Append(log, [s |-> s, v |-> v, c |-> c, value |-> tab[v][c]])
  /\ UNCHANGED <<nohist, disk, file, imported, exports>>

\* dispatch_message once the handler has returned
sync_if_dirty(s) ==
  /\ s \in syncing
  /\ disk' = [disk EXCEPT ![s] = table[s]]
  /\ syncing' = syncing \ {s}
  /\ UNCHANGED <<nohist, table, log, file, imported, exports>>

\* prserv_dump_db and prserv_export_tofile
handle_export(s) ==
  /\ s \notin syncing /\ file = NoFile /\ exports < MaxExports
  /\ export(table[s]) # {}
  /\ file' = [rows |-> export(table[s])]
  /\ exports' = exports + 1
  /\ UNCHANGED <<nohist, table, disk, syncing, log, imported>>

\* prserv_import_db sends the rows of the file to a server, in any order
BeginImport(s) ==
  /\ file # NoFile /\ "to" \notin DOMAIN file
  /\ file' = [rows |-> file.rows, to |-> s, left |-> file.rows]
  /\ UNCHANGED <<nohist, table, disk, syncing, log, imported, exports>>

handle_import_one(r) ==
  /\ "to" \in DOMAIN file /\ file.to \notin syncing /\ r \in file.left
  /\ table' = [table EXCEPT ![file.to] = importone(@, r)]
  /\ syncing' = syncing \cup {file.to}
  /\ file' = [file EXCEPT !.left = @ \ {r}]
  /\ UNCHANGED <<nohist, disk, log, imported, exports>>

EndImport ==
  /\ "to" \in DOMAIN file /\ file.left = {} /\ file.to \notin syncing
  /\ imported' = [imported EXCEPT ![file.to] = @ \cup {[rows |-> file.rows, at |-> Len(log)]}]
  /\ file' = NoFile
  /\ UNCHANGED <<nohist, table, disk, syncing, log, exports>>

\* The server dies and is started again; without Crashes it is SIGTERM, whose
\* handler runs in the event loop, between two requests, and commits
Restart(s) ==
  /\ s \in syncing => Crashes
  /\ table' = [table EXCEPT ![s] = disk[s]]
  /\ syncing' = syncing \ {s}
  /\ UNCHANGED <<nohist, disk, log, file, imported, exports>>

PrNext ==
  \/ \E s \in Servers :
       \/ \E v \in Versions, c \in Checksums : handle_get_pr(s, v, c)
       \/ sync_if_dirty(s) \/ handle_export(s) \/ BeginImport(s) \/ Restart(s)
  \/ \E r \in [v : Versions, c : Checksums, value : 0..MaxRequests] : handle_import_one(r)
  \/ EndImport

PrSpec == PrInit /\ [][PrNext]_prVars
-----------------------------------------------------------------------------
\* "This means the PR value returned can NOT be decremented" (db.py): the values
\* a server in "No History" mode returns for a version never go down, whatever
\* is imported in between.
NeverDecremented ==
  nohist => \A i, j \in DOMAIN log :
    i < j /\ log[i].s = log[j].s /\ log[i].v = log[j].v => log[i].value <= log[j].value

\* Nothing was imported into the server yet
Untouched(s) == imported[s] = {} /\ ("to" \in DOMAIN file => file.to # s)

\* A value names one build of a package: a server into which nothing was
\* imported never gives the same value of a version to two checksums.
OneBuildPerValue ==
  \A i, j \in DOMAIN log :
    /\ log[i].s = log[j].s /\ log[i].v = log[j].v /\ log[i].value = log[j].value
    /\ Untouched(log[i].s)
    => log[i].c = log[j].c

\* "History" mode: "Return a new higher value for previously unseen query tuple
\* (version, pkgarch, checksum), otherwise return historical value" (db.py): the
\* first answer for a checksum is above all earlier ones and is repeated later.
HistoricalValue ==
  ~nohist => \A j \in DOMAIN log :
    LET same == {i \in 1..j-1 : log[i].s = log[j].s /\ log[i].v = log[j].v}
        seen == {i \in same : log[i].c = log[j].c}
    IN  /\ \A i \in seen : log[i].value = log[j].value
        /\ seen = {} /\ Untouched(log[j].s) => \A i \in same : log[i].value < log[j].value

\* A project moves to another server: once its import is complete, no answer is
\* below a value that the old server had returned when it was exported, and the
\* builds that were current there have the same number or a higher one here.
ImportKeepsUp ==
  nohist => \A s \in Servers : \A im \in imported[s] : \A r \in im.rows :
    \A j \in im.at+1..Len(log) : log[j].s = s /\ log[j].v = r.v => log[j].value >= r.value

\* What a PR service promises of the values it returns, in both modes.
ValuesKept == NeverDecremented /\ OneBuildPerValue /\ HistoricalValue /\ ImportKeepsUp
=============================================================================
