------------------------------ MODULE HashServ ------------------------------
(***************************************************************************)
(* The hash equivalence server (lib/hashserv/server.py) with its database, *)
(* the upstream server it may read through, its clients                    *)
(* (lib/hashserv/client.py, lib/bb/asyncrpc/client.py) and their retries.  *)
(*                                                                         *)
(* The server is one asyncio event loop with one database connection: a    *)
(* handler is interrupted only where it awaits the upstream server, and a  *)
(* commit writes whatever any handler has inserted so far.  A server       *)
(* without upstream, such as the upstream server itself here, handles      *)
(* every request in one step.  There is one method; statistics and         *)
(* read-only servers are left out.                                         *)
(***************************************************************************)
EXTENDS Naturals, Sequences, FiniteSets

CONSTANTS
  Taskhashes, Outhashes, Unihashes,
  Clients,
  Slots,          \* connections the server can have open at a time: 1..n
  Kinds,          \* the kinds of request the clients send
  None,
  MaxAsked,       \* requests of each client
  MaxUpReports,   \* reports other clients make to the upstream server
  MaxCrashes,     \* crashes of the server
  MaxOutages,     \* times the upstream server is down
  MaxTimeouts     \* requests a client gives up waiting for

VARIABLES
  upstream,  \* is the server started with an upstream server?
  db,        \* the tables as the server's connection sees them
  committed, \* the tables as last committed
  up,        \* the tables of the upstream server
  upRuns,    \* is the upstream server running?
  now,       \* the clock that dates the rows of the outhash table
  handler,   \* what the handler of each connection is doing
  client,    \* the request each client waits for
  queue,     \* the backfill queue
  worker,    \* the backfill worker
  told,      \* the unihashes clients were told, by taskhash
  pinned,    \* taskhashes whose unihash did not come from a report
  spent      \* how much of each bound is used up

hashVars == <<upstream, db, committed, up, upRuns, now, handler, client, queue, worker, told, pinned,
              spent>>
-----------------------------------------------------------------------------
(* The two tables and the queries on them *)

OutRow == [t : Taskhashes, o : Outhashes, created : Nat]

Tables == [uni : [Taskhashes -> Unihashes \cup {None}], out : SUBSET OutRow]

EmptyTables == [uni |-> [t \in Taskhashes |-> None], out |-> {}]

\* Mutant: a row that exists is replaced
insert_unihash_Replace(tab, t, u) == [tab EXCEPT !.uni[t] = u]

\* INSERT OR IGNORE on a table whose taskhashes are unique
insert_unihash(tab, t, u) ==
  IF tab.uni[t] = None THEN [tab EXCEPT !.uni[t] = u] ELSE tab

\* INSERT OR IGNORE; unique are the pairs of a taskhash and an outhash
insert_outhash(tab, t, o, when) ==
  IF \E r \in tab.out : r.t = t /\ r.o = o THEN tab
  ELSE [tab EXCEPT !.out = @ \cup {[t |-> t, o |-> o, created |-> when]}]

\* Rows of the join of the two tables
Joined(tab, rows) == {r \in rows : tab.uni[r.t] # None}

\* ORDER BY created ASC LIMIT 1, answered as [u, row]
Oldest(tab, rows) ==
  LET found == Joined(tab, rows)
  IN  IF found = {} THEN None
      ELSE LET r == CHOOSE x \in found : \A y \in found : x.created <= y.created
           IN  [u |-> tab.uni[r.t], row |-> r]

query_equivalent(tab, t) == tab.uni[t]

query_all(tab, t) == Oldest(tab, {r \in tab.out : r.t = t})

query_outhash(tab, o) == Oldest(tab, {r \in tab.out : r.o = o})

\* Mutant: the row just inserted is not excepted, nor looked for elsewhere
query_other_OwnRow(tab, t, o) == Oldest(tab, {r \in tab.out : r.o = o /\ r.t = t})

\* Another taskhash with the same output, the oldest
query_other(tab, t, o) == Oldest(tab, {r \in tab.out : r.o = o /\ r.t # t})

\* Both tables take over what the upstream server answered
update_unified(tab, d) ==
  IF d = None THEN tab
  ELSE insert_outhash(insert_unihash(tab, d.row.t, d.u), d.row.t, d.row.o, d.row.created)
-----------------------------------------------------------------------------
Requests ==
  {r \in    [kind : {"report"}, t : Taskhashes, o : Outhashes, u : Unihashes]
       \cup [kind : {"report-equiv"}, t : Taskhashes, u : Unihashes]
       \cup [kind : {"get", "get-all", "get-stream"}, t : Taskhashes]
       \cup [kind : {"get-outhash"}, t : Taskhashes, o : Outhashes]
       \cup [kind : {"backfill-wait"}] : r.kind \in Kinds}

\* pc: "idle"; "sent", the request is in the socket; "await", the handler waits
\* for the upstream server, or for the backfill queue; "resumed", it has the
\* upstream server's answer; "replied", the answer is in the socket.
Idle == [pc |-> "idle"]

\* A client between two requests, or with one: conn is the connection it waits
\* on, None before it is sent (again); count the errors so far.
NoRequest == [req |-> None, conn |-> None, count |-> 0]

Waiting(c) == client[c].req # None
Attached(s) == \E c \in Clients : Waiting(c) /\ client[c].conn = s

WorkerIdle == [pc |-> "get"]

\* The answers that come with the row they were found in
Answers == [u : Unihashes, row : OutRow]

ASSUME HashAssumption ==
  /\ None \notin Unihashes \cup Slots \cup Answers \cup Requests
  /\ MaxAsked \in Nat /\ MaxUpReports \in Nat
  /\ MaxCrashes \in Nat /\ MaxOutages \in Nat /\ MaxTimeouts \in Nat

\* What a handler in place pc may answer a request with
AnswersTo(pc, req) ==
  {None} \cup (CASE req.kind = "backfill-wait" -> {}
                 [] req.kind \in {"get-all", "get-outhash"} -> Answers
                 [] req.kind = "report" /\ pc = "resumed" -> Answers
                 [] OTHER -> Unihashes)

HashTypeOK ==
  /\ upstream \in BOOLEAN
  /\ db \in Tables /\ committed \in Tables /\ up \in Tables
  /\ upRuns \in BOOLEAN /\ now \in Nat
  /\ handler \in [Slots -> {Idle} \cup [pc : {"sent", "await"}, req : Requests]
                      \cup [pc : {"resumed", "replied"}, req : Requests,
                            ans : {None} \cup Unihashes \cup Answers]]
  /\ \A s \in Slots : handler[s].pc \in {"resumed", "replied"} =>
        handler[s].ans \in AnswersTo(handler[s].pc, handler[s].req)
  /\ client \in [Clients -> {NoRequest} \cup [req : Requests, conn : Slots \cup {None}, count : 0..3]]
  /\ \A c \in Clients : Waiting(c) /\ client[c].conn # None =>
        handler[client[c].conn] # Idle /\ handler[client[c].conn].req = client[c].req
  /\ \A c, d \in Clients : Waiting(c) /\ client[c].conn # None /\ Waiting(d)
                             /\ client[d].conn = client[c].conn => c = d
  /\ queue \in Seq(Taskhashes)
  /\ worker \in {WorkerIdle, [pc |-> "dead"]} \cup [pc : {"copy"}, t : Taskhashes]
                  \cup [pc : {"insert"}, t : Taskhashes, ans : Unihashes \cup {None}]
  /\ told \subseteq Taskhashes \X Unihashes /\ pinned \subseteq Taskhashes
  /\ spent \in [requests : [Clients -> Nat], reports : Nat, crashes : Nat,
                outages : Nat, timeouts : Nat]

HashInit ==
  /\ upstream \in BOOLEAN
  /\ db = EmptyTables /\ committed = EmptyTables /\ up = EmptyTables
  /\ upRuns = TRUE
  /\ now = 0
  /\ handler = [s \in Slots |-> Idle]
  /\ client = [c \in Clients |-> NoRequest]
  /\ queue = <<>>
  /\ worker = WorkerIdle
  /\ told = {} /\ pinned = {}
  /\ spent = [requests |-> [c \in Clients |-> 0], reports |-> 0, crashes |-> 0,
              outages |-> 0, timeouts |-> 0]
-----------------------------------------------------------------------------
(* The server's handlers *)

Busy(s, pc, kind) == handler[s].pc = pc /\ handler[s].req.kind = kind

\* write_message: nobody reads it when the client has given up on the connection
Reply(s, answer) ==
  handler' = [handler EXCEPT ![s] =
                IF Attached(s) THEN [pc |-> "replied", req |-> handler[s].req, ans |-> answer]
                ELSE Idle]

Await(s) == handler' = [handler EXCEPT ![s] = [pc |-> "await", req |-> handler[s].req]]

\* What the connections' loss means to the clients waiting on them: an error
\* counted by _send_wrapper, which tries again three times and then raises
Lost(conns) ==
  client' = [c \in Clients |->
    IF Waiting(c) /\ client[c].conn \in conns
    THEN IF client[c].count >= 3 THEN NoRequest
         ELSE [req |-> client[c].req, conn |-> None, count |-> client[c].count + 1]
    ELSE client[c]]

\* An exception in a handler closes its connection; what it inserted stays in
\* the transaction of the connection that all handlers share
Raise(s) ==
  /\ handler' = [handler EXCEPT ![s] = Idle]
  /\ Lost({s})

\* db.commit() with the tables as they are after the handler's last insert
Commit(tab) == db' = tab /\ committed' = tab

\* The end of handle_report, from insert_unihash on.  get_unihash finds the row
\* just inserted or the one that was there, so it does not ask upstream again.
FinishReport(s, tab, u) ==
  LET t == handler[s].req.t
      final == insert_unihash(tab, t, u)
  IN  /\ Commit(final)
      /\ Reply(s, query_equivalent(final, t))

\* handle_report.  The outhash row is looked at as new even if it existed:
\* insert_table compares lastrowid with that of a fresh cursor.
Report(s) ==
  /\ Busy(s, "sent", "report")
  /\ LET req == handler[s].req IN
     \E tab \in {insert_outhash(db, req.t, req.o, now)} :
       /\ now' = IF tab = db THEN now ELSE now + 1
       /\ LET row == query_other(tab, req.t, req.o) IN
          \/ row # None /\ FinishReport(s, tab, row.u)
          \/ row = None /\ ~upstream /\ FinishReport(s, tab, req.u)
          \/ row = None /\ upstream /\ db' = tab /\ Await(s) /\ UNCHANGED committed
  /\ UNCHANGED <<up, upRuns, client, queue, worker, told, pinned, spent>>

ReportResumes(s) ==
  /\ Busy(s, "resumed", "report")
  /\ FinishReport(s, db, IF handler[s].ans = None THEN handler[s].req.u ELSE handler[s].ans.u)
  /\ UNCHANGED <<up, upRuns, now, client, queue, worker, told, pinned, spent>>

Pin(t) == pinned' = IF db.uni[t] = None THEN pinned \cup {t} ELSE pinned

handle_equivreport(s) ==
  /\ Busy(s, "sent", "report-equiv")
  /\ LET req == handler[s].req IN
     /\ Pin(req.t)
     /\ \E tab \in {insert_unihash(db, req.t, req.u)} :
          Commit(tab) /\ Reply(s, query_equivalent(tab, req.t))
  /\ UNCHANGED <<up, upRuns, now, client, queue, worker, told, spent>>

\* What the server finds in its own tables for a request to read
Known(req) ==
  CASE req.kind = "get-all" -> query_all(db, req.t)
    [] req.kind = "get-outhash" -> query_outhash(db, req.o)
    [] OTHER -> query_equivalent(db, req.t)

Reads == {"get", "get-all", "get-outhash", "get-stream"}

\* handle_get, handle_get_outhash and the loop of handle_get_stream
Read(s) ==
  /\ handler[s].pc = "sent" /\ handler[s].req.kind \in Reads
  /\ LET known == Known(handler[s].req) IN
     IF known = None /\ upstream THEN Await(s) ELSE Reply(s, known)
  /\ UNCHANGED <<db, committed, up, upRuns, now, client, queue, worker, told, pinned, spent>>

\* get_unihash without `all' takes d apart before it looks whether there is one
GetResumes(s) ==
  /\ Busy(s, "resumed", "get")
  /\ \/ /\ handler[s].ans = None
        /\ Raise(s)
        /\ UNCHANGED <<db, committed, pinned>>
     \/ /\ handler[s].ans # None
        /\ Commit(insert_unihash(db, handler[s].req.t, handler[s].ans))
        /\ Pin(handler[s].req.t)
        /\ Reply(s, handler[s].ans)
        /\ UNCHANGED client
  /\ UNCHANGED <<up, upRuns, now, queue, worker, told, spent>>

\* get_unihash with `all', and get_outhash
UnifiedResumes(s) ==
  /\ Busy(s, "resumed", "get-all") \/ Busy(s, "resumed", "get-outhash")
  /\ Commit(update_unified(db, handler[s].ans))
  /\ IF handler[s].ans = None THEN UNCHANGED pinned ELSE Pin(handler[s].ans.row.t)
  /\ Reply(s, handler[s].ans)
  /\ UNCHANGED <<up, upRuns, now, client, queue, worker, told, spent>>

\* The answer goes out first, then the taskhash is queued for the backfill
StreamResumes(s) ==
  /\ Busy(s, "resumed", "get-stream")
  /\ Reply(s, handler[s].ans)
  /\ queue' = IF handler[s].ans = None THEN queue ELSE Append(queue, handler[s].req.t)
  /\ UNCHANGED <<db, committed, up, upRuns, now, client, worker, told, pinned, spent>>

\* handle_backfill_wait: join() returns once every item is done, task_done()
\* having been called for the one the worker took
handle_backfill_wait(s) ==
  /\ handler[s].pc \in {"sent", "await"} /\ handler[s].req.kind = "backfill-wait"
  /\ IF queue = <<>> /\ worker = WorkerIdle THEN Reply(s, None)
     ELSE handler[s].pc = "sent" /\ Await(s)
  /\ UNCHANGED <<db, committed, up, upRuns, now, client, queue, worker, told, pinned, spent>>
-----------------------------------------------------------------------------
(* The backfill worker: backfill_worker_task and copy_unihash_from_upstream *)

BackfillGet ==
  /\ worker = WorkerIdle /\ queue # <<>>
  /\ worker' = [pc |-> "copy", t |-> Head(queue)]
  /\ queue' = Tail(queue)
  /\ UNCHANGED <<db, committed, up, upRuns, now, handler, client, told, pinned, spent>>

\* The upstream server answers the worker
BackfillAnswer ==
  /\ worker.pc = "copy" /\ upRuns
  /\ worker' = [pc |-> "insert", t |-> worker.t, ans |-> query_equivalent(up, worker.t)]
  /\ UNCHANGED <<db, committed, up, upRuns, now, handler, client, queue, told, pinned, spent>>

BackfillInsert ==
  /\ worker.pc = "insert"
  /\ IF worker.ans = None THEN UNCHANGED <<db, committed, pinned>>
     ELSE Commit(insert_unihash(db, worker.t, worker.ans)) /\ Pin(worker.t)
  /\ worker' = WorkerIdle
  /\ UNCHANGED <<up, upRuns, now, handler, client, queue, told, spent>>

\* Four attempts without a pause failed: the exception ends the worker's task
BackfillDies ==
  /\ worker.pc = "copy" /\ ~upRuns
  /\ worker' = [pc |-> "dead"]
  /\ UNCHANGED <<db, committed, up, upRuns, now, handler, client, queue, told, pinned, spent>>
-----------------------------------------------------------------------------
(* The upstream server, a server like this one but without an upstream *)

\* What each handler asks it for
UpstreamKnows(req) ==
  CASE req.kind \in {"report", "get-outhash"} -> query_outhash(up, req.o)
    [] req.kind = "get-all" -> query_all(up, req.t)
    [] OTHER -> query_equivalent(up, req.t)

UpstreamAnswers(s) ==
  /\ handler[s].pc = "await" /\ handler[s].req.kind # "backfill-wait" /\ upRuns
  /\ handler' = [handler EXCEPT ![s] = [pc |-> "resumed", req |-> handler[s].req,
                                        ans |-> UpstreamKnows(handler[s].req)]]
  /\ UNCHANGED <<db, committed, up, upRuns, now, client, queue, worker, told, pinned, spent>>

\* Its client gives up after four attempts: the handler raises
UpstreamFails(s) ==
  /\ handler[s].pc = "await" /\ handler[s].req.kind # "backfill-wait" /\ ~upRuns
  /\ Raise(s)
  /\ UNCHANGED <<db, committed, up, upRuns, now, queue, worker, told, pinned, spent>>

\* Somebody reports to the upstream server
UpstreamReport(t, o, u) ==
  /\ upstream /\ upRuns /\ spent.reports < MaxUpReports
  /\ \E tab \in {insert_outhash(up, t, o, now)} :
       /\ now' = IF tab = up THEN now ELSE now + 1
       /\ LET row == query_other(tab, t, o)
          IN  up' = insert_unihash(tab, t, IF row = None THEN u ELSE row.u)
  /\ spent' = [spent EXCEPT !.reports = @ + 1]
  /\ UNCHANGED <<db, committed, upRuns, handler, client, queue, worker, told, pinned>>

\* The upstream server goes down; it has committed what it answered
UpstreamDown ==
  /\ upstream /\ upRuns /\ spent.outages < MaxOutages
  /\ upRuns' = FALSE
  /\ spent' = [spent EXCEPT !.outages = @ + 1]
  /\ UNCHANGED <<db, committed, up, now, handler, client, queue, worker, told, pinned>>

UpstreamUp ==
  /\ ~upRuns
  /\ upRuns' = TRUE
  /\ UNCHANGED <<db, committed, up, now, handler, client, queue, worker, told, pinned, spent>>
-----------------------------------------------------------------------------
(* The clients and the server's process *)

\* The next request of a client, or one whose connection was lost, is written
\* to a connection
FreeSlot == CHOOSE s \in Slots : handler[s] = Idle /\ ~Attached(s)

Send(c, req, count) ==
  /\ \E s \in Slots : handler[s] = Idle /\ ~Attached(s)
  /\ handler' = [handler EXCEPT ![FreeSlot] = [pc |-> "sent", req |-> req]]
  /\ client' = [client EXCEPT ![c] = [req |-> req, conn |-> FreeSlot, count |-> count]]
  /\ UNCHANGED <<db, committed, up, upRuns, now, queue, worker, told, pinned>>

NewRequest(c, req) ==
  /\ ~Waiting(c) /\ spent.requests[c] < MaxAsked
  /\ spent' = [spent EXCEPT !.requests[c] = @ + 1]
  /\ Send(c, req, 0)

Retry(c) ==
  /\ Waiting(c) /\ client[c].conn = None
  /\ Send(c, client[c].req, client[c].count)
  /\ UNCHANGED spent

Receive(c) ==
  /\ Waiting(c) /\ client[c].conn # None
  /\ LET h == handler[client[c].conn] IN
     /\ h.pc = "replied"
     /\ told' = CASE h.ans = None -> told
                  [] h.ans # None /\ h.req.kind \in {"get-all", "get-outhash"} ->
                        told \cup {<<h.ans.row.t, h.ans.u>>}
                  [] OTHER -> told \cup {<<h.req.t, h.ans>>}
  /\ handler' = [handler EXCEPT ![client[c].conn] = Idle]
  /\ client' = [client EXCEPT ![c] = NoRequest]
  /\ UNCHANGED <<db, committed, up, upRuns, now, queue, worker, pinned, spent>>

\* send_message waits 30 seconds for an answer (send_stream for ever); the
\* handler goes on, its answer is thrown away
ClientTimesOut(c) ==
  /\ Waiting(c) /\ client[c].conn # None /\ client[c].req.kind # "get-stream"
  /\ spent.timeouts < MaxTimeouts
  /\ spent' = [spent EXCEPT !.timeouts = @ + 1]
  /\ Lost({client[c].conn})
  /\ handler' = [handler EXCEPT ![client[c].conn] = IF @.pc = "replied" THEN Idle ELSE @]
  /\ UNCHANGED <<db, committed, up, upRuns, now, queue, worker, told, pinned>>

\* The server dies and is started again: what was not committed is rolled back,
\* connections and backfill queue are gone
Crash ==
  /\ spent.crashes < MaxCrashes
  /\ spent' = [spent EXCEPT !.crashes = @ + 1]
  /\ db' = committed
  /\ handler' = [s \in Slots |-> Idle]
  /\ Lost(Slots)
  /\ queue' = <<>>
  /\ worker' = WorkerIdle
  /\ UNCHANGED <<committed, up, upRuns, now, told, pinned>>
-----------------------------------------------------------------------------
Handler(s) ==
  \/ Report(s) \/ ReportResumes(s) \/ handle_equivreport(s)
  \/ Read(s) \/ GetResumes(s) \/ UnifiedResumes(s) \/ StreamResumes(s)
  \/ handle_backfill_wait(s)

Backfill == BackfillGet \/ BackfillAnswer \/ BackfillInsert \/ BackfillDies

\* Every request is answered, or waits for a backfill worker that has died
\* (until its client times out, if it still may)
HashDone ==
  /\ \A c \in Clients :
       \/ ~Waiting(c) /\ spent.requests[c] = MaxAsked
       \/ Waiting(c) /\ client[c].req.kind = "backfill-wait" /\ worker.pc = "dead"
  /\ \A s \in Slots : handler[s] = Idle \/ Busy(s, "await", "backfill-wait")
  /\ UNCHANGED hashVars

HashNext ==
  /\ \/ \E s \in Slots : Handler(s) \/ UpstreamAnswers(s) \/ UpstreamFails(s)
     \/ Backfill
     \/ \E t \in Taskhashes, o \in Outhashes, u \in Unihashes : UpstreamReport(t, o, u)
     \/ UpstreamDown \/ UpstreamUp
     \/ \E c \in Clients : \/ \E req \in Requests : NewRequest(c, req)
                           \/ Retry(c) \/ Receive(c) \/ ClientTimesOut(c)
     \/ Crash
     \/ HashDone
  /\ UNCHANGED upstream

HashSpec == HashInit /\ [][HashNext]_hashVars

-----------------------------------------------------------------------------
(* Properties *)

Stable(t) == db.uni[t] # None => db'.uni[t] = db.uni[t]

\* backfill-wait answers on connection s.
Waited(s) == /\ handler[s].pc \in {"sent", "await"} /\ handler[s].req.kind = "backfill-wait"
             /\ handler'[s].pc = "replied"

\* The unihash of a taskhash never changes once the server has one: builds have
\* named their outputs after it.  Neither a later report, nor what the upstream
\* server says, nor a crash of the server changes or loses it.  And when
\* backfill-wait answers, every taskhash a client was told a unihash for is in
\* the server's own table ("After waiting for the downstream client to finish
\* backfilling the task [...] it should appear in the side server"), unless the
\* server crashed, which forgets its queue.
UnihashesKept ==
  [][/\ \A t \in Taskhashes : Stable(t)
     /\ \A s \in Slots : Waited(s) /\ spent.crashes = 0
                           => \A a \in told : db.uni[a[1]] # None]_hashVars

\* The output a taskhash was first reported with
FirstOut(t) ==
  LET rows == {r \in db.out : r.t = t}
  IN  (CHOOSE r \in rows : \A x \in rows : r.created <= x.created).o

Reported == {t \in Taskhashes : db.uni[t] # None /\ \E r \in db.out : r.t = t}

\* Of a server without an upstream: tasks with the same output have the same
\* unihash, which is what the server is for: "a second reported task with the
\* same outhash will be assigned the same unihash" (test_create_equivalent).
\* It holds of the output each was reported with first, unless the unihash was
\* set in another way before.
EquivalentOutputs ==
  ~upstream => \A t1, t2 \in Reported \ pinned :
                 FirstOut(t1) = FirstOut(t2) => db.uni[t1] = db.uni[t2]

\* Whatever clients ask for and whenever, through crashes and repeated requests,
\* a server without an upstream tells them one unihash for a taskhash:
\* "duplicate reports of the same taskhash with different outhash & unihash
\* always return the unihash from the first reported taskhash"
\* (test_duplicate_taskhash).
AnswersAgree == ~upstream => \A a, b \in told : a[1] = b[1] => a[2] = b[2]

\* A server without an upstream assigns equivalent tasks one unihash, and says
\* so to everybody (EquivalentOutputs and AnswersAgree).
OneUnihash == EquivalentOutputs /\ AnswersAgree
=============================================================================
