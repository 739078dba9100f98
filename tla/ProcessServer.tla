--------------------------- MODULE ProcessServer ---------------------------
(***************************************************************************)
(* How user interfaces find, start and share the BitBake server of a build *)
(* directory: setup_bitbake and lockBitbake (lib/bb/main.py), starting a   *)
(* server and connecting to it, its main loop as far as clients are        *)
(* concerned, and its exit (lib/bb/server/process.py).                     *)
(*                                                                         *)
(* The processes meet in three things of the file system: bitbake.lock,    *)
(* which is held by the server (or by the user interface that is about to  *)
(* start one), the process id written into it, and bitbake.sock.           *)
(***************************************************************************)
EXTENDS Naturals, Sequences, FiniteSets

CONSTANTS
  UIs,
  Killers,      \* the user interfaces started with --kill-server
  NumServers,   \* server processes at a time: 1..NumServers
  Timeout,      \* BB_SERVER_TIMEOUT: "none", "finite" or "never" (-1)
  MaxRetries,   \* attempts of setup_bitbake, 8 in the code
  MaxCrashes,   \* servers that are killed or fail to start
  MaxTimeouts   \* answers a user interface gives up waiting for

ASSUME ServerAssumption ==
  /\ NumServers \in Nat /\ MaxRetries \in Nat \ {0}
  /\ MaxCrashes \in Nat /\ MaxTimeouts \in Nat
  /\ Killers \subseteq UIs

VARIABLES
  lock,       \* who holds bitbake.lock: a user interface, a server, what is left
              \* of one, or Nobody
  contents,   \* the server whose process id is in it, 0 if none or no file
  sock,       \* the server bitbake.sock was bound by, 0 if there is no file
  srv,        \* the servers
  ui,         \* the user interfaces
  crashes, timeouts

vars == <<lock, contents, sock, srv, ui, crashes, timeouts>>

Servers == 1..NumServers
Nobody == <<"nobody", 0>>
ByUI(u) == <<"ui", u>>
ByServer(s) == <<"server", s>>
\* Processes a server forked inherit the open lock and may keep it after the server
ByOrphans == <<"orphans", 0>>

\* A connection is named after the user interface and the attempt it was made in
NoConn == <<>>

\* pc of a server: "starting", forked with the lock; "bound", the
\* socket listens and the cooker is created; "main", the main loop;
\* "quit", it is left; "closing", socket removed, cooker shut down; "released", the lock closed;
\* "relocked", locked again to remove the file; "exited", or not started yet.
\* backlog: connections not accepted; ctrl: controllersock; have: haveui;
\* new: newconnections.
Fresh == [pc |-> "exited", backlog |-> <<>>, ctrl |-> NoConn, have |-> FALSE,
          hadany |-> FALSE, new |-> <<>>, ready |-> FALSE]

\* pc of a user interface: "start"; "check", the lock was taken; "wait", for the
\* lock as there is no socket; "waitlock", it got it; "starting" a server;
\* "connect"; "handshake", the first command is sent; "session"; "terminated", with
\* terminateServer sent; "done"; "fatal".
Beginner == [pc |-> "start", retries |-> MaxRetries, server |-> 0]

Conn(u) == <<u, ui[u].retries>>
Open(c) == ui[c[1]].retries = c[2] /\ ui[c[1]].pc \in {"handshake", "session", "terminated"}

Elements(seq) == {seq[i] : i \in DOMAIN seq}
Connections(s) == Elements(srv[s].backlog) \cup Elements(srv[s].new) \cup {srv[s].ctrl}

\* The other end of the user interface's connection is closed
Cut(u) == srv[ui[u].server].pc = "exited" \/ Conn(u) \notin Connections(ui[u].server)

Running(s) == srv[s].pc \in {"starting", "bound", "main", "quit", "closing", "released", "relocked"}
Listening(s) == srv[s].pc \in {"bound", "main", "quit"}

\* "Delaying shutdown due to active processes which appear to be holding
\* bitbake.lock"
Delayed(s) == srv[s].pc = "released" /\ lock = ByOrphans

Ended(u) == ui[u].pc \in {"done", "fatal"}

TypeOK ==
  /\ lock \in {Nobody, ByOrphans} \cup {ByUI(u) : u \in UIs} \cup {ByServer(s) : s \in Servers}
  /\ contents \in 0..NumServers /\ sock \in 0..NumServers
  /\ \A s \in Servers : srv[s].have => srv[s].ctrl # NoConn
  /\ \A s \in Servers : srv[s].ctrl = NoConn => srv[s].new = <<>>
  /\ \A u \in UIs : ui[u].retries \in 0..MaxRetries /\ (ui[u].pc = "fatal" <=> ui[u].retries = 0)
  /\ \A u \in UIs : ui[u].pc = "waitlock" <=> lock = ByUI(u)

Init ==
  /\ lock = Nobody /\ contents = 0 /\ sock = 0
  /\ srv = [s \in Servers |-> Fresh]
  /\ ui = [u \in UIs |-> Beginner]
  /\ crashes = 0 /\ timeouts = 0
-----------------------------------------------------------------------------
(* User interfaces: setup_bitbake *)

Goto(u, pc) == ui' = [ui EXCEPT ![u].pc = pc]

Finish(u) == ui' = [ui EXCEPT ![u].pc = "done", ![u].server = 0]

\* The exception handler: one attempt less, and the connection is closed
Retry(u) ==
  ui' = [ui EXCEPT ![u] = [pc |-> IF @.retries = 1 THEN "fatal" ELSE "start",
                           retries |-> @.retries - 1, server |-> 0]]

\* A number for the next server: of one that has exited and nobody speaks of
Unused(s) ==
  srv[s].pc = "exited" /\ \A u \in UIs : ui[u].pc = "starting" \/ u \in Killers => ui[u].server # s

\* lockBitbake succeeds: BitBakeServer() forks a server that inherits the lock,
\* unless there is only a server to be killed
StartServer(u) ==
  /\ ui[u].pc = "start" /\ lock = Nobody
  /\ \/ /\ u \in Killers
        /\ Finish(u)
        /\ UNCHANGED <<lock, srv>>
     \/ /\ u \notin Killers
        /\ \E s \in Servers :
             /\ Unused(s) /\ \A r \in 1..s-1 : ~Unused(r)
             /\ srv' = [srv EXCEPT ![s] = [Fresh EXCEPT !.pc = "starting"]]
             /\ lock' = ByServer(s)
             /\ ui' = [ui EXCEPT ![u].pc = "starting", ![u].server = s]
  /\ UNCHANGED <<contents, sock, crashes, timeouts>>

LockTaken(u) ==
  /\ ui[u].pc = "start" /\ lock # Nobody
  /\ Goto(u, "check")
  /\ UNCHANGED <<lock, contents, sock, srv, crashes, timeouts>>

CheckSocket(u) ==
  /\ ui[u].pc = "check"
  /\ Goto(u, IF sock = 0 THEN "wait" ELSE "connect")
  /\ UNCHANGED <<lock, contents, sock, srv, crashes, timeouts>>

\* "Wait for 5s or until we can get the lock", and try again in both cases; 5s
\* are enough for the other server to start or to exit, or else a time-out is
\* spent, but what is left of a server may keep the lock longer
WaitEnds(u) ==
  /\ ui[u].pc = "wait"
  /\ \/ lock = Nobody /\ lock' = ByUI(u) /\ Goto(u, "waitlock") /\ UNCHANGED timeouts
     \/ /\ (lock # Nobody /\ sock # 0) \/ lock = ByOrphans
        /\ Retry(u)
        /\ UNCHANGED <<lock, timeouts>>
     \/ /\ lock \notin {Nobody, ByOrphans} /\ sock = 0 /\ timeouts < MaxTimeouts
        /\ timeouts' = timeouts + 1
        /\ Retry(u)
        /\ UNCHANGED lock
  /\ UNCHANGED <<contents, sock, srv, crashes>>

\* unlockfile() removes the file with its contents
WaitUnlocks(u) ==
  /\ ui[u].pc = "waitlock"
  /\ lock' = Nobody /\ contents' = 0
  /\ Retry(u)
  /\ UNCHANGED <<sock, srv, crashes, timeouts>>

\* The ready pipe of BitBakeServer: "r", or end of file when the server exits
ServerReady(u) ==
  /\ ui[u].pc = "starting"
  /\ \/ srv[ui[u].server].ready /\ Goto(u, "connect")
     \/ ~srv[ui[u].server].ready /\ srv[ui[u].server].pc = "exited" /\ Retry(u)
  /\ UNCHANGED <<lock, contents, sock, srv, crashes, timeouts>>

\* connectProcessServer: connect and send the file descriptors and a command
Connect(u) ==
  /\ ui[u].pc = "connect"
  /\ IF sock # 0 /\ Listening(sock)
     THEN /\ srv' = [srv EXCEPT ![sock].backlog = Append(@, Conn(u))]
          /\ ui' = [ui EXCEPT ![u].pc = "handshake", ![u].server = sock]
     ELSE Retry(u) /\ UNCHANGED srv
  /\ UNCHANGED <<lock, contents, sock, crashes, timeouts>>

\* The answer to the first command does not come but the end of the file, or
\* nothing for 60 seconds as the server waits for what keeps its lock
HandshakeFails(u) ==
  /\ ui[u].pc = "handshake" /\ (Cut(u) \/ Delayed(ui[u].server))
  /\ Retry(u)
  /\ UNCHANGED <<lock, contents, sock, srv, crashes, timeouts>>

\* Nothing happens for 60 seconds, or 95 when the server is started
GiveUp(u) ==
  /\ ui[u].pc \in {"handshake", "starting"} /\ timeouts < MaxTimeouts
  /\ timeouts' = timeouts + 1
  /\ Retry(u)
  /\ UNCHANGED <<lock, contents, sock, srv, crashes>>

\* The build is over, or the server gone: the connection is closed
EndSession(u) ==
  /\ ui[u].pc = "session" /\ u \notin Killers
  /\ Finish(u)
  /\ UNCHANGED <<lock, contents, sock, srv, crashes, timeouts>>

\* --kill-server: terminateServer is sent, and then the connection closed
TerminateServer(u) ==
  /\ u \in Killers
  /\ \/ ui[u].pc = "session" /\ Goto(u, "terminated")
     \/ ui[u].pc = "terminated" /\ Goto(u, "done")
  /\ UNCHANGED <<lock, contents, sock, srv, crashes, timeouts>>
-----------------------------------------------------------------------------
(* Servers *)

\* Mutant: a socket file that exists is left alone
Bind_KeepsOld(s) ==
  /\ srv[s].pc = "starting"
  /\ sock' = IF sock = 0 THEN s ELSE sock
  /\ srv' = [srv EXCEPT ![s].pc = "bound"]
  /\ UNCHANGED <<lock, contents, ui, crashes, timeouts>>

\* execServer: an old socket file is removed, the new one bound
Bind(s) ==
  /\ srv[s].pc = "starting"
  /\ sock' = s
  /\ srv' = [srv EXCEPT ![s].pc = "bound"]
  /\ UNCHANGED <<lock, contents, ui, crashes, timeouts>>

\* The cooker is there: "r" is sent, run() writes the process id
Run(s) ==
  /\ srv[s].pc = "bound"
  /\ srv' = [srv EXCEPT ![s].pc = "main", ![s].ready = TRUE]
  /\ contents' = s
  /\ UNCHANGED <<lock, sock, ui, crashes, timeouts>>

\* All pending connections: the first one, if there is no other controller
Accepted(r) ==
  IF r.ctrl = NoConn
  THEN [r EXCEPT !.ctrl = Head(r.backlog), !.new = @ \o Tail(r.backlog), !.backlog = <<>>]
  ELSE [r EXCEPT !.new = @ \o r.backlog, !.backlog = <<>>]

Accept(s) ==
  /\ srv[s].pc = "main" /\ srv[s].backlog # <<>>
  /\ srv' = [srv EXCEPT ![s] = Accepted(srv[s])]
  /\ UNCHANGED <<lock, contents, sock, ui, crashes, timeouts>>

\* recvfds: the descriptors came with the connection, even if it was closed since
Processing(s) ==
  /\ srv[s].pc = "main" /\ srv[s].ctrl # NoConn /\ ~srv[s].have
  /\ srv' = [srv EXCEPT ![s].have = TRUE, ![s].hadany = TRUE]
  /\ UNCHANGED <<lock, contents, sock, ui, crashes, timeouts>>

\* Nothing is accepted any more, but others may still connect
Quit(s, state) == srv' = [srv EXCEPT ![s] = [state EXCEPT !.pc = "quit"]]

\* The first command is answered, or terminateServer leaves the loop
RunCommand(s) ==
  /\ srv[s].pc = "main" /\ srv[s].have /\ Open(srv[s].ctrl)
  /\ LET u == srv[s].ctrl[1] IN
     \/ ui[u].pc = "handshake" /\ Goto(u, "session") /\ UNCHANGED srv
     \/ ui[u].pc = "terminated" /\ Quit(s, srv[s]) /\ UNCHANGED ui
  /\ UNCHANGED <<lock, contents, sock, crashes, timeouts>>

\* Mutant: without a waiting connection the closed one stays the controller
DisconnectClient_KeepsClosed(s) ==
  /\ srv[s].pc = "main" /\ srv[s].have /\ ~Open(srv[s].ctrl)
  /\ LET n == Len(srv[s].new)
     IN  IF n > 0
         THEN srv' = [srv EXCEPT ![s].ctrl = srv[s].new[n], ![s].have = FALSE,
                                 ![s].new = SubSeq(@, 1, n - 1)]
         ELSE UNCHANGED srv
  /\ UNCHANGED <<lock, contents, sock, ui, crashes, timeouts>>

\* disconnect_client, as the connection is seen closed before any command that
\* may be left in the pipe: the newest of the waiting connections is next; without one
\* a server that is not to stay exits, unless somebody is connecting
DisconnectClient(s) ==
  /\ srv[s].pc = "main" /\ srv[s].have /\ ~Open(srv[s].ctrl)
  /\ LET left == [srv[s] EXCEPT !.ctrl = NoConn, !.have = FALSE]
         n == Len(left.new)
     IN  IF n > 0
         THEN srv' = [srv EXCEPT ![s] = [left EXCEPT !.ctrl = left.new[n],
                                                     !.new = SubSeq(@, 1, n - 1)]]
         ELSE IF Timeout = "none" /\ left.backlog = <<>> THEN Quit(s, left)
         ELSE srv' = [srv EXCEPT ![s] = left]
  /\ UNCHANGED <<lock, contents, sock, ui, crashes, timeouts>>

\* The server is to stay for some time after the last client, and that is over
IdleTimeout(s) ==
  /\ srv[s].pc = "main" /\ Timeout = "finite" /\ ~srv[s].have
  /\ Quit(s, srv[s])
  /\ UNCHANGED <<lock, contents, sock, ui, crashes, timeouts>>

\* No user interface came within maxuiwait, 30s: there is none any more, or a
\* time-out is spent
NoUITimeout(s) ==
  /\ srv[s].pc = "main" /\ Timeout = "none" /\ ~srv[s].hadany
  /\ \/ (\A u \in UIs : Ended(u)) /\ UNCHANGED timeouts
     \/ timeouts < MaxTimeouts /\ timeouts' = timeouts + 1
  /\ Quit(s, srv[s])
  /\ UNCHANGED <<lock, contents, sock, ui, crashes>>

\* Mutant: the lock is closed before the socket file is removed
Exiting_Unlocks(s) ==
  /\ srv[s].pc = "quit"
  /\ srv' = [srv EXCEPT ![s].pc = "closing"]
  /\ lock' = Nobody
  /\ UNCHANGED <<contents, sock, ui, crashes, timeouts>>

\* The loop is left: the socket file is removed, whoever bound it, and what was
\* not accepted is cut off
Exiting(s) ==
  /\ srv[s].pc = "quit"
  /\ srv' = [srv EXCEPT ![s].pc = "closing", ![s].backlog = <<>>]
  /\ sock' = 0
  /\ UNCHANGED <<lock, contents, ui, crashes, timeouts>>

\* The server's descriptor of the lock is closed, the last one if no process it
\* forked is left
Unlocked(s) == IF lock = ByServer(s) THEN {Nobody, ByOrphans} ELSE {lock}

\* The cooker is shut down and the lock closed
ReleaseLock(s) ==
  /\ srv[s].pc = "closing"
  /\ lock' \in Unlocked(s)
  /\ srv' = [srv EXCEPT ![s].pc = "released"]
  /\ UNCHANGED <<contents, sock, ui, crashes, timeouts>>

\* The process ends; its ready pipe may still hold the "r"
Exit(s) == srv' = [srv EXCEPT ![s] = [Fresh EXCEPT !.ready = srv[s].ready]]

\* The lock is tried again and again, to remove the file
Relock(s) ==
  /\ srv[s].pc = "released"
  /\ \/ /\ lock = Nobody
        /\ lock' = ByServer(s)
        /\ srv' = [srv EXCEPT ![s].pc = "relocked"]
     \/ /\ lock # Nobody /\ contents # s
        /\ Exit(s)
        /\ UNCHANGED lock
  /\ UNCHANGED <<contents, sock, ui, crashes, timeouts>>

RemoveLockfile(s) ==
  /\ srv[s].pc = "relocked"
  /\ lock' = Nobody /\ contents' = 0
  /\ Exit(s)
  /\ UNCHANGED <<sock, ui, crashes, timeouts>>

\* The server is killed, or the cooker cannot be created: the kernel closes the
\* lock, the files stay
Crash(s) ==
  /\ srv[s].pc \in {"starting", "bound", "main", "quit", "closing"} /\ crashes < MaxCrashes
  /\ crashes' = crashes + 1
  /\ Exit(s)
  /\ lock' \in Unlocked(s)
  /\ UNCHANGED <<contents, sock, ui, timeouts>>

\* The last of the processes that a server left behind ends
OrphansEnd ==
  /\ lock = ByOrphans /\ lock' = Nobody
  /\ UNCHANGED <<contents, sock, srv, ui, crashes, timeouts>>
-----------------------------------------------------------------------------
UI(u) ==
  \/ StartServer(u) \/ LockTaken(u) \/ CheckSocket(u) \/ WaitEnds(u) \/ WaitUnlocks(u)
  \/ ServerReady(u) \/ Connect(u) \/ HandshakeFails(u) \/ EndSession(u)
  \/ TerminateServer(u)

\* What a server does of its own accord, apart from its time-outs
Server(s) ==
  \/ Bind(s) \/ Run(s) \/ Accept(s) \/ Processing(s) \/ RunCommand(s)
  \/ DisconnectClient(s) \/ Exiting(s) \/ ReleaseLock(s) \/ Relock(s) \/ RemoveLockfile(s)

Done ==
  /\ \A u \in UIs : Ended(u)
  /\ \A s \in Servers : srv[s].pc = "exited" \/ Timeout = "never"
  /\ UNCHANGED vars

Next ==
  \/ \E u \in UIs : UI(u) \/ GiveUp(u)
  \/ \E s \in Servers : Server(s) \/ IdleTimeout(s) \/ NoUITimeout(s) \/ Crash(s)
  \/ OrphansEnd
  \/ Done

Spec == Init /\ [][Next]_vars

\* Every process of the model runs, and clocks go on; what a server left behind
\* may stay for ever
FairSpec ==
  /\ Spec
  /\ \A u \in UIs : WF_vars(UI(u))
  /\ \A s \in Servers : WF_vars(Server(s)) /\ WF_vars(IdleTimeout(s) \/ NoUITimeout(s))
-----------------------------------------------------------------------------
\* There is one server for a build directory: no two processes are between the
\* start of a server and the end of its cooker.
OneServer ==
  Cardinality({s \in Servers : srv[s].pc \in {"starting", "bound", "main", "quit", "closing"}}) <= 1

\* A server that can take clients can be found: bitbake.sock is its own, neither
\* a left-over nor removed by a server that exits.
ServerReachable == \A s \in Servers : Listening(s) => sock = s

=============================================================================
