------------------------- MODULE ProcessServer_proof -------------------------
(***************************************************************************)
(* There is one BitBake server for a build directory, and the socket file  *)
(* leads to it, for any number of user interfaces, killers, servers,       *)
(* crashes and time-outs.                                                  *)
(***************************************************************************)
EXTENDS ProcessServer, FiniteSetTheorems, TLAPS

Conns == UIs \X (0..MaxRetries)

SrvPCs == {"starting", "bound", "main", "quit", "closing", "released", "relocked", "exited"}
UiPCs == {"start", "check", "wait", "waitlock", "starting", "connect", "handshake",
          "session", "terminated", "done", "fatal"}

SrvRecord ==
  [pc : SrvPCs, backlog : Seq(Conns), ctrl : Conns \cup {NoConn}, have : BOOLEAN,
   hadany : BOOLEAN, new : Seq(Conns), ready : BOOLEAN]
UiRecord == [pc : UiPCs, retries : 0..MaxRetries, server : 0..NumServers]

Types ==
  /\ lock \in {Nobody, ByOrphans} \cup {ByUI(u) : u \in UIs} \cup {ByServer(s) : s \in Servers}
  /\ contents \in 0..NumServers /\ sock \in 0..NumServers
  /\ srv \in [Servers -> SrvRecord]
  /\ ui \in [UIs -> UiRecord]

(* A controller comes before those that wait for it to go. *)
Controlled ==
  \A s \in Servers :
    /\ srv[s].have => srv[s].ctrl # NoConn
    /\ srv[s].ctrl = NoConn => srv[s].new = <<>>

(* The attempts that are left. *)
Attempts == \A u \in UIs : ui[u].pc = "fatal" <=> ui[u].retries = 0

(* Who has bitbake.lock: a server from its start until its cooker is shut
   down and again while it removes the file, or the user interface that has
   waited for it. *)
LockHeld ==
  /\ \A s \in Servers :
       srv[s].pc \in {"starting", "bound", "main", "quit", "closing", "relocked"}
         => lock = ByServer(s)
  /\ \A u \in UIs : ui[u].pc = "waitlock" <=> lock = ByUI(u)

(***************************************************************************)
(* The inductive invariant.  Neither OneServer nor ServerReachable is      *)
(* inductive: that a server which is started, or which removes the socket  *)
(* on its way out, meets no other one needs the lock, which passes from    *)
(* the user interface to the server it forks and is kept until the socket  *)
(* file is gone.                                                           *)
(***************************************************************************)
IInv == Types /\ Controlled /\ Attempts /\ LockHeld /\ ServerReachable

(* A lock holder is known by its kind and its name. *)
LEMMA Holders ==
  /\ ByOrphans # Nobody
  /\ \A s \in Servers : ByServer(s) # Nobody /\ ByServer(s) # ByOrphans
  /\ \A u \in UIs : ByUI(u) # Nobody /\ ByUI(u) # ByOrphans
  /\ \A s \in Servers, u \in UIs : ByServer(s) # ByUI(u)
  /\ \A s, r \in Servers : ByServer(s) = ByServer(r) => s = r
  /\ \A u, v \in UIs : ByUI(u) = ByUI(v) => u = v
BY DEF ByServer, ByUI, Nobody, ByOrphans

(* A connection differs from the value that stands for none. *)
LEMMA ConnIsOne == \A c \in Conns : c # NoConn
<1> SUFFICES ASSUME NEW c \in Conns PROVE Len(c) = 2
  BY DEF NoConn
<1>1. PICK u \in UIs, n \in 0..MaxRetries : c = <<u, n>>
  BY DEF Conns
<1> QED
  BY <1>1

(* The records a server begins with are records of servers. *)
LEMMA FreshType ==
  /\ Fresh \in SrvRecord
  /\ \A b \in BOOLEAN : [Fresh EXCEPT !.ready = b] \in SrvRecord
  /\ [Fresh EXCEPT !.pc = "starting"] \in SrvRecord
<1>1. <<>> \in Seq(Conns)
  OBVIOUS
<1>2. Fresh \in SrvRecord
  BY <1>1 DEF Fresh, SrvRecord, SrvPCs
<1>3. \A b \in BOOLEAN : [Fresh EXCEPT !.ready = b] \in SrvRecord
  BY <1>2 DEF SrvRecord
<1>4. [Fresh EXCEPT !.pc = "starting"] \in SrvRecord
  BY <1>2 DEF SrvRecord, SrvPCs
<1> QED
  BY <1>2, <1>3, <1>4

(* Before anybody starts the inductive invariant holds. *)
LEMMA InitIInv == Init => IInv
<1> SUFFICES ASSUME Init PROVE IInv
  OBVIOUS
<1>1. Beginner \in UiRecord /\ Beginner.pc = "start" /\ Beginner.retries = MaxRetries
  BY ServerAssumption DEF Beginner, UiRecord, UiPCs
<1>2. Types
  BY <1>1, FreshType, ServerAssumption DEF Init, Types
<1>3. \A s \in Servers : srv[s] = Fresh
  BY DEF Init
<1>4. \A u \in UIs : ui[u] = Beginner
  BY DEF Init
<1>5. Controlled
  BY <1>3 DEF Controlled, Fresh
<1>6. Attempts
  BY <1>1, <1>4, ServerAssumption DEF Attempts
<1>7. LockHeld
  BY <1>1, <1>3, <1>4, Holders DEF LockHeld, Fresh, Init
<1>8. ServerReachable
  BY <1>3 DEF ServerReachable, Listening, Fresh
<1> QED
  BY <1>2, <1>5, <1>6, <1>7, <1>8 DEF IInv

-----------------------------------------------------------------------------
(* Steps of a user interface that are steps of several actions. *)

(* A change of the control point alone, to one that does not hold the lock. *)
LEMMA GotoKeeps ==
  ASSUME IInv, NEW u \in UIs, ui[u].pc # "waitlock", ui[u].pc # "fatal",
         NEW new \in UiPCs \ {"waitlock", "fatal"}, Goto(u, new),
         UNCHANGED <<lock, contents, sock, srv>>
  PROVE  IInv'
<1>1. ui' \in [UIs -> UiRecord] /\ ui'[u].pc = new /\ ui'[u].retries = ui[u].retries
      /\ \A v \in UIs : v # u => ui'[v] = ui[v]
  BY DEF IInv, Types, Goto, UiRecord
<1>2. Types' /\ Controlled' /\ ServerReachable'
  BY <1>1 DEF IInv, Types, Controlled, ServerReachable, Listening
<1>3. Attempts'
  BY <1>1 DEF IInv, Attempts
<1>4. LockHeld'
  BY <1>1 DEF IInv, LockHeld
<1> QED
  BY <1>2, <1>3, <1>4 DEF IInv

(* The attempt is over; its number and its server are forgotten. *)
LEMMA RetryUI ==
  ASSUME IInv, NEW u \in UIs, ui[u].pc # "fatal", Retry(u)
  PROVE  /\ ui' \in [UIs -> UiRecord]
         /\ Attempts'
         /\ ui'[u].pc # "waitlock"
         /\ \A v \in UIs : v # u => ui'[v] = ui[v]
<1>1. ui[u] \in UiRecord /\ ui[u].retries \in 1..MaxRetries
  BY ServerAssumption DEF IInv, Types, UiRecord, Attempts
<1>2. ui'[u] = [pc |-> IF ui[u].retries = 1 THEN "fatal" ELSE "start",
                retries |-> ui[u].retries - 1, server |-> 0]
      /\ ui' = [ui EXCEPT ![u] = ui'[u]]
  BY DEF IInv, Types, Retry
<1>3. ui'[u] \in UiRecord
  BY <1>1, <1>2, ServerAssumption DEF UiRecord, UiPCs
<1>4. ui' \in [UIs -> UiRecord] /\ \A v \in UIs : v # u => ui'[v] = ui[v]
  BY <1>2, <1>3 DEF IInv, Types
<1>5. Attempts'
  BY <1>1, <1>2, <1>4, ServerAssumption DEF IInv, Attempts
<1> QED
  BY <1>2, <1>4, <1>5

(* The exception handler of setup_bitbake preserves the invariant. *)
LEMMA RetryKeeps ==
  ASSUME IInv, NEW u \in UIs, ui[u].pc \notin {"waitlock", "fatal"}, Retry(u),
         UNCHANGED <<lock, contents, sock, srv>>
  PROVE  IInv'
<1>1. Types' /\ Controlled' /\ ServerReachable' /\ Attempts'
  BY RetryUI DEF IInv, Types, Controlled, ServerReachable, Listening
<1>2. LockHeld'
  BY RetryUI DEF IInv, LockHeld
<1> QED
  BY <1>1, <1>2 DEF IInv

(* A user interface moves on and turns to another server. *)
LEMMA MoveUI ==
  ASSUME ui \in [UIs -> UiRecord], NEW u \in UIs, NEW new \in UiPCs,
         NEW s \in 0..NumServers,
         ui' = [ui EXCEPT ![u].pc = new, ![u].server = s]
  PROVE  /\ ui' \in [UIs -> UiRecord] /\ ui'[u].pc = new
         /\ ui'[u].retries = ui[u].retries
         /\ \A v \in UIs : v # u => ui'[v] = ui[v]
<1>1. ui[u] \in UiRecord
  OBVIOUS
<1>2. ui'[u] = [ui[u] EXCEPT !.pc = new, !.server = s]
  OBVIOUS
<1>3. ui'[u] \in UiRecord /\ ui'[u].pc = new /\ ui'[u].retries = ui[u].retries
  BY <1>1, <1>2 DEF UiRecord
<1>4. \A v \in UIs : v # u => ui'[v] = ui[v]
  OBVIOUS
<1>5. ui' \in [UIs -> UiRecord]
  BY <1>3, <1>4
<1> QED
  BY <1>3, <1>4, <1>5

(* The end of a user interface preserves the invariant. *)
LEMMA FinishKeeps ==
  ASSUME IInv, NEW u \in UIs, ui[u].pc \notin {"waitlock", "fatal"}, Finish(u),
         UNCHANGED <<lock, contents, sock, srv>>
  PROVE  IInv'
<1>1. ui' \in [UIs -> UiRecord] /\ ui'[u].pc = "done" /\ ui'[u].retries = ui[u].retries
      /\ \A v \in UIs : v # u => ui'[v] = ui[v]
  <2>1. "done" \in UiPCs /\ 0 \in 0..NumServers /\ ui \in [UIs -> UiRecord]
    BY ServerAssumption DEF IInv, Types, UiPCs
  <2> QED
    BY <2>1, MoveUI DEF Finish
<1>2. Types' /\ Controlled' /\ ServerReachable'
  BY <1>1 DEF IInv, Types, Controlled, ServerReachable, Listening
<1>3. Attempts'
  BY <1>1 DEF IInv, Attempts
<1>4. LockHeld'
  BY <1>1 DEF IInv, LockHeld
<1> QED
  BY <1>2, <1>3, <1>4 DEF IInv

-----------------------------------------------------------------------------
(* Every step of a user interface preserves the invariant. *)
LEMMA UIKeeps ==
  ASSUME IInv, NEW u \in UIs, UI(u) \/ GiveUp(u)
  PROVE  IInv'
<1> USE ServerAssumption
<1>1. CASE StartServer(u)
  <2>1. CASE u \in Killers
    BY <1>1, <2>1, FinishKeeps DEF StartServer
  <2>2. CASE u \notin Killers
    <3>1. PICK s \in Servers :
            /\ Unused(s)
            /\ srv' = [srv EXCEPT ![s] = [Fresh EXCEPT !.pc = "starting"]]
            /\ lock' = ByServer(s)
            /\ ui' = [ui EXCEPT ![u].pc = "starting", ![u].server = s]
      BY <1>1, <2>2 DEF StartServer
    <3>2. /\ lock = Nobody /\ ui[u].pc = "start" /\ contents' = contents /\ sock' = sock
      BY <1>1 DEF StartServer
    <3>3. /\ ui' \in [UIs -> UiRecord] /\ ui'[u].pc = "starting"
          /\ ui'[u].retries = ui[u].retries
          /\ \A v \in UIs : v # u => ui'[v] = ui[v]
      <4>1. "starting" \in UiPCs /\ s \in 0..NumServers /\ ui \in [UIs -> UiRecord]
        BY DEF IInv, Types, UiPCs, Servers
      <4> QED
        BY <3>1, <4>1, MoveUI
    <3>4. /\ srv' \in [Servers -> SrvRecord]
          /\ srv'[s] = [Fresh EXCEPT !.pc = "starting"]
          /\ \A r \in Servers : r # s => srv'[r] = srv[r]
      BY <3>1, FreshType DEF IInv, Types
    <3>5. Types'
      BY <3>1, <3>2, <3>3, <3>4 DEF IInv, Types
    <3>6. Controlled'
      BY <3>4 DEF IInv, Controlled, Fresh
    <3>7. Attempts'
      BY <3>2, <3>3 DEF IInv, Attempts
    <3>8. \A r \in Servers : srv[r].pc \notin
            {"starting", "bound", "main", "quit", "closing", "relocked"}
      BY <3>2, Holders DEF IInv, LockHeld
    <3>9. LockHeld'
      BY <3>1, <3>2, <3>3, <3>4, <3>8, Holders DEF IInv, LockHeld
    <3>10. ServerReachable'
      BY <3>4, <3>8 DEF ServerReachable, Listening, Fresh
    <3> QED
      BY <3>5, <3>6, <3>7, <3>9, <3>10 DEF IInv
  <2> QED
    BY <2>1, <2>2
<1>2. CASE LockTaken(u)
  BY <1>2, GotoKeeps DEF LockTaken, UiPCs
<1>3. CASE CheckSocket(u)
  BY <1>3, GotoKeeps DEF CheckSocket, UiPCs
<1>4. CASE WaitEnds(u)
  <2>1. CASE lock = Nobody /\ lock' = ByUI(u) /\ Goto(u, "waitlock")
    <3>1. /\ ui' \in [UIs -> UiRecord] /\ ui'[u].pc = "waitlock" /\ ui[u].pc = "wait"
          /\ ui'[u].retries = ui[u].retries
          /\ \A v \in UIs : v # u => ui'[v] = ui[v]
      BY <1>4, <2>1 DEF WaitEnds, IInv, Types, Goto, UiRecord, UiPCs
    <3>2. UNCHANGED <<contents, sock, srv>>
      BY <1>4 DEF WaitEnds
    <3>3. Types' /\ Controlled' /\ ServerReachable'
      BY <2>1, <3>1, <3>2 DEF IInv, Types, Controlled, ServerReachable, Listening
    <3>4. Attempts'
      BY <3>1 DEF IInv, Attempts
    <3>5. LockHeld'
      BY <2>1, <3>1, <3>2, Holders DEF IInv, LockHeld
    <3> QED
      BY <3>3, <3>4, <3>5 DEF IInv
  <2>2. CASE Retry(u) /\ UNCHANGED lock
    BY <1>4, <2>2, RetryKeeps DEF WaitEnds
  <2> QED
    BY <1>4, <2>1, <2>2 DEF WaitEnds
<1>5. CASE WaitUnlocks(u)
  <2>1. /\ ui[u].pc = "waitlock" /\ Retry(u) /\ lock' = Nobody /\ contents' = 0
        /\ UNCHANGED <<sock, srv>>
    BY <1>5 DEF WaitUnlocks
  <2>2. lock = ByUI(u)
    BY <2>1 DEF IInv, LockHeld
  <2>3. Types' /\ Controlled' /\ ServerReachable' /\ Attempts'
    BY <2>1, RetryUI DEF IInv, Types, Controlled, ServerReachable, Listening
  <2>4. LockHeld'
    BY <2>1, <2>2, RetryUI, Holders DEF IInv, LockHeld
  <2> QED
    BY <2>3, <2>4 DEF IInv
<1>6. CASE ServerReady(u)
  <2>1. CASE Goto(u, "connect")
    BY <1>6, <2>1, GotoKeeps DEF ServerReady, UiPCs
  <2>2. CASE Retry(u)
    BY <1>6, <2>2, RetryKeeps DEF ServerReady
  <2> QED
    BY <1>6, <2>1, <2>2 DEF ServerReady
<1>7. CASE Connect(u)
  <2>1. CASE sock # 0 /\ Listening(sock)
    <3>1. /\ srv' = [srv EXCEPT ![sock].backlog = Append(@, Conn(u))]
          /\ ui' = [ui EXCEPT ![u].pc = "handshake", ![u].server = sock]
          /\ ui[u].pc = "connect"
          /\ UNCHANGED <<lock, contents, sock>>
      BY <1>7, <2>1 DEF Connect
    <3>2. sock \in Servers /\ Conn(u) \in Conns
      BY <2>1 DEF IInv, Types, Servers, Conn, Conns, UiRecord
    <3>3. /\ ui' \in [UIs -> UiRecord] /\ ui'[u].pc = "handshake"
          /\ ui'[u].retries = ui[u].retries
          /\ \A v \in UIs : v # u => ui'[v] = ui[v]
      BY <3>1 DEF IInv, Types, UiRecord, UiPCs, Servers
    <3>4. Append(srv[sock].backlog, Conn(u)) \in Seq(Conns)
      BY <3>2 DEF IInv, Types, SrvRecord
    <3>5. /\ srv' \in [Servers -> SrvRecord]
          /\ \A s \in Servers : /\ srv'[s].pc = srv[s].pc /\ srv'[s].ctrl = srv[s].ctrl
                                 /\ srv'[s].have = srv[s].have /\ srv'[s].new = srv[s].new
      BY <3>1, <3>2, <3>4 DEF IInv, Types, SrvRecord
    <3>6. Types' /\ Controlled' /\ ServerReachable'
      BY <3>1, <3>3, <3>5 DEF IInv, Types, Controlled, ServerReachable, Listening
    <3>7. Attempts'
      BY <3>1, <3>3 DEF IInv, Attempts
    <3>8. LockHeld'
      BY <3>1, <3>3, <3>5 DEF IInv, LockHeld
    <3> QED
      BY <3>6, <3>7, <3>8 DEF IInv
  <2>2. CASE ~(sock # 0 /\ Listening(sock))
    BY <1>7, <2>2, RetryKeeps DEF Connect
  <2> QED
    BY <2>1, <2>2
<1>8. CASE HandshakeFails(u)
  BY <1>8, RetryKeeps DEF HandshakeFails
<1>9. CASE EndSession(u)
  BY <1>9, FinishKeeps DEF EndSession
<1>10. CASE TerminateServer(u)
  BY <1>10, GotoKeeps DEF TerminateServer, UiPCs
<1>11. CASE GiveUp(u)
  BY <1>11, RetryKeeps DEF GiveUp
<1> QED
  BY <1>1, <1>2, <1>3, <1>4, <1>5, <1>6, <1>7, <1>8, <1>9, <1>10, <1>11 DEF UI

-----------------------------------------------------------------------------
(* Servers. *)

Holding == {"starting", "bound", "main", "quit", "closing", "relocked"}

(* A step of a server: it may take or give back the lock only where nobody
   else has it, and touches the socket file only while it has the lock. *)
LEMMA ServerStep ==
  ASSUME IInv, NEW s \in Servers, NEW rec \in SrvRecord,
         srv' = [srv EXCEPT ![s] = rec],
         UNCHANGED ui,
         contents' \in 0..NumServers,
         \/ lock' = lock
         \/ lock \in {Nobody, ByServer(s)} /\ lock' \in {Nobody, ByOrphans, ByServer(s)},
         sock' = sock \/ (lock = ByServer(s) /\ sock' \in {0, s}),
         rec.pc \in Holding => lock' = ByServer(s),
         rec.pc \in {"bound", "main", "quit"} => sock' = s,
         rec.have => rec.ctrl # NoConn,
         rec.ctrl = NoConn => rec.new = <<>>
  PROVE  IInv'
<1>1. srv' \in [Servers -> SrvRecord] /\ srv'[s] = rec
      /\ \A r \in Servers : r # s => srv'[r] = srv[r]
  BY DEF IInv, Types
<1>2. Types'
  BY <1>1, ServerAssumption DEF IInv, Types, Servers
<1>3. Controlled' /\ Attempts'
  BY <1>1 DEF IInv, Controlled, Attempts
<1>4. LockHeld'
  BY <1>1, Holders DEF IInv, LockHeld, Holding
<1>5. ServerReachable'
  BY <1>1, Holders DEF IInv, LockHeld, ServerReachable, Listening
<1> QED
  BY <1>2, <1>3, <1>4, <1>5 DEF IInv

(* Every step of a server preserves the invariant. *)
LEMMA ServerKeeps ==
  ASSUME IInv, NEW s \in Servers,
         Server(s) \/ IdleTimeout(s) \/ NoUITimeout(s) \/ Crash(s)
  PROVE  IInv'
<1>0. /\ srv[s] \in SrvRecord /\ contents \in 0..NumServers /\ s \in 0..NumServers
      /\ srv[s].pc \in Holding => lock = ByServer(s)
      /\ srv[s].pc \in {"bound", "main", "quit"} => sock = s
      /\ srv[s].have => srv[s].ctrl # NoConn
      /\ srv[s].ctrl = NoConn => srv[s].new = <<>>
  BY ServerAssumption
     DEF IInv, Types, LockHeld, Holding, ServerReachable, Listening, Controlled, Servers
<1> DEFINE At(new) == [srv[s] EXCEPT !.pc = new]
<1>1. \A new \in SrvPCs :
        /\ At(new) \in SrvRecord /\ At(new).pc = new /\ At(new).have = srv[s].have
        /\ At(new).ctrl = srv[s].ctrl /\ At(new).new = srv[s].new
  BY <1>0 DEF SrvRecord
<1>2. DOMAIN srv = Servers
  BY DEF IInv, Types
<1>3. CASE Bind(s)
  <2>1. srv' = [srv EXCEPT ![s] = At("bound")]
    BY <1>2, <1>3 DEF Bind
  <2>2. /\ At("bound") \in SrvRecord /\ At("bound").pc = "bound"
        /\ At("bound").have = srv[s].have /\ At("bound").ctrl = srv[s].ctrl
        /\ At("bound").new = srv[s].new
    BY <1>1 DEF SrvPCs
  <2> HIDE DEF At
  <2> QED
    BY <1>0, <1>3, <2>1, <2>2, ServerStep DEF Bind, Holding
<1>4. CASE Run(s)
  <2> DEFINE rec == [srv[s] EXCEPT !.pc = "main", !.ready = TRUE]
  <2>1. srv' = [srv EXCEPT ![s] = rec]
    BY <1>2, <1>4 DEF Run
  <2>2. rec \in SrvRecord /\ rec.pc = "main" /\ rec.have = srv[s].have
        /\ rec.ctrl = srv[s].ctrl /\ rec.new = srv[s].new
    BY <1>0 DEF SrvRecord, SrvPCs
  <2> HIDE DEF rec
  <2> QED
    BY <1>0, <1>4, <2>1, <2>2, ServerStep DEF Run, Holding
<1>5. CASE Accept(s)
  <2> DEFINE b == srv[s].backlog
             rec == Accepted(srv[s])
  <2>1. srv' = [srv EXCEPT ![s] = rec] /\ srv[s].pc = "main" /\ b # <<>>
    BY <1>5 DEF Accept
  <2>2. b \in Seq(Conns) /\ srv[s].new \in Seq(Conns) /\ <<>> \in Seq(Conns)
    BY <1>0 DEF SrvRecord
  <2>3. /\ Head(b) \in Conns /\ Tail(b) \in Seq(Conns)
        /\ srv[s].new \o Tail(b) \in Seq(Conns) /\ srv[s].new \o b \in Seq(Conns)
    BY <2>1, <2>2
  <2>4. Head(b) # NoConn
    BY <2>3, ConnIsOne
  <2>5. rec \in SrvRecord /\ rec.pc = srv[s].pc /\ rec.ctrl # NoConn
    BY <1>0, <2>2, <2>3, <2>4 DEF Accepted, SrvRecord
  <2> HIDE DEF rec
  <2> QED
    BY <1>0, <1>5, <2>1, <2>5, ServerStep DEF Accept, Holding
<1>6. CASE Processing(s)
  <2> DEFINE rec == [srv[s] EXCEPT !.have = TRUE, !.hadany = TRUE]
  <2>1. srv' = [srv EXCEPT ![s] = rec] /\ srv[s].ctrl # NoConn
    BY <1>2, <1>6 DEF Processing
  <2>2. rec \in SrvRecord /\ rec.pc = srv[s].pc /\ rec.ctrl = srv[s].ctrl
    BY <1>0 DEF SrvRecord
  <2> HIDE DEF rec
  <2> QED
    BY <1>0, <1>6, <2>1, <2>2, ServerStep DEF Processing, Holding
<1>7. ASSUME NEW rec \in SrvRecord, Quit(s, rec), srv[s].pc = "main",
             rec.have => rec.ctrl # NoConn, rec.ctrl = NoConn => rec.new = <<>>,
             UNCHANGED <<lock, contents, sock, ui>>
      PROVE  IInv'
  <2> DEFINE q == [rec EXCEPT !.pc = "quit"]
  <2>1. srv' = [srv EXCEPT ![s] = q]
    BY <1>7 DEF Quit
  <2>2. q \in SrvRecord /\ q.pc = "quit" /\ q.have = rec.have /\ q.ctrl = rec.ctrl
        /\ q.new = rec.new
    BY DEF SrvRecord, SrvPCs
  <2> HIDE DEF q
  <2> QED
    BY <1>0, <1>7, <2>1, <2>2, ServerStep DEF Holding
<1>8. CASE RunCommand(s)
  <2> DEFINE u == srv[s].ctrl[1]
  <2>1. u \in UIs
    BY <1>0, <1>8 DEF RunCommand, SrvRecord, Conns
  <2>2. CASE ui[u].pc = "handshake" /\ Goto(u, "session") /\ UNCHANGED srv
    BY <1>8, <2>1, <2>2, GotoKeeps DEF RunCommand, UiPCs
  <2>3. CASE Quit(s, srv[s]) /\ UNCHANGED ui
    BY <1>0, <1>7, <1>8, <2>3 DEF RunCommand
  <2> QED
    BY <1>8, <2>2, <2>3 DEF RunCommand
<1>9. CASE DisconnectClient(s)
  <2> DEFINE left == [srv[s] EXCEPT !.ctrl = NoConn, !.have = FALSE]
             n == Len(left.new)
             rec == [left EXCEPT !.ctrl = left.new[n], !.new = SubSeq(@, 1, n - 1)]
  <2>1. /\ left \in SrvRecord /\ left.pc = srv[s].pc /\ left.ctrl = NoConn
        /\ left.have = FALSE /\ left.new = srv[s].new /\ left.new \in Seq(Conns)
    BY <1>0 DEF SrvRecord
  <2>2. srv[s].pc = "main" /\ UNCHANGED <<lock, contents, sock, ui>>
    BY <1>9 DEF DisconnectClient
  <2>3. CASE n > 0
    <3>1. srv' = [srv EXCEPT ![s] = rec]
      BY <1>9, <2>3 DEF DisconnectClient
    <3>2. left.new[n] \in Conns /\ SubSeq(left.new, 1, n - 1) \in Seq(Conns)
      BY <2>1, <2>3
    <3>3. left.new[n] # NoConn
      BY <3>2, ConnIsOne
    <3> HIDE DEF left, n
    <3>4. rec \in SrvRecord /\ rec.pc = "main" /\ rec.have = FALSE /\ rec.ctrl # NoConn
      BY <2>1, <2>2, <3>2, <3>3 DEF SrvRecord
    <3> HIDE DEF rec
    <3> QED
      BY <1>0, <2>2, <3>1, <3>4, ServerStep DEF Holding
  <2>4. CASE ~(n > 0)
    <3>1. left.new = <<>>
      BY <2>1, <2>4
    <3>2. srv' = [srv EXCEPT ![s] = left] \/ Quit(s, left)
      BY <1>9, <2>4 DEF DisconnectClient
    <3> HIDE DEF left
    <3>3. CASE srv' = [srv EXCEPT ![s] = left]
      BY <1>0, <2>1, <2>2, <3>1, <3>3, ServerStep DEF Holding
    <3>4. CASE Quit(s, left)
      BY <1>7, <2>1, <2>2, <3>1, <3>4
    <3> QED
      BY <3>2, <3>3, <3>4
  <2> QED
    BY <2>3, <2>4
<1>10. CASE IdleTimeout(s)
  BY <1>0, <1>7, <1>10 DEF IdleTimeout
<1>11. CASE NoUITimeout(s)
  BY <1>0, <1>7, <1>11 DEF NoUITimeout
<1>12. CASE Exiting(s)
  <2> DEFINE rec == [srv[s] EXCEPT !.pc = "closing", !.backlog = <<>>]
  <2>1. srv' = [srv EXCEPT ![s] = rec] /\ srv[s].pc = "quit"
    BY <1>2, <1>12 DEF Exiting
  <2>2. <<>> \in Seq(Conns)
    OBVIOUS
  <2>3. rec \in SrvRecord /\ rec.pc = "closing" /\ rec.have = srv[s].have
        /\ rec.ctrl = srv[s].ctrl /\ rec.new = srv[s].new
    BY <1>0, <2>2 DEF SrvRecord, SrvPCs
  <2> HIDE DEF rec
  <2> QED
    BY <1>0, <1>12, <2>1, <2>3, ServerStep DEF Exiting, Holding
<1>13. CASE ReleaseLock(s)
  <2>1. srv' = [srv EXCEPT ![s] = At("released")]
    BY <1>2, <1>13 DEF ReleaseLock
  <2>2. /\ At("released") \in SrvRecord /\ At("released").pc = "released"
        /\ At("released").have = srv[s].have /\ At("released").ctrl = srv[s].ctrl
        /\ At("released").new = srv[s].new
    BY <1>1 DEF SrvPCs
  <2> HIDE DEF At
  <2> QED
    BY <1>0, <1>13, <2>1, <2>2, ServerStep DEF ReleaseLock, Unlocked, Holding
<1>14. ASSUME Exit(s), UNCHANGED <<sock, ui>>, contents' \in 0..NumServers,
              \/ lock' = lock
              \/ lock \in {Nobody, ByServer(s)} /\ lock' \in {Nobody, ByOrphans, ByServer(s)}
       PROVE  IInv'
  <2> DEFINE rec == [Fresh EXCEPT !.ready = srv[s].ready]
  <2>1. srv' = [srv EXCEPT ![s] = rec]
    BY <1>14 DEF Exit
  <2>2. srv[s].ready \in BOOLEAN
    BY <1>0 DEF SrvRecord
  <2>3. rec \in SrvRecord
    BY <2>2, FreshType
  <2>4. rec.pc = "exited" /\ rec.have = FALSE /\ rec.new = <<>>
    BY DEF Fresh
  <2> HIDE DEF rec
  <2> QED
    BY <1>14, <2>1, <2>3, <2>4, ServerStep DEF Holding
<1>15. CASE Relock(s)
  <2>1. CASE lock = Nobody /\ lock' = ByServer(s) /\ srv' = [srv EXCEPT ![s].pc = "relocked"]
    <3>1. srv' = [srv EXCEPT ![s] = At("relocked")]
      BY <1>2, <2>1
    <3>2. /\ At("relocked") \in SrvRecord /\ At("relocked").pc = "relocked"
          /\ At("relocked").have = srv[s].have /\ At("relocked").ctrl = srv[s].ctrl
          /\ At("relocked").new = srv[s].new
      BY <1>1 DEF SrvPCs
    <3> HIDE DEF At
    <3> QED
      BY <1>0, <1>15, <2>1, <3>1, <3>2, ServerStep DEF Relock, Holding
  <2>2. CASE Exit(s) /\ UNCHANGED lock
    BY <1>0, <1>14, <1>15, <2>2 DEF Relock
  <2> QED
    BY <1>15, <2>1, <2>2 DEF Relock
<1>16. CASE RemoveLockfile(s)
  <2>1. lock = ByServer(s) /\ lock' = Nobody /\ 0 \in 0..NumServers
    BY <1>0, <1>16, ServerAssumption DEF RemoveLockfile, Holding
  <2> QED
    BY <1>14, <1>16, <2>1 DEF RemoveLockfile
<1>17. CASE Crash(s)
  BY <1>0, <1>14, <1>17 DEF Crash, Unlocked
<1> QED
  BY <1>3, <1>4, <1>5, <1>6, <1>8, <1>9, <1>10, <1>11, <1>12, <1>13, <1>15, <1>16, <1>17
     DEF Server

-----------------------------------------------------------------------------
(* Every step preserves the invariant. *)
LEMMA NextIInv == IInv /\ [Next]_vars => IInv'
<1> SUFFICES ASSUME IInv, [Next]_vars PROVE IInv'
  OBVIOUS
<1>1. CASE UNCHANGED vars
  BY <1>1 DEF vars, IInv, Types, Controlled, Attempts, LockHeld, ServerReachable, Listening
<1>2. CASE Done
  BY <1>1, <1>2 DEF Done
<1>3. CASE OrphansEnd
  BY <1>3, Holders
     DEF OrphansEnd, IInv, Types, Controlled, Attempts, LockHeld, ServerReachable, Listening
<1> QED
  BY <1>1, <1>2, <1>3, UIKeeps, ServerKeeps DEF Next

(* The invariant contains the types. *)
LEMMA IInvTypeOK == IInv => TypeOK
BY DEF IInv, Types, TypeOK, Controlled, Attempts, LockHeld, UiRecord

(* Two servers between the lock and the end of the loop would both hold the lock. *)
LEMMA IInvOneServer == IInv => OneServer
<1> SUFFICES ASSUME IInv PROVE OneServer
  OBVIOUS
<1> DEFINE A == {s \in Servers : srv[s].pc \in {"starting", "bound", "main", "quit", "closing"}}
<1>1. \A s, r \in A : s = r
  BY Holders DEF IInv, LockHeld
<1>2. CASE A = {}
  BY <1>2, FS_EmptySet DEF OneServer
<1>3. CASE A # {}
  <2>1. PICK s \in A : A = {s}
    BY <1>1, <1>3
  <2>2. Cardinality(A) = 1
    BY <2>1, FS_Singleton
  <2> QED
    BY <2>2 DEF OneServer
<1> QED
  BY <1>2, <1>3

(***************************************************************************)
(* The state of the lock, the files and the processes has its type.        *)
(***************************************************************************)
THEOREM ServerTypeTheorem == Spec => []TypeOK
<1>1. Init => IInv
  BY InitIInv
<1>2. IInv /\ [Next]_vars => IInv'
  BY NextIInv
<1>3. IInv => TypeOK
  BY IInvTypeOK
<1> QED
  BY <1>1, <1>2, <1>3, PTL DEF Spec

(***************************************************************************)
(* lockBitbake() and the lock a server inherits keep a build directory to  *)
(* one server at a time, from its fork to the end of its cooker.           *)
(***************************************************************************)
THEOREM OneServerTheorem == Spec => []OneServer
<1>1. Init => IInv
  BY InitIInv
<1>2. IInv /\ [Next]_vars => IInv'
  BY NextIInv
<1>3. IInv => OneServer
  BY IInvOneServer
<1> QED
  BY <1>1, <1>2, <1>3, PTL DEF Spec

(***************************************************************************)
(* bitbake.sock leads to every server that listens: it is removed by a     *)
(* server only before it gives the lock back, and bound only with the lock.*)
(***************************************************************************)
THEOREM ServerReachableTheorem == Spec => []ServerReachable
<1>1. Init => IInv
  BY InitIInv
<1>2. IInv /\ [Next]_vars => IInv'
  BY NextIInv
<1>3. IInv => ServerReachable
  BY DEF IInv
<1> QED
  BY <1>1, <1>2, <1>3, PTL DEF Spec
==============================================================================
