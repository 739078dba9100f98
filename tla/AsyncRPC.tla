------------------------------ MODULE AsyncRPC ------------------------------
(***************************************************************************)
(* A client of lib/bb/asyncrpc, used by the hash equivalence and the PR    *)
(* service, and its connection: requests and answers are lines, or, when   *)
(* they are long, a chunk stream of several; a call that fails is repeated *)
(* on a new connection, three times.  The caller may go on with the client *)
(* after the exception of a call that failed for good, as siggen.py does.  *)
(***************************************************************************)
EXTENDS Naturals, Sequences

CONSTANTS
  NumCalls,    \* the client calls send_message NumCalls times: 1..NumCalls
  Long         \* the calls whose answers are sent as chunk streams

ASSUME RpcAssumption == NumCalls \in Nat

VARIABLES
  call,     \* the call that is made, or was last made
  pc,       \* "idle", "send", "read" (a first line), "chunks"
  count,    \* errors in this call
  conn,     \* "none", "open", or "broken", which the client has not noticed
  inbox,    \* requests the server's connection has still to handle
  outbox,   \* lines of answers on their way to the client
  result    \* what each call has returned: the call answered, or an error

rpcVars == <<call, pc, count, conn, inbox, outbox, result>>

Calls == 1..NumCalls

Raised == 0
Pending == NumCalls + 1

\* chunkify: one line, or an announcement, the parts and an empty line
Line(kind, c) == [kind |-> kind, of |-> c]
Lines == [kind : {"message", "chunk-stream", "part", "end"}, of : Calls]
chunkify(c) ==
  IF c \in Long THEN <<Line("chunk-stream", c), Line("part", c), Line("part", c), Line("end", c)>>
  ELSE <<Line("message", c)>>

RpcTypeOK ==
  /\ call \in 0..NumCalls /\ (pc # "idle" => call \in Calls)
  /\ pc \in {"idle", "send", "read", "chunks"}
  /\ count \in 0..3
  /\ conn \in {"none", "open", "broken"}
  /\ inbox \in Seq(Calls) /\ outbox \in Seq(Lines)
  /\ result \in [Calls -> {Raised, Pending} \cup Calls]
  /\ conn # "open" => inbox = <<>> /\ outbox = <<>>
  /\ \A c \in Calls : result[c] # Pending <=> c < call \/ (c = call /\ pc = "idle")

RpcInit ==
  /\ call = 0 /\ pc = "idle" /\ count = 0
  /\ conn = "none" /\ inbox = <<>> /\ outbox = <<>>
  /\ result = [c \in Calls |-> Pending]
-----------------------------------------------------------------------------
\* send_message: the next call, on the connection there is or a new one
SendMessage ==
  /\ pc = "idle" /\ call < NumCalls
  /\ call' = call + 1
  /\ count' = 0
  /\ pc' = "send"
  /\ UNCHANGED <<conn, inbox, outbox, result>>

\* connect() and the writes of proc()
Write ==
  /\ pc = "send"
  /\ conn' = IF conn = "none" THEN "open" ELSE conn
  /\ inbox' = IF conn = "broken" THEN inbox ELSE Append(inbox, call)
  /\ pc' = "read"
  /\ UNCHANGED <<call, count, outbox, result>>

Return(value) ==
  /\ result' = [result EXCEPT ![call] = value]
  /\ pc' = "idle"

\* Mutant: the connection is used again
Error_NoClose ==
  IF count >= 3 THEN Return(Raised) /\ UNCHANGED <<count, conn, inbox, outbox>>
  ELSE /\ count' = count + 1
       /\ pc' = "send"
       /\ UNCHANGED <<conn, inbox, outbox, result>>

\* The exception handler of _send_wrapper: after the fourth error the exception
\* is raised with the connection as it is, otherwise it is closed and connect()
\* makes another one
Error ==
  IF count >= 3 THEN Return(Raised) /\ UNCHANGED <<count, conn, inbox, outbox>>
  ELSE /\ conn' = "none" /\ inbox' = <<>> /\ outbox' = <<>>
       /\ count' = count + 1
       /\ pc' = "send"
       /\ UNCHANGED result

\* The first line of an answer: json.loads refuses a part and an empty line
ReadMessage ==
  /\ pc = "read" /\ outbox # <<>>
  /\ LET l == Head(outbox) IN
     \/ /\ l.kind = "message"
        /\ outbox' = Tail(outbox)
        /\ Return(l.of)
        /\ UNCHANGED <<call, count, conn, inbox>>
     \/ /\ l.kind = "chunk-stream"
        /\ outbox' = Tail(outbox)
        /\ pc' = "chunks"
        /\ UNCHANGED <<call, count, conn, inbox, result>>
     \/ /\ l.kind \in {"part", "end"}
        /\ Error
        /\ UNCHANGED call

\* The lines of a chunk stream up to the empty one
ReadChunks ==
  /\ pc = "chunks" /\ outbox # <<>>
  /\ outbox' = Tail(outbox)
  /\ IF Head(outbox).kind = "end" THEN Return(Head(outbox).of)
     ELSE UNCHANGED <<pc, result>>
  /\ UNCHANGED <<call, count, conn, inbox>>

\* get_line waits 30 seconds for each line, which may still be on its way
TimeOut ==
  /\ pc \in {"read", "chunks"} /\ conn = "open"
  /\ Error
  /\ UNCHANGED call

\* The server's connection: process_requests and its handlers
Serve ==
  /\ inbox # <<>>
  /\ inbox' = Tail(inbox)
  /\ outbox' = outbox \o chunkify(Head(inbox))
  /\ UNCHANGED <<call, pc, count, conn, result>>

\* The connection breaks
Break ==
  /\ conn = "open"
  /\ conn' = "broken" /\ inbox' = <<>> /\ outbox' = <<>>
  /\ UNCHANGED <<call, pc, count, result>>

\* readline() returns nothing
ConnectionClosed ==
  /\ pc \in {"read", "chunks"} /\ conn = "broken"
  /\ Error
  /\ UNCHANGED call

Done ==
  /\ pc = "idle" /\ call = NumCalls
  /\ UNCHANGED rpcVars

Client == SendMessage \/ Write \/ ReadMessage \/ ReadChunks \/ TimeOut \/ ConnectionClosed

RpcNext == Client \/ Serve \/ Break \/ Done

RpcSpec == RpcInit /\ [][RpcNext]_rpcVars

-----------------------------------------------------------------------------
\* A call raises or returns the answer to its own request, however late the answers
\* to earlier attempts are; the one exception is the answer to an earlier call, and
\* only if that one, or one before it, had raised and left the connection open.
AnswersMatch ==
  \A c \in Calls : result[c] \notin {c, Raised, Pending} =>
    result[c] < c /\ \E b \in 1..result[c] : result[b] = Raised

=============================================================================
