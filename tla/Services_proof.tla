--------------------------- MODULE Services_proof ---------------------------
(***************************************************************************)
(* Proofs about the services builds share and the RPC client they use:     *)
(* when a call of asyncrpc returns the answer to another, the values a     *)
(* PR service returns keep their promises, and a hash equivalence server   *)
(* never changes a unihash and gives equivalent tasks the same one, for    *)
(* any number of calls, servers, clients, tasks and values.                *)
(***************************************************************************)
EXTENDS AsyncRPC, PRServ, HashServ, SequenceTheorems, WellFoundedInduction, TLAPS

-----------------------------------------------------------------------------
(* The RPC client.  While nothing has been raised, the connection carries   *)
(* nothing but the call that is made: its request, or a rest of its answer. *)
(* Afterwards it may still owe answers to earlier calls, and for each one   *)
(* it owes there is a call no later than that one that raised.              *)

Failed == \E c \in Calls : result[c] = Raised

Silent == inbox = <<>> /\ outbox = <<>>

\* What is left of an answer that ReadChunks reads
ChunksLeft(c) ==
  {<<Line("part", c), Line("part", c), Line("end", c)>>,
   <<Line("part", c), Line("end", c)>>, <<Line("end", c)>>}

ConnectionInv ==
  /\ pc \in {"read", "chunks"} => conn # "none"
  /\ pc = "send" => Silent
  /\ pc = "idle" => Silent
  /\ pc = "read" =>
       \/ Silent /\ conn = "broken"
       \/ inbox = <<call>> /\ outbox = <<>>
       \/ inbox = <<>> /\ outbox = chunkify(call)
  /\ pc = "chunks" =>
       \/ Silent /\ conn = "broken"
       \/ inbox = <<>> /\ outbox \in ChunksLeft(call)

\* The calls whose requests or answers are on the connection
Owed(d) ==
  \/ \E i \in 1..Len(outbox) : outbox[i].of = d
  \/ \E i \in 1..Len(inbox) : inbox[i] = d

Blamed(d) == \E b \in Calls : b <= d /\ result[b] = Raised

LateInv ==
  \A d \in Calls : Owed(d) =>
    /\ d <= call
    /\ d < call \/ pc = "idle" => Blamed(d)

RpcInv == RpcTypeOK /\ (~Failed => ConnectionInv) /\ LateInv /\ AnswersMatch

\* A line is known by its fields, and an answer is a sequence of lines.
LEMMA LineFacts ==
  ASSUME NEW c \in Calls
  PROVE  /\ chunkify(c) \in Seq(Lines)
         /\ \A k \in {"message", "chunk-stream", "part", "end"} :
              Line(k, c) \in Lines /\ Line(k, c).kind = k /\ Line(k, c).of = c
<1>1. \A k \in {"message", "chunk-stream", "part", "end"} :
        Line(k, c) \in Lines /\ Line(k, c).kind = k /\ Line(k, c).of = c
  BY DEF Line, Lines
<1> QED BY <1>1 DEF chunkify

\* Both boxes stay sequences of requests and lines.
LEMMA BoxTypes ==
  ASSUME RpcTypeOK
  PROVE  /\ inbox # <<>> => /\ Tail(inbox) \in Seq(Calls) /\ Head(inbox) \in Calls
                            /\ outbox \o chunkify(Head(inbox)) \in Seq(Lines)
         /\ outbox # <<>> => Tail(outbox) \in Seq(Lines) /\ Head(outbox) \in Lines
<1>1. inbox \in Seq(Calls) /\ outbox \in Seq(Lines)
  BY DEF RpcTypeOK
<1>2. inbox # <<>> => Tail(inbox) \in Seq(Calls) /\ Head(inbox) \in Calls
  BY <1>1, HeadTailProperties
<1>3. outbox # <<>> => Tail(outbox) \in Seq(Lines) /\ Head(outbox) \in Lines
  BY <1>1, HeadTailProperties
<1> QED BY <1>1, <1>2, <1>3, LineFacts

\* A call that is made is a call without a result.
LEMMA CallMade ==
  ASSUME RpcTypeOK, pc # "idle"
  PROVE  call \in Calls /\ call \in Nat /\ result[call] = Pending
<1>1. call \in Calls
  BY DEF RpcTypeOK
<1>2. call \in Nat /\ ~(call < call)
  BY <1>1, RpcAssumption DEF Calls
<1> QED BY <1>1, <1>2 DEF RpcTypeOK

\* The answer a call returns, or the exception, is all that Return changes.
LEMMA ReturnTypes ==
  ASSUME RpcTypeOK, pc # "idle", NEW value \in {Raised} \cup Calls, Return(value)
  PROVE  /\ result' \in [Calls -> {Raised, Pending} \cup Calls]
         /\ result'[call] = value /\ value # Pending
         /\ \A c \in Calls : c # call => result'[c] = result[c]
         /\ \A c \in Calls : result'[c] # Pending <=> c < call \/ (c = call /\ pc' = "idle")
         /\ pc' = "idle"
<1>1. call \in Calls /\ result \in [Calls -> {Raised, Pending} \cup Calls]
  BY CallMade DEF RpcTypeOK
<1>2. value # Pending
  BY RpcAssumption DEF Calls, Pending, Raised
<1>3. /\ result' \in [Calls -> {Raised, Pending} \cup Calls]
      /\ result'[call] = value /\ pc' = "idle"
      /\ \A c \in Calls : c # call => result'[c] = result[c]
  BY <1>1 DEF Return
<1>4. \A c \in Calls : result[c] # Pending <=> c < call
  BY DEF RpcTypeOK
<1> QED BY <1>1, <1>2, <1>3, <1>4

\* An error ends the call or starts its next attempt, on a new connection.
LEMMA ErrorTypes ==
  ASSUME RpcTypeOK, pc # "idle", Error, UNCHANGED call
  PROVE  /\ RpcTypeOK'
         /\ \/ /\ pc' = "idle" /\ result'[call] = Raised
               /\ \A c \in Calls : c # call => result'[c] = result[c]
            \/ /\ pc' = "send" /\ Silent' /\ UNCHANGED result
<1>1. CASE count >= 3
  <2>1. Return(Raised) /\ UNCHANGED <<count, conn, inbox, outbox>>
    BY <1>1 DEF Error
  <2>2. /\ result' \in [Calls -> {Raised, Pending} \cup Calls]
        /\ result'[call] = Raised
        /\ \A c \in Calls : c # call => result'[c] = result[c]
        /\ \A c \in Calls : result'[c] # Pending <=> c < call \/ (c = call /\ pc' = "idle")
        /\ pc' = "idle"
    BY <2>1, ReturnTypes
  <2> QED BY <2>1, <2>2 DEF RpcTypeOK
<1>2. CASE ~(count >= 3)
  <2>1. /\ conn' = "none" /\ inbox' = <<>> /\ outbox' = <<>>
        /\ count' = count + 1 /\ pc' = "send" /\ UNCHANGED result
    BY <1>2 DEF Error
  <2>2. count' \in 0..3
    BY <1>2, <2>1 DEF RpcTypeOK
  <2>3. call' \in 0..NumCalls /\ call' \in Calls
    BY CallMade DEF RpcTypeOK
  <2>4. inbox' \in Seq(Calls) /\ outbox' \in Seq(Lines)
    BY <2>1
  <2>5. \A c \in Calls : result'[c] # Pending <=> c < call'
    BY <2>1 DEF RpcTypeOK
  <2> QED BY <2>1, <2>2, <2>3, <2>4, <2>5 DEF RpcTypeOK, Silent
<1> QED BY <1>1, <1>2

\* Every step keeps the types.
LEMMA RpcTypeStep ==
  ASSUME RpcTypeOK, [RpcNext]_rpcVars
  PROVE  RpcTypeOK'
<1> USE RpcAssumption
<1>1. CASE SendMessage
  <2>1. call \in 0..NumCalls /\ call < NumCalls /\ call' = call + 1
    BY <1>1 DEF SendMessage, RpcTypeOK
  <2>2. call' \in 0..NumCalls /\ call' \in Calls
    BY <2>1 DEF Calls
  <2>3. \A c \in Calls : result[c] # Pending <=> c < call \/ c = call
    BY <1>1 DEF SendMessage, RpcTypeOK
  <2>4. \A c \in Calls : c < call' <=> c < call \/ c = call
    BY <2>1 DEF Calls
  <2> QED BY <1>1, <2>2, <2>3, <2>4 DEF SendMessage, RpcTypeOK
<1>2. CASE Write
  <2>1. Append(inbox, call) \in Seq(Calls)
    BY <1>2, CallMade DEF Write, RpcTypeOK
  <2> QED BY <1>2, <2>1 DEF Write, RpcTypeOK
<1>3. CASE ReadMessage
  <2> DEFINE l == Head(outbox)
  <2>1. pc = "read" /\ outbox # <<>>
    BY <1>3 DEF ReadMessage
  <2>2. l \in Lines /\ l.of \in Calls /\ Tail(outbox) \in Seq(Lines)
    BY <2>1, BoxTypes DEF Lines
  <2>3. conn = "open"
    BY <2>1 DEF RpcTypeOK
  <2>4. CASE l.kind = "message" /\ outbox' = Tail(outbox) /\ Return(l.of)
             /\ UNCHANGED <<call, count, conn, inbox>>
    <3>1. /\ result' \in [Calls -> {Raised, Pending} \cup Calls] /\ pc' = "idle"
          /\ \A c \in Calls : result'[c] # Pending <=> c < call \/ (c = call /\ pc' = "idle")
      BY <2>1, <2>2, <2>4, ReturnTypes
    <3> QED BY <2>2, <2>3, <2>4, <3>1 DEF RpcTypeOK
  <2>5. CASE outbox' = Tail(outbox) /\ pc' = "chunks"
             /\ UNCHANGED <<call, count, conn, inbox, result>>
    BY <2>1, <2>2, <2>3, <2>5 DEF RpcTypeOK
  <2>6. CASE Error /\ UNCHANGED call
    BY <2>1, <2>6, ErrorTypes
  <2> QED BY <1>3, <2>4, <2>5, <2>6 DEF ReadMessage
<1>4. CASE ReadChunks
  <2> DEFINE l == Head(outbox)
  <2>1. pc = "chunks" /\ outbox # <<>> /\ outbox' = Tail(outbox)
        /\ UNCHANGED <<call, count, conn, inbox>>
    BY <1>4 DEF ReadChunks
  <2>2. l \in Lines /\ l.of \in Calls /\ Tail(outbox) \in Seq(Lines)
    BY <2>1, BoxTypes DEF Lines
  <2>3. conn = "open"
    BY <2>1 DEF RpcTypeOK
  <2>4. CASE l.kind = "end" /\ Return(l.of)
    <3>1. /\ result' \in [Calls -> {Raised, Pending} \cup Calls] /\ pc' = "idle"
          /\ \A c \in Calls : result'[c] # Pending <=> c < call \/ (c = call /\ pc' = "idle")
      BY <2>1, <2>2, <2>4, ReturnTypes
    <3> QED BY <2>1, <2>2, <2>3, <2>4, <3>1 DEF RpcTypeOK
  <2>5. CASE UNCHANGED <<pc, result>>
    BY <2>1, <2>2, <2>3, <2>5 DEF RpcTypeOK
  <2> QED BY <1>4, <2>4, <2>5 DEF ReadChunks
<1>5. CASE TimeOut \/ ConnectionClosed
  BY <1>5, ErrorTypes DEF TimeOut, ConnectionClosed
<1>6. CASE Serve
  <2>1. conn = "open"
    BY <1>6 DEF Serve, RpcTypeOK
  <2> QED BY <1>6, <2>1, BoxTypes DEF Serve, RpcTypeOK
<1>7. CASE Break
  <2>1. <<>> \in Seq(Calls) /\ <<>> \in Seq(Lines)
    OBVIOUS
  <2> QED BY <1>7, <2>1 DEF Break, RpcTypeOK
<1>8. CASE UNCHANGED rpcVars
  BY <1>8 DEF rpcVars, RpcTypeOK
<1> QED BY <1>1, <1>2, <1>3, <1>4, <1>5, <1>6, <1>7, <1>8 DEF RpcNext, Client, Done

\* The client and its connection start with their types.
LEMMA RpcInitTypes == RpcInit => RpcTypeOK
<1> SUFFICES ASSUME RpcInit PROVE RpcTypeOK
  OBVIOUS
<1>1. <<>> \in Seq(Calls) /\ <<>> \in Seq(Lines)
  OBVIOUS
<1>2. \A c \in Calls : ~(c < 0) /\ c # 0
  BY RpcAssumption DEF Calls
<1> QED BY <1>1, <1>2, RpcAssumption DEF RpcInit, RpcTypeOK

\* The client, its connection and the results have their types, whether the
\* caller goes on after an error or not.
THEOREM RpcTypeTheorem == RpcSpec => []RpcTypeOK
<1>1. RpcTypeOK /\ [RpcNext]_rpcVars => RpcTypeOK'
  BY RpcTypeStep
<1> QED BY <1>1, RpcInitTypes, PTL DEF RpcSpec

\* What chunkify sends for a call, taken apart line by line.
LEMMA AnswerFacts ==
  ASSUME NEW c \in Calls
  PROVE  /\ chunkify(c) # <<>> /\ Head(chunkify(c)) \in {Line("message", c), Line("chunk-stream", c)}
         /\ Head(chunkify(c)) = Line("message", c) => Tail(chunkify(c)) = <<>>
         /\ Head(chunkify(c)) = Line("chunk-stream", c) => Tail(chunkify(c)) \in ChunksLeft(c)
         /\ \A b \in ChunksLeft(c) :
              /\ b # <<>> /\ Head(b) \in {Line("part", c), Line("end", c)}
              /\ Head(b) = Line("part", c) => Tail(b) \in ChunksLeft(c)
              /\ Head(b) = Line("end", c) => Tail(b) = <<>>
<1> DEFINE m == Line("message", c)
           s == Line("chunk-stream", c)
           p == Line("part", c)
           e == Line("end", c)
<1>1. m # s /\ p # e /\ m \in Lines /\ s \in Lines /\ p \in Lines /\ e \in Lines
  BY LineFacts
<1> HIDE DEF m, s, p, e
<1>2. /\ <<m>> # <<>> /\ Head(<<m>>) = m /\ Tail(<<m>>) = <<>>
      /\ <<e>> # <<>> /\ Head(<<e>>) = e /\ Tail(<<e>>) = <<>>
  OBVIOUS
<1>3. /\ <<p, e>> # <<>> /\ Head(<<p, e>>) = p /\ Tail(<<p, e>>) = <<e>>
      /\ <<p, p, e>> # <<>> /\ Head(<<p, p, e>>) = p /\ Tail(<<p, p, e>>) = <<p, e>>
  OBVIOUS
<1>4. <<s, p, p, e>> # <<>> /\ Head(<<s, p, p, e>>) = s /\ Tail(<<s, p, p, e>>) = <<p, p, e>>
  OBVIOUS
<1>5. ChunksLeft(c) = {<<p, p, e>>, <<p, e>>, <<e>>}
  BY DEF ChunksLeft, p, e
<1>6. chunkify(c) = IF c \in Long THEN <<s, p, p, e>> ELSE <<m>>
  BY DEF chunkify, m, s, p, e
<1>7. \A b \in ChunksLeft(c) :
              /\ b # <<>> /\ Head(b) \in {p, e}
              /\ Head(b) = p => Tail(b) \in ChunksLeft(c)
              /\ Head(b) = e => Tail(b) = <<>>
  BY <1>1, <1>2, <1>3, <1>5
<1>8. /\ chunkify(c) # <<>> /\ Head(chunkify(c)) \in {m, s}
      /\ Head(chunkify(c)) = m => Tail(chunkify(c)) = <<>>
      /\ Head(chunkify(c)) = s => Tail(chunkify(c)) \in ChunksLeft(c)
  BY <1>1, <1>2, <1>4, <1>5, <1>6
<1> QED BY <1>7, <1>8 DEF m, s, p, e

\* What a silent connection owes, and what a step leaves of what is owed.
LEMMA OwedFacts ==
  ASSUME RpcTypeOK, RpcTypeOK', NEW d \in Calls
  PROVE  /\ Silent => ~Owed(d)
         /\ Silent' => ~Owed(d)'
         /\ UNCHANGED <<inbox, outbox>> => (Owed(d)' <=> Owed(d))
         /\ outbox # <<>> /\ outbox' = Tail(outbox) /\ UNCHANGED inbox =>
              (Owed(d)' => Owed(d)) /\ Owed(Head(outbox).of)
         /\ outbox' = outbox /\ inbox' = Append(inbox, call) => (Owed(d)' => Owed(d) \/ d = call)
<1>1. inbox \in Seq(Calls) /\ outbox \in Seq(Lines)
  BY DEF RpcTypeOK
<1>2. (Silent => ~Owed(d)) /\ (Silent' => ~Owed(d)')
  BY DEF Silent, Owed
<1>3. UNCHANGED <<inbox, outbox>> => (Owed(d)' <=> Owed(d))
  BY DEF Owed
<1>4. ASSUME outbox # <<>>, outbox' = Tail(outbox), UNCHANGED inbox
      PROVE  (Owed(d)' => Owed(d)) /\ Owed(Head(outbox).of)
  <2>1. /\ Len(outbox) \in Nat /\ Len(outbox) >= 1 /\ Len(outbox') = Len(outbox) - 1
        /\ Head(outbox) = outbox[1]
        /\ \A i \in 1..Len(outbox') : outbox'[i] = outbox[i + 1] /\ i + 1 \in 1..Len(outbox)
    BY <1>1, <1>4
  <2>2. Owed(Head(outbox).of)
    BY <2>1 DEF Owed
  <2> QED BY <1>4, <2>1, <2>2 DEF Owed
<1>5. ASSUME outbox' = outbox, inbox' = Append(inbox, call), Owed(d)'
      PROVE  Owed(d) \/ d = call
  <2>1. /\ Len(inbox') = Len(inbox) + 1 /\ Len(inbox) \in Nat
        /\ inbox'[Len(inbox) + 1] = call
        /\ \A i \in 1..Len(inbox) : inbox'[i] = inbox[i]
    BY <1>1, <1>5
  <2>2. \A i \in 1..Len(inbox') : i \in 1..Len(inbox) \/ i = Len(inbox) + 1
    BY <2>1
  <2> QED BY <1>5, <2>1, <2>2 DEF Owed
<1> QED BY <1>2, <1>3, <1>4, <1>5

\* The server answers what it was asked.
LEMMA OwedServe ==
  ASSUME RpcTypeOK, Serve, NEW d \in Calls, Owed(d)'
  PROVE  Owed(d)
<1> DEFINE h == Head(inbox)
           a == chunkify(h)
<1>1. inbox # <<>> /\ inbox' = Tail(inbox) /\ outbox' = outbox \o a
  BY DEF Serve
<1>2. inbox \in Seq(Calls) /\ outbox \in Seq(Lines) /\ h \in Calls
  BY <1>1, BoxTypes DEF RpcTypeOK
<1>3. a \in Seq(Lines) /\ \A i \in 1..Len(a) : a[i].of = h
  <2>1. \A k \in {"message", "chunk-stream", "part", "end"} : Line(k, h).of = h
    BY <1>2, LineFacts
  <2>2. a = <<Line("chunk-stream", h), Line("part", h), Line("part", h), Line("end", h)>>
          \/ a = <<Line("message", h)>>
    BY DEF chunkify
  <2>3. a \in Seq(Lines)
    BY <1>2, LineFacts
  <2> HIDE DEF a, h
  <2>4. CASE a = <<Line("message", h)>>
    <3>1. Len(a) = 1 /\ a[1] = Line("message", h)
      BY <2>4
    <3> QED BY <2>1, <2>3, <3>1
  <2>5. CASE a = <<Line("chunk-stream", h), Line("part", h), Line("part", h), Line("end", h)>>
    <3>1. /\ Len(a) = 4 /\ a[1] = Line("chunk-stream", h) /\ a[2] = Line("part", h)
          /\ a[3] = Line("part", h) /\ a[4] = Line("end", h)
      BY <2>5
    <3>2. \A i \in 1..4 : i = 1 \/ i = 2 \/ i = 3 \/ i = 4
      OBVIOUS
    <3> QED BY <2>1, <2>3, <3>1, <3>2
  <2> QED BY <2>2, <2>4, <2>5
<1> HIDE DEF a
<1>4. /\ Len(inbox) \in Nat /\ Len(inbox) >= 1 /\ Len(inbox') = Len(inbox) - 1
      /\ h = inbox[1]
      /\ \A i \in 1..Len(inbox') : inbox'[i] = inbox[i + 1] /\ i + 1 \in 1..Len(inbox)
  BY <1>1, <1>2
<1>5. /\ Len(outbox) \in Nat /\ Len(a) \in Nat /\ Len(outbox') = Len(outbox) + Len(a)
      /\ \A i \in 1..Len(outbox') :
           outbox'[i] = IF i <= Len(outbox) THEN outbox[i] ELSE a[i - Len(outbox)]
  BY <1>1, <1>2, <1>3
<1>6. CASE \E i \in 1..Len(outbox') : outbox'[i].of = d
  <2>1. PICK i \in 1..Len(outbox') : outbox'[i].of = d
    BY <1>6
  <2>2. CASE i <= Len(outbox)
    BY <1>5, <2>1, <2>2 DEF Owed
  <2>3. CASE ~(i <= Len(outbox))
    <3>1. i - Len(outbox) \in 1..Len(a) /\ outbox'[i] = a[i - Len(outbox)]
      BY <1>5, <2>1, <2>3
    <3>2. d = h
      BY <1>3, <2>1, <3>1
    <3> QED BY <1>4, <3>2 DEF Owed
  <2> QED BY <2>2, <2>3
<1>7. CASE \E i \in 1..Len(inbox') : inbox'[i] = d
  BY <1>4, <1>7 DEF Owed
<1> QED BY <1>6, <1>7 DEF Owed

\* A call that ends changes no other result, so who is to blame stays to blame.
LEMMA BlameStays ==
  ASSUME RpcTypeOK, pc # "idle", \A c \in Calls : c # call => result'[c] = result[c]
  PROVE  /\ \A d \in Calls : Blamed(d) => Blamed(d)'
         /\ Failed => Failed'
         /\ \A b \in Calls : result[b] = Raised => b < call
<1>1. call \in Calls /\ result[call] = Pending /\ Pending # Raised
  BY CallMade, RpcAssumption DEF Pending, Raised
<1>2. \A b \in Calls : result[b] = Raised => b # call /\ result'[b] = Raised
  BY <1>1
<1>3. \A b \in Calls : result[b] = Raised => b < call
  BY <1>1, <1>2 DEF RpcTypeOK
<1> QED BY <1>2, <1>3 DEF Blamed, Failed

\* An error leaves the connection silent, or the call raised.
LEMMA ErrorKeeps ==
  ASSUME RpcInv, pc # "idle", Error, UNCHANGED call
  PROVE  RpcInv'
<1>1. RpcTypeOK /\ call \in Calls /\ call \in Nat
  BY CallMade DEF RpcInv
<1>2. RpcTypeOK'
  BY <1>1, ErrorTypes
<1>3. CASE count >= 3
  <2>1. Return(Raised) /\ UNCHANGED <<inbox, outbox>>
    BY <1>3 DEF Error
  <2>2. /\ result'[call] = Raised /\ pc' = "idle"
        /\ \A c \in Calls : c # call => result'[c] = result[c]
    BY <1>1, <2>1, ReturnTypes
  <2>3. Failed' /\ Blamed(call)'
    BY <1>1, <2>2 DEF Failed, Blamed, Calls
  <2>4. LateInv'
    <3> SUFFICES ASSUME NEW d \in Calls, Owed(d)'
                 PROVE  d <= call /\ Blamed(d)'
      BY DEF LateInv
    <3>1. d <= call /\ (d < call => Blamed(d))
      BY <1>1, <1>2, <2>1, OwedFacts DEF RpcInv, LateInv
    <3>2. d < call => Blamed(d)'
      BY <1>1, <2>2, <3>1, BlameStays
    <3> QED BY <1>1, <2>3, <3>1, <3>2 DEF Calls
  <2>5. AnswersMatch'
    <3> SUFFICES ASSUME NEW c \in Calls, result'[c] \notin {c, Raised, Pending}
                 PROVE  result'[c] < c /\ \E b \in 1..result'[c] : result'[b] = Raised
      BY DEF AnswersMatch, Pending, Raised
    <3>1. c # call /\ result'[c] = result[c]
      BY <2>2
    <3>2. result[c] < c /\ \E b \in 1..result[c] : result[b] = Raised
      BY <3>1 DEF RpcInv, AnswersMatch
    <3>3. PICK b \in 1..result[c] : result[b] = Raised
      BY <3>2
    <3>4. result[c] \in Calls
      BY <1>1, <3>1 DEF RpcTypeOK
    <3>5. b \in Calls
      BY <3>3, <3>4, RpcAssumption DEF Calls
    <3>6. result'[b] = Raised
      BY <2>2, <3>3, <3>5
    <3> QED BY <3>1, <3>2, <3>3, <3>6
  <2> QED BY <1>2, <2>3, <2>4, <2>5 DEF RpcInv
<1>4. CASE ~(count >= 3)
  <2>1. pc' = "send" /\ Silent' /\ UNCHANGED result
    BY <1>4 DEF Error, Silent
  <2>2. LateInv'
    BY <1>1, <1>2, <2>1, OwedFacts DEF LateInv
  <2>3. AnswersMatch' /\ ConnectionInv'
    BY <2>1 DEF RpcInv, AnswersMatch, Calls, Raised, Pending, ConnectionInv
  <2> QED BY <1>2, <2>2, <2>3 DEF RpcInv
<1> QED BY <1>3, <1>4

\* A call that returns an answer that was owed: its own with nothing left on the
\* connection, or whatever comes first after an exception.
LEMMA ReturnKeeps ==
  ASSUME RpcInv, RpcTypeOK', pc # "idle", outbox # <<>>, outbox' = Tail(outbox), UNCHANGED <<call, inbox>>,
         Return(Head(outbox).of), ~Failed => Head(outbox).of = call /\ Silent'
  PROVE  RpcInv'
<1> DEFINE a == Head(outbox).of
<1>1. RpcTypeOK /\ call \in Calls /\ call \in Nat /\ result[call] = Pending
  BY CallMade DEF RpcInv
<1>2. a \in Calls /\ a \in Nat /\ a # Raised
  <2>1. Head(outbox) \in Lines
    BY <1>1, BoxTypes
  <2> QED BY <2>1, RpcAssumption DEF Lines, Calls, Raised
<1>3. /\ pc' = "idle" /\ result'[call] = a
      /\ \A c \in Calls : c # call => result'[c] = result[c]
  BY <1>1, <1>2, ReturnTypes
<1>4. Owed(a) /\ \A d \in Calls : Owed(d)' => Owed(d)
  BY <1>1, <1>2, OwedFacts
<1>5. a <= call /\ (a < call => Blamed(a))
  BY <1>2, <1>4 DEF RpcInv, LateInv
<1>6. /\ \A d \in Calls : Blamed(d) => Blamed(d)'
      /\ Failed => Failed'
      /\ \A b \in Calls : result[b] = Raised => b < call
  BY <1>1, <1>3, BlameStays
<1>7. AnswersMatch'
  <2> SUFFICES ASSUME NEW c \in Calls, result'[c] \notin {c, Raised, Pending}
               PROVE  result'[c] < c /\ \E b \in 1..result'[c] : result'[b] = Raised
    BY DEF AnswersMatch, Raised, Pending
  <2>1. CASE c = call
    <3>1. a < call
      BY <1>1, <1>2, <1>3, <1>5, <2>1
    <3>2. PICK b \in Calls : b <= a /\ result'[b] = Raised
      BY <1>2, <1>5, <1>6, <3>1 DEF Blamed
    <3>3. b \in 1..a
      BY <1>2, <3>2, RpcAssumption DEF Calls
    <3> QED BY <1>3, <2>1, <3>1, <3>2, <3>3
  <2>2. CASE c # call
    <3>1. result'[c] = result[c]
      BY <1>3, <2>2
    <3>2. PICK b \in 1..result[c] : result[c] < c /\ result[b] = Raised
      BY <3>1 DEF RpcInv, AnswersMatch
    <3>3. result[c] \in Calls
      BY <1>1, <3>1 DEF RpcTypeOK
    <3>4. b \in Calls
      BY <3>2, <3>3, RpcAssumption DEF Calls
    <3>5. result'[b] = Raised
      BY <1>3, <1>6, <1>1, <3>2, <3>4
    <3> QED BY <3>1, <3>2, <3>5
  <2> QED BY <2>1, <2>2
<1>8. LateInv'
  <2> SUFFICES ASSUME NEW d \in Calls, Owed(d)' PROVE d <= call /\ Blamed(d)'
    BY DEF LateInv
  <2>1. d <= call /\ (d < call => Blamed(d))
    BY <1>4 DEF RpcInv, LateInv
  <2>2. CASE d < call
    BY <1>6, <2>1, <2>2
  <2>3. CASE ~(d < call)
    <3>1. d = call /\ d \in Nat
      BY <1>1, <2>1, <2>3, RpcAssumption DEF Calls
    <3>2. Failed
      BY <1>1, OwedFacts
    <3>3. PICK b \in Calls : result[b] = Raised
      BY <3>2 DEF Failed
    <3>4. b <= d
      BY <1>6, <3>1, <3>3, RpcAssumption DEF Calls
    <3>5. Blamed(d)
      BY <3>3, <3>4 DEF Blamed
    <3> QED BY <1>6, <2>1, <3>5
  <2> QED BY <2>2, <2>3
<1>9. ~Failed' => ConnectionInv'
  BY <1>3, <1>6 DEF ConnectionInv
<1> QED BY <1>7, <1>8, <1>9 DEF RpcInv

\* A step that ends no call keeps who is to blame, and owes nothing new.
LEMMA NoResult ==
  ASSUME RpcInv, RpcTypeOK', UNCHANGED <<result, call>>,
         pc' = "idle" => pc = "idle",
         \A d \in Calls : Owed(d)' => Owed(d) \/ (d = call /\ pc' # "idle"),
         ~Failed => ConnectionInv'
  PROVE  RpcInv'
<1>1. (Failed' <=> Failed) /\ \A d \in Calls : Blamed(d)' <=> Blamed(d)
  BY DEF Failed, Blamed
<1>2. AnswersMatch'
  BY DEF RpcInv, AnswersMatch, Calls, Raised, Pending
<1>3. LateInv'
  <2> SUFFICES ASSUME NEW d \in Calls, Owed(d)'
               PROVE  d <= call /\ (d < call \/ pc' = "idle" => Blamed(d))
    BY <1>1 DEF LateInv
  <2>1. CASE Owed(d)
    BY <2>1 DEF RpcInv, LateInv
  <2>2. CASE d = call /\ pc' # "idle"
    BY <2>2, RpcAssumption DEF Calls
  <2> QED BY <2>1, <2>2
<1> QED BY <1>1, <1>2, <1>3 DEF RpcInv

\* Every step of the client, the server and the connection keeps the invariant.
LEMMA RpcInvStep ==
  ASSUME RpcInv, [RpcNext]_rpcVars
  PROVE  RpcInv'
<1>1. RpcTypeOK /\ RpcTypeOK'
  BY RpcTypeStep DEF RpcInv
<1>2. UNCHANGED result =>
        (Failed' <=> Failed) /\ (AnswersMatch' <=> AnswersMatch)
        /\ \A d \in Calls : Blamed(d)' <=> Blamed(d)
  BY DEF Failed, AnswersMatch, Calls, Pending, Raised, Blamed
<1>3. CASE SendMessage
  <2>1. /\ pc = "idle" /\ pc' = "send" /\ call' = call + 1 /\ call \in Nat
        /\ UNCHANGED <<conn, inbox, outbox, result>>
    BY <1>1, <1>3, RpcAssumption DEF SendMessage, RpcTypeOK
  <2>2. ~Failed => Silent'
    BY <2>1 DEF RpcInv, ConnectionInv, Silent
  <2>3. LateInv'
    <3> SUFFICES ASSUME NEW d \in Calls, Owed(d)' PROVE d <= call' /\ Blamed(d)'
      BY DEF LateInv
    <3>1. d <= call /\ Blamed(d)
      BY <1>1, <2>1, OwedFacts DEF RpcInv, LateInv
    <3>2. d <= call'
      BY <2>1, <3>1, RpcAssumption DEF Calls
    <3> QED BY <1>2, <2>1, <3>1, <3>2
  <2> QED BY <1>1, <1>2, <2>1, <2>2, <2>3 DEF RpcInv, ConnectionInv
<1>4. CASE Write
  <2>1. pc = "send" /\ pc' = "read" /\ UNCHANGED <<call, result, outbox>>
    BY <1>4 DEF Write
  <2>2. \A d \in Calls : Owed(d)' => Owed(d) \/ d = call
    BY <1>1, <1>4, OwedFacts DEF Write
  <2>3. Append(<<>>, call) = <<call>>
    OBVIOUS
  <2>4. ~Failed => /\ conn' # "none"
                   /\ (Silent' /\ conn' = "broken") \/ (inbox' = <<call>> /\ outbox' = <<>>)
    BY <1>4, <2>1, <2>3 DEF Write, RpcInv, ConnectionInv, Silent
  <2>5. ~Failed => ConnectionInv'
    BY <2>1, <2>4 DEF ConnectionInv
  <2> QED BY <1>1, <2>1, <2>2, <2>5, NoResult
<1>5. CASE ReadMessage
  <2> DEFINE l == Head(outbox)
  <2>1. pc = "read" /\ outbox # <<>> /\ call \in Calls /\ l \in Lines
    BY <1>1, <1>5, CallMade, BoxTypes DEF ReadMessage
  <2>2. ~Failed => inbox = <<>> /\ outbox = chunkify(call)
    BY <2>1 DEF RpcInv, ConnectionInv, Silent
  <2>3. ~Failed =>
          /\ l \in {Line("message", call), Line("chunk-stream", call)}
          /\ l = Line("message", call) => Tail(outbox) = <<>>
          /\ l = Line("chunk-stream", call) => Tail(outbox) \in ChunksLeft(call)
    BY <2>1, <2>2, AnswerFacts
  <2>4. CASE l.kind = "message"
    <3>1. outbox' = Tail(outbox) /\ Return(l.of) /\ UNCHANGED <<call, inbox>>
      BY <1>5, <2>4 DEF ReadMessage
    <3>2. ~Failed => l.of = call /\ Silent'
      BY <2>1, <2>2, <2>3, <2>4, <3>1, LineFacts DEF Silent
    <3> QED BY <1>1, <2>1, <3>1, <3>2, ReturnKeeps
  <2>5. CASE l.kind = "chunk-stream"
    <3>1. /\ outbox' = Tail(outbox) /\ pc' = "chunks"
          /\ UNCHANGED <<call, conn, inbox, result>>
      BY <1>5, <2>5 DEF ReadMessage
    <3>2. ChunksLeft(call)' = ChunksLeft(call)
      BY <3>1 DEF ChunksLeft, Line
    <3>3. ~Failed => inbox = <<>> /\ outbox' \in ChunksLeft(call)' /\ conn # "none"
      BY <2>1, <2>2, <2>3, <2>5, <3>1, <3>2, LineFacts DEF RpcInv, ConnectionInv
    <3>4. ~Failed => ConnectionInv'
      BY <3>1, <3>3 DEF ConnectionInv
    <3>5. \A d \in Calls : Owed(d)' => Owed(d)
      BY <1>1, <2>1, <3>1, OwedFacts
    <3> QED BY <1>1, <3>1, <3>4, <3>5, NoResult
  <2>6. CASE l.kind \in {"part", "end"}
    BY <1>5, <2>1, <2>6, ErrorKeeps DEF ReadMessage
  <2> QED BY <2>1, <2>4, <2>5, <2>6 DEF Lines
<1>6. CASE ReadChunks
  <2> DEFINE l == Head(outbox)
  <2>1. /\ pc = "chunks" /\ outbox # <<>> /\ call \in Calls /\ l \in Lines
        /\ outbox' = Tail(outbox) /\ UNCHANGED <<call, inbox, conn>>
    BY <1>1, <1>6, CallMade, BoxTypes DEF ReadChunks
  <2>2. ~Failed => inbox = <<>> /\ outbox \in ChunksLeft(call)
    BY <2>1 DEF RpcInv, ConnectionInv, Silent
  <2>3. ~Failed =>
          /\ l \in {Line("part", call), Line("end", call)}
          /\ l = Line("part", call) => Tail(outbox) \in ChunksLeft(call)
          /\ l = Line("end", call) => Tail(outbox) = <<>>
    BY <2>1, <2>2, AnswerFacts
  <2>4. CASE l.kind = "end"
    <3>1. Return(l.of)
      BY <1>6, <2>4 DEF ReadChunks
    <3>2. ~Failed => l.of = call /\ Silent'
      BY <2>1, <2>2, <2>3, <2>4, LineFacts DEF Silent
    <3> QED BY <1>1, <2>1, <3>1, <3>2, ReturnKeeps
  <2>5. CASE l.kind # "end"
    <3>1. UNCHANGED <<pc, result>>
      BY <1>6, <2>5 DEF ReadChunks
    <3>2. ChunksLeft(call)' = ChunksLeft(call)
      BY <2>1 DEF ChunksLeft, Line
    <3>3. ~Failed => inbox = <<>> /\ outbox' \in ChunksLeft(call)' /\ conn # "none"
      BY <2>1, <2>2, <2>3, <2>5, <3>2, LineFacts DEF RpcInv, ConnectionInv
    <3>4. ~Failed => ConnectionInv'
      BY <2>1, <3>1, <3>3 DEF ConnectionInv
    <3>5. \A d \in Calls : Owed(d)' => Owed(d)
      BY <1>1, <2>1, OwedFacts
    <3> QED BY <1>1, <2>1, <3>1, <3>4, <3>5, NoResult
  <2> QED BY <2>4, <2>5
<1>7. CASE TimeOut \/ ConnectionClosed
  BY <1>7, ErrorKeeps DEF TimeOut, ConnectionClosed
<1>8. CASE Serve
  <2>1. inbox # <<>> /\ inbox' = Tail(inbox) /\ outbox' = outbox \o chunkify(Head(inbox))
        /\ UNCHANGED <<call, pc, conn, result>>
    BY <1>8 DEF Serve
  <2>2. ~Failed => ConnectionInv'
    <3> SUFFICES ASSUME ~Failed PROVE ConnectionInv'
      OBVIOUS
    <3>1. pc = "read" /\ inbox = <<call>> /\ outbox = <<>> /\ conn # "none"
      BY <1>1, <2>1 DEF RpcInv, ConnectionInv, Silent, RpcTypeOK
    <3>2. call \in Calls
      BY <1>1, <3>1, CallMade
    <3>3. Head(<<call>>) = call /\ Tail(<<call>>) = <<>>
      OBVIOUS
    <3>4. <<>> \o chunkify(call) = chunkify(call)
      BY <3>2, LineFacts
    <3>5. chunkify(call)' = chunkify(call)
      BY <2>1 DEF chunkify, Line
    <3>6. inbox' = <<>> /\ outbox' = chunkify(call)'
      BY <2>1, <3>1, <3>3, <3>4, <3>5
    <3> QED BY <2>1, <3>1, <3>6 DEF ConnectionInv
  <2>3. \A d \in Calls : Owed(d)' => Owed(d)
    BY <1>1, <1>8, OwedServe
  <2> QED BY <1>1, <2>1, <2>2, <2>3, NoResult
<1>9. CASE Break
  <2>1. conn' = "broken" /\ Silent' /\ UNCHANGED <<call, pc, result>>
    BY <1>9 DEF Break, Silent
  <2>2. \A d \in Calls : ~Owed(d)'
    BY <1>1, <2>1, OwedFacts
  <2>3. ~Failed => ConnectionInv'
    BY <2>1 DEF RpcInv, ConnectionInv
  <2> QED BY <1>1, <2>1, <2>2, <2>3, NoResult
<1>10. CASE UNCHANGED rpcVars
  <2>1. chunkify(call)' = chunkify(call) /\ ChunksLeft(call)' = ChunksLeft(call)
    BY <1>10 DEF rpcVars, chunkify, ChunksLeft, Line
  <2>2. UNCHANGED <<call, pc, count, conn, inbox, outbox, result>>
    BY <1>10 DEF rpcVars
  <2>3. \A d \in Calls : Owed(d)' => Owed(d)
    BY <2>2 DEF Owed
  <2>4. ~Failed => ConnectionInv'
    BY <2>1, <2>2 DEF RpcInv, ConnectionInv, Silent
  <2> QED BY <1>1, <2>2, <2>3, <2>4, NoResult
<1> QED
  BY <1>3, <1>4, <1>5, <1>6, <1>7, <1>8, <1>9, <1>10 DEF RpcNext, Client, Done

\* send_message and _send_wrapper: a call raises, or returns the answer to its own
\* request, or that to an earlier call after one that raised, for any number of
\* calls, long answers, time-outs and broken connections, also of a client that is
\* used on after an exception.
THEOREM AnswersMatchTheorem == RpcSpec => []AnswersMatch
<1>1. RpcInit => RpcInv
  <2> SUFFICES ASSUME RpcInit PROVE RpcInv
    OBVIOUS
  <2>1. RpcTypeOK /\ Silent /\ pc = "idle"
    BY RpcInitTypes DEF RpcInit, Silent
  <2>2. \A c \in Calls : result[c] = Pending
    BY DEF RpcInit
  <2>3. LateInv
    BY <2>1 DEF LateInv, Owed, Silent
  <2> QED BY <2>1, <2>2, <2>3 DEF RpcInv, ConnectionInv, AnswersMatch
<1>2. RpcInv /\ [RpcNext]_rpcVars => RpcInv'
  BY RpcInvStep
<1>3. RpcInv => AnswersMatch
  BY DEF RpcInv
<1> QED BY <1>1, <1>2, <1>3, PTL DEF RpcSpec
-----------------------------------------------------------------------------
(* The PR service.  A row never goes down, and in "History" mode never      *)
(* changes; so every answer, and every row of an import that is complete,   *)
(* is still below its row.                                                  *)

\* What is not committed belongs to a server that is about to commit.
Synced == \A s \in Servers : s \notin syncing => table[s] = disk[s]

\* No value is larger than the number of answers: a largest one exists.
Below(tab, n) == \A v \in Versions, c \in Checksums : tab[v][c] >= Absent /\ tab[v][c] < n

Bounded ==
  /\ \A s \in Servers : Below(table[s], Len(log))
  /\ \A r \in file.rows : r.value < Len(log)

Answered ==
  \A i \in DOMAIN log :
    LET row == table[log[i].s][log[i].v][log[i].c]
    IN  log[i].value <= row /\ (~nohist => log[i].value = row)

\* In a server without imports rows have different values, and each was answered.
OwnRows ==
  \A s \in Servers : Untouched(s) => \A v \in Versions, c \in Checksums :
    table[s][v][c] # Absent =>
      /\ \A d \in Checksums : table[s][v][d] = table[s][v][c] => d = c
      /\ \E i \in DOMAIN log : log[i].s = s /\ log[i].v = v /\ log[i].c = c

Importing ==
  "to" \in DOMAIN file =>
    /\ file.left \subseteq file.rows
    /\ nohist => \A r \in file.rows \ file.left : r.value <= table[file.to][r.v][r.c]

ImportedRows ==
  nohist => \A s \in Servers : \A im \in imported[s] : \A r \in im.rows :
    r.value <= table[s][r.v][r.c]

PrInv ==
  /\ PrTypeOK /\ Synced /\ Bounded /\ Answered /\ OwnRows /\ Importing /\ ImportedRows
  /\ NeverDecremented /\ OneBuildPerValue /\ HistoricalValue /\ ImportKeepsUp

Less == OpToRel(<, Nat)

\* The least-number principle, from the well-foundedness of < on Nat.
LEMMA LeastNat ==
  ASSUME NEW T \in SUBSET Nat, T # {}
  PROVE  \E x \in T : \A y \in T : x <= y
<1>1. IsWellFoundedOn(Less, Nat)
  BY NatLessThanWellFounded, Zenon DEF Less
<1>2. \A x, y \in Nat : <<x, y>> \in Less <=> x < y
  BY DEF Less, OpToRel
<1>3. PICK x \in T : \A y \in T : ~ (<<y, x>> \in Less)
  <2> HIDE DEF Less
  <2> QED BY <1>1, WFMin, Zenon
<1>4. \A y \in T : ~ (y < x)
  BY <1>2, <1>3
<1> QED BY <1>4

\* Max chooses a largest member of a set of integers that is bounded.
LEMMA MaxFacts ==
  ASSUME NEW S \in SUBSET Int, S # {}, NEW n \in Int, \A x \in S : x <= n
  PROVE  Max(S) \in S /\ \A x \in S : x <= Max(S)
<1> DEFINE T == {k \in Nat : n - k \in S}
<1>1. PICK s \in S : TRUE
  OBVIOUS
<1>2. n - (n - s) = s /\ n - s \in Nat
  BY <1>1
<1>3. n - s \in T
  BY <1>2
<1>4. PICK k \in T : \A j \in T : k <= j
  <2>1. T # {} /\ T \in SUBSET Nat
    BY <1>3
  <2> HIDE DEF T
  <2> QED BY <2>1, LeastNat
<1>5. n - k \in S /\ k \in Nat
  OBVIOUS
<1>6. ASSUME NEW x \in S PROVE n - k >= x
  <2>1. n - (n - x) = x /\ n - x \in Nat
    OBVIOUS
  <2>2. n - x \in T
    BY <2>1
  <2>3. k <= n - x
    BY <2>2, <1>4
  <2> QED BY <2>3, <1>5
<1>7. \E x \in S : \A y \in S : x >= y
  BY <1>5, <1>6
<1>8. Max(S) \in S /\ \A y \in S : Max(S) >= y
  BY <1>7, Zenon DEF Max
<1> QED BY <1>8

\* The largest value of a version, Absent if it has no rows.
LEMMA LargestValue ==
  ASSUME NEW tab \in Table, NEW n \in Nat, Below(tab, n), NEW v \in Versions
  PROVE  LET m == Max0(Values(tab, v))
         IN  m \in Int /\ m >= Absent /\ m < n /\ \A d \in Checksums : tab[v][d] <= m
<1> DEFINE S == Values(tab, v) \cup {Absent}
<1>1. S \in SUBSET Int /\ S # {}
  BY DEF Values, Absent, Table
<1>2. \A x \in S : x <= n /\ x < n /\ x >= Absent
  BY DEF Values, Absent, Below, Table
<1>3. Max(S) \in S /\ \A x \in S : x <= Max(S)
  <2> HIDE DEF S
  <2> QED BY <1>1, <1>2, MaxFacts
<1>4. \A d \in Checksums : tab[v][d] \in S
  BY DEF Values
<1> HIDE DEF S
<1> QED BY <1>1, <1>2, <1>3, <1>4 DEF Max0, S

\* getValue answers from a row that is kept or raised; it raises one above all
\* others, and in "No History" mode answers with the largest.
LEMMA GetFacts ==
  ASSUME PrTypeOK, NEW tab \in Table, NEW n \in Nat, Below(tab, n),
         NEW v \in Versions, NEW c \in Checksums,
         NEW new, new = getValue(tab, v, c)
  PROVE  /\ new \in Table /\ Below(new, n + 1)
         /\ new[v][c] \in Nat
         /\ \A w \in Versions, d \in Checksums : w # v \/ d # c => new[w][d] = tab[w][d]
         /\ \/ new = tab /\ tab[v][c] # Absent
               /\ (nohist => \A d \in Checksums : tab[v][d] <= tab[v][c])
            \/ (\A d \in Checksums : tab[v][d] < new[v][c]) /\ (nohist \/ tab[v][c] = Absent)
<1> DEFINE m == Max0(Values(tab, v))
<1>1. m \in Int /\ m >= Absent /\ m < n /\ \A d \in Checksums : tab[v][d] <= m
  BY LargestValue
<1> HIDE DEF m
<1>2. /\ tab[v][c] \in Int /\ tab[v][c] >= Absent
      /\ \A w \in Versions, d \in Checksums : tab[w][d] \in Int /\ tab[w][d] >= Absent /\ tab[w][d] < n
  BY DEF Below, Table
<1>3. CASE new = tab /\ tab[v][c] # Absent /\ (nohist => tab[v][c] >= m)
  <2>1. new[v][c] \in Nat
    BY <1>2, <1>3 DEF Absent
  <2>2. Below(new, n + 1)
    BY <1>2, <1>3 DEF Below
  <2>3. nohist => \A d \in Checksums : tab[v][d] <= tab[v][c]
    BY <1>1, <1>2, <1>3
  <2> QED BY <1>3, <2>1, <2>2, <2>3
<1>4. CASE new = [tab EXCEPT ![v][c] = m + 1] /\ (nohist \/ tab[v][c] = Absent)
  <2>1. m + 1 \in Nat /\ m + 1 < n + 1 /\ m + 1 >= Absent
    BY <1>1 DEF Absent
  <2>2. /\ new \in Table
        /\ new[v][c] = m + 1
        /\ \A w \in Versions, d \in Checksums : w # v \/ d # c => new[w][d] = tab[w][d]
    BY <1>1, <1>4, <2>1 DEF Table
  <2>3. Below(new, n + 1)
    BY <1>2, <2>1, <2>2 DEF Below, Absent
  <2>4. \A d \in Checksums : tab[v][d] < new[v][c]
    BY <1>1, <1>2, <2>2
  <2> QED BY <1>4, <2>1, <2>2, <2>3, <2>4
<1>5. nohist \in BOOLEAN
  BY DEF PrTypeOK
<1>6. QED
  BY <1>3, <1>4, <1>5 DEF getValue, GetValueNohist, GetValueHist, NextValue, m

\* importone raises a row to the imported value, or keeps it; in "History" mode
\* it fills a row that is absent.
LEMMA ImportFacts ==
  ASSUME PrTypeOK, NEW tab \in Table, NEW n \in Nat, Below(tab, n),
         NEW r \in Row, r.value < n, NEW new, new = importone(tab, r)
  PROVE  /\ new \in Table /\ Below(new, n)
         /\ \A v \in Versions, c \in Checksums : tab[v][c] <= new[v][c]
         /\ ~nohist => \A v \in Versions, c \in Checksums :
              tab[v][c] # Absent => new[v][c] = tab[v][c]
         /\ nohist => r.value <= new[r.v][r.c]
<1>1. /\ r.v \in Versions /\ r.c \in Checksums /\ r.value \in Nat
      /\ nohist \in BOOLEAN
      /\ \A w \in Versions, d \in Checksums : tab[w][d] \in Int /\ tab[w][d] >= Absent /\ tab[w][d] < n
  BY DEF Row, PrTypeOK, Below, Table
<1> DEFINE old == tab[r.v][r.c]
           top == Max({old, r.value})
<1>2. top \in {old, r.value} /\ old <= top /\ r.value <= top
  <2>1. {old, r.value} \in SUBSET Int /\ \A x \in {old, r.value} : x <= n
    BY <1>1
  <2> HIDE DEF old
  <2> QED BY <2>1, MaxFacts
<1> HIDE DEF top
<1>3. top \in Int /\ top >= Absent /\ top < n
  BY <1>1, <1>2 DEF Absent
<1>4. CASE nohist
  <2>1. new = [tab EXCEPT ![r.v][r.c] = top]
    BY <1>1, <1>4 DEF importone, ImportNohist, top, Table
  <2>2. /\ new \in Table /\ new[r.v][r.c] = top
        /\ \A w \in Versions, d \in Checksums : w # r.v \/ d # r.c => new[w][d] = tab[w][d]
    BY <1>1, <1>3, <2>1 DEF Table
  <2>3. Below(new, n)
    BY <1>1, <1>3, <2>2 DEF Below
  <2>4. \A v \in Versions, c \in Checksums : tab[v][c] <= new[v][c]
    BY <1>1, <1>2, <1>3, <2>2
  <2> QED BY <1>2, <1>4, <2>2, <2>3, <2>4
<1>5. CASE ~nohist /\ old = Absent
  <2>1. new = [tab EXCEPT ![r.v][r.c] = r.value]
    BY <1>5 DEF importone, ImportHist
  <2>2. /\ new \in Table /\ new[r.v][r.c] = r.value
        /\ \A w \in Versions, d \in Checksums : w # r.v \/ d # r.c => new[w][d] = tab[w][d]
    BY <1>1, <2>1 DEF Table
  <2>3. Below(new, n)
    BY <1>1, <2>2 DEF Below, Absent
  <2>4. \A v \in Versions, c \in Checksums : tab[v][c] <= new[v][c]
    BY <1>1, <1>5, <2>2 DEF Absent
  <2> QED BY <1>5, <2>2, <2>3, <2>4
<1>6. CASE ~nohist /\ old # Absent
  <2>1. new = tab
    BY <1>6 DEF importone, ImportHist
  <2> QED BY <1>1, <1>6, <2>1
<1> QED BY <1>1, <1>4, <1>5, <1>6

\* An export holds rows of the table it was made from.
LEMMA ExportFacts ==
  ASSUME PrTypeOK, NEW tab \in Table, NEW n \in Nat, Below(tab, n)
  PROVE  /\ export(tab) \in SUBSET Row
         /\ \A r \in export(tab) : r.value < n
<1> SUFFICES ASSUME NEW r \in export(tab) PROVE r \in Row /\ r.value < n
  OBVIOUS
<1>1. PICK p \in {q \in Versions \X Checksums : tab[q[1]][q[2]] # Absent} :
        r = [v |-> p[1], c |-> p[2], value |-> tab[p[1]][p[2]]]
  BY DEF export, Rows
<1>2. p[1] \in Versions /\ p[2] \in Checksums /\ tab[p[1]][p[2]] # Absent
  BY <1>1
<1>3. tab[p[1]][p[2]] \in Nat /\ tab[p[1]][p[2]] < n
  BY <1>2 DEF Below, Table, Absent
<1> QED BY <1>1, <1>2, <1>3 DEF Row

\* Imports never leave a server alone again.
LEMMA UntouchedOnce ==
  ASSUME PrTypeOK, [PrNext]_prVars, NEW s \in Servers, Untouched(s)'
  PROVE  Untouched(s)
<1>1. CASE \E x \in Servers : BeginImport(x)
  BY <1>1 DEF BeginImport, Untouched
<1>2. CASE EndImport
  <2>1. /\ "to" \in DOMAIN file /\ file.to \in Servers
        /\ imported' = [imported EXCEPT ![file.to] = @ \cup {[rows |-> file.rows, at |-> Len(log)]}]
    BY <1>2 DEF EndImport, PrTypeOK, Files
  <2>2. imported'[file.to] # {}
    BY <2>1 DEF PrTypeOK
  <2>3. s # file.to
    BY <2>2 DEF Untouched
  <2> QED BY <2>1, <2>3 DEF Untouched, PrTypeOK
<1>3. CASE \E r \in [v : Versions, c : Checksums, value : 0..MaxRequests] : handle_import_one(r)
  <2>1. /\ "to" \in DOMAIN file /\ file' = [file EXCEPT !.left = file'.left] /\ UNCHANGED imported
    BY <1>3 DEF handle_import_one
  <2>2. DOMAIN file' = DOMAIN file /\ file'.to = file.to
    BY <2>1
  <2> QED BY <2>1, <2>2 DEF Untouched
<1>4. CASE UNCHANGED imported /\ (UNCHANGED file \/ file = NoFile)
  BY <1>4 DEF Untouched, NoFile
<1> QED
  BY <1>1, <1>2, <1>3, <1>4
     DEF PrNext, prVars, handle_get_pr, sync_if_dirty, handle_export, Restart

\* An answer names a server, a version and a checksum.
LEMMA LogTypes ==
  ASSUME PrTypeOK
  PROVE  /\ Len(log) \in Nat /\ DOMAIN log = 1..Len(log)
         /\ \A i \in DOMAIN log :
              /\ log[i] \in Answer
              /\ log[i].s \in Servers /\ log[i].v \in Versions /\ log[i].c \in Checksums
              /\ log[i].value \in Nat
<1>1. log \in Seq(Answer)
  BY DEF PrTypeOK
<1>2. \A i \in DOMAIN log : log[i] \in Answer
  BY <1>1
<1>3. Len(log) \in Nat /\ DOMAIN log = 1..Len(log)
  BY <1>1
<1> QED BY <1>2, <1>3 DEF Answer

\* What was promised of answers stays true while no answer is given.
LEMMA LogKept ==
  ASSUME PrInv, UNCHANGED <<nohist, log>>, [PrNext]_prVars
  PROVE  NeverDecremented' /\ OneBuildPerValue' /\ HistoricalValue'
<1>1. PrTypeOK /\ NeverDecremented /\ OneBuildPerValue /\ HistoricalValue
  BY DEF PrInv
<1>2. \A i \in DOMAIN log : log[i].s \in Servers
  BY <1>1, LogTypes
<1>3. \A s \in Servers : Untouched(s)' => Untouched(s)
  BY <1>1, UntouchedOnce
<1>4. NeverDecremented'
  BY <1>1 DEF NeverDecremented
<1>5. OneBuildPerValue'
  BY <1>1, <1>2, <1>3 DEF OneBuildPerValue
<1>6. HistoricalValue'
  BY <1>1, <1>2, <1>3 DEF HistoricalValue
<1> QED BY <1>4, <1>5, <1>6

\* A row that goes up, and in "History" mode only from absence, stays above the
\* answers and the imports made before.
LEMMA RowsGrow ==
  ASSUME PrInv, PrTypeOK', UNCHANGED <<nohist, log>>,
         \A s \in Servers, v \in Versions, c \in Checksums :
           /\ table[s][v][c] <= table'[s][v][c]
           /\ ~nohist /\ table[s][v][c] # Absent => table'[s][v][c] = table[s][v][c]
  PROVE  /\ Answered'
         /\ UNCHANGED imported => ImportedRows'
<1>1. PrTypeOK /\ Answered /\ ImportedRows
  BY DEF PrInv
<1>2. \A s \in Servers, v \in Versions, c \in Checksums :
        table[s][v][c] \in Int /\ table'[s][v][c] \in Int
  BY <1>1 DEF PrTypeOK, Table
<1>3. ASSUME NEW i \in DOMAIN log'
      PROVE  LET row == table'[log'[i].s][log'[i].v][log'[i].c]
             IN  log'[i].value <= row /\ (~nohist' => log'[i].value = row)
  <2> DEFINE a == log[i]
  <2>1. /\ a.s \in Servers /\ a.v \in Versions /\ a.c \in Checksums /\ a.value \in Nat
        /\ log'[i] = a /\ i \in DOMAIN log
    BY <1>1, LogTypes
  <2>2. a.value <= table[a.s][a.v][a.c] /\ (~nohist => a.value = table[a.s][a.v][a.c])
    BY <1>1, <2>1 DEF Answered
  <2> HIDE DEF a
  <2>3. a.value <= table'[a.s][a.v][a.c]
    BY <1>2, <2>1, <2>2
  <2>4. ~nohist => a.value = table'[a.s][a.v][a.c]
    BY <1>2, <2>1, <2>2 DEF Absent
  <2> QED BY <2>1, <2>3, <2>4
<1>4. Answered'
  BY <1>3 DEF Answered
<1>5. ASSUME UNCHANGED imported, nohist, NEW s \in Servers, NEW im \in imported[s], NEW r \in im.rows
      PROVE  r.value <= table'[s][r.v][r.c]
  <2>1. im \in [rows : SUBSET Row, at : Nat]
    BY <1>1 DEF PrTypeOK
  <2>2. r \in Row
    BY <2>1
  <2>3. r.v \in Versions /\ r.c \in Checksums /\ r.value \in Nat
    BY <2>2 DEF Row
  <2>4. r.value <= table[s][r.v][r.c]
    BY <1>1, <1>5 DEF ImportedRows
  <2> QED BY <1>2, <2>3, <2>4
<1> QED BY <1>4, <1>5 DEF ImportedRows

\* Steps that leave every table as it is.
LEMMA TablesKept ==
  ASSUME PrInv, [PrNext]_prVars, PrTypeOK', Synced',
         UNCHANGED <<nohist, log, table>>,
         \A r \in file'.rows : r.value < Len(log),
         Importing',
         UNCHANGED imported \/ (ImportedRows' /\ ImportKeepsUp')
  PROVE  PrInv'
<1>1. PrTypeOK /\ Bounded /\ OwnRows /\ ImportKeepsUp
  BY DEF PrInv
<1>2. \A s \in Servers, v \in Versions, c \in Checksums : table[s][v][c] \in Int
  BY <1>1 DEF PrTypeOK, Table
<1>3. Answered' /\ (UNCHANGED imported => ImportedRows')
  BY <1>2, RowsGrow
<1>4. UNCHANGED imported => ImportKeepsUp'
  BY <1>1 DEF ImportKeepsUp
<1>5. Bounded'
  BY <1>1 DEF Bounded, Below
<1>6. OwnRows'
  <2>1. \A s \in Servers : Untouched(s)' => Untouched(s)
    BY <1>1, UntouchedOnce
  <2> QED BY <1>1, <2>1 DEF OwnRows
<1> QED BY <1>3, <1>4, <1>5, <1>6, LogKept DEF PrInv

\* sync_if_dirty, exports, both ends of an import and a restart between requests.
LEMMA QuietSteps ==
  ASSUME PrInv, ~Crashes, NEW s \in Servers,
         \/ sync_if_dirty(s) \/ handle_export(s) \/ BeginImport(s) \/ Restart(s)
         \/ EndImport
  PROVE  PrInv'
<1> USE PrAssumption
<1>0. PrTypeOK /\ Synced /\ Bounded /\ Importing /\ ImportedRows /\ ImportKeepsUp /\ [PrNext]_prVars
  BY DEF PrInv, PrNext
<1>1. CASE sync_if_dirty(s)
  <2>1. PrTypeOK' /\ Synced'
    BY <1>0, <1>1 DEF sync_if_dirty, PrTypeOK, Synced
  <2>2. Importing'
    BY <1>0, <1>1 DEF sync_if_dirty, Importing
  <2> QED BY <1>0, <1>1, <2>1, <2>2, TablesKept DEF sync_if_dirty, Bounded
<1>2. CASE handle_export(s)
  <2>1. table[s] \in Table /\ Len(log) \in Nat /\ Below(table[s], Len(log))
    BY <1>0, LogTypes DEF PrTypeOK, Bounded
  <2>2. export(table[s]) \in SUBSET Row /\ \A r \in export(table[s]) : r.value < Len(log)
    BY <1>0, <2>1, ExportFacts
  <2>3. file' = [rows |-> export(table[s])]
    BY <1>2 DEF handle_export
  <2>4. file' \in Files
    BY <2>2, <2>3 DEF Files
  <2>5. PrTypeOK'
    BY <1>0, <1>2, <2>4 DEF handle_export, PrTypeOK
  <2>6. Importing' /\ \A r \in file'.rows : r.value < Len(log)
    BY <2>2, <2>3 DEF Importing
  <2> QED BY <1>0, <1>2, <2>5, <2>6, TablesKept DEF handle_export, Synced
<1>3. CASE BeginImport(s)
  <2>1. file.rows \in SUBSET Row
    BY <1>0 DEF PrTypeOK, Files
  <2>2. file' = [rows |-> file.rows, to |-> s, left |-> file.rows]
    BY <1>3 DEF BeginImport
  <2>3. PrTypeOK'
    BY <1>0, <1>3, <2>1, <2>2 DEF BeginImport, PrTypeOK, Files
  <2>4. Importing'
    BY <2>2 DEF Importing
  <2> QED BY <1>0, <1>3, <2>2, <2>3, <2>4, TablesKept DEF BeginImport, Synced, Bounded
<1>4. CASE Restart(s)
  <2>1. s \notin syncing /\ table[s] = disk[s]
    BY <1>0, <1>4 DEF Restart, Synced
  <2>2. table' = table /\ syncing' = syncing
    BY <1>0, <1>4, <2>1 DEF Restart, PrTypeOK
  <2>3. PrTypeOK' /\ Synced' /\ Importing'
    BY <1>0, <1>4, <2>2 DEF Restart, PrTypeOK, Synced, Importing
  <2> QED BY <1>0, <1>4, <2>2, <2>3, TablesKept DEF Restart, Bounded
<1>5. CASE EndImport
  <2> DEFINE t == file.to
             im == [rows |-> file.rows, at |-> Len(log)]
  <2>1. /\ "to" \in DOMAIN file /\ file.left = {} /\ t \in Servers /\ file.rows \in SUBSET Row
        /\ imported' = [imported EXCEPT ![t] = @ \cup {im}] /\ file' = NoFile
        /\ UNCHANGED <<nohist, table, disk, syncing, log, exports>>
    BY <1>0, <1>5 DEF EndImport, PrTypeOK, Files
  <2>2. Len(log) \in Nat /\ im \in [rows : SUBSET Row, at : Nat]
    BY <1>0, <2>1, LogTypes
  <2>3. NoFile \in Files
    BY DEF NoFile, Files
  <2>4. /\ \A x \in Servers : x # t => imported'[x] = imported[x]
        /\ imported'[t] = imported[t] \cup {im}
    BY <1>0, <2>1 DEF PrTypeOK
  <2>5. PrTypeOK'
    BY <1>0, <2>1, <2>2, <2>3 DEF PrTypeOK
  <2>6. Importing' /\ \A r \in file'.rows : r.value < Len(log)
    BY <2>1 DEF Importing, NoFile
  <2>7. nohist => \A r \in im.rows : r.value <= table[t][r.v][r.c]
    BY <1>0, <2>1 DEF Importing
  <2>8. ImportedRows'
    BY <1>0, <2>1, <2>4, <2>7 DEF ImportedRows
  <2>9. \A j \in im.at+1..Len(log) : FALSE
    BY <2>2
  <2>10. ImportKeepsUp'
    <3> HIDE DEF im, t
    <3> QED BY <1>0, <2>1, <2>4, <2>9 DEF ImportKeepsUp
  <2> HIDE DEF im, t
  <2> QED BY <1>0, <2>1, <2>5, <2>6, <2>8, <2>10, TablesKept DEF Synced
<1> QED BY <1>1, <1>2, <1>3, <1>4, <1>5

\* handle_import_one: the row goes up to the imported value and no answer changes.
LEMMA ImportStep ==
  ASSUME PrInv, NEW r \in [v : Versions, c : Checksums, value : 0..MaxRequests],
         handle_import_one(r)
  PROVE  PrInv'
<1> USE PrAssumption
<1>0. /\ PrTypeOK /\ Synced /\ Bounded /\ OwnRows /\ Importing /\ ImportKeepsUp
      /\ [PrNext]_prVars /\ Len(log) \in Nat
  BY LogTypes DEF PrInv, PrNext
<1> DEFINE t == file.to
           new == importone(table[t], r)
<1>1. /\ "to" \in DOMAIN file /\ t \in Servers /\ r \in file.left
      /\ file.rows \in SUBSET Row /\ file.left \in SUBSET Row
      /\ file = [rows |-> file.rows, to |-> t, left |-> file.left]
  BY <1>0 DEF handle_import_one, PrTypeOK, Files
<1>2. /\ table' = [table EXCEPT ![t] = new]
      /\ syncing' = syncing \cup {t}
      /\ file' = [rows |-> file.rows, to |-> t, left |-> file.left \ {r}]
      /\ UNCHANGED <<nohist, disk, log, imported, exports>>
  BY <1>1 DEF handle_import_one
<1>3. r \in Row /\ r.value < Len(log) /\ r \in file.rows /\ r.v \in Versions /\ r.c \in Checksums
  BY <1>0, <1>1 DEF Bounded, Importing, Row
<1>4. /\ new \in Table /\ Below(new, Len(log))
      /\ \A v \in Versions, c \in Checksums : table[t][v][c] <= new[v][c]
      /\ ~nohist => \A v \in Versions, c \in Checksums :
           table[t][v][c] # Absent => new[v][c] = table[t][v][c]
      /\ nohist => r.value <= new[r.v][r.c]
  <2>1. table[t] \in Table /\ Below(table[t], Len(log))
    BY <1>0, <1>1 DEF PrTypeOK, Bounded
  <2> QED BY <1>0, <1>3, <2>1, ImportFacts
<1> HIDE DEF t, new
<1>5. table' \in [Servers -> Table] /\ table'[t] = new /\ \A x \in Servers : x # t => table'[x] = table[x]
  BY <1>0, <1>1, <1>2, <1>4 DEF PrTypeOK
<1>6. file' \in Files /\ DOMAIN file' = DOMAIN file /\ file'.to = t
      /\ file'.rows = file.rows /\ file'.left = file.left \ {r}
  BY <1>1, <1>2 DEF Files
<1>7. PrTypeOK'
  BY <1>0, <1>1, <1>2, <1>5, <1>6 DEF PrTypeOK
<1>8. \A s \in Servers, v \in Versions, c \in Checksums :
        /\ table[s][v][c] \in Int
        /\ table[s][v][c] <= table'[s][v][c]
        /\ ~nohist /\ table[s][v][c] # Absent => table'[s][v][c] = table[s][v][c]
  <2>1. \A s \in Servers, v \in Versions, c \in Checksums : table[s][v][c] \in Int
    BY <1>0 DEF PrTypeOK, Table
  <2> QED BY <1>4, <1>5, <2>1
<1>9. Answered' /\ ImportedRows'
  BY <1>2, <1>7, <1>8, RowsGrow
<1>10. Synced' /\ ImportKeepsUp'
  BY <1>0, <1>2, <1>5 DEF Synced, ImportKeepsUp
<1>11. Bounded'
  BY <1>0, <1>2, <1>4, <1>5, <1>6 DEF Bounded
<1>12. OwnRows'
  <2>1. \A s \in Servers : Untouched(s)' => Untouched(s) /\ s # t
    BY <1>0, <1>1, <1>6, UntouchedOnce DEF Untouched
  <2> QED BY <1>0, <1>2, <1>5, <2>1 DEF OwnRows
<1>13. Importing'
  <2>1. ASSUME nohist, NEW q \in file'.rows \ file'.left PROVE q.value <= table'[t][q.v][q.c]
    <3>1. CASE q = r
      BY <1>4, <1>5, <2>1, <3>1
    <3>2. CASE q # r
      <4>1. q \in file.rows \ file.left /\ q \in Row
        BY <1>1, <1>6, <3>2
      <4>2. q.v \in Versions /\ q.c \in Checksums /\ q.value \in Nat
        BY <4>1 DEF Row
      <4>3. q.value <= table[t][q.v][q.c]
        BY <1>0, <1>1, <2>1, <4>1 DEF Importing, t
      <4>4. table'[t][q.v][q.c] \in Int
        BY <1>1, <1>5, <4>2 DEF Table
      <4> QED BY <1>1, <1>8, <4>2, <4>3, <4>4
    <3> QED BY <3>1, <3>2
  <2>2. file'.left \subseteq file'.rows
    BY <1>0, <1>1, <1>6 DEF Importing
  <2> QED BY <1>2, <1>6, <2>1, <2>2 DEF Importing
<1> QED BY <1>0, <1>2, <1>7, <1>9, <1>10, <1>11, <1>12, <1>13, LogKept DEF PrInv

\* handle_get_pr: the answer is above its row's earlier answers, and above those
\* of all rows of the version unless the checksum has an older one in its history.
LEMMA GetStep ==
  ASSUME PrInv, NEW s \in Servers, NEW v \in Versions, NEW c \in Checksums,
         handle_get_pr(s, v, c)
  PROVE  PrInv'
<1> USE PrAssumption
<1> DEFINE n == Len(log)
           new == getValue(table[s], v, c)
           w == new[v][c]
           a == [s |-> s, v |-> v, c |-> c, value |-> w]
<1>0. /\ PrTypeOK /\ Synced /\ Bounded /\ Answered /\ OwnRows /\ Importing /\ ImportedRows
      /\ NeverDecremented /\ OneBuildPerValue /\ HistoricalValue /\ ImportKeepsUp
      /\ n \in Nat /\ DOMAIN log = 1..n /\ nohist \in BOOLEAN
  BY LogTypes DEF PrInv, PrTypeOK
<1>1. /\ table' = [table EXCEPT ![s] = new]
      /\ syncing' = IF new = table[s] THEN syncing ELSE syncing \cup {s}
      /\ log' = Append(log, a)
      /\ UNCHANGED <<nohist, disk, file, imported, exports>>
  BY DEF handle_get_pr
<1>2. /\ new \in Table /\ Below(new, n + 1)
      /\ w \in Nat
      /\ \A x \in Versions, d \in Checksums : x # v \/ d # c => new[x][d] = table[s][x][d]
      /\ \/ /\ new = table[s] /\ table[s][v][c] # Absent
            /\ nohist => \A d \in Checksums : table[s][v][d] <= table[s][v][c]
         \/ /\ \A d \in Checksums : table[s][v][d] < w
            /\ nohist \/ table[s][v][c] = Absent
  <2>1. table[s] \in Table /\ Below(table[s], n)
    BY <1>0 DEF PrTypeOK, Bounded
  <2> HIDE DEF n
  <2> QED BY <1>0, <2>1, GetFacts
<1>3. a \in Answer /\ a.s = s /\ a.v = v /\ a.c = c /\ a.value = w
  BY <1>2 DEF Answer
<1> HIDE DEF new, w, a, n
<1>4. /\ log' \in Seq(Answer) /\ Len(log') = n + 1 /\ DOMAIN log' = 1..n+1
      /\ log'[n+1] = a /\ \A i \in 1..n : log'[i] = log[i]
  <2>1. log \in Seq(Answer) /\ Len(log) = n
    BY <1>0 DEF PrTypeOK, n
  <2> QED BY <1>0, <1>1, <1>3, <2>1, AppendProperties
<1>5. /\ table' \in [Servers -> Table] /\ table'[s] = new
      /\ \A x \in Servers : x # s => table'[x] = table[x]
  BY <1>0, <1>1, <1>2 DEF PrTypeOK
<1>6. PrTypeOK'
  BY <1>0, <1>1, <1>4, <1>5 DEF PrTypeOK
\* Rows go up, and change in "History" mode only from absence.
<1>7. \A x \in Servers, y \in Versions, d \in Checksums :
        /\ table[x][y][d] \in Int /\ table'[x][y][d] \in Int
        /\ table[x][y][d] >= Absent /\ table[x][y][d] < n
  <2>1. table \in [Servers -> Table]
    BY <1>0 DEF PrTypeOK
  <2> QED BY <1>0, <1>5, <2>1 DEF Table, Bounded, Below, n
<1>8. \A x \in Servers, y \in Versions, d \in Checksums :
        /\ x # s \/ y # v \/ d # c => table'[x][y][d] = table[x][y][d]
        /\ table[x][y][d] <= table'[x][y][d]
        /\ ~nohist /\ table[x][y][d] # Absent => table'[x][y][d] = table[x][y][d]
  <2>1. \A x \in Servers, y \in Versions, d \in Checksums :
          x # s \/ y # v \/ d # c => table'[x][y][d] = table[x][y][d]
    BY <1>2, <1>5
  <2>2. /\ table[s][v][c] <= table'[s][v][c]
        /\ ~nohist /\ table[s][v][c] # Absent => table'[s][v][c] = table[s][v][c]
    BY <1>0, <1>2, <1>5, <1>7 DEF w
  <2>3. ASSUME NEW x \in Servers, NEW y \in Versions, NEW d \in Checksums
        PROVE  /\ table[x][y][d] <= table'[x][y][d]
               /\ ~nohist /\ table[x][y][d] # Absent => table'[x][y][d] = table[x][y][d]
    <3>1. CASE x = s /\ y = v /\ d = c
      BY <2>2, <3>1
    <3>2. CASE ~(x = s /\ y = v /\ d = c)
      BY <1>7, <2>1, <3>2
    <3> QED BY <3>1, <3>2
  <2> QED BY <2>1, <2>3
<1>9. Synced'
  BY <1>0, <1>1, <1>5 DEF Synced, PrTypeOK
<1>10. Bounded'
  <2>1. \A x \in Servers : Below(table'[x], n + 1)
    <3> SUFFICES ASSUME NEW x \in Servers, x # s PROVE Below(table'[x], n + 1)
      BY <1>2, <1>5
    <3> QED BY <1>0, <1>5, <1>7 DEF Below
  <2>2. \A r \in file.rows : r \in Row /\ r.value < n /\ r.value \in Nat
    BY <1>0 DEF Bounded, PrTypeOK, Files, Row, n
  <2>3. \A r \in file.rows : r.value < n + 1
    BY <1>0, <2>2
  <2> QED BY <1>1, <1>4, <2>1, <2>3 DEF Bounded
\* Earlier answers, with their rows now and before.
<1>11. \A i \in 1..n :
         /\ log[i].s \in Servers /\ log[i].v \in Versions /\ log[i].c \in Checksums
         /\ log[i].value \in Nat
         /\ log[i].value <= table[log[i].s][log[i].v][log[i].c]
         /\ ~nohist => log[i].value = table[log[i].s][log[i].v][log[i].c]
  BY <1>0, LogTypes DEF Answered
<1>12. Answered'
  <2>1. ASSUME NEW i \in 1..n
        PROVE  LET row == table'[log[i].s][log[i].v][log[i].c]
               IN  log[i].value <= row /\ (~nohist => log[i].value = row)
    BY <1>7, <1>8, <1>11 DEF Absent
  <2>2. a.value = table'[a.s][a.v][a.c] /\ a.value \in Nat
    BY <1>2, <1>3, <1>5 DEF w
  <2>3. ASSUME NEW i \in 1..n+1
        PROVE  LET row == table'[log'[i].s][log'[i].v][log'[i].c]
               IN  log'[i].value <= row /\ (~nohist => log'[i].value = row)
    <3>1. CASE i = n + 1
      BY <1>4, <2>2, <3>1
    <3>2. CASE i # n + 1
      BY <1>0, <1>4, <2>1, <3>2
    <3> QED BY <3>1, <3>2
  <2> QED BY <1>1, <1>4, <2>3 DEF Answered
<1>13. ImportedRows'
  <2>1. ASSUME nohist, NEW x \in Servers, NEW im \in imported[x], NEW r \in im.rows
        PROVE  r.value <= table'[x][r.v][r.c]
    <3>1. im \in [rows : SUBSET Row, at : Nat]
      BY <1>0 DEF PrTypeOK
    <3>2. r \in Row
      BY <3>1
    <3>3. r.v \in Versions /\ r.c \in Checksums /\ r.value \in Nat
      BY <3>2 DEF Row
    <3>4. r.value <= table[x][r.v][r.c]
      BY <1>0, <2>1 DEF ImportedRows
    <3> QED BY <1>7, <1>8, <3>3, <3>4
  <2> QED BY <1>1, <2>1 DEF ImportedRows
<1>14. Importing'
  <2>1. ASSUME "to" \in DOMAIN file, nohist, NEW r \in file.rows \ file.left
        PROVE  r.value <= table'[file.to][r.v][r.c]
    <3>1. file.to \in Servers /\ r \in Row
      BY <1>0, <2>1 DEF PrTypeOK, Files
    <3>3. r.v \in Versions /\ r.c \in Checksums /\ r.value \in Nat
      BY <3>1 DEF Row
    <3>4. r.value <= table[file.to][r.v][r.c]
      BY <1>0, <2>1 DEF Importing
    <3> QED BY <1>7, <1>8, <3>1, <3>3, <3>4
  <2> QED BY <1>0, <1>1, <2>1 DEF Importing
\* The answer against the earlier ones of the same server and version.
<1>15. \A i \in 1..n : log[i].s = s /\ log[i].v = v =>
         /\ nohist => log[i].value <= w
         /\ (\A d \in Checksums : table[s][v][d] < w) => log[i].value < w
  <2> SUFFICES ASSUME NEW i \in 1..n, log[i].s = s, log[i].v = v
               PROVE  /\ nohist => log[i].value <= w
                      /\ (\A d \in Checksums : table[s][v][d] < w) => log[i].value < w
    OBVIOUS
  <2> DEFINE d == log[i].c
  <2>1. d \in Checksums /\ log[i].value \in Nat /\ log[i].value <= table[s][v][d]
    BY <1>11
  <2> HIDE DEF d
  <2>2. table[s][v][d] \in Int
    BY <1>7, <2>1
  <2>3. nohist => table[s][v][d] <= w
    BY <1>2, <2>1, <2>2 DEF w
  <2> QED BY <1>2, <2>1, <2>2, <2>3
<1>16. \A x \in Servers : Untouched(x)' <=> Untouched(x)
  BY <1>1 DEF Untouched
<1>16a. \A i \in 1..n+1, x \in Servers : log'[i].s = x => (Untouched(log[i].s)' <=> Untouched(x))
  BY <1>1 DEF Untouched
<1>17. OwnRows'
  <2> SUFFICES ASSUME NEW x \in Servers, Untouched(x), NEW y \in Versions, NEW d \in Checksums,
                      table'[x][y][d] # Absent
               PROVE  /\ \A e \in Checksums : table'[x][y][e] = table'[x][y][d] => e = d
                      /\ \E i \in DOMAIN log' : log'[i].s = x /\ log'[i].v = y /\ log'[i].c = d
    BY <1>16 DEF OwnRows
  <2>1. ASSUME table[x][y][d] # Absent
        PROVE  /\ \A e \in Checksums : table[x][y][e] = table[x][y][d] => e = d
               /\ \E i \in DOMAIN log' : log'[i].s = x /\ log'[i].v = y /\ log'[i].c = d
    <3>1. PICK i \in DOMAIN log : log[i].s = x /\ log[i].v = y /\ log[i].c = d
      BY <1>0, <2>1 DEF OwnRows
    <3>2. i \in DOMAIN log' /\ log'[i] = log[i]
      BY <1>0, <1>4, <3>1
    <3> QED BY <1>0, <2>1, <3>1, <3>2 DEF OwnRows
  <2>2. CASE table'[x][y] = table[x][y]
    BY <2>1, <2>2
  <2>3. CASE x = s /\ y = v /\ \A e \in Checksums : table[s][v][e] < w
    <3>1. table'[s][v][c] = w /\ \A e \in Checksums : e # c => table'[s][v][e] = table[s][v][e]
      BY <1>5, <1>8 DEF w
    <3>2. \A e \in Checksums : table[s][v][e] # w
      BY <1>2, <1>7, <2>3
    <3>3. CASE d = c
      <4>1. \A e \in Checksums : table'[x][y][e] = table'[x][y][d] => e = d
        BY <2>3, <3>1, <3>2, <3>3
      <4>2. n + 1 \in DOMAIN log' /\ log'[n+1].s = x /\ log'[n+1].v = y /\ log'[n+1].c = d
        BY <1>0, <1>3, <1>4, <2>3, <3>3
      <4> QED BY <4>1, <4>2
    <3>4. CASE d # c
      <4>1. table'[x][y][d] = table[x][y][d] /\ table[x][y][d] # Absent
        BY <2>3, <3>1, <3>4
      <4>2. \A e \in Checksums : table'[x][y][e] = table'[x][y][d] => e = d
        BY <2>1, <2>3, <3>1, <3>2, <4>1
      <4> QED BY <2>1, <4>1, <4>2
    <3> QED BY <3>3, <3>4
  <2>4. CASE x # s \/ y # v \/ new = table[s]
    <3>1. table'[x][y] = table[x][y]
      <4>1. CASE x # s \/ new = table[s]
        BY <1>5, <4>1
      <4>2. CASE x = s /\ y # v
        <5>1. new[y] \in [Checksums -> Int] /\ table[s][y] \in [Checksums -> Int]
          BY <1>0, <1>2 DEF PrTypeOK, Table
        <5>2. \A e \in Checksums : new[y][e] = table[s][y][e]
          BY <1>2, <4>2
        <5> QED BY <1>5, <4>2, <5>1, <5>2
      <4> QED BY <2>4, <4>1, <4>2
    <3> QED BY <2>2, <3>1
  <2> QED BY <1>2, <2>3, <2>4
<1>18. NeverDecremented'
  <2> SUFFICES ASSUME nohist, NEW i \in 1..n+1, NEW j \in 1..n+1, i < j,
                      log'[i].s = log'[j].s, log'[i].v = log'[j].v
               PROVE  log'[i].value <= log'[j].value
    BY <1>1, <1>4 DEF NeverDecremented
  <2>1. i \in 1..n /\ log'[i] = log[i]
    BY <1>0, <1>4
  <2>2. CASE j = n + 1
    BY <1>3, <1>4, <1>15, <2>1, <2>2
  <2>3. CASE j # n + 1
    <3>1. j \in 1..n /\ log'[j] = log[j]
      BY <1>0, <1>4, <2>3
    <3> QED BY <1>0, <2>1, <3>1 DEF NeverDecremented
  <2> QED BY <2>2, <2>3
\* A value that is answered again belongs to the checksum that has it.
<1>19. ASSUME NEW i \in 1..n, log[i].s = s, log[i].v = v, log[i].value = w, Untouched(s)
       PROVE  log[i].c = c
  <2> DEFINE d == log[i].c
  <2>1. d \in Checksums /\ w <= table[s][v][d] /\ (~nohist => w = table[s][v][d])
    BY <1>11, <1>19
  <2> HIDE DEF d
  <2>2. table[s][v][d] \in Int /\ w \in Int
    BY <1>2, <1>7, <2>1
  <2>3. ~(\A e \in Checksums : table[s][v][e] < w)
    BY <2>1, <2>2
  <2>4. /\ new = table[s] /\ table[s][v][c] # Absent /\ w = table[s][v][c]
        /\ nohist => \A e \in Checksums : table[s][v][e] <= table[s][v][c]
    BY <1>2, <2>3 DEF w
  <2>5. table[s][v][d] = table[s][v][c]
    BY <1>0, <2>1, <2>2, <2>4
  <2> QED BY <1>0, <1>19, <2>1, <2>4, <2>5 DEF OwnRows, d
<1>20. OneBuildPerValue'
  <2> SUFFICES ASSUME NEW i \in 1..n+1, NEW j \in 1..n+1,
                      log'[i].s = log'[j].s, log'[i].v = log'[j].v, log'[i].value = log'[j].value,
                      Untouched(log[i].s)'
               PROVE  log'[i].c = log'[j].c
    BY <1>4 DEF OneBuildPerValue
  <2>1. \A k \in 1..n+1 : k = n + 1 \/ (k \in 1..n /\ log'[k] = log[k])
    BY <1>0, <1>4
  <2>2. CASE i = n + 1 /\ j = n + 1
    BY <2>2
  <2>3. CASE i = n + 1 /\ j \in 1..n /\ log'[j] = log[j]
    BY <1>3, <1>4, <1>16a, <1>19, <2>3
  <2>4. CASE j = n + 1 /\ i \in 1..n /\ log'[i] = log[i]
    <3>1. Untouched(s)
      BY <1>3, <1>4, <1>16a, <2>4
    <3> QED BY <1>3, <1>4, <1>19, <2>4, <3>1
  <2>5. CASE i \in 1..n /\ j \in 1..n /\ log'[i] = log[i] /\ log'[j] = log[j]
    <3>1. log[i].s \in Servers
      BY <1>11, <2>5
    <3>2. Untouched(log[i].s)
      BY <1>16a, <2>5, <3>1
    <3> QED BY <1>0, <2>5, <3>2 DEF OneBuildPerValue
  <2> QED BY <2>1, <2>2, <2>3, <2>4, <2>5
<1>21. HistoricalValue'
  <2> SUFFICES ASSUME ~nohist, NEW j \in 1..n+1
               PROVE  LET same == {i \in 1..j-1 : log'[i].s = log'[j].s /\ log'[i].v = log'[j].v}
                          seen == {i \in same : log'[i].c = log'[j].c}
                      IN  /\ \A i \in seen : log'[i].value = log'[j].value
                          /\ seen = {} /\ Untouched(log[j].s)' =>
                               \A i \in same : log'[i].value < log'[j].value
    BY <1>1, <1>4 DEF HistoricalValue
  <2> DEFINE same == {i \in 1..j-1 : log'[i].s = log'[j].s /\ log'[i].v = log'[j].v}
             seen == {i \in same : log'[i].c = log'[j].c}
  <2>1. \A i \in 1..j-1 : i \in 1..n /\ log'[i] = log[i]
    BY <1>0, <1>4
  <2>2. CASE j # n + 1
    <3>1. j \in 1..n /\ log'[j] = log[j]
      BY <1>0, <1>4, <2>2
    <3>2. log[j].s \in Servers
      BY <1>11, <3>1
    <3>3. Untouched(log[j].s)' => Untouched(log[j].s)
      BY <1>16a, <3>1, <3>2
    <3>4. /\ same = {i \in 1..j-1 : log[i].s = log[j].s /\ log[i].v = log[j].v}
          /\ seen = {i \in same : log[i].c = log[j].c}
      BY <2>1, <3>1
    <3>5. LET old == {i \in 1..j-1 : log[i].s = log[j].s /\ log[i].v = log[j].v}
              oldSeen == {i \in old : log[i].c = log[j].c}
          IN  /\ \A i \in oldSeen : log[i].value = log[j].value
              /\ oldSeen = {} /\ Untouched(log[j].s) => \A i \in old : log[i].value < log[j].value
      BY <1>0, <3>1 DEF HistoricalValue
    <3> QED BY <2>1, <3>1, <3>3, <3>4, <3>5
  <2>3. CASE j = n + 1
    <3>1. log'[j].s = s /\ log'[j].v = v /\ log'[j].c = c /\ log'[j].value = w
      BY <1>3, <1>4, <2>3
    <3>2. ASSUME NEW i \in seen PROVE log'[i].value = w
      <4>1. i \in 1..n /\ log'[i] = log[i] /\ log[i].s = s /\ log[i].v = v /\ log[i].c = c
        BY <2>1, <3>1
      <4>2. log[i].value = table[s][v][c] /\ log[i].value \in Nat
        BY <1>11, <4>1
      <4>3. new = table[s]
        BY <1>2, <4>2 DEF Absent
      <4> QED BY <4>1, <4>2, <4>3 DEF w
    <3>3. ASSUME seen = {}, Untouched(s), NEW i \in same PROVE log'[i].value < w
      <4>1. i \in 1..n /\ log'[i] = log[i] /\ log[i].s = s /\ log[i].v = v
        BY <2>1, <3>1
      <4>2. table[s][v][c] = Absent
        <5> SUFFICES ASSUME table[s][v][c] # Absent PROVE FALSE
          OBVIOUS
        <5>1. PICK k \in DOMAIN log : log[k].s = s /\ log[k].v = v /\ log[k].c = c
          BY <1>0, <3>3 DEF OwnRows
        <5>2. k \in 1..j-1 /\ log'[k] = log[k]
          BY <1>0, <1>4, <2>3, <5>1
        <5>3. k \in seen
          BY <3>1, <5>1, <5>2
        <5> QED BY <3>3, <5>3
      <4>3. \A d \in Checksums : table[s][v][d] < w
        BY <1>2, <4>2
      <4> QED BY <1>15, <4>1, <4>3
    <3>4. Untouched(log[j].s)' => Untouched(s)
      BY <1>16a, <3>1
    <3> QED BY <3>1, <3>2, <3>3, <3>4
  <2> QED BY <2>2, <2>3
<1>22. ImportKeepsUp'
  <2> SUFFICES ASSUME nohist, NEW x \in Servers, NEW im \in imported[x], NEW r \in im.rows,
                      NEW j \in im.at+1..n+1, log'[j].s = x, log'[j].v = r.v
               PROVE  log'[j].value >= r.value
    BY <1>1, <1>4 DEF ImportKeepsUp
  <2>1. im \in [rows : SUBSET Row, at : Nat]
    BY <1>0 DEF PrTypeOK
  <2>2. r \in Row /\ im.at \in Nat
    BY <2>1
  <2>3. r.v \in Versions /\ r.c \in Checksums /\ r.value \in Nat
    BY <2>2 DEF Row
  <2>4. CASE j = n + 1
    <3>1. x = s /\ r.v = v /\ log'[j].value = w
      BY <1>3, <1>4, <2>4
    <3>2. r.value <= table[s][v][r.c]
      BY <1>0, <3>1 DEF ImportedRows
    <3>3. table[s][v][r.c] <= w /\ table[s][v][r.c] \in Int
      BY <1>2, <1>7, <2>3 DEF w
    <3> QED BY <1>2, <2>3, <3>1, <3>2, <3>3
  <2>5. CASE j # n + 1
    <3>1. j \in im.at+1..n /\ j \in 1..n /\ log'[j] = log[j]
      BY <1>0, <1>4, <2>2, <2>5
    <3> QED BY <1>0, <3>1 DEF ImportKeepsUp, n
  <2> QED BY <2>4, <2>5
<1> QED BY <1>6, <1>9, <1>10, <1>12, <1>13, <1>14, <1>17, <1>18, <1>20, <1>21, <1>22 DEF PrInv

\* The invariant holds in every behaviour in which answers are committed.
LEMMA PrInvariant == ~Crashes => (PrSpec => []PrInv)
<1> SUFFICES ASSUME ~Crashes PROVE PrSpec => []PrInv
  OBVIOUS
<1>1. PrInit => PrInv
  <2> SUFFICES ASSUME PrInit PROVE PrInv
    OBVIOUS
  <2>1. PrTypeOK
    <3>1. [v \in Versions |-> [c \in Checksums |-> Absent]] \in Table
      BY DEF Table, Absent
    <3>2. NoFile \in Files
      BY DEF NoFile, Files
    <3> QED BY <3>1, <3>2, PrAssumption DEF PrInit, PrTypeOK
  <2>2. Len(log) = 0 /\ DOMAIN log = {} /\ log = <<>>
    BY DEF PrInit
  <2>3. Synced /\ Importing
    BY DEF PrInit, Synced, Importing, NoFile
  <2>4. \A s \in Servers, v \in Versions, c \in Checksums : table[s][v][c] = Absent
    BY DEF PrInit
  <2>5. Bounded /\ OwnRows
    BY <2>2, <2>4 DEF Bounded, Below, OwnRows, Absent, PrInit, NoFile
  <2>6. \A s \in Servers : imported[s] = {}
    BY DEF PrInit
  <2> QED BY <2>1, <2>2, <2>3, <2>5, <2>6
          DEF PrInv, Answered, ImportedRows, NeverDecremented, OneBuildPerValue,
              HistoricalValue, ImportKeepsUp
<1>2. PrInv /\ [PrNext]_prVars => PrInv'
  <2> SUFFICES ASSUME PrInv, [PrNext]_prVars PROVE PrInv'
    OBVIOUS
  <2>1. CASE UNCHANGED prVars
    <3>1. PrTypeOK' /\ Synced' /\ Importing' /\ \A r \in file'.rows : r.value < Len(log)
      BY <2>1 DEF prVars, PrInv, PrTypeOK, Synced, Importing, Bounded
    <3> QED BY <2>1, <3>1, TablesKept DEF prVars
  <2>2. CASE EndImport
    <3>1. "to" \in DOMAIN file /\ file.to \in Servers
      BY <2>2 DEF EndImport, PrInv, PrTypeOK, Files
    <3> QED BY <2>2, <3>1, QuietSteps
  <2> QED BY <2>1, <2>2, GetStep, QuietSteps, ImportStep DEF PrNext
<1> QED BY <1>1, <1>2, PTL DEF PrSpec

\* The tables, the answers, the file and the imports have their types.
THEOREM PrTypeTheorem == ~Crashes => (PrSpec => []PrTypeOK)
<1>1. PrInv => PrTypeOK
  BY DEF PrInv
<1> QED BY <1>1, PrInvariant, PTL

\* "This means the PR value returned can NOT be decremented" (db.py), a value
\* stands for one checksum, "History" mode repeats its values and an import is
\* never undercut: for any servers, versions, checksums, requests, exports and
\* restarts, if a server commits what it has answered.
THEOREM ValuesKeptTheorem == ~Crashes => (PrSpec => []ValuesKept)
<1>1. PrInv => ValuesKept
  BY DEF PrInv, ValuesKept
<1> QED BY <1>1, PrInvariant, PTL

-----------------------------------------------------------------------------
(* The hash equivalence server.  HashInv is about any server: unihashes are *)
(* committed at once, and what a client was told is in the table or on its *)
(* way there.  AloneInv adds what holds without an upstream: answers are   *)
(* those of the tables, rows are dated in the order of the reports, and a  *)
(* task has the unihash of the first task with its first output.           *)

(* An answer on its way, the taskhash it is about and the unihash it gives. *)
Replied(h) == h.pc = "replied" /\ h.ans # None
WithRow(req) == req.kind \in {"get-all", "get-outhash"}
AnswerAbout(req, ans) == IF WithRow(req) THEN ans.row.t ELSE req.t
AnswerSays(req, ans) == IF WithRow(req) THEN ans.u ELSE ans

(* A taskhash is in the table, or the backfill has still to put it there.   *)
OnItsWay(que, wrk, t) == \/ \E i \in DOMAIN que : que[i] = t
                         \/ wrk.pc \in {"copy", "insert"} /\ wrk.t = t
                         \/ wrk.pc = "dead"
Kept(tab, que, wrk, t) == tab.uni[t] # None \/ OnItsWay(que, wrk, t)

(* Unihashes are committed with the step that inserts them; outputs may be  *)
(* pending.                                                                 *)
UniCommitted == db.uni = committed.uni

(* What is queued is known upstream.                                        *)
KnownUpstream ==
  /\ \A s \in Slots : /\ handler[s].pc = "resumed" /\ handler[s].req.kind = "get-stream"
                      /\ handler[s].ans # None
                      => up.uni[handler[s].req.t] # None
  /\ \A i \in DOMAIN queue : up.uni[queue[i]] # None
  /\ worker.pc = "copy" => up.uni[worker.t] # None
  /\ worker.pc = "insert" => worker.ans # None

(* What clients were told, or are about to be told, is in the table or     *)
(* queued.                                                                  *)
ToldIsKept ==
  spent.crashes = 0 =>
    /\ \A a \in told : Kept(db, queue, worker, a[1])
    /\ \A s \in Slots : Replied(handler[s])
          => Kept(db, queue, worker, AnswerAbout(handler[s].req, handler[s].ans))

HashInv == HashTypeOK /\ UniCommitted /\ KnownUpstream /\ ToldIsKept

(* A server without an upstream handles a request in one step.             *)
NoUpstream ==
  /\ db = committed /\ queue = <<>> /\ worker = WorkerIdle
  /\ \A s \in Slots : handler[s].pc # "resumed"
  /\ \A s \in Slots : handler[s].pc = "await" => handler[s].req.kind = "backfill-wait"

ToldIsTrue ==
  /\ \A a \in told : a[2] = db.uni[a[1]]
  /\ \A s \in Slots : Replied(handler[s])
        => AnswerSays(handler[s].req, handler[s].ans)
             = db.uni[AnswerAbout(handler[s].req, handler[s].ans)]

(* r is the first report of its task, p the first of its output.           *)
FirstOfTask(r) == \A q \in db.out : q.t = r.t => r.created <= q.created
FirstOfOutput(p) == \A q \in db.out : q.o = p.o => p.created <= q.created

RowsDated ==
  /\ \A r \in db.out : db.uni[r.t] # None /\ r.created < now
  /\ \A r, q \in db.out : r.created = q.created => r = q
  /\ \A t \in Taskhashes : db.uni[t] # None => t \in pinned \/ \E r \in db.out : r.t = t

(* A task has the unihash of the task that first had its first output.     *)
OfFirstOutput ==
  \A r, p \in db.out :
    /\ FirstOfTask(r) /\ r.t \notin pinned
    /\ FirstOfOutput(p) /\ p.o = r.o
    => db.uni[r.t] = db.uni[p.t]

AloneInv == ~upstream => NoUpstream /\ ToldIsTrue /\ RowsDated /\ OfFirstOutput
-----------------------------------------------------------------------------
(* Requests, tables and answers *)

\* What a request of each kind carries.
LEMMA RequestFacts ==
  ASSUME NEW req \in Requests
  PROVE  /\ req # None
         /\ req.kind \in {"report", "report-equiv", "get", "get-all", "get-stream",
                          "get-outhash", "backfill-wait"}
         /\ req.kind # "backfill-wait" => req.t \in Taskhashes
         /\ req.kind \in {"report", "get-outhash"} => req.o \in Outhashes
         /\ req.kind \in {"report", "report-equiv"} => req.u \in Unihashes
<1>1. req # None
  BY HashAssumption
<1>2. CASE req \in [kind : {"report"}, t : Taskhashes, o : Outhashes, u : Unihashes]
  BY <1>1, <1>2
<1>3. CASE req \in [kind : {"report-equiv"}, t : Taskhashes, u : Unihashes]
  BY <1>1, <1>3
<1>4. CASE req \in [kind : {"get", "get-all", "get-stream"}, t : Taskhashes]
  BY <1>1, <1>4
<1>5. CASE req \in [kind : {"get-outhash"}, t : Taskhashes, o : Outhashes]
  BY <1>1, <1>5
<1>6. CASE req \in [kind : {"backfill-wait"}]
  BY <1>1, <1>6
<1> QED BY <1>2, <1>3, <1>4, <1>5, <1>6 DEF Requests

\* INSERT OR IGNORE sets the unihash of a taskhash that has none, and only that.
LEMMA InsertUnihash ==
  ASSUME NEW tab \in Tables, NEW t \in Taskhashes, NEW u \in Unihashes
  PROVE  LET new == insert_unihash(tab, t, u)
         IN  /\ new \in Tables /\ new.out = tab.out
             /\ new.uni[t] # None /\ (tab.uni[t] = None => new.uni[t] = u)
             /\ \A x \in Taskhashes : x # t \/ tab.uni[x] # None => new.uni[x] = tab.uni[x]
             /\ tab.uni[t] # None => new = tab
BY HashAssumption DEF insert_unihash, Tables

\* INSERT OR IGNORE adds one row, unless the taskhash has one with this output.
LEMMA InsertOuthash ==
  ASSUME NEW tab \in Tables, NEW t \in Taskhashes, NEW o \in Outhashes, NEW when \in Nat
  PROVE  LET new == insert_outhash(tab, t, o, when)
             row == [t |-> t, o |-> o, created |-> when]
         IN  /\ new \in Tables /\ new.uni = tab.uni
             /\ \/ new = tab /\ \E r \in tab.out : r.t = t /\ r.o = o
                \/ new.out = tab.out \cup {row} /\ new # tab
                   /\ ~\E r \in tab.out : r.t = t /\ r.o = o
<1> DEFINE row == [t |-> t, o |-> o, created |-> when]
<1>1. CASE \E r \in tab.out : r.t = t /\ r.o = o
  BY <1>1 DEF insert_outhash
<1>2. CASE ~\E r \in tab.out : r.t = t /\ r.o = o
  <2>1. row \in OutRow /\ row.t = t /\ row.o = o
    BY DEF OutRow
  <2>2. insert_outhash(tab, t, o, when) = [tab EXCEPT !.out = tab.out \cup {row}]
    BY <1>2 DEF insert_outhash
  <2>3. row \notin tab.out
    BY <1>2, <2>1
  <2> HIDE DEF row
  <2>4. /\ insert_outhash(tab, t, o, when) \in Tables
        /\ insert_outhash(tab, t, o, when).uni = tab.uni
        /\ insert_outhash(tab, t, o, when).out = tab.out \cup {row}
    BY <2>1, <2>2 DEF Tables
  <2>5. insert_outhash(tab, t, o, when) # tab
    BY <2>3, <2>4
  <2> QED BY <1>2, <2>4, <2>5 DEF row
<1> QED BY <1>1, <1>2

\* A query answers with a row of the join that no other is older than, or
\* there is none.
LEMMA OldestFacts ==
  ASSUME NEW tab \in Tables, NEW rows, rows \subseteq tab.out
  PROVE  LET best == Oldest(tab, rows)
         IN  \/ best = None /\ Joined(tab, rows) = {}
             \/ /\ best \in Answers /\ best # None
                /\ best.row \in rows /\ best.u = tab.uni[best.row.t] /\ best.u # None
                /\ best.row \in OutRow
                /\ \A y \in Joined(tab, rows) : best.row.created <= y.created
<1> DEFINE found == Joined(tab, rows)
<1>1. CASE found = {}
  BY <1>1 DEF Oldest
<1>2. CASE found # {}
  <2> DEFINE r == CHOOSE x \in found : \A y \in found : x.created <= y.created
             dates == {x.created : x \in found}
  <2>1. found \subseteq OutRow /\ found \subseteq rows
    BY DEF Joined, Tables
  <2>2. dates \subseteq Nat /\ dates # {}
    BY <1>2, <2>1 DEF OutRow
  <2> HIDE DEF dates
  <2>3. PICK d \in dates : \A e \in dates : d <= e
    BY <2>2, LeastNat
  <2>4. \E x \in found : \A y \in found : x.created <= y.created
    BY <2>3 DEF dates
  <2>5. r \in found /\ \A y \in found : r.created <= y.created
    BY <2>4
  <2> HIDE DEF r
  <2>6. Oldest(tab, rows) = [u |-> tab.uni[r.t], row |-> r]
    BY <1>2 DEF Oldest, r
  <2>7. r \in OutRow /\ r \in rows /\ tab.uni[r.t] # None
    BY <2>1, <2>5 DEF Joined
  <2>8. tab.uni[r.t] \in Unihashes
    BY <2>7 DEF Tables, OutRow
  <2>9. Oldest(tab, rows) \in Answers
    BY <2>6, <2>7, <2>8 DEF Answers
  <2> QED BY <2>5, <2>6, <2>7, <2>9, HashAssumption
<1> QED BY <1>1, <1>2
-----------------------------------------------------------------------------
(* The parts of the type *)

TablesOK == db \in Tables /\ committed \in Tables /\ up \in Tables /\ now \in Nat

HandlersOK ==
  /\ handler \in [Slots -> {Idle} \cup [pc : {"sent", "await"}, req : Requests]
                      \cup [pc : {"resumed", "replied"}, req : Requests,
                            ans : {None} \cup Unihashes \cup Answers]]
  /\ \A s \in Slots : handler[s].pc \in {"resumed", "replied"} =>
        handler[s].ans \in AnswersTo(handler[s].pc, handler[s].req)

ClientsOK ==
  client \in [Clients -> {NoRequest} \cup [req : Requests, conn : Slots \cup {None}, count : 0..3]]

LinksOK ==
  /\ \A c \in Clients : Waiting(c) /\ client[c].conn # None =>
        handler[client[c].conn] # Idle /\ handler[client[c].conn].req = client[c].req
  /\ \A c, d \in Clients : Waiting(c) /\ client[c].conn # None /\ Waiting(d)
                             /\ client[d].conn = client[c].conn => c = d

BackfillOK ==
  /\ queue \in Seq(Taskhashes)
  /\ worker \in {WorkerIdle, [pc |-> "dead"]} \cup [pc : {"copy"}, t : Taskhashes]
                  \cup [pc : {"insert"}, t : Taskhashes, ans : Unihashes \cup {None}]

RecordsOK ==
  /\ upstream \in BOOLEAN /\ upRuns \in BOOLEAN
  /\ told \subseteq Taskhashes \X Unihashes /\ pinned \subseteq Taskhashes
  /\ spent \in [requests : [Clients -> Nat], reports : Nat, crashes : Nat,
                outages : Nat, timeouts : Nat]

\* HashTypeOK, part by part.
LEMMA HashTypeParts ==
  HashTypeOK <=> TablesOK /\ HandlersOK /\ ClientsOK /\ LinksOK /\ BackfillOK /\ RecordsOK
BY DEF HashTypeOK, TablesOK, HandlersOK, ClientsOK, LinksOK, BackfillOK, RecordsOK

\* The three shapes of a handler.
LEMMA HandlerFacts ==
  ASSUME HandlersOK, NEW s \in Slots
  PROVE  \/ handler[s] = Idle /\ handler[s].pc = "idle"
         \/ /\ handler[s].pc \in {"sent", "await"} /\ handler[s].req \in Requests
            /\ handler[s] # Idle
         \/ /\ handler[s].pc \in {"resumed", "replied"} /\ handler[s].req \in Requests
            /\ handler[s] # Idle
            /\ handler[s].ans \in AnswersTo(handler[s].pc, handler[s].req)
<1> DEFINE h == handler[s]
<1>0. h \in {Idle} \cup [pc : {"sent", "await"}, req : Requests]
                      \cup [pc : {"resumed", "replied"}, req : Requests,
                            ans : {None} \cup Unihashes \cup Answers]
  BY DEF HandlersOK
<1>1. CASE h = Idle
  BY <1>1 DEF Idle
<1>2. CASE h \in [pc : {"sent", "await"}, req : Requests]
  BY <1>2 DEF Idle
<1>3. CASE h \in [pc : {"resumed", "replied"}, req : Requests,
                  ans : {None} \cup Unihashes \cup Answers]
  BY <1>3 DEF Idle, HandlersOK
<1> QED BY <1>0, <1>1, <1>2, <1>3

(* The new state of one handler. *)
LEMMA SetHandler ==
  ASSUME HandlersOK, NEW s \in Slots, NEW h,
         handler' = [handler EXCEPT ![s] = h],
         \/ h = Idle
         \/ h \in [pc : {"sent", "await"}, req : Requests]
         \/ h \in [pc : {"resumed", "replied"}, req : Requests,
                   ans : {None} \cup Unihashes \cup Answers]
            /\ h.ans \in AnswersTo(h.pc, h.req)
  PROVE  HandlersOK' /\ handler'[s] = h /\ \A x \in Slots : x # s => handler'[x] = handler[x]
<1>1. handler'[s] = h /\ \A x \in Slots : x # s => handler'[x] = handler[x]
  BY DEF HandlersOK
<1>2. handler' \in [Slots -> {Idle} \cup [pc : {"sent", "await"}, req : Requests]
                      \cup [pc : {"resumed", "replied"}, req : Requests,
                            ans : {None} \cup Unihashes \cup Answers]]
  BY DEF HandlersOK
<1>3. h.pc \in {"resumed", "replied"} => h.ans \in AnswersTo(h.pc, h.req)
  <2>1. CASE h = Idle
    BY <2>1 DEF Idle
  <2>2. CASE h \in [pc : {"sent", "await"}, req : Requests]
    BY <2>2
  <2> QED BY <2>1, <2>2
<1>4. \A x \in Slots : handler'[x].pc \in {"resumed", "replied"} =>
         handler'[x].ans \in AnswersTo(handler'[x].pc, handler'[x].req)
  BY <1>1, <1>3 DEF HandlersOK
<1>5. \A p, r : AnswersTo(p, r)' = AnswersTo(p, r)
  BY DEF AnswersTo
<1> QED BY <1>1, <1>2, <1>4 DEF HandlersOK, AnswersTo

(* Answers are of the three sorts that a handler's record allows. *)
LEMMA AnswerSorts ==
  ASSUME NEW p, NEW req
  PROVE  AnswersTo(p, req) \subseteq {None} \cup Unihashes \cup Answers /\ None \in AnswersTo(p, req)
BY DEF AnswersTo

\* The two shapes of a client.
LEMMA ClientFacts ==
  ASSUME ClientsOK, NEW c \in Clients
  PROVE  /\ ~Waiting(c) => client[c] = NoRequest
         /\ Waiting(c) => /\ client[c].req \in Requests /\ client[c].conn \in Slots \cup {None}
                          /\ client[c].count \in 0..3
                          /\ client[c] \in [req : Requests, conn : Slots \cup {None}, count : 0..3]
<1>0. client[c] \in {NoRequest} \cup [req : Requests, conn : Slots \cup {None}, count : 0..3]
  BY DEF ClientsOK
<1>1. CASE client[c] = NoRequest
  BY <1>1 DEF Waiting, NoRequest
<1>2. CASE client[c] \in [req : Requests, conn : Slots \cup {None}, count : 0..3]
  BY <1>2, RequestFacts DEF Waiting
<1> QED BY <1>0, <1>1, <1>2

(* The clients wait on, while handlers go on with the same requests. *)
LEMMA LinksKept ==
  ASSUME ClientsOK, LinksOK, UNCHANGED client,
         \A x \in Slots : \/ handler'[x] = handler[x]
                          \/ handler'[x] # Idle /\ handler'[x].req = handler[x].req
                          \/ ~Attached(x)
  PROVE  LinksOK'
<1>1. ASSUME NEW c \in Clients, Waiting(c), client[c].conn # None
      PROVE  handler'[client[c].conn] # Idle /\ handler'[client[c].conn].req = client[c].req
  <2>1. client[c].conn \in Slots
    BY <1>1, ClientFacts
  <2>2. Attached(client[c].conn)
    BY <1>1 DEF Attached
  <2> QED BY <1>1, <2>1, <2>2 DEF LinksOK
<1> QED BY <1>1 DEF LinksOK, Waiting, Idle

\* A reply touches one handler, and its client finds it there.
LEMMA ReplyFacts ==
  ASSUME HandlersOK, ClientsOK, LinksOK, NEW s \in Slots, handler[s].pc # "idle",
         NEW answer \in AnswersTo("replied", handler[s].req),
         Reply(s, answer), UNCHANGED client
  PROVE  /\ HandlersOK' /\ LinksOK'
         /\ \A x \in Slots : x # s => handler'[x] = handler[x]
         /\ \/ handler'[s] = Idle
            \/ /\ handler'[s].pc = "replied" /\ handler'[s].req = handler[s].req
               /\ handler'[s].ans = answer
<1> DEFINE h == [pc |-> "replied", req |-> handler[s].req, ans |-> answer]
<1>1. /\ h \in [pc : {"resumed", "replied"}, req : Requests,
                   ans : {None} \cup Unihashes \cup Answers]
      /\ h.ans \in AnswersTo(h.pc, h.req)
      /\ h.pc = "replied" /\ h.req = handler[s].req /\ h.ans = answer
      /\ h # Idle
  BY HandlerFacts, AnswerSorts DEF Idle
<1> HIDE DEF h
<1>2. CASE Attached(s)
  <2>1. handler' = [handler EXCEPT ![s] = h]
    BY <1>2 DEF Reply, h
  <2>2. HandlersOK' /\ handler'[s] = h /\ \A x \in Slots : x # s => handler'[x] = handler[x]
    BY <1>1, <2>1, SetHandler
  <2>3. LinksOK'
    BY <1>1, <2>2, LinksKept
  <2> QED BY <1>1, <2>2, <2>3
<1>3. CASE ~Attached(s)
  <2>1. handler' = [handler EXCEPT ![s] = Idle]
    BY <1>3 DEF Reply
  <2>2. HandlersOK' /\ handler'[s] = Idle /\ \A x \in Slots : x # s => handler'[x] = handler[x]
    BY <2>1, SetHandler
  <2>3. LinksOK'
    BY <1>3, <2>2, LinksKept
  <2> QED BY <2>2, <2>3
<1> QED BY <1>2, <1>3

(* The loss of connections: their clients try again, or give up. *)
LEMMA LostFacts ==
  ASSUME ClientsOK, LinksOK, NEW conns, Lost(conns),
         \A x \in Slots : x \notin conns => handler'[x] = handler[x]
  PROVE  ClientsOK' /\ LinksOK'
<1> DEFINE New(c) == IF Waiting(c) /\ client[c].conn \in conns
                     THEN IF client[c].count >= 3 THEN NoRequest
                          ELSE [req |-> client[c].req, conn |-> None, count |-> client[c].count + 1]
                     ELSE client[c]
<1>1. client' = [c \in Clients |-> New(c)]
  BY DEF Lost
<1>2. ASSUME NEW c \in Clients
      PROVE  /\ New(c) \in {NoRequest} \cup [req : Requests, conn : Slots \cup {None}, count : 0..3]
             /\ New(c).req # None /\ New(c).conn # None
                  => Waiting(c) /\ New(c) = client[c] /\ client[c].conn \notin conns
  <2>1. CASE Waiting(c) /\ client[c].conn \in conns /\ client[c].count < 3
    <3> DEFINE r == [req |-> client[c].req, conn |-> None, count |-> client[c].count + 1]
    <3>1. client[c] \in [req : Requests, conn : Slots \cup {None}, count : 0..3]
          /\ client[c].count \in 0..3
      BY <2>1, ClientFacts
    <3>2. r \in [req : Requests, conn : Slots \cup {None}, count : 0..3] /\ r.conn = None
      <4>1. client[c].count + 1 \in 0..3 /\ client[c].req \in Requests
        BY <2>1, <3>1
      <4> QED BY <4>1
    <3>3. ~(client[c].count >= 3)
      BY <2>1, <3>1
    <3> QED BY <2>1, <3>2, <3>3
  <2>2. CASE Waiting(c) /\ client[c].conn \in conns /\ client[c].count >= 3
    BY <2>2 DEF NoRequest
  <2>3. CASE ~Waiting(c)
    BY <2>3, ClientFacts DEF NoRequest
  <2>4. CASE Waiting(c) /\ client[c].conn \notin conns
    BY <2>4, ClientFacts
  <2>5. Waiting(c) => client[c].count \in 0..3
    BY ClientFacts
  <2> QED BY <2>1, <2>2, <2>3, <2>4, <2>5
<1> HIDE DEF New
<1>3. ClientsOK'
  BY <1>1, <1>2 DEF ClientsOK, NoRequest, Requests
<1>4. \A c \in Clients : client'[c] = New(c)
  BY <1>1
<1>5. ASSUME NEW c \in Clients, client'[c].req # None, client'[c].conn # None
      PROVE  /\ handler'[client'[c].conn] # Idle
             /\ handler'[client'[c].conn].req = client'[c].req
             /\ Waiting(c) /\ client'[c] = client[c]
  <2>1. Waiting(c) /\ client'[c] = client[c] /\ client[c].conn \notin conns
    BY <1>2, <1>4, <1>5
  <2>2. client[c].conn \in Slots
    BY <1>5, <2>1, ClientFacts
  <2> QED BY <1>5, <2>1, <2>2 DEF LinksOK
<1>6. ASSUME NEW c \in Clients, NEW d \in Clients, client'[c].req # None, client'[c].conn # None,
             client'[d].req # None, client'[d].conn = client'[c].conn
      PROVE  c = d
  <2>1. Waiting(c) /\ client'[c] = client[c] /\ Waiting(d) /\ client'[d] = client[d]
    BY <1>5, <1>6
  <2> QED BY <1>6, <2>1 DEF LinksOK
<1> QED BY <1>3, <1>5, <1>6 DEF LinksOK, Waiting, Idle

\* A request that is sent occupies a connection that nobody uses.
LEMMA SendFacts ==
  ASSUME HandlersOK, ClientsOK, LinksOK, NEW c \in Clients, NEW req \in Requests,
         NEW n \in 0..3, Send(c, req, n), ~Waiting(c) \/ client[c].conn = None
  PROVE  /\ HandlersOK' /\ ClientsOK' /\ LinksOK'
         /\ \A x \in Slots : \/ handler'[x] = handler[x]
                             \/ handler'[x].pc = "sent"
<1> DEFINE f == FreeSlot
           h == [pc |-> "sent", req |-> req]
           r == [req |-> req, conn |-> f, count |-> n]
<1>1. f \in Slots /\ handler[f] = Idle /\ ~Attached(f)
  BY DEF Send, FreeSlot
<1> HIDE DEF f
<1>2. h \in [pc : {"sent", "await"}, req : Requests] /\ h.pc = "sent" /\ h.req = req /\ h # Idle
  BY DEF Idle
<1>3. r \in [req : Requests, conn : Slots \cup {None}, count : 0..3] /\ r.req = req /\ r.conn = f
  BY <1>1
<1>4. handler' = [handler EXCEPT ![f] = h] /\ client' = [client EXCEPT ![c] = r]
  BY DEF Send, f
<1> HIDE DEF h, r
<1>5. HandlersOK' /\ handler'[f] = h /\ \A x \in Slots : x # f => handler'[x] = handler[x]
  BY <1>1, <1>2, <1>4, SetHandler
<1>6. client'[c] = r /\ \A d \in Clients : d # c => client'[d] = client[d]
  BY <1>4 DEF ClientsOK
<1>7. ClientsOK'
  BY <1>3, <1>4 DEF ClientsOK, NoRequest, Requests
<1>8. \A d \in Clients : d # c /\ Waiting(d) /\ client[d].conn # None =>
        /\ client[d].conn \in Slots /\ client[d].conn # f
        /\ handler'[client[d].conn] = handler[client[d].conn]
  BY <1>1, <1>5, ClientFacts DEF Attached
<1>9. LinksOK'
  <2>1. ASSUME NEW d \in Clients, client'[d].req # None, client'[d].conn # None
        PROVE  handler'[client'[d].conn] # Idle /\ handler'[client'[d].conn].req = client'[d].req
    BY <1>2, <1>3, <1>5, <1>6, <1>8, <2>1 DEF LinksOK, Waiting
  <2>2. ASSUME NEW d \in Clients, NEW e \in Clients, client'[d].req # None, client'[d].conn # None,
               client'[e].req # None, client'[e].conn = client'[d].conn
        PROVE  d = e
    BY <1>2, <1>3, <1>5, <1>6, <1>8, <2>2 DEF LinksOK, Waiting
  <2> QED BY <2>1, <2>2 DEF LinksOK, Waiting, Idle
<1> QED BY <1>2, <1>5, <1>7, <1>9

-----------------------------------------------------------------------------
(* Answers found in tables *)

(* An answer to a request that table tab has. *)
Has(tab, req, ans) ==
  ans # None => /\ AnswerAbout(req, ans) \in Taskhashes
                /\ tab.uni[AnswerAbout(req, ans)] = AnswerSays(req, ans)
                /\ tab.uni[AnswerAbout(req, ans)] # None

\* What the server finds for a request is in its tables.
LEMMA KnownFacts ==
  ASSUME TablesOK, NEW req \in Requests, req.kind \in Reads
  PROVE  Known(req) \in AnswersTo("replied", req) /\ Has(db, req, Known(req))
<1>0. db \in Tables /\ req.t \in Taskhashes
  BY RequestFacts DEF TablesOK, Reads
<1>1. CASE req.kind = "get-all"
  <2>1. Known(req) = Oldest(db, {r \in db.out : r.t = req.t})
    BY <1>1 DEF Known, query_all
  <2> QED BY <1>0, <1>1, <2>1, OldestFacts
          DEF AnswersTo, Has, AnswerAbout, AnswerSays, WithRow, OutRow
<1>2. CASE req.kind = "get-outhash"
  <2>1. Known(req) = Oldest(db, {r \in db.out : r.o = req.o})
    BY <1>2 DEF Known, query_outhash
  <2> QED BY <1>0, <1>2, <2>1, OldestFacts
          DEF AnswersTo, Has, AnswerAbout, AnswerSays, WithRow, OutRow
<1>3. CASE req.kind \in {"get", "get-stream"}
  <2>1. Known(req) = db.uni[req.t] /\ db.uni[req.t] \in Unihashes \cup {None}
    BY <1>0, <1>3 DEF Known, query_equivalent, Tables
  <2> QED BY <1>0, <1>3, <2>1 DEF AnswersTo, Has, AnswerAbout, AnswerSays, WithRow
<1> QED BY <1>1, <1>2, <1>3 DEF Reads

\* What the upstream server finds is in its tables.
LEMMA UpstreamFacts ==
  ASSUME TablesOK, NEW req \in Requests, req.kind # "backfill-wait"
  PROVE  /\ UpstreamKnows(req) \in AnswersTo("resumed", req)
         /\ req.kind = "get-stream" => UpstreamKnows(req) = up.uni[req.t]
<1>0. up \in Tables /\ req.t \in Taskhashes
  BY RequestFacts DEF TablesOK
<1>1. CASE req.kind = "get-all"
  <2>1. UpstreamKnows(req) = Oldest(up, {r \in up.out : r.t = req.t})
    BY <1>1 DEF UpstreamKnows, query_all
  <2> QED BY <1>0, <1>1, <2>1, OldestFacts DEF AnswersTo
<1>2. CASE req.kind \in {"report", "get-outhash"}
  <2>1. UpstreamKnows(req) = Oldest(up, {r \in up.out : r.o = req.o})
    BY <1>2 DEF UpstreamKnows, query_outhash
  <2> QED BY <1>0, <1>2, <2>1, OldestFacts DEF AnswersTo
<1>3. CASE req.kind \notin {"get-all", "report", "get-outhash"}
  <2>1. UpstreamKnows(req) = up.uni[req.t] /\ up.uni[req.t] \in Unihashes \cup {None}
    BY <1>0, <1>3 DEF UpstreamKnows, query_equivalent, Tables
  <2> QED BY <1>3, <2>1 DEF AnswersTo
<1> QED BY <1>1, <1>2, <1>3

\* update_unified takes a row over without changing a unihash.
LEMMA UnifiedFacts ==
  ASSUME NEW tab \in Tables, NEW d \in Answers \cup {None}
  PROVE  LET new == update_unified(tab, d)
         IN  /\ new \in Tables
             /\ \A x \in Taskhashes : tab.uni[x] # None => new.uni[x] = tab.uni[x]
             /\ d # None => new.uni[d.row.t] # None /\ d.row.t \in Taskhashes
<1>1. CASE d = None
  BY <1>1 DEF update_unified
<1>2. CASE d # None
  <2> DEFINE mid == insert_unihash(tab, d.row.t, d.u)
  <2>1. d.row.t \in Taskhashes /\ d.row.o \in Outhashes /\ d.row.created \in Nat /\ d.u \in Unihashes
    BY <1>2 DEF Answers, OutRow
  <2>2. /\ mid \in Tables /\ mid.uni[d.row.t] # None
        /\ \A x \in Taskhashes : tab.uni[x] # None => mid.uni[x] = tab.uni[x]
    BY <2>1, InsertUnihash
  <2>3. update_unified(tab, d) = insert_outhash(mid, d.row.t, d.row.o, d.row.created)
    BY <1>2 DEF update_unified
  <2> HIDE DEF mid
  <2>4. update_unified(tab, d) \in Tables /\ update_unified(tab, d).uni = mid.uni
    BY <2>1, <2>2, <2>3, InsertOuthash
  <2> QED BY <2>1, <2>2, <2>4
<1> QED BY <1>1, <1>2

-----------------------------------------------------------------------------
(* One step of the server *)

\* An answer is about a taskhash.
LEMMA AboutType ==
  ASSUME NEW req \in Requests, NEW ans \in AnswersTo("replied", req), ans # None
  PROVE  AnswerAbout(req, ans) \in Taskhashes
<1>1. CASE WithRow(req)
  <2>1. ans \in Answers
    BY <1>1 DEF AnswersTo, WithRow
  <2> QED BY <1>1, <2>1 DEF AnswerAbout, Answers, OutRow
<1>2. CASE ~WithRow(req)
  <2>1. req.kind # "backfill-wait"
    BY DEF AnswersTo
  <2> QED BY <1>2, <2>1, RequestFacts DEF AnswerAbout
<1> QED BY <1>1, <1>2

Drained == queue = <<>> /\ worker = WorkerIdle

StepOK ==
  /\ HashInv'
  /\ \A t \in Taskhashes : Stable(t)
  /\ \A s \in Slots : Waited(s) => Drained

(* Nothing that was kept is lost. *)
KeptStays == \A t \in Taskhashes : Kept(db, queue, worker, t) => Kept(db', queue', worker', t)

\* What clients know stays kept if nothing kept is lost and new answers are
\* about kept taskhashes.
LEMMA ToldStep ==
  ASSUME HandlersOK, RecordsOK, ToldIsKept, KeptStays, HandlersOK',
         spent'.crashes = 0 => spent.crashes = 0, told' = told,
         \A x \in Slots : \/ handler'[x] = handler[x]
                          \/ ~Replied(handler'[x])
                          \/ Kept(db', queue', worker', AnswerAbout(handler'[x].req, handler'[x].ans))
  PROVE  ToldIsKept'
<1> SUFFICES ASSUME spent'.crashes = 0
             PROVE  /\ \A a \in told' : Kept(db', queue', worker', a[1])
                    /\ \A x \in Slots : Replied(handler'[x]) =>
                         Kept(db', queue', worker', AnswerAbout(handler'[x].req, handler'[x].ans))
  BY DEF ToldIsKept, Kept, OnItsWay, Replied, AnswerAbout, WithRow
<1>1. spent.crashes = 0
  OBVIOUS
<1>2. \A a \in told : a[1] \in Taskhashes
  BY DEF RecordsOK
<1>3. ASSUME NEW x \in Slots, Replied(handler[x])
      PROVE  AnswerAbout(handler[x].req, handler[x].ans) \in Taskhashes
  BY <1>3, HandlerFacts, AboutType DEF Replied
<1>4. \A a \in told' : Kept(db', queue', worker', a[1])
  BY <1>1, <1>2 DEF ToldIsKept, KeptStays
<1>5. ASSUME NEW x \in Slots, Replied(handler'[x])
      PROVE  Kept(db', queue', worker', AnswerAbout(handler'[x].req, handler'[x].ans))
  <2>1. CASE handler'[x] = handler[x]
    BY <1>1, <1>3, <1>5, <2>1 DEF ToldIsKept, KeptStays
  <2> QED BY <1>5, <2>1
<1> QED BY <1>4, <1>5

\* HashTypeOK of the next state, part by part.
LEMMA HashTypeOfParts ==
  ASSUME TablesOK', HandlersOK', ClientsOK', LinksOK', BackfillOK', RecordsOK'
  PROVE  HashTypeOK'
BY DEF HashTypeOK, TablesOK, HandlersOK, ClientsOK, LinksOK, BackfillOK, RecordsOK

(* The queue stays, or a taskhash known upstream is added. *)
Queued(t) == t \in Taskhashes /\ up.uni[t] # None /\ queue' = Append(queue, t)
QueueStep == UNCHANGED queue \/ \E t \in Taskhashes : Queued(t)

\* A queue that keeps or grows keeps what it had.
LEMMA QueueFacts ==
  ASSUME BackfillOK, KnownUpstream, QueueStep, UNCHANGED <<worker, up>>,
         \A t \in Taskhashes : Stable(t)
  PROVE  /\ BackfillOK' /\ KeptStays
         /\ \A i \in DOMAIN queue' : up.uni[queue'[i]] # None
         /\ \A t \in Taskhashes : Queued(t) => Kept(db', queue', worker', t)
<1>0. queue \in Seq(Taskhashes) /\ DOMAIN queue = 1..Len(queue) /\ Len(queue) \in Nat
  BY LenProperties DEF BackfillOK
<1>1. CASE UNCHANGED queue
  <2>1. BackfillOK' /\ KeptStays /\ \A i \in DOMAIN queue' : up.uni[queue'[i]] # None
    BY <1>1 DEF BackfillOK, WorkerIdle, KeptStays, Kept, OnItsWay, KnownUpstream, Stable
  <2>2. ASSUME NEW t \in Taskhashes, Queued(t)
        PROVE  FALSE
    <3>1. Len(queue') = Len(queue) + 1
      BY <1>0, <2>2, AppendProperties DEF Queued
    <3> QED BY <1>0, <1>1, <3>1
  <2> QED BY <2>1, <2>2
<1>2. CASE \E t \in Taskhashes : Queued(t)
  <2>1. PICK t \in Taskhashes : Queued(t)
    BY <1>2
  <2>2. /\ queue' \in Seq(Taskhashes) /\ DOMAIN queue' = 1..(Len(queue) + 1)
        /\ queue'[Len(queue) + 1] = t
        /\ \A i \in 1..Len(queue) : queue'[i] = queue[i]
    <3>1. /\ Append(queue, t) \in Seq(Taskhashes) /\ Len(Append(queue, t)) = Len(queue) + 1
          /\ \A i \in 1..Len(queue) : Append(queue, t)[i] = queue[i]
          /\ Append(queue, t)[Len(queue) + 1] = t
      BY <1>0, AppendProperties
    <3>2. DOMAIN Append(queue, t) = 1..Len(Append(queue, t))
      BY <3>1, LenProperties
    <3> QED BY <2>1, <3>1, <3>2 DEF Queued
  <2>3. BackfillOK'
    BY <2>2 DEF BackfillOK, WorkerIdle
  <2>4. \A x : (\E i \in DOMAIN queue : queue[i] = x) => \E i \in DOMAIN queue' : queue'[i] = x
    BY <1>0, <2>2
  <2>5. KeptStays
    BY <2>4 DEF KeptStays, Kept, OnItsWay, Stable
  <2>6. \A i \in DOMAIN queue' : up.uni[queue'[i]] # None
    BY <1>0, <2>1, <2>2 DEF KnownUpstream, Queued
  <2>7. ASSUME NEW x \in Taskhashes, Queued(x) PROVE Kept(db', queue', worker', x)
    <3>1. Append(queue, x)[Len(queue) + 1] = x
      BY <1>0, AppendProperties
    <3> QED BY <1>0, <2>2, <2>7, <3>1 DEF Queued, Kept, OnItsWay
  <2> QED BY <2>3, <2>5, <2>6, <2>7
<1> QED BY <1>1, <1>2 DEF QueueStep

\* A handler replies, after it has changed the tables or the queue.
LEMMA ReplyStep ==
  ASSUME HashInv, UNCHANGED upstream, NEW s \in Slots, handler[s].pc # "idle",
         NEW ans \in AnswersTo("replied", handler[s].req), Reply(s, ans),
         UNCHANGED <<client, up, upRuns, worker, told, spent>>,
         TablesOK', UniCommitted', \A t \in Taskhashes : Stable(t), pinned' \subseteq Taskhashes,
         QueueStep,
         ans # None => Kept(db', queue', worker', AnswerAbout(handler[s].req, ans)),
         handler[s].req.kind = "backfill-wait" => Drained
  PROVE  StepOK
<1>1. TablesOK /\ HandlersOK /\ ClientsOK /\ LinksOK /\ BackfillOK /\ RecordsOK
  BY HashTypeParts DEF HashInv
<1>2. /\ HandlersOK' /\ LinksOK'
      /\ \A x \in Slots : x # s => handler'[x] = handler[x]
      /\ \/ handler'[s] = Idle
         \/ /\ handler'[s].pc = "replied" /\ handler'[s].req = handler[s].req
            /\ handler'[s].ans = ans
  BY <1>1, ReplyFacts
<1>3. BackfillOK' /\ KeptStays /\ \A i \in DOMAIN queue' : up.uni[queue'[i]] # None
  BY <1>1, QueueFacts DEF HashInv
<1>4. ClientsOK' /\ RecordsOK'
  BY <1>1 DEF ClientsOK, RecordsOK, NoRequest, Requests
<1>5. HashTypeOK'
  BY <1>2, <1>3, <1>4, HashTypeOfParts
<1>6. KnownUpstream'
  <2>1. ASSUME NEW x \in Slots, handler'[x].pc = "resumed"
        PROVE  handler'[x] = handler[x]
    BY <1>2, <2>1 DEF Idle
  <2> QED BY <1>3, <2>1 DEF HashInv, KnownUpstream
<1>7. ToldIsKept'
  <2>1. ASSUME NEW x \in Slots
        PROVE  \/ handler'[x] = handler[x]
               \/ ~Replied(handler'[x])
               \/ Kept(db', queue', worker', AnswerAbout(handler'[x].req, handler'[x].ans))
    BY <1>2 DEF Replied, Idle
  <2>2. ToldIsKept /\ (spent'.crashes = 0 => spent.crashes = 0) /\ told' = told
    BY DEF HashInv
  <2> QED BY <1>1, <1>2, <1>3, <2>1, <2>2, ToldStep
<1>8. ASSUME NEW x \in Slots, Waited(x) PROVE Drained
  <2>1. x = s
    BY <1>2, <1>8 DEF Waited
  <2> QED BY <1>8, <2>1 DEF Waited
<1> QED BY <1>5, <1>6, <1>7, <1>8 DEF StepOK, HashInv

(* A commit of tables that have all unihashes of before. *)
LEMMA CommitFacts ==
  ASSUME TablesOK, NEW tab \in Tables, Commit(tab), UNCHANGED up, now' \in Nat,
         \A x \in Taskhashes : db.uni[x] # None => tab.uni[x] = db.uni[x]
  PROVE  TablesOK' /\ UniCommitted' /\ \A t \in Taskhashes : Stable(t)
BY DEF TablesOK, Commit, UniCommitted, Stable, Tables, OutRow

\* The end of handle_report.
LEMMA FinishStep ==
  ASSUME HashInv, NEW s \in Slots, handler[s].pc # "idle", handler[s].req.kind = "report",
         NEW tab \in Tables, tab.uni = db.uni, NEW u \in Unihashes, FinishReport(s, tab, u),
         now' \in Nat, UNCHANGED <<upstream, up, upRuns, client, queue, worker, told, pinned, spent>>
  PROVE  StepOK
<1> DEFINE req == handler[s].req
           final == insert_unihash(tab, req.t, u)
<1>1. TablesOK /\ HandlersOK /\ RecordsOK
  BY HashTypeParts DEF HashInv
<1>2. req \in Requests /\ req.t \in Taskhashes
  BY <1>1, HandlerFacts, RequestFacts
<1>3. /\ final \in Tables /\ final.uni[req.t] # None
      /\ \A x \in Taskhashes : db.uni[x] # None => final.uni[x] = db.uni[x]
  BY <1>2, InsertUnihash
<1>4. Commit(final) /\ Reply(s, final.uni[req.t])
  BY DEF FinishReport, query_equivalent
<1> HIDE DEF final
<1>5. final.uni[req.t] \in Unihashes
  BY <1>2, <1>3 DEF Tables
<1>6. final.uni[req.t] \in AnswersTo("replied", req)
  BY <1>5 DEF AnswersTo
<1>7. TablesOK' /\ UniCommitted' /\ \A t \in Taskhashes : Stable(t)
  BY <1>1, <1>3, <1>4, CommitFacts
<1>8. Kept(db', queue', worker', AnswerAbout(req, final.uni[req.t]))
  BY <1>3, <1>4 DEF Commit, Kept, AnswerAbout, WithRow
<1>9. pinned' \subseteq Taskhashes /\ QueueStep
  BY <1>1 DEF RecordsOK, QueueStep
<1> QED BY <1>4, <1>6, <1>7, <1>8, <1>9, ReplyStep

(* A handler goes on waiting, with the same request. *)
LEMMA AwaitStep ==
  ASSUME HashInv, UNCHANGED upstream, NEW s \in Slots, NEW h,
         \/ h = [pc |-> "await", req |-> handler[s].req]
         \/ /\ h = [pc |-> "resumed", req |-> handler[s].req, ans |-> UpstreamKnows(handler[s].req)]
            /\ handler[s].req.kind # "backfill-wait",
         handler[s].pc # "idle",
         handler' = [handler EXCEPT ![s] = h],
         UNCHANGED <<client, up, upRuns, queue, worker, told, pinned, spent>>,
         TablesOK', UniCommitted', \A t \in Taskhashes : Stable(t)
  PROVE  StepOK
<1>1. TablesOK /\ HandlersOK /\ ClientsOK /\ LinksOK /\ BackfillOK /\ RecordsOK
  BY HashTypeParts DEF HashInv
<1>2. handler[s].req \in Requests
  BY <1>1, HandlerFacts
<1>3. /\ \/ h \in [pc : {"sent", "await"}, req : Requests]
         \/ /\ h \in [pc : {"resumed", "replied"}, req : Requests,
                   ans : {None} \cup Unihashes \cup Answers]
            /\ h.ans \in AnswersTo(h.pc, h.req)
      /\ h # Idle /\ h.req = handler[s].req /\ h.pc \in {"await", "resumed"}
      /\ h.pc = "resumed" => /\ h.ans = UpstreamKnows(handler[s].req)
                             /\ h.req.kind # "backfill-wait"
  <2>1. CASE h = [pc |-> "await", req |-> handler[s].req]
    BY <1>2, <2>1 DEF Idle
  <2>2. CASE /\ h = [pc |-> "resumed", req |-> handler[s].req, ans |-> UpstreamKnows(handler[s].req)]
             /\ handler[s].req.kind # "backfill-wait"
    <3>1. UpstreamKnows(handler[s].req) \in AnswersTo("resumed", handler[s].req)
      BY <1>1, <1>2, <2>2, UpstreamFacts
    <3>2. UpstreamKnows(handler[s].req) \in {None} \cup Unihashes \cup Answers
      BY <3>1, AnswerSorts
    <3> QED BY <1>2, <2>2, <3>1, <3>2 DEF Idle
  <2> QED BY <2>1, <2>2
<1>4. HandlersOK' /\ handler'[s] = h /\ \A x \in Slots : x # s => handler'[x] = handler[x]
  BY <1>1, <1>3, SetHandler
<1>5. LinksOK'
  BY <1>1, <1>3, <1>4, LinksKept
<1>6. QueueStep
  BY DEF QueueStep
<1>7. BackfillOK' /\ KeptStays
  BY <1>1, <1>6, QueueFacts DEF HashInv
<1>8. ClientsOK' /\ RecordsOK'
  BY <1>1 DEF ClientsOK, RecordsOK, NoRequest, Requests
<1>9. HashTypeOK'
  BY <1>4, <1>5, <1>7, <1>8, HashTypeOfParts
<1>10. KnownUpstream'
  <2>1. ASSUME NEW x \in Slots, handler'[x].pc = "resumed", handler'[x].req.kind = "get-stream",
               handler'[x].ans # None
        PROVE  up.uni[handler'[x].req.t] # None
    <3>1. CASE x = s
      BY <1>1, <1>2, <1>3, <1>4, <2>1, <3>1, UpstreamFacts
    <3>2. CASE x # s
      BY <1>4, <2>1, <3>2 DEF HashInv, KnownUpstream
    <3> QED BY <3>1, <3>2
  <2> QED BY <2>1 DEF HashInv, KnownUpstream
<1>11. ToldIsKept'
  <2>1. \A x \in Slots : handler'[x] = handler[x] \/ ~Replied(handler'[x])
    BY <1>3, <1>4 DEF Replied
  <2> QED BY <1>1, <1>4, <1>7, <2>1, ToldStep DEF HashInv
<1>12. \A x \in Slots : ~Waited(x)
  BY <1>3, <1>4 DEF Waited
<1> QED BY <1>9, <1>10, <1>11, <1>12 DEF StepOK, HashInv

\* handle_report up to its first await, or to its end.
LEMMA ReportStep ==
  ASSUME HashInv, UNCHANGED upstream, NEW s \in Slots, Report(s)
  PROVE  StepOK
<1> DEFINE req == handler[s].req
<1>1. TablesOK /\ HandlersOK /\ UniCommitted
  BY HashTypeParts DEF HashInv
<1>2. /\ req \in Requests /\ req.kind = "report" /\ handler[s].pc = "sent"
      /\ req.t \in Taskhashes /\ req.o \in Outhashes /\ req.u \in Unihashes
  BY <1>1, HandlerFacts, RequestFacts DEF Report, Busy
<1> DEFINE tab == insert_outhash(db, req.t, req.o, now)
           row == query_other(tab, req.t, req.o)
<1>3. tab \in Tables /\ tab.uni = db.uni
  BY <1>1, <1>2, InsertOuthash DEF TablesOK
<1>4. row \in Answers \/ row = None
  BY <1>3, OldestFacts DEF query_other
<1>5. /\ now' = IF tab = db THEN now ELSE now + 1
      /\ \/ row # None /\ FinishReport(s, tab, row.u)
         \/ row = None /\ ~upstream /\ FinishReport(s, tab, req.u)
         \/ row = None /\ upstream /\ db' = tab /\ Await(s) /\ UNCHANGED committed
      /\ UNCHANGED <<up, upRuns, client, queue, worker, told, pinned, spent>>
  BY DEF Report
<1> HIDE DEF tab, row
<1>6. now' \in Nat
  BY <1>1, <1>5 DEF TablesOK
<1>7. CASE row # None /\ FinishReport(s, tab, row.u)
  <2>1. row.u \in Unihashes
    BY <1>4, <1>7 DEF Answers
  <2> QED BY <1>2, <1>3, <1>5, <1>6, <1>7, <2>1, FinishStep
<1>8. CASE FinishReport(s, tab, req.u)
  BY <1>2, <1>3, <1>5, <1>6, <1>8, FinishStep
<1>9. CASE db' = tab /\ Await(s) /\ UNCHANGED committed
  <2>1. TablesOK' /\ UniCommitted' /\ \A t \in Taskhashes : Stable(t)
    BY <1>1, <1>3, <1>5, <1>6, <1>9 DEF TablesOK, UniCommitted, Stable, Tables, OutRow
  <2> QED BY <1>2, <1>5, <1>9, <2>1, AwaitStep DEF Await
<1> QED BY <1>5, <1>7, <1>8, <1>9

\* handle_report after the upstream server has answered.
LEMMA ReportResumesStep ==
  ASSUME HashInv, UNCHANGED upstream, NEW s \in Slots, ReportResumes(s)
  PROVE  StepOK
<1> DEFINE req == handler[s].req
           ans == handler[s].ans
           u == IF ans = None THEN req.u ELSE ans.u
<1>1. TablesOK /\ HandlersOK
  BY HashTypeParts DEF HashInv
<1>2. /\ req \in Requests /\ req.kind = "report" /\ handler[s].pc = "resumed"
      /\ req.u \in Unihashes /\ ans \in AnswersTo("resumed", req)
  BY <1>1, HandlerFacts, RequestFacts DEF ReportResumes, Busy
<1>3. ans \in Answers \cup {None}
  BY <1>2 DEF AnswersTo
<1>4. u \in Unihashes
  BY <1>2, <1>3 DEF Answers
<1>5. FinishReport(s, db, u) /\ now' \in Nat /\ db \in Tables
  BY <1>1 DEF ReportResumes, TablesOK
<1> HIDE DEF u
<1> QED BY <1>2, <1>4, <1>5, FinishStep DEF ReportResumes

\* handle_equivreport.
LEMMA EquivStep ==
  ASSUME HashInv, UNCHANGED upstream, NEW s \in Slots, handle_equivreport(s)
  PROVE  StepOK
<1> DEFINE req == handler[s].req
           tab == insert_unihash(db, req.t, req.u)
<1>1. TablesOK /\ HandlersOK /\ RecordsOK
  BY HashTypeParts DEF HashInv
<1>2. /\ req \in Requests /\ req.kind = "report-equiv" /\ handler[s].pc = "sent"
      /\ req.t \in Taskhashes /\ req.u \in Unihashes
  BY <1>1, HandlerFacts, RequestFacts DEF handle_equivreport, Busy
<1>3. /\ tab \in Tables /\ tab.uni[req.t] # None
      /\ \A x \in Taskhashes : db.uni[x] # None => tab.uni[x] = db.uni[x]
  BY <1>1, <1>2, InsertUnihash DEF TablesOK
<1>4. /\ Commit(tab) /\ Reply(s, tab.uni[req.t]) /\ Pin(req.t)
      /\ UNCHANGED <<up, upRuns, now, client, queue, worker, told, spent>>
  BY DEF handle_equivreport, query_equivalent
<1> HIDE DEF tab
<1>5. tab.uni[req.t] \in AnswersTo("replied", req)
  BY <1>2, <1>3 DEF AnswersTo, Tables
<1>6. TablesOK' /\ UniCommitted' /\ \A t \in Taskhashes : Stable(t)
  BY <1>1, <1>3, <1>4, CommitFacts DEF TablesOK
<1>7. Kept(db', queue', worker', AnswerAbout(req, tab.uni[req.t]))
  BY <1>2, <1>3, <1>4 DEF Commit, Kept, AnswerAbout, WithRow
<1>8. pinned' \subseteq Taskhashes /\ QueueStep
  BY <1>1, <1>2, <1>4 DEF RecordsOK, QueueStep, Pin
<1> QED BY <1>2, <1>4, <1>5, <1>6, <1>7, <1>8, ReplyStep

\* The requests that read, up to their first await or to their end.
LEMMA ReadStep ==
  ASSUME HashInv, UNCHANGED upstream, NEW s \in Slots, Read(s)
  PROVE  StepOK
<1> DEFINE req == handler[s].req
<1>1. TablesOK /\ HandlersOK /\ RecordsOK /\ UniCommitted
  BY HashTypeParts DEF HashInv
<1>2. req \in Requests /\ req.kind \in Reads /\ handler[s].pc = "sent"
  BY <1>1, HandlerFacts DEF Read
<1>3. Known(req) \in AnswersTo("replied", req) /\ Has(db, req, Known(req))
  BY <1>1, <1>2, KnownFacts
<1>4. UNCHANGED <<db, committed, up, upRuns, now, client, queue, worker, told, pinned, spent>>
  BY DEF Read
<1>5. TablesOK' /\ UniCommitted' /\ \A t \in Taskhashes : Stable(t)
  BY <1>1, <1>4 DEF TablesOK, UniCommitted, Stable, Tables, OutRow
<1>6. CASE Await(s)
  BY <1>2, <1>4, <1>5, <1>6, AwaitStep DEF Await
<1>7. CASE Reply(s, Known(req))
  <2>1. Known(req) # None => Kept(db', queue', worker', AnswerAbout(req, Known(req)))
    BY <1>3, <1>4 DEF Has, Kept
  <2>2. pinned' \subseteq Taskhashes /\ QueueStep /\ req.kind # "backfill-wait"
    BY <1>1, <1>2, <1>4 DEF RecordsOK, QueueStep, Reads
  <2> QED BY <1>2, <1>3, <1>4, <1>5, <1>7, <2>1, <2>2, ReplyStep
<1> QED BY <1>6, <1>7 DEF Read

\* get with all, and get-outhash, after the upstream server has answered.
LEMMA UnifiedStep ==
  ASSUME HashInv, UNCHANGED upstream, NEW s \in Slots, UnifiedResumes(s)
  PROVE  StepOK
<1> DEFINE req == handler[s].req
           ans == handler[s].ans
           tab == update_unified(db, ans)
<1>1. TablesOK /\ HandlersOK /\ RecordsOK
  BY HashTypeParts DEF HashInv
<1>2. /\ req \in Requests /\ WithRow(req) /\ handler[s].pc = "resumed"
      /\ ans \in AnswersTo("resumed", req)
  BY <1>1, HandlerFacts DEF UnifiedResumes, Busy, WithRow
<1>3. ans \in Answers \cup {None} /\ ans \in AnswersTo("replied", req)
  BY <1>2 DEF AnswersTo, WithRow
<1>4. /\ tab \in Tables
      /\ \A x \in Taskhashes : db.uni[x] # None => tab.uni[x] = db.uni[x]
      /\ ans # None => tab.uni[ans.row.t] # None /\ ans.row.t \in Taskhashes
  BY <1>1, <1>3, UnifiedFacts DEF TablesOK
<1>5. /\ Commit(tab) /\ Reply(s, ans)
      /\ IF ans = None THEN UNCHANGED pinned ELSE Pin(ans.row.t)
      /\ UNCHANGED <<up, upRuns, now, client, queue, worker, told, spent>>
  BY DEF UnifiedResumes
<1> HIDE DEF tab
<1>6. TablesOK' /\ UniCommitted' /\ \A t \in Taskhashes : Stable(t)
  BY <1>1, <1>4, <1>5, CommitFacts DEF TablesOK
<1>7. ans # None => Kept(db', queue', worker', AnswerAbout(req, ans))
  BY <1>2, <1>4, <1>5 DEF Commit, Kept, AnswerAbout
<1>8. pinned' \subseteq Taskhashes /\ QueueStep /\ req.kind # "backfill-wait"
  BY <1>1, <1>2, <1>4, <1>5 DEF RecordsOK, QueueStep, Pin, WithRow
<1> QED BY <1>2, <1>3, <1>5, <1>6, <1>7, <1>8, ReplyStep

\* get-stream answers and then queues the taskhash: it is on its way from then
\* on, and it was known upstream.
LEMMA StreamStep ==
  ASSUME HashInv, UNCHANGED upstream, NEW s \in Slots, StreamResumes(s)
  PROVE  StepOK
<1> DEFINE req == handler[s].req
           ans == handler[s].ans
<1>1. TablesOK /\ HandlersOK /\ RecordsOK /\ UniCommitted /\ KnownUpstream /\ BackfillOK
  BY HashTypeParts DEF HashInv
<1>2. /\ req \in Requests /\ req.kind = "get-stream" /\ handler[s].pc = "resumed"
      /\ req.t \in Taskhashes /\ ans \in AnswersTo("resumed", req)
  BY <1>1, HandlerFacts, RequestFacts DEF StreamResumes, Busy
<1>3. ans \in AnswersTo("replied", req)
  BY <1>2 DEF AnswersTo
<1>4. /\ Reply(s, ans)
      /\ queue' = IF ans = None THEN queue ELSE Append(queue, req.t)
      /\ UNCHANGED <<db, committed, up, upRuns, now, client, worker, told, pinned, spent>>
  BY DEF StreamResumes
<1>5. TablesOK' /\ UniCommitted' /\ \A t \in Taskhashes : Stable(t)
  BY <1>1, <1>4 DEF TablesOK, UniCommitted, Stable, Tables, OutRow
<1>6. ans # None => Queued(req.t)
  BY <1>1, <1>2, <1>4 DEF Queued, KnownUpstream
<1>7. QueueStep
  BY <1>2, <1>4, <1>6 DEF QueueStep
<1>8. ans # None => Kept(db', queue', worker', req.t)
  BY <1>1, <1>2, <1>4, <1>5, <1>6, <1>7, QueueFacts
<1>9. ans # None => Kept(db', queue', worker', AnswerAbout(req, ans))
  BY <1>2, <1>8 DEF AnswerAbout, WithRow
<1> QED BY <1>1, <1>2, <1>3, <1>4, <1>5, <1>7, <1>9, ReplyStep DEF RecordsOK

\* backfill-wait answers only when queue and worker are empty.
LEMMA WaitStep ==
  ASSUME HashInv, UNCHANGED upstream, NEW s \in Slots, handle_backfill_wait(s)
  PROVE  StepOK
<1> DEFINE req == handler[s].req
<1>1. TablesOK /\ HandlersOK /\ RecordsOK /\ UniCommitted
  BY HashTypeParts DEF HashInv
<1>2. handler[s].pc # "idle" /\ req.kind = "backfill-wait"
  BY DEF handle_backfill_wait
<1>3. UNCHANGED <<db, committed, up, upRuns, now, client, queue, worker, told, pinned, spent>>
  BY DEF handle_backfill_wait
<1>4. TablesOK' /\ UniCommitted' /\ \A t \in Taskhashes : Stable(t)
  BY <1>1, <1>3 DEF TablesOK, UniCommitted, Stable, Tables, OutRow
<1>5. CASE Drained
  <2>1. Reply(s, None) /\ None \in AnswersTo("replied", req) /\ QueueStep
    BY <1>3, <1>5, AnswerSorts DEF handle_backfill_wait, Drained, QueueStep
  <2> QED BY <1>1, <1>2, <1>3, <1>4, <1>5, <2>1, ReplyStep DEF RecordsOK
<1>6. CASE ~Drained
  <2>1. Await(s)
    BY <1>6 DEF handle_backfill_wait, Drained
  <2> QED BY <1>2, <1>3, <1>4, <2>1, AwaitStep DEF Await
<1> QED BY <1>5, <1>6

(* Connections are lost: nothing but their handlers and clients changes.   *)
LEMMA LostStep ==
  ASSUME HashInv, UNCHANGED upstream, NEW conns, Lost(conns), HandlersOK',
         \A x \in Slots : \/ handler'[x] = handler[x]
                          \/ x \in conns /\ handler'[x] = Idle,
         UNCHANGED <<db, committed, up, upRuns, now, queue, worker, told, pinned>>,
         RecordsOK', spent'.crashes = spent.crashes
  PROVE  StepOK
<1>1. TablesOK /\ HandlersOK /\ ClientsOK /\ LinksOK /\ BackfillOK /\ RecordsOK
  BY HashTypeParts DEF HashInv
<1>2. TablesOK' /\ UniCommitted' /\ \A t \in Taskhashes : Stable(t)
  BY <1>1 DEF HashInv, TablesOK, UniCommitted, Stable, Tables, OutRow
<1>3. ClientsOK' /\ LinksOK'
  BY <1>1, LostFacts
<1>4. BackfillOK' /\ KeptStays
  BY <1>1 DEF BackfillOK, WorkerIdle, KeptStays
<1>5. HashTypeOK'
  BY <1>2, <1>3, <1>4, HashTypeOfParts
<1>6. KnownUpstream'
  <2>1. \A x \in Slots : handler'[x].pc = "resumed" => handler'[x] = handler[x]
    BY DEF Idle
  <2> QED BY <2>1 DEF HashInv, KnownUpstream
<1>7. ToldIsKept'
  <2>1. \A x \in Slots : handler'[x] = handler[x] \/ ~Replied(handler'[x])
    BY DEF Replied, Idle
  <2> QED BY <1>1, <1>4, <2>1, ToldStep DEF HashInv
<1>8. \A x \in Slots : ~Waited(x)
  BY DEF Waited, Idle
<1> QED BY <1>2, <1>5, <1>6, <1>7, <1>8 DEF StepOK, HashInv

\* An exception in a handler.
LEMMA RaiseStep ==
  ASSUME HashInv, UNCHANGED upstream, NEW s \in Slots, Raise(s),
         UNCHANGED <<db, committed, up, upRuns, now, queue, worker, told, pinned, spent>>
  PROVE  StepOK
<1>1. HandlersOK /\ RecordsOK
  BY HashTypeParts DEF HashInv
<1>2. HandlersOK' /\ handler'[s] = Idle /\ \A x \in Slots : x # s => handler'[x] = handler[x]
  BY <1>1, SetHandler DEF Raise
<1>3. RecordsOK' /\ Lost({s})
  BY <1>1 DEF RecordsOK, Raise
<1> QED BY <1>2, <1>3, LostStep

\* get after the upstream server has answered.
LEMMA ResumedGetStep ==
  ASSUME HashInv, UNCHANGED upstream, NEW s \in Slots, GetResumes(s)
  PROVE  StepOK
<1> DEFINE req == handler[s].req
           ans == handler[s].ans
           tab == insert_unihash(db, req.t, ans)
<1>1. TablesOK /\ HandlersOK /\ RecordsOK
  BY HashTypeParts DEF HashInv
<1>2. /\ req \in Requests /\ req.kind = "get" /\ handler[s].pc = "resumed"
      /\ req.t \in Taskhashes /\ ans \in AnswersTo("resumed", req)
  BY <1>1, HandlerFacts, RequestFacts DEF GetResumes, Busy
<1>3. ans \in AnswersTo("replied", req) /\ ans \in Unihashes \cup {None}
  BY <1>2 DEF AnswersTo
<1>4. CASE ans = None /\ Raise(s) /\ UNCHANGED <<db, committed, pinned>>
  BY <1>4, RaiseStep DEF GetResumes
<1>5. CASE ans # None /\ Commit(tab) /\ Pin(req.t) /\ Reply(s, ans) /\ UNCHANGED client
  <2>1. /\ tab \in Tables /\ tab.uni[req.t] # None
        /\ \A x \in Taskhashes : db.uni[x] # None => tab.uni[x] = db.uni[x]
    BY <1>1, <1>2, <1>3, <1>5, InsertUnihash DEF TablesOK
  <2>2. UNCHANGED <<up, upRuns, now, queue, worker, told, spent>>
    BY DEF GetResumes
  <2> HIDE DEF tab
  <2>3. TablesOK' /\ UniCommitted' /\ \A t \in Taskhashes : Stable(t)
    BY <1>1, <1>5, <2>1, <2>2, CommitFacts DEF TablesOK
  <2>4. Kept(db', queue', worker', AnswerAbout(req, ans))
    BY <1>2, <1>5, <2>1 DEF Commit, Kept, AnswerAbout, WithRow
  <2>5. pinned' \subseteq Taskhashes /\ QueueStep
    BY <1>1, <1>2, <1>5, <2>2 DEF RecordsOK, QueueStep, Pin
  <2> QED BY <1>2, <1>3, <1>5, <2>2, <2>3, <2>4, <2>5, ReplyStep
<1> QED BY <1>4, <1>5 DEF GetResumes

\* Every step of a handler.
LEMMA HandlerStep ==
  ASSUME HashInv, UNCHANGED upstream, NEW s \in Slots,
         Handler(s) \/ UpstreamAnswers(s) \/ UpstreamFails(s)
  PROVE  StepOK
<1>1. CASE Handler(s)
  BY <1>1, ReportStep, ReportResumesStep, EquivStep, ReadStep, ResumedGetStep, UnifiedStep, StreamStep,
     WaitStep DEF Handler
<1>2. CASE UpstreamAnswers(s)
  <2>1. TablesOK /\ UniCommitted
    BY HashTypeParts DEF HashInv
  <2>2. TablesOK' /\ UniCommitted' /\ \A t \in Taskhashes : Stable(t)
    BY <1>2, <2>1 DEF UpstreamAnswers, TablesOK, UniCommitted, Stable, Tables, OutRow
  <2> QED BY <1>2, <2>2, AwaitStep DEF UpstreamAnswers
<1>3. CASE UpstreamFails(s)
  BY <1>3, RaiseStep DEF UpstreamFails
<1> QED BY <1>1, <1>2, <1>3

(* Steps that no handler and no client has a part in. *)
LEMMA QuietStep ==
  ASSUME HashInv, UNCHANGED <<upstream, handler, client, told>>,
         TablesOK', UniCommitted', \A t \in Taskhashes : Stable(t),
         BackfillOK', RecordsOK', KnownUpstream', KeptStays, spent'.crashes = spent.crashes
  PROVE  StepOK
<1>1. HandlersOK /\ ClientsOK /\ LinksOK /\ RecordsOK
  BY HashTypeParts DEF HashInv
<1>2. HandlersOK' /\ ClientsOK' /\ LinksOK'
  BY <1>1 DEF HandlersOK, ClientsOK, LinksOK, Waiting, Idle, Requests, Answers, OutRow, AnswersTo,
              NoRequest
<1>3. HashTypeOK'
  BY <1>2, HashTypeOfParts
<1>4. ToldIsKept'
  BY <1>1, <1>2, ToldStep DEF HashInv
<1>5. \A x \in Slots : ~Waited(x)
  BY DEF Waited
<1> QED BY <1>3, <1>4, <1>5 DEF StepOK, HashInv

\* The shapes of the backfill worker.
LEMMA WorkerFacts ==
  ASSUME BackfillOK
  PROVE  \/ worker = WorkerIdle /\ worker.pc = "get"
         \/ worker.pc = "dead"
         \/ worker.pc = "copy" /\ worker.t \in Taskhashes /\ worker # WorkerIdle
         \/ /\ worker.pc = "insert" /\ worker.t \in Taskhashes /\ worker # WorkerIdle
            /\ worker.ans \in Unihashes \cup {None}
<1>1. CASE worker \in [pc : {"copy"}, t : Taskhashes]
  BY <1>1 DEF WorkerIdle
<1>2. CASE worker \in [pc : {"insert"}, t : Taskhashes, ans : Unihashes \cup {None}]
  BY <1>2 DEF WorkerIdle
<1>3. CASE worker = WorkerIdle \/ worker = [pc |-> "dead"]
  BY <1>3 DEF WorkerIdle
<1> QED BY <1>1, <1>2, <1>3 DEF BackfillOK

\* Every step of the backfill worker: what it takes from the queue it puts
\* into the table, since the upstream server knows it.
LEMMA BackfillStep ==
  ASSUME HashInv, UNCHANGED upstream, Backfill
  PROVE  StepOK
<1>1. /\ TablesOK /\ HandlersOK /\ RecordsOK /\ UniCommitted /\ KnownUpstream /\ BackfillOK
      /\ queue \in Seq(Taskhashes)
  BY HashTypeParts DEF HashInv, BackfillOK
<1>2. CASE BackfillGet
  <2> DEFINE t == Head(queue)
  <2>1. /\ queue # <<>> /\ worker = WorkerIdle /\ queue' = Tail(queue)
        /\ worker' = [pc |-> "copy", t |-> t]
        /\ UNCHANGED <<db, committed, up, upRuns, now, handler, client, told, pinned, spent>>
    BY <1>2 DEF BackfillGet
  <2>2. /\ t \in Taskhashes /\ queue' \in Seq(Taskhashes) /\ t = queue[1] /\ Len(queue) \in Nat \ {0}
        /\ DOMAIN queue = 1..Len(queue) /\ DOMAIN queue' = 1..(Len(queue) - 1)
        /\ \A i \in 1..(Len(queue) - 1) : queue'[i] = queue[i + 1]
    <3>1. /\ Tail(queue) \in Seq(Taskhashes) /\ Head(queue) = queue[1]
          /\ Len(Tail(queue)) = Len(queue) - 1
          /\ \A i \in 1..Len(Tail(queue)) : Tail(queue)[i] = queue[i + 1]
      BY <1>1, <2>1, HeadTailProperties
    <3>2. Len(queue) \in Nat \ {0} /\ DOMAIN queue = 1..Len(queue)
      BY <1>1, <2>1, LenProperties, EmptySeq
    <3>3. DOMAIN Tail(queue) = 1..Len(Tail(queue))
      BY <3>1, LenProperties
    <3>4. queue[1] \in Taskhashes
      BY <1>1, <3>2, ElementOfSeq
    <3> QED BY <2>1, <3>1, <3>2, <3>3, <3>4
  <2> HIDE DEF t
  <2>3. worker'.pc = "copy" /\ worker'.t = t /\ BackfillOK'
    BY <2>1, <2>2 DEF BackfillOK
  <2>4. KnownUpstream'
    BY <1>1, <2>1, <2>2, <2>3 DEF KnownUpstream
  <2>5. KeptStays
    <3>1. ASSUME NEW x \in Taskhashes, NEW i \in DOMAIN queue, queue[i] = x
          PROVE  OnItsWay(queue', worker', x)
      <4>1. CASE i = 1
        BY <2>2, <2>3, <3>1, <4>1 DEF OnItsWay
      <4>2. CASE i # 1
        <5>1. i - 1 \in DOMAIN queue' /\ queue'[i - 1] = queue[(i - 1) + 1] /\ (i - 1) + 1 = i
          BY <2>2, <3>1, <4>2
        <5> QED BY <3>1, <5>1 DEF OnItsWay
      <4> QED BY <4>1, <4>2
    <3>2. worker.pc = "get"
      BY <2>1 DEF WorkerIdle
    <3> QED BY <2>1, <3>1, <3>2 DEF KeptStays, Kept, OnItsWay
  <2>6. TablesOK' /\ UniCommitted' /\ RecordsOK' /\ \A x \in Taskhashes : Stable(x)
    BY <1>1, <2>1 DEF TablesOK, UniCommitted, RecordsOK, Stable, Tables, OutRow
  <2> QED BY <2>1, <2>3, <2>4, <2>5, <2>6, QuietStep
<1>3. CASE BackfillAnswer
  <2>1. /\ worker.pc = "copy" /\ worker.t \in Taskhashes
        /\ worker' = [pc |-> "insert", t |-> worker.t, ans |-> up.uni[worker.t]]
        /\ UNCHANGED <<db, committed, up, upRuns, now, handler, client, queue, told, pinned, spent>>
    BY <1>1, <1>3, WorkerFacts DEF BackfillAnswer, query_equivalent
  <2>2. up.uni[worker.t] \in Unihashes \cup {None}
    BY <1>1, <2>1 DEF TablesOK, Tables
  <2>3. /\ worker'.pc = "insert" /\ worker'.t = worker.t /\ worker'.ans = up.uni[worker.t]
        /\ BackfillOK'
    BY <1>1, <2>1, <2>2 DEF BackfillOK
  <2>4. KnownUpstream'
    BY <1>1, <2>1, <2>3 DEF KnownUpstream
  <2>5. KeptStays
    BY <2>1, <2>3 DEF KeptStays, Kept, OnItsWay
  <2>6. TablesOK' /\ UniCommitted' /\ RecordsOK' /\ \A x \in Taskhashes : Stable(x)
    BY <1>1, <2>1 DEF TablesOK, UniCommitted, RecordsOK, Stable, Tables, OutRow
  <2> QED BY <2>1, <2>3, <2>4, <2>5, <2>6, QuietStep
<1>4. CASE BackfillInsert
  <2> DEFINE tab == insert_unihash(db, worker.t, worker.ans)
  <2>1. /\ worker.pc = "insert" /\ worker.t \in Taskhashes /\ worker.ans \in Unihashes
        /\ Commit(tab) /\ Pin(worker.t) /\ worker' = WorkerIdle
        /\ UNCHANGED <<up, upRuns, now, handler, client, queue, told, spent>>
    BY <1>1, <1>4, WorkerFacts DEF BackfillInsert, KnownUpstream
  <2>2. /\ tab \in Tables /\ tab.uni[worker.t] # None
        /\ \A x \in Taskhashes : db.uni[x] # None => tab.uni[x] = db.uni[x]
    BY <1>1, <2>1, InsertUnihash DEF TablesOK
  <2> HIDE DEF tab
  <2>3. TablesOK' /\ UniCommitted' /\ \A t \in Taskhashes : Stable(t)
    BY <1>1, <2>1, <2>2, CommitFacts DEF TablesOK
  <2>4. worker'.pc = "get" /\ BackfillOK'
    BY <1>1, <2>1 DEF BackfillOK, WorkerIdle
  <2>5. KnownUpstream'
    BY <1>1, <2>1, <2>4 DEF KnownUpstream
  <2>6. KeptStays
    BY <2>1, <2>2 DEF KeptStays, Kept, OnItsWay, Commit
  <2>7. RecordsOK'
    BY <1>1, <2>1 DEF RecordsOK, Pin
  <2> QED BY <2>1, <2>3, <2>4, <2>5, <2>6, <2>7, QuietStep
<1>5. CASE BackfillDies
  <2>1. /\ worker' = [pc |-> "dead"]
        /\ UNCHANGED <<db, committed, up, upRuns, now, handler, client, queue, told, pinned, spent>>
    BY <1>5 DEF BackfillDies
  <2>2. worker'.pc = "dead" /\ BackfillOK'
    BY <1>1, <2>1 DEF BackfillOK
  <2>3. KnownUpstream' /\ KeptStays
    BY <1>1, <2>1, <2>2 DEF KnownUpstream, KeptStays, Kept, OnItsWay
  <2>4. TablesOK' /\ UniCommitted' /\ RecordsOK' /\ \A x \in Taskhashes : Stable(x)
    BY <1>1, <2>1 DEF TablesOK, UniCommitted, RecordsOK, Stable, Tables, OutRow
  <2> QED BY <2>1, <2>2, <2>3, <2>4, QuietStep
<1> QED BY <1>2, <1>3, <1>4, <1>5 DEF Backfill

\* The steps of the upstream server; it forgets nothing.
LEMMA UpstreamStep ==
  ASSUME HashInv, UNCHANGED upstream,
         \/ \E t \in Taskhashes, o \in Outhashes, u \in Unihashes : UpstreamReport(t, o, u)
         \/ UpstreamDown \/ UpstreamUp
  PROVE  StepOK
<1>1. TablesOK /\ HandlersOK /\ RecordsOK /\ UniCommitted /\ KnownUpstream /\ BackfillOK
  BY HashTypeParts DEF HashInv
<1>2. ASSUME NEW t \in Taskhashes, NEW o \in Outhashes, NEW u \in Unihashes, UpstreamReport(t, o, u)
      PROVE  StepOK
  <2> DEFINE tab == insert_outhash(up, t, o, now)
             row == query_other(tab, t, o)
             v == IF row = None THEN u ELSE row.u
  <2>1. tab \in Tables /\ tab.uni = up.uni
    BY <1>1, InsertOuthash DEF TablesOK
  <2>2. row \in Answers \/ row = None
    BY <2>1, OldestFacts DEF query_other
  <2>3. v \in Unihashes
    BY <2>2 DEF Answers
  <2>4. /\ now' = IF tab = up THEN now ELSE now + 1
        /\ up' = insert_unihash(tab, t, v)
        /\ spent' = [spent EXCEPT !.reports = @ + 1]
        /\ UNCHANGED <<db, committed, upRuns, handler, client, queue, worker, told, pinned>>
    BY <1>2 DEF UpstreamReport
  <2> HIDE DEF tab, row, v
  <2>5. up' \in Tables /\ \A x \in Taskhashes : up.uni[x] # None => up'.uni[x] = up.uni[x]
    <3>1. /\ insert_unihash(tab, t, v) \in Tables
          /\ \A x \in Taskhashes : tab.uni[x] # None => insert_unihash(tab, t, v).uni[x] = tab.uni[x]
      BY <2>1, <2>3, InsertUnihash
    <3> QED BY <2>1, <2>4, <3>1
  <2>6. TablesOK' /\ UniCommitted' /\ \A x \in Taskhashes : Stable(x)
    BY <1>1, <2>4, <2>5 DEF TablesOK, UniCommitted, Stable, Tables, OutRow
  <2>7. RecordsOK' /\ spent'.crashes = spent.crashes
    BY <1>1, <2>4 DEF RecordsOK
  <2>8. BackfillOK' /\ KeptStays
    BY <1>1, <2>4 DEF BackfillOK, WorkerIdle, KeptStays
  <2>9. KnownUpstream'
    <3>1. \A x \in Slots : handler[x].pc = "resumed" /\ handler[x].req.kind = "get-stream" =>
            handler[x].req.t \in Taskhashes
      BY <1>1, HandlerFacts, RequestFacts
    <3>2. \A i \in DOMAIN queue : queue[i] \in Taskhashes
      BY <1>1, ElementOfSeq, LenProperties DEF BackfillOK
    <3>3. worker.pc = "copy" => worker.t \in Taskhashes
      BY <1>1, WorkerFacts
    <3>4. \A x \in Slots : /\ handler'[x].pc = "resumed" /\ handler'[x].req.kind = "get-stream"
                           /\ handler'[x].ans # None
                           => up'.uni[handler'[x].req.t] # None
      BY <1>1, <2>4, <2>5, <3>1 DEF KnownUpstream
    <3>5. \A i \in DOMAIN queue' : up'.uni[queue'[i]] # None
      BY <1>1, <2>4, <2>5, <3>2 DEF KnownUpstream
    <3> QED BY <1>1, <2>4, <2>5, <3>3, <3>4, <3>5 DEF KnownUpstream
  <2> QED BY <2>4, <2>6, <2>7, <2>8, <2>9, QuietStep
<1>3. CASE UpstreamDown \/ UpstreamUp
  <2>1. UNCHANGED <<db, committed, up, now, handler, client, queue, worker, told, pinned>>
    BY <1>3 DEF UpstreamDown, UpstreamUp
  <2>2. RecordsOK' /\ spent'.crashes = spent.crashes
    <3>1. CASE UpstreamDown
      <4>1. /\ spent' \in [requests : [Clients -> Nat], reports : Nat, crashes : Nat,
                           outages : Nat, timeouts : Nat]
            /\ spent'.crashes = spent.crashes
        BY <1>1, <3>1 DEF RecordsOK, UpstreamDown
      <4>2. upRuns' \in BOOLEAN
        BY <3>1 DEF UpstreamDown
      <4>3. upstream' \in BOOLEAN /\ told' \subseteq Taskhashes \X Unihashes /\ pinned' \subseteq Taskhashes
        BY <1>1, <2>1 DEF RecordsOK
      <4> QED BY <4>1, <4>2, <4>3 DEF RecordsOK
    <3>2. CASE UpstreamUp
      BY <1>1, <3>2 DEF RecordsOK, UpstreamUp
    <3> QED BY <1>3, <3>1, <3>2
  <2>3. /\ TablesOK' /\ UniCommitted' /\ BackfillOK' /\ KnownUpstream' /\ KeptStays
        /\ \A x \in Taskhashes : Stable(x)
    BY <1>1, <2>1 DEF TablesOK, UniCommitted, BackfillOK, KnownUpstream, KeptStays, Stable, Tables,
                      OutRow, WorkerIdle
  <2> QED BY <2>1, <2>2, <2>3, QuietStep
<1> QED BY <1>2, <1>3

\* A client sends a request, or sends it again.
LEMMA SendStep ==
  ASSUME HashInv, UNCHANGED upstream, NEW c \in Clients, NEW req \in Requests, NEW n \in 0..3,
         Send(c, req, n), ~Waiting(c) \/ client[c].conn = None,
         RecordsOK', spent'.crashes = spent.crashes
  PROVE  StepOK
<1>1. /\ TablesOK /\ HandlersOK /\ ClientsOK /\ LinksOK /\ BackfillOK /\ RecordsOK
      /\ UniCommitted /\ KnownUpstream
  BY HashTypeParts DEF HashInv
<1>2. /\ HandlersOK' /\ ClientsOK' /\ LinksOK'
      /\ \A x \in Slots : handler'[x] = handler[x] \/ handler'[x].pc = "sent"
  BY <1>1, SendFacts
<1>3. UNCHANGED <<db, committed, up, upRuns, now, queue, worker, told, pinned>>
  BY DEF Send
<1>4. /\ TablesOK' /\ UniCommitted' /\ BackfillOK' /\ KeptStays /\ \A x \in Taskhashes : Stable(x)
  BY <1>1, <1>3 DEF TablesOK, UniCommitted, BackfillOK, KeptStays, Stable, Tables, OutRow, WorkerIdle
<1>5. HashTypeOK'
  BY <1>2, <1>4, HashTypeOfParts
<1>6. KnownUpstream'
  BY <1>1, <1>2, <1>3 DEF KnownUpstream
<1>7. ToldIsKept'
  <2>1. \A x \in Slots : handler'[x] = handler[x] \/ ~Replied(handler'[x])
    BY <1>2 DEF Replied
  <2> QED BY <1>1, <1>2, <1>3, <1>4, <2>1, ToldStep DEF HashInv
<1>8. \A x \in Slots : ~Waited(x)
  BY <1>2 DEF Waited
<1> QED BY <1>4, <1>5, <1>6, <1>7, <1>8 DEF StepOK, HashInv

\* A client receives its answer.
LEMMA ReceiveStep ==
  ASSUME HashInv, UNCHANGED upstream, NEW c \in Clients, Receive(c)
  PROVE  StepOK
<1> DEFINE x0 == client[c].conn
           h == handler[x0]
<1>1. /\ TablesOK /\ HandlersOK /\ ClientsOK /\ LinksOK /\ BackfillOK /\ RecordsOK
      /\ UniCommitted /\ KnownUpstream /\ ToldIsKept
  BY HashTypeParts DEF HashInv
<1>2. x0 \in Slots /\ Waiting(c) /\ x0 # None /\ h.pc = "replied"
  BY <1>1, ClientFacts DEF Receive
<1>3. h.req \in Requests /\ h.ans \in AnswersTo("replied", h.req)
  BY <1>1, <1>2, HandlerFacts
<1>4. /\ told' = CASE h.ans = None -> told
                   [] h.ans # None /\ h.req.kind \in {"get-all", "get-outhash"} ->
                        told \cup {<<h.ans.row.t, h.ans.u>>}
                   [] OTHER -> told \cup {<<h.req.t, h.ans>>}
      /\ handler' = [handler EXCEPT ![x0] = Idle]
      /\ client' = [client EXCEPT ![c] = NoRequest]
      /\ UNCHANGED <<db, committed, up, upRuns, now, queue, worker, pinned, spent>>
  BY DEF Receive
<1>5. \/ told' = told
      \/ h.ans # None /\ told' = told \cup {<<AnswerAbout(h.req, h.ans), AnswerSays(h.req, h.ans)>>}
  BY <1>4 DEF AnswerAbout, AnswerSays, WithRow
<1>6. h.ans # None => AnswerAbout(h.req, h.ans) \in Taskhashes /\ AnswerSays(h.req, h.ans) \in Unihashes
  BY <1>3, AboutType DEF AnswersTo, AnswerSays, WithRow, Answers
<1>7. HandlersOK' /\ handler'[x0] = Idle /\ \A x \in Slots : x # x0 => handler'[x] = handler[x]
  BY <1>1, <1>2, <1>4, SetHandler
<1>8. client'[c] = NoRequest /\ \A d \in Clients : d # c => client'[d] = client[d]
  BY <1>1, <1>4 DEF ClientsOK
<1>9. ClientsOK'
  BY <1>1, <1>4 DEF ClientsOK, NoRequest, Requests
<1>10. LinksOK'
  <2>1. NoRequest.req = None
    BY DEF NoRequest
  <2>2. ASSUME NEW d \in Clients, client'[d].req # None, client'[d].conn # None
        PROVE  /\ client'[d] = client[d] /\ Waiting(d)
               /\ handler'[client'[d].conn] # Idle /\ handler'[client'[d].conn].req = client'[d].req
    <3>1. d # c /\ client'[d] = client[d] /\ Waiting(d)
      BY <1>8, <2>1, <2>2 DEF Waiting
    <3>2. client[d].conn \in Slots /\ client[d].conn # x0
      BY <1>1, <1>2, <2>2, <3>1, ClientFacts DEF LinksOK
    <3> QED BY <1>1, <1>7, <2>2, <3>1, <3>2 DEF LinksOK
  <2>3. ASSUME NEW d \in Clients, NEW e \in Clients, client'[d].req # None, client'[d].conn # None,
               client'[e].req # None, client'[e].conn = client'[d].conn
        PROVE  d = e
    BY <1>1, <2>2, <2>3 DEF LinksOK
  <2> QED BY <2>2, <2>3 DEF LinksOK, Waiting, Idle
<1>11. /\ TablesOK' /\ UniCommitted' /\ BackfillOK' /\ KeptStays /\ \A x \in Taskhashes : Stable(x)
  BY <1>1, <1>4 DEF TablesOK, UniCommitted, BackfillOK, KeptStays, Stable, Tables, OutRow, WorkerIdle
<1>12. RecordsOK'
  <2>1. told' \subseteq Taskhashes \X Unihashes
    <3>1. told \subseteq Taskhashes \X Unihashes
      BY <1>1 DEF RecordsOK
    <3>2. CASE told' = told
      BY <3>1, <3>2
    <3>3. CASE h.ans # None /\ told' = told \cup {<<AnswerAbout(h.req, h.ans), AnswerSays(h.req, h.ans)>>}
      <4> DEFINE pair == <<AnswerAbout(h.req, h.ans), AnswerSays(h.req, h.ans)>>
      <4>1. pair \in Taskhashes \X Unihashes
        BY <1>6, <3>3
      <4>2. told' = told \cup {pair}
        BY <3>3
      <4> HIDE DEF pair
      <4> QED BY <3>1, <4>1, <4>2
    <3> QED BY <1>5, <3>2, <3>3
  <2>2. upstream' = upstream /\ upRuns' = upRuns /\ pinned' = pinned /\ spent' = spent
    BY <1>4
  <2> QED BY <1>1, <2>1, <2>2 DEF RecordsOK
<1>13. HashTypeOK'
  BY <1>7, <1>9, <1>10, <1>11, <1>12, HashTypeOfParts
<1>14. KnownUpstream'
  <2>1. \A x \in Slots : handler'[x].pc = "resumed" => handler'[x] = handler[x]
    BY <1>7 DEF Idle
  <2> QED BY <1>1, <1>4, <2>1 DEF KnownUpstream
<1>15. ToldIsKept'
  <2>1. \A x \in Slots : Replied(handler'[x]) => handler'[x] = handler[x]
    BY <1>7 DEF Replied, Idle
  <2>2. ASSUME spent.crashes = 0, NEW a \in told'
        PROVE  Kept(db, queue, worker, a[1])
    <3>1. CASE a \in told
      BY <1>1, <2>2, <3>1 DEF ToldIsKept
    <3>2. CASE h.ans # None /\ a = <<AnswerAbout(h.req, h.ans), AnswerSays(h.req, h.ans)>>
      BY <1>1, <1>2, <2>2, <3>2 DEF ToldIsKept, Replied
    <3> QED BY <1>5, <2>2, <3>1, <3>2
  <2> QED BY <1>1, <1>4, <2>1, <2>2
          DEF ToldIsKept, Kept, OnItsWay, Replied, AnswerAbout, WithRow
<1>16. \A x \in Slots : ~Waited(x)
  BY <1>7 DEF Waited, Idle
<1> QED BY <1>11, <1>13, <1>14, <1>15, <1>16 DEF StepOK, HashInv

\* A client gives up waiting.
LEMMA TimesOutStep ==
  ASSUME HashInv, UNCHANGED upstream, NEW c \in Clients, ClientTimesOut(c)
  PROVE  StepOK
<1> DEFINE x0 == client[c].conn
           h == IF handler[x0].pc = "replied" THEN Idle ELSE handler[x0]
<1>1. HandlersOK /\ ClientsOK /\ RecordsOK
  BY HashTypeParts DEF HashInv
<1>2. x0 \in Slots
  BY <1>1, ClientFacts DEF ClientTimesOut
<1>3. /\ spent' = [spent EXCEPT !.timeouts = @ + 1] /\ Lost({x0})
      /\ handler' = [handler EXCEPT ![x0] = h]
      /\ UNCHANGED <<db, committed, up, upRuns, now, queue, worker, told, pinned>>
  BY <1>1, <1>2 DEF ClientTimesOut, HandlersOK
<1>4. \/ h = Idle
      \/ h = handler[x0] /\ handler[x0].pc # "replied"
  OBVIOUS
<1>5. HandlersOK' /\ handler'[x0] = h /\ \A x \in Slots : x # x0 => handler'[x] = handler[x]
  <2>1. CASE h = Idle
    BY <1>1, <1>2, <1>3, <2>1, SetHandler
  <2>2. CASE h = handler[x0]
    <3>1. handler' = handler
      BY <1>1, <1>2, <1>3, <2>2 DEF HandlersOK
    <3> QED BY <1>1, <2>2, <3>1 DEF HandlersOK, AnswersTo, Idle, Requests, Answers, OutRow
  <2> QED BY <1>4, <2>1, <2>2
<1>6. RecordsOK' /\ spent'.crashes = spent.crashes
  BY <1>1, <1>3 DEF RecordsOK
<1> QED BY <1>3, <1>4, <1>5, <1>6, LostStep

\* The server crashes: the unihashes were committed.
LEMMA CrashStep ==
  ASSUME HashInv, UNCHANGED upstream, Crash
  PROVE  StepOK
<1>1. /\ TablesOK /\ HandlersOK /\ ClientsOK /\ LinksOK /\ BackfillOK /\ RecordsOK
      /\ UniCommitted /\ KnownUpstream
  BY HashTypeParts DEF HashInv
<1>2. /\ spent' = [spent EXCEPT !.crashes = @ + 1]
      /\ db' = committed /\ handler' = [s \in Slots |-> Idle] /\ Lost(Slots)
      /\ queue' = <<>> /\ worker' = WorkerIdle
      /\ UNCHANGED <<committed, up, upRuns, now, told, pinned>>
  BY DEF Crash
<1>3. HandlersOK' /\ \A x \in Slots : handler'[x] = Idle /\ handler'[x].pc = "idle"
  BY <1>2 DEF HandlersOK, Idle
<1>4. ClientsOK' /\ LinksOK'
  BY <1>1, <1>2, LostFacts
<1>5. TablesOK' /\ UniCommitted' /\ \A x \in Taskhashes : Stable(x)
  BY <1>1, <1>2 DEF TablesOK, UniCommitted, Stable, Tables, OutRow
<1>6. BackfillOK'
  BY <1>2 DEF BackfillOK, WorkerIdle
<1>7. RecordsOK' /\ spent'.crashes # 0
  BY <1>1, <1>2 DEF RecordsOK
<1>8. HashTypeOK'
  BY <1>3, <1>4, <1>5, <1>6, <1>7, HashTypeOfParts
<1>9. KnownUpstream'
  <2>1. DOMAIN queue' = {} /\ worker'.pc = "get"
    BY <1>2 DEF WorkerIdle
  <2> QED BY <1>3, <2>1 DEF KnownUpstream
<1>10. ToldIsKept'
  BY <1>7 DEF ToldIsKept
<1>11. \A x \in Slots : ~Waited(x)
  BY <1>3 DEF Waited
<1> QED BY <1>5, <1>8, <1>9, <1>10, <1>11 DEF StepOK, HashInv

(* Every step of the server, its clients and the upstream server. *)
LEMMA HashStep == HashInv /\ [HashNext]_hashVars => StepOK
<1> SUFFICES ASSUME HashInv, [HashNext]_hashVars PROVE StepOK
  OBVIOUS
<1>0. UNCHANGED upstream /\ RecordsOK /\ ClientsOK
  BY HashTypeParts DEF HashNext, hashVars, HashInv
<1>1. ASSUME NEW c \in Clients, NEW req \in Requests, NewRequest(c, req)
      PROVE  StepOK
  <2>1. Send(c, req, 0) /\ ~Waiting(c) /\ spent' = [spent EXCEPT !.requests[c] = @ + 1]
    BY <1>1 DEF NewRequest
  <2>2. RecordsOK' /\ spent'.crashes = spent.crashes
    BY <1>0, <2>1 DEF RecordsOK, Send
  <2> QED BY <1>0, <2>1, <2>2, SendStep
<1>2. ASSUME NEW c \in Clients, Retry(c)
      PROVE  StepOK
  <2>1. client[c].req \in Requests /\ client[c].count \in 0..3
    BY <1>0, <1>2, ClientFacts DEF Retry
  <2>2. RecordsOK' /\ spent'.crashes = spent.crashes
    BY <1>0, <1>2 DEF RecordsOK, Retry, Send
  <2> QED BY <1>0, <1>2, <2>1, <2>2, SendStep DEF Retry
<1>3. CASE UNCHANGED hashVars
  <2>1. TablesOK /\ HandlersOK /\ BackfillOK /\ UniCommitted /\ KnownUpstream
    BY HashTypeParts DEF HashInv
  <2>2. /\ TablesOK' /\ UniCommitted' /\ BackfillOK' /\ KnownUpstream' /\ KeptStays /\ RecordsOK'
        /\ \A x \in Taskhashes : Stable(x)
    BY <1>0, <1>3, <2>1 DEF hashVars, TablesOK, UniCommitted, BackfillOK, KnownUpstream, KeptStays,
                            RecordsOK, Stable, Tables, OutRow, WorkerIdle
  <2> QED BY <1>3, <2>2, QuietStep DEF hashVars
<1> QED
  BY <1>0, <1>1, <1>2, <1>3, HandlerStep, BackfillStep, UpstreamStep, ReceiveStep, TimesOutStep,
     CrashStep DEF HashNext, HashDone

\* The invariant holds of a server that has just started.
LEMMA HashInvInit == HashInit => HashInv
<1> SUFFICES ASSUME HashInit PROVE HashInv
  OBVIOUS
<1>1. \A s \in Slots : handler[s] = Idle /\ handler[s].pc = "idle"
  BY DEF HashInit, Idle
<1>2. TablesOK
  BY DEF HashInit, TablesOK, Tables, EmptyTables
<1>3. HandlersOK
  BY <1>1 DEF HashInit, HandlersOK
<1>4. ClientsOK /\ LinksOK
  BY DEF HashInit, ClientsOK, LinksOK, Waiting, NoRequest
<1>5. BackfillOK
  BY DEF HashInit, BackfillOK
<1>6. RecordsOK
  BY DEF HashInit, RecordsOK
<1>7. UniCommitted /\ KnownUpstream /\ ToldIsKept
  BY <1>1 DEF HashInit, UniCommitted, KnownUpstream, ToldIsKept, Replied, WorkerIdle
<1> QED BY <1>2, <1>3, <1>4, <1>5, <1>6, <1>7, HashTypeParts DEF HashInv

\* The tables, the handlers, the clients, the backfill queue and its worker
\* have their types, and every client that waits does so on a connection whose
\* handler has its request and that no other client waits on.
THEOREM HashTypeTheorem == HashSpec => []HashTypeOK
<1>1. HashInv /\ [HashNext]_hashVars => HashInv'
  BY HashStep DEF StepOK
<1>2. HashInv => HashTypeOK
  BY DEF HashInv
<1> QED BY <1>1, <1>2, HashInvInit, PTL DEF HashSpec

\* A unihash once set is never changed or lost, by reports, upstream answers or
\* crashes, and backfill-wait keeps its word as long as the server does not
\* crash: for any tasks, outputs, clients and connections.
THEOREM UnihashesKeptTheorem == HashSpec => UnihashesKept
<1>1. HashInv /\ [HashNext]_hashVars => HashInv'
  BY HashStep DEF StepOK
<1>2. HashInv /\ [HashNext]_hashVars =>
        [/\ \A t \in Taskhashes : Stable(t)
         /\ \A s \in Slots : Waited(s) /\ spent.crashes = 0
                               => \A a \in told : db.uni[a[1]] # None]_hashVars
  <2> SUFFICES ASSUME HashInv, [HashNext]_hashVars
               PROVE  /\ \A t \in Taskhashes : Stable(t)
                      /\ \A s \in Slots : Waited(s) /\ spent.crashes = 0
                               => \A a \in told : db.uni[a[1]] # None
    OBVIOUS
  <2>1. StepOK
    BY HashStep
  <2>2. Drained /\ spent.crashes = 0 => \A a \in told : db.uni[a[1]] # None
    BY DEF Drained, HashInv, ToldIsKept, Kept, OnItsWay, WorkerIdle
  <2> QED BY <2>1, <2>2 DEF StepOK
<1> QED BY <1>1, <1>2, HashInvInit, PTL DEF HashSpec, UnihashesKept
-----------------------------------------------------------------------------
(* A server without an upstream *)

(* An answer in the socket is the one of the tables. *)
Quiet(h) == h.pc \in {"idle", "sent"} \/ (h.pc = "await" /\ h.req.kind = "backfill-wait")

RowsOK == RowsDated /\ OfFirstOutput

(* A step that sets no unihash anew and answers from the tables. *)
LEMMA AloneAnswers ==
  ASSUME HashInv, HashInv', \A t \in Taskhashes : Stable(t), NoUpstream, ToldIsTrue,
         db' = committed', UNCHANGED <<queue, worker>>,
         \A x \in Slots : \/ handler'[x] = handler[x]
                          \/ Quiet(handler'[x])
                          \/ handler'[x].pc = "replied" /\ Has(db', handler'[x].req, handler'[x].ans),
         \A a \in told' : a \in told \/ a[2] = db'.uni[a[1]]
  PROVE  NoUpstream' /\ ToldIsTrue'
<1>1. RecordsOK /\ HandlersOK
  BY HashTypeParts DEF HashInv
<1>2. NoUpstream'
  BY DEF NoUpstream, WorkerIdle, Quiet
<1>3. ASSUME NEW a \in told'
      PROVE  a[2] = db'.uni[a[1]]
  <2>1. CASE a \in told
    <3>1. a[1] \in Taskhashes /\ a[2] \in Unihashes
      BY <1>1, <2>1 DEF RecordsOK
    <3>2. a[2] = db.uni[a[1]] /\ a[2] # None
      BY <2>1, <3>1, HashAssumption DEF ToldIsTrue
    <3> QED BY <3>1, <3>2 DEF Stable
  <2> QED BY <1>3, <2>1
<1>4. ASSUME NEW x \in Slots, Replied(handler'[x])
      PROVE  AnswerSays(handler'[x].req, handler'[x].ans)
               = db'.uni[AnswerAbout(handler'[x].req, handler'[x].ans)]
  <2>1. CASE handler'[x] = handler[x]
    <3> DEFINE req == handler[x].req
               ans == handler[x].ans
    <3>1. req \in Requests /\ ans \in AnswersTo("replied", req) /\ ans # None /\ Replied(handler[x])
      BY <1>1, <1>4, <2>1, HandlerFacts DEF Replied
    <3>2. AnswerAbout(req, ans) \in Taskhashes
      BY <3>1, AboutType
    <3>3. AnswerSays(req, ans) = db.uni[AnswerAbout(req, ans)]
      BY <3>1 DEF ToldIsTrue
    <3>4. AnswerSays(req, ans) # None
      BY <3>1, HashAssumption DEF AnswersTo, AnswerSays, WithRow, Answers
    <3> QED BY <2>1, <3>2, <3>3, <3>4 DEF Stable
  <2>2. CASE Quiet(handler'[x])
    BY <1>4, <2>2 DEF Quiet, Replied
  <2>3. CASE handler'[x].pc = "replied" /\ Has(db', handler'[x].req, handler'[x].ans)
    BY <1>4, <2>3 DEF Has, Replied
  <2> QED BY <2>1, <2>2, <2>3
<1>5. ToldIsTrue'
  BY <1>3, <1>4 DEF ToldIsTrue, Replied, AnswerSays, AnswerAbout, WithRow
<1> QED BY <1>2, <1>5

(* A report's rows.  The new row is dated after all others, so it is the    *)
(* first of its output only where no other row has that output; a task      *)
(* reported for the first time takes the unihash of the first.              *)
LEMMA ReportRows ==
  ASSUME TablesOK, RowsOK, NEW t \in Taskhashes, NEW o \in Outhashes, NEW u \in Unihashes,
         NEW tab, tab = insert_outhash(db, t, o, now),
         NEW row, row = query_other(tab, t, o),
         now' = IF tab = db THEN now ELSE now + 1,
         db' = insert_unihash(tab, t, IF row = None THEN u ELSE row.u),
         UNCHANGED pinned
  PROVE  RowsOK'
<1> DEFINE new == [t |-> t, o |-> o, created |-> now]
           U == IF row = None THEN u ELSE row.u
<1>1. db \in Tables /\ now \in Nat /\ db.out \subseteq OutRow
  BY DEF TablesOK, Tables
<1>2. /\ tab \in Tables /\ tab.uni = db.uni
      /\ \/ tab = db /\ \E r \in db.out : r.t = t /\ r.o = o
         \/ tab.out = db.out \cup {new} /\ tab # db
  BY <1>1, InsertOuthash
<1>3. new.t = t /\ new.o = o /\ new.created = now /\ new \in OutRow
  BY <1>1 DEF OutRow
<1> HIDE DEF new
<1>4. \/ row = None /\ Joined(tab, {r \in tab.out : r.o = o /\ r.t # t}) = {}
      \/ /\ row \in Answers /\ row # None
         /\ row.row \in tab.out /\ row.row.o = o /\ row.row.t # t
         /\ row.u = tab.uni[row.row.t]
         /\ \A y \in Joined(tab, {r \in tab.out : r.o = o /\ r.t # t}) : row.row.created <= y.created
  <2> DEFINE rows == {r \in tab.out : r.o = o /\ r.t # t}
  <2>1. rows \subseteq tab.out /\ \A r \in rows : r.o = o /\ r.t # t
    OBVIOUS
  <2>2. row = Oldest(tab, rows)
    BY DEF query_other
  <2> HIDE DEF rows
  <2>3. \/ row = None /\ Joined(tab, rows) = {}
        \/ /\ row \in Answers /\ row # None
           /\ row.row \in rows /\ row.u = tab.uni[row.row.t]
           /\ \A y \in Joined(tab, rows) : row.row.created <= y.created
    BY <1>2, <2>1, <2>2, OldestFacts
  <2> QED BY <2>1, <2>3 DEF rows
<1>5. U \in Unihashes
  BY <1>4 DEF Answers
<1>6. /\ db' \in Tables /\ db'.out = tab.out /\ db'.uni[t] # None
      /\ db.uni[t] = None => db'.uni[t] = U
      /\ \A x \in Taskhashes : x # t \/ db.uni[x] # None => db'.uni[x] = db.uni[x]
      /\ db.uni[t] # None => db' = tab
  BY <1>2, <1>5, InsertUnihash
<1>7. \A r \in db.out : r.t \in Taskhashes /\ r.created \in Nat
  BY <1>1 DEF OutRow
<1>8. CASE tab = db
  <2>1. db.uni[t] # None
    BY <1>2, <1>8 DEF RowsOK, RowsDated
  <2>2. UNCHANGED <<db, now, pinned>>
    BY <1>6, <1>8, <2>1
  <2> QED BY <2>2 DEF RowsOK, RowsDated, OfFirstOutput, FirstOfTask, FirstOfOutput
<1>9. CASE tab # db
  <2>1. db'.out = db.out \cup {new} /\ now' = now + 1
    BY <1>2, <1>6, <1>9
  <2>2. \A r \in db.out : r.created < now /\ db.uni[r.t] # None /\ db'.uni[r.t] = db.uni[r.t]
    BY <1>6, <1>7 DEF RowsOK, RowsDated
  <2>3. RowsDated'
    <3>1. \A r \in db'.out : db'.uni[r.t] # None /\ r.created < now'
      BY <1>1, <1>3, <1>6, <1>7, <2>1, <2>2
    <3>2. \A r, q \in db'.out : r.created = q.created => r = q
      BY <1>1, <1>3, <1>7, <2>1, <2>2 DEF RowsOK, RowsDated
    <3>3. \A x \in Taskhashes : db'.uni[x] # None => x \in pinned' \/ \E r \in db'.out : r.t = x
      <4>1. ASSUME NEW x \in Taskhashes, x # t, db'.uni[x] # None
            PROVE  x \in pinned' \/ \E r \in db'.out : r.t = x
        BY <1>6, <2>1, <4>1 DEF RowsOK, RowsDated
      <4> QED BY <1>3, <2>1, <4>1
    <3> QED BY <3>1, <3>2, <3>3 DEF RowsDated
  <2>4. ASSUME NEW r \in db'.out, NEW p \in db'.out,
               \A q \in db'.out : q.t = r.t => r.created <= q.created, r.t \notin pinned,
               \A q \in db'.out : q.o = p.o => p.created <= q.created, p.o = r.o
        PROVE  db'.uni[r.t] = db'.uni[p.t]
    <3>1. CASE r \in db.out
      <4>1. p \in db.out
        BY <1>1, <1>3, <1>7, <2>1, <2>2, <2>4, <3>1
      <4>2. FirstOfTask(r) /\ FirstOfOutput(p)
        BY <2>1, <2>4 DEF FirstOfTask, FirstOfOutput
      <4>3. db.uni[r.t] = db.uni[p.t]
        BY <2>4, <3>1, <4>1, <4>2 DEF RowsOK, OfFirstOutput
      <4> QED BY <2>2, <3>1, <4>1, <4>3
    <3>2. CASE r = new /\ p \in db.out
      <4>1. \A q \in db.out : q.t # t
        BY <1>1, <1>3, <1>7, <2>1, <2>2, <2>4, <3>2
      <4>2. db.uni[t] = None
        BY <1>3, <2>4, <3>2, <4>1 DEF RowsOK, RowsDated
      <4>3. db'.uni[t] = U
        BY <1>6, <4>2
      <4>4. p \in Joined(tab, {x \in tab.out : x.o = o /\ x.t # t})
        BY <1>2, <1>3, <1>6, <2>2, <2>4, <3>2, <4>1 DEF Joined
      <4>5. /\ row # None /\ row.row \in tab.out /\ row.row.o = o /\ row.row.t # t
            /\ row.u = tab.uni[row.row.t] /\ row.row.created <= p.created
        BY <1>4, <4>4
      <4>6. row.row \in db.out
        BY <1>2, <1>3, <1>6, <2>1, <4>5
      <4>7. p.created <= row.row.created
        BY <1>3, <1>6, <2>4, <3>2, <4>5
      <4>8. row.row = p
        BY <1>7, <3>2, <4>5, <4>6, <4>7 DEF RowsOK, RowsDated
      <4>9. U = db.uni[p.t]
        BY <1>2, <4>5, <4>8
      <4> QED BY <1>3, <2>2, <3>2, <4>3, <4>9
    <3>3. CASE r = new /\ p = new
      BY <3>3
    <3> QED BY <2>1, <3>1, <3>2, <3>3
  <2>5. OfFirstOutput'
    BY <2>4 DEF OfFirstOutput, FirstOfTask, FirstOfOutput
  <2> QED BY <2>3, <2>5 DEF RowsOK
<1> QED BY <1>8, <1>9

(* Setting the unihash of a task pins it if it had none, and then it has no *)
(* row.                                                                     *)
LEMMA PinnedRows ==
  ASSUME TablesOK, RowsOK, RecordsOK, NEW t \in Taskhashes, NEW u \in Unihashes,
         db' = insert_unihash(db, t, u), Pin(t), UNCHANGED now
  PROVE  RowsOK'
<1>1. db \in Tables /\ now \in Nat /\ db.out \subseteq OutRow
  BY DEF TablesOK, Tables
<1>2. /\ db' \in Tables /\ db'.out = db.out /\ db'.uni[t] # None
      /\ \A x \in Taskhashes : x # t \/ db.uni[x] # None => db'.uni[x] = db.uni[x]
  BY <1>1, InsertUnihash
<1>3. \A r \in db.out : r.t \in Taskhashes /\ db.uni[r.t] # None /\ db'.uni[r.t] = db.uni[r.t]
  BY <1>1, <1>2 DEF RowsOK, RowsDated, OutRow
<1>4. pinned \subseteq pinned' /\ (db.uni[t] = None => t \in pinned')
  BY DEF Pin
<1>5. RowsDated'
  <2>1. ASSUME NEW x \in Taskhashes, db'.uni[x] # None
        PROVE  x \in pinned' \/ \E r \in db'.out : r.t = x
    BY <1>2, <1>4, <2>1 DEF RowsOK, RowsDated
  <2>2. \A r \in db'.out : db'.uni[r.t] # None /\ r.created < now'
    BY <1>2, <1>3 DEF RowsOK, RowsDated
  <2>3. \A r, q \in db'.out : r.created = q.created => r = q
    BY <1>2 DEF RowsOK, RowsDated
  <2> QED BY <2>1, <2>2, <2>3 DEF RowsDated
<1>6. OfFirstOutput'
  <2>1. ASSUME NEW r \in db.out, NEW p \in db.out,
               \A q \in db.out : q.t = r.t => r.created <= q.created, r.t \notin pinned',
               \A q \in db.out : q.o = p.o => p.created <= q.created, p.o = r.o
        PROVE  db'.uni[r.t] = db'.uni[p.t]
    <3>1. FirstOfTask(r) /\ FirstOfOutput(p) /\ r.t \notin pinned
      BY <1>4, <2>1 DEF FirstOfTask, FirstOfOutput
    <3>2. db.uni[r.t] = db.uni[p.t]
      BY <2>1, <3>1 DEF RowsOK, OfFirstOutput
    <3> QED BY <1>3, <3>2
  <2> QED BY <1>2, <2>1 DEF OfFirstOutput, FirstOfTask, FirstOfOutput
<1> QED BY <1>5, <1>6 DEF RowsOK

\* The handlers of a server without an upstream.
LEMMA AloneHandler ==
  ASSUME HashInv, HashInv', \A t \in Taskhashes : Stable(t), NoUpstream, ToldIsTrue, RowsOK,
         ~upstream, NEW s \in Slots, Handler(s)
  PROVE  NoUpstream' /\ ToldIsTrue' /\ RowsOK'
<1> DEFINE req == handler[s].req
<1>1. /\ TablesOK /\ HandlersOK /\ ClientsOK /\ LinksOK /\ RecordsOK /\ TablesOK'
      /\ handler[s].pc # "resumed" /\ db = committed
  <2>1. TablesOK /\ HandlersOK /\ ClientsOK /\ LinksOK /\ RecordsOK
    BY HashTypeParts DEF HashInv
  <2>2. TablesOK'
    BY DEF HashInv, HashTypeOK, TablesOK
  <2> QED BY <2>1, <2>2 DEF NoUpstream
<1>2. ASSUME NEW ans \in AnswersTo("replied", req), handler[s].pc # "idle", Reply(s, ans),
             Has(db', req, ans), db' = committed', UNCHANGED <<queue, worker, told, client>>
      PROVE  NoUpstream' /\ ToldIsTrue'
  <2>1. /\ \A x \in Slots : x # s => handler'[x] = handler[x]
        /\ \/ handler'[s] = Idle
           \/ handler'[s].pc = "replied" /\ handler'[s].req = req /\ handler'[s].ans = ans
    BY <1>1, <1>2, ReplyFacts
  <2>2. \A x \in Slots : \/ handler'[x] = handler[x]
                         \/ Quiet(handler'[x])
                         \/ handler'[x].pc = "replied" /\ Has(db', handler'[x].req, handler'[x].ans)
    BY <1>2, <2>1 DEF Quiet, Idle
  <2> QED BY <1>2, <2>2, AloneAnswers
<1>3. CASE Report(s)
  <2> DEFINE tab == insert_outhash(db, req.t, req.o, now)
             row == query_other(tab, req.t, req.o)
             U == IF row = None THEN req.u ELSE row.u
             final == insert_unihash(tab, req.t, U)
  <2>1. /\ req \in Requests /\ req.kind = "report" /\ handler[s].pc = "sent"
        /\ req.t \in Taskhashes /\ req.o \in Outhashes /\ req.u \in Unihashes
    BY <1>1, <1>3, HandlerFacts, RequestFacts DEF Report, Busy
  <2>2. /\ now' = IF tab = db THEN now ELSE now + 1
        /\ FinishReport(s, tab, U)
        /\ UNCHANGED <<client, queue, worker, told, pinned>>
    BY <1>3 DEF Report
  <2>3. db' = final /\ committed' = final /\ Reply(s, final.uni[req.t])
    BY <2>2 DEF FinishReport, Commit, query_equivalent
  <2> HIDE DEF tab, row
  <2>4. RowsOK'
    BY <1>1, <2>1, <2>2, <2>3, ReportRows DEF tab, row
  <2>5. final.uni[req.t] \in Unihashes \cup {None}
    BY <1>1, <2>1, <2>3 DEF TablesOK, Tables
  <2> HIDE DEF final
  <2>6. final.uni[req.t] \in AnswersTo("replied", req) /\ Has(db', req, final.uni[req.t])
    BY <2>1, <2>3, <2>5 DEF AnswersTo, Has, AnswerAbout, AnswerSays, WithRow
  <2> QED BY <1>2, <2>1, <2>2, <2>3, <2>4, <2>6
<1>4. CASE handle_equivreport(s)
  <2> DEFINE final == insert_unihash(db, req.t, req.u)
  <2>1. /\ req \in Requests /\ req.kind = "report-equiv" /\ handler[s].pc = "sent"
        /\ req.t \in Taskhashes /\ req.u \in Unihashes
    BY <1>1, <1>4, HandlerFacts, RequestFacts DEF handle_equivreport, Busy
  <2>2. /\ db' = final /\ committed' = final /\ Reply(s, final.uni[req.t]) /\ Pin(req.t)
        /\ UNCHANGED <<now, client, queue, worker, told>>
    BY <1>4 DEF handle_equivreport, Commit, query_equivalent
  <2>3. RowsOK'
    BY <1>1, <2>1, <2>2, PinnedRows
  <2>4. final.uni[req.t] \in Unihashes \cup {None}
    BY <1>1, <2>1, <2>2 DEF TablesOK, Tables
  <2> HIDE DEF final
  <2>5. final.uni[req.t] \in AnswersTo("replied", req) /\ Has(db', req, final.uni[req.t])
    BY <2>1, <2>2, <2>4 DEF AnswersTo, Has, AnswerAbout, AnswerSays, WithRow
  <2> QED BY <1>2, <2>1, <2>2, <2>3, <2>5
<1>5. ASSUME UNCHANGED <<db, now, pinned>>
      PROVE  RowsOK'
  BY <1>5 DEF RowsOK, RowsDated, OfFirstOutput, FirstOfTask, FirstOfOutput
<1>6. CASE Read(s)
  <2>1. req \in Requests /\ req.kind \in Reads /\ handler[s].pc = "sent"
    BY <1>1, <1>6, HandlerFacts DEF Read
  <2>2. Known(req) \in AnswersTo("replied", req) /\ Has(db, req, Known(req))
    BY <1>1, <2>1, KnownFacts
  <2>3. /\ Reply(s, Known(req))
        /\ UNCHANGED <<db, committed, now, client, queue, worker, told, pinned>>
    BY <1>6 DEF Read
  <2>4. Has(db', req, Known(req)) /\ db' = committed'
    BY <1>1, <2>2, <2>3
  <2> QED BY <1>2, <1>5, <2>1, <2>2, <2>3, <2>4
<1>7. CASE handle_backfill_wait(s)
  <2>1. Reply(s, None) /\ UNCHANGED <<db, committed, now, client, queue, worker, told, pinned>>
    BY <1>7 DEF handle_backfill_wait, NoUpstream
  <2>2. None \in AnswersTo("replied", req) /\ Has(db', req, None) /\ handler[s].pc # "idle"
    BY <1>7, AnswerSorts DEF Has, handle_backfill_wait
  <2>3. db' = committed'
    BY <1>1, <2>1
  <2> QED BY <1>2, <1>5, <2>1, <2>2, <2>3
<1> QED BY <1>1, <1>3, <1>4, <1>6, <1>7
        DEF Handler, ReportResumes, GetResumes, UnifiedResumes, StreamResumes, Busy

\* Every step of a server without an upstream.
LEMMA AloneStep ==
  ASSUME HashInv, AloneInv, [HashNext]_hashVars
  PROVE  AloneInv'
<1> SUFFICES ASSUME ~upstream PROVE NoUpstream' /\ ToldIsTrue' /\ RowsOK'
  <2>1. UNCHANGED upstream
    BY DEF HashNext, hashVars
  <2> QED BY <2>1 DEF AloneInv, RowsOK
<1>1. /\ HashInv' /\ (\A t \in Taskhashes : Stable(t))
      /\ NoUpstream /\ ToldIsTrue /\ RowsOK
  BY HashStep DEF StepOK, AloneInv, RowsOK
<1>2. HandlersOK /\ ClientsOK /\ LinksOK /\ RecordsOK /\ db = committed
  <2>1. HandlersOK /\ ClientsOK /\ LinksOK /\ RecordsOK
    BY HashTypeParts DEF HashInv
  <2> QED BY <1>1, <2>1 DEF NoUpstream
<1>3. ASSUME UNCHANGED <<db, now, pinned>>
      PROVE  RowsOK'
  BY <1>1, <1>3 DEF RowsOK, RowsDated, OfFirstOutput, FirstOfTask, FirstOfOutput
<1>4. ASSUME UNCHANGED <<db, committed, now, pinned, queue, worker, told>>,
             \A x \in Slots : handler'[x] = handler[x] \/ Quiet(handler'[x])
      PROVE  NoUpstream' /\ ToldIsTrue' /\ RowsOK'
  <2>1. db' = committed'
    BY <1>2, <1>4
  <2> QED BY <1>1, <1>3, <1>4, <2>1, AloneAnswers
<1>5. ASSUME NEW s \in Slots, Handler(s)
      PROVE  NoUpstream' /\ ToldIsTrue' /\ RowsOK'
  BY <1>1, <1>5, AloneHandler
<1>6. ~\E s \in Slots : UpstreamAnswers(s) \/ UpstreamFails(s)
  BY <1>1 DEF UpstreamAnswers, UpstreamFails, NoUpstream
<1>7. ~Backfill
  BY <1>1 DEF Backfill, BackfillGet, BackfillAnswer, BackfillInsert, BackfillDies, NoUpstream,
              WorkerIdle
<1>8. ~\E t \in Taskhashes, o \in Outhashes, u \in Unihashes : UpstreamReport(t, o, u)
  BY DEF UpstreamReport
<1>9. CASE UpstreamDown \/ UpstreamUp
  BY <1>4, <1>9 DEF UpstreamDown, UpstreamUp
<1>10. ASSUME NEW c \in Clients, NEW req \in Requests, NEW n \in 0..3, Send(c, req, n),
              ~Waiting(c) \/ client[c].conn = None
       PROVE  NoUpstream' /\ ToldIsTrue' /\ RowsOK'
  <2>1. \A x \in Slots : handler'[x] = handler[x] \/ Quiet(handler'[x])
    BY <1>2, <1>10, SendFacts DEF Quiet
  <2> QED BY <1>4, <1>10, <2>1 DEF Send
<1>11. ASSUME NEW c \in Clients, Receive(c)
       PROVE  NoUpstream' /\ ToldIsTrue' /\ RowsOK'
  <2> DEFINE h == handler[client[c].conn]
  <2>1. client[c].conn \in Slots /\ h.pc = "replied" /\ handler' = [handler EXCEPT ![client[c].conn] = Idle]
    BY <1>2, <1>11, ClientFacts DEF Receive
  <2>2. UNCHANGED <<db, committed, now, queue, worker, pinned>>
    BY <1>11 DEF Receive
  <2>3. \A x \in Slots : handler'[x] = handler[x] \/ Quiet(handler'[x])
    BY <1>2, <2>1 DEF Quiet, Idle, HandlersOK
  <2>4. \/ told' = told
        \/ h.ans # None /\ told' = told \cup {<<AnswerAbout(h.req, h.ans), AnswerSays(h.req, h.ans)>>}
    BY <1>11 DEF Receive, AnswerAbout, AnswerSays, WithRow
  <2>5. h.ans # None => AnswerSays(h.req, h.ans) = db.uni[AnswerAbout(h.req, h.ans)]
    BY <1>1, <2>1 DEF ToldIsTrue, Replied
  <2>6. \A a \in told' : a \in told \/ a[2] = db'.uni[a[1]]
    BY <2>2, <2>4, <2>5
  <2>7. db' = committed'
    BY <1>2, <2>2
  <2> QED BY <1>1, <1>3, <2>2, <2>3, <2>6, <2>7, AloneAnswers
<1>12. ASSUME NEW c \in Clients, ClientTimesOut(c)
       PROVE  NoUpstream' /\ ToldIsTrue' /\ RowsOK'
  <2>1. \A x \in Slots : handler'[x] = handler[x] \/ Quiet(handler'[x])
    BY <1>2, <1>12, ClientFacts DEF ClientTimesOut, Quiet, Idle, HandlersOK
  <2> QED BY <1>4, <1>12, <2>1 DEF ClientTimesOut
<1>13. CASE Crash
  <2>1. UNCHANGED <<db, committed, now, pinned, told>> /\ handler' = [s \in Slots |-> Idle]
    BY <1>2, <1>13 DEF Crash
  <2>2. UNCHANGED <<queue, worker>>
    BY <1>1, <1>13 DEF Crash, NoUpstream
  <2>3. \A x \in Slots : Quiet(handler'[x])
    BY <2>1 DEF Quiet, Idle
  <2> QED BY <1>4, <2>1, <2>2, <2>3
<1>14. CASE UNCHANGED hashVars
  BY <1>4, <1>14 DEF hashVars
<1>15. ASSUME NEW c \in Clients, Retry(c)
       PROVE  NoUpstream' /\ ToldIsTrue' /\ RowsOK'
  <2>1. client[c].req \in Requests /\ client[c].count \in 0..3
    BY <1>2, <1>15, ClientFacts DEF Retry
  <2> QED BY <1>10, <1>15, <2>1 DEF Retry
<1>16. ASSUME NEW c \in Clients, NEW req \in Requests, NewRequest(c, req)
       PROVE  NoUpstream' /\ ToldIsTrue' /\ RowsOK'
  BY <1>10, <1>16 DEF NewRequest
<1> QED BY <1>5, <1>6, <1>7, <1>8, <1>9, <1>11, <1>12, <1>13, <1>14, <1>15, <1>16
        DEF HashNext, HashDone

(* Of any set of rows some are the oldest. *)
LEMMA OldestRow ==
  ASSUME NEW rows \in SUBSET OutRow, rows # {}
  PROVE  \E r \in rows : \A q \in rows : r.created <= q.created
<1> DEFINE dates == {r.created : r \in rows}
<1>1. dates \in SUBSET Nat /\ dates # {}
  BY DEF OutRow
<1> HIDE DEF dates
<1>2. PICK d \in dates : \A e \in dates : d <= e
  BY <1>1, LeastNat
<1> QED BY <1>2 DEF dates

\* AloneInv implies the property: two tasks with the same first output both
\* have the unihash of the task that had it first.
LEMMA OneUnihashHolds ==
  ASSUME HashInv, AloneInv
  PROVE  OneUnihash
<1>1. db.out \subseteq OutRow
  BY HashTypeParts DEF HashInv, TablesOK, Tables
<1>2. AnswersAgree
  BY DEF AnswersAgree, AloneInv, ToldIsTrue
<1>3. ASSUME ~upstream, NEW t1 \in Reported \ pinned, NEW t2 \in Reported \ pinned,
             FirstOut(t1) = FirstOut(t2)
      PROVE  db.uni[t1] = db.uni[t2]
  <2>1. ASSUME NEW t \in Reported
        PROVE  \E r \in db.out : r.t = t /\ FirstOfTask(r) /\ r.o = FirstOut(t)
    <3> DEFINE rows == {r \in db.out : r.t = t}
               first == CHOOSE r \in rows : \A x \in rows : r.created <= x.created
    <3>1. rows \in SUBSET OutRow /\ rows # {}
      BY <1>1, <2>1 DEF Reported
    <3>2. first \in rows /\ \A x \in rows : first.created <= x.created
      <4> HIDE DEF rows
      <4> QED BY <3>1, OldestRow
    <3>3. FirstOut(t) = first.o
      BY DEF FirstOut
    <3> HIDE DEF first
    <3> QED BY <3>2, <3>3 DEF FirstOfTask
  <2>2. PICK r1 \in db.out : r1.t = t1 /\ FirstOfTask(r1) /\ r1.o = FirstOut(t1)
    BY <2>1
  <2>3. PICK r2 \in db.out : r2.t = t2 /\ FirstOfTask(r2) /\ r2.o = FirstOut(t2)
    BY <2>1
  <2>4. PICK p \in db.out : p.o = r1.o /\ FirstOfOutput(p)
    <3> DEFINE rows == {q \in db.out : q.o = r1.o}
    <3>1. rows \in SUBSET OutRow /\ rows # {}
      BY <1>1, <2>2
    <3>2. PICK p \in rows : \A q \in rows : p.created <= q.created
      <4> HIDE DEF rows
      <4> QED BY <3>1, OldestRow
    <3> QED BY <3>2 DEF FirstOfOutput
  <2>5. db.uni[t1] = db.uni[p.t] /\ db.uni[t2] = db.uni[p.t]
    BY <1>3, <2>2, <2>3, <2>4 DEF AloneInv, OfFirstOutput
  <2> QED BY <2>5
<1> QED BY <1>2, <1>3 DEF OneUnihash, EquivalentOutputs

\* A server that has just started has no rows.
LEMMA AloneInit == HashInit => AloneInv
<1> SUFFICES ASSUME HashInit PROVE AloneInv
  OBVIOUS
<1>1. \A s \in Slots : handler[s].pc = "idle"
  BY DEF HashInit, Idle
<1>2. db.out = {} /\ \A t \in Taskhashes : db.uni[t] = None
  BY DEF HashInit, EmptyTables
<1> QED BY <1>1, <1>2 DEF HashInit, AloneInv, NoUpstream, ToldIsTrue, RowsDated, OfFirstOutput, Replied

\* Tasks first reported with the same output have the same unihash ("a second
\* reported task with the same outhash will be assigned the same unihash"), and
\* clients are told one unihash for a taskhash: for a server without an
\* upstream, any tasks, outputs and clients, through crashes and retries.
THEOREM OneUnihashTheorem == HashSpec => []OneUnihash
<1>1. HashInv /\ [HashNext]_hashVars => HashInv'
  BY HashStep DEF StepOK
<1>2. HashInv /\ AloneInv /\ [HashNext]_hashVars => AloneInv'
  BY AloneStep
<1>3. HashInv /\ AloneInv => OneUnihash
  BY OneUnihashHolds
<1> QED BY <1>1, <1>2, <1>3, HashInvInit, AloneInit, PTL DEF HashSpec
=============================================================================
