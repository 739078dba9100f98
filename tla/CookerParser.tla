---------------------------- MODULE CookerParser ----------------------------
(***************************************************************************)
(* Parsing recipes with several processes: CookerParser and Parser of      *)
(* lib/bb/cooker.py.  Each process parses its share of the recipes and     *)
(* puts results into a multiprocessing.Queue, whose feeder thread writes   *)
(* them to a pipe shared by all; the server takes them out one by one,     *)
(* and shuts the processes down at the end, after an error, or when asked. *)
(***************************************************************************)
EXTENDS Naturals, Sequences, FiniteSets

CONSTANTS
  Parsers, Nobody,
  Jobs,       \* recipes to be parsed (willparse)
  Share,      \* whose job each is: chunkify
  Bad,        \* recipes that cannot be parsed
  QueueSize,  \* of the result queue, in halves of a result
  MayShutdown,    \* the server may be told to stop
  MaxParserKills, \* processes killed from outside
  TornWrites,     \* they may be killed while the feeder writes
  DefersSignals   \* they may be told to terminate while they send an event

ASSUME ParserAssumption ==
  /\ IsFiniteSet(Jobs) /\ IsFiniteSet(Parsers) /\ Nobody \notin Parsers
  /\ Share \in [Jobs -> Parsers]
  /\ QueueSize \in Nat /\ MaxParserKills \in Nat

VARIABLES
  \* The Parser processes.  ppc: "loop", the test of quit; "parse"; "put";
  \* "closing", join_thread() waits for the feeder; "exited"; "killed".
  ppc,
  jobs,    \* what they have not begun
  work,    \* the recipe in hand and whether it could be parsed
  buf,     \* results the feeder has to write
  \* What they share
  queue,   \* the result queue: halves of results
  wlock,   \* the process whose feeder has written half of a result
  quit,    \* tokens in parser_quit
  \* The CookerParser.  mpc: "generate", the top of parse_generator's loop;
  \* "get"; "reading" a result; then in shutdown() "drain" and "drainread",
  \* "interrupt", "terminate", "join"; "down".
  mpc,
  procs,   \* self.processes
  parsed,  \* what add_info got
  empty,   \* as in parse_generator
  first,   \* the half of a result that was read
  ending,  \* how parsing ended
  kills

serverVars == <<mpc, procs, parsed, empty, first, ending>>
parserVars == <<ppc, jobs, work, buf, queue, wlock, quit, serverVars, kills>>

NoResult == [job |-> Nobody, ok |-> FALSE]

ParserInit ==
  /\ ppc = [p \in Parsers |-> "loop"]
  /\ jobs = [p \in Parsers |-> {j \in Jobs : Share[j] = p}]
  /\ work = [p \in Parsers |-> NoResult] /\ buf = [p \in Parsers |-> <<>>]
  /\ queue = <<>> /\ wlock = Nobody /\ quit = 0 /\ kills = 0
  /\ mpc = "generate" /\ procs = Parsers /\ parsed = <<>> /\ empty = FALSE
  /\ first = NoResult /\ ending = "none"

Alive(p) == ppc[p] \notin {"exited", "killed"}
-----------------------------------------------------------------------------
(* Parser.realrun *)

Set(p, label) == ppc' = [ppc EXCEPT ![p] = label]

\* quit.get_nowait() may miss a token that is on its way; jobs.pop() at the end
\* of the list leaves the loop
Loop(p) ==
  /\ ppc[p] = "loop"
  /\ \/ /\ quit > 0 /\ quit' = quit - 1
        /\ Set(p, "closing") /\ UNCHANGED <<jobs, work>>
     \/ /\ UNCHANGED quit /\ jobs[p] = {}
        /\ Set(p, "closing") /\ UNCHANGED <<jobs, work>>
     \/ /\ UNCHANGED quit /\ Set(p, "parse")
        /\ \E j \in jobs[p] :
             /\ jobs' = [jobs EXCEPT ![p] = @ \ {j}]
             /\ work' = [work EXCEPT ![p] = [job |-> j, ok |-> FALSE]]
  /\ UNCHANGED <<buf, queue, wlock, serverVars, kills>>

\* Exceptions become results
Parse(p) ==
  /\ ppc[p] = "parse" /\ Set(p, "put")
  /\ work' = [work EXCEPT ![p] = [job |-> work[p].job, ok |-> work[p].job \notin Bad]]
  /\ UNCHANGED <<jobs, buf, queue, wlock, quit, serverVars, kills>>

Put(p) ==
  /\ ppc[p] = "put" /\ Set(p, "loop")
  /\ buf' = [buf EXCEPT ![p] = Append(@, work[p])]
  /\ UNCHANGED <<jobs, work, queue, wlock, quit, serverVars, kills>>

\* results.close() and join_thread()
CloseResults(p) ==
  /\ ppc[p] = "closing" /\ buf[p] = <<>> /\ Set(p, "exited")
  /\ UNCHANGED <<jobs, work, buf, queue, wlock, quit, serverVars, kills>>

\* The feeder thread takes the lock and writes a result in two parts
Half(result, n) == [job |-> result.job, ok |-> result.ok, half |-> n]

Feed(p) ==
  /\ Alive(p) /\ buf[p] # <<>> /\ Len(queue) < QueueSize
  /\ \/ /\ wlock = Nobody /\ wlock' = p
        /\ queue' = Append(queue, Half(Head(buf[p]), 1)) /\ UNCHANGED buf
     \/ /\ wlock = p /\ wlock' = Nobody
        /\ queue' = Append(queue, Half(Head(buf[p]), 2)) /\ buf' = [buf EXCEPT ![p] = Tail(@)]
  /\ UNCHANGED <<ppc, jobs, work, quit, serverVars, kills>>
-----------------------------------------------------------------------------
(* CookerParser *)

ToParse == Cardinality(Jobs)

\* self.processes without the ones that ended
Living == {p \in procs : Alive(p)}

\* shutdown() begins: a token for everyone still in the list
Down(running, how) ==
  /\ mpc' = "drain" /\ ending' = how /\ procs' = running
  /\ quit' = quit + Cardinality(running)

\* The condition of parse_generator's loop does not hold
NothingComes == procs = {} /\ empty

\* parse_generator: everything is there, or nothing can come any more
GeneratorEnds ==
  /\ mpc = "generate"
  /\ \/ NothingComes /\ Down(procs, IF Len(parsed) >= ToParse THEN "complete" ELSE "died")
     \/ ~NothingComes /\ Len(parsed) >= ToParse /\ Down(Living, "complete")
  /\ UNCHANGED <<ppc, jobs, work, buf, queue, wlock, parsed, empty, first, kills>>

\* Mutant: processes that have ended are not taken off the list
GeneratorChecks_KeepsEnded ==
  /\ mpc = "generate" /\ ~NothingComes /\ Len(parsed) < ToParse
  /\ mpc' = "get"
  /\ UNCHANGED <<ppc, jobs, work, buf, queue, wlock, quit, procs, parsed, empty, first, ending, kills>>

\* parse_generator goes on: it looks which processes are alive, and later waits
\* for a result
GeneratorChecks ==
  /\ mpc = "generate" /\ ~NothingComes /\ Len(parsed) < ToParse
  /\ mpc' = "get" /\ procs' = Living
  /\ UNCHANGED <<ppc, jobs, work, buf, queue, wlock, quit, parsed, empty, first, ending, kills>>

\* result_queue.get: nothing comes in time, or the first half of a result is read
GeneratorGets ==
  /\ mpc = "get"
  /\ \/ queue = <<>> /\ empty' = TRUE /\ mpc' = "generate" /\ UNCHANGED <<queue, first>>
     \/ /\ queue # <<>> /\ empty' = FALSE /\ mpc' = "reading"
        /\ first' = [job |-> Head(queue).job, ok |-> Head(queue).ok] /\ queue' = Tail(queue)
  /\ UNCHANGED <<ppc, jobs, work, buf, wlock, quit, procs, parsed, ending, kills>>

\* Mutant: errors are counted as results
Receive_KeepsErrors ==
  /\ mpc = "reading" /\ queue # <<>>
  /\ queue' = Tail(queue) /\ first' = NoResult
  /\ parsed' = Append(parsed, first.job) /\ mpc' = "generate"
  /\ UNCHANGED <<ppc, jobs, work, buf, wlock, quit, procs, empty, ending, kills>>

\* The rest is read, for which get() waits; parse_next adds the result to the
\* caches or shuts down
Receive ==
  /\ mpc = "reading" /\ queue # <<>>
  /\ queue' = Tail(queue) /\ first' = NoResult
  /\ \/ /\ first.ok /\ parsed' = Append(parsed, first.job)
        /\ mpc' = "generate" /\ UNCHANGED <<procs, ending, quit>>
     \/ ~first.ok /\ Down(procs, "error") /\ UNCHANGED parsed
  /\ UNCHANGED <<ppc, jobs, work, buf, wlock, empty, kills>>

\* BBCooker.shutdown, between two results
ToldToStop ==
  /\ MayShutdown /\ mpc = "generate"
  /\ Down(procs, "stopped")
  /\ UNCHANGED <<ppc, jobs, work, buf, queue, wlock, parsed, empty, first, kills>>

\* "Cleanup the queue before call process.join(), otherwise there might be deadlocks."
Drain ==
  /\ \/ mpc = "drain" /\ queue # <<>> /\ queue' = Tail(queue) /\ mpc' = "drainread"
     \/ mpc = "drainread" /\ queue # <<>> /\ queue' = Tail(queue) /\ mpc' = "drain"
     \/ mpc = "drain" /\ queue = <<>> /\ UNCHANGED queue /\ mpc' = "interrupt"
  /\ UNCHANGED <<ppc, jobs, work, buf, wlock, quit, procs, parsed, empty, first, ending, kills>>

\* SIGINT for those that did not end in time: KeyboardInterrupt, which parse()
\* turns into a result and which leaves the loop elsewhere
Interrupt ==
  /\ mpc = "interrupt" /\ mpc' = "terminate"
  /\ \E late \in SUBSET Living :
       /\ ppc' = [p \in Parsers |->
            IF p \in late /\ ppc[p] = "parse" THEN "put"
            ELSE IF p \in late /\ ppc[p] \in {"loop", "put"} THEN "closing"
            ELSE ppc[p]]
       /\ work' = [p \in Parsers |->
            IF p \in late /\ ppc[p] = "parse" THEN [job |-> work[p].job, ok |-> FALSE] ELSE work[p]]
  /\ UNCHANGED <<jobs, buf, queue, wlock, quit, procs, parsed, empty, first, ending, kills>>

\* terminate() for those that still did not end.  One that sends an event of its
\* recipe puts the signal off and then forgets it: the number it saved is no list
Terminate ==
  /\ mpc = "terminate" /\ mpc' = "join"
  /\ \E sending \in SUBSET {p \in Living : DefersSignals /\ ppc[p] = "parse"} :
       ppc' = [p \in Parsers |-> IF p \in Living \ sending THEN "killed" ELSE ppc[p]]
  /\ UNCHANGED <<jobs, work, buf, queue, wlock, quit, procs, parsed, empty, first, ending, kills>>

Join ==
  /\ mpc = "join" /\ Living = {} /\ mpc' = "down"
  /\ UNCHANGED <<ppc, jobs, work, buf, queue, wlock, quit, procs, parsed, empty, first, ending, kills>>

\* Something else kills a process, for instance for want of memory
Killed(p) ==
  /\ kills < MaxParserKills /\ Alive(p) /\ (wlock = p => TornWrites)
  /\ kills' = kills + 1 /\ Set(p, "killed")
  /\ UNCHANGED <<jobs, work, buf, queue, wlock, quit, serverVars>>

ParserDone == mpc = "down" /\ UNCHANGED parserVars

Process(p) == Loop(p) \/ Parse(p) \/ Put(p) \/ CloseResults(p)
Server ==
  \/ GeneratorEnds \/ GeneratorChecks \/ GeneratorGets \/ Receive
  \/ Drain \/ Interrupt \/ Terminate \/ Join

ParserNext ==
  \/ \E p \in Parsers : Process(p) \/ Feed(p) \/ Killed(p)
  \/ Server \/ ToldToStop
  \/ ParserDone

ParserSpec == ParserInit /\ [][ParserNext]_parserVars

\* Processes and their feeder threads run, and so does the server
ParserFairSpec ==
  /\ ParserSpec /\ WF_parserVars(Server)
  /\ \A p \in Parsers : WF_parserVars(Process(p)) /\ WF_parserVars(Feed(p))
-----------------------------------------------------------------------------
Results == [job : Jobs, ok : BOOLEAN]

ParserTypeOK ==
  /\ ppc \in [Parsers -> {"loop", "parse", "put", "closing", "exited", "killed"}]
  /\ jobs \in [Parsers -> SUBSET Jobs]
  /\ work \in [Parsers -> Results \cup {NoResult}] /\ buf \in [Parsers -> Seq(Results)]
  /\ queue \in Seq([job : Jobs, ok : BOOLEAN, half : {1, 2}]) /\ Len(queue) <= QueueSize
  /\ wlock \in Parsers \cup {Nobody} /\ quit \in 0..Cardinality(Parsers) /\ kills \in Nat
  /\ mpc \in {"generate", "get", "reading", "drain", "drainread", "interrupt", "terminate", "join", "down"}
  /\ procs \in SUBSET Parsers /\ parsed \in Seq(Jobs) /\ empty \in BOOLEAN
  /\ first \in Results \cup {NoResult}
  /\ ending \in {"none", "complete", "died", "error", "stopped"}
  /\ ending = "none" <=> mpc \in {"generate", "get", "reading"}

\* Parsing is complete when every recipe was added once; and what is added was parsed.
CompleteMeansAll ==
  /\ ending = "complete" => Len(parsed) = ToParse
  /\ \A i, k \in 1..Len(parsed) : parsed[i] = parsed[k] => i = k
  /\ \A i \in 1..Len(parsed) : parsed[i] \notin Bad

\* "Not all recipes parsed, parser thread killed/died?" is said only if one was killed.
DiedMeansKilled == ending = "died" => kills > 0

\* The parser reports "complete" only when every recipe was parsed and added
\* once, however its processes end, and "died" only when one was killed.
ParseVerdictTrue == ParserTypeOK /\ CompleteMeansAll /\ DiedMeansKilled

\* Parsing ends and the processes are gone, without anybody waiting for anybody.
ParseEnds == <>(mpc = "down" /\ \A p \in Parsers : ~Alive(p))
=============================================================================
