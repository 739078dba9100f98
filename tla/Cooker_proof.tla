---------------------------- MODULE Cooker_proof ----------------------------
(***************************************************************************)
(* Commands see the changes that were known when they came, and run safely *)
(* (module Cooker), for any number of clients, commands, recipes, changes  *)
(* of files and signals.                                                   *)
(*                                                                         *)
(* The invariant is mostly about the cooker's record, so the first part    *)
(* shows of each method of BBCooker that its result is again good; the     *)
(* second part follows the actions, which are compositions of methods.     *)
(***************************************************************************)
EXTENDS Cooker, SequenceTheorems, TLAPS

\* What holds of the cooker's record by itself: there is one idle function while
\* a command is in progress, the build's if it has a run queue
Shape(c) ==
  /\ c \in CookerState
  /\ c.idle \in {{}, {"run"}, {"build"}}
  /\ c.current = NoCommand <=> c.idle = {}
  /\ c.rq # "none" <=> c.idle = {"build"}
  /\ c.current # NoCommand => c.data /\ c.current.cmd \in AsyncCommands
  /\ c.base => c.data
  /\ c.cache => c.parser # "none"
  /\ c.left + c.have <= NumRecipes
  /\ c.updating => c.idle = {"run"}
  /\ c.asked => c.current # NoCommand

\* A configuration or cache that counts as valid is the newest the server was told
\* of, or an event that says otherwise has not been read
Fresh(c, d) ==
  /\ c.base => c.conf = c.due.conf \/ "conf" \in c.ev
  /\ c.cache => c.rec = c.due.rec \/ "rec" \in c.ev
  /\ c.conf <= c.due.conf /\ c.rec <= c.due.rec
  /\ c.current.since.conf <= c.due.conf /\ c.current.since.rec <= c.due.rec
  /\ c.due.conf <= d.conf /\ c.due.rec <= d.rec

\* What a command in progress works with is as new as the command
Seen(c) ==
  /\ c.updating \/ c.st \in {"parsing", "running"} =>
       /\ c.current.cmd \in NeedCache
       /\ c.conf >= c.current.since.conf /\ c.rec >= c.current.since.rec
  /\ c.rq # "none" => c.conf >= c.current.since.conf

\* No recipe is lost between the parser and a cache that is used
Whole(c) ==
  /\ c.cache \/ c.updating \/ c.st \in {"parsing", "running"} => c.have + c.left = NumRecipes
  /\ c.st = "running" => c.left = 0 /\ ~c.updating

\* A shutdown is told to the command in the pass it was asked in
Heeded == ck.asked => ck.st \in Stopping /\ ~ck.updating /\ todo # {}

\* The client a command is for waits for it; there is no other completion to read
Waits ==
  /\ ck.current # NoCommand =>
       client.on /\ client.waiting /\ client.sent > 0 /\ client.events = <<>>
  /\ ~client.waiting => client.events = <<>>
  /\ Len(client.events) <= 1

\* A parser with work left belongs to the command in progress
Kept(c) ==
  /\ ~c.abandoned
  /\ "conf" \notin c.ev
  /\ c.parser = "live" /\ c.procs /\ c.left > 0 =>
       /\ c.updating \/ c.st \in {"parsing"} \cup Stopping
       /\ c.base /\ c.idle = {"run"}

\* Clients stay, and no command ends without their being told
PatientClients == Patient /\ "triggerEvent" \notin AsyncCommands

\* The inductive invariant
CookerInv ==
  /\ Shape(ck) /\ disk \in Versions /\ client \in ClientState /\ signals \in Nat
  /\ disk.conf >= 1
  /\ todo \subseteq ck.idle /\ ck.read = {}
  /\ client.waiting => client.on
  /\ ck.updating => "run" \in todo
  /\ Fresh(ck, disk) /\ Seen(ck)
  /\ MaxSignals = 0 => Heeded
  /\ "parseConfiguration" \notin SyncCommands \/ PatientClients => Whole(ck)
  /\ PatientClients => Waits
  /\ PatientClients /\ MaxConfChanges = 0 => Kept(ck)
-----------------------------------------------------------------------------
\* The part that every method preserves
Good(c) == Shape(c) /\ Fresh(c, disk) /\ Seen(c)

\* initConfigurationData reads the configuration there is
LEMMA InitConfigurationDataGood ==
  ASSUME NEW c, Good(c), disk \in Versions
  PROVE  /\ Good(InitConfigurationData(c))
         /\ Whole(c) => Whole(InitConfigurationData(c))
<1> DEFINE p == InitConfigurationData(c)
<1>1. p \in CookerState
  BY DEF Good, Shape, InitConfigurationData, CookerState, Versions
<1>2. Shape(p)
  BY <1>1 DEF Good, Shape, InitConfigurationData, CookerState
<1>3. Fresh(p, disk)
  BY DEF Good, Shape, Fresh, InitConfigurationData, CookerState, Versions, Command
<1>4. Seen(p)
  BY DEF Good, Shape, Fresh, Seen, InitConfigurationData, CookerState, Versions, Command
<1>5. Whole(c) => Whole(p)
  BY DEF Good, Shape, Whole, InitConfigurationData, CookerState
<1> QED BY <1>2, <1>3, <1>4, <1>5 DEF Good

\* process_inotify_updates: what is valid afterwards is what is on the disk
LEMMA ProcessInotifyUpdatesGood ==
  ASSUME NEW c, Good(c), disk \in Versions
  PROVE  LET p == ProcessInotifyUpdates(c)
         IN  /\ Good(p)
             /\ Whole(c) => Whole(p)
             /\ Kept(c) => Kept(p)
             /\ p.base => p.conf = p.due.conf
             /\ p.cache => p.rec = p.due.rec
<1> DEFINE p == ProcessInotifyUpdates(c)
<1>0. (c.base /\ "conf" \notin c.ev) \in BOOLEAN /\ (c.cache /\ "rec" \notin c.ev) \in BOOLEAN
  OBVIOUS
<1>1. p \in CookerState
  <2> DEFINE b == c.base /\ "conf" \notin c.ev
             k == c.cache /\ "rec" \notin c.ev
  <2>1. p = [c EXCEPT !.base = b, !.cache = k, !.ev = {}]
    BY DEF ProcessInotifyUpdates
  <2>2. b \in BOOLEAN /\ k \in BOOLEAN
    BY <1>0
  <2> HIDE DEF b, k, p
  <2> QED BY <2>1, <2>2 DEF Good, Shape, CookerState
<1>2. Shape(p)
  BY <1>1 DEF Good, Shape, ProcessInotifyUpdates, CookerState
<1>3. Fresh(p, disk)
  BY DEF Good, Shape, Fresh, ProcessInotifyUpdates, CookerState
<1>4. Seen(p)
  BY DEF Good, Shape, Seen, ProcessInotifyUpdates, CookerState
<1>5. Whole(c) => Whole(p)
  BY DEF Good, Shape, Whole, ProcessInotifyUpdates, CookerState
<1>6. Kept(c) => Kept(p)
  BY DEF Good, Shape, Kept, ProcessInotifyUpdates, CookerState
<1>7. (p.base => p.conf = p.due.conf) /\ (p.cache => p.rec = p.due.rec)
  BY <1>3 DEF Good, Shape, Fresh, ProcessInotifyUpdates, CookerState
<1> QED BY <1>2, <1>3, <1>4, <1>5, <1>6, <1>7 DEF Good

\* A parser that was shut down has no work left
LEMMA ParserShutdownGood ==
  ASSUME NEW c, Good(c), disk \in Versions
  PROVE  LET p == ParserShutdown(c)
         IN  /\ Good(p)
             /\ Whole(c) => Whole(p)
             /\ Kept(c) => Kept(p) /\ ~(p.parser = "live" /\ p.procs)
BY DEF Good, Shape, Fresh, Seen, Whole, Kept, ParserShutdown, CookerState, Versions, Command, NoCommand

\* updateCacheSync: unless a command is running, the configuration is that of the disk
LEMMA UpdateCacheSyncGood ==
  ASSUME NEW c, Good(c), disk \in Versions
  PROVE  LET p == UpdateCacheSync(c)
         IN  /\ Good(p)
             /\ Whole(c) => Whole(p)
             /\ Kept(c) /\ ~(c.parser = "live" /\ c.procs /\ c.left > 0 /\ ~c.base) => Kept(p)
             /\ c.st # "running" => p.base
             /\ (c.base => c.conf = c.due.conf) => (p.base => p.conf = p.due.conf)
             /\ c.st # "running" /\ (c.base => c.conf = c.due.conf) => p.conf = p.due.conf
             /\ p.st \in {c.st, "initial"}
             /\ p.parser = c.parser /\ p.procs = c.procs /\ p.left = c.left /\ p.have = c.have
             /\ p.updating = c.updating /\ p.current = c.current /\ p.idle = c.idle /\ p.rq = c.rq
             /\ p.asked = c.asked /\ p.abandoned = c.abandoned
             /\ p.rec = c.rec /\ (p.cache => c.cache) /\ p.ev \subseteq c.ev
             /\ p.due.rec = c.due.rec
<1> DEFINE p == UpdateCacheSync(c)
<1>1. CASE c.st # "running" /\ ~c.base
  <2>1. p = InitConfigurationData(c)
    BY <1>1 DEF UpdateCacheSync
  <2>2. Good(p) /\ (Whole(c) => Whole(p))
    BY <2>1, InitConfigurationDataGood
  <2>3. Kept(c) /\ ~(c.parser = "live" /\ c.procs /\ c.left > 0 /\ ~c.base) => Kept(p)
    BY <2>1, <1>1 DEF Good, Shape, Kept, InitConfigurationData, CookerState
  <2>4. /\ p.base /\ p.conf = p.due.conf /\ p.st = "initial"
        /\ p.parser = c.parser /\ p.procs = c.procs /\ p.left = c.left /\ p.have = c.have
        /\ p.updating = c.updating /\ p.current = c.current /\ p.idle = c.idle /\ p.rq = c.rq
        /\ p.asked = c.asked /\ p.abandoned = c.abandoned
        /\ p.rec = c.rec /\ (p.cache => c.cache) /\ p.ev \subseteq c.ev
        /\ p.due.rec = c.due.rec
    BY <2>1 DEF Good, Shape, InitConfigurationData, CookerState, Versions
  <2> QED BY <2>2, <2>3, <2>4
<1>2. CASE ~(c.st # "running" /\ ~c.base)
  <2>1. p = c
    BY <1>2 DEF UpdateCacheSync
  <2> QED BY <2>1, <1>2 DEF Good, Shape
<1> QED BY <1>1, <1>2

\* parseConfiguration may empty the cache when no command needs it
LEMMA ParseConfigurationGood ==
  ASSUME NEW c, Good(c), disk \in Versions
  PROVE  LET p == ParseConfiguration(c)
         IN  /\ Good(p)
             /\ ~c.updating /\ c.st \notin {"parsing", "running"} => Whole(p)
             /\ Kept(c) /\ ~(c.parser = "live" /\ c.procs /\ c.left > 0 /\ ~c.base) => Kept(p)
             /\ c.st # "running" => p.base
             /\ c.st # "running" /\ (c.base => c.conf = c.due.conf) => p.conf = p.due.conf
             /\ p.st \in {c.st, "initial"}
             /\ p.parser = c.parser /\ p.procs = c.procs /\ p.left = c.left
             /\ p.updating = c.updating /\ p.current = c.current /\ p.idle = c.idle /\ p.rq = c.rq
             /\ p.asked = c.asked /\ p.abandoned = c.abandoned
             /\ p.rec = c.rec /\ p.ev \subseteq c.ev /\ p.due.rec = c.due.rec
<1> DEFINE u == UpdateCacheSync(c)
           p == ParseConfiguration(c)
<1>1. p = [u EXCEPT !.have = 0, !.cache = FALSE]
  BY DEF ParseConfiguration
<1>2. /\ Good(u)
      /\ Kept(c) /\ ~(c.parser = "live" /\ c.procs /\ c.left > 0 /\ ~c.base) => Kept(u)
      /\ c.st # "running" => u.base
      /\ c.st # "running" /\ (c.base => c.conf = c.due.conf) => u.conf = u.due.conf
      /\ u.st \in {c.st, "initial"}
      /\ u.parser = c.parser /\ u.procs = c.procs /\ u.left = c.left
      /\ u.updating = c.updating /\ u.current = c.current /\ u.idle = c.idle /\ u.rq = c.rq
      /\ u.asked = c.asked /\ u.abandoned = c.abandoned
      /\ u.rec = c.rec /\ u.ev \subseteq c.ev /\ u.due.rec = c.due.rec
  BY UpdateCacheSyncGood
<1> HIDE DEF u, p
<1>3. u \in CookerState
  BY <1>2 DEF Good, Shape
<1>4. Shape(p)
  <2>1. p \in CookerState
    BY <1>1, <1>3 DEF CookerState
  <2>2. u.left + 0 <= NumRecipes
    BY <1>2, <1>3, CookerAssumption DEF Good, Shape, CookerState
  <2> QED BY <1>1, <1>2, <1>3, <2>1, <2>2 DEF Good, Shape, CookerState
<1>5. Fresh(p, disk)
  BY <1>1, <1>2, <1>3 DEF Good, Fresh, CookerState
<1>6. Seen(p)
  BY <1>1, <1>2, <1>3 DEF Good, Seen, CookerState
<1>7. ~c.updating /\ c.st \notin {"parsing", "running"} => Whole(p)
  BY <1>1, <1>2, <1>3 DEF Whole, CookerState
<1>8. Kept(c) /\ ~(c.parser = "live" /\ c.procs /\ c.left > 0 /\ ~c.base) => Kept(p)
  BY <1>1, <1>2, <1>3 DEF Kept, CookerState
<1>9. /\ p.base = u.base /\ p.conf = u.conf /\ p.st = u.st
      /\ p.parser = u.parser /\ p.procs = u.procs /\ p.left = u.left
      /\ p.updating = u.updating /\ p.current = u.current /\ p.idle = u.idle /\ p.rq = u.rq
      /\ p.asked = u.asked /\ p.abandoned = u.abandoned
      /\ p.rec = u.rec /\ p.ev = u.ev /\ p.due = u.due
  BY <1>1, <1>3 DEF CookerState
<1> USE DEF p
<1> QED BY <1>2, <1>4, <1>5, <1>6, <1>7, <1>8, <1>9 DEF Good

\* init_configdata: afterwards there is a configuration
LEMMA InitConfigdataGood ==
  ASSUME NEW c, Good(c), disk \in Versions
  PROVE  LET p == InitConfigdata(c)
         IN  /\ Good(p) /\ p.data
             /\ Whole(c) => Whole(p)
             /\ Kept(c) => Kept(p)
             /\ p.idle = c.idle /\ p.current = c.current /\ p.updating = c.updating
             /\ p.asked = c.asked
<1> DEFINE p == InitConfigdata(c)
<1>1. CASE c.data
  BY <1>1 DEF InitConfigdata, Good, Shape
<1>2. CASE ~c.data
  <2>1. p = InitConfigurationData(c)
    BY <1>2 DEF InitConfigdata
  <2>2. Good(p) /\ (Whole(c) => Whole(p))
    BY <2>1, InitConfigurationDataGood
  <2>3. /\ p.data /\ p.idle = c.idle /\ p.current = c.current /\ p.updating = c.updating
        /\ p.asked = c.asked /\ p.abandoned = c.abandoned /\ p.ev \subseteq c.ev
        /\ p.parser = c.parser /\ p.procs = c.procs /\ p.left = c.left
    BY <2>1 DEF Good, Shape, InitConfigurationData, CookerState
  <2>4. c.idle # {"run"}
    BY <1>2 DEF Good, Shape
  <2>5. Kept(c) => Kept(p)
    BY <2>3, <2>4 DEF Kept
  <2> QED BY <2>2, <2>3, <2>5
<1> QED BY <1>1, <1>2

\* A command that has ended
LEMMA EndedGood ==
  ASSUME NEW c, Good(c), disk \in Versions, ~c.updating, NEW p \in CookerState,
         p.current = NoCommand, p.idle = {}, p.rq = "none", ~p.asked,
         p.st = "initial",
         p.data = c.data, p.base = c.base, p.cache => c.cache, p.conf = c.conf, p.rec = c.rec,
         p.have = c.have, p.ev = c.ev, p.parser = c.parser, p.left = c.left,
         p.procs = c.procs, p.updating = c.updating, p.abandoned = c.abandoned, p.due = c.due
  PROVE  /\ Good(p)
         /\ Whole(c) => Whole(p)
         /\ Kept(c) /\ ~(p.parser = "live" /\ p.procs /\ p.left > 0) => Kept(p)
<1>1. Shape(p)
  BY DEF Good, Shape
<1>2. Fresh(p, disk)
  BY DEF Good, Shape, Fresh, CookerState, Versions, NoCommand
<1>3. Seen(p)
  BY DEF Seen
<1>4. Whole(c) => Whole(p)
  BY DEF Whole
<1>5. Kept(c) /\ ~(p.parser = "live" /\ p.procs /\ p.left > 0) => Kept(p)
  BY DEF Kept
<1> QED BY <1>1, <1>2, <1>3, <1>4, <1>5 DEF Good

\* A command that is not a build is finished by its idle function
LEMMA FinishedGood ==
  ASSUME NEW u, Good(u), disk \in Versions, ~u.updating, u.idle = {"run"}
  PROVE  LET p == [FinishAsyncCommand(u) EXCEPT !.idle = @ \ {"run"}]
         IN  /\ Good(p)
             /\ Whole(u) => Whole(p)
             /\ Kept(u) /\ ~(u.parser = "live" /\ u.procs /\ u.left > 0) => Kept(p)
             /\ p.current = NoCommand /\ ~p.asked /\ ~p.updating
<1> DEFINE v == FinishAsyncCommand(u)
           p == [v EXCEPT !.idle = @ \ {"run"}]
<1>1. NoCommand \in Command
  BY DEF NoCommand, Command, Versions
<1>2. u \in CookerState /\ u.rq = "none"
  BY DEF Good, Shape
<1>3. v \in CookerState
  BY <1>1, <1>2 DEF FinishAsyncCommand, CookerState
<1>4. /\ v.current = NoCommand /\ v.idle = u.idle /\ v.rq = u.rq /\ ~v.asked /\ v.st = "initial"
      /\ v.data = u.data /\ v.base = u.base /\ v.cache = u.cache /\ v.conf = u.conf
      /\ v.rec = u.rec /\ v.have = u.have /\ v.ev = u.ev /\ v.parser = u.parser
      /\ v.left = u.left /\ v.procs = u.procs /\ v.updating = u.updating
      /\ v.abandoned = u.abandoned /\ v.due = u.due
  BY <1>2 DEF FinishAsyncCommand, CookerState
<1> HIDE DEF v
<1>5. p = [v EXCEPT !.idle = {}]
  <2>1. v.idle \ {"run"} = {}
    BY <1>4
  <2> QED BY <1>3, <2>1 DEF CookerState
<1> HIDE DEF p
<1>6. p \in CookerState
  BY <1>3, <1>5 DEF CookerState
<1>7. /\ p.current = v.current /\ p.idle = {} /\ p.rq = v.rq /\ p.asked = v.asked /\ p.st = v.st
      /\ p.data = v.data /\ p.base = v.base /\ p.cache = v.cache /\ p.conf = v.conf
      /\ p.rec = v.rec /\ p.have = v.have /\ p.ev = v.ev /\ p.parser = v.parser
      /\ p.left = v.left /\ p.procs = v.procs /\ p.updating = v.updating
      /\ p.abandoned = v.abandoned /\ p.due = v.due
  BY <1>3, <1>5 DEF CookerState
<1>8. /\ Good(p) /\ (Whole(u) => Whole(p))
      /\ Kept(u) /\ ~(p.parser = "live" /\ p.procs /\ p.left > 0) => Kept(p)
  BY <1>2, <1>4, <1>6, <1>7, EndedGood
<1>9. p.current = NoCommand /\ ~p.asked /\ ~p.updating
  BY <1>4, <1>7
<1> USE DEF p, v
<1> QED BY <1>4, <1>7, <1>8, <1>9

\* shutdown: the state says so, and the parser is down
LEMMA ShutdownGood ==
  ASSUME NEW c, Good(c), disk \in Versions, ~c.updating, NEW force \in BOOLEAN
  PROVE  LET p == Shutdown(c, force)
         IN  /\ Good(p)
             /\ Whole(c) => Whole(p)
             /\ Kept(c) => Kept(p)
             /\ p.st \in Stopping /\ p.idle = c.idle /\ p.updating = c.updating
             /\ p.current = c.current
<1> DEFINE u == ParserShutdown(c)
           p == Shutdown(c, force)
           a == c.asked \/ c.current # NoCommand
           t == IF force THEN "forceshutdown" ELSE "shutdown"
<1>1. p = [u EXCEPT !.st = t, !.asked = a]
  <2>1. u.asked = c.asked
    BY DEF Good, Shape, ParserShutdown, CookerState
  <2> QED BY <2>1 DEF Shutdown
<1>2. Good(u) /\ (Whole(c) => Whole(u)) /\ (Kept(c) => Kept(u) /\ ~(u.parser = "live" /\ u.procs))
  BY ParserShutdownGood
<1>3. a \in BOOLEAN /\ t \in Stopping /\ t \notin {"initial", "parsing", "running"}
  BY DEF Stopping
<1>4. u.idle = c.idle /\ u.updating = c.updating /\ u.current = c.current /\ u.asked = c.asked
  BY DEF Good, Shape, ParserShutdown, CookerState
<1>5. a => c.current # NoCommand
  BY DEF Good, Shape
<1> HIDE DEF u, p, a, t
<1>6. u \in CookerState
  BY <1>2 DEF Good, Shape
<1>7. p \in CookerState
  BY <1>1, <1>3, <1>6 DEF CookerState
<1>8. Shape(p)
  BY <1>1, <1>2, <1>4, <1>5, <1>6, <1>7 DEF Good, Shape, CookerState
<1>9. Fresh(p, disk)
  BY <1>1, <1>2, <1>6 DEF Good, Fresh, CookerState
<1>10. Seen(p)
  BY <1>1, <1>2, <1>3, <1>4, <1>6 DEF Good, Seen, CookerState
<1>11. Whole(c) => Whole(p)
  BY <1>1, <1>2, <1>3, <1>4, <1>6 DEF Whole, CookerState
<1>12. Kept(c) => Kept(p)
  BY <1>1, <1>2, <1>3, <1>4, <1>6 DEF Kept, CookerState
<1>13. p.st \in Stopping /\ p.idle = c.idle /\ p.updating = c.updating /\ p.current = c.current
  BY <1>1, <1>3, <1>4, <1>6 DEF CookerState
<1> USE DEF p
<1> QED BY <1>8, <1>9, <1>10, <1>11, <1>12, <1>13 DEF Good

\* clientComplete: nothing counts as valid, so no cache is used
LEMMA ClientCompleteGood ==
  ASSUME NEW c, Good(c), disk \in Versions, ~c.updating
  PROVE  LET p == ClientComplete(c)
         IN  /\ Good(p)
             /\ Whole(p)
             /\ Kept(c) /\ c.idle # {"run"} => Kept(p)
             /\ p.idle = c.idle /\ p.updating = c.updating
             /\ p.current = c.current /\ p.asked = c.asked
<1> DEFINE p == ClientComplete(c)
<1>1. p \in CookerState
  BY DEF Good, Shape, ClientComplete, CookerState
<1>2. Shape(p)
  BY <1>1 DEF Good, Shape, ClientComplete, CookerState
<1>3. Fresh(p, disk)
  BY DEF Good, Shape, Fresh, ClientComplete, CookerState
<1>4. Seen(p)
  BY DEF Good, Shape, Seen, ClientComplete, CookerState
<1>5. Whole(p)
  BY DEF Good, Shape, Whole, ClientComplete, CookerState
<1>6. Kept(c) /\ c.idle # {"run"} => Kept(p)
  BY DEF Good, Shape, Kept, ClientComplete, CookerState
<1>7. /\ p.idle = c.idle /\ p.updating = c.updating
      /\ p.current = c.current /\ p.asked = c.asked
  BY DEF Good, Shape, ClientComplete, CookerState
<1> QED BY <1>2, <1>3, <1>4, <1>5, <1>6, <1>7 DEF Good

\* updateCache with a new parser: all recipes are still to be parsed
LEMMA NewParserGood ==
  ASSUME NEW c, Good(c), disk \in Versions, NEW procs \in BOOLEAN,
         NEW rec \in {disk.rec} \cup ({c.rec} \cap {c.due.rec}),
         c.st = "initial", ~c.updating, c.base, c.conf = c.due.conf,
         c.idle = {"run"}, c.current.cmd \in NeedCache
  PROVE  LET p == [NewParser(c, procs, rec) EXCEPT !.updating = TRUE]
         IN  /\ Good(p)
             /\ Whole(p)
             /\ Kept(c) => Kept(p)
             /\ p.idle = c.idle /\ p.updating /\ p.current = c.current /\ p.asked = c.asked
<1> DEFINE u == ParseConfiguration(c)
           a == c.abandoned \/ (c.parser = "live" /\ c.procs /\ c.left > 0)
           p == [NewParser(c, procs, rec) EXCEPT !.updating = TRUE]
<1>1. /\ Good(u)
      /\ Kept(c) => Kept(u)
      /\ u.base /\ u.conf = u.due.conf /\ u.st = "initial"
      /\ u.updating = c.updating /\ u.current = c.current /\ u.idle = c.idle
      /\ u.asked = c.asked /\ u.abandoned = c.abandoned
      /\ u.due.rec = c.due.rec /\ u.rec = c.rec
  BY ParseConfigurationGood
<1>2. u \in CookerState /\ rec \in Nat /\ u.due.rec <= rec /\ rec <= disk.rec
  <2>1. u \in CookerState
    BY <1>1 DEF Good, Shape
  <2>2. u.due.rec \in Nat /\ disk.rec \in Nat /\ c.rec \in Nat /\ u.due.rec <= disk.rec
    BY <1>1, <2>1 DEF Good, Fresh, Shape, CookerState, Versions
  <2> QED BY <1>1, <2>1, <2>2
<1>3. p = [u EXCEPT !.cache = TRUE, !.parser = "live", !.procs = procs, !.left = NumRecipes,
              !.err = FALSE, !.rec = rec, !.ev = u.ev \ {"rec"}, !.abandoned = a,
              !.due = [u.due EXCEPT !.rec = rec], !.read = u.read \cup {"rec"},
              !.updating = TRUE]
  <2> HIDE DEF u, a
  <2>1. NewParser(c, procs, rec) =
          [u EXCEPT !.cache = TRUE, !.parser = "live", !.procs = procs, !.left = NumRecipes,
              !.err = FALSE, !.rec = rec, !.ev = u.ev \ {"rec"}, !.abandoned = a,
              !.due = [u.due EXCEPT !.rec = rec], !.read = u.read \cup {"rec"}]
    BY <1>1 DEF NewParser, u, a
  <2> QED BY <2>1, <1>2 DEF CookerState
<1>4. a \in BOOLEAN /\ (Kept(c) => ~a)
  BY DEF Kept, Stopping
<1>5. u.have = 0
  BY UpdateCacheSyncGood DEF ParseConfiguration, Good, Shape, CookerState
<1> HIDE DEF u, a, p
<1>6. p \in CookerState
  BY <1>2, <1>3, <1>4, CookerAssumption DEF CookerState, Versions
<1>7. Shape(p)
  <2>1. p.left + p.have <= NumRecipes
    BY <1>2, <1>3, <1>5, CookerAssumption DEF CookerState
  <2>2. /\ p.idle = u.idle /\ p.current = u.current /\ p.rq = u.rq /\ p.data = u.data
        /\ p.base = u.base /\ p.parser = "live" /\ p.asked = u.asked
    BY <1>2, <1>3 DEF CookerState
  <2> QED BY <1>1, <1>6, <2>1, <2>2 DEF Good, Shape
<1>8. Fresh(p, disk)
  BY <1>1, <1>2, <1>3 DEF Good, Fresh, CookerState, Versions, Command
<1>9. Seen(p)
  BY <1>1, <1>2, <1>3 DEF Good, Fresh, Seen, CookerState, Versions, Command
<1>10. Whole(p)
  BY <1>1, <1>2, <1>3, <1>5, CookerAssumption DEF Whole, CookerState
<1>11. Kept(c) => Kept(p)
  BY <1>1, <1>2, <1>3, <1>4 DEF Kept, CookerState
<1>12. p.idle = c.idle /\ p.updating /\ p.current = c.current /\ p.asked = c.asked
  BY <1>1, <1>2, <1>3 DEF CookerState
<1> USE DEF p
<1> QED BY <1>7, <1>8, <1>9, <1>10, <1>11, <1>12 DEF Good

\* updateCache up to the parser: configuration and recipes are what is due
LEMMA UpdateCacheGood ==
  ASSUME NEW c, Good(c), disk \in Versions, NEW procs \in BOOLEAN,
         NEW rec \in {disk.rec} \cup ({c.rec} \cap {c.due.rec}),
         c.st \in {"initial", "parsing"}, ~c.updating,
         c.base => c.conf = c.due.conf, c.cache => c.rec = c.due.rec,
         c.idle = {"run"}, c.current.cmd \in NeedCache
  PROVE  LET p == UpdateCache(c, procs, rec)
         IN  /\ Good(p)
             /\ Whole(c) => Whole(p)
             /\ Kept(c) => Kept(p)
             /\ p.idle = c.idle /\ p.updating /\ p.current = c.current /\ p.asked = c.asked
<1> DEFINE u == IF c.st # "parsing" THEN UpdateCacheSync(c) ELSE c
           p == UpdateCache(c, procs, rec)
<1>1. /\ Good(u)
      /\ Whole(c) => Whole(u)
      /\ Kept(c) => Kept(u)
      /\ u.st = c.st /\ (u.cache => u.rec = u.due.rec)
      /\ u.st = "initial" => u.base /\ u.conf = u.due.conf
      /\ u.updating = c.updating /\ u.current = c.current /\ u.idle = c.idle /\ u.asked = c.asked
      /\ u.rec = c.rec /\ u.due.rec = c.due.rec
  <2>1. CASE c.st = "parsing"
    BY <2>1
  <2>2. CASE c.st = "initial"
    <3>1. Kept(c) => ~(c.parser = "live" /\ c.procs /\ c.left > 0)
      BY <2>2 DEF Kept, Stopping
    <3> QED BY <2>2, <3>1, UpdateCacheSyncGood
  <2> QED BY <2>1, <2>2
<1>2. p = [(IF u.st # "parsing" /\ ~u.cache THEN NewParser(u, procs, rec) ELSE u)
             EXCEPT !.updating = TRUE]
  BY DEF UpdateCache
<1> HIDE DEF u, p
<1>3. CASE u.st # "parsing" /\ ~u.cache
  <2>1. p = [NewParser(u, procs, rec) EXCEPT !.updating = TRUE]
    BY <1>2, <1>3
  <2>2. u.st = "initial"
    BY <1>1, <1>3
  <2>3. Good(p) /\ Whole(p) /\ (Kept(u) => Kept(p))
    BY <1>1, <2>1, <2>2, NewParserGood
  <2>4. p.idle = u.idle /\ p.updating /\ p.current = u.current /\ p.asked = u.asked
    BY <1>1, <2>1, <2>2, NewParserGood
  <2> QED BY <1>1, <2>3, <2>4 DEF p
<1>4. CASE ~(u.st # "parsing" /\ ~u.cache)
  <2>1. p = [u EXCEPT !.updating = TRUE]
    BY <1>2, <1>4
  <2>2. u \in CookerState
    BY <1>1 DEF Good, Shape
  <2>3. p \in CookerState
    BY <2>1, <2>2 DEF CookerState
  <2>4. Shape(p)
    BY <1>1, <2>1, <2>2, <2>3 DEF Good, Shape, CookerState
  <2>5. Fresh(p, disk)
    BY <1>1, <2>1, <2>2 DEF Good, Fresh, CookerState
  <2>6. Seen(p)
    BY <1>1, <1>4, <2>1, <2>2 DEF Good, Fresh, Seen, CookerState, Versions, Command
  <2>7. Whole(c) => Whole(p)
    BY <1>1, <1>4, <2>1, <2>2 DEF Whole, CookerState
  <2>8. Kept(c) => Kept(p)
    BY <1>1, <2>1, <2>2 DEF Kept, CookerState
  <2>9. p.idle = c.idle /\ p.updating /\ p.current = c.current /\ p.asked = c.asked
    BY <1>1, <2>1, <2>2 DEF CookerState
  <2> QED BY <2>4, <2>5, <2>6, <2>7, <2>8, <2>9 DEF Good, p
<1> QED BY <1>3, <1>4

\* updateCache with the parser: a recipe moves to the cache, or there are no more
LEMMA ParseNextGood ==
  ASSUME Good(ck), disk \in Versions, ck.updating, ~ParseNext.err
  PROVE  /\ Good(ParseNext)
         /\ Whole(ck) => Whole(ParseNext)
         /\ Kept(ck) => Kept(ParseNext)
         /\ ParseNext.idle = ck.idle /\ ~ParseNext.updating
         /\ ParseNext.current = ck.current /\ ParseNext.asked = ck.asked
<1> DEFINE c == [ck EXCEPT !.st = "parsing", !.updating = FALSE]
           p == ParseNext
<1>1. ck \in CookerState /\ ck.idle = {"run"} /\ ck.left + ck.have <= NumRecipes
  BY DEF Good, Shape
<1>2. c \in CookerState
  BY <1>1 DEF CookerState
<1>3. /\ c.st = "parsing" /\ c.updating = FALSE
      /\ c.data = ck.data /\ c.base = ck.base /\ c.cache = ck.cache
      /\ c.conf = ck.conf /\ c.rec = ck.rec /\ c.have = ck.have /\ c.ev = ck.ev
      /\ c.parser = ck.parser /\ c.procs = ck.procs /\ c.left = ck.left /\ c.err = ck.err
      /\ c.current = ck.current /\ c.idle = ck.idle /\ c.rq = ck.rq
      /\ c.asked = ck.asked /\ c.abandoned = ck.abandoned
  BY <1>1 DEF CookerState
<1>4. Shape(c)
  BY <1>2, <1>3 DEF Good, Shape
<1>5. Good(c)
  BY <1>3, <1>4 DEF Good, Fresh, Seen
<1>6. Whole(ck) => Whole(c)
  BY <1>3 DEF Whole
<1>7. Kept(ck) => Kept(c)
  BY <1>3 DEF Kept
<1>8. /\ c.left > 0 /\ c.parser = "live" => p = [c EXCEPT !.left = c.left - 1, !.have = c.have + 1]
      /\ ~(c.left > 0 /\ c.parser = "live") /\ c.left = 0 /\ ~c.err =>
           p = [ParserShutdown(c) EXCEPT !.st = "running"]
      /\ ~(c.left > 0 /\ c.parser = "live") /\ ~(c.left = 0 /\ ~c.err) =>
           p = [c EXCEPT !.err = TRUE]
  BY <1>2 DEF ParseNext, CookerState
<1>9. ~p.err
  OBVIOUS
<1> HIDE DEF c, p
<1>10. CASE c.left > 0 /\ c.parser = "live"
  <2>1. p = [c EXCEPT !.left = c.left - 1, !.have = c.have + 1]
    BY <1>8, <1>10
  <2>2. c.left - 1 \in Nat /\ c.have + 1 \in Nat /\ (c.left - 1) + (c.have + 1) = c.left + c.have
    BY <1>2, <1>10 DEF CookerState
  <2>3. p \in CookerState
    BY <1>2, <2>1, <2>2 DEF CookerState
  <2>4. p.left = c.left - 1 /\ p.have = c.have + 1
    BY <1>2, <2>1 DEF CookerState
  <2>5. /\ p.st = c.st /\ p.data = c.data /\ p.base = c.base /\ p.cache = c.cache
        /\ p.conf = c.conf /\ p.rec = c.rec /\ p.ev = c.ev /\ p.parser = c.parser
        /\ p.procs = c.procs /\ p.updating = c.updating /\ p.current = c.current
        /\ p.idle = c.idle /\ p.rq = c.rq /\ p.asked = c.asked /\ p.abandoned = c.abandoned
        /\ p.due = c.due
    BY <1>2, <2>1 DEF CookerState
  <2>6. Shape(p)
    BY <1>4, <2>2, <2>3, <2>4, <2>5 DEF Shape
  <2>7. Fresh(p, disk) /\ Seen(p)
    BY <1>5, <2>5 DEF Good, Fresh, Seen
  <2>8. Whole(c) => Whole(p)
    <3> SUFFICES ASSUME Whole(c) PROVE Whole(p)
      OBVIOUS
    <3>1. p.have + p.left = NumRecipes
      BY <1>2, <1>3, <2>4 DEF Whole, CookerState
    <3> QED BY <3>1, <1>3, <2>5 DEF Whole
  <2>9. Kept(c) => Kept(p)
    BY <1>10, <2>5 DEF Kept
  <2> QED BY <1>3, <1>6, <1>7, <2>5, <2>6, <2>7, <2>8, <2>9 DEF Good, p
<1>11. CASE ~(c.left > 0 /\ c.parser = "live") /\ c.left = 0 /\ ~c.err
  <2> DEFINE u == ParserShutdown(c)
  <2>1. p = [u EXCEPT !.st = "running"]
    BY <1>8, <1>11
  <2>2. Good(u) /\ (Whole(c) => Whole(u)) /\ (Kept(c) => Kept(u) /\ ~(u.parser = "live" /\ u.procs))
    BY <1>5, ParserShutdownGood
  <2>3. /\ u.st = c.st /\ u.idle = c.idle /\ u.updating = c.updating
        /\ u.current = c.current /\ u.asked = c.asked /\ u.left = c.left
    BY <1>2 DEF ParserShutdown, CookerState
  <2> HIDE DEF u
  <2>4. u \in CookerState
    BY <2>2 DEF Good, Shape
  <2>5. p \in CookerState
    BY <2>1, <2>4 DEF CookerState
  <2>6. Shape(p)
    BY <2>1, <2>2, <2>4, <2>5 DEF Good, Shape, CookerState
  <2>7. Fresh(p, disk)
    BY <2>1, <2>2, <2>4 DEF Good, Fresh, CookerState
  <2>8. Seen(p)
    BY <1>3, <2>1, <2>2, <2>3, <2>4 DEF Good, Seen, CookerState
  <2>9. Whole(c) => Whole(p)
    BY <1>3, <1>11, <2>1, <2>2, <2>3, <2>4 DEF Whole, CookerState
  <2>10. Kept(c) => Kept(p)
    BY <2>1, <2>2, <2>4 DEF Kept, CookerState
  <2>11. p.idle = u.idle /\ p.updating = u.updating /\ p.current = u.current /\ p.asked = u.asked
    BY <2>1, <2>4 DEF CookerState
  <2> QED BY <1>3, <1>6, <1>7, <2>3, <2>6, <2>7, <2>8, <2>9, <2>10, <2>11 DEF Good, p
<1>12. CASE ~(c.left > 0 /\ c.parser = "live") /\ ~(c.left = 0 /\ ~c.err)
  <2>1. p = [c EXCEPT !.err = TRUE]
    BY <1>8, <1>12
  <2> QED BY <2>1, <1>2, <1>9 DEF CookerState
<1> QED BY <1>10, <1>11, <1>12

\* The idle functions of builds tell the run queue to finish
LEMMA ToldGood ==
  ASSUME NEW c, Good(c), disk \in Versions, c.idle = {"build"}
  PROVE  LET p == Told(c)
         IN  /\ Good(p)
             /\ Whole(c) => Whole(p)
             /\ Kept(c) => Kept(p)
             /\ p.idle = c.idle /\ p.updating = c.updating /\ p.current = c.current
             /\ p.asked => c.asked /\ c.st \notin Stopping
<1> DEFINE p == Told(c)
<1>1. CASE c.st \in Stopping
  <2>1. p = [c EXCEPT !.rq = "finishing", !.asked = FALSE]
    BY <1>1 DEF Told
  <2>2. c \in CookerState /\ c.rq # "none"
    BY DEF Good, Shape
  <2> HIDE DEF p
  <2>3. p \in CookerState
    BY <2>1, <2>2 DEF CookerState
  <2>4. Shape(p)
    BY <2>1, <2>2, <2>3 DEF Good, Shape, CookerState
  <2>5. Fresh(p, disk)
    BY <2>1, <2>2 DEF Good, Fresh, CookerState
  <2>6. Seen(p)
    BY <2>1, <2>2 DEF Good, Seen, CookerState
  <2>7. Whole(c) => Whole(p)
    BY <2>1, <2>2 DEF Whole, CookerState
  <2>8. Kept(c) => Kept(p)
    BY <2>1, <2>2 DEF Kept, CookerState
  <2>9. p.idle = c.idle /\ p.updating = c.updating /\ p.current = c.current /\ ~p.asked
    BY <2>1, <2>2 DEF CookerState
  <2> QED BY <2>4, <2>5, <2>6, <2>7, <2>8, <2>9 DEF Good, p
<1>2. CASE c.st \notin Stopping
  <2>1. p = c
    BY <1>2 DEF Told
  <2> QED BY <1>2, <2>1
<1> QED BY <1>1, <1>2

\* The synchronous commands
LEMMA MethodGood ==
  ASSUME NEW c, Good(c), disk \in Versions, ~c.updating, NEW cmd,
         c.base => c.conf = c.due.conf
  PROVE  LET p == Method(c, cmd)
         IN  /\ Good(p)
             /\ Whole(c) /\ (cmd = "parseConfiguration" => c.idle = {}) => Whole(p)
             /\ Kept(c) /\ (cmd \in Preamble \cup {"parseConfiguration"} => c.idle = {}) => Kept(p)
             /\ p.idle = c.idle /\ p.updating = c.updating /\ p.current = c.current
             /\ p.asked => c.asked \/ p.st \in Stopping
<1> DEFINE p == Method(c, cmd)
           Goal(q) == /\ Good(q)
                      /\ Whole(c) /\ (cmd = "parseConfiguration" => c.idle = {}) => Whole(q)
                      /\ Kept(c) /\ (cmd \in Preamble \cup {"parseConfiguration"} => c.idle = {})
                           => Kept(q)
                      /\ q.idle = c.idle /\ q.updating = c.updating /\ q.current = c.current
                      /\ q.asked => c.asked \/ q.st \in Stopping
<1>1. c \in CookerState
  BY DEF Good, Shape
<1>2. Goal(c)
  OBVIOUS
<1>3. cmd \in Preamble => Goal(InitConfigurationData(c))
  <2> DEFINE q == InitConfigurationData(c)
  <2> SUFFICES ASSUME cmd \in Preamble PROVE Goal(q)
    OBVIOUS
  <2>1. Good(q) /\ (Whole(c) => Whole(q))
    BY InitConfigurationDataGood
  <2>2. /\ q.idle = c.idle /\ q.updating = c.updating /\ q.current = c.current /\ q.asked = c.asked
        /\ q.parser = c.parser /\ q.procs = c.procs /\ q.left = c.left /\ q.abandoned = c.abandoned
        /\ q.ev \subseteq c.ev
    BY <1>1 DEF InitConfigurationData, CookerState
  <2>3. Kept(c) /\ c.idle = {} => Kept(q)
    BY <2>2 DEF Kept
  <2> QED BY <2>1, <2>2, <2>3
<1>4. Kept(c) => ~(c.parser = "live" /\ c.procs /\ c.left > 0 /\ ~c.base)
  BY DEF Kept
<1>5. Goal(UpdateCacheSync(c)) /\ (Whole(c) => Whole(UpdateCacheSync(c)))
                               /\ (Kept(c) => Kept(UpdateCacheSync(c)))
  BY <1>4, UpdateCacheSyncGood
<1>6. cmd = "parseConfiguration" => Goal(ParseConfiguration(c))
  <2> SUFFICES ASSUME cmd = "parseConfiguration" PROVE Goal(ParseConfiguration(c))
    OBVIOUS
  <2>1. c.idle = {} => c.st \notin {"parsing", "running"}
    BY DEF Good, Shape, Seen, NoCommand, NeedCache
  <2> QED BY <1>4, <2>1, ParseConfigurationGood
<1>7. \A force \in BOOLEAN : Goal(Shutdown(UpdateCacheSync(c), force))
  <2> TAKE force \in BOOLEAN
  <2> DEFINE u == UpdateCacheSync(c)
             q == Shutdown(u, force)
  <2>1. /\ Good(u) /\ ~u.updating /\ u.idle = c.idle /\ u.current = c.current
        /\ Whole(c) => Whole(u)
        /\ Kept(c) => Kept(u)
    BY <1>5, UpdateCacheSyncGood
  <2>2. u.updating = c.updating
    BY UpdateCacheSyncGood
  <2> HIDE DEF u
  <2>3. /\ Good(q) /\ (Whole(u) => Whole(q)) /\ (Kept(u) => Kept(q))
        /\ q.st \in Stopping /\ q.idle = u.idle /\ q.updating = u.updating /\ q.current = u.current
    BY <2>1, ShutdownGood
  <2> HIDE DEF q
  <2>4. Goal(q)
    BY <2>1, <2>2, <2>3
  <2> QED BY <2>4 DEF q, u
<1>8. p \in {c, UpdateCacheSync(c), Shutdown(UpdateCacheSync(c), FALSE),
             Shutdown(UpdateCacheSync(c), TRUE)}
      \/ (cmd \in Preamble /\ p = InitConfigurationData(c))
      \/ (cmd = "parseConfiguration" /\ p = ParseConfiguration(c))
  BY DEF Method, Preamble
<1> HIDE DEF Goal, p
<1>9. Goal(p)
  BY <1>2, <1>3, <1>5, <1>6, <1>7, <1>8
<1> QED BY <1>9 DEF Goal, p
-----------------------------------------------------------------------------
\* The parts of the invariant the actions need most
LEMMA InvFacts ==
  ASSUME CookerInv
  PROVE  /\ Good(ck) /\ disk \in Versions /\ ck \in CookerState /\ client \in ClientState
         /\ ck.idle \in {{}, {"run"}, {"build"}}
         /\ ck.current = NoCommand <=> ck.idle = {}
         /\ todo \subseteq ck.idle
         /\ ck.updating => "run" \in todo
         /\ "parseConfiguration" \notin SyncCommands \/ PatientClients => Whole(ck)
         /\ PatientClients /\ MaxConfChanges = 0 => Kept(ck)
BY DEF CookerInv, Good, Shape

\* What becomes of the cooker at the end of a step is as good as before, whatever
\* changed while nobody watched
LEMMA BecomesGood ==
  ASSUME CookerInv, NEW c, Good(c), Becomes(c)
  PROVE  /\ Shape(ck') /\ Fresh(ck', disk') /\ Seen(ck')
         /\ Whole(c) => Whole(ck')
         /\ Kept(c) => Kept(ck')
         /\ disk' \in Versions /\ disk'.conf >= 1
         /\ ck'.read = {} /\ ck'.idle = c.idle /\ ck'.updating = c.updating
         /\ ck'.asked = c.asked /\ ck'.st = c.st
<1>1. c \in CookerState /\ disk \in Versions /\ disk.conf >= 1
  BY DEF Good, Shape, CookerInv
<1>2. ck' = [c EXCEPT !.read = {}]
  BY DEF Becomes
<1>3. /\ ck' \in CookerState /\ ck'.read = {} /\ ck'.due = c.due
      /\ ck'.st = c.st /\ ck'.data = c.data /\ ck'.base = c.base /\ ck'.cache = c.cache
      /\ ck'.conf = c.conf /\ ck'.rec = c.rec /\ ck'.have = c.have /\ ck'.ev = c.ev
      /\ ck'.parser = c.parser /\ ck'.procs = c.procs /\ ck'.left = c.left
      /\ ck'.updating = c.updating /\ ck'.current = c.current /\ ck'.idle = c.idle
      /\ ck'.rq = c.rq /\ ck'.asked = c.asked /\ ck'.abandoned = c.abandoned
  BY <1>1, <1>2 DEF CookerState
<1>4. disk' \in Versions /\ disk'.conf >= disk.conf /\ disk'.rec >= disk.rec
  <2>1. /\ disk' \in [conf : Later("conf", c.read, MaxConfChanges),
                      rec : Later("rec", c.read, MaxRecipeChanges)]
        /\ disk.conf \in Nat /\ disk.rec \in Nat
    BY <1>1 DEF Becomes, Versions
  <2>2. MaxConfChanges + 1 \in Nat /\ MaxRecipeChanges + 1 \in Nat
    BY CookerAssumption
  <2>3. \A x \in Later("conf", c.read, MaxConfChanges) : x \in Nat /\ x >= disk.conf
    BY <2>1, <2>2 DEF Later
  <2>4. \A x \in Later("rec", c.read, MaxRecipeChanges) : x \in Nat /\ x >= disk.rec
    BY <2>1, <2>2 DEF Later
  <2> QED BY <2>1, <2>3, <2>4 DEF Versions
<1>5. Shape(ck') /\ Seen(ck')
  BY <1>3 DEF Good, Shape, Seen
<1>6. Fresh(ck', disk')
  <2>1. /\ c.due.conf \in Nat /\ c.due.rec \in Nat /\ disk.conf \in Nat /\ disk.rec \in Nat
        /\ disk'.conf \in Nat /\ disk'.rec \in Nat
        /\ c.due.conf <= disk.conf /\ c.due.rec <= disk.rec
    BY <1>1, <1>4 DEF Good, Fresh, CookerState, Versions
  <2>2. c.due.conf <= disk'.conf /\ c.due.rec <= disk'.rec
    BY <1>4, <2>1
  <2> QED BY <1>3, <2>2 DEF Good, Fresh
<1>7. (Whole(c) => Whole(ck')) /\ (Kept(c) => Kept(ck'))
  BY <1>3 DEF Whole, Kept
<1>8. disk'.conf >= 1
  BY <1>1, <1>4 DEF Versions
<1> QED BY <1>3, <1>4, <1>5, <1>6, <1>7, <1>8

\* The command in progress stays the one it is
LEMMA BecomesCurrent ==
  ASSUME NEW c, Good(c), Becomes(c)
  PROVE  ck'.current = c.current
BY DEF Becomes, Good, Shape, CookerState

\* A pass begins with the cooker in the state c
LEMMA PassStep ==
  ASSUME CookerInv, NEW c, Good(c), ~c.updating, Pass(c), signals' = signals,
         client' \in ClientState, client'.waiting => client'.on,
         MaxSignals = 0 /\ c.asked => c.st \in Stopping,
         "parseConfiguration" \notin SyncCommands \/ PatientClients => Whole(c),
         PatientClients => Waits',
         PatientClients /\ MaxConfChanges = 0 => Kept(c)
  PROVE  CookerInv'
<1>1. Becomes(c) /\ todo' = c.idle
  BY DEF Pass
<1>2. /\ Shape(ck') /\ Fresh(ck', disk') /\ Seen(ck') /\ ck'.read = {}
      /\ ck'.idle = c.idle /\ ck'.updating = c.updating /\ ck'.asked = c.asked /\ ck'.st = c.st
      /\ Whole(c) => Whole(ck')
      /\ Kept(c) => Kept(ck')
      /\ disk' \in Versions /\ disk'.conf >= 1
  BY <1>1, BecomesGood
<1>3. MaxSignals = 0 => Heeded'
  <2>1. c.asked => c.idle # {}
    BY DEF Good, Shape
  <2> QED BY <1>1, <1>2, <2>1 DEF Heeded
<1>4. "parseConfiguration" \notin SyncCommands \/ PatientClients => Whole(ck')
  BY <1>2
<1>5. PatientClients /\ MaxConfChanges = 0 => Kept(ck')
  BY <1>2
<1>6. signals' \in Nat
  BY DEF CookerInv
<1>7. todo' \subseteq ck'.idle /\ ~ck'.updating
  BY <1>1, <1>2
<1> QED BY <1>2, <1>3, <1>4, <1>5, <1>6, <1>7 DEF CookerInv

\* The only idle function has returned and left the state p
LEMMA CalledStep ==
  ASSUME CookerInv, NEW f \in todo, NEW p, Good(p), ~p.updating, Becomes(p), todo' = todo \ {f},
         signals' = signals, client' \in ClientState, client'.waiting => client'.on,
         MaxSignals = 0 => ~p.asked,
         "parseConfiguration" \notin SyncCommands \/ PatientClients => Whole(p),
         PatientClients => Waits',
         PatientClients /\ MaxConfChanges = 0 => Kept(p)
  PROVE  CookerInv'
<1>1. todo' = {}
  <2>1. todo \subseteq ck.idle /\ ck.idle \in {{}, {"run"}, {"build"}}
    BY InvFacts
  <2> QED BY <2>1
<1>2. /\ Shape(ck') /\ Fresh(ck', disk') /\ Seen(ck') /\ ck'.read = {}
      /\ ck'.updating = p.updating /\ ck'.asked = p.asked
      /\ Whole(p) => Whole(ck')
      /\ Kept(p) => Kept(ck')
      /\ disk' \in Versions /\ disk'.conf >= 1
  BY BecomesGood
<1>3. MaxSignals = 0 => Heeded'
  BY <1>2 DEF Heeded
<1>4. signals' \in Nat
  BY DEF CookerInv
<1> QED BY <1>1, <1>2, <1>3, <1>4 DEF CookerInv

\* The client gets to know that the command has ended
LEMMA CompletionStep ==
  ASSUME CookerInv, Completion, ck.current # NoCommand, ck'.current = NoCommand
  PROVE  /\ client' \in ClientState /\ (client'.waiting => client'.on)
         /\ PatientClients => Waits'
<1>1. ck.current.by \in Nat /\ client \in ClientState
  BY InvFacts DEF CookerState, Command
<1>2. client.events \in Seq(Nat)
  BY <1>1 DEF ClientState
<1>3. CASE client.on
  <2> DEFINE e == Append(client.events, ck.current.by)
  <2>1. client' = [client EXCEPT !.events = e]
    BY <1>3 DEF Completion
  <2>2. e \in Seq(Nat) /\ Len(e) = Len(client.events) + 1
    BY <1>1, <1>2
  <2> HIDE DEF e
  <2>3. client' \in ClientState /\ (client'.waiting => client'.on)
    BY <1>1, <1>3, <2>1, <2>2 DEF ClientState
  <2>4. PatientClients => Waits'
    <3> SUFFICES ASSUME PatientClients PROVE Waits'
      OBVIOUS
    <3>1. client.waiting /\ client.events = <<>>
      BY DEF CookerInv, Waits
    <3>2. client'.waiting /\ Len(client'.events) = 1
      BY <1>1, <2>1, <2>2, <3>1 DEF ClientState
    <3> QED BY <3>2 DEF Waits
  <2> QED BY <2>3, <2>4
<1>4. CASE ~client.on
  <2>1. client' = client
    BY <1>4 DEF Completion
  <2>2. PatientClients => Waits'
    BY <1>4 DEF CookerInv, Waits
  <2> QED BY <1>1, <2>1, <2>2 DEF CookerInv
<1> QED BY <1>3, <1>4

\* Between two passes nobody is in updateCache and no shutdown is untold
LEMMA CommandPhase ==
  ASSUME CookerInv, InCommandPhase
  PROVE  ~ck.updating /\ (MaxSignals = 0 => ~ck.asked)
BY DEF CookerInv, InCommandPhase, Heeded

\* A new client: with patient ones there is no command in progress
LEMMA ConnectStep ==
  ASSUME CookerInv, ConnectClient
  PROVE  CookerInv'
<1>1. ~ck.updating /\ (MaxSignals = 0 => ~ck.asked)
  BY CommandPhase DEF ConnectClient
<1>2. client' = NewClient(client.id + 1) /\ client.id \in Nat
  BY InvFacts DEF ConnectClient, ClientState
<1>3. client' \in ClientState /\ ~client'.waiting /\ client'.events = <<>>
  BY <1>2 DEF NewClient, ClientState
<1>4. PatientClients => ck.current = NoCommand
  BY DEF CookerInv, Waits, ConnectClient
<1>5. PatientClients => Waits'
  <2>1. ck'.current = ck.current
    BY InvFacts, BecomesCurrent DEF ConnectClient, Pass
  <2> QED BY <1>3, <1>4, <2>1 DEF Waits
<1> QED BY <1>1, <1>3, <1>5, InvFacts, PassStep DEF ConnectClient

\* A synchronous command, which with patient clients does not reset the cooker under another command
LEMMA RunSyncStep ==
  ASSUME CookerInv, NEW cmd \in SyncCommands, RunSync(cmd)
  PROVE  CookerInv'
<1> DEFINE r == IF cmd \in Preamble THEN ck ELSE InitConfigdata(ck)
           q == ProcessInotifyUpdates(r)
           p == Method(q, cmd)
<1>1. ~ck.updating /\ (MaxSignals = 0 => ~ck.asked)
  BY CommandPhase DEF RunSync
<1>2. /\ Good(r) /\ r.idle = ck.idle /\ ~r.updating /\ (r.asked => ck.asked) /\ r.current = ck.current
      /\ Whole(ck) => Whole(r)
      /\ Kept(ck) => Kept(r)
  BY <1>1, InvFacts, InitConfigdataGood
<1>3. Pass(p) /\ signals' = signals
  BY DEF RunSync
<1> HIDE DEF r
<1>4. /\ Good(q) /\ (Whole(r) => Whole(q)) /\ (Kept(r) => Kept(q)) /\ (q.base => q.conf = q.due.conf)
  BY <1>2, InvFacts, ProcessInotifyUpdatesGood
<1>5. q.idle = r.idle /\ q.updating = r.updating /\ q.asked = r.asked /\ q.current = r.current
  BY <1>2 DEF Good, Shape, ProcessInotifyUpdates, CookerState
<1> HIDE DEF q
<1>6. /\ Good(p)
      /\ Whole(q) /\ (cmd = "parseConfiguration" => q.idle = {}) => Whole(p)
      /\ Kept(q) /\ (cmd \in Preamble \cup {"parseConfiguration"} => q.idle = {}) => Kept(p)
      /\ p.idle = q.idle /\ p.updating = q.updating /\ p.current = q.current
      /\ p.asked => q.asked \/ p.st \in Stopping
  BY <1>2, <1>4, <1>5, InvFacts, MethodGood
<1>7. PatientClients /\ cmd \in Preamble \cup {"parseConfiguration"} => ck.idle = {}
  <2> SUFFICES ASSUME PatientClients, cmd \in Preamble \cup {"parseConfiguration"}
               PROVE  ck.idle = {}
    OBVIOUS
  <2>1. client.sent = 0
    BY DEF RunSync
  <2>2. ck.current = NoCommand
    BY <2>1 DEF CookerInv, Waits
  <2> QED BY <2>2, InvFacts
<1> HIDE DEF p
<1>8. /\ client' \in ClientState /\ (client'.waiting => client'.on)
      /\ client'.on = client.on /\ client'.waiting = client.waiting /\ client'.sent = client.sent
      /\ client'.events = client.events
  <2> DEFINE e == client.said \cup (Preamble \cap {cmd})
  <2>1. client' = [client EXCEPT !.said = e] /\ client \in ClientState
    BY InvFacts DEF RunSync
  <2>2. e \in SUBSET {"setFeatures", "updateConfig"}
    BY <2>1 DEF ClientState, Preamble
  <2>3. client.waiting => client.on
    BY DEF CookerInv
  <2> HIDE DEF e
  <2> QED BY <2>1, <2>2, <2>3 DEF ClientState
<1>9. "parseConfiguration" \notin SyncCommands \/ PatientClients => Whole(p)
  BY <1>2, <1>4, <1>5, <1>6, <1>7, InvFacts
<1>10. PatientClients /\ MaxConfChanges = 0 => Kept(p)
  BY <1>2, <1>4, <1>5, <1>6, <1>7, InvFacts
<1>11. PatientClients => Waits'
  <2>1. ck'.current = ck.current
    BY <1>2, <1>3, <1>5, <1>6, BecomesCurrent DEF Pass
  <2> QED BY <1>8, <2>1 DEF CookerInv, Waits
<1> QED BY <1>1, <1>2, <1>3, <1>5, <1>6, <1>8, <1>9, <1>10, <1>11, PassStep

\* A command is taken, with what is due then, or the client is told "Busy"
LEMMA RunAsyncStep ==
  ASSUME CookerInv, NEW cmd \in AsyncCommands, RunAsync(cmd)
  PROVE  CookerInv'
<1> DEFINE r == InitConfigdata(ck)
           n == [cmd |-> cmd, by |-> client.id, since |-> r.due]
           p == [r EXCEPT !.current = n, !.idle = @ \cup {"run"}]
<1>1. ~ck.updating /\ (MaxSignals = 0 => ~ck.asked)
  BY CommandPhase DEF RunAsync
<1>2. /\ Good(r) /\ r.data /\ r.idle = ck.idle /\ ~r.updating /\ (r.asked => ck.asked)
      /\ r.current = ck.current
      /\ Whole(ck) => Whole(r)
      /\ Kept(ck) => Kept(r)
  BY <1>1, InvFacts, InitConfigdataGood
<1>3. /\ signals' = signals /\ client.on /\ ~client.waiting
      /\ client.sent < MaxCommands
      /\ \/ /\ r.current # NoCommand
            /\ Pass(r) /\ client' = [client EXCEPT !.sent = MaxCommands]
         \/ /\ r.current = NoCommand
            /\ Pass(p)
            /\ client' = [client EXCEPT !.sent = @ + 1, !.waiting = cmd # "triggerEvent"]
  BY DEF RunAsync
<1>4. client \in ClientState /\ client.id \in Nat /\ client.sent \in Nat /\ r \in CookerState
  BY <1>2, InvFacts DEF ClientState, Good, Shape
<1>5. n \in Command /\ n.cmd = cmd /\ n.since = r.due /\ n # NoCommand
  <2>1. n \in Command /\ n.cmd = cmd /\ n.since = r.due
    BY <1>4, InvFacts DEF Command, CookerState
  <2>2. NoCommand.cmd = "none"
    BY DEF NoCommand
  <2> QED BY <2>1, <2>2, CookerAssumption
<1> HIDE DEF r, n
<1>6. CASE r.current # NoCommand
  <2>1. Pass(r) /\ client' = [client EXCEPT !.sent = MaxCommands]
    BY <1>3, <1>6
  <2>2. client' \in ClientState /\ ~client'.waiting
    BY <1>3, <1>4, <2>1, CookerAssumption DEF ClientState
  <2>3. ~PatientClients
    BY <1>2, <1>3, <1>6 DEF CookerInv, Waits
  <2> QED BY <1>1, <1>2, <1>3, <2>1, <2>2, <2>3, InvFacts, PassStep
<1>7. CASE r.current = NoCommand
  <2> DEFINE w == cmd # "triggerEvent"
  <2>1. Pass(p) /\ client' = [client EXCEPT !.sent = client.sent + 1, !.waiting = w]
    BY <1>3, <1>4, <1>7
  <2>2. /\ client' \in ClientState /\ client'.on = client.on /\ client'.events = client.events
        /\ client'.sent = client.sent + 1 /\ client'.waiting = w
    <3> DEFINE k == client.sent + 1
    <3>1. w \in BOOLEAN
      OBVIOUS
    <3>2. k \in Nat
      BY <1>4
    <3> HIDE DEF w, k
    <3>3. client' = [client EXCEPT !.sent = k, !.waiting = w]
      BY <2>1 DEF k
    <3>4. /\ client' \in ClientState /\ client'.on = client.on /\ client'.events = client.events
          /\ client'.sent = k /\ client'.waiting = w
      BY <1>4, <3>1, <3>2, <3>3 DEF ClientState
    <3> QED BY <3>4 DEF k
  <2>3. r.idle = {} /\ r.rq = "none" /\ ~r.asked /\ r.st \notin {"parsing", "running"}
    BY <1>2, <1>7 DEF Good, Shape, Seen, NoCommand, NeedCache
  <2>4. p = [r EXCEPT !.current = n, !.idle = {"run"}]
    BY <1>4, <2>3 DEF CookerState
  <2> HIDE DEF p, w
  <2>5. p \in CookerState
    BY <1>4, <1>5, <2>4 DEF CookerState
  <2>6. Shape(p)
    BY <1>2, <1>4, <1>5, <2>3, <2>4, <2>5 DEF Good, Shape, CookerState
  <2>7. Fresh(p, disk)
    BY <1>2, <1>4, <1>5, <2>4, InvFacts DEF Good, Fresh, CookerState, Versions
  <2>8. Seen(p)
    BY <1>2, <1>4, <2>3, <2>4 DEF Seen, CookerState
  <2>9. Whole(r) => Whole(p)
    BY <1>4, <2>4 DEF Whole, CookerState
  <2>10. Kept(r) => Kept(p)
    BY <1>4, <2>3, <2>4 DEF Kept, CookerState
  <2>11. ~p.updating /\ ~p.asked
    BY <1>2, <1>4, <2>3, <2>4 DEF CookerState
  <2>12. PatientClients => Waits'
    <3> SUFFICES ASSUME PatientClients PROVE Waits'
      OBVIOUS
    <3>1. client.events = <<>>
      BY <1>3 DEF CookerInv, Waits
    <3>2. client'.waiting
      BY <2>2 DEF PatientClients, w
    <3>3. client'.sent > 0
      BY <1>4, <2>2
    <3> QED BY <1>3, <2>2, <3>1, <3>2, <3>3 DEF Waits
  <2> QED BY <1>2, <1>3, <2>1, <2>2, <2>6, <2>7, <2>8, <2>9, <2>10, <2>11, <2>12, InvFacts, PassStep
          DEF Good
<1> QED BY <1>6, <1>7

\* The client goes and the cooker is reset
LEMMA DisconnectStep ==
  ASSUME CookerInv, Disconnect
  PROVE  CookerInv'
<1> DEFINE p == ClientComplete(ck)
<1>1. ~ck.updating /\ (MaxSignals = 0 => ~ck.asked)
  BY CommandPhase DEF Disconnect
<1>2. /\ Pass(p) /\ signals' = signals
      /\ client' = [client EXCEPT !.on = FALSE, !.said = {}, !.waiting = FALSE, !.events = <<>>]
  BY DEF Disconnect
<1>3. /\ Good(p) /\ Whole(p) /\ (Kept(ck) /\ ck.idle # {"run"} => Kept(p))
      /\ p.updating = ck.updating /\ p.current = ck.current /\ p.asked = ck.asked
  BY <1>1, InvFacts, ClientCompleteGood
<1> HIDE DEF p
<1>4. client' \in ClientState /\ ~client'.waiting /\ client'.events = <<>>
  BY <1>2, InvFacts, EmptySeq DEF ClientState
<1>5. PatientClients => ck.current = NoCommand /\ ck.idle = {}
  <2> SUFFICES ASSUME PatientClients PROVE ck.current = NoCommand
    BY InvFacts
  <2>1. ~client.waiting
    BY DEF PatientClients, Disconnect
  <2> QED BY <2>1 DEF CookerInv, Waits
<1>6. PatientClients => Waits'
  <2>1. ck'.current = p.current
    BY <1>2, <1>3, BecomesCurrent DEF Pass
  <2> QED BY <1>3, <1>4, <1>5, <2>1 DEF Waits
<1> QED BY <1>1, <1>2, <1>3, <1>4, <1>5, <1>6, InvFacts, PassStep

\* The client reads the completion
LEMMA ReadEventStep ==
  ASSUME CookerInv, ReadEvent
  PROVE  CookerInv'
<1>1. /\ ck' = ck /\ todo' = todo /\ disk' = disk /\ signals' = signals
      /\ client.waiting /\ client.events # <<>>
      /\ client' = [client EXCEPT !.waiting = FALSE, !.events = Tail(client.events)]
  BY InvFacts DEF ReadEvent, ClientState
<1>2. client \in ClientState /\ client.events \in Seq(Nat)
  BY InvFacts DEF ClientState
<1>3. Tail(client.events) \in Seq(Nat) /\ Len(Tail(client.events)) = Len(client.events) - 1
  BY <1>1, <1>2
<1>4. client' \in ClientState /\ ~client'.waiting /\ client'.events = Tail(client.events)
  BY <1>1, <1>2, <1>3 DEF ClientState
<1>5. PatientClients => Waits'
  <2> SUFFICES ASSUME PatientClients PROVE Waits'
    OBVIOUS
  <2>1. ck.current = NoCommand /\ Len(client.events) <= 1
    BY <1>1 DEF CookerInv, Waits
  <2>2. client'.events = <<>>
    BY <1>1, <1>2, <1>3, <1>4, <2>1, EmptySeq
  <2> QED BY <1>1, <1>4, <2>1, <2>2, EmptySeq DEF Waits
<1> QED BY <1>1, <1>4, <1>5 DEF CookerInv, Heeded

\* A pass without a command
LEMMA NoCommandArrivesStep ==
  ASSUME CookerInv, NoCommandArrives
  PROVE  CookerInv'
<1>1. ~ck.updating /\ (MaxSignals = 0 => ~ck.asked)
  BY CommandPhase DEF NoCommandArrives
<1>2. Pass(ck) /\ signals' = signals /\ client' = client
  BY DEF NoCommandArrives
<1>3. (PatientClients => Waits') /\ (client'.waiting => client'.on)
  <2>1. ck'.current = ck.current
    BY <1>2, InvFacts, BecomesCurrent DEF Pass
  <2> QED BY <1>2, <2>1 DEF CookerInv, Waits
<1> QED BY <1>1, <1>2, <1>3, InvFacts, PassStep

\* A command that has not run yet fails when the server is to stop
LEMMA CommandHaltedStep ==
  ASSUME CookerInv, CommandHalted
  PROVE  CookerInv'
<1> DEFINE q == ProcessInotifyUpdates(ck)
           u == ParserShutdown(q)
           p == [FinishAsyncCommand(u) EXCEPT !.idle = @ \ {"run"}]
<1>1. /\ "run" \in todo /\ ~ck.updating
      /\ Becomes(p) /\ todo' = todo \ {"run"} /\ signals' = signals /\ Completion
  BY DEF CommandHalted, Called
<1>2. ck.idle = {"run"} /\ ck.current # NoCommand /\ ck.rq = "none"
  BY <1>1, InvFacts DEF Good, Shape
<1>3. Good(q) /\ (Whole(ck) => Whole(q)) /\ (Kept(ck) => Kept(q))
  BY InvFacts, ProcessInotifyUpdatesGood
<1>4. q.updating = ck.updating /\ q.idle = ck.idle /\ q.rq = ck.rq
  BY InvFacts DEF ProcessInotifyUpdates, CookerState
<1> HIDE DEF q
<1>5. Good(u) /\ (Whole(q) => Whole(u)) /\ (Kept(q) => Kept(u) /\ ~(u.parser = "live" /\ u.procs))
  BY <1>3, InvFacts, ParserShutdownGood
<1>6. u.updating = q.updating /\ u.idle = q.idle /\ u.rq = q.rq
  BY <1>3 DEF Good, Shape, ParserShutdown, CookerState
<1> HIDE DEF u
<1>7. /\ Good(p) /\ (Whole(u) => Whole(p))
      /\ Kept(u) /\ ~(u.parser = "live" /\ u.procs /\ u.left > 0) => Kept(p)
      /\ p.current = NoCommand /\ ~p.asked /\ ~p.updating
  BY <1>1, <1>2, <1>4, <1>5, <1>6, InvFacts, FinishedGood
<1> HIDE DEF p
<1>8. /\ client' \in ClientState /\ (client'.waiting => client'.on)
      /\ PatientClients => Waits'
  BY <1>1, <1>2, <1>7, BecomesCurrent, CompletionStep
<1>9. /\ "parseConfiguration" \notin SyncCommands \/ PatientClients => Whole(p)
      /\ PatientClients /\ MaxConfChanges = 0 => Kept(p)
  BY <1>3, <1>5, <1>7, InvFacts
<1> QED BY <1>1, <1>7, <1>8, <1>9, CalledStep

\* The cache is checked for a command that needs it
LEMMA CommandUpdatesCacheStep ==
  ASSUME CookerInv, CommandUpdatesCache
  PROVE  CookerInv'
<1>1. PICK procs \in BOOLEAN, rec \in RecipesRead :
        Becomes(UpdateCache(ProcessInotifyUpdates(ck), procs, rec))
  BY DEF CommandUpdatesCache
<1>2. /\ "run" \in todo /\ ~ck.updating /\ ck.st \notin Stopping \cup {"running"}
      /\ ck.current.cmd \in NeedCache
      /\ todo' = todo /\ client' = client /\ signals' = signals
  BY DEF CommandUpdatesCache
<1> DEFINE q == ProcessInotifyUpdates(ck)
           p == UpdateCache(q, procs, rec)
<1>3. /\ Good(q) /\ (Whole(ck) => Whole(q)) /\ (Kept(ck) => Kept(q))
      /\ q.base => q.conf = q.due.conf
      /\ q.cache => q.rec = q.due.rec
  BY InvFacts, ProcessInotifyUpdatesGood
<1>4. /\ q.updating = ck.updating /\ q.idle = ck.idle /\ q.st = ck.st /\ q.current = ck.current
      /\ q.asked = ck.asked /\ rec \in {disk.rec} \cup ({q.rec} \cap {q.due.rec})
  BY InvFacts DEF ProcessInotifyUpdates, CookerState, RecipesRead
<1>5. ck.idle = {"run"} /\ ck.st \in {"initial", "parsing"}
  BY <1>2, InvFacts DEF CookerState
<1> HIDE DEF q
<1>6. /\ Good(p)
      /\ Whole(q) => Whole(p)
      /\ Kept(q) => Kept(p)
      /\ p.idle = q.idle /\ p.updating /\ p.current = q.current /\ p.asked = q.asked
  BY <1>2, <1>3, <1>4, <1>5, InvFacts, UpdateCacheGood
<1>7. Becomes(p)
  BY <1>1 DEF q
<1> HIDE DEF p
<1>8. /\ Shape(ck') /\ Fresh(ck', disk') /\ Seen(ck') /\ ck'.read = {}
      /\ ck'.idle = p.idle /\ ck'.updating = p.updating /\ ck'.asked = p.asked
      /\ ck'.current = p.current
      /\ disk' \in Versions /\ disk'.conf >= 1
      /\ "parseConfiguration" \notin SyncCommands \/ PatientClients => Whole(ck')
      /\ PatientClients /\ MaxConfChanges = 0 => Kept(ck')
  BY <1>3, <1>6, <1>7, InvFacts, BecomesGood, BecomesCurrent
<1>9. MaxSignals = 0 => Heeded'
  BY <1>2, <1>4, <1>6, <1>8 DEF CookerInv, Heeded
<1>10. PatientClients => Waits'
  BY <1>2, <1>4, <1>6, <1>8 DEF CookerInv, Waits
<1>11. todo' \subseteq ck'.idle /\ "run" \in todo'
  BY <1>2, <1>4, <1>6, <1>8, InvFacts
<1> QED BY <1>2, <1>8, <1>9, <1>10, <1>11 DEF CookerInv

\* The parser goes on, or fails and the command with it
LEMMA CommandParsesStep ==
  ASSUME CookerInv, CommandParses
  PROVE  CookerInv'
<1>1. /\ ck.updating /\ "run" \in todo /\ ck.idle = {"run"} /\ ck.current # NoCommand
      /\ signals' = signals
      /\ MaxSignals = 0 => ~ck.asked
  <2>1. ck.updating /\ signals' = signals
    BY DEF CommandParses
  <2>2. "run" \in todo /\ ck.idle = {"run"} /\ ck.current # NoCommand
    BY <2>1, InvFacts
  <2>3. MaxSignals = 0 => ~ck.asked
    BY <2>1 DEF CookerInv, Heeded
  <2> QED BY <2>1, <2>2, <2>3
<1>2. CASE Called("run", ParseNext, TRUE) /\ ~ParseNext.err /\ UNCHANGED client
  <2>1. Becomes(ParseNext) /\ todo' = todo \ {"run"} /\ client' = client
    BY <1>2 DEF Called
  <2>2. /\ Good(ParseNext)
        /\ Whole(ck) => Whole(ParseNext)
        /\ Kept(ck) => Kept(ParseNext)
        /\ ~ParseNext.updating
        /\ ParseNext.current = ck.current /\ ParseNext.asked = ck.asked
    BY <1>1, <1>2, InvFacts, ParseNextGood
  <2>3. PatientClients => Waits'
    <3>1. ck'.current = ck.current
      BY <2>1, <2>2, BecomesCurrent
    <3> QED BY <2>1, <3>1 DEF CookerInv, Waits
  <2>4. client' \in ClientState /\ (client'.waiting => client'.on)
    BY <2>1 DEF CookerInv
  <2>5. /\ "parseConfiguration" \notin SyncCommands \/ PatientClients => Whole(ParseNext)
        /\ PatientClients /\ MaxConfChanges = 0 => Kept(ParseNext)
    BY <2>2, InvFacts
  <2> QED BY <1>1, <2>1, <2>2, <2>3, <2>4, <2>5, CalledStep
<1>3. CASE /\ Called("run", FinishAsyncCommand(ParserShutdown([ck EXCEPT !.updating = FALSE, !.err = TRUE])), FALSE)
           /\ Completion
  <2> DEFINE q == [ck EXCEPT !.updating = FALSE, !.err = TRUE]
             u == ParserShutdown(q)
             p == [FinishAsyncCommand(u) EXCEPT !.idle = @ \ {"run"}]
  <2>1. Becomes(p) /\ todo' = todo \ {"run"} /\ Completion
    BY <1>3 DEF Called
  <2>2. /\ q \in CookerState /\ ~q.updating
        /\ q.st = ck.st /\ q.data = ck.data /\ q.base = ck.base /\ q.cache = ck.cache
        /\ q.conf = ck.conf /\ q.rec = ck.rec /\ q.have = ck.have /\ q.ev = ck.ev
        /\ q.parser = ck.parser /\ q.procs = ck.procs /\ q.left = ck.left
        /\ q.current = ck.current /\ q.idle = ck.idle /\ q.rq = ck.rq
        /\ q.asked = ck.asked /\ q.abandoned = ck.abandoned /\ q.due = ck.due
    BY InvFacts DEF CookerState
  <2>3. Good(q)
    <3>1. Shape(q)
      BY <2>2, InvFacts DEF Good, Shape
    <3> QED BY <2>2, <3>1, InvFacts DEF Good, Fresh, Seen
  <2>4. Whole(ck) => Whole(q)
    BY <2>2 DEF Whole
  <2> HIDE DEF q
  <2>5. Good(u) /\ (Whole(q) => Whole(u))
    BY <2>3, InvFacts, ParserShutdownGood
  <2>6. /\ u.updating = q.updating /\ u.idle = q.idle /\ u.abandoned = q.abandoned /\ u.ev = q.ev
        /\ ~(u.parser = "live" /\ u.procs)
    BY <2>2 DEF ParserShutdown, CookerState
  <2> HIDE DEF u
  <2>7. Kept(ck) => Kept(u)
    BY <2>2, <2>6 DEF Kept
  <2>8. /\ Good(p) /\ (Whole(u) => Whole(p))
        /\ Kept(u) /\ ~(u.parser = "live" /\ u.procs /\ u.left > 0) => Kept(p)
        /\ p.current = NoCommand /\ ~p.asked /\ ~p.updating
    BY <1>1, <2>2, <2>5, <2>6, InvFacts, FinishedGood
  <2> HIDE DEF p
  <2>9. /\ client' \in ClientState /\ (client'.waiting => client'.on)
        /\ PatientClients => Waits'
    BY <1>1, <2>1, <2>8, BecomesCurrent, CompletionStep
  <2>10. /\ "parseConfiguration" \notin SyncCommands \/ PatientClients => Whole(p)
         /\ PatientClients /\ MaxConfChanges = 0 => Kept(p)
    BY <2>4, <2>5, <2>6, <2>7, <2>8, InvFacts
  <2> QED BY <1>1, <2>1, <2>8, <2>9, <2>10, CalledStep
<1> QED BY <1>2, <1>3 DEF CommandParses

\* The command runs with what was checked: as a build of its own or at once
LEMMA CommandRunsStep ==
  ASSUME CookerInv, CommandRuns
  PROVE  CookerInv'
<1> DEFINE c == ProcessInotifyUpdates(ck)
           prepared == IF c.current.cmd = "buildFile" THEN ParseConfiguration(c) ELSE c
<1>1. /\ "run" \in todo /\ ~ck.updating /\ ck.st \notin Stopping
      /\ ck.current.cmd \in NeedCache => ck.st = "running"
      /\ signals' = signals
  BY DEF CommandRuns
<1>2. ck.idle = {"run"} /\ ck.current # NoCommand /\ ck.rq = "none"
  BY <1>1, InvFacts DEF Good, Shape
<1>3. MaxSignals = 0 => ~ck.asked
  BY <1>1 DEF CookerInv, Heeded
<1>4. /\ Good(c) /\ (Whole(ck) => Whole(c)) /\ (Kept(ck) => Kept(c))
      /\ c.base => c.conf = c.due.conf
  BY InvFacts, ProcessInotifyUpdatesGood
<1>5. /\ c.updating = ck.updating /\ c.idle = ck.idle /\ c.st = ck.st /\ c.current = ck.current
      /\ c.asked = ck.asked /\ c.rq = ck.rq
  BY InvFacts DEF ProcessInotifyUpdates, CookerState
<1>6. /\ \/ /\ c.current.cmd \in Builds
            /\ Called("run", [prepared EXCEPT !.idle = @ \cup {"build"}, !.rq = "running"], FALSE)
            /\ client' = client
         \/ /\ c.current.cmd # "triggerEvent"
            /\ Called("run", FinishAsyncCommand(IF c.current.cmd = "resetCooker"
                                                THEN InitConfigurationData(c) ELSE prepared), FALSE)
            /\ Completion
         \/ /\ c.current.cmd = "triggerEvent"
            /\ Called("run", [c EXCEPT !.current = NoCommand, !.asked = FALSE], FALSE)
            /\ client' = client
  BY DEF CommandRuns
<1>7. /\ c.st \in {"initial", "running"}
      /\ c.current.cmd \notin NeedCache => c.st = "initial"
  BY <1>1, <1>5, InvFacts DEF Good, Seen, CookerState
<1>8. Kept(c) => ~(c.parser = "live" /\ c.procs /\ c.left > 0)
  BY <1>1, <1>5, <1>7 DEF Kept, Stopping
<1>9. c \in CookerState /\ c.current.cmd \in AsyncCommands
  BY <1>2, <1>4, <1>5 DEF Good, Shape
<1> HIDE DEF c
<1>10. /\ Good(prepared) /\ (Whole(c) => Whole(prepared)) /\ (Kept(c) => Kept(prepared))
       /\ prepared.parser = c.parser /\ prepared.procs = c.procs /\ prepared.left = c.left
       /\ prepared.updating = c.updating /\ prepared.idle = c.idle
       /\ prepared.current = c.current /\ prepared.rq = c.rq /\ prepared.asked = c.asked
       /\ c.current.cmd = "buildFile" => prepared.conf = prepared.due.conf
       /\ c.current.cmd # "buildFile" => prepared = c
  <2>1. CASE c.current.cmd = "buildFile"
    <3>1. c.st = "initial"
      BY <1>7, <2>1 DEF NeedCache
    <3> QED BY <1>1, <1>4, <1>5, <1>8, <2>1, <3>1, InvFacts, ParseConfigurationGood
  <2>2. CASE c.current.cmd # "buildFile"
    BY <1>4, <2>2
  <2> QED BY <2>1, <2>2
<1> HIDE DEF prepared
<1>11. CASE /\ c.current.cmd \in Builds
            /\ Called("run", [prepared EXCEPT !.idle = @ \cup {"build"}, !.rq = "running"], FALSE)
            /\ client' = client
  <2> DEFINE v == [prepared EXCEPT !.idle = @ \cup {"build"}, !.rq = "running"]
             p == [v EXCEPT !.idle = @ \ {"run"}]
  <2>1. Becomes(p) /\ todo' = todo \ {"run"} /\ client' = client
    BY <1>11 DEF Called
  <2>2. prepared \in CookerState /\ prepared.idle = {"run"} /\ ~prepared.updating
    BY <1>1, <1>2, <1>5, <1>10 DEF Good, Shape
  <2>3. p = [prepared EXCEPT !.idle = {"build"}, !.rq = "running"]
    <3>1. v = [prepared EXCEPT !.idle = {"run", "build"}, !.rq = "running"]
      BY <2>2 DEF CookerState
    <3>2. v \in CookerState /\ v.idle = {"run", "build"}
      BY <2>2, <3>1 DEF CookerState
    <3>3. v.idle \ {"run"} = {"build"}
      BY <3>2
    <3> QED BY <2>2, <3>1, <3>3 DEF CookerState
  <2> HIDE DEF p
  <2>4. p \in CookerState
    BY <2>2, <2>3 DEF CookerState
  <2>5. /\ p.st = prepared.st /\ p.data = prepared.data /\ p.base = prepared.base
        /\ p.cache = prepared.cache /\ p.conf = prepared.conf /\ p.rec = prepared.rec
        /\ p.have = prepared.have /\ p.ev = prepared.ev /\ p.parser = prepared.parser
        /\ p.procs = prepared.procs /\ p.left = prepared.left /\ p.updating = prepared.updating
        /\ p.current = prepared.current /\ p.asked = prepared.asked
        /\ p.abandoned = prepared.abandoned /\ p.due = prepared.due /\ p.idle = {"build"} /\ p.rq = "running"
    BY <2>2, <2>3 DEF CookerState
  <2>6. Shape(p)
    BY <1>2, <1>5, <1>10, <2>2, <2>4, <2>5 DEF Good, Shape
  <2>7. Fresh(p, disk)
    BY <1>10, <2>5 DEF Good, Fresh
  <2>8. p.conf >= p.current.since.conf
    <3>1. CASE c.current.cmd = "buildFile"
      <4>1. p.current.since.conf <= p.due.conf /\ p.conf = p.due.conf
        BY <1>10, <2>5, <3>1 DEF Good, Fresh
      <4>2. p.current.since.conf \in Nat /\ p.due.conf \in Nat
        BY <2>4 DEF CookerState, Command, Versions
      <4> QED BY <4>1, <4>2
    <3>2. CASE c.current.cmd = "buildTargets"
      <4>1. c.st = "running"
        BY <1>1, <1>5, <3>2 DEF NeedCache
      <4> QED BY <1>4, <1>10, <2>5, <3>2, <4>1 DEF Good, Seen
    <3> QED BY <1>11, <3>1, <3>2 DEF Builds
  <2>9. Seen(p)
    BY <1>10, <2>5, <2>8 DEF Good, Seen
  <2>10. Whole(c) => Whole(p)
    BY <1>10, <2>5 DEF Whole
  <2>11. Kept(c) => Kept(p)
    BY <1>8, <1>10, <2>5 DEF Kept
  <2>12. /\ client' \in ClientState /\ (client'.waiting => client'.on)
         /\ PatientClients => Waits'
    <3>1. ck'.current = ck.current
      BY <1>5, <1>10, <2>1, <2>5, <2>6, <2>7, <2>9, BecomesCurrent DEF Good
    <3> QED BY <2>1, <3>1 DEF CookerInv, Waits
  <2>13. /\ "parseConfiguration" \notin SyncCommands \/ PatientClients => Whole(p)
         /\ PatientClients /\ MaxConfChanges = 0 => Kept(p)
    BY <1>4, <2>10, <2>11, InvFacts
  <2>14. ~p.updating /\ (MaxSignals = 0 => ~p.asked)
    BY <1>1, <1>3, <1>5, <1>10, <2>5
  <2> QED BY <1>1, <2>1, <2>6, <2>7, <2>9, <2>12, <2>13, <2>14, CalledStep DEF Good
<1>12. CASE /\ c.current.cmd # "triggerEvent"
            /\ Called("run", FinishAsyncCommand(IF c.current.cmd = "resetCooker"
                                                THEN InitConfigurationData(c) ELSE prepared), FALSE)
            /\ Completion
  <2> DEFINE u == IF c.current.cmd = "resetCooker" THEN InitConfigurationData(c) ELSE prepared
             p == [FinishAsyncCommand(u) EXCEPT !.idle = @ \ {"run"}]
  <2>1. Becomes(p) /\ todo' = todo \ {"run"} /\ Completion
    BY <1>12 DEF Called
  <2>2. /\ Good(u) /\ (Whole(c) => Whole(u)) /\ (Kept(c) => Kept(u))
        /\ u.parser = c.parser /\ u.procs = c.procs /\ u.left = c.left
        /\ u.updating = c.updating /\ u.idle = c.idle
    <3>1. CASE c.current.cmd = "resetCooker"
      <4> DEFINE q == InitConfigurationData(c)
      <4>1. Good(q) /\ (Whole(c) => Whole(q))
        BY <1>4, InvFacts, InitConfigurationDataGood
      <4>2. /\ q.parser = c.parser /\ q.procs = c.procs /\ q.left = c.left
            /\ q.updating = c.updating /\ q.idle = c.idle /\ q.abandoned = c.abandoned
            /\ q.ev \subseteq c.ev
        BY <1>9 DEF InitConfigurationData, CookerState
      <4>3. Kept(c) => Kept(q)
        BY <1>8, <4>2 DEF Kept
      <4> QED BY <3>1, <4>1, <4>2, <4>3
    <3>2. CASE c.current.cmd # "resetCooker"
      BY <3>2, <1>10
    <3> QED BY <3>1, <3>2
  <2> HIDE DEF u
  <2>3. /\ Good(p) /\ (Whole(u) => Whole(p))
        /\ Kept(u) /\ ~(u.parser = "live" /\ u.procs /\ u.left > 0) => Kept(p)
        /\ p.current = NoCommand /\ ~p.asked /\ ~p.updating
    BY <1>1, <1>2, <1>5, <2>2, InvFacts, FinishedGood
  <2> HIDE DEF p
  <2>4. /\ client' \in ClientState /\ (client'.waiting => client'.on)
        /\ PatientClients => Waits'
    BY <1>2, <2>1, <2>3, BecomesCurrent, CompletionStep
  <2>5. /\ "parseConfiguration" \notin SyncCommands \/ PatientClients => Whole(p)
        /\ PatientClients /\ MaxConfChanges = 0 => Kept(p)
    BY <1>4, <1>8, <2>2, <2>3, InvFacts
  <2> QED BY <1>1, <2>1, <2>3, <2>4, <2>5, CalledStep
<1>13. CASE /\ c.current.cmd = "triggerEvent"
            /\ Called("run", [c EXCEPT !.current = NoCommand, !.asked = FALSE], FALSE)
            /\ client' = client
  <2> DEFINE v == [c EXCEPT !.current = NoCommand, !.asked = FALSE]
             p == [v EXCEPT !.idle = @ \ {"run"}]
  <2>1. Becomes(p) /\ todo' = todo \ {"run"} /\ client' = client
    BY <1>13 DEF Called
  <2>2. NoCommand \in Command
    BY DEF NoCommand, Command, Versions
  <2>3. /\ v \in CookerState
        /\ v.current = NoCommand /\ v.idle = c.idle /\ v.rq = c.rq /\ ~v.asked /\ v.st = c.st
        /\ v.data = c.data /\ v.base = c.base /\ v.cache = c.cache /\ v.conf = c.conf
        /\ v.rec = c.rec /\ v.have = c.have /\ v.ev = c.ev /\ v.parser = c.parser
        /\ v.left = c.left /\ v.procs = c.procs /\ v.updating = c.updating
        /\ v.abandoned = c.abandoned /\ v.due = c.due
    BY <1>9, <2>2 DEF CookerState
  <2> HIDE DEF v
  <2>4. p = [v EXCEPT !.idle = {}]
    <3>1. v.idle \ {"run"} = {}
      BY <1>2, <1>5, <2>3
    <3> QED BY <2>3, <3>1 DEF CookerState
  <2> HIDE DEF p
  <2>5. p \in CookerState
    BY <2>3, <2>4 DEF CookerState
  <2>6. /\ p.current = v.current /\ p.idle = {} /\ p.rq = v.rq /\ p.asked = v.asked /\ p.st = v.st
        /\ p.data = v.data /\ p.base = v.base /\ p.cache = v.cache /\ p.conf = v.conf
        /\ p.rec = v.rec /\ p.have = v.have /\ p.ev = v.ev /\ p.parser = v.parser
        /\ p.left = v.left /\ p.procs = v.procs /\ p.updating = v.updating
        /\ p.abandoned = v.abandoned /\ p.due = v.due
    BY <2>3, <2>4 DEF CookerState
  <2>7. c.st = "initial"
    BY <1>7, <1>13 DEF NeedCache
  <2>8. /\ Good(p) /\ (Whole(c) => Whole(p))
        /\ Kept(c) /\ ~(p.parser = "live" /\ p.procs /\ p.left > 0) => Kept(p)
    BY <1>1, <1>2, <1>4, <1>5, <2>3, <2>5, <2>6, <2>7, InvFacts, EndedGood
  <2>9. ~PatientClients
    BY <1>9, <1>13 DEF PatientClients
  <2>10. client' \in ClientState /\ (client'.waiting => client'.on)
    BY <2>1 DEF CookerInv
  <2>11. ~p.updating /\ ~p.asked
    BY <1>1, <1>5, <2>3, <2>6
  <2>12. "parseConfiguration" \notin SyncCommands \/ PatientClients => Whole(p)
    BY <1>4, <2>8, InvFacts
  <2> QED BY <1>1, <2>1, <2>8, <2>9, <2>10, <2>11, <2>12, CalledStep
<1> QED BY <1>6, <1>11, <1>12, <1>13

\* A build goes on
LEMMA BuildGoesOnStep ==
  ASSUME CookerInv, BuildGoesOn
  PROVE  CookerInv'
<1> DEFINE p == Told(ck)
<1>1. /\ "build" \in todo /\ Becomes(p) /\ todo' = todo \ {"build"}
      /\ client' = client /\ signals' = signals
  BY DEF BuildGoesOn, Called
<1>2. ck.idle = {"build"} /\ ~ck.updating
  BY <1>1, InvFacts
<1>3. /\ Good(p) /\ (Whole(ck) => Whole(p)) /\ (Kept(ck) => Kept(p))
      /\ p.updating = ck.updating /\ p.current = ck.current
      /\ p.asked => ck.asked /\ ck.st \notin Stopping
  BY <1>2, InvFacts, ToldGood
<1> HIDE DEF p
<1>4. MaxSignals = 0 => ~p.asked
  BY <1>3 DEF CookerInv, Heeded
<1>5. /\ client' \in ClientState /\ (client'.waiting => client'.on)
      /\ PatientClients => Waits'
  <2>1. ck'.current = ck.current
    BY <1>1, <1>3, BecomesCurrent
  <2> QED BY <1>1, <2>1 DEF CookerInv, Waits
<1>6. /\ "parseConfiguration" \notin SyncCommands \/ PatientClients => Whole(p)
      /\ PatientClients /\ MaxConfChanges = 0 => Kept(p)
  BY <1>3, InvFacts
<1> QED BY <1>1, <1>2, <1>3, <1>4, <1>5, <1>6, CalledStep

\* A build ends
LEMMA BuildFinishesStep ==
  ASSUME CookerInv, BuildFinishes
  PROVE  CookerInv'
<1> DEFINE u == Told(ck)
           v == FinishAsyncCommand([u EXCEPT !.rq = "none"])
           w == IF ck.current.cmd = "buildFile" THEN [v EXCEPT !.cache = FALSE] ELSE v
           p == [w EXCEPT !.idle = @ \ {"build"}]
<1>1. /\ "build" \in todo /\ Becomes(p) /\ todo' = todo \ {"build"}
      /\ signals' = signals /\ Completion
  BY DEF BuildFinishes, Called
<1>2. ck.idle = {"build"} /\ ~ck.updating /\ ck.current # NoCommand
  BY <1>1, InvFacts
<1>3. /\ Good(u) /\ (Whole(ck) => Whole(u)) /\ (Kept(ck) => Kept(u))
      /\ u.idle = ck.idle /\ u.updating = ck.updating /\ u.current = ck.current
  BY <1>2, InvFacts, ToldGood
<1> HIDE DEF u
<1>4. u \in CookerState
  BY <1>3 DEF Good, Shape
<1>5. NoCommand \in Command
  BY DEF NoCommand, Command, Versions
<1>6. /\ v \in CookerState
      /\ v.current = NoCommand /\ v.idle = u.idle /\ v.rq = "none" /\ ~v.asked
      /\ v.st = "initial" /\ v.data = u.data /\ v.base = u.base /\ v.cache = u.cache
      /\ v.conf = u.conf /\ v.rec = u.rec /\ v.have = u.have /\ v.ev = u.ev
      /\ v.parser = u.parser /\ v.left = u.left /\ v.procs = u.procs
      /\ v.updating = u.updating /\ v.abandoned = u.abandoned /\ v.due = u.due
  BY <1>4, <1>5 DEF FinishAsyncCommand, CookerState
<1> HIDE DEF v
<1>7. /\ w \in CookerState
      /\ w.current = v.current /\ w.idle = v.idle /\ w.rq = v.rq /\ w.asked = v.asked
      /\ w.st = v.st /\ w.data = v.data /\ w.base = v.base /\ (w.cache => v.cache)
      /\ w.conf = v.conf /\ w.rec = v.rec /\ w.have = v.have /\ w.ev = v.ev
      /\ w.parser = v.parser /\ w.left = v.left /\ w.procs = v.procs
      /\ w.updating = v.updating /\ w.abandoned = v.abandoned /\ w.due = v.due
  <2>1. CASE ck.current.cmd = "buildFile"
    <3>1. w = [v EXCEPT !.cache = FALSE]
      BY <2>1
    <3> HIDE DEF w
    <3> QED BY <3>1, <1>6 DEF CookerState
  <2>2. CASE ck.current.cmd # "buildFile"
    BY <2>2, <1>6
  <2> QED BY <2>1, <2>2
<1> HIDE DEF w
<1>8. p = [w EXCEPT !.idle = {}]
  <2>1. w.idle \ {"build"} = {}
    BY <1>2, <1>3, <1>6, <1>7
  <2> QED BY <1>7, <2>1 DEF CookerState
<1> HIDE DEF p
<1>9. p \in CookerState
  BY <1>7, <1>8 DEF CookerState
<1>10. /\ p.current = w.current /\ p.idle = {} /\ p.rq = w.rq /\ p.asked = w.asked
       /\ p.st = w.st /\ p.data = w.data /\ p.base = w.base /\ p.cache = w.cache
       /\ p.conf = w.conf /\ p.rec = w.rec /\ p.have = w.have /\ p.ev = w.ev
       /\ p.parser = w.parser /\ p.left = w.left /\ p.procs = w.procs
       /\ p.updating = w.updating /\ p.abandoned = w.abandoned /\ p.due = w.due
  BY <1>7, <1>8 DEF CookerState
<1>11. /\ p.current = NoCommand /\ p.idle = {} /\ p.rq = "none" /\ ~p.asked /\ p.st = "initial"
       /\ p.data = u.data /\ p.base = u.base /\ (p.cache => u.cache) /\ p.conf = u.conf
       /\ p.rec = u.rec /\ p.have = u.have /\ p.ev = u.ev /\ p.parser = u.parser
       /\ p.left = u.left /\ p.procs = u.procs /\ p.updating = u.updating
       /\ p.abandoned = u.abandoned /\ p.due = u.due
  BY <1>6, <1>7, <1>10
<1>12. /\ Good(p) /\ (Whole(u) => Whole(p))
       /\ Kept(u) /\ ~(p.parser = "live" /\ p.procs /\ p.left > 0) => Kept(p)
  BY <1>2, <1>3, <1>9, <1>11, InvFacts, EndedGood
<1>13. Kept(u) => Kept(p)
  <2>1. Kept(u) => ~(u.parser = "live" /\ u.procs /\ u.left > 0)
    BY <1>2, <1>3 DEF Kept
  <2> QED BY <1>11, <1>12, <2>1
<1>14. /\ client' \in ClientState /\ (client'.waiting => client'.on)
       /\ PatientClients => Waits'
  BY <1>1, <1>2, <1>11, <1>12, BecomesCurrent, CompletionStep
<1>15. /\ "parseConfiguration" \notin SyncCommands \/ PatientClients => Whole(p)
       /\ PatientClients /\ MaxConfChanges = 0 => Kept(p)
  BY <1>3, <1>12, <1>13, InvFacts
<1>16. ~p.updating
  BY <1>2, <1>3, <1>11
<1> QED BY <1>1, <1>11, <1>12, <1>14, <1>15, <1>16, CalledStep

\* A changed configuration: an event is there to be read if one was read in
LEMMA ChangeConfStep ==
  ASSUME CookerInv, ChangeConf
  PROVE  CookerInv'
<1> DEFINE e == ck.ev \cup (IF ck.data THEN {"conf"} ELSE {})
           v == [ck.due EXCEPT !.conf = disk.conf + 1]
<1>1. /\ disk.conf <= MaxConfChanges
      /\ disk' = [disk EXCEPT !.conf = disk.conf + 1]
      /\ ck' = [ck EXCEPT !.due = v, !.ev = e]
      /\ todo' = todo /\ client' = client /\ signals' = signals
  BY InvFacts DEF ChangeConf, CookerState, Versions
<1>2. /\ disk' \in Versions /\ disk'.conf = disk.conf + 1 /\ disk'.rec = disk.rec
      /\ disk'.conf >= 1 /\ disk.conf \in Nat /\ disk.rec \in Nat /\ disk.conf >= 1
  BY <1>1 DEF CookerInv, Versions
<1>3. /\ e \in SUBSET {"conf", "rec"} /\ ck.ev \subseteq e /\ (ck.data => "conf" \in e)
      /\ v \in Versions /\ v.conf = disk.conf + 1 /\ v.rec = ck.due.rec
  BY <1>2, InvFacts DEF CookerState, Versions
<1> HIDE DEF e, v
<1>4. /\ ck' \in CookerState /\ ck'.ev = e /\ ck'.due = v /\ ck'.read = ck.read
      /\ ck'.st = ck.st /\ ck'.data = ck.data /\ ck'.base = ck.base /\ ck'.cache = ck.cache
      /\ ck'.conf = ck.conf /\ ck'.rec = ck.rec /\ ck'.have = ck.have
      /\ ck'.parser = ck.parser /\ ck'.procs = ck.procs /\ ck'.left = ck.left
      /\ ck'.updating = ck.updating /\ ck'.current = ck.current /\ ck'.idle = ck.idle
      /\ ck'.rq = ck.rq /\ ck'.asked = ck.asked /\ ck'.abandoned = ck.abandoned
  BY <1>1, <1>3, InvFacts DEF CookerState
<1>5. Shape(ck')
  BY <1>4, InvFacts DEF Good, Shape
<1>6. Fresh(ck', disk')
  <2>1. ck.base => "conf" \in ck'.ev
    BY <1>3, <1>4, InvFacts DEF Good, Shape
  <2>2. ck.cache => ck.rec = ck'.due.rec \/ "rec" \in ck'.ev
    BY <1>3, <1>4, InvFacts DEF Good, Fresh
  <2>3. /\ ck.conf \in Nat /\ ck.current.since.conf \in Nat /\ ck.due.conf \in Nat
        /\ ck.conf <= ck.due.conf /\ ck.current.since.conf <= ck.due.conf
        /\ ck.due.conf <= disk.conf
        /\ ck.rec <= ck.due.rec /\ ck.current.since.rec <= ck.due.rec /\ ck.due.rec <= disk.rec
    BY InvFacts DEF Good, Fresh, CookerState, Command, Versions
  <2>4. ck.conf <= disk.conf + 1 /\ ck.current.since.conf <= disk.conf + 1
    BY <1>2, <2>3
  <2> QED BY <1>2, <1>3, <1>4, <2>1, <2>2, <2>3, <2>4 DEF Fresh
<1>7. Seen(ck')
  BY <1>4, InvFacts DEF Good, Seen
<1>8. "parseConfiguration" \notin SyncCommands \/ PatientClients => Whole(ck')
  BY <1>4, InvFacts DEF Whole
<1>9. MaxConfChanges # 0
  BY <1>1, <1>2
<1>10. (PatientClients => Waits') /\ (MaxSignals = 0 => Heeded')
  BY <1>1, <1>4 DEF CookerInv, Waits, Heeded
<1>11. todo' \subseteq ck'.idle /\ (ck'.updating => "run" \in todo')
  BY <1>1, <1>4, InvFacts
<1>12. /\ client' \in ClientState /\ (client'.waiting => client'.on) /\ signals' \in Nat
       /\ ck'.read = {}
  BY <1>1, <1>4 DEF CookerInv
<1> QED BY <1>2, <1>5, <1>6, <1>7, <1>8, <1>9, <1>10, <1>11, <1>12 DEF CookerInv

\* Changed recipes: an event is there to be read if there ever was a parser
LEMMA ChangeRecipeStep ==
  ASSUME CookerInv, ChangeRecipe
  PROVE  CookerInv'
<1> DEFINE e == ck.ev \cup (IF ck.parser # "none" THEN {"rec"} ELSE {})
           v == [ck.due EXCEPT !.rec = disk.rec + 1]
<1>1. /\ disk' = [disk EXCEPT !.rec = disk.rec + 1]
      /\ ck' = [ck EXCEPT !.due = v, !.ev = e] \/ ck' = ck
      /\ todo' = todo /\ client' = client /\ signals' = signals
  BY InvFacts DEF ChangeRecipe, CookerState, Versions
<1>2. /\ disk' \in Versions /\ disk'.conf = disk.conf /\ disk'.rec = disk.rec + 1
      /\ disk'.conf >= 1 /\ disk.conf \in Nat /\ disk.rec \in Nat
  BY <1>1 DEF CookerInv, Versions
<1>3. /\ e \in SUBSET {"conf", "rec"} /\ ck.ev \subseteq e /\ (ck.parser # "none" => "rec" \in e)
      /\ v \in Versions /\ v.conf = ck.due.conf /\ v.rec = disk.rec + 1
  BY <1>2, InvFacts DEF CookerState, Versions
<1> HIDE DEF e, v
<1>4. /\ ck' \in CookerState /\ ck'.read = ck.read
      /\ (ck'.ev = e /\ ck'.due = v) \/ (ck'.ev = ck.ev /\ ck'.due = ck.due)
      /\ ck'.st = ck.st /\ ck'.data = ck.data /\ ck'.base = ck.base /\ ck'.cache = ck.cache
      /\ ck'.conf = ck.conf /\ ck'.rec = ck.rec /\ ck'.have = ck.have
      /\ ck'.parser = ck.parser /\ ck'.procs = ck.procs /\ ck'.left = ck.left
      /\ ck'.updating = ck.updating /\ ck'.current = ck.current /\ ck'.idle = ck.idle
      /\ ck'.rq = ck.rq /\ ck'.asked = ck.asked /\ ck'.abandoned = ck.abandoned
  <2>1. CASE ck' = [ck EXCEPT !.due = v, !.ev = e]
    BY <1>3, <2>1, InvFacts DEF CookerState
  <2>2. CASE ck' = ck
    BY <2>2, InvFacts
  <2> QED BY <1>1, <2>1, <2>2
<1>5. Shape(ck')
  BY <1>4, InvFacts DEF Good, Shape
<1>6. Fresh(ck', disk')
  <2>1. /\ ck.conf \in Nat /\ ck.rec \in Nat /\ ck.current.since.rec \in Nat /\ ck.due.rec \in Nat
        /\ ck.conf <= ck.due.conf /\ ck.current.since.conf <= ck.due.conf
        /\ ck.due.conf <= disk.conf
        /\ ck.rec <= ck.due.rec /\ ck.current.since.rec <= ck.due.rec /\ ck.due.rec <= disk.rec
    BY InvFacts DEF Good, Fresh, CookerState, Command, Versions
  <2>2. /\ ck.rec <= disk.rec + 1 /\ ck.current.since.rec <= disk.rec + 1
        /\ ck.due.rec <= disk.rec + 1
    BY <1>2, <2>1
  <2>3. CASE ck'.ev = e /\ ck'.due = v
    <3>1. ck.cache => "rec" \in ck'.ev
      BY <1>3, <2>3, InvFacts DEF Good, Shape
    <3>2. ck.base => ck.conf = ck'.due.conf \/ "conf" \in ck'.ev
      BY <1>3, <2>3, InvFacts DEF Good, Fresh
    <3> QED BY <1>2, <1>3, <1>4, <2>1, <2>2, <2>3, <3>1, <3>2 DEF Fresh
  <2>4. CASE ck'.ev = ck.ev /\ ck'.due = ck.due
    BY <1>2, <1>4, <2>1, <2>2, <2>4, InvFacts DEF Good, Fresh
  <2> QED BY <1>4, <2>3, <2>4
<1>7. Seen(ck')
  BY <1>4, InvFacts DEF Good, Seen
<1>8. "parseConfiguration" \notin SyncCommands \/ PatientClients => Whole(ck')
  BY <1>4, InvFacts DEF Whole
<1>9. PatientClients /\ MaxConfChanges = 0 => Kept(ck')
  <2>1. Kept(ck) => "conf" \notin e
    BY DEF Kept, e
  <2> QED BY <1>4, <2>1, InvFacts DEF Kept
<1>10. (PatientClients => Waits') /\ (MaxSignals = 0 => Heeded')
  BY <1>1, <1>4 DEF CookerInv, Waits, Heeded
<1>11. todo' \subseteq ck'.idle /\ (ck'.updating => "run" \in todo')
  BY <1>1, <1>4, InvFacts
<1>12. /\ client' \in ClientState /\ (client'.waiting => client'.on) /\ signals' \in Nat
       /\ ck'.read = {}
  BY <1>1, <1>4 DEF CookerInv
<1> QED BY <1>2, <1>5, <1>6, <1>7, <1>8, <1>9, <1>10, <1>11, <1>12 DEF CookerInv

\* A signal
LEMMA SigtermStep ==
  ASSUME CookerInv, Sigterm
  PROVE  CookerInv'
<1> DEFINE a == ck.asked \/ ck.current # NoCommand
<1>1. /\ signals < MaxSignals /\ signals' = signals + 1
      /\ ck' = [ck EXCEPT !.st = "forceshutdown", !.asked = a]
      /\ todo' = todo /\ disk' = disk /\ client' = client
  BY DEF Sigterm
<1>2. a \in BOOLEAN /\ (a => ck.current # NoCommand)
  BY InvFacts DEF Good, Shape
<1> HIDE DEF a
<1>3. /\ ck' \in CookerState /\ ck'.st = "forceshutdown" /\ ck'.asked = a /\ ck'.ev = ck.ev
      /\ ck'.data = ck.data /\ ck'.base = ck.base /\ ck'.cache = ck.cache
      /\ ck'.conf = ck.conf /\ ck'.rec = ck.rec /\ ck'.have = ck.have
      /\ ck'.parser = ck.parser /\ ck'.procs = ck.procs /\ ck'.left = ck.left
      /\ ck'.updating = ck.updating /\ ck'.current = ck.current /\ ck'.idle = ck.idle
      /\ ck'.rq = ck.rq /\ ck'.abandoned = ck.abandoned
      /\ ck'.due = ck.due /\ ck'.read = ck.read
  BY <1>1, <1>2, InvFacts DEF CookerState, Stopping
<1>4. Shape(ck')
  BY <1>2, <1>3, InvFacts DEF Good, Shape
<1>5. Fresh(ck', disk') /\ Seen(ck')
  BY <1>1, <1>3, InvFacts DEF Good, Fresh, Seen
<1>6. "parseConfiguration" \notin SyncCommands \/ PatientClients => Whole(ck')
  BY <1>3, InvFacts DEF Whole
<1>7. PatientClients /\ MaxConfChanges = 0 => Kept(ck')
  BY <1>3, InvFacts DEF Kept, Stopping
<1>8. signals \in Nat /\ signals' \in Nat /\ MaxSignals # 0
  BY <1>1 DEF CookerInv
<1>9. PatientClients => Waits'
  BY <1>1, <1>3 DEF CookerInv, Waits
<1>10. todo' \subseteq ck'.idle /\ (ck'.updating => "run" \in todo')
  BY <1>1, <1>3, InvFacts
<1>11. /\ client' \in ClientState /\ (client'.waiting => client'.on)
       /\ disk' \in Versions /\ disk'.conf >= 1 /\ ck'.read = {}
  BY <1>1, <1>3 DEF CookerInv
<1> QED BY <1>4, <1>5, <1>6, <1>7, <1>8, <1>9, <1>10, <1>11 DEF CookerInv

\* The invariant holds initially
LEMMA CookerInitInv == CookerInit => CookerInv
<1> SUFFICES ASSUME CookerInit PROVE CookerInv
  OBVIOUS
<1>1. ck = NewCooker /\ todo = {} /\ disk = [conf |-> 1, rec |-> 1] /\ signals = 0
  BY DEF CookerInit
<1>2. NoCommand \in Command /\ NoCommand.since = [conf |-> 0, rec |-> 0]
  BY DEF NoCommand, Command, Versions
<1>3. client \in ClientState /\ ~client.waiting /\ client.events = <<>>
  <2>1. NewClient(0) \in ClientState
    BY EmptySeq DEF NewClient, ClientState
  <2>2. client = [NewClient(0) EXCEPT !.on = FALSE]
    BY DEF CookerInit
  <2>3. client \in ClientState
    BY <2>1, <2>2 DEF ClientState
  <2>4. ~client.waiting /\ client.events = <<>>
    BY <2>2 DEF NewClient
  <2> QED BY <2>3, <2>4
<1>4. ck \in CookerState
  BY <1>1, <1>2 DEF NewCooker, CookerState, Stopping, Versions
<1>5. Shape(ck)
  BY <1>1, <1>4, CookerAssumption DEF NewCooker, Shape
<1>6. Fresh(ck, disk)
  BY <1>1, <1>2 DEF NewCooker, Fresh
<1>7. Seen(ck) /\ Whole(ck) /\ Kept(ck)
  BY <1>1 DEF NewCooker, Seen, Whole, Kept
<1>8. Waits /\ Heeded
  BY <1>1, <1>3, EmptySeq DEF NewCooker, Waits, Heeded
<1>9. todo \subseteq ck.idle /\ ~ck.updating /\ ck.read = {}
  BY <1>1 DEF NewCooker
<1>10. disk \in Versions /\ disk.conf >= 1 /\ signals \in Nat
  BY <1>1 DEF Versions
<1> QED BY <1>3, <1>5, <1>6, <1>7, <1>8, <1>9, <1>10 DEF CookerInv

\* Every step preserves the invariant
LEMMA CookerNextInv == CookerInv /\ [CookerNext]_cookerVars => CookerInv'
<1> SUFFICES ASSUME CookerInv, [CookerNext]_cookerVars PROVE CookerInv'
  OBVIOUS
<1>1. CASE Idle
  BY <1>1, CommandHaltedStep, CommandUpdatesCacheStep, CommandParsesStep, CommandRunsStep,
     BuildGoesOnStep, BuildFinishesStep DEF Idle
<1>2. CASE CookerDone \/ UNCHANGED cookerVars
  <2>1. ck' = ck /\ todo' = todo /\ disk' = disk /\ client' = client /\ signals' = signals
    BY <1>2 DEF CookerDone, cookerVars
  <2> QED BY <2>1 DEF CookerInv, Heeded, Waits
<1>3. CASE \E cmd \in SyncCommands : RunSync(cmd)
  BY <1>3, RunSyncStep
<1>4. CASE \E cmd \in AsyncCommands : RunAsync(cmd)
  BY <1>4, RunAsyncStep
<1>5. CASE ConnectClient \/ Disconnect \/ ReadEvent \/ NoCommandArrives
  BY <1>5, ConnectStep, DisconnectStep, ReadEventStep, NoCommandArrivesStep
<1>6. CASE ChangeConf \/ ChangeRecipe \/ Sigterm
  BY <1>6, ChangeConfStep, ChangeRecipeStep, SigtermStep
<1> QED BY <1>1, <1>2, <1>3, <1>4, <1>5, <1>6 DEF CookerNext

\* CookerInv holds in every reachable state
LEMMA CookerInvariant == CookerSpec => []CookerInv
BY CookerInitInv, CookerNextInv, PTL DEF CookerSpec

\* A command works with every change of the files that the server had been told of
\* when it was given: process_inotify_updates, updateCacheSync and updateCache miss
\* none, and neither a reset nor a client that leaves hides one.
THEOREM CommandsSeeChangesTheorem == CookerSpec => []CommandsSeeChanges
<1>1. CookerInv => CommandsSeeChanges
  BY DEF CookerInv, Seen, CommandsSeeChanges
<1> QED BY <1>1, CookerInvariant, PTL

\* Commands run safely: a shutdown request is heeded, the recipe cache is complete
\* when it is used, and no parser is dropped with its processes at work, each
\* under the condition on clients and signals that CommandsRunSafely states.
THEOREM CommandsRunSafelyTheorem == CookerSpec => []CommandsRunSafely
<1>1. CookerInv => CommandsRunSafely
  <2> SUFFICES ASSUME CookerInv PROVE CommandsRunSafely
    OBVIOUS
  <2>1. CookerTypeOK
    BY DEF CookerInv, Shape, Fresh, CookerTypeOK
  <2>2. MaxSignals = 0 => ShutdownHeeded
    BY DEF CookerInv, Heeded, ShutdownHeeded
  <2>3. Whole(ck) => CacheComplete
    <3> SUFFICES ASSUME Whole(ck), ck.st = "running" PROVE ck.have = NumRecipes
      BY DEF CacheComplete
    <3>1. ck.have + ck.left = NumRecipes /\ ck.left = 0
      BY DEF Whole
    <3>2. ck.have \in Nat
      BY DEF CookerInv, Shape, CookerState
    <3> QED BY <3>1, <3>2
  <2>4. PatientClients /\ MaxConfChanges = 0 => ParserNotAbandoned
    BY DEF CookerInv, Kept, ParserNotAbandoned
  <2> QED BY <2>1, <2>2, <2>3, <2>4 DEF CookerInv, CommandsRunSafely, PatientClients
<1> QED BY <1>1, CookerInvariant, PTL
=============================================================================
