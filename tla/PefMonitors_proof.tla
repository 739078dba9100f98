------------------------- MODULE PefMonitors_proof -------------------------
(***************************************************************************)
(* Proofs about the property server and the signal monitors: the           *)
(* invariants of PefMonitors hold for any tables, any client writes and    *)
(* any number of faults.                                                   *)
(***************************************************************************)
EXTENDS PefMonitors, TLAPS

-----------------------------------------------------------------------------
(* What the message queue holds, as operators on a sequence. *)

IsSignal(m, p) == m.kind = "signal" /\ m.prop = p

HasSignal(q, p) == \E i \in DOMAIN q : IsSignal(q[i], p)

\* The latest queued signal for p, if there is one, carries v.
LatestIs(q, p, v) ==
  \A i \in DOMAIN q :
    (IsSignal(q[i], p) /\ \A j \in DOMAIN q : j > i => ~IsSignal(q[j], p))
      => q[i].val = v

Holds(q, m) == \E i \in DOMAIN q : q[i] = m

Messages ==
  Calls \cup UNION {[kind : {"signal"}, prop : {p}, val : Values(p)] : p \in Watched}

-----------------------------------------------------------------------------
(* The inductive invariant. *)

QueueType == inbox \in Seq(Messages)

\* While a save is under way the file is truncated.
WriteMeansTorn == pc = "write" => file = Torn

\* What the file will hold when the save under way is done.
Document == IF pc = "write" THEN data ELSE file

\* For every watched table property whose change was not lost, the latest
\* queued signal carries the current value, or the document already has it.
SaveInv ==
  (confState = "up" /\ (file # Torn \/ pc = "write"))
    => \A p \in (Watched \cap FileProps) \ lost :
         /\ LatestIs(inbox, p, conf[p])
         /\ ~HasSignal(inbox, p) => Document[p] = conf[p]

\* A countdown value in ArmPEFPostponeTmr is counted down now, or is queued.
ArmInv ==
  (confState # "down" /\ ArmPEFPostponeTmr \notin lost
     /\ conf[ArmPEFPostponeTmr] \in Countdown)
    => pc = "count" \/ Holds(inbox, Signal(ArmPEFPostponeTmr, conf[ArmPEFPostponeTmr]))

ConfType == DOMAIN conf = Props /\ \A p \in Props : conf[p] \in Values(p)

DocType(d) == DOMAIN d = FileProps /\ \A p \in FileProps : d[p] \in Values(p)

CounterType ==
  timer \in Nat /\ writes \in 0..MaxWrites /\ faults \in 0..MaxFaults

\* MonitorTypeOK with the type of the queue, in the parts the actions change.
TypeInv ==
  /\ confState \in {"up", "bare", "down"}
  /\ ConfType
  /\ file = Torn \/ DocType(file)
  /\ DocType(data)
  /\ QueueType
  /\ lost \subseteq Watched
  /\ CounterType

IInv == TypeInv /\ WriteMeansTorn /\ TornOnlyByFault /\ SaveInv /\ ArmInv

-----------------------------------------------------------------------------
(* Facts about the constants. *)

\* The postpone timer is watched but not in the file, the countdown value is
\* neither, and every other watched property is in the file.
LEMMA PropFacts ==
  /\ FileProps \subseteq Props /\ Watched \subseteq Props
  /\ ArmPEFPostponeTmr \in Watched /\ ArmPEFPostponeTmr \notin FileProps
  /\ TmrCountdownValue \in Props /\ TmrCountdownValue \notin Watched
  /\ Watched \subseteq FileProps \cup {ArmPEFPostponeTmr}
  /\ Values(ArmPEFPostponeTmr) = Nat /\ Values(TmrCountdownValue) = Nat
<1>1. FileProps \subseteq Props /\ Watched \subseteq Props
  BY DEF Props, Watched
<1>2. \A p \in FileProps : p[1] # "PEFPostponeTimer" /\ p[1] # "CountdownTmr"
  BY DEF FileProps, ConfInfoProps, ConfInfo, FilterEntry, PolicyEntry, DestEntry,
         PEFControl, PEFActionGblControl, Recipient, LastBMCProcessedEventID
<1>3. /\ ArmPEFPostponeTmr[1] = "PEFPostponeTimer"
      /\ TmrCountdownValue[1] = "CountdownTmr"
      /\ ArmPEFPostponeTmr[3] = "ArmPEFPostponeTmr"
      /\ TmrCountdownValue[3] = "TmrCountdownValue"
  BY DEF ArmPEFPostponeTmr, TmrCountdownValue
<1>4. ArmPEFPostponeTmr \in TimerProps /\ TmrCountdownValue \in TimerProps
      /\ TimerProps = {ArmPEFPostponeTmr, TmrCountdownValue}
  BY DEF TimerProps
<1> HIDE DEF ArmPEFPostponeTmr, TmrCountdownValue, TimerProps, FileProps
<1>5. Values(ArmPEFPostponeTmr) = Nat /\ Values(TmrCountdownValue) = Nat
  BY <1>3 DEF Values
<1>6. ArmPEFPostponeTmr \in Watched /\ TmrCountdownValue \in Props
      /\ TmrCountdownValue \notin Watched
  BY <1>3, <1>4 DEF Watched, Props
<1>7. Watched \subseteq FileProps \cup {ArmPEFPostponeTmr}
  BY <1>3, <1>4 DEF Watched, Props
<1> QED BY <1>1, <1>2, <1>3, <1>5, <1>6, <1>7

\* What a queued message looks like.
LEMMA MessageFacts ==
  /\ \A m \in Messages : m.kind = "signal" =>
       m.prop \in Watched /\ m.val \in Values(m.prop) /\ m = Signal(m.prop, m.val)
  /\ \A p \in Watched : \A v \in Values(p) :
       /\ Signal(p, v) \in Messages
       /\ Signal(p, v).kind = "signal" /\ Signal(p, v).prop = p /\ Signal(p, v).val = v
<1>1. \A m \in Calls : m.kind # "signal"
  BY ConfigAssumption
<1> QED BY <1>1 DEF Messages, Signal

-----------------------------------------------------------------------------
(* Facts about the message queue. *)

\* A signal appended for p is the latest one for p.
LEMMA AppendSame ==
  ASSUME NEW S, NEW q \in Seq(S), NEW m \in S, NEW p, IsSignal(m, p)
  PROVE  LatestIs(Append(q, m), p, m.val) /\ HasSignal(Append(q, m), p)
  BY DEF LatestIs, HasSignal

\* A message appended that is no signal for p changes nothing for p.
LEMMA AppendOther ==
  ASSUME NEW S, NEW q \in Seq(S), NEW m \in S, NEW p, NEW v, ~IsSignal(m, p)
  PROVE  /\ LatestIs(q, p, v) => LatestIs(Append(q, m), p, v)
         /\ HasSignal(q, p) => HasSignal(Append(q, m), p)
  BY DEF LatestIs, HasSignal

\* Taking the head keeps the latest signal, or it was the head.
LEMMA TailFacts ==
  ASSUME NEW S, NEW q \in Seq(S), q # <<>>, NEW p, NEW v
  PROVE  /\ LatestIs(q, p, v) => LatestIs(Tail(q), p, v)
         /\ ~IsSignal(Head(q), p) /\ HasSignal(q, p) => HasSignal(Tail(q), p)
         /\ IsSignal(Head(q), p) /\ ~HasSignal(Tail(q), p) /\ LatestIs(q, p, v)
              => Head(q).val = v
<1>0. /\ Len(q) \in Nat \ {0} /\ DOMAIN q = 1..Len(q)
      /\ Tail(q) \in Seq(S) /\ DOMAIN Tail(q) = 1..(Len(q) - 1)
      /\ \A i \in 1..(Len(q) - 1) : Tail(q)[i] = q[i + 1]
      /\ Head(q) = q[1]
  OBVIOUS
<1>1. ASSUME LatestIs(q, p, v) PROVE LatestIs(Tail(q), p, v)
  <2> SUFFICES ASSUME NEW i \in 1..(Len(q) - 1), IsSignal(Tail(q)[i], p),
                      \A j \in 1..(Len(q) - 1) : j > i => ~IsSignal(Tail(q)[j], p)
               PROVE  Tail(q)[i].val = v
    BY <1>0 DEF LatestIs
  <2>1. \A j \in 1..Len(q) : j > i + 1 => ~IsSignal(q[j], p)
    <3> SUFFICES ASSUME NEW j \in 1..Len(q), j > i + 1 PROVE ~IsSignal(q[j], p)
      OBVIOUS
    <3>1. j - 1 \in 1..(Len(q) - 1) /\ j - 1 > i /\ (j - 1) + 1 = j
      BY <1>0
    <3> QED BY <1>0, <3>1
  <2>2. i + 1 \in 1..Len(q)
    BY <1>0
  <2> QED BY <1>0, <1>1, <2>1, <2>2 DEF LatestIs
<1>2. ASSUME ~IsSignal(Head(q), p), HasSignal(q, p) PROVE HasSignal(Tail(q), p)
  <2>1. PICK i \in 1..Len(q) : IsSignal(q[i], p)
    BY <1>0, <1>2 DEF HasSignal
  <2>2. i - 1 \in 1..(Len(q) - 1) /\ (i - 1) + 1 = i
    BY <1>0, <1>2, <2>1
  <2> QED BY <1>0, <2>1, <2>2 DEF HasSignal
<1>3. ASSUME IsSignal(Head(q), p), ~HasSignal(Tail(q), p), LatestIs(q, p, v)
      PROVE  Head(q).val = v
  <2>1. \A j \in 1..Len(q) : j > 1 => ~IsSignal(q[j], p)
    <3> SUFFICES ASSUME NEW j \in 1..Len(q), j > 1 PROVE ~IsSignal(q[j], p)
      OBVIOUS
    <3>1. j - 1 \in 1..(Len(q) - 1) /\ (j - 1) + 1 = j
      BY <1>0
    <3> QED BY <1>0, <1>3, <3>1 DEF HasSignal
  <2> QED BY <1>0, <1>3, <2>1 DEF LatestIs
<1> QED BY <1>1, <1>2, <1>3

\* What Append and Tail keep in the queue.
LEMMA HoldsFacts ==
  ASSUME NEW S, NEW q \in Seq(S), NEW m, NEW n \in S
  PROVE  /\ Holds(Append(q, n), n)
         /\ Holds(q, m) => Holds(Append(q, n), m)
         /\ q # <<>> /\ Holds(q, m) => Head(q) = m \/ Holds(Tail(q), m)
<1>1. Holds(Append(q, n), n) /\ (Holds(q, m) => Holds(Append(q, n), m))
  BY DEF Holds
<1>2. ASSUME q # <<>>, Holds(q, m), Head(q) # m PROVE Holds(Tail(q), m)
  <2>1. PICK i \in 1..Len(q) : q[i] = m
    BY <1>2 DEF Holds
  <2>2. i # 1
    BY <1>2, <2>1
  <2>3. i - 1 \in DOMAIN Tail(q) /\ Tail(q)[i - 1] = m
    BY <1>2, <2>1, <2>2
  <2> QED BY <2>3 DEF Holds
<1> QED BY <1>1, <1>2

-----------------------------------------------------------------------------
(* Type correctness. *)

\* The parts give the type invariant of the specification.
LEMMA TypeParts == TypeInv => MonitorTypeOK
<1>1. QueueType => \A i \in DOMAIN inbox :
        inbox[i].kind = "signal" => inbox[i].prop \in Watched
                                      /\ inbox[i].val \in Values(inbox[i].prop)
  <2> SUFFICES ASSUME QueueType, NEW i \in DOMAIN inbox PROVE inbox[i] \in Messages
    BY MessageFacts
  <2> QED BY DEF QueueType
<1> QED BY <1>1 DEF TypeInv, MonitorTypeOK, ConfType, DocType, CounterType

\* Writing a property keeps the types.
LEMMA SetPropertyType ==
  ASSUME ConfType, QueueType, lost \subseteq Watched,
         NEW p \in Props, NEW v \in Values(p), SetProperty(p, v)
  PROVE  ConfType' /\ QueueType' /\ lost' \subseteq Watched
<1>1. ConfType'
  BY DEF SetProperty, ConfType
<1>2. QueueType'
  <2>1. p \in Watched => Signal(p, v) \in Messages
    BY MessageFacts
  <2> QED BY <2>1 DEF SetProperty, QueueType
<1>3. lost' \subseteq Watched
  BY DEF SetProperty
<1> QED BY <1>1, <1>2, <1>3

\* The head of the queue is a message, and the rest a queue of messages.
LEMMA HeadType ==
  ASSUME QueueType, inbox # <<>>
  PROVE  Head(inbox) \in Messages /\ Tail(inbox) \in Seq(Messages)
  BY DEF QueueType

\* A step of the property server keeps the types.
LEMMA ConfNextType ==
  ASSUME TypeInv, ConfNext, UNCHANGED <<timer, data>>
  PROVE  TypeInv'
<1> USE DEF TypeInv
<1>1. ASSUME NEW w \in Writes, ClientSet(w[1], w[2]) PROVE TypeInv'
  <2>1. w[1] \in Props /\ w[2] \in Values(w[1])
    BY ConfigAssumption
  <2>2. SetProperty(w[1], w[2])
    BY <1>1 DEF ClientSet
  <2>3. ConfType' /\ QueueType' /\ lost' \subseteq Watched
    BY <2>1, <2>2, SetPropertyType
  <2>4. CounterType'
    BY <1>1, ConfigAssumption DEF ClientSet, CounterType
  <2> QED BY <1>1, <2>3, <2>4 DEF ClientSet, DocType
<1>2. CASE ConfCrash
  <2>1. CounterType'
    BY <1>2, ConfigAssumption DEF ConfCrash, CounterType
  <2> QED BY <1>2, <2>1 DEF ConfCrash, ConfType, DocType, QueueType
<1>3. CASE ConfStart
  <2>1. ConfType'
    <3>1. CASE file = Torn
      <4>1. conf' = [conf EXCEPT ![ArmPEFPostponeTmr] = 0, ![TmrCountdownValue] = 0]
        BY <1>3, <3>1 DEF ConfStart
      <4> QED BY <4>1, PropFacts DEF ConfType
    <3>2. CASE file # Torn
      <4>1. conf' = [p \in Props |-> IF p \in FileProps THEN file[p] ELSE 0]
        BY <1>3, <3>2 DEF ConfStart
      <4>2. DocType(file)
        BY <3>2
      <4>3. \A p \in Props : p \notin FileProps => 0 \in Values(p)
        BY PropFacts DEF Props, TimerProps
      <4> QED BY <4>1, <4>2, <4>3 DEF ConfType, DocType
    <3> QED BY <3>1, <3>2
  <2>2. lost' \subseteq Watched /\ confState' \in {"up", "bare", "down"}
    BY <1>3 DEF ConfStart
  <2> QED BY <1>3, <2>1, <2>2 DEF ConfStart, DocType, QueueType, CounterType
<1> QED BY <1>1, <1>2, <1>3 DEF ConfNext

\* A step of the event filtering daemon keeps the types.
LEMMA MonitorsType ==
  ASSUME TypeInv, Monitors \/ SaveOpenFails \/ SaveWriteFails \/ DaemonCrash \/ DaemonStart
  PROVE  TypeInv'
<1> USE DEF TypeInv
<1>1. CASE ArmTimerSignal
  <2>1. QueueType'
    BY <1>1, HeadType DEF ArmTimerSignal, QueueType
  <2>2. timer' \in Nat
    BY <1>1 DEF ArmTimerSignal, Countdown, CounterType
  <2> QED BY <1>1, <2>1, <2>2 DEF ArmTimerSignal, ConfType, DocType, CounterType
<1>2. CASE CountTick
  <2>1. timer' \in Nat /\ timer - 1 \in Nat
    BY <1>2 DEF CountTick, CounterType
  <2>2. ConfType' /\ QueueType' /\ lost' \subseteq Watched
    <3>1. CASE SetProperty(TmrCountdownValue, timer - 1)
      BY <2>1, <3>1, PropFacts, SetPropertyType
    <3>2. CASE UNCHANGED <<conf, inbox, lost>>
      BY <3>2 DEF ConfType, QueueType
    <3> QED BY <1>2, <3>1, <3>2 DEF CountTick
  <2> QED BY <1>2, <2>1, <2>2 DEF CountTick, DocType, CounterType
<1>3. CASE CountDone
  <2>1. ConfType' /\ QueueType' /\ lost' \subseteq Watched
    <3>1. CASE SetProperty(ArmPEFPostponeTmr, 0)
      BY <3>1, PropFacts, SetPropertyType
    <3>2. CASE UNCHANGED <<conf, inbox, lost>>
      BY <3>2 DEF ConfType, QueueType
    <3> QED BY <1>3, <3>1, <3>2 DEF CountDone
  <2> QED BY <1>3, <2>1 DEF CountDone, DocType, CounterType
<1>4. CASE SaveBegin
  <2>1. QueueType'
    BY <1>4, HeadType DEF SaveBegin, QueueType
  <2>2. (file' = Torn \/ DocType(file)') /\ DocType(data)'
    <3>1. CASE file = Torn
      BY <1>4, <3>1 DEF SaveBegin, DocType
    <3>2. CASE file # Torn
      <4>1. Head(inbox).val \in Values(Head(inbox).prop)
        BY <1>4, HeadType, MessageFacts DEF SaveBegin
      <4>2. data' = [file EXCEPT ![Head(inbox).prop] = Head(inbox).val] /\ file' = Torn
        BY <1>4, <3>2 DEF SaveBegin
      <4>3. DocType(file)
        BY <3>2
      <4> QED BY <4>1, <4>2, <4>3 DEF DocType
    <3> QED BY <3>1, <3>2
  <2> QED BY <1>4, <2>1, <2>2 DEF SaveBegin, ConfType, CounterType
<1>5. CASE SaveEnd
  BY <1>5 DEF SaveEnd, ConfType, DocType, QueueType, CounterType
<1>6. CASE SaveOpenFails
  <2>1. QueueType' /\ lost' \subseteq Watched
    BY <1>6, HeadType, MessageFacts DEF SaveOpenFails, QueueType
  <2>2. CounterType'
    BY <1>6, ConfigAssumption DEF SaveOpenFails, CounterType
  <2> QED BY <1>6, <2>1, <2>2 DEF SaveOpenFails, ConfType, DocType
<1>7. CASE SaveWriteFails
  <2>1. CounterType'
    BY <1>7, ConfigAssumption DEF SaveWriteFails, CounterType
  <2> QED BY <1>7, <2>1 DEF SaveWriteFails, ConfType, DocType, QueueType
<1>8. CASE DaemonCrash
  <2>1. CounterType'
    BY <1>8, ConfigAssumption DEF DaemonCrash, CounterType
  <2>2. QueueType' /\ lost' \subseteq Watched
    BY <1>8, PropFacts DEF DaemonCrash, QueueType
  <2> QED BY <1>8, <2>1, <2>2 DEF DaemonCrash, ConfType, DocType
<1>9. CASE DaemonStart
  BY <1>9 DEF DaemonStart, ConfType, DocType, QueueType, CounterType
<1> QED BY <1>1, <1>2, <1>3, <1>4, <1>5, <1>6, <1>7, <1>8, <1>9 DEF Monitors

\* The initial state is well typed.
LEMMA TypeInitially == MonitorInit => TypeInv
<1> SUFFICES ASSUME MonitorInit PROVE TypeInv
  OBVIOUS
<1> USE DEF MonitorInit, ConfInit
<1>1. ConfType
  <2>1. \A p \in Props : p \notin FileProps => 0 \in Values(p)
    BY PropFacts DEF Props, TimerProps
  <2> QED BY <2>1, ConfigAssumption DEF ConfType
<1>2. DocType(file) /\ DocType(data)
  BY ConfigAssumption DEF DocType
<1>3. QueueType
  BY DEF QueueType
<1>4. CounterType
  BY ConfigAssumption DEF CounterType
<1> QED BY <1>1, <1>2, <1>3, <1>4 DEF TypeInv

\* No step of the two daemons or of a client breaks the types.
LEMMA TypeStep == TypeInv /\ [MonitorNext]_monitorVars => TypeInv'
<1>1. TypeInv /\ UNCHANGED monitorVars => TypeInv'
  BY DEF monitorVars, TypeInv, ConfType, DocType, QueueType, CounterType
<1> QED BY <1>1, ConfNextType, MonitorsType DEF MonitorNext

\* Type correctness: every property holds a value of its type, in the property
\* server, in the file, in the document being written and in queued signals.
THEOREM MonitorTypeTheorem == MonitorSpec => []MonitorTypeOK
<1>1. MonitorSpec => []TypeInv
  BY TypeInitially, TypeStep, PTL DEF MonitorSpec
<1> QED BY <1>1, TypeParts, PTL

-----------------------------------------------------------------------------
(* The safety invariants. *)

\* Writing a property keeps SaveInv: its signal is queued as the latest one, or
\* the property is marked lost.
LEMMA SetPropertySave ==
  ASSUME TypeInv, SaveInv, NEW p0 \in Props, NEW v \in Values(p0), SetProperty(p0, v),
         UNCHANGED <<confState, file, data>>, pc' = "write" <=> pc = "write"
  PROVE  SaveInv'
<1> SUFFICES ASSUME confState = "up", file # Torn \/ pc = "write",
                    NEW p \in (Watched \cap FileProps) \ lost'
             PROVE  LatestIs(inbox', p, conf'[p])
                      /\ (~HasSignal(inbox', p) => Document'[p] = conf'[p])
  BY DEF SaveInv
<1>1. Document' = Document
  BY DEF Document
<1>2. p \in Props /\ inbox \in Seq(Messages) /\ DOMAIN conf = Props
  BY PropFacts DEF TypeInv, ConfType, QueueType
<1>3. CASE p = p0 /\ conf[p0] # v
  <2>1. conf'[p] = v /\ inbox' = Append(inbox, Signal(p, v))
    BY <1>2, <1>3 DEF SetProperty
  <2>2. Signal(p, v) \in Messages /\ IsSignal(Signal(p, v), p) /\ Signal(p, v).val = v
    BY <1>3, MessageFacts DEF IsSignal
  <2> QED BY <1>2, <2>1, <2>2, AppendSame
<1>4. CASE p # p0 \/ conf[p0] = v
  <2>1. conf'[p] = conf[p] /\ p \notin lost
    BY <1>2, <1>4 DEF SetProperty
  <2>2. LatestIs(inbox, p, conf[p]) /\ (~HasSignal(inbox, p) => Document[p] = conf[p])
    BY <2>1 DEF SaveInv
  <2>3. CASE inbox' = inbox
    BY <1>1, <2>1, <2>2, <2>3
  <2>4. CASE inbox' # inbox
    <3>1. inbox' = Append(inbox, Signal(p0, v)) /\ p0 \in Watched /\ conf[p0] # v
      BY <2>4 DEF SetProperty
    <3>2. Signal(p0, v) \in Messages /\ ~IsSignal(Signal(p0, v), p)
      BY <1>4, <3>1, MessageFacts DEF IsSignal
    <3>3. /\ LatestIs(Append(inbox, Signal(p0, v)), p, conf[p])
          /\ HasSignal(inbox, p) => HasSignal(Append(inbox, Signal(p0, v)), p)
      BY <1>2, <2>2, <3>2, AppendOther
    <3> QED BY <1>1, <2>1, <2>2, <3>1, <3>3
  <2> QED BY <2>3, <2>4
<1> QED BY <1>3, <1>4

\* Taking a message that is no signal of a table in the file, or one whose save
\* is given up for good, keeps SaveInv.
LEMMA TakeSave ==
  ASSUME TypeInv, SaveInv, inbox # <<>>, inbox' = Tail(inbox),
         UNCHANGED <<confState, conf, file, data>>, lost \subseteq lost',
         pc # "write", pc' # "write",
         \A p \in (Watched \cap FileProps) \ lost' : ~IsSignal(Head(inbox), p)
  PROVE  SaveInv'
<1> SUFFICES ASSUME confState = "up", file # Torn,
                    NEW p \in (Watched \cap FileProps) \ lost'
             PROVE  LatestIs(Tail(inbox), p, conf[p])
                      /\ (~HasSignal(Tail(inbox), p) => file[p] = conf[p])
  BY DEF SaveInv, Document
<1>1. LatestIs(inbox, p, conf[p]) /\ (~HasSignal(inbox, p) => file[p] = conf[p])
  BY DEF SaveInv, Document
<1>2. inbox \in Seq(Messages)
  BY DEF TypeInv, QueueType
<1> QED BY <1>1, <1>2, TailFacts

\* Every step keeps SaveInv.
LEMMA SaveStep ==
  ASSUME TypeInv, WriteMeansTorn, SaveInv, [MonitorNext]_monitorVars
  PROVE  SaveInv'
<1>1. ASSUME NEW w \in Writes, ClientSet(w[1], w[2]), UNCHANGED <<timer, data>>
      PROVE  SaveInv'
  <2>1. w[1] \in Props /\ w[2] \in Values(w[1])
    BY ConfigAssumption
  <2> QED BY <1>1, <2>1, SetPropertySave DEF ClientSet
<1>2. CASE ConfCrash
  BY <1>2 DEF ConfCrash, SaveInv
<1>3. CASE ConfStart
  <2>1. CASE file = Torn
    BY <1>3, <2>1 DEF ConfStart, SaveInv
  <2>2. CASE file # Torn
    <3>1. pc' # "write" /\ pc' = pc /\ file' = file /\ inbox' = inbox
      BY <1>3, <2>2 DEF ConfStart, WriteMeansTorn
    <3>2. /\ \A p \in FileProps : conf'[p] = file[p]
          /\ lost' = {p \in Watched : HasSignal(inbox, p)}
      BY <1>3, <2>2, PropFacts DEF ConfStart, Signalled, HasSignal, IsSignal
    <3>3. \A p \in Watched \ lost' : ~HasSignal(inbox, p)
      BY <3>2
    <3>4. \A p, v : ~HasSignal(inbox, p) => LatestIs(inbox, p, v)
      BY DEF HasSignal, LatestIs
    <3> QED BY <3>1, <3>2, <3>3, <3>4 DEF SaveInv, Document
  <2> QED BY <2>1, <2>2
<1>4. CASE ArmTimerSignal
  BY <1>4, TakeSave, PropFacts DEF ArmTimerSignal, IsSignal
<1>5. CASE CountTick
  <2>1. timer - 1 \in Values(TmrCountdownValue) /\ TmrCountdownValue \in Props
    BY <1>5, PropFacts DEF CountTick, TypeInv, CounterType
  <2>2. CASE SetProperty(TmrCountdownValue, timer - 1)
    BY <1>5, <2>1, <2>2, SetPropertySave DEF CountTick
  <2>3. CASE UNCHANGED <<conf, inbox, lost>>
    BY <1>5, <2>3 DEF CountTick, SaveInv, Document
  <2> QED BY <1>5, <2>2, <2>3 DEF CountTick
<1>6. CASE CountDone
  <2>1. 0 \in Values(ArmPEFPostponeTmr) /\ ArmPEFPostponeTmr \in Props
    BY PropFacts
  <2>2. CASE SetProperty(ArmPEFPostponeTmr, 0)
    BY <1>6, <2>1, <2>2, SetPropertySave DEF CountDone
  <2>3. CASE UNCHANGED <<conf, inbox, lost>>
    BY <1>6, <2>3 DEF CountDone, SaveInv, Document
  <2> QED BY <1>6, <2>2, <2>3 DEF CountDone
<1>7. CASE SaveBegin
  <2>1. CASE file = Torn
    BY <1>7, <2>1 DEF SaveBegin, SaveInv
  <2>2. CASE file # Torn
    <3> SUFFICES ASSUME confState = "up", NEW p \in (Watched \cap FileProps) \ lost
                 PROVE  LatestIs(Tail(inbox), p, conf[p])
                          /\ (~HasSignal(Tail(inbox), p) => data'[p] = conf[p])
      BY <1>7, <2>2 DEF SaveBegin, SaveInv, Document
    <3>1. LatestIs(inbox, p, conf[p]) /\ (~HasSignal(inbox, p) => file[p] = conf[p])
      BY <1>7, <2>2 DEF SaveBegin, SaveInv, Document
    <3>2. inbox \in Seq(Messages) /\ inbox # <<>> /\ DOMAIN file = FileProps
      BY <1>7, <2>2 DEF SaveBegin, TypeInv, QueueType, DocType
    <3>3. /\ Head(inbox).kind = "signal"
          /\ data' = [file EXCEPT ![Head(inbox).prop] = Head(inbox).val]
      BY <1>7, <2>2 DEF SaveBegin
    <3>4. CASE IsSignal(Head(inbox), p)
      <4>1. data'[p] = Head(inbox).val
        BY <3>2, <3>3, <3>4 DEF IsSignal
      <4> QED BY <3>1, <3>2, <3>4, <4>1, TailFacts
    <3>5. CASE ~IsSignal(Head(inbox), p)
      <4>1. data'[p] = file[p]
        BY <3>2, <3>3, <3>5 DEF IsSignal
      <4> QED BY <3>1, <3>2, <3>5, <4>1, TailFacts
    <3> QED BY <3>4, <3>5
  <2> QED BY <2>1, <2>2
<1>8. CASE SaveEnd
  BY <1>8 DEF SaveEnd, SaveInv, Document
<1>9. CASE SaveOpenFails
  BY <1>9, TakeSave DEF SaveOpenFails, IsSignal
<1>10. CASE SaveWriteFails
  BY <1>10 DEF SaveWriteFails, SaveInv, WriteMeansTorn
<1>11. CASE DaemonCrash
  <2>1. CASE file = Torn
    BY <1>11, <2>1 DEF DaemonCrash, SaveInv
  <2>2. CASE file # Torn
    <3>1. \A p \in Watched \ lost' : p \notin lost /\ ~HasSignal(inbox, p)
      BY <1>11 DEF DaemonCrash, Signalled, HasSignal, IsSignal
    <3>2. \A p, v : LatestIs(<<>>, p, v)
      BY DEF LatestIs
    <3>3. /\ pc # "write" /\ pc' # "write" /\ inbox' = <<>>
          /\ UNCHANGED <<confState, conf, file>>
      BY <1>11, <2>2 DEF DaemonCrash, WriteMeansTorn
    <3> QED BY <3>1, <3>2, <3>3 DEF SaveInv, Document
  <2> QED BY <2>1, <2>2
<1>12. CASE DaemonStart
  BY <1>12 DEF DaemonStart, SaveInv, Document
<1>13. CASE UNCHANGED monitorVars
  BY <1>13 DEF monitorVars, SaveInv, Document
<1> QED
  BY <1>1, <1>2, <1>3, <1>4, <1>5, <1>6, <1>7, <1>8, <1>9, <1>10, <1>11, <1>12, <1>13
     DEF MonitorNext, Monitors, ConfNext

\* Writing a property keeps ArmInv: a new countdown value is queued.
LEMMA SetPropertyArm ==
  ASSUME TypeInv, ArmInv, NEW p0 \in Props, NEW v \in Values(p0), SetProperty(p0, v),
         UNCHANGED confState,
         pc = "count" => pc' = "count" \/ conf'[ArmPEFPostponeTmr] \notin Countdown
  PROVE  ArmInv'
<1> DEFINE arm == ArmPEFPostponeTmr
<1> SUFFICES ASSUME confState # "down", arm \notin lost', conf'[arm] \in Countdown,
                    pc # "count"
             PROVE  Holds(inbox', Signal(arm, conf'[arm]))
  BY DEF ArmInv
<1>1. inbox \in Seq(Messages) /\ DOMAIN conf = Props /\ arm \in Watched /\ arm \in Props
  BY PropFacts DEF TypeInv, ConfType, QueueType
<1> HIDE DEF arm
<1>2. CASE p0 = arm /\ conf[p0] # v
  <2>1. conf'[arm] = v /\ inbox' = Append(inbox, Signal(arm, v))
    BY <1>1, <1>2 DEF SetProperty
  <2>2. Signal(arm, v) \in Messages
    BY <1>1, <1>2, MessageFacts
  <2> QED BY <1>1, <2>1, <2>2, HoldsFacts
<1>3. CASE p0 # arm \/ conf[p0] = v
  <2>1. conf'[arm] = conf[arm] /\ arm \notin lost
    BY <1>1, <1>3 DEF SetProperty
  <2>2. Holds(inbox, Signal(arm, conf[arm]))
    BY <2>1 DEF ArmInv, arm
  <2>3. CASE inbox' = inbox
    BY <2>1, <2>2, <2>3
  <2>4. CASE inbox' # inbox
    <3>1. inbox' = Append(inbox, Signal(p0, v)) /\ p0 \in Watched
      BY <2>4 DEF SetProperty
    <3>2. Signal(p0, v) \in Messages
      BY <3>1, MessageFacts
    <3> QED BY <1>1, <2>1, <2>2, <3>1, <3>2, HoldsFacts
  <2> QED BY <2>3, <2>4
<1> QED BY <1>2, <1>3

\* Taking a message that is no signal of the timer keeps ArmInv.
LEMMA TakeArm ==
  ASSUME TypeInv, ArmInv, inbox # <<>>, inbox' = Tail(inbox), pc # "count",
         UNCHANGED <<confState, conf>>, lost \subseteq lost',
         ~IsSignal(Head(inbox), ArmPEFPostponeTmr)
  PROVE  ArmInv'
<1>1. inbox \in Seq(Messages)
  BY DEF TypeInv, QueueType
<1>2. \A v : Head(inbox) # Signal(ArmPEFPostponeTmr, v)
  BY DEF Signal, IsSignal
<1>3. PICK n : n \in Messages
  BY <1>1
<1>4. \A m : Holds(inbox, m) => Head(inbox) = m \/ Holds(Tail(inbox), m)
  BY <1>1, <1>3, HoldsFacts
<1> QED BY <1>2, <1>4 DEF ArmInv

\* Every step keeps ArmInv.
LEMMA ArmStep ==
  ASSUME TypeInv, ArmInv, [MonitorNext]_monitorVars
  PROVE  ArmInv'
<1>0. ArmPEFPostponeTmr \in Watched /\ ArmPEFPostponeTmr \in Props
      /\ TmrCountdownValue \in Props
  BY PropFacts
<1>1. ASSUME NEW w \in Writes, ClientSet(w[1], w[2]) PROVE ArmInv'
  <2>1. w[1] \in Props /\ w[2] \in Values(w[1])
    BY ConfigAssumption
  <2> QED BY <1>1, <2>1, SetPropertyArm DEF ClientSet
<1>2. CASE ConfCrash
  BY <1>2 DEF ConfCrash, ArmInv
<1>3. CASE ConfStart
  <2>1. conf'[ArmPEFPostponeTmr] = 0
    <3>1. DOMAIN conf = Props /\ ArmPEFPostponeTmr \notin FileProps
      BY PropFacts DEF TypeInv, ConfType
    <3> QED BY <1>0, <1>3, <3>1 DEF ConfStart
  <2> QED BY <2>1 DEF ArmInv, Countdown
<1>4. CASE ArmTimerSignal
  <2>1. inbox \in Seq(Messages) /\ inbox # <<>> /\ Head(inbox) \in Messages
    BY <1>4, HeadType DEF ArmTimerSignal, TypeInv, QueueType
  <2>2. \A m : Holds(inbox, m) => Head(inbox) = m \/ Holds(Tail(inbox), m)
    BY <2>1, HoldsFacts
  <2>3. \A v : Signal(ArmPEFPostponeTmr, v).val = v
    BY DEF Signal
  <2> QED BY <1>4, <2>2, <2>3 DEF ArmTimerSignal, ArmInv
<1>5. CASE CountTick
  <2>1. timer - 1 \in Values(TmrCountdownValue)
    BY <1>5, PropFacts DEF CountTick, TypeInv, CounterType
  <2>2. CASE SetProperty(TmrCountdownValue, timer - 1)
    BY <1>0, <1>5, <2>1, <2>2, SetPropertyArm DEF CountTick
  <2>3. CASE UNCHANGED <<conf, inbox, lost>>
    BY <1>5, <2>3 DEF CountTick, ArmInv
  <2> QED BY <1>5, <2>2, <2>3 DEF CountTick
<1>6. CASE CountDone
  <2>1. CASE Serves(ArmPEFPostponeTmr)
    <3>1. SetProperty(ArmPEFPostponeTmr, 0) /\ UNCHANGED confState
      BY <1>6, <2>1 DEF CountDone
    <3>2. conf'[ArmPEFPostponeTmr] = 0
      BY <1>0, <3>1 DEF SetProperty, TypeInv, ConfType
    <3> QED BY <3>2 DEF ArmInv, Countdown
  <2>2. CASE ~Serves(ArmPEFPostponeTmr)
    <3>1. confState = "down" /\ UNCHANGED confState
      BY <1>0, <1>6, <2>2 DEF CountDone, Serves, TypeInv, TimerProps
    <3> QED BY <3>1 DEF ArmInv
  <2> QED BY <2>1, <2>2
<1>7. CASE SaveBegin
  <2>1. CASE file = Torn
    BY <1>7, <2>1, TakeArm DEF SaveBegin, IsSignal
  <2>2. CASE file # Torn
    BY <1>7, <2>2, TakeArm DEF SaveBegin, IsSignal
  <2> QED BY <2>1, <2>2
<1>8. CASE SaveEnd
  BY <1>8 DEF SaveEnd, ArmInv
<1>9. CASE SaveOpenFails
  BY <1>9, TakeArm DEF SaveOpenFails, IsSignal
<1>10. CASE SaveWriteFails
  BY <1>10 DEF SaveWriteFails, ArmInv
<1>11. CASE DaemonCrash
  <2>1. ASSUME NEW v, Holds(inbox, Signal(ArmPEFPostponeTmr, v))
        PROVE  Signalled(ArmPEFPostponeTmr)
    BY <2>1 DEF Holds, Signal, Signalled
  <2>2. pc = "count" \/ Signalled(ArmPEFPostponeTmr) => ArmPEFPostponeTmr \in lost'
    BY <1>0, <1>11 DEF DaemonCrash
  <2>3. lost \subseteq lost' /\ UNCHANGED <<confState, conf>>
    BY <1>11 DEF DaemonCrash
  <2> QED BY <2>1, <2>2, <2>3 DEF ArmInv
<1>12. CASE DaemonStart
  BY <1>12 DEF DaemonStart, ArmInv
<1>13. CASE UNCHANGED monitorVars
  BY <1>13 DEF monitorVars, ArmInv
<1> QED
  BY <1>1, <1>2, <1>3, <1>4, <1>5, <1>6, <1>7, <1>8, <1>9, <1>10, <1>11, <1>12, <1>13
     DEF MonitorNext, Monitors, ConfNext

\* Every step keeps the two facts about the truncated file.
LEMMA TornStep ==
  ASSUME TypeInv, WriteMeansTorn, TornOnlyByFault, [MonitorNext]_monitorVars
  PROVE  WriteMeansTorn' /\ TornOnlyByFault'
<1> USE DEF WriteMeansTorn, TornOnlyByFault
<1>0. faults \in Nat
  BY ConfigAssumption DEF TypeInv, CounterType
<1>1. CASE ConfNext
  <2>1. file' = file /\ pc' = pc /\ (faults' = faults \/ faults' = faults + 1)
    BY <1>1 DEF ConfNext, ClientSet, ConfCrash, ConfStart
  <2> QED BY <1>0, <2>1
<1>2. CASE ArmTimerSignal \/ CountTick \/ CountDone
  BY <1>2 DEF ArmTimerSignal, CountTick, CountDone
<1>3. CASE SaveBegin
  BY <1>3 DEF SaveBegin
<1>4. CASE SaveEnd
  <2>1. data # Torn
    <3>1. PEFControl \in DOMAIN data
      BY DEF TypeInv, DocType, FileProps, ConfInfoProps
    <3> QED BY <3>1 DEF Torn
  <2> QED BY <1>4, <2>1 DEF SaveEnd
<1>5. CASE SaveOpenFails \/ SaveWriteFails \/ DaemonCrash
  <2>1. faults' = faults + 1 /\ pc' # "write"
    BY <1>5 DEF SaveOpenFails, SaveWriteFails, DaemonCrash
  <2> QED BY <1>0, <2>1
<1>6. CASE DaemonStart
  BY <1>6 DEF DaemonStart
<1>7. CASE UNCHANGED monitorVars
  BY <1>7 DEF monitorVars
<1> QED BY <1>1, <1>2, <1>3, <1>4, <1>5, <1>6, <1>7 DEF MonitorNext, Monitors

-----------------------------------------------------------------------------
\* The initial states satisfy IInv.
LEMMA MonitorInitially == MonitorInit => IInv
<1> SUFFICES ASSUME MonitorInit PROVE IInv
  OBVIOUS
<1> USE DEF MonitorInit, ConfInit
<1>1. TypeInv
  BY TypeInitially
<1>2. WriteMeansTorn
  BY DEF WriteMeansTorn
<1>3. TornOnlyByFault
  <2>1. PEFControl \in DOMAIN file
    BY ConfigAssumption DEF FileProps, ConfInfoProps
  <2> QED BY <2>1 DEF TornOnlyByFault, Torn
<1>4. SaveInv
  <2>1. \A p, v : LatestIs(<<>>, p, v)
    BY DEF LatestIs
  <2> QED BY <2>1, PropFacts DEF SaveInv, Document
<1>5. ArmInv
  BY PropFacts DEF ArmInv, Countdown
<1> QED BY <1>1, <1>2, <1>3, <1>4, <1>5 DEF IInv

\* IInv gives the three guarantees of the monitors.
LEMMA IInvImplies == IInv => ChangesReachFile /\ ArmedTimerIsServed /\ TornOnlyByFault
<1>1. IInv => ChangesReachFile
  BY DEF IInv, SaveInv, WriteMeansTorn, Document, ChangesReachFile,
         Signalled, HasSignal, IsSignal
<1>2. \A v : Holds(inbox, Signal(ArmPEFPostponeTmr, v)) => Signalled(ArmPEFPostponeTmr)
  BY DEF Holds, Signal, Signalled
<1>3. IInv => ArmedTimerIsServed
  BY <1>2 DEF IInv, ArmInv, ArmedTimerIsServed
<1> QED BY <1>1, <1>3 DEF IInv

\* IInv is an invariant of the property server and the monitors.
LEMMA IInvariant == MonitorSpec => []IInv
<1>1. IInv /\ [MonitorNext]_monitorVars => IInv'
  BY TypeStep, TornStep, SaveStep, ArmStep DEF IInv
<1> QED BY <1>1, MonitorInitially, PTL DEF MonitorSpec

\* No change of a watched table is forgotten by the monitors: once its signal
\* was taken and the save is done, the file holds the current value, unless the
\* signal was lost with a crash or the open failed.
THEOREM ChangesReachFileTheorem == MonitorSpec => []ChangesReachFile
  BY IInvImplies, IInvariant, PTL

\* An armed postpone timer is being counted down or its signal is queued,
\* whatever clients write to it during a countdown.
THEOREM ArmedTimerIsServedTheorem == MonitorSpec => []ArmedTimerIsServed
  BY IInvImplies, IInvariant, PTL

\* updateJsonFile leaves an unparsable file behind only after a fault.
THEOREM TornOnlyByFaultTheorem == MonitorSpec => []TornOnlyByFault
  BY IInvariant, PTL DEF IInv
=============================================================================
