------------------------- MODULE PefAlerting_proof -------------------------
(***************************************************************************)
(* Proofs about the whole PEF subsystem: in which order, how often and     *)
(* under which permissions doPefTask performs actions, for any tables, any *)
(* events, any client writes and any number of faults; and that the        *)
(* monitors' invariants survive the tasks that share their thread.  The    *)
(* data match and the mail alert manager are at the end.                   *)
(***************************************************************************)
EXTENDS PefAlerting, MailAlert, DataMatch, PefMonitors_proof, SequenceTheorems

-----------------------------------------------------------------------------
(* The inductive invariant.  The part about a running task is an operator   *)
(* of the control point p, the locals t, the actions A performed so far and *)
(* the permissions S given since its event was sent.                        *)

MonitorPCs == {"idle", "count", "write", "down"}
PolicyPCs == {"policy", "dest", "trap", "recipient", "mail", "last"}
AlertPCs == {"policies"} \cup PolicyPCs
FilterPCs == {"entry", "global", "off", "power", "reset"} \cup AlertPCs
TaskPCs == {"timer", "scan"} \cup FilterPCs

Locals ==
  [id : 1..MaxEvents, msg : Events, ctl : SUBSET {"enable"}, idx : Nat,
   matched : Seq(FilterEntries), act : SUBSET ActionBits, pol : Nat,
   gbl : SUBSET ActionBits, pols : Seq(Nat), dest : Nat, recs : Seq(STRING)]

Actions == [id : 1..MaxEvents, kind : {"off", "reset", "mail", "trap"}, filter : Nat,
            policy : Nat, left : Nat]

Rising(s) == \A i, j \in DOMAIN s : i < j => s[i] < s[j]

\* What the loops of the task have in hand.
Loops(p, t) ==
  /\ Rising(t.matched)
  /\ p = "timer" => t.matched = <<>>
  /\ p = "scan" => t.idx >= 1 /\ \A i \in DOMAIN t.matched : t.matched[i] < t.idx
  /\ p \in FilterPCs => t.matched # <<>>
  /\ p \in AlertPCs => Rising(t.pols)
  /\ p = "policies" =>
       \A i \in DOMAIN t.pols : t.pols[i] < t.pol + t.idx * NUM_OF_ALERT_POLICY
  /\ p \in PolicyPCs => t.pols # <<>>
  /\ p \in {"mail", "last"} => t.recs # <<>>

\* Where an action of the running task stands: of an earlier filter; the power
\* action of this one; of an earlier policy entry; a mail of this entry.
EarlierFilter(a, t) == a.filter < Head(t.matched)
PowerAction(a, t) == a.filter = Head(t.matched) /\ a.kind \in {"off", "reset"}
EarlierPolicy(a, t) == a.filter = Head(t.matched) /\ a.policy < Head(t.pols)
MailBefore(a, t, n) == /\ a.filter = Head(t.matched) /\ a.policy = Head(t.pols)
                       /\ a.kind = "mail" /\ a.left > n

\* The actions the task has performed are those its loops have passed.
Passed(p, t, A) ==
  \A k \in DOMAIN A : A[k].id = t.id =>
    \/ p \in FilterPCs /\ EarlierFilter(A[k], t)
    \/ p \in AlertPCs /\ PowerAction(A[k], t)
    \/ p \in PolicyPCs /\ EarlierPolicy(A[k], t)
    \/ p = "mail" /\ MailBefore(A[k], t, Len(t.recs))
    \/ p = "last" /\ MailBefore(A[k], t, Len(t.recs) - 1)

\* Every permission the task has found was given since its event was sent.
Allowed(p, t, S) ==
  /\ "enable" \in t.ctl => <<PEFControl, "enable">> \in S
  /\ p # "timer" => <<PEFControl, "enable">> \in S /\ <<ArmPEFPostponeTmr, "running">> \in S
  /\ \A i \in DOMAIN t.matched : <<FilterEntry(t.matched[i], "FilterConfig"), "enable">> \in S
  /\ p \in FilterPCs \ {"entry"} =>
       \A b \in t.act : <<FilterEntry(Head(t.matched), "EvtFilterAction"), b>> \in S
  /\ \A b \in t.gbl : <<PEFActionGblControl, b>> \in S
  /\ \A i \in DOMAIN t.pols : <<PolicyEntry(t.pols[i], "AlertNum"), "enable">> \in S
  /\ p = "off" => "off" \in t.act \cap t.gbl
  /\ p \in {"power", "reset"} => t.act \cap t.gbl \cap {"reset", "cycle"} # {}
  /\ p \in AlertPCs => "alert" \in t.act \cap t.gbl

Running(p, t, A, S) ==
  /\ p \in TaskPCs /\ t \in Locals
  /\ Loops(p, t) /\ Passed(p, t, A) /\ Allowed(p, t, S)

\* Without a task the locals are those of none.
TaskInv ==
  \/ pc \in MonitorPCs /\ task = NoTask
  \/ Running(pc, task, acts, seen[task.id])

IsEvent(m) == m.kind = "event"

\* The events in q are queued in the order they were sent, and n was before them.
InOrder(q) == \A i, j \in DOMAIN q : i < j /\ IsEvent(q[i]) /\ IsEvent(q[j]) => q[i].id < q[j].id
After(q, n) == \A i \in DOMAIN q : IsEvent(q[i]) => n < q[i].id
Before(q, n) == \A i \in DOMAIN q : IsEvent(q[i]) => q[i].id < n

\* Actions, the running task, the queued events and the next one are in order.
OrderInv ==
  /\ InOrder(inbox) /\ Before(inbox, nextId)
  /\ \A k \in DOMAIN acts : acts[k].id < nextId /\ After(inbox, acts[k].id)
  /\ pc \in TaskPCs => /\ task.id < nextId /\ After(inbox, task.id)
                       /\ \A k \in DOMAIN acts : acts[k].id <= task.id

SeenInv ==
  /\ DOMAIN seen = 1..MaxEvents
  /\ \A id \in 1..MaxEvents : Pending(id) => Permits \subseteq seen[id]

AlertInv ==
  /\ IInv /\ nextId \in 1..(MaxEvents + 1) /\ acts \in Seq(Actions)
  /\ TaskInv /\ OrderInv /\ SeenInv
  /\ ActionsInEventOrder /\ NoActionTwice /\ OffExcludesReset

-----------------------------------------------------------------------------
(* Facts about rising sequences. *)

\* A larger number appended keeps a sequence rising.
LEMMA RisingAppend ==
  ASSUME NEW s \in Seq(Nat), NEW x \in Nat, Rising(s), \A i \in DOMAIN s : s[i] < x
  PROVE  /\ Append(s, x) \in Seq(Nat) /\ Rising(Append(s, x))
         /\ \A i \in DOMAIN Append(s, x) : Append(s, x)[i] <= x
  BY DEF Rising

\* What is left of a sequence of two or more.
LEMMA LongTail ==
  ASSUME NEW S, NEW s \in Seq(S), ~(Len(s) <= 1)
  PROVE  /\ Len(s) \in Nat /\ Len(s) > 1 /\ s # <<>> /\ Head(s) = s[1]
         /\ Tail(s) \in Seq(S) /\ Tail(s) # <<>> /\ Len(Tail(s)) = Len(s) - 1
         /\ \A i \in 1..(Len(s) - 1) : Tail(s)[i] = s[i + 1]
<1>1. Len(s) \in Nat /\ Len(s) > 1 /\ s # <<>> /\ Head(s) = s[1]
  OBVIOUS
<1>2. /\ Tail(s) \in Seq(S) /\ Len(Tail(s)) = Len(s) - 1
      /\ \A i \in 1..(Len(s) - 1) : Tail(s)[i] = s[i + 1]
  BY <1>1, HeadTailProperties
<1>3. \A n \in Nat : n > 1 => n - 1 # 0
  OBVIOUS
<1>4. Len(Tail(s)) # 0
  BY <1>1, <1>2, <1>3, Zenon
<1>5. Len(<<>>) = 0
  BY EmptySeq
<1>6. Tail(s) # <<>>
  BY <1>4, <1>5
<1> QED BY <1>1, <1>2, <1>6

\* The rest of a rising sequence is one, and begins with a larger number.
LEMMA RisingTail ==
  ASSUME NEW s \in Seq(Nat), Rising(s), ~(Len(s) <= 1)
  PROVE  /\ Tail(s) \in Seq(Nat) /\ Tail(s) # <<>> /\ Rising(Tail(s))
         /\ Head(s) \in Nat /\ Head(Tail(s)) \in Nat /\ Head(s) < Head(Tail(s))
         /\ \A i \in DOMAIN Tail(s) : \E j \in DOMAIN s : Tail(s)[i] = s[j]
<1>1. /\ Len(s) \in Nat /\ Len(s) > 1 /\ Head(s) = s[1] /\ DOMAIN s = 1..Len(s)
      /\ Tail(s) \in Seq(Nat) /\ Tail(s) # <<>> /\ DOMAIN Tail(s) = 1..(Len(s) - 1)
      /\ \A i \in 1..(Len(s) - 1) : Tail(s)[i] = s[i + 1]
  BY LongTail
<1>2. Head(Tail(s)) = s[2]
  <2>1. Head(Tail(s)) = Tail(s)[1]
    BY <1>1
  <2> QED BY <1>1, <2>1
<1>3. \A i \in 1..(Len(s) - 1) : i + 1 \in 1..Len(s)
  BY <1>1
<1>4. Rising(Tail(s))
  BY <1>1, <1>3 DEF Rising
<1>5. Head(s) \in Nat /\ Head(Tail(s)) \in Nat /\ Head(s) < Head(Tail(s))
  BY <1>1, <1>2 DEF Rising
<1> QED BY <1>1, <1>3, <1>4, <1>5

\* Filter entry numbers are natural numbers, and so is the one in hand.
LEMMA FilterNumbers ==
  ASSUME NEW s \in Seq(FilterEntries)
  PROVE  /\ s \in Seq(Nat)
         /\ s # <<>> => Head(s) \in FilterEntries /\ Head(s) \in Nat
<1>1. FilterEntries \subseteq Nat
  BY ConfigAssumption
<1>2. s \in Seq(Nat)
  <2>1. Len(s) \in Nat /\ s \in [1..Len(s) -> Nat]
    BY <1>1, LenProperties
  <2> QED BY <2>1
<1>3. s # <<>> => Head(s) \in FilterEntries
  BY HeadTailProperties
<1> QED BY <1>1, <1>2, <1>3

\* The fields of a performed action.
LEMMA ActionTypes ==
  ASSUME NEW A \in Seq(Actions), NEW k \in DOMAIN A
  PROVE  /\ A[k].id \in Nat /\ A[k].filter \in Nat /\ A[k].policy \in Nat
         /\ A[k].left \in Nat /\ A[k].kind \in {"off", "reset", "mail", "trap"}
<1>1. A[k] \in Actions
  OBVIOUS
<1> QED BY <1>1, TaskAssumption DEF Actions

-----------------------------------------------------------------------------
(* How the loops go on. *)

\* The task for event n is over, or goes on in order.
Goes(n, A, S) ==
  \/ pc' = "idle" /\ task' = NoTask
  \/ Running(pc', task', A, S) /\ task'.id = n

\* Going on with the next filter passes all the actions of this one.
LEMMA NextFilterGoes ==
  ASSUME NEW t \in Locals, NEW A \in Seq(Actions), NEW S, NEW p \in FilterPCs,
         Loops(p, t), Allowed(p, t, S),
         \A k \in DOMAIN A : A[k].id = t.id => A[k].filter <= Head(t.matched),
         NextFilter(t)
  PROVE  Goes(t.id, A, S)
<1>1. CASE Len(t.matched) <= 1
  BY <1>1 DEF NextFilter, Finish, Goes
<1>2. CASE ~(Len(t.matched) <= 1)
  <2>1. pc' = "entry" /\ task' = [t EXCEPT !.matched = Tail(@)]
    BY <1>2 DEF NextFilter
  <2>2. t.matched \in Seq(FilterEntries) /\ t.matched \in Seq(Nat) /\ t.matched # <<>>
        /\ Rising(t.matched)
    BY FilterNumbers DEF Locals, Loops
  <2>3. /\ Tail(t.matched) # <<>> /\ Rising(Tail(t.matched))
        /\ Head(t.matched) \in Nat /\ Head(Tail(t.matched)) \in Nat
        /\ Head(t.matched) < Head(Tail(t.matched))
        /\ \A i \in DOMAIN Tail(t.matched) : \E j \in DOMAIN t.matched :
             Tail(t.matched)[i] = t.matched[j]
    BY <1>2, <2>2, RisingTail
  <2>4. Tail(t.matched) \in Seq(FilterEntries)
    BY <2>2
  <2>5. /\ task' \in Locals /\ task'.id = t.id /\ task'.matched = Tail(t.matched)
        /\ task'.ctl = t.ctl /\ task'.gbl = t.gbl /\ task'.pols = t.pols
    BY <2>1, <2>4 DEF Locals
  <2>6. Loops("entry", task')
    BY <2>3, <2>5 DEF Loops, FilterPCs, AlertPCs, PolicyPCs
  <2>7. Passed("entry", task', A)
    <3> SUFFICES ASSUME NEW k \in DOMAIN A, A[k].id = t.id
                 PROVE  A[k].filter < Head(Tail(t.matched))
      BY <2>5 DEF Passed, EarlierFilter, FilterPCs
    <3>1. A[k].filter \in Nat /\ A[k].filter <= Head(t.matched)
      BY ActionTypes
    <3> QED BY <2>3, <3>1
  <2>8. Allowed("entry", task', S)
    <3>1. \A i \in DOMAIN task'.matched :
            <<FilterEntry(task'.matched[i], "FilterConfig"), "enable">> \in S
      BY <2>3, <2>5 DEF Allowed
    <3>2. p # "timer"
      BY DEF FilterPCs, AlertPCs, PolicyPCs
    <3> QED BY <2>5, <3>1, <3>2 DEF Allowed, FilterPCs, AlertPCs, PolicyPCs
  <2> QED BY <2>1, <2>5, <2>6, <2>7, <2>8 DEF Goes, Running, TaskPCs, FilterPCs
<1> QED BY <1>1, <1>2

\* Going on with the next policy entry passes all the actions of this one.
LEMMA NextPolicyGoes ==
  ASSUME NEW t \in Locals, NEW A \in Seq(Actions), NEW S, NEW p \in PolicyPCs,
         Loops(p, t), Allowed(p, t, S),
         \A k \in DOMAIN A : A[k].id = t.id =>
           \/ EarlierFilter(A[k], t) \/ PowerAction(A[k], t)
           \/ A[k].filter = Head(t.matched) /\ A[k].policy <= Head(t.pols),
         NextPolicy(t)
  PROVE  Goes(t.id, A, S)
<1>0. p \in FilterPCs /\ p \in AlertPCs /\ p # "timer" /\ p # "entry"
      /\ p \notin {"off", "power", "reset", "policies"}
  BY DEF FilterPCs, AlertPCs, PolicyPCs
<1>1. CASE Len(t.pols) <= 1
  <2>1. \A k \in DOMAIN A : A[k].id = t.id => A[k].filter <= Head(t.matched)
    <3> SUFFICES ASSUME NEW k \in DOMAIN A, A[k].id = t.id
                 PROVE  A[k].filter <= Head(t.matched)
      OBVIOUS
    <3>1. A[k].filter \in Nat
      BY ActionTypes
    <3>2. Head(t.matched) \in Nat
      <4>1. t.matched \in Seq(FilterEntries) /\ t.matched # <<>>
        BY <1>0 DEF Locals, Loops
      <4> QED BY <4>1, FilterNumbers
    <3> QED BY <3>1, <3>2 DEF EarlierFilter, PowerAction
  <2>2. NextFilter(t)
    BY <1>1 DEF NextPolicy
  <2> QED BY <1>0, <2>1, <2>2, NextFilterGoes
<1>2. CASE ~(Len(t.pols) <= 1)
  <2>1. pc' = "policy" /\ task' = [t EXCEPT !.pols = Tail(@)]
    BY <1>2 DEF NextPolicy
  <2>2. t.pols \in Seq(Nat) /\ Rising(t.pols)
    BY <1>0 DEF Locals, Loops
  <2>3. /\ Tail(t.pols) \in Seq(Nat) /\ Tail(t.pols) # <<>> /\ Rising(Tail(t.pols))
        /\ Head(t.pols) \in Nat /\ Head(Tail(t.pols)) \in Nat
        /\ Head(t.pols) < Head(Tail(t.pols))
        /\ \A i \in DOMAIN Tail(t.pols) : \E j \in DOMAIN t.pols :
             Tail(t.pols)[i] = t.pols[j]
    BY <1>2, <2>2, RisingTail
  <2>4. /\ task' \in Locals /\ task'.id = t.id /\ task'.pols = Tail(t.pols)
        /\ task'.ctl = t.ctl /\ task'.gbl = t.gbl /\ task'.matched = t.matched
        /\ task'.act = t.act
    BY <2>1, <2>3 DEF Locals
  <2>5. Loops("policy", task')
    BY <1>0, <2>3, <2>4 DEF Loops
  <2>6. Passed("policy", task', A)
    <3> SUFFICES ASSUME NEW k \in DOMAIN A, A[k].id = t.id
                 PROVE  \/ EarlierFilter(A[k], task') \/ PowerAction(A[k], task')
                        \/ EarlierPolicy(A[k], task')
      BY <2>4 DEF Passed, FilterPCs, AlertPCs, PolicyPCs
    <3>1. A[k].policy \in Nat
      BY ActionTypes
    <3>2. CASE EarlierFilter(A[k], t) \/ PowerAction(A[k], t)
      BY <2>4, <3>2 DEF EarlierFilter, PowerAction
    <3>3. CASE A[k].filter = Head(t.matched) /\ A[k].policy <= Head(t.pols)
      <4>1. A[k].policy < Head(Tail(t.pols))
        <5>1. \A x, y, z \in Nat : x <= y /\ y < z => x < z
          OBVIOUS
        <5> QED BY <2>3, <3>1, <3>3, <5>1, Zenon
      <4> QED BY <2>4, <3>3, <4>1 DEF EarlierPolicy
    <3> QED BY <3>2, <3>3
  <2>7. Allowed("policy", task', S)
    <3>1. \A i \in DOMAIN task'.pols :
            <<PolicyEntry(task'.pols[i], "AlertNum"), "enable">> \in S
      BY <2>3, <2>4 DEF Allowed
    <3> QED BY <1>0, <2>4, <3>1 DEF Allowed
  <2> QED BY <2>1, <2>4, <2>5, <2>6, <2>7
          DEF Goes, Running, TaskPCs, FilterPCs, AlertPCs, PolicyPCs
<1> QED BY <1>1, <1>2

\* Going on with the next recipient passes the mail of this one.
LEMMA NextRecipientGoes ==
  ASSUME NEW t \in Locals, NEW A \in Seq(Actions), NEW S, NEW p \in {"mail", "last"},
         Loops(p, t), Allowed(p, t, S),
         \A k \in DOMAIN A : A[k].id = t.id =>
           \/ EarlierFilter(A[k], t) \/ PowerAction(A[k], t) \/ EarlierPolicy(A[k], t)
           \/ MailBefore(A[k], t, Len(t.recs) - 1),
         NextRecipient(t)
  PROVE  Goes(t.id, A, S)
<1>0. p \in FilterPCs /\ p \in AlertPCs /\ p \in PolicyPCs /\ p # "timer" /\ p # "entry"
      /\ p \notin {"off", "power", "reset", "policies"}
  BY DEF FilterPCs, AlertPCs, PolicyPCs
<1>1. CASE Len(t.recs) <= 1
  <2>1. ASSUME NEW k \in DOMAIN A, A[k].id = t.id
        PROVE  \/ EarlierFilter(A[k], t) \/ PowerAction(A[k], t)
               \/ A[k].filter = Head(t.matched) /\ A[k].policy <= Head(t.pols)
    <3>1. A[k].policy \in Nat
      BY ActionTypes
    <3>2. Head(t.pols) \in Nat
      <4>1. t.pols \in Seq(Nat) /\ t.pols # <<>>
        BY <1>0 DEF Locals, Loops
      <4> QED BY <4>1
    <3> QED BY <2>1, <3>1, <3>2 DEF EarlierPolicy, MailBefore
  <2>2. NextPolicy(t)
    BY <1>1 DEF NextRecipient
  <2> QED BY <1>0, <2>1, <2>2, NextPolicyGoes
<1>2. CASE ~(Len(t.recs) <= 1)
  <2>1. pc' = "mail" /\ task' = [t EXCEPT !.recs = Tail(@)]
    BY <1>2 DEF NextRecipient
  <2>2. t.recs \in Seq(STRING)
    BY DEF Locals
  <2>3. Tail(t.recs) \in Seq(STRING) /\ Tail(t.recs) # <<>>
        /\ Len(Tail(t.recs)) = Len(t.recs) - 1
    BY <1>2, <2>2, LongTail
  <2>4. /\ task' \in Locals /\ task'.id = t.id /\ task'.recs = Tail(t.recs)
        /\ task'.ctl = t.ctl /\ task'.gbl = t.gbl /\ task'.matched = t.matched
        /\ task'.act = t.act /\ task'.pols = t.pols
    BY <2>1, <2>3 DEF Locals
  <2>5. Loops("mail", task')
    BY <1>0, <2>3, <2>4 DEF Loops
  <2>6. Passed("mail", task', A)
    BY <2>3, <2>4 DEF Passed, FilterPCs, AlertPCs, PolicyPCs,
                      EarlierFilter, PowerAction, EarlierPolicy, MailBefore
  <2>7. Allowed("mail", task', S)
    BY <1>0, <2>4 DEF Allowed
  <2> QED BY <2>1, <2>4, <2>5, <2>6, <2>7
          DEF Goes, Running, TaskPCs, FilterPCs, AlertPCs, PolicyPCs
<1> QED BY <1>1, <1>2

\* The alert branch: the policy scan, or the next filter.
LEMMA AlertBranchGoes ==
  ASSUME NEW t \in Locals, NEW A \in Seq(Actions), NEW S,
         NEW p \in {"global", "off", "power", "reset"},
         Loops(p, t), Allowed(p, t, S),
         \A k \in DOMAIN A : A[k].id = t.id => EarlierFilter(A[k], t) \/ PowerAction(A[k], t),
         AlertBranch(t)
  PROVE  Goes(t.id, A, S)
<1>0. p \in FilterPCs /\ p # "timer" /\ p # "entry"
  BY DEF FilterPCs, AlertPCs, PolicyPCs
<1>1. CASE "alert" \in t.act \cap t.gbl
  <2>1. pc' = "policies" /\ task' = [t EXCEPT !.idx = 0, !.pols = <<>>]
    BY <1>1 DEF AlertBranch
  <2>2. /\ task' \in Locals /\ task'.id = t.id /\ task'.pols = <<>>
        /\ task'.ctl = t.ctl /\ task'.gbl = t.gbl /\ task'.matched = t.matched
        /\ task'.act = t.act
    <3>1. <<>> \in Seq(Nat)
      OBVIOUS
    <3> QED BY <2>1, <3>1 DEF Locals
  <2>3. Loops("policies", task')
    BY <1>0, <2>2 DEF Loops, Rising, PolicyPCs
  <2>4. Passed("policies", task', A)
    BY <2>2 DEF Passed, FilterPCs, AlertPCs, PolicyPCs, EarlierFilter, PowerAction
  <2>5. Allowed("policies", task', S)
    BY <1>0, <1>1, <2>2 DEF Allowed
  <2> QED BY <2>1, <2>2, <2>3, <2>4, <2>5 DEF Goes, Running, TaskPCs, FilterPCs, AlertPCs
<1>2. CASE "alert" \notin t.act \cap t.gbl
  <2>1. \A k \in DOMAIN A : A[k].id = t.id => A[k].filter <= Head(t.matched)
    <3> SUFFICES ASSUME NEW k \in DOMAIN A, A[k].id = t.id
                 PROVE  A[k].filter <= Head(t.matched)
      OBVIOUS
    <3>1. A[k].filter \in Nat
      BY ActionTypes
    <3>2. Head(t.matched) \in Nat
      <4>1. t.matched \in Seq(FilterEntries) /\ t.matched # <<>>
        BY <1>0 DEF Locals, Loops
      <4> QED BY <4>1, FilterNumbers
    <3> QED BY <3>1, <3>2 DEF EarlierFilter, PowerAction
  <2>2. NextFilter(t)
    BY <1>2 DEF AlertBranch
  <2> QED BY <1>0, <2>1, <2>2, NextFilterGoes
<1> QED BY <1>1, <1>2

-----------------------------------------------------------------------------
(* What the property server tells the task. *)

\* Which objects there are, and what their properties hold.
LEMMA TableFacts ==
  /\ \A n, f : PolicyEntry(n, f) \in Props => n \in PolicyEntries
  /\ PEFControl \in Props /\ PEFActionGblControl \in Props /\ Recipient \in Props
  /\ LastBMCProcessedEventID \in Props
  /\ \A n \in FilterEntries : \A f \in FilterNames : FilterEntry(n, f) \in Props
  /\ \A n \in PolicyEntries : \A f \in PolicyNames : PolicyEntry(n, f) \in Props
<1>1. ASSUME NEW n, NEW f, PolicyEntry(n, f) \in Props PROVE n \in PolicyEntries
  BY <1>1 DEF Props, FileProps, TimerProps, ConfInfoProps, ConfInfo, FilterEntry, PolicyEntry,
              DestEntry, PEFControl, PEFActionGblControl, Recipient, LastBMCProcessedEventID,
              ArmPEFPostponeTmr, TmrCountdownValue
<1>2. /\ PEFControl \in Props /\ PEFActionGblControl \in Props /\ Recipient \in Props
      /\ LastBMCProcessedEventID \in Props
      /\ \A n \in FilterEntries : \A f \in FilterNames : FilterEntry(n, f) \in Props
      /\ \A n \in PolicyEntries : \A f \in PolicyNames : PolicyEntry(n, f) \in Props
  BY DEF Props, FileProps, ConfInfoProps
<1> QED BY <1>1, <1>2

\* What the properties the tasks read can hold.
LEMMA ValueFacts ==
  /\ Values(PEFControl) = SUBSET {"enable"}
  /\ Values(PEFActionGblControl) = SUBSET ActionBits
  /\ Values(Recipient) = Seq(STRING) /\ Values(LastBMCProcessedEventID) = Nat
  /\ \A n : /\ Values(FilterEntry(n, "EvtFilterAction")) = SUBSET ActionBits
            /\ Values(FilterEntry(n, "AlertPolicyNum")) = Nat
            /\ Values(PolicyEntry(n, "ChannelDestSel")) = Nat
            /\ Values(FilterEntry(n, "FilterConfig")) = SUBSET {"enable"}
            /\ Values(PolicyEntry(n, "AlertNum")) = SUBSET {"enable"}
  BY DEF Values, FilterEntry, PolicyEntry, PEFControl, PEFActionGblControl, Recipient,
         LastBMCProcessedEventID, ConfInfo

\* A permission the server has now was given since the event was sent, when
\* all of the present ones were.
LEMMA PermitFacts ==
  ASSUME TypeInv, NEW S, Permits \subseteq S
  PROVE  /\ Serves(PEFControl) /\ "enable" \in conf[PEFControl]
              => <<PEFControl, "enable">> \in S
         /\ Serves(ArmPEFPostponeTmr) /\ conf[ArmPEFPostponeTmr] # TMR_DISABLE
              => <<ArmPEFPostponeTmr, "running">> \in S
         /\ Serves(PEFActionGblControl)
              => \A b \in conf[PEFActionGblControl] : <<PEFActionGblControl, b>> \in S
         /\ \A n \in FilterEntries :
              /\ Serves(FilterEntry(n, "FilterConfig"))
                   /\ "enable" \in conf[FilterEntry(n, "FilterConfig")]
                   => <<FilterEntry(n, "FilterConfig"), "enable">> \in S
              /\ Serves(FilterEntry(n, "EvtFilterAction"))
                   => \A b \in conf[FilterEntry(n, "EvtFilterAction")] :
                        <<FilterEntry(n, "EvtFilterAction"), b>> \in S
         /\ \A n \in PolicyEntries :
              Serves(PolicyEntry(n, "AlertNum"))
                /\ "enable" \in conf[PolicyEntry(n, "AlertNum")]
                => <<PolicyEntry(n, "AlertNum"), "enable">> \in S
<1>1. ASSUME NEW p \in ControlProps, NEW b \in ActionBits \cup {"enable"},
             p # ArmPEFPostponeTmr, Serves(p), b \in conf[p]
      PROVE  <<p, b>> \in S
  <2>1. <<p, b>> \in Permissions
    BY <1>1 DEF Permissions
  <2>2. Permitted(p, b)
    BY <1>1 DEF Permitted
  <2> QED BY <2>1, <2>2 DEF Permits
<1>2. /\ PEFControl \in ControlProps /\ PEFActionGblControl \in ControlProps
      /\ \A n \in FilterEntries : /\ FilterEntry(n, "FilterConfig") \in ControlProps
                                  /\ FilterEntry(n, "EvtFilterAction") \in ControlProps
      /\ \A n \in PolicyEntries : PolicyEntry(n, "AlertNum") \in ControlProps
  BY DEF ControlProps
<1>3. \A p \in ControlProps : p # ArmPEFPostponeTmr
  BY DEF ControlProps, PEFControl, PEFActionGblControl, ConfInfo, FilterEntry, PolicyEntry,
         ArmPEFPostponeTmr
<1>4. /\ conf[PEFActionGblControl] \subseteq ActionBits
      /\ \A n \in FilterEntries : conf[FilterEntry(n, "EvtFilterAction")] \subseteq ActionBits
  BY TableFacts, ValueFacts DEF TypeInv, ConfType, FilterNames
<1>5. Serves(ArmPEFPostponeTmr) /\ conf[ArmPEFPostponeTmr] # TMR_DISABLE
        => <<ArmPEFPostponeTmr, "running">> \in S
  <2>1. <<ArmPEFPostponeTmr, "running">> \in Permissions
    BY DEF Permissions
  <2>2. Serves(ArmPEFPostponeTmr) /\ conf[ArmPEFPostponeTmr] # TMR_DISABLE
          => Permitted(ArmPEFPostponeTmr, "running")
    BY DEF Permitted
  <2> QED BY <2>1, <2>2 DEF Permits
<1> QED BY <1>1, <1>2, <1>3, <1>4, <1>5

-----------------------------------------------------------------------------
(* The steps of the task, one by one. *)

\* The entry Perform adds to the history.
NewAction(kind) ==
  [id |-> task.id, kind |-> kind, filter |-> Head(task.matched),
   policy |-> IF kind \in {"mail", "trap"} THEN Head(task.pols) ELSE 0,
   left |-> IF kind = "mail" THEN Len(task.recs) ELSE 0]

\* Performing an action appends it to the history.
LEMMA PerformAppends ==
  ASSUME acts \in Seq(Actions), NEW S, Running(pc, task, acts, S), pc \in FilterPCs,
         NEW kind \in {"off", "reset", "mail", "trap"},
         kind \in {"mail", "trap"} => pc \in PolicyPCs, Perform(kind)
  PROVE  /\ NewAction(kind) \in Actions /\ acts' \in Seq(Actions)
         /\ acts' = Append(acts, NewAction(kind))
         /\ \A k \in DOMAIN acts' :
              (k \in DOMAIN acts /\ acts'[k] = acts[k]) \/ acts'[k] = NewAction(kind)
<1>1. task \in Locals /\ Loops(pc, task)
  BY DEF Running
<1>2. Head(task.matched) \in Nat
  <2>1. task.matched \in Seq(FilterEntries) /\ task.matched # <<>>
    BY <1>1 DEF Locals, Loops
  <2> QED BY <2>1, FilterNumbers
<1>3. kind \in {"mail", "trap"} => Head(task.pols) \in Nat
  <2>1. task.pols \in Seq(Nat) /\ (kind \in {"mail", "trap"} => task.pols # <<>>)
    BY <1>1 DEF Locals, Loops
  <2> QED BY <2>1
<1>4. Len(task.recs) \in Nat /\ task.id \in 1..MaxEvents
  <2>1. task.recs \in Seq(STRING) /\ task.id \in 1..MaxEvents
    BY <1>1 DEF Locals
  <2> QED BY <2>1, LenProperties
<1>5. NewAction(kind) \in Actions
  BY <1>2, <1>3, <1>4 DEF NewAction, Actions
<1>6. acts' = Append(acts, NewAction(kind))
  BY DEF Perform, NewAction
<1> HIDE DEF Actions, NewAction
<1>7. acts' \in Seq(Actions)
  BY <1>5, <1>6
<1>8. \A k \in DOMAIN acts' :
        (k \in DOMAIN acts /\ acts'[k] = acts[k]) \/ acts'[k] = NewAction(kind)
  BY <1>5, <1>6
<1> QED BY <1>5, <1>6, <1>7, <1>8

\* PostponeRead: the scan begins with nothing matched.
LEMMA PostponeReadGoes ==
  ASSUME TypeInv, NEW S, Permits \subseteq S, Running(pc, task, acts, S), PostponeRead
  PROVE  Goes(task.id, acts, S)
<1>1. pc = "timer" /\ task \in Locals /\ Loops(pc, task) /\ Passed(pc, task, acts)
      /\ Allowed(pc, task, S)
  BY DEF Running, PostponeRead
<1>2. CASE Serves(ArmPEFPostponeTmr) /\ ~Postponed(conf[ArmPEFPostponeTmr])
           /\ "enable" \in task.ctl
  <2>1. pc' = "scan" /\ task' = [task EXCEPT !.idx = 1]
    BY <1>2 DEF PostponeRead
  <2>2. /\ task' \in Locals /\ task'.id = task.id /\ task'.idx = 1
        /\ task'.ctl = task.ctl /\ task'.gbl = task.gbl /\ task'.matched = task.matched
        /\ task'.pols = task.pols
    BY <1>1, <2>1 DEF Locals
  <2>3. Loops("scan", task')
    BY <1>1, <2>2 DEF Loops, FilterPCs, AlertPCs, PolicyPCs
  <2>4. Passed("scan", task', acts)
    BY <1>1, <2>2 DEF Passed, FilterPCs, AlertPCs, PolicyPCs
  <2>5. Allowed("scan", task', S)
    <3>1. <<PEFControl, "enable">> \in S
      BY <1>1, <1>2 DEF Allowed
    <3>2. <<ArmPEFPostponeTmr, "running">> \in S
      BY <1>2, PermitFacts DEF Postponed
    <3> QED BY <1>1, <2>2, <3>1, <3>2 DEF Allowed, FilterPCs, AlertPCs, PolicyPCs
  <2> QED BY <2>1, <2>2, <2>3, <2>4, <2>5 DEF Goes, Running, TaskPCs
<1>3. CASE ~(Serves(ArmPEFPostponeTmr) /\ ~Postponed(conf[ArmPEFPostponeTmr])
             /\ "enable" \in task.ctl)
  BY <1>3 DEF PostponeRead, Finish, Goes
<1> QED BY <1>2, <1>3

\* FilterScan: a matching entry is appended to smaller ones.
LEMMA FilterScanGoes ==
  ASSUME TypeInv, NEW S, Permits \subseteq S, Running(pc, task, acts, S), FilterScan
  PROVE  Goes(task.id, acts, S)
<1>1. pc = "scan" /\ task \in Locals /\ Loops(pc, task) /\ Passed(pc, task, acts)
      /\ Allowed(pc, task, S)
  BY DEF Running, FilterScan
<1>2. /\ task.idx \in Nat /\ task.idx >= 1 /\ task.idx < MAX_EVT_FILTER_ENTRIES
      /\ task.matched \in Seq(FilterEntries) /\ task.matched \in Seq(Nat)
  BY <1>1, FilterNumbers DEF Locals, Loops, FilterScan
<1>3. task.idx \in FilterEntries
  BY <1>2, TaskAssumption
<1> DEFINE n == task.idx
           on == /\ Serves(FilterEntry(n, "FilterConfig"))
                 /\ "enable" \in conf[FilterEntry(n, "FilterConfig")]
                 /\ FilterMatches(n, task.msg)
           new == IF on THEN Append(task.matched, n) ELSE task.matched
<1>4. pc' = "scan" /\ task' = [task EXCEPT !.idx = n + 1, !.matched = new] /\ n + 1 \in Nat
  BY <1>1, <1>2 DEF FilterScan
<1>5. new \in Seq(FilterEntries)
  BY <1>2, <1>3
<1>6. Rising(new) /\ \A i \in DOMAIN new : new[i] < n + 1
  <2>1. Rising(task.matched) /\ \A i \in DOMAIN task.matched : task.matched[i] < n
    BY <1>1 DEF Loops
  <2>2. CASE on
    <3>1. Rising(Append(task.matched, n))
          /\ \A i \in DOMAIN Append(task.matched, n) : Append(task.matched, n)[i] <= n
      BY <1>2, <2>1, RisingAppend
    <3>2. new = Append(task.matched, n) /\ new \in Seq(Nat)
      BY <1>2, <2>2
    <3> HIDE DEF new
    <3> QED BY <1>2, <3>1, <3>2
  <2>3. CASE ~on
    BY <1>2, <2>1, <2>3
  <2> QED BY <2>2, <2>3
<1>7. \A i \in DOMAIN new : <<FilterEntry(new[i], "FilterConfig"), "enable">> \in S
  <2>1. \A i \in DOMAIN task.matched :
          <<FilterEntry(task.matched[i], "FilterConfig"), "enable">> \in S
    BY <1>1 DEF Allowed
  <2>2. CASE on
    <3>1. <<FilterEntry(n, "FilterConfig"), "enable">> \in S
      BY <1>3, <2>2, PermitFacts
    <3>2. \A i \in DOMAIN Append(task.matched, n) :
            (i \in DOMAIN task.matched /\ Append(task.matched, n)[i] = task.matched[i])
              \/ Append(task.matched, n)[i] = n
      BY <1>2
    <3>3. \A i \in DOMAIN Append(task.matched, n) :
            <<FilterEntry(Append(task.matched, n)[i], "FilterConfig"), "enable">> \in S
      BY <2>1, <3>1, <3>2, Zenon
    <3> QED BY <2>2, <3>3
  <2>3. CASE ~on
    BY <2>1, <2>3
  <2> QED BY <2>2, <2>3
<1> HIDE DEF new, on
<1>8. /\ task' \in Locals /\ task'.id = task.id /\ task'.idx = n + 1 /\ task'.matched = new
      /\ task'.ctl = task.ctl /\ task'.gbl = task.gbl /\ task'.pols = task.pols
  BY <1>1, <1>2, <1>4, <1>5 DEF Locals
<1>9. Loops("scan", task')
  BY <1>2, <1>6, <1>8 DEF Loops, FilterPCs, AlertPCs, PolicyPCs
<1>10. Passed("scan", task', acts)
  BY <1>1, <1>8 DEF Passed, FilterPCs, AlertPCs, PolicyPCs
<1>11. Allowed("scan", task', S)
  BY <1>1, <1>7, <1>8 DEF Allowed, FilterPCs, AlertPCs, PolicyPCs
<1> QED BY <1>4, <1>8, <1>9, <1>10, <1>11 DEF Goes, Running, TaskPCs

\* FilterScanEnd: the first matched filter is next.
LEMMA FilterScanEndGoes ==
  ASSUME NEW S, Running(pc, task, acts, S), FilterScanEnd
  PROVE  Goes(task.id, acts, S)
<1>1. pc = "scan" /\ task \in Locals /\ Loops(pc, task) /\ Passed(pc, task, acts)
      /\ Allowed(pc, task, S)
  BY DEF Running, FilterScanEnd
<1>2. CASE task.matched = <<>>
  BY <1>2 DEF FilterScanEnd, Finish, Goes
<1>3. CASE task.matched # <<>>
  <2>1. pc' = "entry" /\ task' = task
    BY <1>3 DEF FilterScanEnd
  <2>2. Loops("entry", task)
    BY <1>1, <1>3 DEF Loops, AlertPCs, PolicyPCs
  <2>3. Passed("entry", task, acts)
    BY <1>1 DEF Passed, FilterPCs, AlertPCs, PolicyPCs
  <2>4. Allowed("entry", task, S)
    BY <1>1 DEF Allowed, FilterPCs, AlertPCs, PolicyPCs
  <2> QED BY <1>1, <2>1, <2>2, <2>3, <2>4 DEF Goes, Running, TaskPCs, FilterPCs
<1> QED BY <1>2, <1>3

\* EntryRead: the actions of the filter in hand.
LEMMA EntryReadGoes ==
  ASSUME TypeInv, NEW S, Permits \subseteq S, Running(pc, task, acts, S), EntryRead
  PROVE  Goes(task.id, acts, S)
<1> DEFINE n == Head(task.matched)
           act == FilterEntry(n, "EvtFilterAction")
           pol == FilterEntry(n, "AlertPolicyNum")
<1>1. pc = "entry" /\ task \in Locals /\ Loops(pc, task) /\ Passed(pc, task, acts)
      /\ Allowed(pc, task, S)
  BY DEF Running, EntryRead
<1>2. n \in FilterEntries
  <2>1. task.matched \in Seq(FilterEntries) /\ task.matched # <<>>
    BY <1>1 DEF Locals, Loops, FilterPCs
  <2> QED BY <2>1, FilterNumbers
<1>3. CASE Serves(act)
  <2>1. pc' = "global" /\ task' = [task EXCEPT !.act = conf[act], !.pol = conf[pol] % 16]
    BY <1>3 DEF EntryRead
  <2>2. conf[act] \in SUBSET ActionBits /\ conf[pol] \in Nat
    BY <1>2, TableFacts, ValueFacts DEF TypeInv, ConfType, FilterNames
  <2>3. conf[pol] % 16 \in Nat
    BY <2>2
  <2>4. \A b \in conf[act] : <<act, b>> \in S
    BY <1>2, <1>3, PermitFacts
  <2> HIDE DEF act, pol
  <2>5. /\ task' \in Locals /\ task'.id = task.id /\ task'.act = conf[act]
        /\ task'.ctl = task.ctl /\ task'.gbl = task.gbl /\ task'.matched = task.matched
        /\ task'.pols = task.pols
    BY <1>1, <2>1, <2>2, <2>3 DEF Locals
  <2>6. Loops("global", task')
    BY <1>1, <2>5 DEF Loops, FilterPCs, AlertPCs, PolicyPCs
  <2>7. Passed("global", task', acts)
    BY <1>1, <2>5 DEF Passed, FilterPCs, AlertPCs, PolicyPCs, EarlierFilter
  <2>8. Allowed("global", task', S)
    BY <1>1, <2>4, <2>5 DEF Allowed, FilterPCs, AlertPCs, PolicyPCs, act
  <2> QED BY <2>1, <2>5, <2>6, <2>7, <2>8 DEF Goes, Running, TaskPCs, FilterPCs
<1>4. CASE ~Serves(act)
  BY <1>4 DEF EntryRead, Finish, Goes
<1> QED BY <1>3, <1>4

\* GlobalRead: the branch the global control allows.
LEMMA GlobalReadGoes ==
  ASSUME TypeInv, NEW S, Permits \subseteq S, acts \in Seq(Actions),
         Running(pc, task, acts, S), GlobalRead
  PROVE  Goes(task.id, acts, S)
<1> DEFINE t == [task EXCEPT !.gbl = conf[PEFActionGblControl]]
           enabled == t.act \cap t.gbl
<1>1. pc = "global" /\ task \in Locals /\ Loops(pc, task) /\ Passed(pc, task, acts)
      /\ Allowed(pc, task, S)
  BY DEF Running, GlobalRead
<1>2. CASE Serves(PEFActionGblControl)
  <2>1. conf[PEFActionGblControl] \in SUBSET ActionBits
    BY TableFacts, ValueFacts DEF TypeInv, ConfType
  <2>2. \A b \in conf[PEFActionGblControl] : <<PEFActionGblControl, b>> \in S
    BY <1>2, PermitFacts
  <2>3. IF "off" \in enabled THEN pc' = "off" /\ task' = t
        ELSE IF enabled \cap {"cycle", "reset"} # {} THEN pc' = "power" /\ task' = t
        ELSE AlertBranch(t)
    BY <1>2 DEF GlobalRead
  <2>4. /\ t \in Locals /\ t.id = task.id /\ t.act = task.act
        /\ t.gbl = conf[PEFActionGblControl]
        /\ t.ctl = task.ctl /\ t.matched = task.matched /\ t.pols = task.pols
    BY <1>1, <2>1 DEF Locals
  <2> HIDE DEF t
  <2>5. \A p \in {"global", "off", "power"} : Loops(p, t)
    BY <1>1, <2>4 DEF Loops, FilterPCs, AlertPCs, PolicyPCs
  <2>6. \A p \in {"global", "off", "power"} : Passed(p, t, acts)
    BY <1>1, <2>4 DEF Passed, FilterPCs, AlertPCs, PolicyPCs, EarlierFilter
  <2>7. /\ Allowed("global", t, S)
        /\ "off" \in enabled => Allowed("off", t, S)
        /\ enabled \cap {"cycle", "reset"} # {} => Allowed("power", t, S)
    BY <1>1, <2>2, <2>4 DEF Allowed, FilterPCs, AlertPCs, PolicyPCs
  <2>8. CASE "off" \in enabled \/ enabled \cap {"cycle", "reset"} # {}
    BY <2>3, <2>4, <2>5, <2>6, <2>7, <2>8 DEF Goes, Running, TaskPCs, FilterPCs
  <2>9. CASE ~("off" \in enabled \/ enabled \cap {"cycle", "reset"} # {})
    <3>1. AlertBranch(t)
      BY <2>3, <2>9
    <3>2. \A k \in DOMAIN acts : acts[k].id = t.id =>
            EarlierFilter(acts[k], t) \/ PowerAction(acts[k], t)
      BY <2>6 DEF Passed, AlertPCs, PolicyPCs
    <3> QED BY <2>4, <2>5, <2>7, <3>1, <3>2, AlertBranchGoes
  <2> QED BY <2>8, <2>9
<1>3. CASE ~Serves(PEFActionGblControl)
  BY <1>3 DEF GlobalRead, Finish, Goes
<1> QED BY <1>2, <1>3

\* PowerOff, Reset: the power action is the first of its filter.
LEMMA PowerGoes ==
  ASSUME NEW S, acts \in Seq(Actions), Running(pc, task, acts, S),
         NEW kind \in {"off", "reset"}, pc = kind,
         \/ Perform(kind) /\ AlertBranch(task)
         \/ Finish /\ UNCHANGED acts
  PROVE  Goes(task.id, acts', S) /\ acts' \in Seq(Actions)
<1>1. task \in Locals /\ Loops(pc, task) /\ Passed(pc, task, acts) /\ Allowed(pc, task, S)
      /\ pc \in FilterPCs /\ pc \notin AlertPCs /\ pc \in {"off", "reset"}
  BY DEF Running, FilterPCs, AlertPCs, PolicyPCs
<1>2. CASE Perform(kind) /\ AlertBranch(task)
  <2>1. /\ acts' \in Seq(Actions)
        /\ \A k \in DOMAIN acts' :
             (k \in DOMAIN acts /\ acts'[k] = acts[k]) \/ acts'[k] = NewAction(kind)
    BY <1>1, <1>2, PerformAppends
  <2>2. \A k \in DOMAIN acts : acts[k].id = task.id => EarlierFilter(acts[k], task)
    BY <1>1 DEF Passed, AlertPCs, PolicyPCs
  <2>3. PowerAction(NewAction(kind), task)
    BY DEF PowerAction, NewAction
  <2>4. \A k \in DOMAIN acts' : acts'[k].id = task.id =>
          EarlierFilter(acts'[k], task) \/ PowerAction(acts'[k], task)
    BY <2>1, <2>2, <2>3
  <2> QED BY <1>1, <1>2, <2>1, <2>4, AlertBranchGoes
<1>3. CASE Finish /\ UNCHANGED acts
  BY <1>3 DEF Finish, Goes
<1> QED BY <1>2, <1>3

\* GetPowerStatus: reset, or the alert branch without any power action.
LEMMA GetPowerStatusGoes ==
  ASSUME NEW S, acts \in Seq(Actions), Running(pc, task, acts, S), GetPowerStatus
  PROVE  Goes(task.id, acts, S)
<1>1. pc = "power" /\ task \in Locals /\ Loops(pc, task) /\ Passed(pc, task, acts)
      /\ Allowed(pc, task, S)
  BY DEF Running, GetPowerStatus
<1>2. CASE pc' = "reset" /\ UNCHANGED task
  <2>1. Loops("reset", task)
    BY <1>1 DEF Loops, FilterPCs, AlertPCs, PolicyPCs
  <2>2. Passed("reset", task, acts)
    BY <1>1 DEF Passed, FilterPCs, AlertPCs, PolicyPCs
  <2>3. Allowed("reset", task, S)
    BY <1>1 DEF Allowed, FilterPCs, AlertPCs, PolicyPCs
  <2> QED BY <1>1, <1>2, <2>1, <2>2, <2>3 DEF Goes, Running, TaskPCs, FilterPCs
<1>3. CASE AlertBranch(task)
  <2>1. \A k \in DOMAIN acts : acts[k].id = task.id =>
          EarlierFilter(acts[k], task) \/ PowerAction(acts[k], task)
    BY <1>1 DEF Passed, AlertPCs, PolicyPCs
  <2> QED BY <1>1, <1>3, <2>1, AlertBranchGoes
<1> QED BY <1>2, <1>3 DEF GetPowerStatus

\* PolicyScan: an enabled entry is appended to smaller ones.
LEMMA PolicyScanGoes ==
  ASSUME TypeInv, NEW S, Permits \subseteq S, Running(pc, task, acts, S), PolicyScan
  PROVE  Goes(task.id, acts, S)
<1> DEFINE NUM == NUM_OF_ALERT_POLICY
           n == task.pol + task.idx * NUM
           on == /\ Serves(PolicyEntry(n, "AlertNum"))
                 /\ "enable" \in conf[PolicyEntry(n, "AlertNum")]
           new == IF on THEN Append(task.pols, n) ELSE task.pols
<1>1. pc = "policies" /\ task \in Locals /\ Loops(pc, task) /\ Passed(pc, task, acts)
      /\ Allowed(pc, task, S)
  BY DEF Running, PolicyScan
<1>2. task.idx \in Nat /\ task.pol \in Nat /\ task.pols \in Seq(Nat)
  BY <1>1 DEF Locals
<1>3. /\ NUM \in Nat /\ NUM > 0
      /\ n \in Nat /\ task.idx + 1 \in Nat
      /\ task.pol + (task.idx + 1) * NUM = n + NUM
  <2>1. NUM \in Nat /\ NUM > 0
    BY TaskAssumption
  <2>2. \A i, m \in Nat : i * m \in Nat /\ (i + 1) * m = i * m + m
    OBVIOUS
  <2>3. task.idx * NUM \in Nat /\ (task.idx + 1) * NUM = task.idx * NUM + NUM
    BY <1>2, <2>1, <2>2
  <2>4. PICK p, q : p = task.idx * NUM /\ q = (task.idx + 1) * NUM
    OBVIOUS
  <2>5. p \in Nat /\ q = p + NUM
    BY <2>3, <2>4
  <2> HIDE DEF NUM
  <2>6. task.pol + p \in Nat /\ task.pol + q = (task.pol + p) + NUM /\ task.idx + 1 \in Nat
    BY <1>2, <2>1, <2>5
  <2> QED BY <2>1, <2>4, <2>6
<1>4. pc' = "policies" /\ task' = [task EXCEPT !.idx = task.idx + 1, !.pols = new]
  BY <1>1 DEF PolicyScan
<1>5. on => n \in PolicyEntries
  <2>1. Serves(PolicyEntry(n, "AlertNum")) => PolicyEntry(n, "AlertNum") \in Props
    BY DEF Serves, Props
  <2> QED BY <2>1, TableFacts
<1> HIDE DEF n, NUM
<1>6. new \in Seq(Nat) /\ Rising(new) /\ \A i \in DOMAIN new : new[i] < n + NUM
  <2>1. Rising(task.pols) /\ \A i \in DOMAIN task.pols : task.pols[i] < n
    BY <1>1 DEF Loops, AlertPCs, n, NUM
  <2>2. CASE on
    <3>1. /\ Append(task.pols, n) \in Seq(Nat) /\ Rising(Append(task.pols, n))
          /\ \A i \in DOMAIN Append(task.pols, n) : Append(task.pols, n)[i] <= n
      BY <1>2, <1>3, <2>1, RisingAppend
    <3>2. new = Append(task.pols, n)
      BY <2>2
    <3> HIDE DEF new
    <3> QED BY <1>3, <3>1, <3>2
  <2>3. CASE ~on
    BY <1>2, <1>3, <2>1, <2>3
  <2> QED BY <2>2, <2>3
<1>7. \A i \in DOMAIN new : <<PolicyEntry(new[i], "AlertNum"), "enable">> \in S
  <2>1. \A i \in DOMAIN task.pols : <<PolicyEntry(task.pols[i], "AlertNum"), "enable">> \in S
    BY <1>1 DEF Allowed
  <2>2. CASE on
    <3>1. <<PolicyEntry(n, "AlertNum"), "enable">> \in S
      BY <1>5, <2>2, PermitFacts
    <3>2. \A i \in DOMAIN Append(task.pols, n) :
            (i \in DOMAIN task.pols /\ Append(task.pols, n)[i] = task.pols[i])
              \/ Append(task.pols, n)[i] = n
      <4>1. n \in Nat
        BY <1>3
      <4> QED BY <1>2, <4>1
    <3>3. \A i \in DOMAIN Append(task.pols, n) :
            <<PolicyEntry(Append(task.pols, n)[i], "AlertNum"), "enable">> \in S
      BY <2>1, <3>1, <3>2, Zenon
    <3> QED BY <2>2, <3>3
  <2>3. CASE ~on
    BY <2>1, <2>3
  <2> QED BY <2>2, <2>3
<1> HIDE DEF new, on
<1>8. /\ task' \in Locals /\ task'.id = task.id /\ task'.idx = task.idx + 1
      /\ task'.pol = task.pol /\ task'.pols = new /\ task'.matched = task.matched
      /\ task'.ctl = task.ctl /\ task'.gbl = task.gbl /\ task'.act = task.act
  BY <1>1, <1>3, <1>4, <1>6 DEF Locals
<1>9. Loops("policies", task')
  <2>1. task'.pol + task'.idx * NUM_OF_ALERT_POLICY = n + NUM
    BY <1>3, <1>8 DEF NUM
  <2> QED BY <1>1, <1>6, <1>8, <2>1 DEF Loops, FilterPCs, AlertPCs, PolicyPCs
<1>10. Passed("policies", task', acts)
  BY <1>1, <1>8 DEF Passed, FilterPCs, AlertPCs, PolicyPCs, EarlierFilter, PowerAction
<1>11. Allowed("policies", task', S)
  BY <1>1, <1>7, <1>8 DEF Allowed, FilterPCs, AlertPCs, PolicyPCs
<1> QED BY <1>4, <1>8, <1>9, <1>10, <1>11 DEF Goes, Running, TaskPCs, FilterPCs, AlertPCs

\* PolicyScanEnd: the first enabled policy entry, or the next filter.
LEMMA PolicyScanEndGoes ==
  ASSUME NEW S, acts \in Seq(Actions), Running(pc, task, acts, S), PolicyScanEnd
  PROVE  Goes(task.id, acts, S)
<1>1. pc = "policies" /\ task \in Locals /\ Loops(pc, task) /\ Passed(pc, task, acts)
      /\ Allowed(pc, task, S)
  BY DEF Running, PolicyScanEnd
<1>2. \A k \in DOMAIN acts : acts[k].id = task.id =>
        EarlierFilter(acts[k], task) \/ PowerAction(acts[k], task)
  BY <1>1 DEF Passed, PolicyPCs
<1>3. CASE task.pols = <<>>
  <2>1. NextFilter(task)
    BY <1>3 DEF PolicyScanEnd
  <2>2. \A k \in DOMAIN acts : acts[k].id = task.id => acts[k].filter <= Head(task.matched)
    <3> SUFFICES ASSUME NEW k \in DOMAIN acts, acts[k].id = task.id
                 PROVE  acts[k].filter <= Head(task.matched)
      OBVIOUS
    <3>1. acts[k].filter \in Nat
      BY ActionTypes
    <3>2. Head(task.matched) \in Nat
      <4>1. task.matched \in Seq(FilterEntries) /\ task.matched # <<>>
        BY <1>1 DEF Locals, Loops, FilterPCs, AlertPCs
      <4> QED BY <4>1, FilterNumbers
    <3> QED BY <1>2, <3>1, <3>2 DEF EarlierFilter, PowerAction
  <2>3. pc \in FilterPCs
    BY <1>1 DEF FilterPCs, AlertPCs
  <2> QED BY <1>1, <2>1, <2>2, <2>3, NextFilterGoes
<1>4. CASE task.pols # <<>>
  <2>1. pc' = "policy" /\ task' = task
    BY <1>4 DEF PolicyScanEnd
  <2>2. Loops("policy", task)
    BY <1>1, <1>4 DEF Loops, FilterPCs, AlertPCs, PolicyPCs
  <2>3. Passed("policy", task, acts)
    BY <1>2 DEF Passed, FilterPCs, AlertPCs, PolicyPCs
  <2>4. Allowed("policy", task, S)
    BY <1>1 DEF Allowed, FilterPCs, AlertPCs, PolicyPCs
  <2> QED BY <1>1, <2>1, <2>2, <2>3, <2>4
          DEF Goes, Running, TaskPCs, FilterPCs, AlertPCs, PolicyPCs
<1> QED BY <1>3, <1>4

\* The actions before the entry in hand are those of the entry done with it.
LEMMA PolicyPassed ==
  ASSUME NEW t \in Locals, NEW A \in Seq(Actions), NEW p \in {"policy", "dest", "trap", "recipient"},
         Loops(p, t), Passed(p, t, A)
  PROVE  \A k \in DOMAIN A : A[k].id = t.id =>
           \/ EarlierFilter(A[k], t) \/ PowerAction(A[k], t)
           \/ A[k].filter = Head(t.matched) /\ A[k].policy <= Head(t.pols)
<1> SUFFICES ASSUME NEW k \in DOMAIN A, A[k].id = t.id
             PROVE  \/ EarlierFilter(A[k], t) \/ PowerAction(A[k], t)
                    \/ A[k].filter = Head(t.matched) /\ A[k].policy <= Head(t.pols)
  OBVIOUS
<1>1. EarlierFilter(A[k], t) \/ PowerAction(A[k], t) \/ EarlierPolicy(A[k], t)
  BY DEF Passed
<1>2. A[k].policy \in Nat
  BY ActionTypes
<1>3. Head(t.pols) \in Nat
  <2>1. t.pols \in Seq(Nat) /\ t.pols # <<>>
    BY DEF Locals, Loops, PolicyPCs
  <2> QED BY <2>1
<1>4. \A x, y \in Nat : x < y => x <= y
  OBVIOUS
<1> QED BY <1>1, <1>2, <1>3, <1>4, Zenon DEF EarlierPolicy

\* Another control point of the same policy entry.
LEMMA SamePolicyGoes ==
  ASSUME NEW t \in Locals, NEW A, NEW S, NEW p \in {"policy", "dest", "recipient"},
         Loops(p, t), Passed(p, t, A), Allowed(p, t, S),
         pc' \in {"dest", "trap", "recipient", "mail"}, task' \in Locals,
         task'.id = t.id, task'.matched = t.matched, task'.pols = t.pols, task'.act = t.act,
         task'.gbl = t.gbl, task'.ctl = t.ctl, pc' = "mail" => task'.recs # <<>>
  PROVE  Goes(t.id, A, S)
<1>1. Loops(pc', task')
  BY DEF Loops, FilterPCs, AlertPCs, PolicyPCs
<1>2. Passed(pc', task', A)
  BY DEF Passed, FilterPCs, AlertPCs, PolicyPCs, EarlierFilter, PowerAction, EarlierPolicy
<1>3. Allowed(pc', task', S)
  BY DEF Allowed, FilterPCs, AlertPCs, PolicyPCs
<1>4. pc' \in TaskPCs
  BY DEF TaskPCs, FilterPCs, AlertPCs, PolicyPCs
<1> QED BY <1>1, <1>2, <1>3, <1>4 DEF Goes, Running

\* PolicyRead, DestRead, RecipientRead: on with the entry, or with the next one.
LEMMA PolicyReadGoes ==
  ASSUME TypeInv, NEW S, acts \in Seq(Actions), Running(pc, task, acts, S),
         PolicyRead \/ DestRead \/ RecipientRead
  PROVE  Goes(task.id, acts, S)
<1>1. task \in Locals /\ Loops(pc, task) /\ Passed(pc, task, acts) /\ Allowed(pc, task, S)
      /\ pc \in {"policy", "dest", "recipient"} /\ pc \in PolicyPCs
  BY DEF Running, PolicyRead, DestRead, RecipientRead, PolicyPCs
<1>2. CASE NextPolicy(task)
  BY <1>1, <1>2, PolicyPassed, NextPolicyGoes
<1>3. CASE Finish
  BY <1>3 DEF Finish, Goes
<1>4. CASE pc' \in {"trap", "recipient"} /\ UNCHANGED task
  BY <1>1, <1>4, SamePolicyGoes
<1>5. ASSUME pc' = "dest",
             task' = [task EXCEPT !.dest =
                        conf[PolicyEntry(Head(task.pols), "ChannelDestSel")] % 8],
             Serves(PolicyEntry(Head(task.pols), "AlertNum"))
      PROVE  Goes(task.id, acts, S)
  <2> DEFINE n == Head(task.pols)
             sel == PolicyEntry(n, "ChannelDestSel")
  <2>1. n \in PolicyEntries
    <3>1. Serves(PolicyEntry(n, "AlertNum")) => PolicyEntry(n, "AlertNum") \in Props
      BY DEF Serves, Props
    <3> QED BY <1>5, <3>1, TableFacts
  <2>2. conf[sel] \in Nat
    BY <2>1, TableFacts, ValueFacts DEF TypeInv, ConfType, PolicyNames
  <2>3. conf[sel] % 8 \in Nat
    BY <2>2
  <2> HIDE DEF sel
  <2>4. task' = [task EXCEPT !.dest = conf[sel] % 8]
    BY <1>5 DEF sel
  <2>5. /\ task' \in Locals /\ task'.id = task.id /\ task'.matched = task.matched
        /\ task'.pols = task.pols /\ task'.act = task.act /\ task'.gbl = task.gbl
        /\ task'.ctl = task.ctl
    BY <1>1, <2>3, <2>4 DEF Locals
  <2> QED BY <1>1, <1>5, <2>5, SamePolicyGoes
<1>6. ASSUME pc' = "mail", task' = [task EXCEPT !.recs = conf[Recipient]],
             conf[Recipient] # <<>>
      PROVE  Goes(task.id, acts, S)
  <2>1. conf[Recipient] \in Seq(STRING)
    BY TableFacts, ValueFacts DEF TypeInv, ConfType
  <2>2. /\ task' \in Locals /\ task'.id = task.id /\ task'.matched = task.matched
        /\ task'.pols = task.pols /\ task'.act = task.act /\ task'.gbl = task.gbl
        /\ task'.ctl = task.ctl /\ task'.recs = conf[Recipient]
    BY <1>1, <1>6, <2>1 DEF Locals
  <2> QED BY <1>1, <1>6, <2>2, SamePolicyGoes
<1>7. CASE PolicyRead
  BY <1>2, <1>3, <1>5, <1>7 DEF PolicyRead
<1>8. CASE DestRead
  <2> DEFINE type == IF Serves(DestEntry(task.dest)) THEN conf[DestEntry(task.dest)] ELSE 0
  <2>1. CASE type = 1 \/ type = 0
    BY <1>4, <1>8, <2>1 DEF DestRead
  <2>2. CASE ~(type = 1 \/ type = 0)
    BY <1>2, <1>8, <2>2 DEF DestRead
  <2> QED BY <2>1, <2>2
<1>9. CASE RecipientRead
  BY <1>2, <1>3, <1>6, <1>9 DEF RecipientRead
<1> QED BY <1>7, <1>8, <1>9

\* SendTrap: the trap is the only action of its policy entry.
LEMMA SendTrapGoes ==
  ASSUME NEW S, acts \in Seq(Actions), Running(pc, task, acts, S), SendTrap
  PROVE  Goes(task.id, acts', S) /\ acts' \in Seq(Actions)
<1>1. task \in Locals /\ Loops(pc, task) /\ Passed(pc, task, acts) /\ Allowed(pc, task, S)
      /\ pc = "trap" /\ pc \in PolicyPCs /\ pc \in FilterPCs /\ NextPolicy(task)
  BY DEF Running, SendTrap, FilterPCs, AlertPCs, PolicyPCs
<1>2. \A k \in DOMAIN acts : acts[k].id = task.id =>
        \/ EarlierFilter(acts[k], task) \/ PowerAction(acts[k], task)
        \/ acts[k].filter = Head(task.matched) /\ acts[k].policy <= Head(task.pols)
  BY <1>1, PolicyPassed
<1>3. CASE Perform("trap")
  <2>1. /\ acts' \in Seq(Actions)
        /\ \A k \in DOMAIN acts' :
             (k \in DOMAIN acts /\ acts'[k] = acts[k]) \/ acts'[k] = NewAction("trap")
    BY <1>1, <1>3, PerformAppends
  <2>2. NewAction("trap").filter = Head(task.matched)
        /\ NewAction("trap").policy <= Head(task.pols)
    <3>1. task.pols \in Seq(Nat) /\ task.pols # <<>>
      BY <1>1 DEF Locals, Loops
    <3>2. Head(task.pols) \in Nat
      BY <3>1
    <3> QED BY <3>2 DEF NewAction
  <2>3. \A k \in DOMAIN acts' : acts'[k].id = task.id =>
          \/ EarlierFilter(acts'[k], task) \/ PowerAction(acts'[k], task)
          \/ acts'[k].filter = Head(task.matched) /\ acts'[k].policy <= Head(task.pols)
    BY <1>2, <2>1, <2>2
  <2> QED BY <1>1, <2>1, <2>3, NextPolicyGoes
<1>4. CASE UNCHANGED acts
  BY <1>1, <1>2, <1>4, NextPolicyGoes
<1> QED BY <1>3, <1>4 DEF SendTrap

\* SendMail: the mail to the recipient in hand, or on with the next one.
LEMMA SendMailGoes ==
  ASSUME NEW S, acts \in Seq(Actions), Running(pc, task, acts, S), SendMail
  PROVE  Goes(task.id, acts', S) /\ acts' \in Seq(Actions)
<1>1. task \in Locals /\ Loops(pc, task) /\ Passed(pc, task, acts) /\ Allowed(pc, task, S)
      /\ pc = "mail" /\ pc \in PolicyPCs /\ pc \in FilterPCs
  BY DEF Running, SendMail, FilterPCs, AlertPCs, PolicyPCs
<1>2. Len(task.recs) \in Nat
  <2>1. task.recs \in Seq(STRING)
    BY <1>1 DEF Locals
  <2> QED BY <2>1, LenProperties
<1>3. \A k \in DOMAIN acts : acts[k].id = task.id =>
        \/ EarlierFilter(acts[k], task) \/ PowerAction(acts[k], task)
        \/ EarlierPolicy(acts[k], task) \/ MailBefore(acts[k], task, Len(task.recs) - 1)
  <2> SUFFICES ASSUME NEW k \in DOMAIN acts, acts[k].id = task.id
               PROVE  \/ EarlierFilter(acts[k], task) \/ PowerAction(acts[k], task)
                      \/ EarlierPolicy(acts[k], task)
                      \/ MailBefore(acts[k], task, Len(task.recs) - 1)
    OBVIOUS
  <2>1. acts[k].left \in Nat
    BY ActionTypes
  <2>2. \A x, y \in Nat : x > y => x > y - 1
    OBVIOUS
  <2>3. MailBefore(acts[k], task, Len(task.recs))
          => MailBefore(acts[k], task, Len(task.recs) - 1)
    BY <1>2, <2>1, <2>2, Zenon DEF MailBefore
  <2> QED BY <1>1, <2>3 DEF Passed
<1>4. CASE Perform("mail") /\ pc' = "last" /\ UNCHANGED task
  <2>1. /\ acts' \in Seq(Actions)
        /\ \A k \in DOMAIN acts' :
             (k \in DOMAIN acts /\ acts'[k] = acts[k]) \/ acts'[k] = NewAction("mail")
    BY <1>1, <1>4, PerformAppends
  <2>2. MailBefore(NewAction("mail"), task, Len(task.recs) - 1)
    <3>1. \A x \in Nat : x > x - 1
      OBVIOUS
    <3>2. Len(task.recs) > Len(task.recs) - 1
      BY <1>2, <3>1, Zenon
    <3> QED BY <3>2 DEF MailBefore, NewAction
  <2>3. Passed("last", task, acts')
    BY <1>3, <2>1, <2>2 DEF Passed, FilterPCs, AlertPCs, PolicyPCs
  <2>4. Loops("last", task)
    BY <1>1 DEF Loops, FilterPCs, AlertPCs, PolicyPCs
  <2>5. Allowed("last", task, S)
    BY <1>1 DEF Allowed, FilterPCs, AlertPCs, PolicyPCs
  <2> QED BY <1>1, <1>4, <2>1, <2>3, <2>4, <2>5
          DEF Goes, Running, TaskPCs, FilterPCs, AlertPCs, PolicyPCs
<1>5. CASE NextRecipient(task) /\ UNCHANGED acts
  BY <1>1, <1>3, <1>5, NextRecipientGoes
<1> QED BY <1>4, <1>5 DEF SendMail

\* SetLastProcessed: on with the next recipient.
LEMMA SetLastProcessedGoes ==
  ASSUME NEW S, acts \in Seq(Actions), Running(pc, task, acts, S), SetLastProcessed
  PROVE  Goes(task.id, acts, S)
<1>1. task \in Locals /\ Loops(pc, task) /\ Passed(pc, task, acts) /\ Allowed(pc, task, S)
      /\ pc = "last" /\ NextRecipient(task)
  BY DEF Running, SetLastProcessed
<1>2. \A k \in DOMAIN acts : acts[k].id = task.id =>
        \/ EarlierFilter(acts[k], task) \/ PowerAction(acts[k], task)
        \/ EarlierPolicy(acts[k], task) \/ MailBefore(acts[k], task, Len(task.recs) - 1)
  BY <1>1 DEF Passed
<1> QED BY <1>1, <1>2, NextRecipientGoes

-----------------------------------------------------------------------------
(* The tasks among the other steps. *)

\* The steps of the property server and the monitors other than DaemonCrash.
QuietNext ==
  \/ ConfNext /\ UNCHANGED <<timer, data>>
  \/ Monitors \/ SaveOpenFails \/ SaveWriteFails \/ DaemonStart

\* A step is one of those, a crash, one of a task, or a new event.
LEMMA NextCases ==
  ASSUME Next
  PROVE  /\ Observe
         /\ \/ QuietNext /\ UNCHANGED <<task, nextId, acts>>
            \/ DaemonCrash /\ task' = NoTask /\ UNCHANGED <<nextId, acts>>
            \/ Task
            \/ \E msg \in Events : SendEvent(msg)
  BY DEF Next, Daemon, Environment, Restart, QuietNext

\* What a step of a task leaves alone, and where it is.
LEMMA TaskControl ==
  ASSUME Task
  PROVE  /\ pc \notin {"count", "write", "down"} /\ pc' \notin {"count", "write"}
         /\ UNCHANGED otherVars
         /\ \/ UNCHANGED <<conf, inbox, lost>>
            \/ PefTaskBegin
            \/ SetLastProcessed /\ SetProperty(LastBMCProcessedEventID, task.id)
         /\ acts' = acts \/ (pc \in {"off", "reset", "mail", "trap"} /\ Perform(pc))
<1> USE DEF Finish, NextFilter, NextPolicy, NextRecipient, AlertBranch, ConfRead
<1>1. CASE PefTaskBegin
  BY <1>1 DEF PefTaskBegin
<1>2. CASE PostponeRead
  BY <1>2 DEF PostponeRead
<1>3. CASE FilterScan \/ FilterScanEnd
  BY <1>3 DEF FilterScan, FilterScanEnd
<1>4. CASE EntryRead
  BY <1>4 DEF EntryRead
<1>5. CASE GlobalRead
  BY <1>5 DEF GlobalRead
<1>6. CASE PowerOff \/ Reset
  BY <1>6 DEF PowerOff, Reset
<1>7. CASE GetPowerStatus
  BY <1>7 DEF GetPowerStatus
<1>8. CASE PolicyScan \/ PolicyScanEnd
  BY <1>8 DEF PolicyScan, PolicyScanEnd
<1>9. CASE PolicyRead \/ RecipientRead
  BY <1>9 DEF PolicyRead, RecipientRead
<1>10. CASE DestRead
  BY <1>10 DEF DestRead
<1>11. CASE SendTrap
  BY <1>11 DEF SendTrap
<1>12. CASE SendMail
  BY <1>12 DEF SendMail
<1>13. CASE SetLastProcessed
  BY <1>13 DEF SetLastProcessed
<1> QED BY <1>1, <1>2, <1>3, <1>4, <1>5, <1>6, <1>7, <1>8, <1>9, <1>10, <1>11, <1>12, <1>13
        DEF Task

\* A running task goes on in order, or ends.
LEMMA TaskGoes ==
  ASSUME TypeInv, NEW S, Permits \subseteq S, acts \in Seq(Actions),
         Running(pc, task, acts, S), Task
  PROVE  Goes(task.id, acts', S) /\ acts' \in Seq(Actions)
<1>1. ~PefTaskBegin
  BY DEF PefTaskBegin, Running, TaskPCs, FilterPCs, AlertPCs, PolicyPCs
<1>2. CASE PowerOff \/ Reset
  BY <1>2, PowerGoes DEF PowerOff, Reset
<1>3. CASE SendTrap \/ SendMail
  BY <1>3, SendTrapGoes, SendMailGoes
<1>4. CASE ~(PowerOff \/ Reset \/ SendTrap \/ SendMail)
  <2>1. acts' = acts
    BY <1>1, <1>4 DEF Task, PostponeRead, FilterScan, FilterScanEnd, EntryRead, GlobalRead,
       GetPowerStatus, PolicyScan, PolicyScanEnd, PolicyRead, DestRead, RecipientRead,
       SetLastProcessed, ConfRead
  <2>2. Goes(task.id, acts, S)
    BY <1>1, <1>4, PostponeReadGoes, FilterScanGoes, FilterScanEndGoes, EntryReadGoes,
       GlobalReadGoes, GetPowerStatusGoes, PolicyScanGoes, PolicyScanEndGoes, PolicyReadGoes,
       SetLastProcessedGoes DEF Task
  <2> QED BY <2>1, <2>2
<1> QED BY <1>2, <1>3, <1>4

\* A step of a task keeps the monitors' invariant.
LEMMA TaskIInv ==
  ASSUME IInv, TaskInv, Task
  PROVE  IInv'
<1>1. /\ pc \notin {"count", "write"} /\ pc' \notin {"count", "write"}
      /\ UNCHANGED <<confState, file, writes, faults, timer, data>>
  BY TaskControl DEF otherVars
<1>2. WriteMeansTorn' /\ TornOnlyByFault'
  BY <1>1 DEF IInv, WriteMeansTorn, TornOnlyByFault
<1>3. CASE UNCHANGED <<conf, inbox, lost>>
  <2>1. TypeInv'
    BY <1>1, <1>3 DEF IInv, TypeInv, ConfType, DocType, QueueType, CounterType
  <2>2. SaveInv' /\ ArmInv'
    BY <1>1, <1>3 DEF IInv, SaveInv, ArmInv, Document
  <2> QED BY <1>2, <2>1, <2>2 DEF IInv
<1>4. CASE PefTaskBegin
  <2>1. inbox # <<>> /\ Head(inbox).kind = "event" /\ inbox' = Tail(inbox)
        /\ UNCHANGED <<conf, lost>>
    BY <1>4 DEF PefTaskBegin
  <2>2. TypeInv'
    <3>1. QueueType'
      BY <2>1, HeadType DEF IInv, TypeInv, QueueType
    <3> QED BY <1>1, <2>1, <3>1 DEF IInv, TypeInv, ConfType, DocType, CounterType
  <2>3. \A p : ~IsSignal(Head(inbox), p)
    BY <2>1 DEF IsSignal
  <2>4. SaveInv'
    BY <1>1, <2>1, <2>3, TakeSave DEF IInv
  <2>5. ArmInv'
    BY <1>1, <2>1, <2>3, TakeArm DEF IInv
  <2> QED BY <1>2, <2>2, <2>4, <2>5 DEF IInv
<1>5. CASE SetLastProcessed /\ SetProperty(LastBMCProcessedEventID, task.id)
  <2>1. task.id \in Values(LastBMCProcessedEventID) /\ LastBMCProcessedEventID \in Props
    <3>1. task \in Locals
      BY <1>5 DEF SetLastProcessed, TaskInv, MonitorPCs, Running
    <3>2. task.id \in Nat
      BY <3>1, TaskAssumption DEF Locals
    <3> QED BY <3>2, TableFacts, ValueFacts
  <2>2. TypeInv'
    <3>1. ConfType' /\ QueueType' /\ lost' \subseteq Watched
      BY <1>5, <2>1, SetPropertyType DEF IInv, TypeInv
    <3> QED BY <1>1, <3>1 DEF IInv, TypeInv, DocType, CounterType
  <2>3. SaveInv'
    BY <1>1, <1>5, <2>1, SetPropertySave DEF IInv
  <2>4. ArmInv'
    BY <1>1, <1>5, <2>1, SetPropertyArm DEF IInv
  <2> QED BY <1>2, <2>2, <2>3, <2>4 DEF IInv
<1> QED BY <1>3, <1>4, <1>5, TaskControl

\* A new event keeps the monitors' invariant.
LEMMA SendEventIInv ==
  ASSUME IInv, nextId \in 1..(MaxEvents + 1), NEW msg \in Events, SendEvent(msg)
  PROVE  IInv'
<1> DEFINE m == [kind |-> "event", id |-> nextId, msg |-> msg]
<1>1. UNCHANGED <<confState, conf, file, pc, lost, writes, faults, timer, data>>
  BY DEF SendEvent
<1>2. CASE inbox' = inbox
  BY <1>1, <1>2 DEF IInv, TypeInv, ConfType, DocType, QueueType, CounterType,
                    WriteMeansTorn, TornOnlyByFault, SaveInv, ArmInv, Document
<1>3. CASE inbox' = Append(inbox, m)
  <2>1. m \in Messages
    <3>1. nextId \in 1..MaxEvents
      BY TaskAssumption DEF SendEvent
    <3>2. m \in Calls
      BY <3>1, TaskAssumption
    <3> QED BY <3>2 DEF Messages
  <2>2. \A p : ~IsSignal(m, p)
    BY DEF IsSignal
  <2> HIDE DEF m
  <2>3. inbox \in Seq(Messages)
    BY DEF IInv, TypeInv, QueueType
  <2>4. TypeInv'
    <3>1. QueueType'
      BY <1>3, <2>1, <2>3 DEF QueueType
    <3> QED BY <1>1, <3>1 DEF IInv, TypeInv, ConfType, DocType, CounterType
  <2>5. SaveInv'
    <3>1. \A p, v : /\ LatestIs(inbox, p, v) => LatestIs(inbox', p, v)
                    /\ HasSignal(inbox, p) => HasSignal(inbox', p)
      BY <1>3, <2>1, <2>2, <2>3, AppendOther
    <3> QED BY <1>1, <3>1 DEF IInv, SaveInv, Document
  <2>6. ArmInv'
    <3>1. \A n : Holds(inbox, n) => Holds(inbox', n)
      BY <1>3, <2>1, <2>3, HoldsFacts
    <3> QED BY <1>1, <3>1 DEF IInv, ArmInv
  <2> QED BY <1>1, <2>4, <2>5, <2>6 DEF IInv, WriteMeansTorn, TornOnlyByFault
<1> QED BY <1>2, <1>3 DEF SendEvent

-----------------------------------------------------------------------------
(* What is new about a performed action. *)

\* The action is new: nothing like it was performed for this event, and no
\* other power action for this filter.
LEMMA ActionIsNew ==
  ASSUME NEW S, acts \in Seq(Actions), Running(pc, task, acts, S),
         pc \in {"off", "reset", "mail", "trap"}, NEW k \in DOMAIN acts
  PROVE  /\ acts[k] # NewAction(pc)
         /\ (acts[k].id = task.id /\ acts[k].filter = Head(task.matched))
              => {acts[k].kind, pc} # {"off", "reset"}
<1> DEFINE a == acts[k]
           f == Head(task.matched)
<1>1. task \in Locals /\ Loops(pc, task) /\ Passed(pc, task, acts)
  BY DEF Running
<1>2. /\ a.filter \in Nat /\ a.policy \in Nat /\ a.left \in Nat
      /\ a.kind \in {"off", "reset", "mail", "trap"}
  BY ActionTypes
<1>3. f \in Nat
  <2>1. task.matched \in Seq(FilterEntries) /\ task.matched # <<>>
    BY <1>1 DEF Locals, Loops, FilterPCs, AlertPCs, PolicyPCs
  <2> QED BY <2>1, FilterNumbers
<1>4. pc \in {"mail", "trap"} => Head(task.pols) \in Nat
  <2>1. task.pols \in Seq(Nat) /\ (pc \in {"mail", "trap"} => task.pols # <<>>)
    BY <1>1 DEF Locals, Loops, PolicyPCs
  <2> QED BY <2>1
<1>5. Len(task.recs) \in Nat
  <2>1. task.recs \in Seq(STRING)
    BY <1>1 DEF Locals
  <2> QED BY <2>1, LenProperties
<1>6. /\ NewAction(pc).id = task.id /\ NewAction(pc).kind = pc /\ NewAction(pc).filter = f
      /\ pc \in {"mail", "trap"} => NewAction(pc).policy = Head(task.pols)
      /\ pc = "mail" => NewAction(pc).left = Len(task.recs)
  BY DEF NewAction
<1>7. a.id = task.id =>
        \/ a.filter < f
        \/ pc \in {"mail", "trap"} /\ a.kind \in {"off", "reset"}
        \/ pc \in {"mail", "trap"} /\ a.policy < Head(task.pols)
        \/ pc = "mail" /\ a.left > Len(task.recs)
  BY <1>1 DEF Passed, FilterPCs, AlertPCs, PolicyPCs, EarlierFilter, PowerAction,
              EarlierPolicy, MailBefore
<1>8. \A x, y \in Nat : x < y => x # y
  OBVIOUS
<1>9. \A x, y \in Nat : x > y => x # y
  OBVIOUS
<1> HIDE DEF a, f
<1>10. a.id = task.id =>
        \/ a.filter # f
        \/ pc \in {"mail", "trap"} /\ a.kind \in {"off", "reset"}
        \/ pc \in {"mail", "trap"} /\ a.policy # Head(task.pols)
        \/ pc = "mail" /\ a.left # Len(task.recs)
  BY <1>2, <1>3, <1>4, <1>5, <1>7, <1>8, <1>9, Zenon
<1>11. a # NewAction(pc)
  BY <1>6, <1>10
<1>12. (a.id = task.id /\ a.filter = f) => {a.kind, pc} # {"off", "reset"}
  BY <1>10
<1> QED BY <1>11, <1>12 DEF a, f

\* The action is permitted: all it needs was given since its event was sent.
LEMMA ActionIsPermitted ==
  ASSUME NEW S, Running(pc, task, acts, S), pc \in {"off", "reset", "mail", "trap"}
  PROVE  \E bit \in Bit(pc) : Needs(NewAction(pc), bit) \subseteq S
<1>1. task \in Locals /\ Loops(pc, task) /\ Allowed(pc, task, S) /\ pc \in FilterPCs
  BY DEF Running, FilterPCs, AlertPCs, PolicyPCs
<1>2. PICK bit \in Bit(pc) : bit \in task.act /\ bit \in task.gbl
  <2>1. CASE pc = "off"
    BY <1>1, <2>1 DEF Bit, Allowed
  <2>2. CASE pc = "reset"
    BY <1>1, <2>2 DEF Bit, Allowed
  <2>3. CASE pc \in {"mail", "trap"}
    BY <1>1, <2>3 DEF Bit, Allowed, AlertPCs, PolicyPCs
  <2> QED BY <2>1, <2>2, <2>3
<1>3. task.matched # <<>> /\ (pc \in {"mail", "trap"} => task.pols # <<>>)
  BY <1>1 DEF Loops, PolicyPCs
<1>4. /\ <<PEFControl, "enable">> \in S /\ <<ArmPEFPostponeTmr, "running">> \in S
      /\ <<FilterEntry(Head(task.matched), "EvtFilterAction"), bit>> \in S
      /\ <<PEFActionGblControl, bit>> \in S
  BY <1>1, <1>2 DEF Allowed
<1>5. <<FilterEntry(Head(task.matched), "FilterConfig"), "enable">> \in S
  <2>1. task.matched \in Seq(FilterEntries)
    BY <1>1 DEF Locals
  <2>2. 1 \in DOMAIN task.matched /\ Head(task.matched) = task.matched[1]
    BY <1>3, <2>1
  <2> QED BY <1>1, <2>2 DEF Allowed
<1>6. pc \in {"mail", "trap"} => <<PolicyEntry(Head(task.pols), "AlertNum"), "enable">> \in S
  <2>1. task.pols \in Seq(Nat)
    BY <1>1 DEF Locals
  <2>2. pc \in {"mail", "trap"} => 1 \in DOMAIN task.pols /\ Head(task.pols) = task.pols[1]
    BY <1>3, <2>1
  <2> QED BY <1>1, <2>2 DEF Allowed
<1>7. /\ NewAction(pc).filter = Head(task.matched) /\ NewAction(pc).kind = pc
      /\ pc \in {"mail", "trap"} => NewAction(pc).policy = Head(task.pols)
  BY DEF NewAction
<1>8. Needs(NewAction(pc), bit) \subseteq S
  BY <1>4, <1>5, <1>6, <1>7 DEF Needs
<1> QED BY <1>2, <1>8

-----------------------------------------------------------------------------
(* The order of events. *)

\* r has no event that q does not have, and in the same order.
NoNewEvent(q, r) ==
  \/ r = q \/ r = <<>> \/ (q # <<>> /\ r = Tail(q))
  \/ \E m \in Messages : ~IsEvent(m) /\ r = Append(q, m)

\* Without a new event the order of the queue stays.
LEMMA OrderStays ==
  ASSUME NEW q \in Seq(Messages), NEW r, NoNewEvent(q, r)
  PROVE  /\ InOrder(q) => InOrder(r)
         /\ \A n : (After(q, n) => After(r, n)) /\ (Before(q, n) => Before(r, n))
<1>1. CASE r = q \/ r = <<>>
  BY <1>1 DEF InOrder, After, Before
<1>2. CASE q # <<>> /\ r = Tail(q)
  <2>1. /\ \A i \in DOMAIN r : i + 1 \in DOMAIN q /\ r[i] = q[i + 1] /\ i \in Nat
    BY <1>2
  <2>2. \A i, j \in Nat : i < j => i + 1 < j + 1
    OBVIOUS
  <2> QED BY <2>1, <2>2 DEF InOrder, After, Before
<1>3. ASSUME NEW m \in Messages, ~IsEvent(m), r = Append(q, m)
      PROVE  /\ InOrder(q) => InOrder(r)
             /\ \A n : (After(q, n) => After(r, n)) /\ (Before(q, n) => Before(r, n))
  <2>1. \A i \in DOMAIN r : (i \in DOMAIN q /\ r[i] = q[i]) \/ r[i] = m
    BY <1>3
  <2> QED BY <1>3, <2>1 DEF InOrder, After, Before
<1> QED BY <1>1, <1>2, <1>3 DEF NoNewEvent

\* Writing a property queues no event.
LEMMA SetPropertyNoEvent ==
  ASSUME NEW p \in Props, NEW v \in Values(p), SetProperty(p, v)
  PROVE  NoNewEvent(inbox, inbox')
<1>1. p \in Watched => Signal(p, v) \in Messages /\ ~IsEvent(Signal(p, v))
  BY MessageFacts DEF IsEvent
<1> QED BY <1>1 DEF SetProperty, NoNewEvent

\* A step of the property server or a monitor queues no event, and leaves a
\* task alone: the daemon's thread is either in a task or in a monitor.
LEMMA QuietNoEvent ==
  ASSUME TypeInv, QuietNext
  PROVE  /\ NoNewEvent(inbox, inbox')
         /\ pc' = pc \/ (pc \in MonitorPCs /\ pc' \in MonitorPCs)
<1>1. ASSUME NEW w \in Writes, ClientSet(w[1], w[2])
      PROVE  NoNewEvent(inbox, inbox') /\ pc' = pc
  <2>1. w[1] \in Props /\ w[2] \in Values(w[1])
    BY ConfigAssumption
  <2> QED BY <1>1, <2>1, SetPropertyNoEvent DEF ClientSet
<1>2. CASE ConfCrash \/ ConfStart
  BY <1>2 DEF ConfCrash, ConfStart, NoNewEvent
<1>3. CASE ArmTimerSignal
  BY <1>3 DEF ArmTimerSignal, NoNewEvent, MonitorPCs
<1>4. CASE CountTick
  <2>1. timer - 1 \in Values(TmrCountdownValue) /\ TmrCountdownValue \in Props
    BY <1>4, PropFacts DEF CountTick, TypeInv, CounterType
  <2> QED BY <1>4, <2>1, SetPropertyNoEvent DEF CountTick, NoNewEvent
<1>5. CASE CountDone
  <2>1. 0 \in Values(ArmPEFPostponeTmr) /\ ArmPEFPostponeTmr \in Props
    BY PropFacts
  <2> QED BY <1>5, <2>1, SetPropertyNoEvent DEF CountDone, NoNewEvent, MonitorPCs
<1>6. CASE SaveBegin \/ SaveEnd
  BY <1>6 DEF SaveBegin, SaveEnd, NoNewEvent, MonitorPCs
<1>7. CASE SaveOpenFails \/ SaveWriteFails
  BY <1>7 DEF SaveOpenFails, SaveWriteFails, NoNewEvent, MonitorPCs
<1>8. CASE DaemonStart
  BY <1>8 DEF DaemonStart, NoNewEvent, MonitorPCs
<1> QED BY <1>1, <1>2, <1>3, <1>4, <1>5, <1>6, <1>7, <1>8
        DEF QuietNext, Monitors, ConfNext

-----------------------------------------------------------------------------
(* Every step keeps the invariant. *)

\* A control point is of a task or not.
LEMMA NotBoth == \A p \in MonitorPCs : p \notin TaskPCs
  BY DEF MonitorPCs, TaskPCs, FilterPCs, AlertPCs, PolicyPCs

\* More permissions do no harm.
LEMMA RunningMore ==
  ASSUME NEW p, NEW t, NEW A, NEW S, NEW R, Running(p, t, A, S), S \subseteq R
  PROVE  Running(p, t, A, R)
  BY DEF Running, Allowed

\* The permissions of an event that is still pending include the present ones
\* and all of the earlier ones.
LEMMA SeenStep ==
  ASSUME Observe
  PROVE  /\ SeenInv'
         /\ \A id \in 1..MaxEvents : Pending(id)' => seen[id] \subseteq seen'[id]
  BY DEF Observe, SeenInv

\* The task that goes on has the permissions of the next state.
LEMMA GoesOn ==
  ASSUME Observe, NEW n \in 1..MaxEvents, Goes(n, acts', seen[n])
  PROVE  TaskInv'
<1>1. CASE pc' = "idle" /\ task' = NoTask
  BY <1>1 DEF TaskInv, MonitorPCs
<1>2. CASE Running(pc', task', acts', seen[n]) /\ task'.id = n
  <2>1. Pending(n)'
    BY <1>2 DEF Pending
  <2>2. seen[n] \subseteq seen'[n]
    BY <2>1, SeenStep
  <2>3. Running(pc', task', acts', seen'[n])
    BY <1>2, <2>2, RunningMore
  <2> QED BY <1>2, <2>3 DEF TaskInv
<1> QED BY <1>1, <1>2 DEF Goes

\* A step of the property server or the monitors keeps the invariant.
LEMMA QuietStep ==
  ASSUME AlertInv, QuietNext, UNCHANGED <<task, nextId, acts>>, Observe
  PROVE  AlertInv'
<1>1. IInv'
  BY TypeStep, TornStep, SaveStep, ArmStep DEF AlertInv, IInv, QuietNext, MonitorNext
<1>2. SeenInv'
  BY SeenStep
<1>3. /\ NoNewEvent(inbox, inbox') /\ inbox \in Seq(Messages)
      /\ pc' = pc \/ (pc \in MonitorPCs /\ pc' \in MonitorPCs)
  BY QuietNoEvent DEF AlertInv, IInv, TypeInv, QueueType
<1>4. TaskInv'
  <2>1. CASE pc \in MonitorPCs /\ task = NoTask
    BY <1>3, <2>1 DEF TaskInv
  <2>2. CASE Running(pc, task, acts, seen[task.id])
    <3>1. task.id \in 1..MaxEvents /\ pc \in TaskPCs
      BY <2>2 DEF Running, Locals
    <3>2. pc' = pc
      BY <1>3, <3>1, NotBoth
    <3>3. Goes(task.id, acts', seen[task.id])
      BY <2>2, <3>2 DEF Goes
    <3> QED BY <3>1, <3>3, GoesOn
  <2> QED BY <2>1, <2>2 DEF AlertInv, TaskInv
<1>5. OrderInv'
  <2>1. pc' \in TaskPCs => pc \in TaskPCs
    BY <1>3, NotBoth
  <2> QED BY <1>3, <2>1, OrderStays DEF AlertInv, OrderInv
<1>6. ActionsInEventOrder' /\ NoActionTwice' /\ OffExcludesReset'
  BY DEF AlertInv, ActionsInEventOrder, NoActionTwice, OffExcludesReset
<1> QED BY <1>1, <1>2, <1>4, <1>5, <1>6 DEF AlertInv

\* A crash of the daemon keeps the invariant: it takes the task and the queue.
LEMMA CrashStep ==
  ASSUME AlertInv, DaemonCrash, task' = NoTask, UNCHANGED <<nextId, acts>>, Observe
  PROVE  AlertInv'
<1>1. IInv'
  BY TypeStep, TornStep, SaveStep, ArmStep DEF AlertInv, IInv, MonitorNext
<1>2. SeenInv'
  BY SeenStep
<1>3. pc' = "down" /\ inbox' = <<>> /\ inbox \in Seq(Messages)
  BY DEF DaemonCrash, AlertInv, IInv, TypeInv, QueueType
<1>4. TaskInv' /\ pc' \notin TaskPCs
  BY <1>3, NotBoth DEF TaskInv, MonitorPCs
<1>5. OrderInv'
  <2>1. NoNewEvent(inbox, inbox')
    BY <1>3 DEF NoNewEvent
  <2> QED BY <1>3, <1>4, <2>1, OrderStays DEF AlertInv, OrderInv
<1>6. ActionsInEventOrder' /\ NoActionTwice' /\ OffExcludesReset'
  BY DEF AlertInv, ActionsInEventOrder, NoActionTwice, OffExcludesReset
<1> QED BY <1>1, <1>2, <1>4, <1>5, <1>6 DEF AlertInv

\* A new event is later than everything before it.
LEMMA SendEventStep ==
  ASSUME AlertInv, NEW msg \in Events, SendEvent(msg), Observe
  PROVE  AlertInv'
<1> DEFINE m == [kind |-> "event", id |-> nextId, msg |-> msg]
<1>1. IInv' /\ SeenInv'
  BY SendEventIInv, SeenStep DEF AlertInv
<1>2. /\ UNCHANGED <<pc, task, acts>> /\ nextId' = nextId + 1
      /\ nextId \in Nat /\ MaxEvents \in Nat /\ nextId' \in 1..(MaxEvents + 1)
  BY TaskAssumption DEF SendEvent, AlertInv
<1>3. inbox \in Seq(Messages) /\ m \in Messages
  <2>1. m \in Calls
    BY TaskAssumption DEF SendEvent, AlertInv
  <2> QED BY <2>1 DEF AlertInv, IInv, TypeInv, QueueType, Messages
<1>4. TaskInv'
  <2>1. CASE pc \in MonitorPCs /\ task = NoTask
    BY <1>2, <2>1 DEF TaskInv
  <2>2. CASE Running(pc, task, acts, seen[task.id])
    <3>1. task.id \in 1..MaxEvents
      BY <2>2 DEF Running, Locals
    <3>2. Goes(task.id, acts', seen[task.id])
      BY <1>2, <2>2 DEF Goes
    <3> QED BY <3>1, <3>2, GoesOn
  <2> QED BY <2>1, <2>2 DEF AlertInv, TaskInv
<1>5. OrderInv'
  <2>1. \A k \in DOMAIN acts : acts[k].id \in Nat /\ acts[k].id < nextId
    BY ActionTypes DEF AlertInv, OrderInv
  <2>2. pc \in TaskPCs => task.id \in Nat /\ task.id < nextId
    <3>1. pc \in TaskPCs => task \in Locals
      BY NotBoth DEF AlertInv, TaskInv, Running
    <3> QED BY <3>1 DEF Locals, AlertInv, OrderInv
  <2>3. \A i \in DOMAIN inbox : IsEvent(inbox[i]) => inbox[i].id \in Nat
    <3>1. \A i \in DOMAIN inbox : inbox[i] \in Messages
      BY <1>3
    <3>2. \A x \in Messages : IsEvent(x) => x \in Calls
      BY DEF Messages, IsEvent
    <3>3. \A x \in Calls : x.id \in Nat
      BY TaskAssumption
    <3> QED BY <3>1, <3>2, <3>3
  <2>4. CASE inbox' = inbox
    BY <1>2, <2>1, <2>2, <2>3, <2>4 DEF AlertInv, OrderInv, Before
  <2>5. CASE inbox' = Append(inbox, m)
    <3>1. /\ \A i \in DOMAIN inbox' : \/ i \in DOMAIN inbox /\ inbox'[i] = inbox[i]
                                      \/ i = Len(inbox) + 1 /\ inbox'[i] = m
          /\ DOMAIN inbox = 1..Len(inbox) /\ DOMAIN inbox' = 1..(Len(inbox) + 1)
          /\ Len(inbox) \in Nat
      BY <1>3, <2>5
    <3>2. m.id = nextId
      OBVIOUS
    <3> HIDE DEF m
    <3>3. InOrder(inbox')
      <4> SUFFICES ASSUME NEW i \in DOMAIN inbox', NEW j \in DOMAIN inbox', i < j,
                          IsEvent(inbox'[i]), IsEvent(inbox'[j])
                   PROVE  inbox'[i].id < inbox'[j].id
        BY DEF InOrder
      <4>1. i \in DOMAIN inbox /\ inbox'[i] = inbox[i]
        BY <3>1
      <4>2. CASE j \in DOMAIN inbox
        BY <3>1, <4>1, <4>2 DEF AlertInv, OrderInv, InOrder
      <4>3. CASE j = Len(inbox) + 1 /\ inbox'[j] = m
        BY <3>2, <4>1, <4>3 DEF AlertInv, OrderInv, Before
      <4> QED BY <3>1, <4>2, <4>3
    <3>4. Before(inbox', nextId')
      BY <1>2, <2>3, <3>1, <3>2 DEF AlertInv, OrderInv, Before
    <3>5. \A n \in Nat : n < nextId /\ After(inbox, n) => After(inbox', n)
      BY <3>1, <3>2 DEF After
    <3> QED BY <1>2, <2>1, <2>2, <3>3, <3>4, <3>5 DEF AlertInv, OrderInv
  <2> QED BY <2>4, <2>5 DEF SendEvent
<1>6. ActionsInEventOrder' /\ NoActionTwice' /\ OffExcludesReset'
  BY <1>2 DEF AlertInv, ActionsInEventOrder, NoActionTwice, OffExcludesReset
<1> QED BY <1>1, <1>2, <1>4, <1>5, <1>6 DEF AlertInv

\* A task begins with the oldest event, which is later than every action.
LEMMA BeginStep ==
  ASSUME AlertInv, PefTaskBegin, Observe
  PROVE  AlertInv'
<1> DEFINE m == Head(inbox)
<1>1. IInv' /\ SeenInv'
  BY TaskIInv, SeenStep DEF AlertInv, Task
<1>2. /\ pc = "idle" /\ inbox # <<>> /\ inbox \in Seq(Messages) /\ IsEvent(m)
      /\ inbox' = Tail(inbox) /\ UNCHANGED <<nextId, acts>>
  BY DEF PefTaskBegin, otherVars, AlertInv, IInv, TypeInv, QueueType, IsEvent
<1>3. m.id \in 1..MaxEvents /\ m.msg \in Events /\ m.id \in Nat
  <2>1. m \in Calls
    BY <1>2, HeadType DEF Messages, IsEvent, QueueType
  <2> QED BY <2>1, TaskAssumption
<1>4. 1 \in DOMAIN inbox /\ inbox[1] = m
  BY <1>2
<1>5. Permits \subseteq seen[m.id]
  <2>1. Pending(m.id)
    BY <1>2, <1>4 DEF Pending, IsEvent
  <2> QED BY <1>3, <2>1 DEF AlertInv, SeenInv
<1>6. \A k \in DOMAIN acts : acts[k].id < m.id /\ acts[k].id \in Nat
  BY <1>2, <1>4, ActionTypes DEF AlertInv, OrderInv, After
<1>7. ASSUME Serves(PEFControl) PROVE Goes(m.id, acts', seen[m.id]) /\ task'.id = m.id
  <2>1. /\ pc' = "timer"
        /\ task' = [NoTask EXCEPT !.id = m.id, !.msg = m.msg, !.ctl = conf[PEFControl]]
    BY <1>7 DEF PefTaskBegin
  <2>2. conf[PEFControl] \in SUBSET {"enable"}
    BY TableFacts, ValueFacts DEF AlertInv, IInv, TypeInv, ConfType
  <2> HIDE DEF m
  <2>3. /\ task'.id = m.id /\ task'.ctl = conf[PEFControl] /\ task'.matched = <<>>
        /\ task'.gbl = {} /\ task'.pols = <<>>
    BY <2>1 DEF NoTask
  <2>4. task' \in Locals
    <3>1. <<>> \in Seq(FilterEntries) /\ <<>> \in Seq(Nat) /\ <<>> \in Seq(STRING)
      OBVIOUS
    <3> QED BY <1>3, <2>1, <2>2, <3>1 DEF NoTask, Locals
  <2>5. Loops("timer", task')
    BY <2>3 DEF Loops, Rising, FilterPCs, AlertPCs, PolicyPCs
  <2>6. Passed("timer", task', acts)
    <3>1. \A k \in DOMAIN acts : acts[k].id # m.id
      BY <1>3, <1>6
    <3> QED BY <2>3, <3>1 DEF Passed
  <2>7. Allowed("timer", task', seen[m.id])
    <3>1. "enable" \in conf[PEFControl] => <<PEFControl, "enable">> \in seen[m.id]
      BY <1>5, <1>7, PermitFacts DEF AlertInv, IInv
    <3> QED BY <2>3, <3>1 DEF Allowed, FilterPCs, AlertPCs, PolicyPCs
  <2> QED BY <1>2, <2>1, <2>3, <2>4, <2>5, <2>6, <2>7 DEF Goes, Running, TaskPCs
<1>8. Goes(m.id, acts', seen[m.id]) /\ (pc' \in TaskPCs => task'.id = m.id)
  <2>1. CASE Serves(PEFControl)
    BY <1>7, <2>1
  <2>2. CASE ~Serves(PEFControl)
    <3>1. pc' = "idle" /\ task' = NoTask
      BY <2>2 DEF PefTaskBegin, Finish
    <3> QED BY <3>1, NotBoth DEF Goes, MonitorPCs
  <2> QED BY <2>1, <2>2
<1>9. TaskInv'
  BY <1>3, <1>8, GoesOn
<1>10. OrderInv'
  <2>1. NoNewEvent(inbox, inbox')
    BY <1>2 DEF NoNewEvent
  <2>2. After(inbox', m.id) /\ m.id < nextId
    <3>1. m.id < nextId
      BY <1>2, <1>4 DEF AlertInv, OrderInv, Before
    <3>2. \A i \in DOMAIN inbox' : i + 1 \in DOMAIN inbox /\ 1 < i + 1 /\ inbox'[i] = inbox[i + 1]
      BY <1>2
    <3> HIDE DEF m
    <3>3. After(inbox', m.id)
      BY <1>2, <1>4, <3>2 DEF AlertInv, OrderInv, InOrder, After
    <3> QED BY <3>1, <3>3
  <2>3. \A k \in DOMAIN acts : acts[k].id <= m.id
    BY <1>3, <1>6
  <2>4. InOrder(inbox') /\ \A n : (After(inbox, n) => After(inbox', n))
                                 /\ (Before(inbox, n) => Before(inbox', n))
    BY <1>2, <2>1, OrderStays DEF AlertInv, OrderInv
  <2> HIDE DEF m
  <2> QED BY <1>2, <1>8, <2>2, <2>3, <2>4 DEF AlertInv, OrderInv
<1>11. ActionsInEventOrder' /\ NoActionTwice' /\ OffExcludesReset'
  BY <1>2 DEF AlertInv, ActionsInEventOrder, NoActionTwice, OffExcludesReset
<1> QED BY <1>1, <1>2, <1>9, <1>10, <1>11 DEF AlertInv

\* A performed action keeps the three invariants of the history.
LEMMA HistoryStep ==
  ASSUME AlertInv, NEW S, Running(pc, task, acts, S),
         pc \in {"off", "reset", "mail", "trap"}, Perform(pc)
  PROVE  ActionsInEventOrder' /\ NoActionTwice' /\ OffExcludesReset'
<1> DEFINE a == NewAction(pc)
           n == Len(acts)
<1>1. acts \in Seq(Actions) /\ n \in Nat /\ DOMAIN acts = 1..n
  BY LenProperties DEF AlertInv
<1>2. pc \in FilterPCs /\ (pc \in {"mail", "trap"} => pc \in PolicyPCs)
  BY DEF FilterPCs, AlertPCs, PolicyPCs
<1>3. a \in Actions /\ acts' = Append(acts, a)
  BY <1>1, <1>2, PerformAppends
<1>4. a.id = task.id /\ a.kind = pc /\ a.filter = Head(task.matched)
  BY DEF NewAction
<1>5. \A k \in DOMAIN acts :
        /\ acts[k] # a
        /\ (acts[k].id = a.id /\ acts[k].filter = a.filter)
             => {acts[k].kind, a.kind} # {"off", "reset"}
  BY <1>1, <1>4, ActionIsNew
<1>6. \A k \in DOMAIN acts : acts[k].id <= a.id
  BY <1>4 DEF AlertInv, OrderInv, Running
<1>7. a.id \in Nat
  BY <1>3, TaskAssumption DEF Actions
<1> HIDE DEF a, n
<1>8. /\ DOMAIN acts' = 1..(n + 1) /\ acts'[n + 1] = a
      /\ \A k \in 1..n : acts'[k] = acts[k]
  BY <1>1, <1>3 DEF n
<1>9. \A k \in 1..(n + 1) : k \in 1..n \/ k = n + 1
  BY <1>1
<1>10. ActionsInEventOrder'
  <2> SUFFICES ASSUME NEW i \in 1..(n + 1), NEW j \in 1..(n + 1), i < j
               PROVE  acts'[i].id <= acts'[j].id
    BY <1>8 DEF ActionsInEventOrder
  <2>1. i \in 1..n
    BY <1>1
  <2>2. CASE j \in 1..n
    BY <1>1, <1>8, <2>1, <2>2 DEF AlertInv, ActionsInEventOrder
  <2>3. CASE j = n + 1
    BY <1>1, <1>6, <1>8, <2>1, <2>3
  <2> QED BY <1>9, <2>2, <2>3
<1>11. NoActionTwice'
  BY <1>1, <1>5, <1>8, <1>9 DEF AlertInv, NoActionTwice
<1>12. OffExcludesReset'
  <2> SUFFICES ASSUME NEW i \in 1..(n + 1), NEW j \in 1..(n + 1),
                      acts'[i].id = acts'[j].id, acts'[i].filter = acts'[j].filter
               PROVE  {acts'[i].kind, acts'[j].kind} # {"off", "reset"}
    BY <1>8 DEF OffExcludesReset
  <2>1. CASE i \in 1..n /\ j \in 1..n
    BY <1>1, <1>8, <2>1 DEF AlertInv, OffExcludesReset
  <2>2. CASE i \in 1..n /\ j = n + 1
    BY <1>1, <1>5, <1>8, <2>2
  <2>3. CASE i = n + 1 /\ j \in 1..n
    <3>1. {acts[j].kind, a.kind} # {"off", "reset"}
      BY <1>1, <1>5, <1>8, <2>3
    <3> QED BY <1>8, <2>3, <3>1
  <2>4. CASE i = n + 1 /\ j = n + 1
    <3>1. \A k : {k, k} # {"off", "reset"}
      OBVIOUS
    <3>2. acts'[i].kind = acts'[j].kind
      BY <2>4
    <3> QED BY <3>1, <3>2
  <2> QED BY <1>9, <2>1, <2>2, <2>3, <2>4
<1> QED BY <1>10, <1>11, <1>12

\* A step of a running task keeps the invariant.
LEMMA TaskStep ==
  ASSUME AlertInv, Task, ~PefTaskBegin, Observe
  PROVE  AlertInv'
<1> DEFINE S == seen[task.id]
<1>1. Running(pc, task, acts, S)
  <2>1. pc \notin MonitorPCs
    BY TaskControl DEF Task, MonitorPCs, PostponeRead, FilterScan, FilterScanEnd, EntryRead,
       GlobalRead, PowerOff, GetPowerStatus, Reset, PolicyScan, PolicyScanEnd, PolicyRead,
       DestRead, SendTrap, RecipientRead, SendMail, SetLastProcessed
  <2> QED BY <2>1 DEF AlertInv, TaskInv
<1>2. task.id \in 1..MaxEvents /\ task.id \in Nat /\ pc \in TaskPCs
  BY <1>1, TaskAssumption DEF Running, Locals
<1>3. Permits \subseteq S
  BY <1>2 DEF AlertInv, SeenInv, Pending
<1>4. acts \in Seq(Actions) /\ inbox \in Seq(Messages)
  BY DEF AlertInv, IInv, TypeInv, QueueType
<1>5. Goes(task.id, acts', S) /\ acts' \in Seq(Actions)
  BY <1>1, <1>3, <1>4, TaskGoes DEF AlertInv, IInv
<1>6. IInv' /\ SeenInv' /\ TaskInv'
  BY <1>2, <1>5, TaskIInv, SeenStep, GoesOn DEF AlertInv
<1>7. acts' = acts \/ (pc \in {"off", "reset", "mail", "trap"} /\ Perform(pc))
  BY TaskControl
<1>8. nextId' = nextId /\ NoNewEvent(inbox, inbox')
  <2>1. LastBMCProcessedEventID \in Props /\ task.id \in Values(LastBMCProcessedEventID)
    BY <1>2, TableFacts, ValueFacts
  <2> QED BY <2>1, TaskControl, SetPropertyNoEvent DEF otherVars, NoNewEvent
<1>9. \A k \in DOMAIN acts' : (k \in DOMAIN acts /\ acts'[k] = acts[k]) \/ acts'[k].id = task.id
  <2>1. CASE acts' = acts
    BY <2>1
  <2>2. CASE pc \in {"off", "reset", "mail", "trap"} /\ Perform(pc)
    <3>1. pc \in FilterPCs /\ (pc \in {"mail", "trap"} => pc \in PolicyPCs)
      BY <2>2 DEF FilterPCs, AlertPCs, PolicyPCs
    <3>2. NewAction(pc).id = task.id
      BY DEF NewAction
    <3> QED BY <1>1, <1>4, <2>2, <3>1, <3>2, PerformAppends
  <2> QED BY <1>7, <2>1, <2>2
<1>10. OrderInv'
  <2>1. /\ InOrder(inbox') /\ Before(inbox', nextId)
        /\ \A n : After(inbox, n) => After(inbox', n)
    BY <1>4, <1>8, OrderStays DEF AlertInv, OrderInv
  <2>2. pc' \in TaskPCs => task'.id = task.id
    BY <1>5, NotBoth DEF Goes, MonitorPCs
  <2>3. /\ task.id < nextId /\ After(inbox', task.id)
        /\ \A k \in DOMAIN acts : acts[k].id <= task.id /\ acts[k].id < nextId
                                   /\ After(inbox', acts[k].id)
    BY <1>2, <2>1 DEF AlertInv, OrderInv
  <2>4. \A k \in DOMAIN acts' : acts'[k].id <= task.id /\ acts'[k].id < nextId
                                 /\ After(inbox', acts'[k].id)
    BY <1>2, <1>9, <2>3
  <2> QED BY <1>8, <2>1, <2>2, <2>3, <2>4 DEF OrderInv
<1>11. ActionsInEventOrder' /\ NoActionTwice' /\ OffExcludesReset'
  <2>1. CASE acts' = acts
    BY <2>1 DEF AlertInv, ActionsInEventOrder, NoActionTwice, OffExcludesReset
  <2> QED BY <1>1, <1>7, <2>1, HistoryStep
<1> QED BY <1>5, <1>6, <1>8, <1>10, <1>11 DEF AlertInv

-----------------------------------------------------------------------------
(* The theorems. *)

\* AlertInv is an invariant of the whole subsystem.
LEMMA AlertInvariant == Spec => []AlertInv
<1>1. Init => AlertInv
  <2> SUFFICES ASSUME Init PROVE AlertInv
    OBVIOUS
  <2>1. IInv
    BY MonitorInitially DEF Init
  <2>2. /\ inbox = <<>> /\ acts = <<>> /\ nextId = 1 /\ pc = "idle" /\ task = NoTask
        /\ seen = [id \in 1..MaxEvents |-> {}]
    BY DEF Init, MonitorInit, ConfInit, TaskInit
  <2>3. nextId \in 1..(MaxEvents + 1) /\ acts \in Seq(Actions)
    BY <2>2, TaskAssumption
  <2>4. TaskInv
    BY <2>2 DEF TaskInv, MonitorPCs
  <2>5. OrderInv
    BY <2>2, NotBoth DEF OrderInv, InOrder, After, Before, MonitorPCs
  <2>6. SeenInv
    <3>1. \A id \in 1..MaxEvents : ~Pending(id)
      BY <2>2, TaskAssumption DEF Pending, NoTask
    <3> QED BY <2>2, <3>1 DEF SeenInv
  <2>7. ActionsInEventOrder /\ NoActionTwice /\ OffExcludesReset
    BY <2>2 DEF ActionsInEventOrder, NoActionTwice, OffExcludesReset
  <2> QED BY <2>1, <2>3, <2>4, <2>5, <2>6, <2>7 DEF AlertInv
<1>2. AlertInv /\ [Next]_vars => AlertInv'
  <2>1. ASSUME AlertInv, UNCHANGED vars PROVE AlertInv'
    <3>1. UNCHANGED <<monitorVars, task, nextId, acts, seen>>
      BY <2>1 DEF vars
    <3>2. IInv'
      BY <2>1, <3>1, TypeStep, TornStep, SaveStep, ArmStep DEF AlertInv, IInv
    <3>3. UNCHANGED <<confState, conf, inbox, pc>>
      BY <3>1 DEF monitorVars
    <3>4. SeenInv'
      BY <2>1, <3>1, <3>3 DEF AlertInv, SeenInv, Pending, Permits, Permitted, Serves
    <3> QED BY <2>1, <3>1, <3>2, <3>3, <3>4 DEF AlertInv, TaskInv, OrderInv,
               ActionsInEventOrder, NoActionTwice, OffExcludesReset
  <2>2. ASSUME AlertInv, Next PROVE AlertInv'
    BY <2>2, NextCases, QuietStep, CrashStep, SendEventStep, BeginStep, TaskStep
  <2> QED BY <2>1, <2>2
<1> QED BY <1>1, <1>2, PTL DEF Spec

\* Actions are performed in the order of the events, whatever waits behind a
\* countdown or a file write, and however often the daemon is restarted.
THEOREM ActionsInEventOrderTheorem == Spec => []ActionsInEventOrder
  BY AlertInvariant, PTL DEF AlertInv

\* No event causes the same action twice: the nested loops of performPefAction
\* never come back to a filter, a policy entry or a recipient.
THEOREM NoActionTwiceTheorem == Spec => []NoActionTwice
  BY AlertInvariant, PTL DEF AlertInv

\* A filter that powers the chassis off does not also reset the host.
THEOREM OffExcludesResetTheorem == Spec => []OffExcludesReset
  BY AlertInvariant, PTL DEF AlertInv

\* Every action was permitted at some moment between its event and itself, in
\* each of the properties it depends on: no value is used that the task did not
\* read after its event was sent.
THEOREM ActionsPermittedTheorem == Spec => ActionsPermitted
<1>1. ASSUME AlertInv, Next, acts' # acts
      PROVE  LET a == acts'[Len(acts')]
             IN  \E bit \in Bit(a.kind) : Needs(a, bit) \subseteq seen[a.id]
  <2>1. Task
    BY <1>1, NextCases DEF SendEvent
  <2>2. pc \in {"off", "reset", "mail", "trap"} /\ Perform(pc)
    BY <1>1, <2>1, TaskControl
  <2>3. Running(pc, task, acts, seen[task.id])
    BY <1>1, <2>2 DEF AlertInv, TaskInv, MonitorPCs
  <2>4. pc \in FilterPCs /\ (pc \in {"mail", "trap"} => pc \in PolicyPCs)
    BY <2>2 DEF FilterPCs, AlertPCs, PolicyPCs
  <2>5. acts' = Append(acts, NewAction(pc)) /\ NewAction(pc) \in Actions
        /\ acts \in Seq(Actions)
    BY <1>1, <2>2, <2>3, <2>4, PerformAppends DEF AlertInv
  <2>6. acts'[Len(acts')] = NewAction(pc)
    <3> HIDE DEF NewAction, Actions
    <3> QED BY <2>5
  <2>7. NewAction(pc).kind = pc /\ NewAction(pc).id = task.id
    BY DEF NewAction
  <2> QED BY <2>2, <2>3, <2>6, <2>7, ActionIsPermitted
<1>2. AlertInv /\ [Next]_vars =>
        [acts' # acts =>
           LET a == acts'[Len(acts')]
           IN  \E bit \in Bit(a.kind) : Needs(a, bit) \subseteq seen[a.id]]_vars
  BY <1>1
<1> QED BY <1>2, AlertInvariant, PTL DEF Spec, ActionsPermitted

\* The monitors' guarantees hold in the whole subsystem, where tasks share their
\* thread and their queue: no change is forgotten, an armed timer is served, and
\* an unparsable file means a fault.
THEOREM MonitorsAmongTasksTheorem ==
  Spec => [](ChangesReachFile /\ ArmedTimerIsServed /\ TornOnlyByFault)
  BY AlertInvariant, IInvImplies, PTL DEF AlertInv
-----------------------------------------------------------------------------
(* The data match of the event filters *)

\* The branching code of pefEveDataMatch is equivalent to the two-clause rule
\* of DataMatchReference, whatever the width of a byte.
LEMMA DataMatchLemma == MatchTypeOK => DataMatchCorrect
<1> SUFFICES ASSUME MatchTypeOK PROVE DataMatchCorrect
  OBVIOUS
<1> USE DEF MatchTypeOK
<1> DEFINE temp1 == value \cap andMask
           temp2 == temp1 \ cmp1
           zeros == (Bits \ (temp2 \cup cmp1)) \cap (Bits \ cmp2)
\* The exact part: equality of the selected bits as sets, or bit by bit.
<1>1. temp1 \cap cmp1 = cmp2 \cap cmp1 <=> \A b \in cmp1 : SameBit(b, temp1, cmp2)
  BY DEF SameBit
\* A common 1 among the unselected bits, and a common 0 among them.
<1>2. temp2 \cap cmp2 # {} <=> \E b \in Bits \ cmp1 : b \in temp1 /\ b \in cmp2
  BY DEF Byte
<1>3. zeros # {} <=> \E b \in Bits \ cmp1 : b \notin temp1 /\ b \notin cmp2
  BY DEF Byte
<1>4. (\E b \in Bits \ cmp1 : SameBit(b, temp1, cmp2))
        <=> temp2 \cap cmp2 # {} \/ zeros # {}
  <2> HIDE DEF temp1, temp2, zeros
  <2> QED  BY <1>2, <1>3 DEF SameBit
\* The tests of cmp2 against all-zeros and all-ones only skip work.
<1>5. cmp2 = {} => temp2 \cap cmp2 = {}
  OBVIOUS
<1>6. cmp2 = Bits => zeros = {}
  OBVIOUS
<1>7. QED
  BY <1>1, <1>4, <1>5, <1>6, BitsAssumption
     DEF DataMatchCorrect, pefEveDataMatch, DataMatchReference,
         ALL_BITS_MATCH_EXACT, ALL_ZERO_BITS, ALL_ONE_BITS

\* Whatever the bytes of an event and of a filter entry are set to, the match
\* is the one of the reference rule.
THEOREM DataMatchTheorem == MatchSpec => []DataMatchCorrect
<1>1. MatchInit => MatchTypeOK
  BY DEF MatchInit, MatchTypeOK, Byte
<1>2. MatchTypeOK /\ [MatchNext]_matchVars => MatchTypeOK'
  BY DEF MatchTypeOK, MatchNext, SetBit, Flip, matchVars, Byte
<1> QED  BY <1>1, <1>2, DataMatchLemma, PTL DEF MatchSpec
-----------------------------------------------------------------------------
(* The mail alert manager, for any set of hosts and any bounds *)

\* The sentinel for an unreadable file is not a configuration.
LEMMA TornIsNoConfig == TornConfig \notin Config
  BY DEF TornConfig, Config

\* Every step of the service keeps its variables in their types.
LEMMA MailTypeStep == MailTypeOK /\ [MailNext]_mailVars => MailTypeOK'
<1> SUFFICES ASSUME MailTypeOK, [MailNext]_mailVars PROVE MailTypeOK'
  OBVIOUS
<1> USE MailAssumption DEF MailTypeOK
<1>1. CASE MailStart
  <2>1. Unset \in Config
    BY DEF Unset, Config
  <2> QED BY <1>1, <2>1 DEF MailStart
<1>2. CASE MailCrash
  <2>1. mailFaults' \in 0..MaxMailFaults
    BY <1>2 DEF MailCrash
  <2>2. pending' \in Config \cup {None}
    BY <1>2 DEF MailCrash
  <2> QED BY <1>2, <2>1, <2>2 DEF MailCrash
<1>3. CASE SetSmtpConfigWrite
  <2>1. mailFaults' \in 0..MaxMailFaults
    BY <1>3 DEF SetSmtpConfigWrite
  <2> QED BY <1>3, <2>1 DEF SetSmtpConfigWrite, None
<1>4. ASSUME NEW c \in Config, SetSmtpConfigOpen(c) PROVE MailTypeOK'
  <2>1. mailFaults' \in 0..MaxMailFaults /\ sets' \in 0..MaxSets
    BY <1>4 DEF SetSmtpConfigOpen
  <2> QED BY <1>4, <2>1 DEF SetSmtpConfigOpen
<1>5. ASSUME NEW n \in 1..MaxMails, sendmail(n) PROVE MailTypeOK'
  BY <1>5 DEF sendmail
<1>6. CASE UNCHANGED mailVars
  BY <1>6 DEF mailVars
<1> QED BY <1>1, <1>2, <1>3, <1>4, <1>5, <1>6 DEF MailNext

\* The service keeps its variables in their types (type correctness of
\* setsmtpconfig, initializeSmtpcfg and sendmail).
THEOREM MailTypeTheorem == MailSpec => []MailTypeOK
<1>1. MailInit => MailTypeOK
  BY MailAssumption DEF MailInit, MailTypeOK, Unset, Config
<1> QED BY <1>1, MailTypeStep, PTL DEF MailSpec

\* A step keeps the members of Smtp equal to what a restart would read.
LEMMA ConfigStep ==
  MailTypeOK /\ ConfigSurvivesRestart /\ [MailNext]_mailVars => ConfigSurvivesRestart'
<1> SUFFICES ASSUME MailTypeOK, ConfigSurvivesRestart, [MailNext]_mailVars
             PROVE  ConfigSurvivesRestart'
  OBVIOUS
<1> USE DEF ConfigSurvivesRestart
<1>1. CASE MailStart
  BY <1>1 DEF MailStart
<1>2. CASE MailCrash
  BY <1>2 DEF MailCrash
<1>3. CASE SetSmtpConfigWrite
  BY <1>3 DEF SetSmtpConfigWrite, None
<1>4. ASSUME NEW c \in Config, SetSmtpConfigOpen(c) PROVE ConfigSurvivesRestart'
  BY <1>4, TornIsNoConfig DEF SetSmtpConfigOpen, None
<1>5. ASSUME NEW n \in 1..MaxMails, sendmail(n) PROVE ConfigSurvivesRestart'
  BY <1>5 DEF sendmail
<1>6. CASE UNCHANGED mailVars
  BY <1>6 DEF mailVars
<1> QED BY <1>1, <1>2, <1>3, <1>4, <1>5, <1>6 DEF MailNext

\* Between two calls the service answers from what a restart would read back,
\* unless the last SetSmtpConfig could not open or write its file.
THEOREM ConfigSurvivesRestartTheorem == MailSpec => []ConfigSurvivesRestart
<1>1. MailInit => ConfigSurvivesRestart
  BY DEF MailInit, ConfigSurvivesRestart
<1> QED BY <1>1, ConfigStep, MailTypeTheorem, PTL DEF MailSpec

\* No mail leaves while the service runs on a torn configuration file: a crash
\* in setsmtpconfig disables mail until a client configures it again.
THEOREM TornFileMeansNoMailTheorem == MailSpec => TornFileMeansNoMail
<1>1. ASSUME ConfigSurvivesRestart, [MailNext]_mailVars,
             running = 1, smtpFile = TornConfig, unsaved = 0
      PROVE  sent' = sent
  <2>1. ASSUME NEW n \in 1..MaxMails, sendmail(n) PROVE sent' = sent
    <3>1. smtp = Unset
      BY <1>1, <2>1 DEF ConfigSurvivesRestart, sendmail
    <3>2. ~Usable(smtp)
      BY <3>1 DEF Usable, Unset
    <3> QED BY <2>1, <3>2 DEF sendmail
  <2> QED
    BY <1>1, <2>1 DEF MailNext, mailVars, MailStart, MailCrash, SetSmtpConfigWrite,
                      SetSmtpConfigOpen
<1>2. ConfigSurvivesRestart /\ [MailNext]_mailVars
        => [(running = 1 /\ smtpFile = TornConfig /\ unsaved = 0) => sent' = sent]_mailVars
  BY <1>1
<1> QED BY <1>2, ConfigSurvivesRestartTheorem, PTL DEF MailSpec, TornFileMeansNoMail
=============================================================================
