------------------------------ MODULE PefTask ------------------------------
(***************************************************************************)
(* The doPefTask method of the event filtering daemon (pef_action.cpp with *)
(* the SNMP patch 0004): pefTask, eventFilteringProcess, performPefAction, *)
(* checkAlertPoicyTbl.  Each action ends with one blocking D-Bus call, so  *)
(* that clients may change any property between two of them.  A call to    *)
(* the property server fails exactly when the server does not have the     *)
(* object; a call to another service may fail at any time.                 *)
(***************************************************************************)
EXTENDS PefMonitors, PefFilter

CONSTANTS
  MAX_EVT_FILTER_ENTRIES,
  ALERT_POLICY_SET,
  NUM_OF_ALERT_POLICY,
  Criteria,   \* filter entry -> its match fields (those no client changes)
  Events,     \* event messages the SEL logger may send
  MaxEvents   \* bound on the events sent

ASSUME TaskAssumption ==
  /\ MAX_EVT_FILTER_ENTRIES \in Nat \ {0} /\ ALERT_POLICY_SET \in Nat
  /\ NUM_OF_ALERT_POLICY \in Nat \ {0} /\ MaxEvents \in Nat
  /\ FilterEntries = 1..MAX_EVT_FILTER_ENTRIES
  /\ Calls = [kind : {"event"}, id : 1..MaxEvents, msg : Events]

VARIABLES
  task,    \* locals of the running pefTask
  nextId,  \* record id of the next event
  acts     \* history: the actions performed, in order

otherVars == <<confState, file, writes, faults, timer, data, nextId>>

NoTask == [id |-> 0, msg |-> 0, ctl |-> {}, idx |-> 0, matched |-> <<>>,
           act |-> {}, pol |-> 0, gbl |-> {}, pols |-> <<>>, dest |-> 0,
           recs |-> <<>>]

TaskInit == task = NoTask /\ nextId = 1 /\ acts = <<>>

-----------------------------------------------------------------------------
(***************************************************************************)
(* The SEL logger records an event and calls doPefTask.  Without a daemon  *)
(* on the bus the call fails and the event is not filtered.                *)
(***************************************************************************)
\* (The mutant: the newest call is served first.)
SendEvent_Lifo(msg) ==
  /\ nextId <= MaxEvents /\ pc # "down"
  /\ nextId' = nextId + 1
  /\ inbox' = <<[kind |-> "event", id |-> nextId, msg |-> msg]>> \o inbox
  /\ UNCHANGED <<confState, conf, file, pc, lost, writes, faults, timer, data,
                 task, acts>>

SendEvent(msg) ==
  /\ nextId <= MaxEvents
  /\ nextId' = nextId + 1
  /\ inbox' = IF pc = "down" THEN inbox
              ELSE Append(inbox, [kind |-> "event", id |-> nextId, msg |-> msg])
  /\ UNCHANGED <<confState, conf, file, pc, lost, writes, faults, timer, data,
                 task, acts>>

-----------------------------------------------------------------------------
(* How the nested loops of performPefAction go on after a step; t is the    *)
(* value the locals have by then.                                           *)

Finish == pc' = "idle" /\ task' = NoTask

NextFilter(t) ==
  IF Len(t.matched) <= 1
  THEN Finish
  ELSE pc' = "entry" /\ task' = [t EXCEPT !.matched = Tail(@)]

NextPolicy(t) ==
  IF Len(t.pols) <= 1
  THEN NextFilter(t)
  ELSE pc' = "policy" /\ task' = [t EXCEPT !.pols = Tail(@)]

\* Mutant: the recipient list does not advance.
NextRecipient_Stuck(t) ==
  IF Len(t.recs) <= 1 THEN NextPolicy(t) ELSE pc' = "mail" /\ task' = t

NextRecipient(t) ==
  IF Len(t.recs) <= 1
  THEN NextPolicy(t)
  ELSE pc' = "mail" /\ task' = [t EXCEPT !.recs = Tail(@)]

AlertBranch(t) ==
  IF "alert" \in t.act \cap t.gbl
  THEN pc' = "policies" /\ task' = [t EXCEPT !.idx = 0, !.pols = <<>>]
  ELSE NextFilter(t)

Perform(kind) ==
  acts' = Append(acts, [id |-> task.id, kind |-> kind,
                        filter |-> Head(task.matched),
                        policy |-> IF kind \in {"mail", "trap"} THEN Head(task.pols) ELSE 0,
                        left |-> IF kind = "mail" THEN Len(task.recs) ELSE 0])

ConfRead == UNCHANGED <<conf, inbox, lost, acts>> /\ UNCHANGED otherVars

-----------------------------------------------------------------------------
(* pefTask *)

PefTaskBegin ==
  /\ pc = "idle" /\ inbox # <<>> /\ Head(inbox).kind = "event"
  /\ inbox' = Tail(inbox)
  /\ IF Serves(PEFControl)
     THEN /\ pc' = "timer"
          /\ task' = [NoTask EXCEPT !.id = Head(inbox).id, !.msg = Head(inbox).msg,
                                    !.ctl = conf[PEFControl]]
     ELSE Finish
  /\ UNCHANGED <<conf, lost, acts>> /\ UNCHANGED otherVars

(***************************************************************************)
(* `(t == 0xFE) || ((t != 0x00) && (t = !0xFF))': the last operand is an   *)
(* assignment of !0xFF, that is of 0, and its value is false.              *)
(***************************************************************************)
Postponed(t) ==
  \/ t = TMR_DISABLE
  \/ t # 0 /\ (LET assigned == 0 IN assigned # 0)

PostponeRead ==
  /\ pc = "timer"
  /\ IF /\ Serves(ArmPEFPostponeTmr)
        /\ ~Postponed(conf[ArmPEFPostponeTmr])
        /\ "enable" \in task.ctl
     THEN pc' = "scan" /\ task' = [task EXCEPT !.idx = 1]
     ELSE Finish
  /\ ConfRead

-----------------------------------------------------------------------------
(* eventFilteringProcess *)

FilterMatches(n, msg) ==
  EventMatches([Criteria[n] EXCEPT !.SensorNum = conf[FilterEntry(n, "SensorNum")]],
               msg)

FilterScan ==
  /\ pc = "scan" /\ task.idx < MAX_EVT_FILTER_ENTRIES
  /\ task' = [task EXCEPT !.idx = @ + 1,
                !.matched = IF /\ Serves(FilterEntry(task.idx, "FilterConfig"))
                               /\ "enable" \in conf[FilterEntry(task.idx, "FilterConfig")]
                               /\ FilterMatches(task.idx, task.msg)
                            THEN Append(@, task.idx) ELSE @]
  /\ UNCHANGED pc /\ ConfRead

FilterScanEnd ==
  /\ pc = "scan" /\ task.idx >= MAX_EVT_FILTER_ENTRIES
  /\ IF task.matched = <<>> THEN Finish ELSE pc' = "entry" /\ UNCHANGED task
  /\ ConfRead

-----------------------------------------------------------------------------
(* performPefAction *)

EntryRead ==
  /\ pc = "entry"
  /\ LET n == Head(task.matched)
     IN  IF Serves(FilterEntry(n, "EvtFilterAction"))
         THEN /\ pc' = "global"
              /\ task' = [task EXCEPT !.act = conf[FilterEntry(n, "EvtFilterAction")],
                                      !.pol = conf[FilterEntry(n, "AlertPolicyNum")] % 16]
         ELSE Finish
  /\ ConfRead

\* Mutant: the global control is not consulted for alerts.
GlobalRead_AlertAnyway ==
  /\ pc = "global"
  /\ AlertBranch([task EXCEPT !.gbl = {"alert"}])
  /\ ConfRead

\* Power off excludes the other two; without any the alert is next.
GlobalRead ==
  /\ pc = "global"
  /\ IF Serves(PEFActionGblControl)
     THEN LET t == [task EXCEPT !.gbl = conf[PEFActionGblControl]]
              enabled == t.act \cap t.gbl
          IN  IF "off" \in enabled
              THEN pc' = "off" /\ task' = t
              ELSE IF enabled \cap {"cycle", "reset"} # {}
              THEN pc' = "power" /\ task' = t
              ELSE AlertBranch(t)
     ELSE Finish
  /\ ConfRead

\* Mutant: power off goes on to the reset test.
PowerOff_ThenReset ==
  /\ pc = "off" /\ Perform("off") /\ pc' = "power"
  /\ UNCHANGED <<conf, inbox, lost, task>> /\ UNCHANGED otherVars

\* initiateChassisStateTransition and initiateStateTransition do not catch: a
\* call that fails ends the whole task.
PowerOff ==
  /\ pc = "off"
  /\ \/ Perform("off") /\ AlertBranch(task)
     \/ Finish /\ UNCHANGED acts
  /\ UNCHANGED <<conf, inbox, lost>> /\ UNCHANGED otherVars

\* getPowerStatus: on, or off or unknown because the call failed.
GetPowerStatus ==
  /\ pc = "power"
  /\ \/ pc' = "reset" /\ UNCHANGED task
     \/ AlertBranch(task)
  /\ ConfRead

Reset ==
  /\ pc = "reset"
  /\ \/ Perform("reset") /\ AlertBranch(task)
     \/ Finish /\ UNCHANGED acts
  /\ UNCHANGED <<conf, inbox, lost>> /\ UNCHANGED otherVars

\* Mutant: the index does not advance over an entry that is not enabled.
PolicyScan_NoAdvance ==
  /\ pc = "policies" /\ task.idx < ALERT_POLICY_SET
  /\ UNCHANGED <<pc, task>> /\ ConfRead

(***************************************************************************)
(* checkAlertPoicyTbl: entries pol, pol + NUM, pol + 2 NUM, ...; an entry  *)
(* that cannot be read counts as disabled.                                 *)
(***************************************************************************)
PolicyScan ==
  /\ pc = "policies" /\ task.idx < ALERT_POLICY_SET
  /\ LET n == task.pol + task.idx * NUM_OF_ALERT_POLICY
         on == /\ Serves(PolicyEntry(n, "AlertNum"))
               /\ "enable" \in conf[PolicyEntry(n, "AlertNum")]
     IN  task' = [task EXCEPT !.idx = @ + 1,
                              !.pols = IF on THEN Append(@, n) ELSE @]
  /\ UNCHANGED pc /\ ConfRead

PolicyScanEnd ==
  /\ pc = "policies" /\ task.idx >= ALERT_POLICY_SET
  /\ IF task.pols = <<>> THEN NextFilter(task) ELSE pc' = "policy" /\ UNCHANGED task
  /\ ConfRead

PolicyRead ==
  /\ pc = "policy"
  /\ LET n == Head(task.pols)
     IN  IF ~Serves(PolicyEntry(n, "AlertNum"))
         THEN Finish
         ELSE IF "enable" \in conf[PolicyEntry(n, "AlertNum")]
         THEN /\ pc' = "dest"
              /\ task' = [task EXCEPT !.dest = conf[PolicyEntry(n, "ChannelDestSel")] % 8]
         ELSE NextPolicy(task)
  /\ ConfRead

\* A destination that cannot be read keeps the type 0 of an empty pefDestInfo.
DestRead ==
  /\ pc = "dest"
  /\ LET type == IF Serves(DestEntry(task.dest)) THEN conf[DestEntry(task.dest)] ELSE 0
     IN  CASE type = 1 -> pc' = "recipient" /\ UNCHANGED task
           [] type = 0 -> pc' = "trap" /\ UNCHANGED task
           [] OTHER    -> NextPolicy(task)
  /\ ConfRead

\* sendSNMPAlert reports success also when the trap could not be sent.
SendTrap ==
  /\ pc = "trap"
  /\ Perform("trap") \/ UNCHANGED acts
  /\ NextPolicy(task)
  /\ UNCHANGED <<conf, inbox, lost>> /\ UNCHANGED otherVars

RecipientRead ==
  /\ pc = "recipient"
  /\ IF ~Serves(Recipient)
     THEN Finish
     ELSE IF conf[Recipient] = <<>>
     THEN NextPolicy(task)
     ELSE pc' = "mail" /\ task' = [task EXCEPT !.recs = conf[Recipient]]
  /\ ConfRead

\* sendSmtpAlert: status 0 from the mail manager, or a failure.
SendMail ==
  /\ pc = "mail"
  /\ \/ Perform("mail") /\ pc' = "last" /\ UNCHANGED task
     \/ NextRecipient(task) /\ UNCHANGED acts
  /\ UNCHANGED <<conf, inbox, lost>> /\ UNCHANGED otherVars

SetLastProcessed ==
  /\ pc = "last"
  /\ IF Serves(LastBMCProcessedEventID)
     THEN SetProperty(LastBMCProcessedEventID, task.id)
     ELSE UNCHANGED <<conf, inbox, lost>>
  /\ NextRecipient(task)
  /\ UNCHANGED acts /\ UNCHANGED otherVars
=============================================================================
