------------------------------- MODULE MCPef -------------------------------
(***************************************************************************)
(* The instances of the PEF modules.  A behaviour is one of `Parts':       *)
(*   "alerting"  the whole event filtering daemon with its property server *)
(*   "monitors"  its signal monitors alone, with more writes and faults    *)
(*   "mail"      the mail alert manager                                    *)
(*   "filter"    the event data of filter entries and events, edited bit   *)
(*               by bit until every quadruple of bytes has been matched    *)
(* The variables of the other parts keep their initial values.             *)
(***************************************************************************)
EXTENDS PefAlerting, MailAlert, DataMatch

CONSTANTS
  Parts,          \* the parts a behaviour may be about
  FilterAction,   \* EvtFilterAction of the installed filter entries
  GlobalAction,   \* PEFActionGblControl of the installed file
  Recipients,     \* number of mail recipients in it
  MaxInputs,      \* bound on client writes and events together in "alerting"
  AlertingFaults  \* bound on the faults in "alerting"

VARIABLE part     \* which part this behaviour is about

\* Two policies of two entries each; filter n uses policy n.
MCInstalled ==
  [p \in FileProps |->
     CASE p[3] = "PEFControl"          -> {"enable"}
       [] p[3] = "PEFActionGblControl" -> GlobalAction
       [] p[3] = "EvtFilterAction"     -> FilterAction
       [] p[3] = "FilterConfig"        -> {"enable"}
       [] p[3] = "AlertNum"            -> {"enable"}
       [] p[3] = "Recipient"           -> [i \in 1..Recipients |-> "a"]
       [] p[3] = "AlertPolicyNum"      -> p[2]
       [] p[3] = "ChannelDestSel"      -> 1
       [] p[3] = "DestinationType"     -> 1
       [] p[3] = "SensorNum"           -> ANY
       [] OTHER                        -> 0]

\* Every entry matches temperature events; the even ones only offset 1.
MCCriteria ==
  [n \in FilterEntries |->
     [GenIDByte1 |-> ANY, GenIDByte2 |-> ANY, SensorType |-> 1, SensorNum |-> ANY,
      EventTrigger |-> ANY, ANDMask |-> <<{0}, {}, {}>>,
      Cmp1 |-> <<{}, {}, {}>>, Cmp2 |-> <<{0}, {}, {}>>,
      EventData1OffsetMask |-> IF n % 2 = 0 THEN {{0}} ELSE {{}, {0}}]]

Event(d) == [sensorType |-> 1, sensorNum |-> 7, eventType |-> 1,
                generatorId1 |-> 32, generatorId2 |-> 0, eventData |-> <<d, {}, {}>>]

MCEvents == {Event({}), Event({0})}
OneEvent == {Event({0})}

MCCalls == [kind : {"event"}, id : 1..MaxEvents, msg : Events]

Toggle(p, bits) == {<<p, b>> : b \in {{}, bits}}

\* Clients switch each kind of permission off and on, arm and disable the
\* postpone timer, and choose an SNMP destination or no recipient.
PermissionWrites ==
  Toggle(PEFControl, {"enable"}) \cup Toggle(PEFActionGblControl, {"alert", "reset"})
    \cup Toggle(FilterEntry(1, "FilterConfig"), {"enable"})
    \cup Toggle(FilterEntry(1, "EvtFilterAction"), {"alert"})
    \cup Toggle(PolicyEntry(1, "AlertNum"), {"enable"})
    \cup {<<ArmPEFPostponeTmr, v>> : v \in {0, 1, TMR_DISABLE}}
    \cup {<<DestEntry(1), 0>>, <<Recipient, <<>>>>}

\* Clients toggle a property of each table and arm the postpone timer.
MonitorWrites ==
  Toggle(PEFControl, {"enable"}) \cup Toggle(FilterEntry(1, "FilterConfig"), {"enable"})
    \cup {<<ArmPEFPostponeTmr, v>> : v \in {0, 1, 2, TMR_DISABLE}}
    \cup {<<DestEntry(1), v>> : v \in {0, 1}}

NoWrites == {}

-----------------------------------------------------------------------------
allVars == <<part, vars, mailVars, matchVars>>

MCInit ==
  /\ part \in Parts
  /\ Init /\ MailInit /\ MatchInit

AlertingPart(A) ==
  part = "alerting" /\ A /\ Observe /\ UNCHANGED <<part, mailVars, matchVars>>

Alerting ==
  /\ AlertingPart(Daemon \/ Environment \/ Restart)
  /\ writes' + nextId' <= MaxInputs + 1 /\ faults' <= AlertingFaults

MonitorPart(A) ==
  part = "monitors" /\ A /\ UNCHANGED <<part, task, nextId, acts, seen, mailVars, matchVars>>

Mail == part = "mail" /\ MailNext /\ UNCHANGED <<part, vars, matchVars>>

Filter == part = "filter" /\ MatchNext /\ UNCHANGED <<part, vars, mailVars>>

MCNext == Alerting \/ MonitorPart(MonitorNext) \/ Mail \/ Filter

MCSpec == MCInit /\ [][MCNext]_allVars

\* The fairness of PefAlerting!FairSpec and PefMonitors!MonitorSpec.
MCFairSpec ==
  /\ MCSpec
  /\ WF_allVars(AlertingPart(Daemon)) /\ WF_allVars(AlertingPart(Restart))
  /\ WF_allVars(MonitorPart(Monitors)) /\ WF_allVars(MonitorPart(DaemonStart))
  /\ WF_allVars(MonitorPart(ConfStart /\ UNCHANGED <<timer, data>>))

-----------------------------------------------------------------------------
\* The file holds every configured value whenever the daemons are at rest and
\* nothing failed, so that a BMC reboot changes nothing (the destination
\* selector table of the SNMP support included).
EveryConfigurationPersistent ==
  (faults = 0 /\ pc = "idle" /\ inbox = <<>>)
    => \A p \in FileProps : file[p] = conf[p]
=============================================================================
