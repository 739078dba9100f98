---------------------------- MODULE PefAlerting ----------------------------
(***************************************************************************)
(* The whole PEF subsystem: the property server and its clients            *)
(* (PefConfig), the signal monitors of the event filtering daemon          *)
(* (PefMonitors) and its doPefTask method (PefTask), which share the one   *)
(* thread of the daemon and its message queue.                             *)
(***************************************************************************)
EXTENDS PefTask

VARIABLE seen  \* history: per unfinished event, what was permitted since it was sent

vars == <<monitorVars, task, nextId, acts, seen>>

(***************************************************************************)
(* A permission is a bit of a control property that is 1, or a postpone    *)
(* timer that does not suspend PEF.                                        *)
(***************************************************************************)
ControlProps ==
  {PEFControl, PEFActionGblControl}
    \cup {FilterEntry(n, f) : n \in FilterEntries, f \in {"FilterConfig", "EvtFilterAction"}}
    \cup {PolicyEntry(n, "AlertNum") : n \in PolicyEntries}

Permissions == (ControlProps \X (ActionBits \cup {"enable"}))
                 \cup {<<ArmPEFPostponeTmr, "running">>}

Permitted(p, bit) ==
  Serves(p) /\ IF p = ArmPEFPostponeTmr THEN conf[p] # TMR_DISABLE ELSE bit \in conf[p]

Permits == {r \in Permissions : Permitted(r[1], r[2])}

Pending(id) == \/ task.id = id
               \/ \E i \in DOMAIN inbox : inbox[i].kind = "event" /\ inbox[i].id = id

Observe == seen' = [id \in 1..MaxEvents |->
                      IF Pending(id)' THEN seen[id] \cup Permits' ELSE {}]

-----------------------------------------------------------------------------
Init == MonitorInit /\ TaskInit /\ seen = [id \in 1..MaxEvents |-> {}]

Task ==
  \/ PefTaskBegin \/ PostponeRead \/ FilterScan \/ FilterScanEnd
  \/ EntryRead \/ GlobalRead \/ PowerOff \/ GetPowerStatus \/ Reset
  \/ PolicyScan \/ PolicyScanEnd \/ PolicyRead \/ DestRead \/ SendTrap
  \/ RecipientRead \/ SendMail \/ SetLastProcessed

\* Everything the daemon's thread does.
Daemon == Task \/ (Monitors /\ UNCHANGED <<task, nextId, acts>>)

Environment ==
  \/ \E msg \in Events : SendEvent(msg)
  \/ DaemonCrash /\ task' = NoTask /\ UNCHANGED <<nextId, acts>>
  \/ /\ (ConfNext /\ UNCHANGED <<timer, data>>) \/ SaveOpenFails \/ SaveWriteFails
     /\ UNCHANGED <<task, nextId, acts>>

Restart == DaemonStart /\ UNCHANGED <<task, nextId, acts>>

Next == (Daemon \/ Environment \/ Restart) /\ Observe

Spec == Init /\ [][Next]_vars

(***************************************************************************)
(* The thread of the daemon runs when it can, and systemd restarts it.     *)
(* Every call it makes returns (D-Bus calls have a timeout).               *)
(***************************************************************************)
FairSpec == Spec /\ WF_vars(Daemon /\ Observe) /\ WF_vars(Restart /\ Observe)

-----------------------------------------------------------------------------
(***************************************************************************)
(* What an action needs: PEF enabled and not suspended, its filter enabled *)
(* and asking for it, the global control allowing it, and for an alert its *)
(* policy enabled.                                                         *)
(***************************************************************************)
Bit(kind) == CASE kind = "off" -> {"off"}
               [] kind = "reset" -> {"reset", "cycle"}
               [] OTHER -> {"alert"}

Needs(a, bit) ==
  {<<PEFControl, "enable">>, <<ArmPEFPostponeTmr, "running">>,
   <<FilterEntry(a.filter, "FilterConfig"), "enable">>,
   <<FilterEntry(a.filter, "EvtFilterAction"), bit>>,
   <<PEFActionGblControl, bit>>}
    \cup (IF a.kind \in {"mail", "trap"}
          THEN {<<PolicyEntry(a.policy, "AlertNum"), "enable">>} ELSE {})

\* An event never causes an action that was forbidden all the time from the
\* moment the event was sent until the action: each of the permissions it
\* needs was given at some moment in between.  The daemon checks them one by
\* one with separate calls, while events wait behind countdowns and clients
\* change the tables.
ActionsPermitted ==
  [][acts' # acts =>
       LET a == acts'[Len(acts')]
       IN  \E bit \in Bit(a.kind) : Needs(a, bit) \subseteq seen[a.id]]_vars

\* Actions are performed in the order of the events, also when events wait
\* behind a countdown or a file write.
ActionsInEventOrder ==
  \A i, j \in DOMAIN acts : i < j => acts[i].id <= acts[j].id

\* No event causes the same action twice: not the same mail to the same
\* recipient for the same policy entry, nor a second power action of a filter.
NoActionTwice ==
  \A i, j \in DOMAIN acts : i # j => acts[i] # acts[j]

\* A filter that powers the chassis off does not also reset the host for the
\* same event.
OffExcludesReset ==
  \A i, j \in DOMAIN acts :
    (acts[i].id = acts[j].id /\ acts[i].filter = acts[j].filter)
      => {acts[i].kind, acts[j].kind} # {"off", "reset"}

\* Mail is the default: a trap is sent only if a client set the destination
\* type of some entry to SNMP (0).
TrapsOnlyIfConfigured ==
  (\E i \in DOMAIN acts : acts[i].kind = "trap")
    => \E w \in Writes : w[1][3] = "DestinationType" /\ w[2] = 0

\* Every event handed to the daemon is dealt with in the end: no message order
\* and no countdown keeps it waiting for ever.
EventsHandled == \A id \in 1..MaxEvents : Pending(id) ~> ~Pending(id)
=============================================================================
