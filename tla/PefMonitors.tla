---------------------------- MODULE PefMonitors ----------------------------
(***************************************************************************)
(* The signal handlers of the event filtering daemon: the monitors of      *)
(* pef_config_update.hpp that write changed properties to the JSON file,   *)
(* and the postpone timer monitor of pef_action.hpp.  The daemon has one   *)
(* thread: it takes the next message of `inbox' only at "idle".            *)
(***************************************************************************)
EXTENDS PefConfig

VARIABLES
  timer,  \* seconds left of the running countdown (local of the monitor)
  data    \* the JSON document being written (local of the monitor)

TMR_DISABLE == 254  \* 0xFE: temporary PEF disable
TMR_GET     == 255  \* 0xFF

\* The values the postpone timer monitor counts down from.
Countdown == Nat \ {0, TMR_DISABLE, TMR_GET}

monitorVars == <<confState, conf, file, inbox, pc, lost, writes, faults, timer, data>>

MonitorInit == ConfInit /\ timer = 0 /\ data = Installed

-----------------------------------------------------------------------------
(***************************************************************************)
(* startArmPefPostponeTimerMonitor: sleep(1) and a Set per second, with    *)
(* the daemon's only thread, then ArmPEFPostponeTmr back to 0.  A Set that *)
(* fails is logged and forgotten.                                          *)
(***************************************************************************)
ArmTimerSignal ==
  /\ pc = "idle" /\ inbox # <<>>
  /\ Head(inbox).kind = "signal" /\ Head(inbox).prop = ArmPEFPostponeTmr
  /\ inbox' = Tail(inbox)
  /\ IF Head(inbox).val \in Countdown
     THEN pc' = "count" /\ timer' = Head(inbox).val
     ELSE UNCHANGED <<pc, timer>>
  /\ UNCHANGED <<confState, conf, file, lost, writes, faults, data>>

CountTick ==
  /\ pc = "count" /\ timer # 0
  /\ timer' = timer - 1
  /\ IF Serves(TmrCountdownValue)
     THEN SetProperty(TmrCountdownValue, timer - 1)
     ELSE UNCHANGED <<conf, inbox, lost>>
  /\ UNCHANGED <<confState, file, pc, writes, faults, data>>

\* Mutant: the timer property is not reset after the countdown.
CountDone_NoReset ==
  /\ pc = "count" /\ timer = 0
  /\ pc' = "idle"
  /\ UNCHANGED <<confState, conf, file, inbox, lost, writes, faults, timer, data>>

CountDone ==
  /\ pc = "count" /\ timer = 0
  /\ IF Serves(ArmPEFPostponeTmr)
     THEN SetProperty(ArmPEFPostponeTmr, 0)
     ELSE UNCHANGED <<conf, inbox, lost>>
  /\ pc' = "idle"
  /\ UNCHANGED <<confState, file, writes, faults, timer, data>>

-----------------------------------------------------------------------------
(***************************************************************************)
(* The PEFConfInfo, EventFilterTable and AlertPolicyTable monitors: parse  *)
(* the file, set the changed property in the document, and                 *)
(* updateJsonFile: open with trunc, write, close.  A document that does    *)
(* not parse throws at its first operator[], and the change is dropped.    *)
(***************************************************************************)
\* Mutants of SaveBegin: the document is parsed once, when the daemon starts;
\* changes of the filter table find no entry to update.
SaveBegin_Cached ==
  /\ pc = "idle" /\ inbox # <<>>
  /\ Head(inbox).kind = "signal" /\ Head(inbox).prop # ArmPEFPostponeTmr
  /\ inbox' = Tail(inbox)
  /\ data' = [Installed EXCEPT ![Head(inbox).prop] = Head(inbox).val]
  /\ file' = Torn /\ pc' = "write"
  /\ UNCHANGED <<confState, conf, lost, writes, faults, timer>>

SaveBegin_EntryNotFound ==
  /\ pc = "idle" /\ inbox # <<>>
  /\ Head(inbox).kind = "signal" /\ Head(inbox).prop # ArmPEFPostponeTmr
  /\ inbox' = Tail(inbox)
  /\ IF file = Torn
     THEN UNCHANGED <<file, pc, data>>
     ELSE /\ data' = IF Head(inbox).prop[1] = "EventFilterTable" THEN file
                     ELSE [file EXCEPT ![Head(inbox).prop] = Head(inbox).val]
          /\ file' = Torn /\ pc' = "write"
  /\ UNCHANGED <<confState, conf, lost, writes, faults, timer>>

SaveBegin ==
  /\ pc = "idle" /\ inbox # <<>>
  /\ Head(inbox).kind = "signal" /\ Head(inbox).prop # ArmPEFPostponeTmr
  /\ inbox' = Tail(inbox)
  /\ IF file = Torn
     THEN UNCHANGED <<file, pc, data>>
     ELSE /\ data' = [file EXCEPT ![Head(inbox).prop] = Head(inbox).val]
          /\ file' = Torn
          /\ pc' = "write"
  /\ UNCHANGED <<confState, conf, lost, writes, faults, timer>>

\* The open fails: "Failed to create file", the file keeps its contents.
SaveOpenFails ==
  /\ faults < MaxFaults
  /\ pc = "idle" /\ inbox # <<>>
  /\ Head(inbox).kind = "signal" /\ Head(inbox).prop # ArmPEFPostponeTmr
  /\ file # Torn
  /\ inbox' = Tail(inbox)
  /\ lost' = lost \cup {Head(inbox).prop}
  /\ faults' = faults + 1
  /\ UNCHANGED <<confState, conf, file, pc, writes, timer, data>>

SaveEnd ==
  /\ pc = "write"
  /\ file' = data
  /\ pc' = "idle"
  /\ UNCHANGED <<confState, conf, inbox, lost, writes, faults, timer, data>>

\* The write fails (a full disk): updateJsonFile does not look at the stream.
SaveWriteFails ==
  /\ faults < MaxFaults
  /\ pc = "write"
  /\ pc' = "idle"
  /\ faults' = faults + 1
  /\ UNCHANGED <<confState, conf, file, inbox, lost, writes, timer, data>>

-----------------------------------------------------------------------------
(***************************************************************************)
(* The process ends (BMC reset, killed) and systemd starts it again        *)
(* (Restart=always).  Queued messages and a countdown are gone.            *)
(***************************************************************************)
DaemonCrash ==
  /\ faults < MaxFaults
  /\ pc # "down"
  /\ pc' = "down"
  /\ inbox' = <<>>
  /\ lost' = lost \cup {p \in Watched : Signalled(p)}
                  \cup (IF pc = "count" THEN {ArmPEFPostponeTmr} ELSE {})
  /\ timer' = 0
  /\ faults' = faults + 1
  /\ UNCHANGED <<confState, conf, file, writes, data>>

DaemonStart ==
  /\ pc = "down"
  /\ pc' = "idle"
  /\ UNCHANGED <<confState, conf, file, inbox, lost, writes, faults, timer, data>>

Monitors == ArmTimerSignal \/ CountTick \/ CountDone \/ SaveBegin \/ SaveEnd

MonitorNext ==
  \/ ConfNext /\ UNCHANGED <<timer, data>>
  \/ Monitors
  \/ SaveOpenFails
  \/ SaveWriteFails
  \/ DaemonCrash
  \/ DaemonStart

(***************************************************************************)
(* The daemon's thread runs whenever it has something to do, and systemd   *)
(* restarts both daemons; nothing makes a client write or a fault happen.  *)
(***************************************************************************)
MonitorSpec ==
  /\ MonitorInit /\ [][MonitorNext]_monitorVars
  /\ WF_monitorVars(Monitors)
  /\ WF_monitorVars(DaemonStart)
  /\ WF_monitorVars(ConfStart /\ UNCHANGED <<timer, data>>)

-----------------------------------------------------------------------------
MonitorTypeOK ==
  /\ confState \in {"up", "bare", "down"}
  /\ DOMAIN conf = Props /\ \A p \in Props : conf[p] \in Values(p)
  /\ file = Torn \/ (DOMAIN file = FileProps /\ \A p \in FileProps : file[p] \in Values(p))
  /\ DOMAIN data = FileProps /\ \A p \in FileProps : data[p] \in Values(p)
  /\ \A i \in DOMAIN inbox :
       inbox[i].kind = "signal" => inbox[i].prop \in Watched
                                     /\ inbox[i].val \in Values(inbox[i].prop)
  /\ lost \subseteq Watched
  /\ timer \in Nat /\ writes \in 0..MaxWrites /\ faults \in 0..MaxFaults

\* No change of a watched table is forgotten: once its signal is no longer
\* queued and no write is under way, the file holds the value the property
\* server holds, unless the signal itself was lost with a crash.  (Two quick
\* changes, a restart of the property server between them, or a change made
\* while the daemon sits in a countdown may not leave an old value behind.)
ChangesReachFile ==
  \A p \in Watched \cap FileProps :
    (confState = "up" /\ file # Torn /\ p \notin lost /\ ~Signalled(p))
      => file[p] = conf[p]

\* An armed postpone timer always runs out: while ArmPEFPostponeTmr holds a
\* countdown value, the countdown is running or its signal is still queued
\* (unless a crash of the daemon took it away), also when a client re-arms,
\* disables or re-enables the timer during a countdown.
ArmedTimerIsServed ==
  (confState # "down" /\ ArmPEFPostponeTmr \notin lost
     /\ conf[ArmPEFPostponeTmr] \in Countdown)
    => pc = "count" \/ Signalled(ArmPEFPostponeTmr)

\* updateJsonFile leaves an unparsable file behind only if a fault hit it.
TornOnlyByFault == file = Torn => pc = "write" \/ faults > 0

\* What the file ends up with: if a change of a watched table is not lost, it
\* is eventually in the file for good.
EventuallySaved ==
  \A p \in Watched \cap FileProps :
    <>[](file = Torn \/ confState # "up" \/ p \in lost \/ file[p] = conf[p])
=============================================================================
