----------------------------- MODULE PefConfig -----------------------------
(***************************************************************************)
(* The pef-configuration daemon (pef_config.cpp): a D-Bus property server  *)
(* whose properties are registered from a JSON file when it starts and are *)
(* then written by clients (IPMI, Redfish, the web UI) and by the event    *)
(* filtering daemon.  It never writes the file.                            *)
(*                                                                         *)
(* A property is a triple <<table, entry, name>>.  Bit masks are sets of   *)
(* bit names, e.g. EvtFilterAction \subseteq {"alert", "off", ...}.        *)
(***************************************************************************)
EXTENDS Naturals, Sequences

CONSTANTS
  FilterEntries,  \* entry numbers of EventFilterTable in the JSON file
  PolicyEntries,  \* entry numbers of AlertPolicyTable
  DestEntries,    \* entry numbers of DestinationSelector
  Installed,      \* the values of the installed JSON file
  Writes,         \* the <<property, value>> pairs clients write
  Calls,          \* method calls to the event filtering daemon, of kind "event"
  MaxWrites,      \* bound on client writes
  MaxFaults       \* bound on crashes and failed file operations

VARIABLES
  confState,  \* "down", "up", or "bare": running without the JSON tables
  conf,       \* the value of every property
  file,       \* contents of /var/lib/pef-alert-manager/pef-alert-manager.json
  inbox,      \* messages queued on the event filtering daemon's connection
  pc,         \* control point of the event filtering daemon ("down": no process)
  lost,       \* history: properties whose latest change signal was lost, or was
              \* still queued when the property server started again
  writes,     \* client writes so far
  faults      \* faults so far

-----------------------------------------------------------------------------
(* Properties *)

ConfInfo(name)      == <<"PEFConfInfo", 0, name>>
FilterEntry(n, name) == <<"EventFilterTable", n, name>>
PolicyEntry(n, name) == <<"AlertPolicyTable", n, name>>
DestEntry(n)        == <<"DestinationSelectorTable", n, "DestinationType">>

PEFControl              == ConfInfo("PEFControl")
PEFActionGblControl     == ConfInfo("PEFActionGblControl")
Recipient               == ConfInfo("Recipient")
LastBMCProcessedEventID == ConfInfo("LastBMCProcessedEventID")
ArmPEFPostponeTmr       == <<"PEFPostponeTimer", 0, "ArmPEFPostponeTmr">>
TmrCountdownValue       == <<"CountdownTmr", 0, "TmrCountdownValue">>

ConfInfoProps == {PEFControl, PEFActionGblControl, Recipient,
                  LastBMCProcessedEventID}
FilterNames == {"FilterConfig", "SensorNum", "EvtFilterAction", "AlertPolicyNum"}
PolicyNames == {"AlertNum", "ChannelDestSel"}

FileProps == ConfInfoProps
               \cup {FilterEntry(n, f) : n \in FilterEntries, f \in FilterNames}
               \cup {PolicyEntry(n, f) : n \in PolicyEntries, f \in PolicyNames}
               \cup {DestEntry(n) : n \in DestEntries}
TimerProps == {ArmPEFPostponeTmr, TmrCountdownValue}
Props == FileProps \cup TimerProps

(***************************************************************************)
(* The properties whose PropertiesChanged signal the event filtering       *)
(* daemon has a match rule for: three tables and the postpone timer.       *)
(***************************************************************************)
Watched == {p \in Props : p[1] \in {"PEFConfInfo", "EventFilterTable",
                                    "AlertPolicyTable", "PEFPostponeTimer"}}

\* A file that was truncated and not (fully) written again: it does not parse.
Torn == <<>>

ActionBits == {"alert", "off", "reset", "cycle"}

Values(p) ==
  CASE p[3] = "PEFControl"          -> SUBSET {"enable"}
    [] p[3] = "PEFActionGblControl" -> SUBSET ActionBits
    [] p[3] = "EvtFilterAction"     -> SUBSET ActionBits
    [] p[3] = "FilterConfig"        -> SUBSET {"enable"}
    [] p[3] = "AlertNum"            -> SUBSET {"enable"}
    [] p[3] = "Recipient"           -> Seq(STRING)
    [] OTHER                        -> Nat

ASSUME ConfigAssumption ==
  /\ FilterEntries \subseteq Nat /\ PolicyEntries \subseteq Nat
  /\ DestEntries \subseteq Nat
  /\ DOMAIN Installed = FileProps
  /\ \A p \in FileProps : Installed[p] \in Values(p)
  /\ \A w \in Writes : w[1] \in Props /\ w[2] \in Values(w[1])
  /\ \A c \in Calls : c.kind = "event"
  /\ MaxWrites \in Nat /\ MaxFaults \in Nat

-----------------------------------------------------------------------------
Signal(p, v) == [kind |-> "signal", prop |-> p, val |-> v]

Signalled(p) == \E i \in DOMAIN inbox : inbox[i].kind = "signal" /\ inbox[i].prop = p

(***************************************************************************)
(* Is there an object with property p on the bus?                          *)
(***************************************************************************)
Serves(p) == \/ confState = "up" /\ p \in Props
             \/ confState = "bare" /\ p \in TimerProps

(***************************************************************************)
(* org.freedesktop.DBus.Properties.Set on a property it serves: the value  *)
(* is stored, and PropertiesChanged is broadcast when it differs.  Nobody  *)
(* queues the signal while the event filtering daemon is not running.      *)
(***************************************************************************)
SetProperty(p, v) ==
  /\ conf' = [conf EXCEPT ![p] = v]
  /\ IF conf[p] = v \/ p \notin Watched
     THEN UNCHANGED <<inbox, lost>>
     ELSE IF pc = "down"
     THEN lost' = lost \cup {p} /\ UNCHANGED inbox
     ELSE lost' = lost \ {p} /\ inbox' = Append(inbox, Signal(p, v))

-----------------------------------------------------------------------------
ConfInit ==
  /\ confState = "up"
  /\ file = Installed
  /\ conf = [p \in Props |-> IF p \in FileProps THEN Installed[p] ELSE 0]
  /\ inbox = <<>>
  /\ pc = "idle"
  /\ lost = {}
  /\ writes = 0
  /\ faults = 0

ClientSet(p, v) ==
  /\ writes < MaxWrites
  /\ Serves(p)
  /\ SetProperty(p, v)
  /\ writes' = writes + 1
  /\ UNCHANGED <<confState, file, pc, faults>>

ConfCrash ==
  /\ faults < MaxFaults
  /\ confState # "down"
  /\ confState' = "down"
  /\ faults' = faults + 1
  /\ UNCHANGED <<conf, file, inbox, pc, lost, writes>>

(***************************************************************************)
(* main: the timer objects are registered with 0, then                     *)
(* parsePefConfToDbus registers the tables of the file.  A file that does  *)
(* not parse makes the first data["PEFConfInfo"] throw, and the daemon     *)
(* runs on without any table.  (Requires= in the unit file may make        *)
(* systemd restart the event filtering daemon as well: a DaemonCrash       *)
(* between ConfCrash and this step.)                                       *)
(***************************************************************************)
ConfStart ==
  /\ confState = "down"
  /\ IF file = Torn
     THEN /\ confState' = "bare"
          /\ conf' = [conf EXCEPT ![ArmPEFPostponeTmr] = 0, ![TmrCountdownValue] = 0]
          /\ UNCHANGED lost
     ELSE /\ confState' = "up"
          /\ conf' = [p \in Props |-> IF p \in FileProps THEN file[p] ELSE 0]
          /\ lost' = {p \in Watched : Signalled(p)}
  /\ UNCHANGED <<file, inbox, pc, writes, faults>>

ConfNext == (\E w \in Writes : ClientSet(w[1], w[2])) \/ ConfCrash \/ ConfStart
=============================================================================
