----------------------------- MODULE MailAlert -----------------------------
(***************************************************************************)
(* The mail alert manager (mail_alert_manager.cpp): the SMTP client the    *)
(* PEF daemon asks to send its alerts, and its configuration file.         *)
(***************************************************************************)
EXTENDS Naturals

CONSTANTS
  Empty,      \* the empty string
  Hosts,      \* SMTP hosts and sender addresses, Empty included
  MaxMails,   \* bound on sendmail calls
  MaxSets,    \* bound on SetSmtpConfig calls
  MaxMailFaults   \* bound on crashes and failed file operations

ASSUME MailAssumption ==
  /\ Empty \in Hosts /\ MaxMails \in Nat /\ MaxSets \in Nat /\ MaxMailFaults \in Nat

VARIABLES
  running,   \* is the process up?
  smtp,      \* the members enable, host, port and sender of Smtp
  smtpFile,  \* /var/lib/alert/smtp-config.json, or TornConfig
  pending,   \* the SetSmtpConfig call between truncation and write, or None
  status,    \* history: status returned by the n-th sendmail
  sent,      \* history: the mails an SMTP server took
  unsaved,   \* history: the last SetSmtpConfig could not open or write the file
  sets, mailFaults

mailVars == <<running, smtp, smtpFile, pending, status, sent, unsaved, sets, mailFaults>>

Config == [enable : {0, 1}, host : Hosts, port : {0, 25}, sender : Hosts]

\* The member initialisers of class Smtp.
Unset == [enable |-> 0, host |-> Empty, port |-> 0, sender |-> Empty]

TornConfig == [enable |-> 2, host |-> Empty, port |-> 0, sender |-> Empty]
None == TornConfig

Failure == 65535  \* (uint16_t)-1

Usable(c) == c.enable = 1 /\ c.host # Empty /\ c.port # 0 /\ c.sender # Empty

-----------------------------------------------------------------------------
MailInit ==
  /\ running = 1
  /\ smtp = Unset /\ smtpFile = Unset
  /\ pending = None
  /\ status = [n \in 1..MaxMails |-> 1] /\ sent = {}
  /\ unsaved = 0 /\ sets = 0 /\ mailFaults = 0

\* initializeSmtpcfg: a file that does not parse leaves the initial members.
MailStart ==
  /\ running = 0
  /\ running' = 1
  /\ smtp' = IF smtpFile = TornConfig THEN Unset ELSE smtpFile
  /\ unsaved' = 0
  /\ UNCHANGED <<smtpFile, pending, status, sent, sets, mailFaults>>

MailCrash ==
  /\ mailFaults < MaxMailFaults /\ running = 1
  /\ running' = 0
  /\ pending' = None
  /\ mailFaults' = mailFaults + 1
  /\ UNCHANGED <<smtp, smtpFile, status, sent, unsaved, sets>>

\* setsmtpconfig: the open truncates; whether it succeeded is not looked at.
SetSmtpConfigOpen(c) ==
  /\ running = 1 /\ pending = None /\ sets < MaxSets
  /\ pending' = c
  /\ sets' = sets + 1
  /\ \/ smtpFile' = TornConfig /\ unsaved' = 0 /\ UNCHANGED mailFaults
     \/ mailFaults < MaxMailFaults /\ mailFaults' = mailFaults + 1 /\ unsaved' = 1 /\ UNCHANGED smtpFile
  /\ UNCHANGED <<running, smtp, status, sent>>

\* Mutant: the members are not updated.
SetSmtpConfigWrite_FileOnly ==
  /\ running = 1 /\ pending # None
  /\ smtpFile' = IF unsaved = 1 THEN smtpFile ELSE pending
  /\ pending' = None
  /\ UNCHANGED <<running, smtp, status, sent, unsaved, sets, mailFaults>>

\* The members change whether or not the write to the stream succeeded.
SetSmtpConfigWrite ==
  /\ running = 1 /\ pending # None
  /\ \/ /\ smtpFile' = IF unsaved = 1 THEN smtpFile ELSE pending
        /\ UNCHANGED <<unsaved, mailFaults>>
     \/ /\ mailFaults < MaxMailFaults /\ mailFaults' = mailFaults + 1
        /\ unsaved' = 1 /\ UNCHANGED smtpFile
  /\ smtp' = pending
  /\ pending' = None
  /\ UNCHANGED <<running, status, sent, sets>>

\* Mutant: the configuration is not tested.
sendmail_Untested(n) ==
  /\ running = 1 /\ pending = None /\ status[n] = 1
  /\ status' = [status EXCEPT ![n] = 0] /\ sent' = sent \cup {n}
  /\ UNCHANGED <<running, smtp, smtpFile, pending, unsaved, sets, mailFaults>>

(***************************************************************************)
(* sendmail: refused without a complete configuration; otherwise 0,        *)
(* whether or not the session with the server started.                     *)
(***************************************************************************)
sendmail(n) ==
  /\ running = 1 /\ pending = None /\ status[n] = 1
  /\ IF Usable(smtp)
     THEN /\ status' = [status EXCEPT ![n] = 0]
          /\ sent' = sent \cup {n} \/ UNCHANGED sent
     ELSE status' = [status EXCEPT ![n] = Failure] /\ UNCHANGED sent
  /\ UNCHANGED <<running, smtp, smtpFile, pending, unsaved, sets, mailFaults>>

MailNext ==
  \/ MailStart \/ MailCrash \/ SetSmtpConfigWrite
  \/ \E c \in Config : SetSmtpConfigOpen(c)
  \/ \E n \in 1..MaxMails : sendmail(n)

MailSpec == MailInit /\ [][MailNext]_mailVars

-----------------------------------------------------------------------------
MailTypeOK ==
  /\ running \in {0, 1} /\ smtp \in Config /\ smtpFile \in Config \cup {TornConfig}
  /\ pending \in Config \cup {None}
  /\ status \in [1..MaxMails -> {0, 1, Failure}] /\ sent \subseteq 1..MaxMails
  /\ unsaved \in {0, 1} /\ sets \in 0..MaxSets /\ mailFaults \in 0..MaxMailFaults

\* What the service answers from is what a restart would read back: between
\* two calls the members equal the file, or the file is unreadable and the
\* service runs on the initial (disabled) members, unless a write failed.
ConfigSurvivesRestart ==
  (running = 1 /\ pending = None /\ unsaved = 0)
    => smtp = (IF smtpFile = TornConfig THEN Unset ELSE smtpFile)

\* A crash in the middle of SetSmtpConfig costs the configuration: from then on
\* no mail leaves until a client configures the service again.
TornFileMeansNoMail ==
  [][(running = 1 /\ smtpFile = TornConfig /\ unsaved = 0) => sent' = sent]_mailVars

=============================================================================
