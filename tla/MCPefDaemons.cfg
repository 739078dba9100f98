SPECIFICATION MCFairSpec
CONSTANTS
  FilterEntries = {1, 2}
  PolicyEntries = {1}
  DestEntries = {1}
  Installed <- MCInstalled
  Calls <- MCCalls
  MAX_EVT_FILTER_ENTRIES = 2
  ALERT_POLICY_SET = 1
  NUM_OF_ALERT_POLICY = 1
  Criteria <- MCCriteria
  MaxEvents = 2
  Empty = ""
  Hosts = {"", "h"}
  MaxMails = 2
  MaxSets = 2
  MaxMailFaults = 2
  Parts = {"alerting", "monitors", "mail", "filter"}
  Bits = {0, 1, 2}
  LowNibble = {0, 1}
  Writes <- MonitorWrites
  Events <- OneEvent
  FilterAction = {"alert", "cycle"}
  GlobalAction = {"alert", "cycle"}
  Recipients = 1
  MaxWrites = 4
  MaxInputs = 3
  MaxFaults = 2
  AlertingFaults = 1
CHECK_DEADLOCK FALSE
INVARIANT ChangesReachFile
INVARIANT ArmedTimerIsServed
INVARIANT DataMatchCorrect
INVARIANT ConfigSurvivesRestart
PROPERTY TornFileMeansNoMail
PROPERTY EventuallySaved
PROPERTY EventsHandled
