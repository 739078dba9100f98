SPECIFICATION MCSpec
CONSTANTS
  FilterEntries = {1, 2}
  PolicyEntries = {1}
  DestEntries = {1}
  Installed <- MCInstalled
  Calls <- MCCalls
  MAX_EVT_FILTER_ENTRIES = 2
  ALERT_POLICY_SET = 1
  NUM_OF_ALERT_POLICY = 1
  Criteria <- MCCriteria
  MaxEvents = 2
  Empty = ""
  Hosts = {"", "h"}
  MaxMails = 2
  MaxSets = 2
  MaxMailFaults = 2
  Parts = {"alerting"}
  Bits = {0, 1}
  LowNibble = {0}
  Writes <- PermissionWrites
  Events <- MCEvents
  FilterAction = {"alert", "off", "reset"}
  GlobalAction = {"alert", "off", "reset"}
  Recipients = 2
  MaxWrites = 3
  MaxInputs = 3
  MaxFaults = 1
  AlertingFaults = 1
CHECK_DEADLOCK FALSE
INVARIANT OffExcludesReset
INVARIANT ActionsInEventOrder
INVARIANT NoActionTwice
PROPERTY ActionsPermitted
