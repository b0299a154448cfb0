CONSTANTS
  d1 = d1
  d2 = d2
  o1 = o1
  o2 = o2
  site = site
  None = None
  n1 = n1
  Devices = {d1, d2}
  Orgs = {o1, o2}
  Sites = {site}
  Nodes = {n1}
  Penalties = {0, 30}
  MaxTime = 2
  Timeout = 1
  Lives = {1}
  Retries = {1}
  MaxCommands = 3
  MaxAlerts = 2
  MaxEntries = 3
  MaxReports = 1
  Bodies <- MCBodies
  Observed <- MCObserved
  CashTimes <- MCCashTimes
  Denominations <- MCDenominations
  Targets <- MCTargets
  Actions = {"dispense_cash", "unlock", "count_cash", "launch", "enter_maintenance_mode"}
  HighRisk = {"dispense_cash", "unlock", "enter_maintenance_mode"}
  Denied = {"unlock"}
  Posts <- MCPosts
  MaxEvidence = 4
  MaxDecisions = 2
  Commands = {"dispense_cash", "unlock", "count_cash", "launch", "enter_maintenance_mode"}
  Kinds = {"cash_drawer", "kiosk"}
  CapSets <- MCCapSets
  EdgeTimes = {1, 2}
  MaxResults = 2
SPECIFICATION MCSpec
INVARIANTS
  CloudTypeOK
  AckCountsOnce
  BalancedIsTrue
  AnomalyHasAlert
  AdviceIsSound
  
  PolicyGates
  EvidenceBacked
  
PROPERTIES
  
  CommandsSettle
CHECK_DEADLOCK FALSE
