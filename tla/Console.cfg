\* The control plane, operator commands, alerts and shutdown.
SPECIFICATION ConsoleFairSpec
CONSTANTS
  p1 = p1
  root = root
  l1 = l1
  q1 = q1
  q2 = q2
  c1 = c1
  c2 = c2
  NoRun = NoRun
  NoLease = NoLease
  Principal <- MCPrincipal
  Run <- MCRun
  Lease <- MCLease
  Owner <- MCOwner
  Parent <- MCParent
  Budget <- MCBudget
  LeaseRun <- MCLeaseRun
  Ceiling <- MCCeiling
  Hold = {}
  Amounts = {}
  Costs = {}
  MaxEntries = 0
  Operator = {o1, o2, o3}
  Admins = {o1, o2}
  Request <- MCRequest
  Event <- MCRequest
  Command <- MCCommand
  Workloads <- MCWorkloads
  LegacyToken = TRUE
  MaxToken = 2
  QueueSize = 1
  Attempts = 2
INVARIANTS
  ConsoleTypeOK
  
  ResultsOrAlerts
PROPERTIES
  AnAdminRemains
  AlertsAreDelivered
CHECK_DEADLOCK FALSE
