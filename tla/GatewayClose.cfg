\* Whether closing a run prevents new spend on it.
SPECIFICATION GatewaySpec
CONSTANTS
  p1 = p1
  root = root
  child = child
  NoRun = NoRun
  NoLease = NoLease
  NoProcess = NoProcess
  NoCall = NoCall
  Principal <- MCPrincipal
  Run <- MCRun
  Owner <- MCOwner
  Parent <- MCParent
  Budget <- MCBudget
  LeaseRun <- MCLeaseRun
  Ceiling <- MCCeiling
  ImplicitRun <- MCImplicitRun
  Process = {g1}
  Lease = {}
  Hold = {h1}
  Amounts = {1}
  Costs = {1}
  MaxEntries = 1
  MaxCrashes = 0
INVARIANTS
  ClosingStopsSpend
CHECK_DEADLOCK FALSE
