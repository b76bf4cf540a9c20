\* From the credential to the charge, with principal keys.
SPECIFICATION GatewaySpec
CONSTANTS
  p1 = p1
  root = root
  child = child
  NoRun = NoRun
  NoLease = NoLease
  NoProcess = NoProcess
  NoCall = NoCall
  Principal <- MCPrincipal
  Run <- MCRun
  Owner <- MCOwner
  Parent <- MCParent
  Budget <- MCBudget
  LeaseRun <- MCLeaseRun
  Ceiling <- MCCeiling
  ImplicitRun <- MCImplicitRun
  Process = {g1}
  Lease = {}
  Hold = {h1, h2}
  Amounts = {2}
  Costs = {1}
  MaxEntries = 2
  MaxCrashes = 0
SYMMETRY HoldSymmetry
INVARIANTS
  EnforcedEgress
  ClosedRunsStopEnforced
  ReleasedMeansFailed
  EntriesAreResponses
PROPERTIES
  StoreSpec
CHECK_DEADLOCK FALSE
