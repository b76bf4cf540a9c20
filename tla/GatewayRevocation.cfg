\* Leases, the kill switch, two processes and a crash.
SPECIFICATION GatewaySpec
CONSTANTS
  p1 = p1
  root = root
  child = child
  NoRun = NoRun
  NoLease = NoLease
  NoProcess = NoProcess
  NoCall = NoCall
  Principal <- MCPrincipal
  Run <- MCRun
  Owner <- MCOwner
  Parent <- MCParent
  Budget <- MCBudget
  LeaseRun <- MCLeaseRun
  Ceiling <- MCCeiling
  ImplicitRun <- MCImplicitRun
  Process = {g1, g2}
  Lease = {l1}
  Hold = {h1}
  Amounts = {1}
  Costs = {1}
  MaxEntries = 1
  MaxCrashes = 1
INVARIANTS
  GatewayTypeOK
PROPERTIES
  KilledLeasesStayOut
CHECK_DEADLOCK FALSE
