\* Safety of the datastore's budget operations.
SPECIFICATION Spec
CONSTANTS
  p1 = p1
  p2 = p2
  root = root
  child = child
  foreign = foreign
  l1 = l1
  NoRun = NoRun
  NoLease = NoLease
  Hold = {h1, h2}
  Principal <- MCPrincipal
  Run <- MCRun
  Lease <- MCLease
  Owner <- MCOwner
  Parent <- MCParent
  Budget <- MCBudget
  LeaseRun <- MCLeaseRun
  Ceiling <- MCCeiling
  Amounts = {1, 2}
  Costs = {1, 3}
  MaxEntries = 2
SYMMETRY HoldSymmetry
INVARIANTS
  TypeOK
  EnforcedWithinBudget
  EnforcedWithinCeiling
  BudgetHolds
  SettlementIntegrity
  OnePrincipalPerHierarchy
  StatusPredictsDecision
PROPERTIES
  ClosedRunsAdmitNothing
  ChargesAreFinal
CHECK_DEADLOCK FALSE
