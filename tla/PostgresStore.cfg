\* Two replicas on one PostgreSQL database.
SPECIFICATION FairSpec
CONSTANTS
  p1 = p1
  root = root
  child = child
  l1 = l1
  h1 = h1
  h2 = h2
  s1 = s1
  s2 = s2
  NoRun = NoRun
  NoLease = NoLease
  Principal <- MCPrincipal
  Run <- MCRun
  Lease <- MCLease
  Owner <- MCOwner
  Parent <- MCParent
  Budget <- MCBudget
  LeaseRun <- MCLeaseRun
  Ceiling <- MCCeiling
  Hold = {h1, h2}
  Session = {s1, s2}
  Home <- MCHome
  RunOf <- MCRunOf
  LeaseOf <- MCLeaseOf
  Modes = {TRUE}
  LegacyRuns = {child}
  Details = {reported, altered}
  Amounts = {1}
  Costs = {1}
  MaxEntries = 2
INVARIANTS
  TypeOK
  EnforcedWithinBudget
  ChainVerifies
  SealedOntoHead
  TamperEvident
  SettlementIntegrity
PROPERTIES
  ClosedRunsAdmitNothing
  TransactionsEnd
  KeepsSpendLog
CHECK_DEADLOCK FALSE
