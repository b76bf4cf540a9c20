\* Whether enforced children can overspend their parent.
SPECIFICATION Spec
CONSTANTS
  p1 = p1
  p2 = p2
  root = root
  child = child
  foreign = foreign
  l1 = l1
  NoRun = NoRun
  NoLease = NoLease
  Hold = {h1, h2}
  Principal <- MCPrincipal
  Run <- MCRun
  Lease <- MCLease
  Owner <- MCOwner
  Parent <- MCParent
  Budget <- MCBudget
  LeaseRun <- MCLeaseRun
  Ceiling <- MCCeiling
  Amounts = {2}
  Costs = {2}
  MaxEntries = 2
INVARIANTS
  ChildrenWithinParent
CHECK_DEADLOCK FALSE
