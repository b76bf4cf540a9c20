\* Two gateways start, crash and are redeployed while the master key changes.
SPECIFICATION FleetFairSpec
CONSTANTS
  g1 = g1
  g2 = g2
  Replica <- MCReplica
  Ships <- MCShips
  Provider = {openai, anthropic}
  MaxSecret = 3
  MaxCrashes = 1
INVARIANTS
  LatestCredential
  ReadableVault
  SchemaInOrder
PROPERTIES
  GatewaysGetThrough
CHECK_DEADLOCK FALSE
