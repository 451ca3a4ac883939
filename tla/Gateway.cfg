SPECIFICATION GatewayFairSpec
CONSTANTS
  Requests = {r1}
  Services = {"crypto", "lock", "tokenize"}
  Watchers = {w1}
  PoolSize = 2
  MaxPools = 2
INVARIANTS
  HandedOutOpen
  NoLeakedConnections
PROPERTY
  GatewayStops
