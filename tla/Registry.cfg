SPECIFICATION FairSpec
CONSTANTS
  f1 = f1 lo = lo c1 = c1 c2 = c2
  Flows = {f1}
  Prios = {lo}
  PrioOf <- MCPrioOf
  Clients = {c1, c2}
  StaticBands = {}
  FlowGCTimeout = 1
  PriorityBandGCTimeout = 1
  InitialShardCount = 1
  ShardCounts = {1, 2}
  Stalls = FALSE
  MaxShards = 2
  MaxObj = 6
  MaxTime = 3
  MaxCalls = 4
INVARIANTS LeasesExact ActiveFlowIsLive BandsOnEveryShard
PROPERTY CallsEnd
