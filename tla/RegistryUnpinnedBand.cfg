SPECIFICATION Spec
CONSTANTS
  f1 = f1 lo = lo c1 = c1 c2 = c2
  Flows = {f1}
  Prios = {lo}
  PrioOf <- MCPrioOf
  Clients = {c1, c2}
  StaticBands = {}
  FlowGCTimeout = 1
  PriorityBandGCTimeout = 1
  InitialShardCount = 1
  ShardCounts = {}
  Stalls = FALSE
  MaxShards = 1
  MaxObj = 6
  MaxTime = 4
  MaxCalls = 4
SYMMETRY Symmetric
INVARIANT LeasedFlowHasQueues
