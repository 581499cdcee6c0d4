SPECIFICATION Spec
CONSTANTS
  r1 = r1 r2 = r2 e1 = e1 e2 = e2
  Requests = {r1, r2}
  PriorityOf <- MCPriority
  Endpoints = {e1, e2}
  SizeOf <- MCSize
  MaxConcurrency = 2
  Headroom = 0
  FlowControl = FALSE
  MaxTargets = 2
  MaxChunks = 1
  Varied = {r1}
  Pools <- MCPools
  MaxDeletes = 1
INVARIANT BackpressureSeesLoad
