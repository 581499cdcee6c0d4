SPECIFICATION Spec
CONSTANTS
  i1 = i1 i2 = i2 i3 = i3 f1 = f1 f2 = f2
  Items = {i1, i3}
  Flows = {f1, f2}
  NumBands = 2
  FlowOf <- MCFlowOf
  Bytes <- MCBytes
  BandOf <- MCBandOf
  Deadlined = {i1}
  Cancellable = {i3}
  BufferSize = 1
  CapRequests = 2
  CapBytes = 3
  BandCapRequests <- MCBandCapRequests
  BandCapBytes <- MCBandCapBytes
  Events = {"drain", "gc", "stop"}
  NoItem = NoItem
  NoFlow = NoFlow
INVARIANTS TypeOK ReturnsTheOutcome NoLostItem
PROPERTY ImplementsLifecycle
