SPECIFICATION Spec
CONSTANTS
  p1 = p1
  j1 = j1
  j2 = j2
  j3 = j3
  j4 = j4
  model = model
  DefaultType = default
  GPUType <- MCGPUType
  Provider = {p1}
  NoProvider = NoProvider
  Job = {j1, j2}
  NoJob = NoJob
  Machine <- OneAgent
  Place <- AllAtP1
  ByType = {}
  Ask <- OneAndTwo
  Malformed = {j2}
  HandlerDefault <- MCHandlerDefault
  PodDefault <- MCPodDefault
  Bound <- StormBound
INVARIANT TypeOK
INVARIANT InUseIsOwed
INVARIANT ChargesAreTraceable
INVARIANT NothingIsForgotten
CHECK_DEADLOCK FALSE
