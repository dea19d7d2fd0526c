SPECIFICATION MiningSpec
CONSTANTS
  p1 = p1
  j1 = j1
  j2 = j2
  model = model
  DefaultType = default
  GPUType <- MCGPUType
  Provider = {p1}
  NoProvider = NoProvider
  Job = {j1, j2}
  NoJob = NoJob
  Machine <- TwoGPUAgent
  Place <- AllAtP1
  ByType = {}
  Ask <- OneGPU
  Malformed = {}
  MiningAsk = {1}
  MinerSize <- MCMinerSize
  HandlerDefault <- MCHandlerDefault
  PodDefault <- MCPodDefault
  Bound <- ResetBound
INVARIANT MiningNeverDisplaces
CHECK_DEADLOCK FALSE
