SPECIFICATION MiningFairSpec
CONSTANTS
  p1 = p1
  j1 = j1
  j2 = j2
  model = model
  DefaultType = default
  GPUType <- MCGPUType
  Provider = {p1}
  NoProvider = NoProvider
  Job = {j1}
  NoJob = NoJob
  Machine <- ThreeGPUMiner
  Place <- AllAtP1
  ByType = {}
  Ask <- OneGPU
  Malformed = {}
  MiningAsk = {1, 2}
  MinerSize <- MCMinerSize
  HandlerDefault <- MCHandlerDefault
  PodDefault <- MCPodDefault
  Bound <- MiningBound
INVARIANT MiningTypeOK
PROPERTY MiningTakesFreeGPUs
PROPERTY MiningGivesBackItsGPUs
PROPERTY DeadMinersAreReclaimed
CHECK_DEADLOCK FALSE
