SPECIFICATION Spec
CONSTANTS
  p1 = p1
  j1 = j1
  j2 = j2
  j3 = j3
  j4 = j4
  model = model
  DefaultType = default
  GPUType <- MCGPUType
  Provider = {p1}
  NoProvider = NoProvider
  Job = {j1, j2, j3, j4}
  NoJob = NoJob
  Machine <- OneSDK
  Place <- AllAtP1
  ByType = {j2}
  Ask <- Crowd
  Malformed = {}
  HandlerDefault <- MCHandlerDefault
  PodDefault <- MCPodDefault
  Bound <- RestartBound
INVARIANT NoDoubleBooking
INVARIANT TotalIsConserved
INVARIANT FailedRequestsOweNothing
PROPERTY RefusalChargesNothing
PROPERTY RefinesLease
CHECK_DEADLOCK FALSE
