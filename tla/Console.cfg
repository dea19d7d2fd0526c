SPECIFICATION FairSpec
CONSTANTS
  dev = dev
  ann = ann
  nobody = nobody
  garbled = garbled
  rejected = rejected
  job = job
  box1 = box1
  box2 = box2
  gpu = gpu
  User = {dev, ann}
  DevUser = dev
  Nobody = nobody
  Garbled = garbled
  Rejected = rejected
  Job = {job}
  Provider = {box1, box2}
  Type = {gpu}
  Kind <- TheKind
  Offered <- TheOffer
  Caller <- TheCaller
  Account = {ann}
  MaxCount = 1
  MaxPolls <- ThePolls
  MaxLooks = 1
  MaxDeletes = 1
  Supply <- TheSupply
  MaxFaults = 1
  Anytime = FALSE
INVARIANT ConsoleTypeOK
INVARIANT OwnToken
INVARIANT OwnJobsOnly
INVARIANT SpinnerStops
PROPERTY ShownJobsCatchUp
PROPERTY SubmitComesBack
