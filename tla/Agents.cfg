SPECIFICATION FairSpec
CONSTANTS
  p1 = p1
  p2 = p2
  Provider = {p1}
  BatchSize = 2
  MaxUnread = 2
  Bound <- AgentsBound
INVARIANT RegistrationTypeOK
INVARIANT LiveAgentsAreKnown
PROPERTY EveryAgentGetsIn
PROPERTY HeartbeatsPrevail
CHECK_DEADLOCK FALSE
