SPECIFICATION FairSpec
CONSTANTS
  g1 = g1
  g2 = g2
  a1 = a1
  k1 = k1
  NONE = NONE
  Grant = {g1, g2}
  Capability = {"fs"}
  Agent = {"ai"}
  BoundField = {"sessionId"}
  BoundValue = {"s1"}
  Params = {"p1", "p2"}
  Resource = {"file", "other"}
  Approval = {a1}
  PurgeThreshold = 2
  Tool = {"get", "submit", "delete", "run", "ghost"}
  Registered = {"get", "submit", "delete", "run"}
  Local = {"delete", "run"}
  Hosted = {"delete"}
  Masked = {"get"}
  FailureThreshold = 1
  Request = {r1, r2}
  IdemKey = {k1}
  MaxChainDepth = 1
  ToolDef <- MCToolDef
  Offers <- MCOffers
  Workloads <- MCRefusals
INVARIANTS
  Bookkeeping
PROPERTIES
  OpenCircuitSpendsNothing
  EveryCallAnswered
CHECK_DEADLOCK FALSE
