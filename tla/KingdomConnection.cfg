SPECIFICATION Spec
CONSTANTS
  NONE = NONE
  Url = {"direct", "proxy"}
  ReadProxy = {"proxy"}
  Polls = {p1}
  Handshakes = {h1, h2}
  Calls = {}
  Reads = {o1}
  Socket = {s1, s2}
  MaxConsecutiveFailures = 2
  MaxOrphans = 1
SYMMETRY Interchangeable
INVARIANTS
  ConnectedMeansUsable
  ReconnectNotStuck
PROPERTIES
  ObservationsOfThisEndpoint
CHECK_DEADLOCK FALSE
