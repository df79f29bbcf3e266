SPECIFICATION FairSpec
CONSTANTS
  NONE = NONE
  Url = {"direct"}
  ReadProxy = {}
  Polls = {p1}
  Handshakes = {h1, h2}
  Calls = {c1}
  Reads = {}
  Socket = {s1}
  MaxConsecutiveFailures = 2
  MaxOrphans = 1
PROPERTIES
  RecoversWithHeartbeat
CHECK_DEADLOCK FALSE
