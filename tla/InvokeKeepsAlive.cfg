\* Failing calls keep a dead session registered.
SPECIFICATION FairSpec
CONSTANTS
  Peer = {p1}
  Session = {s1}
  NoSession = NoSession
  NoPeer = NoPeer
  MaxAge = 1
  Caller = {k1}
  MaxConcurrent = 1
PROPERTY DeadSessionIsPruned
CHECK_DEADLOCK FALSE
