\* A dial that gives up leaves a stream behind.
SPECIFICATION Spec
CONSTANTS
  Peer = {p1}
  Session = {s1}
  NoSession = NoSession
  NoPeer = NoPeer
  MaxAge = 0
  Caller = {k1}
  MaxConcurrent = 1
INVARIANT NoStreamLeaked
CHECK_DEADLOCK FALSE
