\* Two callers compete for the single slot of each of two peers, and the
\* sessions under them die and are replaced.
SPECIFICATION FairSpec
CONSTANTS
  Peer = {p1, p2}
  Session = {s1, s2}
  NoSession = NoSession
  NoPeer = NoPeer
  MaxAge = 0
  Caller = {k1, k2}
  MaxConcurrent = 1
INVARIANTS TypeOK LimiterIsExact
PROPERTIES StreamsAreCurrent CallsReturn
