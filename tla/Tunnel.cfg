\* Two connections of two nodes, one caller of Stop.
SPECIFICATION FairSpec
CONSTANTS
  p1 = p1
  t1 = t1
  t2 = t2
  Peer = {p1, p2}
  Session = {c1, c2}
  NoSession = NoSession
  NoPeer = NoPeer
  MaxAge = 0
  Token = {t1, t2}
  NoToken = NoToken
  AuthEnabled = TRUE
  AllowedTokens = {t1}
  NodeTokens <- MCNodeTokens
  Stopper = {k1}
INVARIANTS
  RegisteredIsOpen NoPanic WaitGroupCounts RegisteredHasHandler
  RegisteredIsAuthorised StopLeavesOnlyWatcher
PROPERTIES
  ImplementsDirectory EvictionHasCause DeadSessionLeaves StopReturnsUnlessHeld
\* The server really ends.
CHECK_DEADLOCK FALSE
