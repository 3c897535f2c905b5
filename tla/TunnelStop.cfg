\* Does Stop return?
SPECIFICATION FairSpec
CONSTANTS
  p1 = p1
  t1 = t1
  t2 = t2
  Peer = {p1}
  Session = {c1, c2}
  NoSession = NoSession
  NoPeer = NoPeer
  MaxAge = 0
  Token = {t1, t2}
  NoToken = NoToken
  AuthEnabled = TRUE
  AllowedTokens = {t1}
  NodeTokens <- MCNodeTokens
  Stopper = {k1}
PROPERTY StopReturns
\* The server really ends.
CHECK_DEADLOCK FALSE
