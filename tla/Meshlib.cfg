\* Two threads of a C program; two Starts, a connection, and two strings, one
\* after the other at the same address.
SPECIFICATION FairSpec
CONSTANTS
  Thread = {k1, k2}
  Run = {r1, r2}
  NoRun = NoRun
  Conn = {c1}
  CertFiles = TRUE
  Block = {b1}
  NoBlock = NoBlock
  MaxStrings = 2
INVARIANTS CallsHaveTunnel LiveStringsAreSafe NothingFreedTwice NoBlockLost
PROPERTY FreedFallsSilent
CHECK_DEADLOCK FALSE
