\* A renewal under a running server; no node needs to connect for it.
SPECIFICATION Spec
CONSTANTS
  Path = {pem, gone}
  Present = {pem}
  Unset = Unset
  MaxGen = 2
  Message = {"hello"}
  MaxFrame = 1
  Window = 1
  FrameTimeout = 2
  IdleTimeout = 2
  StaleAfter = 2
  BeatInterval = 1
PROPERTY
  RenewalIsServed
\* A server that is stopped, and a node that does not come back.
CHECK_DEADLOCK FALSE
