\* A pair of files of which only one exists; frames of a header and up to two
\* units through a window of two; a node of each kind.
SPECIFICATION Spec
CONSTANTS
  Path = {pem, gone}
  Present = {pem}
  Unset = Unset
  MaxGen = 2
  Message = {"hello", "heartbeat", "skewed", "foreign", "garbage", "oversize"}
  MaxFrame = 2
  Window = 2
  FrameTimeout = 2
  IdleTimeout = 2
  StaleAfter = 2
  BeatInterval = 1
INVARIANTS
  TypeOK
  HealthyNodeIsKept
  ServesConfiguredPair
PROPERTIES
  ImplementsChannel
  SilentNodeIsDropped
  RenewalIsLoaded
\* A server that is stopped, and a node that does not come back.
CHECK_DEADLOCK FALSE
