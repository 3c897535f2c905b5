\* Any callers of the manager's methods, two peer IDs, three objects.
SPECIFICATION ManagerSpec
CONSTANTS
  Peer = {p1, p2}
  Session = {s1, s2, s3}
  NoSession = NoSession
  NoPeer = NoPeer
  MaxAge = 1
SYMMETRY Symmetry
INVARIANTS NoSessionLeaked UnlessMisusedOpen
PROPERTY PanicNeedsMisuse
\* A process that has panicked takes no more steps.
CHECK_DEADLOCK FALSE
