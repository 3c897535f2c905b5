\* Two callers and a search, next to direct uses of the session manager.
SPECIFICATION SearchSpec
CONSTANTS
  Peer = {p1, p2}
  NoPeer = NoPeer
  Method = {m1}
  NoCatalog = NoCatalog
  MaxMethods = 2
  Caller = {k1, k2}
SYMMETRY Symmetry
INVARIANTS SearchTypeOK IndexMatchesCatalogs SearchIsAccurate
