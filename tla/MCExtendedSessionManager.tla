----------------------- MODULE MCExtendedSessionManager -----------------------
(* A small instance of PeerSearch, and with it of ExtendedSessionManager, *)
(* for TLC.                                                               *)
EXTENDS PeerSearch, TLC

Symmetry == Permutations(Peer) \cup Permutations(Caller)
=============================================================================
