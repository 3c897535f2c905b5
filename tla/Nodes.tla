-------------------------------- MODULE Nodes --------------------------------
(* The mesh nodes, as every component names them. *)
CONSTANTS
  Peer,   \* node IDs: registry.PeerID, Handshake.NodeID
  NoPeer  \* no node: of an object not created yet, of a caller that is idle

ASSUME NoPeerAssumption == NoPeer \notin Peer
=============================================================================
