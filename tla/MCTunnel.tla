------------------------------- MODULE MCTunnel -------------------------------
(* A small instance of Tunnel for TLC: each node has its own token. *)
EXTENDS Tunnel

CONSTANTS p1, t1, t2

MCNodeTokens == [p \in Peer |-> IF p = p1 THEN t1 ELSE t2]

=============================================================================
