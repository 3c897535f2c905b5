--------------------------- MODULE SessionDirectory ---------------------------
(***************************************************************************)
(* What the session registry promises, without saying how: at most one     *)
(* session per peer ID, and a session that is displaced or dropped is      *)
(* retired for good; no stale reference can bring it back.                 *)
(***************************************************************************)
EXTENDS Nodes

CONSTANTS Session, NoSession

VARIABLES current,   \* the session each peer ID resolves to
          retired    \* sessions that have been closed

Members == {current[p] : p \in Peer} \ {NoSession}

Init ==
  /\ current = [p \in Peer |-> NoSession]
  /\ retired = {}

(* A session never seen before takes over p; its predecessor is retired. *)
Join(p, s) ==
  /\ s \notin Members \cup retired
  /\ current' = [current EXCEPT ![p] = s]
  /\ retired' = retired \cup ({current[p]} \ {NoSession})

(* Some members leave together and are retired. *)
Leave(S) ==
  /\ current' = [p \in Peer |-> IF current[p] \in S THEN NoSession
                                                     ELSE current[p]]
  /\ retired' = retired \cup S

Next ==
  \/ \E p \in Peer, s \in Session : Join(p, s)
  \/ \E S \in SUBSET Members : Leave(S)

Spec == Init /\ [][Next]_<<current, retired>>
=============================================================================
