------------------------------ MODULE AuthPolicy ------------------------------
(***************************************************************************)
(* control.AuthPolicy (pkg/control/auth.go): which (node, token) claims a  *)
(* handshake may make.                                                     *)
(***************************************************************************)
EXTENDS Nodes

CONSTANTS
  Token,          \* non-empty tokens
  NoToken,        \* the empty token: none presented, none configured
  AuthEnabled,
  AllowedTokens,  \* legacy shared tokens
  NodeTokens      \* the token bound to each node, NoToken if it has none

ASSUME PolicyConstants ==
  /\ NoToken \notin Token
  /\ AuthEnabled \in BOOLEAN
  /\ AllowedTokens \subseteq Token
  /\ NodeTokens \in [Peer -> Token \cup {NoToken}]

BoundNodes == {p \in Peer : NodeTokens[p] # NoToken}

IdentityBound == AuthEnabled /\ BoundNodes # {}

(* Authorize: a token is good for anyone. *)
Authorize(t) ==
  AuthEnabled =>
    /\ t # NoToken
    /\ t \in AllowedTokens \/ \E p \in BoundNodes : NodeTokens[p] = t

(* Mutation of AuthorizeNode: the token alone is checked. *)
AuthorizeToken(p, t) == Authorize(t)

(* AuthorizeNode: bound tokens, when there are any, replace shared ones. *)
AuthorizeNode(p, t) ==
  AuthEnabled =>
    /\ t # NoToken
    /\ IF BoundNodes # {} THEN NodeTokens[p] = t ELSE t \in AllowedTokens
=============================================================================
