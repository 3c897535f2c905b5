------------------------------ MODULE PeerSearch ------------------------------
(***************************************************************************)
(* ListHealthyPeers and FindHealthyPeersWithMethod                         *)
(* (pkg/registry/session_ext.go) beside the operations that change what    *)
(* they look at.  Both take a list of candidates under one lock and then   *)
(* put every candidate through HealthCheck, which asks the session manager *)
(* and the breaker one after the other, each under a lock of its own.      *)
(***************************************************************************)
EXTENDS ExtendedSessionManager

VARIABLES
  tripped,  \* peers whose breaker in e.circuitBreakers is open
  stage,    \* "idle", or what HealthCheck asks next: "session", "breaker"
  todo,     \* candidates still to be checked
  alive,    \* result.SessionHealthy of the candidate being checked
  healthy,  \* the list being built, and afterwards the result
  seen      \* history of the search, see Watch

searchVars == <<stage, todo, alive, healthy>>
allVars == <<vars, tripped, searchVars, seen>>

SearchTypeOK ==
  /\ TypeOK
  /\ tripped \subseteq breakers
  /\ stage \in {"idle", "session", "breaker"}
  /\ todo \in Seq(Peer) /\ healthy \in Seq(Peer)
  /\ alive \in BOOLEAN
  /\ seen \in [listed : SUBSET Peer, fit : SUBSET Peer,
              gone : SUBSET Peer, open : SUBSET Peer]

SearchInit ==
  /\ Init
  /\ tripped = {}
  /\ stage = "idle"
  /\ todo = <<>>
  /\ alive = FALSE
  /\ healthy = <<>>
  /\ seen = [listed |-> {}, fit |-> {}, gone |-> {}, open |-> {}]

-----------------------------------------------------------------------------
(* A peer that is listed when the search begins; of those, the ones fit to *)
(* be found ever since, the ones without a session ever since, and the     *)
(* ones with an open breaker ever since.                                   *)
WatchFrom(listed) ==
  seen' = [listed |-> listed, fit |-> (listed \cap present) \ tripped,
           gone |-> listed \ present, open |-> listed \cap tripped]

Watch ==
  seen' = IF stage = "idle" THEN seen
          ELSE [seen EXCEPT !.fit = (@ \cap present') \ tripped',
                            !.gone = @ \ present', !.open = @ \cap tripped']

-----------------------------------------------------------------------------
BeginSearch(candidates) ==
  /\ stage = "idle"
  /\ stage' = IF candidates = <<>> THEN "idle" ELSE "session"
  /\ todo' = candidates
  /\ alive' = FALSE
  /\ healthy' = <<>>
  /\ UNCHANGED <<vars, tripped>>

(* ListAll gives the sessions in the order of a map. *)
ListHealthyPeers ==
  /\ \E candidates \in SX!SetToSeqs(present) : BeginSearch(candidates)
  /\ WatchFrom(present)

FindHealthyPeersWithMethod(m) ==
  /\ BeginSearch(FindPeersWithMethod(m))
  /\ WatchFrom({p \in Peer : GetMethod(p, m)})

(* HealthCheck.  A peer without a breaker counts as closed; the number of  *)
(* methods is not used.                                                    *)
CheckHealth ==
  /\ stage = "session"
  /\ stage' = "breaker"
  /\ alive' = (Head(todo) \in present)
  /\ UNCHANGED <<vars, tripped, todo, healthy>>

(* Mutation of CheckBreaker: the breaker is not asked. *)
CheckNoBreaker ==
  /\ stage = "breaker"
  /\ healthy' = IF alive THEN Append(healthy, Head(todo)) ELSE healthy
  /\ todo' = Tail(todo)
  /\ stage' = IF todo' = <<>> THEN "idle" ELSE "session"
  /\ alive' = FALSE
  /\ UNCHANGED <<vars, tripped>>

CheckBreaker ==
  /\ stage = "breaker"
  /\ healthy' = IF alive /\ Head(todo) \notin tripped
                THEN Append(healthy, Head(todo)) ELSE healthy
  /\ todo' = Tail(todo)
  /\ stage' = IF todo' = <<>> THEN "idle" ELSE "session"
  /\ alive' = FALSE
  /\ UNCHANGED <<vars, tripped>>

(* Calls of ExecuteWithCircuitBreaker open and close the peer's breaker;   *)
(* how is in CircuitBreaker.                                               *)
ExecuteWithCircuitBreaker(p) ==
  /\ p \in breakers
  /\ tripped' \in {tripped \cup {p}, tripped \ {p}}
  /\ UNCHANGED <<vars, searchVars>>

(* Mutation of ManagerStep: the state of a removed breaker is kept. *)
ManagerStepKeepsState ==
  /\ Next
  /\ UNCHANGED tripped
  /\ UNCHANGED searchVars

(* The rest of the manager.  A breaker that is removed takes its state     *)
(* along.                                                                  *)
ManagerStep ==
  /\ Next
  /\ tripped' = tripped \cap breakers'
  /\ UNCHANGED searchVars

SearchNext ==
  \/ ListHealthyPeers
  \/ \E m \in Method : FindHealthyPeersWithMethod(m)
  \/ CheckHealth /\ Watch
  \/ CheckBreaker /\ Watch
  \/ \E p \in Peer : ExecuteWithCircuitBreaker(p) /\ Watch
  \/ ManagerStep /\ Watch

SearchSpec == SearchInit /\ [][SearchNext]_allVars

-----------------------------------------------------------------------------
(* Although nothing holds still while a search runs, its result is sound   *)
(* and complete: it names, once each, only peers that were listed when it  *)
(* began, none that had no session or an open breaker all the while, and   *)
(* every listed peer that had a session and no open breaker all the while. *)
SearchIsAccurate ==
  stage = "idle" =>
    /\ SX!IsInjective(healthy)
    /\ seen.fit \subseteq SX!ToSet(healthy)
    /\ SX!ToSet(healthy) \subseteq seen.listed \ (seen.gone \cup seen.open)
==============================================================================
