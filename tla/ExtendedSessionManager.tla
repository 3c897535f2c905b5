------------------------ MODULE ExtendedSessionManager ------------------------
(***************************************************************************)
(* registry.ExtendedSessionManager (pkg/registry/session_ext.go): sessions *)
(* with method catalogs and circuit breakers.  Its operations call the     *)
(* session manager, the method registry and its own map one after the      *)
(* other, each under a lock of its own, so that concurrent callers meet in *)
(* between.                                                                *)
(*                                                                         *)
(* The session manager is shared: the tunnel's handlers, the cleanup loop  *)
(* and whoever asks SessionManager() for it register and remove sessions   *)
(* as well, and no breaker or catalog is made or dropped then.  All that   *)
(* this manager learns of it is which peers have a session.                *)
(***************************************************************************)
EXTENDS MethodRegistry, Callers

VARIABLES
  present,   \* peers with an entry in the session manager
  breakers,  \* peers with an entry in e.circuitBreakers
  pc,        \* the next call each caller has to make
  peer,      \* the peer ID it works on
  methods    \* the catalog it is about to publish

extVars == <<breakers, pc, peer, methods>>
vars == <<present, catalogVars, extVars>>

TypeOK ==
  /\ CatalogTypeOK
  /\ present \subseteq Peer
  /\ breakers \subseteq Peer
  /\ pc \in [Caller -> {"idle", "breaker", "publish", "forget", "unbreak"}]
  /\ peer \in [Caller -> Peer \cup {NoPeer}]
  /\ methods \in [Caller -> Catalogs]

Init ==
  /\ CatalogInit
  /\ present = {}
  /\ breakers = {}
  /\ pc = [k \in Caller |-> "idle"]
  /\ peer = [k \in Caller |-> NoPeer]
  /\ methods = [k \in Caller |-> <<>>]

(* k has begun an operation on p, and its next call is the one named. *)
Begin(k, p, next) ==
  /\ pc[k] = "idle"
  /\ pc' = [pc EXCEPT ![k] = next]
  /\ peer' = [peer EXCEPT ![k] = p]

Finish(k, last) ==
  /\ pc[k] = last
  /\ pc' = [pc EXCEPT ![k] = "idle"]
  /\ peer' = [peer EXCEPT ![k] = NoPeer]

-----------------------------------------------------------------------------
(* RegisterSession: Register, which refuses only nil, then a breaker       *)
(* unless there is one.                                                    *)
ExtRegister(k, p) ==
  /\ Begin(k, p, "breaker")
  /\ present' = present \cup {p}
  /\ UNCHANGED <<catalogVars, breakers, methods>>

CreateBreaker(k) ==
  /\ Finish(k, "breaker")
  /\ breakers' = breakers \cup {peer[k]}
  /\ UNCHANGED <<present, catalogVars, methods>>

(* UpdateMethods: the session is looked up, then the catalog is stored. *)
CheckSession(k, p, ms) ==
  /\ Begin(k, p, "publish")
  /\ p \in present
  /\ methods' = [methods EXCEPT ![k] = ms]
  /\ UNCHANGED <<present, catalogVars, breakers>>

Publish(k) ==
  /\ Finish(k, "publish")
  /\ UpdateMethods(peer[k], methods[k])
  /\ methods' = [methods EXCEPT ![k] = <<>>]
  /\ UNCHANGED <<present, breakers>>

(* RemoveSession: session, catalog, breaker; nothing if there is no        *)
(* session.                                                                *)
ExtRemove(k, p) ==
  /\ Begin(k, p, "forget")
  /\ p \in present
  /\ present' = present \ {p}
  /\ UNCHANGED <<catalogVars, breakers, methods>>

ForgetMethods(k) ==
  /\ pc[k] = "forget"
  /\ pc' = [pc EXCEPT ![k] = "unbreak"]
  /\ RemovePeer(peer[k])
  /\ UNCHANGED <<present, breakers, peer, methods>>

DropBreaker(k) ==
  /\ Finish(k, "unbreak")
  /\ breakers' = breakers \ {peer[k]}
  /\ UNCHANGED <<present, catalogVars, methods>>

-----------------------------------------------------------------------------
(* The session manager used directly.  RegisterSession by a handler of the *)
(* tunnel, or Register:                                                    *)
SharedRegister(p) ==
  /\ present' = present \cup {p}
  /\ UNCHANGED <<catalogVars, extVars>>

(* RemoveIfCurrent by a handler, Remove, or a pass of the cleanup loop:    *)
SharedRemove(S) ==
  /\ present' = present \ S
  /\ UNCHANGED <<catalogVars, extVars>>

Operation(k) ==
  \/ \E p \in Peer : ExtRegister(k, p)
  \/ CreateBreaker(k)
  \/ \E p \in Peer, ms \in Catalogs : CheckSession(k, p, ms)
  \/ Publish(k)
  \/ \E p \in Peer : ExtRemove(k, p)
  \/ ForgetMethods(k)
  \/ DropBreaker(k)

Next ==
  \/ \E k \in Caller : Operation(k)
  \/ \E p \in Peer : SharedRegister(p)
  \/ \E S \in SUBSET present \ {{}} : SharedRemove(S)
=============================================================================
