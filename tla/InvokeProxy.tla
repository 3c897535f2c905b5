----------------------------- MODULE InvokeProxy -----------------------------
(***************************************************************************)
(* The data plane: server.InvokeProxy.Invoke (pkg/server/invoke.go), the   *)
(* gateway and dialer under it (pkg/reverse) and SessionManager.OpenStream *)
(* and Heartbeat (pkg/registry/registry.go), run by concurrent callers     *)
(* against a registry whose sessions come, die and go.  A caller that has  *)
(* returned may call again: so does a client of InvokeStream, one request  *)
(* at a time.  Others dial a node themselves, through Gateway.Dial or      *)
(* Gateway.InvokeStream, past the limiter, and hold on to what they get.   *)
(*                                                                         *)
(* The limiter is the ConcurrencyLimiter (pkg/server/ratelimit.go), with   *)
(* one method.  The tunnel is seen from outside: it registers sessions and *)
(* its handlers deregister them when they exit, which the handler of a     *)
(* dead session may never do (LostReadDone in Tunnel).                     *)
(***************************************************************************)
EXTENDS SessionRegistry

CONSTANTS
  Caller,        \* concurrent clients of the proxy
  MaxConcurrent  \* calls the limiter admits per peer

ASSUME ProxyConstants == MaxConcurrent \in Nat /\ IsFiniteSet(Caller)

VARIABLES
  pc,        \* where each caller is in Invoke
  direct,    \* callers that have dialled the node themselves
  target,    \* the peer it invokes
  session,   \* the object its last lookup returned
  current,   \* cl.current
  orphaned,  \* sessions on which an abandoned goroutine is opening a stream
  leaked     \* sessions with an open stream that nobody holds

proxyVars == <<pc, direct, target, session, current, orphaned, leaked>>
vars == <<registryVars, proxyVars>>

CallerPC == {"idle", "get", "dial", "opening", "calling", "beat", "touch",
             "release"}

TypeOK ==
  /\ RegistryTypeOK
  /\ pc \in [Caller -> CallerPC]
  /\ direct \subseteq Caller
  /\ target \in [Caller -> Peer \cup {NoPeer}]
  /\ session \in [Caller -> Session \cup {NoSession}]
  /\ current \in [Peer -> 0 .. MaxConcurrent]
  /\ orphaned \subseteq Session
  /\ leaked \subseteq Session

Init ==
  /\ RegistryInit
  /\ pc = [k \in Caller |-> "idle"]
  /\ direct = {}
  /\ target = [k \in Caller |-> NoPeer]
  /\ session = [k \in Caller |-> NoSession]
  /\ current = [p \in Peer |-> 0]
  /\ orphaned = {}
  /\ leaked = {}

Goto(k, from, to) ==
  /\ pc[k] = from
  /\ pc' = [pc EXCEPT ![k] = to]

-----------------------------------------------------------------------------
(***************************************************************************)
(* Invoke, step by step.                                                   *)
(***************************************************************************)

(* Mutation of Admit: the limit is overrun by one. *)
AdmitOneMore(k, p) ==
  /\ Goto(k, "idle", "get")
  /\ current[p] <= MaxConcurrent
  /\ current' = [current EXCEPT ![p] = @ + 1]
  /\ target' = [target EXCEPT ![k] = p]
  /\ UNCHANGED <<registryVars, direct, session, orphaned, leaked>>

(* The request is valid, the ACL lets it pass and the limiter has a slot.  *)
(* A call rejected here changes nothing.                                   *)
Admit(k, p) ==
  /\ Goto(k, "idle", "get")
  /\ current[p] < MaxConcurrent
  /\ current' = [current EXCEPT ![p] = @ + 1]
  /\ target' = [target EXCEPT ![k] = p]
  /\ UNCHANGED <<registryVars, direct, session, orphaned, leaked>>

(* Mutation of GetPeer: the early return does not release the slot. *)
GetPeerKeepsSlot(k) ==
  /\ Goto(k, "get", IF sessions[target[k]] = NoSession THEN "idle" ELSE "dial")
  /\ target' = [target EXCEPT ![k] = IF pc'[k] = "idle" THEN NoPeer ELSE @]
  /\ UNCHANGED <<registryVars, direct, session, current, orphaned, leaked>>

(* Is the peer online? *)
GetPeer(k) ==
  /\ Goto(k, "get", IF sessions[target[k]] = NoSession THEN "release" ELSE "dial")
  /\ UNCHANGED <<registryVars, direct, target, session, current, orphaned, leaked>>

(* OpenStream: the lookup under sm.mu, the check of Connected without any  *)
(* lock, and the goroutine that asks yamux for a stream.  When the lookup  *)
(* or the check fails, gRPC dials again until the context is done.         *)
OpenStream(k) ==
  /\ Goto(k, "dial", "opening")
  /\ sessions[target[k]] \in connected
  /\ session' = [session EXCEPT ![k] = sessions[target[k]]]
  /\ UNCHANGED <<registryVars, direct, target, current, orphaned, leaked>>

(* yamux answers: with a stream, or with an error if the session is dead. *)
StreamOpened(k) ==
  /\ Goto(k, "opening", IF session[k] \in hungUp THEN "dial" ELSE "calling")
  /\ UNCHANGED <<registryVars, direct, target, session, current, orphaned, leaked>>

(* Where a call goes that has no connection: Invoke answers the client,    *)
(* Dial returns the error.                                                 *)
GiveUp(k) ==
  /\ pc' = [pc EXCEPT ![k] = IF k \in direct THEN "idle" ELSE "beat"]
  /\ direct' = direct \ {k}
  /\ IF k \in direct
     THEN /\ target' = [target EXCEPT ![k] = NoPeer]
          /\ session' = [session EXCEPT ![k] = NoSession]
     ELSE UNCHANGED <<target, session>>

(* Mutation of DialTimeout: OpenStream does not watch the context. *)
DialTimeoutUnlessOpening(k) ==
  /\ pc[k] = "dial"
  /\ GiveUp(k)
  /\ UNCHANGED <<registryVars, current, orphaned, leaked>>

(* The context is done, or DialPeer's own timeout is up, before there is a *)
(* connection.  OpenStream returns at once, and leaves its goroutine       *)
(* behind.                                                                 *)
DialTimeout(k) ==
  /\ pc[k] \in {"dial", "opening"}
  /\ GiveUp(k)
  /\ orphaned' = IF pc[k] = "opening" THEN orphaned \cup {session[k]} ELSE orphaned
  /\ UNCHANGED <<registryVars, current, leaked>>

(* The abandoned goroutines get their answer. *)
OrphanDone(s) ==
  /\ s \in orphaned
  /\ orphaned' = orphaned \ {s}
  /\ leaked' = IF s \in hungUp THEN leaked ELSE leaked \cup {s}
  /\ UNCHANGED <<registryVars, pc, direct, target, session, current>>

(* The remote call ends: an answer, an error, the deadline.  The deferred  *)
(* Close of the connection closes the stream.  Failures become responses,  *)
(* so Invoke goes on in the same way after any of these.                   *)
CallReturns(k) ==
  /\ k \notin direct
  /\ Goto(k, "calling", "beat")
  /\ UNCHANGED <<registryVars, direct, target, session, current, orphaned, leaked>>

(* Heartbeat(peerID): the lookup, then the touch without sm.mu. *)
Beat(k) ==
  /\ Goto(k, "beat", IF sessions[target[k]] = NoSession THEN "release" ELSE "touch")
  /\ session' = [session EXCEPT ![k] = sessions[target[k]]]
  /\ UNCHANGED <<registryVars, direct, target, current, orphaned, leaked>>

Touch(k) ==
  /\ Goto(k, "touch", "release")
  /\ TouchHeartbeat(session[k])
  /\ UNCHANGED <<direct, target, session, current, orphaned, leaked>>

(* The deferred Release. *)
Release(k) ==
  /\ Goto(k, "release", "idle")
  /\ current' = [current EXCEPT ![target[k]] = IF @ > 0 THEN @ - 1 ELSE @]
  /\ target' = [target EXCEPT ![k] = NoPeer]
  /\ session' = [session EXCEPT ![k] = NoSession]
  /\ UNCHANGED <<registryVars, direct, orphaned, leaked>>

-----------------------------------------------------------------------------
(***************************************************************************)
(* Gateway.Dial and Gateway.InvokeStream.                                  *)
(***************************************************************************)

Dial(k, p) ==
  /\ Goto(k, "idle", "dial")
  /\ direct' = direct \cup {k}
  /\ target' = [target EXCEPT ![k] = p]
  /\ UNCHANGED <<registryVars, session, current, orphaned, leaked>>

(* The owner closes the connection, or calls the cleanup function; or      *)
(* InvokeStream does, when there is no stream to be had on it.             *)
HangUpDirect(k) ==
  /\ k \in direct
  /\ pc[k] = "calling"
  /\ GiveUp(k)
  /\ UNCHANGED <<registryVars, current, orphaned, leaked>>

-----------------------------------------------------------------------------
(***************************************************************************)
(* The tunnel, the cleanup loop and the world.                             *)
(***************************************************************************)

Connect(p, s) == RegisterSession(p, s) /\ UNCHANGED proxyVars

HandlerExits(s) ==
  /\ owner[s] # NoPeer
  /\ s \in hungUp
  /\ RemoveIfCurrent(owner[s], s)
  /\ UNCHANGED proxyVars

(* The streams of a yamux session die with it. *)
SessionDies(s) ==
  /\ owner[s] # NoPeer
  /\ HangUp(s)
  /\ leaked' = leaked \ {s}
  /\ UNCHANGED <<pc, direct, target, session, current, orphaned>>

Prune ==
  /\ Cleanup
  /\ leaked' = leaked \ hungUp'
  /\ UNCHANGED <<pc, direct, target, session, current, orphaned>>

Step(k) ==
  \/ GetPeer(k)
  \/ OpenStream(k)
  \/ StreamOpened(k)
  \/ DialTimeout(k)
  \/ CallReturns(k)
  \/ Beat(k)
  \/ Touch(k)
  \/ Release(k)

Next ==
  \/ \E k \in Caller, p \in Peer : Admit(k, p)
  \/ \E k \in Caller, p \in Peer : Dial(k, p)
  \/ \E k \in Caller : Step(k) \/ HangUpDirect(k)
  \/ \E s \in Session : OrphanDone(s)
  \/ \E p \in Peer, s \in Session : Connect(p, s)
  \/ \E s \in Session : HandlerExits(s)
  \/ \E s \in Session : SessionDies(s)
  \/ Prune
  \/ Tick /\ UNCHANGED proxyVars

Spec == Init /\ [][Next]_vars

(* Every call has a deadline, which ends the dial and the remote call; the *)
(* steps in between do not block.  yamux need not answer: its backlog may  *)
(* be full.  The clock advances, and the cleanup ticker fires: strong      *)
(* fairness, so that what DeadSessionIsPruned shows is not a ticker that   *)
(* is always late.                                                         *)
Fairness ==
  /\ \A k \in Caller :
       /\ WF_vars(GetPeer(k) \/ CallReturns(k) \/ Beat(k) \/ Touch(k) \/ Release(k))
       /\ WF_vars(DialTimeout(k))
  /\ SF_vars(Prune)
  /\ WF_vars(Tick /\ UNCHANGED proxyVars)

FairSpec == Spec /\ Fairness

-----------------------------------------------------------------------------
InFlight(p) == {k \in Caller \ direct : target[k] = p}

(* Slots are neither lost nor invented: the limiter's count for a peer is  *)
(* the number of calls in progress to it, on every path out of Invoke.     *)
LimiterIsExact == \A p \in Peer : current[p] = Cardinality(InFlight(p))

(* Although OpenStream uses the object it looked up when the lock is gone, *)
(* and the peer may have reconnected or been pruned since, the stream that *)
(* yamux grants is on the session registered for the peer at that moment:  *)
(* whatever takes an object out of the map closes its yamux session first. *)
StreamsAreCurrent ==
  [][\A k \in Caller :
       pc[k] = "opening" /\ pc'[k] = "calling" => sessions[target[k]] = session[k]]_vars

(* Every call that was admitted returns and gives its slot back, whatever  *)
(* happens to the session under it; a caller of Dial gets a connection or  *)
(* an error.                                                               *)
HasConnection(k) == k \in direct /\ pc[k] = "calling"

CallsReturn ==
  \A k \in Caller :
    pc[k] # "idle" ~> pc[k] = "idle" \/ HasConnection(k)

(* When the context is done the opening of the stream is cancelled: no     *)
(* stream stays open that no caller holds.                                 *)
NoStreamLeaked == leaked = {}

(* A session whose node is gone is pruned once it is silent for MaxAge.    *)
DeadSessionIsPruned ==
  \A s \in Session : (s \in Registered /\ s \in hungUp) ~> s \notin Registered
=============================================================================
