-------------------------------- MODULE Tunnel --------------------------------
(***************************************************************************)
(* The tunnel server (pkg/tunnel/tunnel.go) composed with the session      *)
(* registry: the accept loop, one handleConn goroutine and one             *)
(* readControlLoop goroutine per connection, the certificate watcher, the  *)
(* registry's cleanup loop, calls that record heartbeats, and any number   *)
(* of callers of Stop.                                                     *)
(*                                                                         *)
(* A connection creates at most one SessionState, so the elements of       *)
(* Session name connections, their handlers and their sessions alike.      *)
(***************************************************************************)
EXTENDS SessionRegistry, AuthPolicy

CONSTANT Stopper  \* concurrent callers of the server's Stop

VARIABLES
  acceptor,    \* acceptLoop: "off", "accepting", "backoff", "exited"
  listening,   \* the TLS listener is open
  cancelled,   \* s.ctx is done
  wg,          \* counter of s.wg
  pc,          \* where each handleConn is
  hello,       \* the accepted handshake of each handler
  reader,      \* where each readControlLoop is
  readDone,    \* connections whose readDone channel holds a value
  watcher,     \* watchCerts: "starting", "watching", "ended"
  stopper      \* where each caller of Stop is

tunnelVars == <<acceptor, listening, cancelled, wg, pc, hello, reader,
                readDone, watcher, stopper>>
vars == <<registryVars, tunnelVars>>

Acceptor == {"off", "accepting", "backoff", "exited"}
HandlerPC == {"none", "tls", "stream", "handshake", "admitted", "serving",
              "closing", "drain", "deregister", "exit", "done"}
ReaderPC == {"none", "reading", "exited"}
WatcherPC == {"starting", "watching", "ended"}
StopperPC == {"idle", "grpc", "close", "wait", "returned"}
Claim == [node : Peer, token : Token \cup {NoToken}]
NoClaim == [node |-> NoPeer, token |-> NoToken]

TunnelTypeOK ==
  /\ acceptor \in Acceptor
  /\ listening \in BOOLEAN
  /\ cancelled \in BOOLEAN
  /\ wg \in Nat
  /\ pc \in [Session -> HandlerPC]
  /\ hello \in [Session -> Claim \cup {NoClaim}]
  /\ reader \in [Session -> ReaderPC]
  /\ readDone \subseteq Session
  /\ watcher \in WatcherPC
  /\ stopper \in [Stopper -> StopperPC]

TypeOK == RegistryTypeOK /\ TunnelTypeOK

(* The state New leaves: a watcher only if certificate files are given. *)
Init ==
  /\ RegistryInit
  /\ acceptor = "off"
  /\ listening = FALSE
  /\ cancelled = FALSE
  /\ wg = 0
  /\ pc = [c \in Session |-> "none"]
  /\ hello = [c \in Session |-> NoClaim]
  /\ reader = [c \in Session |-> "none"]
  /\ readDone = {}
  /\ watcher \in {"starting", "ended"}
  /\ stopper = [k \in Stopper |-> "idle"]

Goto(c, from, to) ==
  /\ pc[c] = from
  /\ pc' = [pc EXCEPT ![c] = to]

-----------------------------------------------------------------------------
(***************************************************************************)
(* Start and the accept loop.                                              *)
(***************************************************************************)

(* The server object calls Start once, before anyone calls Stop. *)
Start ==
  /\ acceptor = "off"
  /\ \A k \in Stopper : stopper[k] = "idle"
  /\ acceptor' = "accepting"
  /\ listening' = TRUE
  /\ wg' = wg + 1
  /\ UNCHANGED <<registryVars, cancelled, pc, hello, reader, readDone, watcher, stopper>>

(* wg.Add(1) precedes the go statement. *)
Accept(c) ==
  /\ acceptor = "accepting"
  /\ listening
  /\ Goto(c, "none", "tls")
  /\ wg' = wg + 1
  /\ UNCHANGED <<registryVars, acceptor, listening, cancelled, hello, reader,
                 readDone, watcher, stopper>>

(* Mutation of AcceptError: wg.Done is forgotten. *)
AcceptErrorForgetsDone ==
  /\ acceptor = "accepting"
  /\ acceptor' = IF cancelled THEN "exited" ELSE "backoff"
  /\ UNCHANGED <<registryVars, listening, cancelled, wg, pc, hello, reader,
                 readDone, watcher, stopper>>

(* Mutation of AcceptError: s.ctx is not consulted. *)
AcceptErrorIgnoresStop ==
  /\ acceptor = "accepting"
  /\ acceptor' = "backoff"
  /\ UNCHANGED <<registryVars, listening, cancelled, wg, pc, hello, reader,
                 readDone, watcher, stopper>>

(* Accept fails because the listener is closed, or now and then on its own. *)
AcceptError ==
  /\ acceptor = "accepting"
  /\ IF cancelled THEN acceptor' = "exited" /\ wg' = wg - 1
                  ELSE acceptor' = "backoff" /\ UNCHANGED wg
  /\ UNCHANGED <<registryVars, listening, cancelled, pc, hello, reader,
                 readDone, watcher, stopper>>

AcceptRetry ==
  /\ acceptor = "backoff"
  /\ acceptor' = "accepting"
  /\ UNCHANGED <<registryVars, listening, cancelled, wg, pc, hello, reader,
                 readDone, watcher, stopper>>

-----------------------------------------------------------------------------
(***************************************************************************)
(* handleConn.                                                             *)
(***************************************************************************)

handlerFrame == <<acceptor, listening, cancelled, wg, watcher, stopper>>

(* The TLS handshake succeeds and the yamux session exists. *)
TlsHandshake(c) ==
  /\ Goto(c, "tls", "stream")
  /\ UNCHANGED <<registryVars, handlerFrame, hello, reader, readDone>>

AcceptStream(c) ==
  /\ Goto(c, "stream", "handshake")
  /\ UNCHANGED <<registryVars, handlerFrame, hello, reader, readDone>>

(* TLS, AcceptStream or ReceiveHandshake fails: an error from the network, *)
(* an invalid handshake, the deadline.                                     *)
SetupFails(c) ==
  /\ pc[c] \in {"tls", "stream", "handshake"}
  /\ pc' = [pc EXCEPT ![c] = "exit"]
  /\ UNCHANGED <<registryVars, handlerFrame, hello, reader, readDone>>

(* ReceiveHandshake, then AuthorizeNode on the claim it carries. *)
ReceiveHandshake(c) ==
  /\ \E claim \in Claim :
       IF AuthorizeNode(claim.node, claim.token)
         THEN /\ hello' = [hello EXCEPT ![c] = claim]
              /\ Goto(c, "handshake", "admitted")
         ELSE /\ UNCHANGED hello
              /\ Goto(c, "handshake", "exit")
  /\ UNCHANGED <<registryVars, handlerFrame, reader, readDone>>

(* RegisterSession, then the read loop is started. *)
Serve(c) ==
  /\ Goto(c, "admitted", "serving")
  /\ RegisterSession(hello[c].node, c)
  /\ reader' = [reader EXCEPT ![c] = "reading"]
  /\ UNCHANGED <<handlerFrame, hello, readDone>>

(* The select: shutdown, the end of the yamux session, or the end of the   *)
(* read loop, whose value is then taken off the channel.                   *)
Wake(c) ==
  /\ Goto(c, "serving", "closing")
  /\ \/ (cancelled \/ c \in hungUp) /\ UNCHANGED readDone
     \/ c \in readDone /\ readDone' = readDone \ {c}
  /\ UNCHANGED <<registryVars, handlerFrame, hello, reader>>

(* cs.Close and session.Close. *)
CloseConnection(c) ==
  /\ Goto(c, "closing", "drain")
  /\ hungUp' = hungUp \cup {c}
  /\ UNCHANGED <<sessions, owner, connected, closed, age, panicked>>
  /\ UNCHANGED <<handlerFrame, hello, reader, readDone>>

(* Mutation of Drain: the read loop is not waited for. *)
DrainNothing(c) ==
  /\ Goto(c, "drain", "deregister")
  /\ UNCHANGED <<registryVars, handlerFrame, hello, reader, readDone>>

(* The second receive from readDone. *)
Drain(c) ==
  /\ Goto(c, "drain", "deregister")
  /\ c \in readDone
  /\ readDone' = readDone \ {c}
  /\ UNCHANGED <<registryVars, handlerFrame, hello, reader>>

(* Mutation of Deregister: RemoveIfCurrent is forgotten. *)
DeregisterForgotten(c) ==
  /\ Goto(c, "deregister", "exit")
  /\ UNCHANGED <<registryVars, handlerFrame, hello, reader, readDone>>

Deregister(c) ==
  /\ Goto(c, "deregister", "exit")
  /\ RemoveIfCurrent(hello[c].node, c)
  /\ UNCHANGED <<handlerFrame, hello, reader, readDone>>

(* The deferred calls: streams and connection closed, wg.Done.  The        *)
(* handshake was a local variable.                                         *)
Exit(c) ==
  /\ Goto(c, "exit", "done")
  /\ hungUp' = hungUp \cup {c}
  /\ wg' = wg - 1
  /\ hello' = [hello EXCEPT ![c] = NoClaim]
  /\ UNCHANGED <<sessions, owner, connected, closed, age, panicked>>
  /\ UNCHANGED <<acceptor, listening, cancelled, watcher, stopper, reader, readDone>>

-----------------------------------------------------------------------------
(***************************************************************************)
(* readControlLoop.                                                        *)
(***************************************************************************)

(* A heartbeat frame with the session's own node ID; what yamux buffered   *)
(* can still be read after the session ended.  Frames of any other kind    *)
(* leave the state as it is.                                               *)
HeartbeatFrame(c) ==
  /\ reader[c] = "reading"
  /\ TouchHeartbeat(c)
  /\ UNCHANGED tunnelVars

(* The read returns an error: EOF, a malformed or oversized frame, two     *)
(* minutes of silence, or the end of the yamux session.                    *)
ReadFails(c) ==
  /\ reader[c] = "reading"
  /\ reader' = [reader EXCEPT ![c] = "exited"]
  /\ readDone' = readDone \cup {c}
  /\ UNCHANGED <<registryVars, handlerFrame, pc, hello>>

(* A call of Invoke for the session's node records a heartbeat as well,    *)
(* whether it succeeded or not.                                            *)
InvokeHeartbeat(c) ==
  /\ c \in Registered
  /\ TouchHeartbeat(c)
  /\ UNCHANGED tunnelVars

-----------------------------------------------------------------------------
(***************************************************************************)
(* watchCerts.  What it does to the certificate is in Certificates.        *)
(***************************************************************************)

(* The watch is set up, or cannot be. *)
WatchCerts ==
  /\ watcher = "starting"
  /\ watcher' \in {"watching", "ended"}
  /\ UNCHANGED <<registryVars, acceptor, listening, cancelled, wg, pc, hello,
                 reader, readDone, stopper>>

WatcherEnds ==
  /\ watcher = "watching"
  /\ cancelled
  /\ watcher' = "ended"
  /\ UNCHANGED <<registryVars, acceptor, listening, cancelled, wg, pc, hello,
                 reader, readDone, stopper>>

-----------------------------------------------------------------------------
(***************************************************************************)
(* Stop.                                                                   *)
(***************************************************************************)

stopFrame == <<registryVars, acceptor, wg, pc, hello, reader, readDone, watcher>>

StopGoto(k, from, to) ==
  /\ stopper[k] = from
  /\ stopper' = [stopper EXCEPT ![k] = to]

(* Server.Stop cancels the cleanup loop before anything else, then lets    *)
(* the gRPC server finish its calls.  The loop may see a tick or two more. *)
ServerStop(k) ==
  /\ StopGoto(k, "idle", "grpc")
  /\ UNCHANGED <<stopFrame, cancelled, listening>>

StopCancel(k) ==
  /\ StopGoto(k, "grpc", "close")
  /\ cancelled' = TRUE
  /\ UNCHANGED <<stopFrame, listening>>

StopListener(k) ==
  /\ StopGoto(k, "close", "wait")
  /\ listening' = FALSE
  /\ UNCHANGED <<stopFrame, cancelled>>

StopWait(k) ==
  /\ StopGoto(k, "wait", "returned")
  /\ wg = 0
  /\ UNCHANGED <<stopFrame, cancelled, listening>>

Stopping == \E k \in Stopper : stopper[k] # "idle"

-----------------------------------------------------------------------------
(* The yamux session of an accepted connection dies. *)
PeerGone(c) ==
  /\ pc[c] \notin {"none", "tls", "exit", "done"}
  /\ HangUp(c)
  /\ UNCHANGED tunnelVars

HandlerStep(c) ==
  \/ TlsHandshake(c)
  \/ AcceptStream(c)
  \/ ReceiveHandshake(c)
  \/ SetupFails(c)
  \/ Serve(c)
  \/ Wake(c)
  \/ CloseConnection(c)
  \/ Drain(c)
  \/ Deregister(c)
  \/ Exit(c)

Next ==
  \/ Start
  \/ AcceptError
  \/ AcceptRetry
  \/ \E c \in Session : Accept(c)
  \/ \E c \in Session : HandlerStep(c)
  \/ \E c \in Session : HeartbeatFrame(c) \/ ReadFails(c)
  \/ \E c \in Session : InvokeHeartbeat(c) \/ PeerGone(c)
  \/ WatchCerts \/ WatcherEnds
  \/ \E k \in Stopper : ServerStop(k) \/ StopCancel(k) \/ StopListener(k) \/ StopWait(k)
  \/ Cleanup /\ UNCHANGED tunnelVars
  \/ Tick /\ UNCHANGED tunnelVars

Spec == Init /\ [][Next]_vars

(***************************************************************************)
(* Fairness.  Goroutines that can run do run, the clock advances, and a    *)
(* read of a dead yamux session returns.  Nothing makes a connection leave *)
(* "tls", where the handshake has no deadline, or "stream", unless yamux   *)
(* finds it dead; the read of the handshake message has a deadline.  The   *)
(* cleanup ticker is good for a pass only until a Stop begins.             *)
(***************************************************************************)
Fairness ==
  /\ WF_vars(AcceptError /\ ~listening)
  /\ WF_vars(AcceptRetry)
  /\ \A c \in Session :
       /\ WF_vars((pc[c] = "handshake" \/ c \in hungUp) /\ SetupFails(c))
       /\ WF_vars(Serve(c) \/ Wake(c) \/ CloseConnection(c) \/ Drain(c)
                    \/ Deregister(c) \/ Exit(c))
       /\ WF_vars(c \in hungUp /\ ReadFails(c))
  /\ WF_vars(WatchCerts \/ WatcherEnds)
  /\ \A k \in Stopper : WF_vars(StopListener(k)) /\ WF_vars(StopWait(k))
  /\ WF_vars(~Stopping /\ Cleanup /\ UNCHANGED tunnelVars)
  /\ WF_vars(Tick /\ UNCHANGED tunnelVars)

FairSpec == Spec /\ Fairness

-----------------------------------------------------------------------------
(***************************************************************************)
(* Safety.                                                                 *)
(***************************************************************************)

Running(c) == pc[c] \notin {"none", "done"}
Busy == {c \in Session : Running(c)}
AcceptLoops == IF acceptor \in {"accepting", "backoff"} THEN 1 ELSE 0

(* s.wg counts exactly the accept loop and the handlers still running, so  *)
(* that the Wait in Stop can neither return early nor go negative.         *)
WaitGroupCounts == wg = Cardinality(Busy) + AcceptLoops

(* A registered session always has a handler that has yet to deregister    *)
(* it: an entry of the map is never orphaned by the exit of its handler.   *)
RegisteredHasHandler ==
  \A c \in Registered : pc[c] \in {"serving", "closing", "drain", "deregister"}

(* What the server answers to is what was authorised: with tokens bound to *)
(* nodes, the connection filed under a node ID presented that node's own   *)
(* token (AuthorizeNode, not Authorize, guards RegisterSession).           *)
RegisteredIsAuthorised ==
  IdentityBound =>
    \A p \in Peer : sessions[p] # NoSession =>
      hello[sessions[p]] = [node |-> p, token |-> NodeTokens[p]]

(* When Stop returns the connections are gone: no accept loop, no handler, *)
(* no read loop (which the wait group does not count), and no session in   *)
(* the registry.  Only the certificate watcher may still run: the comment  *)
(* of Stop says that it blocks until all goroutines have exited, but the   *)
(* wait group does not count this one either, and nobody waits for it.     *)
StopLeavesOnlyWatcher ==
  (\E k \in Stopper : stopper[k] = "returned") =>
    /\ acceptor \in {"off", "exited"}
    /\ \A c \in Session : ~Running(c) /\ reader[c] # "reading"
    /\ Registered = {}

(* A session leaves the registry for one of three reasons only: its own    *)
(* handler deregisters it, another connection of the same node replaces    *)
(* it, or it is stale.  In particular the late exit of a replaced handler  *)
(* never takes the successor down (RemoveIfCurrent).                       *)
EvictionHasCause ==
  [][\A p \in Peer :
       sessions[p] # NoSession /\ sessions'[p] # sessions[p] =>
         \/ pc[sessions[p]] = "deregister" /\ pc'[sessions[p]] = "exit"
         \/ sessions'[p] # NoSession /\ pc'[sessions'[p]] = "serving"
              /\ pc[sessions'[p]] = "admitted"
         \/ sessions[p] \in Stale]_vars

-----------------------------------------------------------------------------
(***************************************************************************)
(* Liveness.                                                               *)
(***************************************************************************)

(* The handler was woken by the read loop's result, so the only value that *)
(* readDone will ever hold is gone, and the second receive waits for ever. *)
LostReadDone(c) == pc[c] = "drain" /\ reader[c] = "exited" /\ c \notin readDone

(* A session whose yamux session is dead does not stay registered, unless  *)
(* calls to its node keep recording heartbeats for it: its handler removes *)
(* it, or a replacement does, or the cleanup loop, which a Stop ends.  So  *)
(* the handler that waits for ever leaves its session behind in a Stop.    *)
DeadSessionLeaves ==
  \A c \in Session :
    <>[][~InvokeHeartbeat(c)]_vars =>
      ((c \in Registered /\ c \in hungUp) ~>
         (c \notin Registered \/ (LostReadDone(c) /\ Stopping)))

(* A node that is silent where the handler has no deadline and does not    *)
(* watch the context.                                                      *)
Stalled(c) == pc[c] \in {"tls", "stream"}

(* Stop waits for all active connection handlers to complete, and returns, *)
(* if no node stalls for ever.                                             *)
StopReturns ==
  (\A c \in Session : []<>~Stalled(c)) =>
    \A k \in Stopper : stopper[k] = "close" ~> stopper[k] = "returned"

(* What can hold a Stop: a node that stalls, and a handler whose read-loop *)
(* result was consumed by the select.                                      *)
Held(c) == Stalled(c) \/ LostReadDone(c)

(* With no connection held for ever, Stop returns, and what it did not     *)
(* wait for, the certificate watcher, ends as well.                        *)
StopReturnsUnlessHeld ==
  (\A c \in Session : []<>~Held(c)) =>
    \A k \in Stopper :
      stopper[k] = "close" ~> stopper[k] = "returned" /\ watcher = "ended"
=============================================================================
