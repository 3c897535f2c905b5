------------------------------ MODULE Connection ------------------------------
(***************************************************************************)
(* A node at the door of the tunnel: the server that New has made with its *)
(* certificates and their watcher, Start, Stop, and one connection at a    *)
(* time through handleConn and readControlLoop (pkg/tunnel/tunnel.go) up   *)
(* to the end of its control stream.  What the handler does with the       *)
(* registry, beside other handlers, is in Tunnel.                          *)
(*                                                                         *)
(* Time passes when the server has nothing to read and no deadline is due: *)
(* what the server does on its own takes less than a tick.  A node may     *)
(* take as long as it likes.                                               *)
(***************************************************************************)
EXTENDS Certificates, ControlStream

CONSTANTS
  StaleAfter,   \* maxAge of the registry's cleanup loop, in ticks
  BeatInterval  \* the heartbeat interval of a punctual node, in ticks

(* The interval leaves room for the heartbeat within both windows. *)
ASSUME IntervalAssumption ==
  /\ BeatInterval \in Nat
  /\ StaleAfter \in Nat
  /\ BeatInterval < IdleTimeout
  /\ BeatInterval <= StaleAfter

VARIABLES
  server,    \* "new", "running", "stopped"
  handler,   \* where handleConn is
  node,      \* the node: "up", "frozen" without a word, or "gone"
  age,       \* ticks since LastHeartbeat of the session
  silence,   \* ticks since the node began a frame that proves it is alive,
             \* until it is late
  wellBehaved \* the node has only written what it should, without pauses

connVars == <<server, handler, node, age, silence, wellBehaved>>
vars == <<certVars, streamVars, connVars>>

HandlerPC == {"none", "tls", "stream", "handshake", "serving", "closed"}
Reading == handler \in {"handshake", "serving"}

TypeOK ==
  /\ CertTypeOK
  /\ StreamTypeOK
  /\ server \in {"new", "running", "stopped"}
  /\ handler \in HandlerPC
  /\ node \in {"up", "frozen", "gone"}
  /\ age \in 0 .. StaleAfter + 1
  /\ silence \in 0 .. BeatInterval + FrameTimeout
  /\ wellBehaved \in BOOLEAN

Init ==
  /\ CertInit
  /\ StreamInit
  /\ server = "new"
  /\ handler = "none"
  /\ node = "gone"
  /\ age = 0
  /\ silence = 0
  /\ wellBehaved = FALSE

(* The handler's deferred calls: the stream, the session and the           *)
(* connection are closed, and what is under way is lost.                   *)
Hangup ==
  /\ handler' = "closed"
  /\ age' = 0
  /\ silence' = 0
  /\ sending' = NoMessage /\ written' = 0
  /\ wire' = <<>>
  /\ AwaitFrame(0)

-----------------------------------------------------------------------------
(***************************************************************************)
(* The server.                                                             *)
(***************************************************************************)

Start ==
  /\ server = "new"
  /\ server' = "running"
  /\ CaptureConfig
  /\ UNCHANGED <<config, certFile, torn, keyFile, watched, notified, watcher,
                 gotCert, tlsConfig, streamVars, handler, node, age, silence,
                 wellBehaved>>

(* The context is cancelled and the listener closed.  A handler that waits *)
(* for TLS or for the stream does not look at the context.                 *)
Stop ==
  /\ server # "stopped"
  /\ server' = "stopped"
  /\ UNCHANGED <<certVars, streamVars, handler, node, age, silence, wellBehaved>>

(* select in handleConn: s.ctx.Done(). *)
HandlerCancelled ==
  /\ server = "stopped"
  /\ handler = "serving"
  /\ Hangup
  /\ last' = NoMessage
  /\ UNCHANGED <<certVars, server, node, wellBehaved>>

(* The registry's cleanup closes a session that is too old. *)
CleanupEvicts ==
  /\ handler = "serving"
  /\ age > StaleAfter
  /\ Hangup
  /\ last' = NoMessage
  /\ UNCHANGED <<certVars, server, node, wellBehaved>>

WatcherStops == server = "stopped" /\ WatcherExits

WatcherStep ==
  /\ AddWatch \/ ReadCert \/ LoadPair \/ WatcherStops
  /\ UNCHANGED <<streamVars, connVars>>

OperatorStep ==
  /\ RenewKey \/ TruncateCert \/ WriteCert \/ RenameCert
  /\ UNCHANGED <<streamVars, connVars>>

-----------------------------------------------------------------------------
(***************************************************************************)
(* The node.                                                               *)
(***************************************************************************)

(* A node connects, or connects again; acceptLoop starts a handler. *)
Connect ==
  /\ server = "running"
  /\ handler \in {"none", "closed"}
  /\ handler' = "tls"
  /\ node' = "up"
  /\ age' = 0
  /\ silence' = 0
  /\ wellBehaved' = TRUE
  /\ UNCHANGED <<certVars, streamVars, server>>

TlsDone ==
  /\ handler = "tls"
  /\ node = "up"
  /\ handler' = "stream"
  /\ UNCHANGED <<certVars, streamVars, server, node, age, silence, wellBehaved>>

(* The node opens its first stream; NewControlStream, ReceiveHandshake. *)
StreamAccepted ==
  /\ handler = "stream"
  /\ node = "up"
  /\ handler' = "handshake"
  /\ silence' = 0
  /\ last' = NoMessage
  /\ AwaitFrame(FrameTimeout)
  /\ UNCHANGED <<certVars, senderVars, wire, server, node, age, wellBehaved>>

(* A handshake opens the stream; after that a node should write what is    *)
(* JSON and fits, and heartbeats of its own among it.                      *)
IsFirst == handler = "handshake" /\ wire = <<>> /\ length = 0
Proper(m) == IF IsFirst THEN m = "hello" ELSE m \notin {"garbage", "oversize"}
ProvesAlive(m) == m \in (IF IsFirst THEN {"hello"} ELSE {"heartbeat", "skewed"})

BeginSend ==
  /\ Reading
  /\ node = "up"
  /\ \E m \in Message :
       /\ BeginFrame(m)
       /\ silence' = IF ProvesAlive(m) THEN 0 ELSE silence
       /\ wellBehaved' = (wellBehaved /\ Proper(m))
  /\ UNCHANGED <<certVars, server, handler, node, age>>

ContinueSend ==
  /\ Reading
  /\ node = "up"
  /\ WriteUnit
  /\ UNCHANGED <<certVars, connVars>>

(* The node closes its end; what it has written can still be read.         *)
Leave ==
  /\ node = "up"
  /\ node' = "gone"
  /\ wellBehaved' = FALSE
  /\ sending' = NoMessage /\ written' = 0
  /\ UNCHANGED <<certVars, receiverVars, wire, server, handler, age, silence>>

(* The node hangs, with its connection open. *)
Freeze ==
  /\ node = "up"
  /\ node' = "frozen"
  /\ wellBehaved' = FALSE
  /\ UNCHANGED <<certVars, streamVars, server, handler, age, silence>>

-----------------------------------------------------------------------------
(***************************************************************************)
(* The handler and its read loop.                                          *)
(***************************************************************************)

(* A handshake or an AcceptStream that fails because the node is gone. *)
SetupFails ==
  /\ handler \in {"tls", "stream"}
  /\ node = "gone"
  /\ Hangup
  /\ last' = NoMessage
  /\ UNCHANGED <<certVars, server, node, wellBehaved>>

ReadContinues ==
  /\ Reading
  /\ ReadHeader \/ ReadPayload
  /\ UNCHANGED <<certVars, connVars>>

ReadFails ==
  /\ Reading
  /\ ReadHeaderFails \/ ReadTimesOut \/ (ReadBlocked /\ node = "gone")
  /\ Hangup
  /\ last' = NoMessage
  /\ UNCHANGED <<certVars, server, node, wellBehaved>>

(* ReceiveHandshake returns; the session is registered, and the read loop  *)
(* sets its deadline and waits for the first frame.  A handshake that does *)
(* not decode, or a node that AuthorizeNode refuses, ends the handler.     *)
HandshakeArrives ==
  /\ handler = "handshake"
  /\ Completes
  /\ last' = Decode(Frame)
  /\ \/ /\ IsHandshake(last')
        /\ handler' = "serving"
        /\ age' = 0
        /\ wire' = Tail(wire)
        /\ AwaitFrame(IdleTimeout)
        /\ UNCHANGED <<senderVars, silence, wellBehaved>>
     \/ /\ Hangup
        /\ wellBehaved' = (wellBehaved /\ ~IsHandshake(last'))
  /\ UNCHANGED <<certVars, server, node>>

(* One turn of readControlLoop. *)
MessageArrives ==
  /\ handler = "serving"
  /\ Completes
  /\ last' = Decode(Frame)
  /\ IF ReceivedRaw(last')
     THEN /\ age' = IF Touches(last') THEN 0 ELSE age
          /\ wire' = Tail(wire)
          /\ AwaitFrame(IdleTimeout)
          /\ UNCHANGED <<senderVars, handler, silence>>
     ELSE Hangup
  /\ UNCHANGED <<certVars, server, node, wellBehaved>>

-----------------------------------------------------------------------------
(* A tick.  A node is late if it has not sent its handshake before the     *)
(* deadline, or a heartbeat within the interval.                           *)
Soon == IF handler = "handshake" THEN silence + 1 < FrameTimeout
                                 ELSE silence + 1 <= BeatInterval

Tick ==
  /\ Reading
  /\ ReadBlocked
  /\ ~ReadTimesOut
  /\ node # "gone"
  /\ ~(server = "stopped" /\ handler = "serving")
  /\ readDeadline' = IF readDeadline > 0 THEN readDeadline - 1 ELSE 0
  /\ age' = IF handler = "serving" /\ age <= StaleAfter THEN age + 1 ELSE age
  /\ silence' = IF Soon THEN silence + 1 ELSE silence
  /\ wellBehaved' = (wellBehaved /\ sending = NoMessage /\ Soon)
  /\ last' = NoMessage
  /\ UNCHANGED <<certVars, senderVars, wire, length, payload, server, handler,
                 node>>

Next ==
  \/ Start \/ Stop \/ HandlerCancelled \/ CleanupEvicts
  \/ WatcherStep \/ OperatorStep
  \/ Connect \/ TlsDone \/ StreamAccepted \/ BeginSend \/ ContinueSend
  \/ Leave \/ Freeze
  \/ SetupFails \/ ReadContinues \/ ReadFails \/ HandshakeArrives
  \/ MessageArrives
  \/ Tick

(* Goroutines are scheduled and clocks tick; nodes and operators may do as *)
(* they please.                                                            *)
Fairness ==
  /\ WF_vars(WatcherStep)
  /\ WF_vars(ReadContinues)
  /\ WF_vars(ReadFails)
  /\ WF_vars(HandshakeArrives)
  /\ WF_vars(MessageArrives)
  /\ WF_vars(HandlerCancelled)
  /\ WF_vars(Tick)

Spec == Init /\ [][Next]_vars /\ Fairness

-----------------------------------------------------------------------------
(***************************************************************************)
(* Properties.                                                             *)
(***************************************************************************)

(* A node that is authorised, writes only what it should and sends a       *)
(* heartbeat in time, with whatever clock and among whatever other         *)
(* messages, is never dropped by a running server: not by the read         *)
(* deadline of readControlLoop, not by the cleanup loop, and not for the   *)
(* frames the loop does not know.                                          *)
HealthyNodeIsKept ==
  wellBehaved /\ server = "running" => handler # "closed"

(* A node that falls silent with its control stream open, in the middle of *)
(* a frame or between two, before or after its handshake, is given up:     *)
(* the deadline that ReceiveFrame applies covers a whole frame.            *)
SilentNodeIsDropped == node = "frozen" /\ Reading ~> handler = "closed"

(* The frames of SendFrame and ReceiveFrame carry the messages of a        *)
(* channel: whole, once, in order, whatever is in between.                 *)
IsLastUnit(u) == u.n = Size[u.of]

(* The message that each unit completes, if any. *)
AddMessage(messages, u) ==
  IF IsLastUnit(u) THEN Append(messages, u.of) ELSE messages

Completed(units) ==
  LET after[i \in 0 .. Len(units)] ==
        IF i = 0 THEN <<>> ELSE AddMessage(after[i - 1], units[i])
  IN  after[Len(units)]

InTransit == IF Reading THEN Completed(wire) ELSE <<>>

Channel == INSTANCE MessageChannel WITH
             open  <- Reading,
             queue <- InTransit

ImplementsChannel == Channel!Spec

(* What the server serves, or would serve after Start, is what it was      *)
(* configured with: the generated pair only if no file is named, and else  *)
(* a certificate and a key that belong together, both of which have been   *)
(* in the files.                                                           *)
ServesConfiguredPair ==
  \A pair \in {tlsConfig, listenerConfig} \ {NoPair} :
    IF config = [certFile |-> Unset, keyFile |-> Unset]
    THEN pair = DevPair
    ELSE pair <= certFile /\ pair <= keyFile

(* A certificate written in place, after its key, while the watch is on    *)
(* its file, gets into s.tlsConfig in the end: torn and mismatched pairs   *)
(* that the watcher has met on the way do not keep it from that.  It says  *)
(* nothing of what nodes are served; that is RenewalIsServed.              *)
Renewed(g) == certFile = g /\ keyFile = g /\ ~torn

Noticed(g) == Renewed(g) /\ notified /\ watcher \in {"waiting", "loading"}

RenewalIsLoaded ==
  \A g \in Gen :
    Noticed(g) ~> tlsConfig = g \/ ~Renewed(g) \/ server = "stopped"

(* The listener of a running server reloads a certificate that changes on  *)
(* disk, without a restart: what README.md and the comments of Server and  *)
(* ListenerConfig promise.  The code does not: the listener keeps the      *)
(* configuration that Start gave it, and GetConfigForClient, which could   *)
(* hand out s.tlsConfig, returns nil.                                      *)
RenewalIsServed ==
  \A g \in Gen :
    Noticed(g) /\ server = "running"
      ~> listenerConfig = g \/ ~Renewed(g) \/ server = "stopped"
==============================================================================
