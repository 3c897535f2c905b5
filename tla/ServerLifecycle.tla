--------------------------- MODULE ServerLifecycle ---------------------------
(***************************************************************************)
(* One server.Server (pkg/server/server.go): Start and Stop, called from   *)
(* any thread at any time, as they drive the metrics exporter, the tunnel  *)
(* and the gRPC server.  A call of Start that gets as far as the tunnel    *)
(* opens two listeners; an element of Run names both of them.              *)
(*                                                                         *)
(* What a handler of a connection does is the subject of Tunnel; here it   *)
(* counts in s.wg as long as it has not ended, and its node, or the result *)
(* of its read loop that it takes twice, may keep it from ending.          *)
(***************************************************************************)
EXTENDS Integers, Threads

CONSTANTS
  Run,      \* calls of Start that reach the tunnel
  NoRun,    \* a nil listener, or no accept loop
  Conn,     \* connections of nodes
  CertFiles \* New is given certificate files, and they can be watched

ASSUME RunConstants == NoRun \notin Run /\ CertFiles \in BOOLEAN

VARIABLES
  pc,               \* where each thread is in Start or in Stop
  run,              \* the Run of a thread in Start
  cleaning,         \* the cleanup loop, which runs until s.ctx is done
  exporter,         \* e.server is not nil: the metrics endpoint is bound
  tunnelCancelled,  \* the tunnel's context is done
  listener,         \* s.listener of the tunnel
  open,             \* tunnel listeners that are open
  accepting,        \* the listener each accept loop waits on
  handler,          \* where handleConn of each connection is
  wg,               \* counter of the tunnel's s.wg
  watching,         \* the goroutine of watchCerts, which s.wg does not count
  bound,            \* gRPC listeners whose Serve has not been called yet
  serving,          \* gRPC listeners being served
  grpcStopped,      \* GracefulStop has been called
  calls,            \* kinds of RPC in flight
  overlapped        \* history: a Start and a Stop have overlapped

handlerVars == <<handler, watching>>
tunnelVars == <<tunnelCancelled, listener, open, accepting, wg, handlerVars>>
grpcVars == <<bound, serving, grpcStopped, calls>>
serverVars == <<cleaning, exporter, tunnelVars, grpcVars>>
lifecycleVars == <<serverVars, pc, run, overlapped>>

StartPC == {"metrics", "listen", "assign", "spawn", "grpc"}
StopPC == {"cancel", "graceful", "drain", "tunnelCancel", "tunnelClose",
           "tunnelWait", "metricsStop"}
Rpc == {"unary", "stream"}

(* "waiting" for the node's TLS handshake or its first stream, without a   *)
(* deadline; "serving" from ReceiveHandshake, which has one, to the        *)
(* select; "lost" at the second receive from readDone.                     *)
HandlerPC == {"none", "waiting", "serving", "lost"}

LifecycleTypeOK ==
  /\ pc \in [Thread -> StartPC \cup StopPC \cup {"idle"}]
  /\ run \in [Thread -> Run \cup {NoRun}]
  /\ cleaning \in BOOLEAN /\ exporter \in BOOLEAN
  /\ tunnelCancelled \in BOOLEAN /\ grpcStopped \in BOOLEAN
  /\ overlapped \in BOOLEAN
  /\ listener \in Run \cup {NoRun}
  /\ accepting \in [Run -> Run \cup {NoRun}]
  /\ handler \in [Conn -> HandlerPC]
  /\ watching \in BOOLEAN
  /\ wg \in Nat
  /\ open \subseteq Run /\ bound \subseteq Run /\ serving \subseteq Run
  /\ calls \subseteq Rpc

LifecycleInit ==
  /\ pc = [k \in Thread |-> "idle"]
  /\ run = [k \in Thread |-> NoRun]
  /\ cleaning = FALSE
  /\ exporter = FALSE
  /\ tunnelCancelled = FALSE
  /\ listener = NoRun
  /\ open = {}
  /\ accepting = [r \in Run |-> NoRun]
  /\ handler = [c \in Conn |-> "none"]
  /\ watching = FALSE
  /\ wg = 0
  /\ bound = {}
  /\ serving = {}
  /\ grpcStopped = FALSE
  /\ calls = {}
  /\ overlapped = FALSE

Goto(k, from, to) ==
  /\ pc[k] = from
  /\ pc' = [pc EXCEPT ![k] = to]

(* New starts the cleanup loop and, if it has files to watch, the watcher; *)
(* nothing else runs yet.                                                  *)
NewServer ==
  /\ cleaning' = TRUE
  /\ watching' = CertFiles
  /\ UNCHANGED <<pc, run, overlapped, exporter, tunnelCancelled, listener, open,
                 accepting, wg, handler, grpcVars>>

(* A thread calls Start, or Stop. *)
Enters(k, entry, others) ==
  /\ Goto(k, "idle", entry)
  /\ overlapped' = (overlapped \/ \E j \in Thread : pc[j] \in others)
  /\ UNCHANGED <<serverVars, run>>

CallStart(k) == Enters(k, "metrics", StopPC)
CallStop(k) == Enters(k, "cancel", StartPC)

-----------------------------------------------------------------------------
(***************************************************************************)
(* Start.                                                                  *)
(***************************************************************************)

(* Start returns an error: a listener cannot be bound.  What was started   *)
(* before stays as it is.                                                  *)
StartFails(k) ==
  /\ pc[k] \in {"metrics", "listen", "grpc"}
  /\ pc' = [pc EXCEPT ![k] = "idle"]
  /\ run' = [run EXCEPT ![k] = NoRun]
  /\ UNCHANGED <<serverVars, overlapped>>

(* Exporter.Start under its mutex.  The error ErrAlreadyStarted is one of  *)
(* the failures of StartFails.                                             *)
StartMetrics(k) ==
  /\ Goto(k, "metrics", "listen")
  /\ ~exporter
  /\ exporter' = TRUE
  /\ UNCHANGED <<run, overlapped, cleaning, tunnelVars, grpcVars>>

Unused(r) == r # listener /\ r \notin open \cup bound \cup serving
               /\ accepting[r] = NoRun /\ \A k \in Thread : run[k] # r

(* tls.Listen in tunnel.Server.Start; any unused name is as good as any.   *)
TunnelListen(k) ==
  /\ Goto(k, "listen", "assign")
  /\ \E r \in Run : Unused(r)
  /\ LET r == CHOOSE r \in Run : Unused(r)
     IN  run' = [run EXCEPT ![k] = r] /\ open' = open \cup {r}
  /\ UNCHANGED <<overlapped, cleaning, exporter, tunnelCancelled, listener,
                 accepting, wg, handlerVars, grpcVars>>

(* s.listener = tlsListener, without a lock. *)
TunnelAssign(k) ==
  /\ Goto(k, "assign", "spawn")
  /\ listener' = run[k]
  /\ UNCHANGED <<run, overlapped, cleaning, exporter, tunnelCancelled, open,
                 accepting, wg, handlerVars, grpcVars>>

(* wg.Add and the accept loop, which begins by reading s.listener. *)
TunnelSpawn(k) ==
  /\ Goto(k, "spawn", "grpc")
  /\ accepting' = [accepting EXCEPT ![run[k]] = listener]
  /\ wg' = wg + 1
  /\ UNCHANGED <<run, overlapped, cleaning, exporter, tunnelCancelled,
                 listener, open, handlerVars, grpcVars>>

(* net.Listen and the goroutine that is to call Serve.  Start returns nil. *)
StartGrpc(k) ==
  /\ Goto(k, "grpc", "idle")
  /\ bound' = bound \cup {run[k]}
  /\ run' = [run EXCEPT ![k] = NoRun]
  /\ UNCHANGED <<overlapped, cleaning, exporter, tunnelVars, serving,
                 grpcStopped, calls>>

-----------------------------------------------------------------------------
(***************************************************************************)
(* The goroutines of a started server.                                     *)
(***************************************************************************)

(* Serve: a server that has been stopped closes the listener instead. *)
Serve(r) ==
  /\ r \in bound
  /\ bound' = bound \ {r}
  /\ serving' = IF grpcStopped THEN serving ELSE serving \cup {r}
  /\ UNCHANGED <<pc, run, overlapped, cleaning, exporter, tunnelVars,
                 grpcStopped, calls>>

CallBegins(c) ==
  /\ serving # {}
  /\ calls' = calls \cup {c}
  /\ UNCHANGED <<pc, run, overlapped, cleaning, exporter, tunnelVars, bound,
                 serving, grpcStopped>>

CallEnds(c) ==
  /\ c \in calls
  /\ calls' = calls \ {c}
  /\ UNCHANGED <<pc, run, overlapped, cleaning, exporter, tunnelVars, bound,
                 serving, grpcStopped>>

(* Accept returns an error, or a connection, which gets a handler.  The    *)
(* loop reads s.listener again.                                            *)
LoopAccepts(r) ==
  /\ accepting[r] \in open
  /\ accepting' = [accepting EXCEPT ![r] = listener]
  /\ \/ UNCHANGED <<handler, wg>>
     \/ \E c \in Conn : /\ handler[c] = "none"
                        /\ handler' = [handler EXCEPT ![c] = "waiting"]
                        /\ wg' = wg + 1
  /\ UNCHANGED <<pc, run, overlapped, cleaning, exporter, tunnelCancelled,
                 listener, open, watching, grpcVars>>

(* Accept fails on a closed listener, and the context is done. *)
LoopExits(r) ==
  /\ accepting[r] # NoRun
  /\ accepting[r] \notin open
  /\ tunnelCancelled
  /\ accepting' = [accepting EXCEPT ![r] = NoRun]
  /\ wg' = wg - 1
  /\ UNCHANGED <<pc, run, overlapped, cleaning, exporter, tunnelCancelled,
                 listener, open, handlerVars, grpcVars>>

handlerFrame == <<pc, run, overlapped, cleaning, exporter, tunnelCancelled,
                  listener, open, accepting, watching, grpcVars>>

(* The node has done its TLS handshake and opened its stream. *)
NodeProceeds(c) ==
  /\ handler[c] = "waiting"
  /\ handler' = [handler EXCEPT ![c] = "serving"]
  /\ UNCHANGED <<handlerFrame, wg>>

(* The handler returns: its node went away or was refused, or the context  *)
(* is done.                                                                *)
HandlerReturns(c) ==
  /\ handler[c] \in {"waiting", "serving"}
  /\ handler' = [handler EXCEPT ![c] = "none"]
  /\ wg' = wg - 1
  /\ UNCHANGED handlerFrame

(* The select takes the result of the read loop, and the second receive    *)
(* waits for another.                                                      *)
HandlerLost(c) ==
  /\ handler[c] = "serving"
  /\ handler' = [handler EXCEPT ![c] = "lost"]
  /\ UNCHANGED <<handlerFrame, wg>>

(* watchCerts returns because the context is done. *)
WatcherReturns ==
  /\ watching
  /\ tunnelCancelled
  /\ watching' = FALSE
  /\ UNCHANGED <<pc, run, overlapped, cleaning, exporter, tunnelCancelled,
                 listener, open, accepting, wg, handler, grpcVars>>

-----------------------------------------------------------------------------
(***************************************************************************)
(* Stop.                                                                   *)
(***************************************************************************)

(* s.cancel ends the cleanup loop. *)
StopCancel(k) ==
  /\ Goto(k, "cancel", "graceful")
  /\ cleaning' = FALSE
  /\ UNCHANGED <<run, overlapped, exporter, tunnelVars, grpcVars>>

(* GracefulStop closes the listeners it knows of ... *)
GracefulStop(k) ==
  /\ Goto(k, "graceful", "drain")
  /\ grpcStopped' = TRUE
  /\ serving' = {}
  /\ UNCHANGED <<run, overlapped, cleaning, exporter, tunnelVars, bound,
                 calls>>

(* Mutation of GracefulDrain: Stop in place of GracefulStop. *)
GracefulDrainSkipped(k) ==
  /\ Goto(k, "drain", "tunnelCancel")
  /\ UNCHANGED <<run, serverVars, overlapped>>

(* ... and waits for the calls in flight. *)
GracefulDrain(k) ==
  /\ Goto(k, "drain", "tunnelCancel")
  /\ calls = {}
  /\ UNCHANGED <<run, serverVars, overlapped>>

TunnelCancel(k) ==
  /\ Goto(k, "tunnelCancel", "tunnelClose")
  /\ tunnelCancelled' = TRUE
  /\ UNCHANGED <<run, overlapped, cleaning, exporter, listener, open,
                 accepting, wg, handlerVars, grpcVars>>

(* Mutation of TunnelClose: the listener is not closed. *)
TunnelCloseForgotten(k) ==
  /\ Goto(k, "tunnelClose", "tunnelWait")
  /\ UNCHANGED <<run, serverVars, overlapped>>

(* The listener that s.listener names is closed, if any. *)
TunnelClose(k) ==
  /\ Goto(k, "tunnelClose", "tunnelWait")
  /\ open' = open \ {listener}
  /\ UNCHANGED <<run, overlapped, cleaning, exporter, tunnelCancelled,
                 listener, accepting, wg, handlerVars, grpcVars>>

(* s.listener is an interface of two words.  Read while another thread     *)
(* assigns it for the first time it can come out with a type and without a *)
(* value: Close panics, and the caller recovers.                           *)
TunnelCloseTorn(k) ==
  /\ Goto(k, "tunnelClose", "idle")
  /\ listener = NoRun
  /\ \E j \in Thread : pc[j] = "assign"
  /\ UNCHANGED <<run, serverVars, overlapped>>

(* wg.Wait, for the accept loops and the handlers. *)
TunnelWait(k) ==
  /\ Goto(k, "tunnelWait", "metricsStop")
  /\ wg = 0
  /\ UNCHANGED <<run, serverVars, overlapped>>

(* Exporter.Stop under its mutex. *)
MetricsStop(k) ==
  /\ Goto(k, "metricsStop", "idle")
  /\ exporter' = FALSE
  /\ UNCHANGED <<run, overlapped, cleaning, tunnelVars, grpcVars>>

StartStep(k) ==
  \/ StartFails(k)
  \/ StartMetrics(k)
  \/ TunnelListen(k)
  \/ TunnelAssign(k)
  \/ TunnelSpawn(k)
  \/ StartGrpc(k)

StopStep(k) ==
  \/ StopCancel(k)
  \/ GracefulStop(k)
  \/ GracefulDrain(k)
  \/ TunnelCancel(k)
  \/ TunnelClose(k)
  \/ TunnelCloseTorn(k)
  \/ TunnelWait(k)
  \/ MetricsStop(k)

Background ==
  \/ \E r \in Run : Serve(r) \/ LoopAccepts(r) \/ LoopExits(r)
  \/ \E c \in Conn : NodeProceeds(c) \/ HandlerReturns(c) \/ HandlerLost(c)
  \/ WatcherReturns
  \/ \E c \in Rpc : CallBegins(c) \/ CallEnds(c)

-----------------------------------------------------------------------------
(* Nothing of the server runs or listens. *)
Silent ==
  /\ ~cleaning /\ ~exporter /\ ~watching
  /\ open = {} /\ bound = {} /\ serving = {} /\ calls = {}
  /\ \A r \in Run : accepting[r] = NoRun
  /\ \A c \in Conn : handler[c] = "none"

(* A handler that Stop waits for and that need not end: nothing but its    *)
(* node, which may stay silent, or nothing at all will wake it.            *)
Held == \E c \in Conn : handler[c] \in {"waiting", "lost"}

(* "in-flight requests will be allowed to complete": while a gRPC call is  *)
(* in flight nobody has cut the tunnel under it or the metrics, whatever   *)
(* Starts and Stops run.                                                   *)
CallsHaveTunnel == calls # {} => ~tunnelCancelled /\ exporter
=============================================================================
