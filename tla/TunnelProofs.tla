----------------------------- MODULE TunnelProofs -----------------------------
(***************************************************************************)
(* The safety properties of Tunnel for any number of nodes, connections,   *)
(* tokens and callers of Stop, and any authorisation policy.               *)
(***************************************************************************)
EXTENDS Tunnel, SessionRegistryProofs, FiniteSetTheorems

(* Where a handler has not started its read loop, and where it holds an    *)
(* authorised handshake or a registered session.                           *)
BeforeServing == {"none", "tls", "stream", "handshake", "admitted"}
Holding == {"serving", "closing", "drain", "deregister"}

(* A handler past the handshake carries an authorised claim, its session   *)
(* object is filed under the claimed node, and the read loop it started    *)
(* ends, leaving at most one value in readDone, before it deregisters.     *)
HandlerInv ==
  \A c \in Session :
    /\ pc[c] \in Holding \cup {"admitted"} =>
         hello[c] \in Claim /\ AuthorizeNode(hello[c].node, hello[c].token)
    /\ pc[c] \in Holding => owner[c] = hello[c].node
    /\ pc[c] \in BeforeServing => reader[c] = "none"
    /\ reader[c] = "reading" => pc[c] \in {"serving", "closing", "drain"}
    /\ c \in readDone => reader[c] = "exited"

(* The wait group counts a finite set of goroutines. *)
WaitGroupInv == IsFiniteSet(Busy) /\ WaitGroupCounts

IInv ==
  /\ RegistryInv
  /\ TunnelTypeOK
  /\ HandlerInv
  /\ RegisteredHasHandler
  /\ WaitGroupInv
  /\ StopLeavesOnlyWatcher

-----------------------------------------------------------------------------
(* The initial state satisfies the invariant. *)
LEMMA InitIInv == Init => IInv
<1> SUFFICES ASSUME Init PROVE IInv
  OBVIOUS
<1> USE DEF Init
<1>1. RegistryInv
  BY RegistryInitInv
<1>2. TunnelTypeOK
  BY DEF TunnelTypeOK, Acceptor, HandlerPC, ReaderPC, WatcherPC, StopperPC
<1>3. HandlerInv
  BY DEF HandlerInv, BeforeServing, Holding
<1>4. RegisteredHasHandler
  BY DEF RegisteredHasHandler, Registered, RegistryInit
<1>5. WaitGroupInv
  <2>1. Busy = {} /\ AcceptLoops = 0
    BY DEF Busy, Running, AcceptLoops
  <2> QED BY <2>1, FS_EmptySet DEF WaitGroupInv, WaitGroupCounts
<1>6. StopLeavesOnlyWatcher
  BY DEF StopLeavesOnlyWatcher
<1> QED BY <1>1, <1>2, <1>3, <1>4, <1>5, <1>6 DEF IInv

(* Each step preserves the registry's part of the invariant: the steps of  *)
(* the tunnel touch the registry only through its operations, or by        *)
(* closing a yamux session.                                                *)
LEMMA RegistryStep ==
  ASSUME IInv, [Next]_vars
  PROVE  RegistryInv'
<1> USE DEF IInv
<1>1. ASSUME UNCHANGED registryVars PROVE RegistryInv'
  BY <1>1, RegistryUnchanged
<1>2. ASSUME NEW c \in Session, Serve(c) PROVE RegistryInv'
  <2>1. hello[c].node \in Peer /\ RegisterSession(hello[c].node, c)
    BY <1>2 DEF Serve, Goto, HandlerInv, Claim
  <2> QED BY <2>1, RegisterSessionInv
<1>3. ASSUME NEW c \in Session, Deregister(c) PROVE RegistryInv'
  <2>1. hello[c].node \in Peer /\ RemoveIfCurrent(hello[c].node, c)
    BY <1>3 DEF Deregister, Goto, HandlerInv, Holding, Claim
  <2> QED BY <2>1, RemoveIfCurrentInv
<1>4. ASSUME NEW c \in Session, CloseConnection(c) \/ Exit(c) PROVE RegistryInv'
  BY <1>4, QuietInv DEF CloseConnection, Exit, RegistryInv, RegistryTypeOK
<1>5. ASSUME NEW c \in Session, HeartbeatFrame(c) \/ InvokeHeartbeat(c)
      PROVE  RegistryInv'
  BY <1>5, TouchHeartbeatInv DEF HeartbeatFrame, InvokeHeartbeat
<1>6. ASSUME NEW c \in Session, PeerGone(c) PROVE RegistryInv'
  BY <1>6, HangUpInv DEF PeerGone
<1>7. CASE Cleanup
  BY <1>7, CleanupInv
<1>8. CASE Tick
  BY <1>8, TickInv
<1> QED
  BY <1>1, <1>2, <1>3, <1>4, <1>5, <1>6, <1>7, <1>8
  DEF Next, vars, HandlerStep, Start, AcceptError, AcceptRetry, Accept,
      TlsHandshake, AcceptStream, ReceiveHandshake, SetupFails, Wake, Drain,
      ReadFails, WatchCerts, WatcherEnds, ServerStop, StopCancel, StopListener,
      StopWait, stopFrame

(* wg.Add and wg.Done follow the goroutines one by one. *)
LEMMA WaitGroupStep ==
  ASSUME IInv, [Next]_vars
  PROVE  WaitGroupInv'
<1> USE DEF IInv, WaitGroupInv, WaitGroupCounts, TunnelTypeOK
<1>1. Cardinality(Busy) \in Nat
  BY FS_CardinalityType
<1>2. ASSUME UNCHANGED <<wg, acceptor>>, Busy' = Busy PROVE WaitGroupInv'
  BY <1>2 DEF AcceptLoops
<1>3. CASE Start
  <2>1. Busy' = Busy /\ AcceptLoops = 0 /\ AcceptLoops' = 1 /\ wg' = wg + 1
    BY <1>3 DEF Start, Busy, Running, AcceptLoops
  <2> QED BY <2>1, <1>1
<1>4. CASE AcceptError
  <2>1. /\ Busy' = Busy /\ AcceptLoops = 1
        /\ \/ AcceptLoops' = 0 /\ wg' = wg - 1
           \/ AcceptLoops' = 1 /\ wg' = wg
    BY <1>4 DEF AcceptError, Busy, Running, AcceptLoops
  <2> QED BY <2>1, <1>1
<1>5. CASE AcceptRetry
  <2>1. Busy' = Busy /\ AcceptLoops' = AcceptLoops /\ wg' = wg
    BY <1>5 DEF AcceptRetry, Busy, Running, AcceptLoops
  <2> QED BY <2>1, <1>1
<1>6. ASSUME NEW c \in Session, Accept(c) PROVE WaitGroupInv'
  <2>1. /\ Busy' = Busy \cup {c} /\ c \notin Busy
        /\ AcceptLoops' = AcceptLoops /\ wg' = wg + 1
    BY <1>6 DEF Accept, Goto, Busy, Running, AcceptLoops
  <2>2. /\ IsFiniteSet(Busy \cup {c})
        /\ Cardinality(Busy \cup {c}) = Cardinality(Busy) + 1
    BY <2>1, FS_AddElement
  <2> QED BY <2>1, <2>2, <1>1 DEF AcceptLoops
<1>7. ASSUME NEW c \in Session, Exit(c) PROVE WaitGroupInv'
  <2>1. /\ Busy' = Busy \ {c} /\ c \in Busy
        /\ AcceptLoops' = AcceptLoops /\ wg' = wg - 1
    BY <1>7 DEF Exit, Goto, Busy, Running, AcceptLoops
  <2>2. /\ IsFiniteSet(Busy \ {c})
        /\ Cardinality(Busy \ {c}) = Cardinality(Busy) - 1
    BY <2>1, FS_RemoveElement
  <2> QED BY <2>1, <2>2, <1>1 DEF AcceptLoops
<1>8. ASSUME NEW c \in Session, HandlerStep(c), ~Exit(c) PROVE WaitGroupInv'
  <2>1. UNCHANGED <<wg, acceptor>>
    BY <1>8 DEF HandlerStep, TlsHandshake, AcceptStream, ReceiveHandshake,
       SetupFails, Serve, Wake, CloseConnection, Drain, Deregister, handlerFrame
  <2>2. Busy' = Busy
    <3>1. \E to \in HandlerPC \ {"none", "done"} :
            /\ pc[c] \notin {"none", "done"}
            /\ pc' = [pc EXCEPT ![c] = to]
      BY <1>8 DEF HandlerStep, TlsHandshake, AcceptStream, ReceiveHandshake,
         SetupFails, Serve, Wake, CloseConnection, Drain, Deregister, Goto,
         HandlerPC
    <3> QED BY <3>1 DEF Busy, Running
  <2> QED BY <2>1, <2>2, <1>2
<1>9. ASSUME UNCHANGED <<wg, acceptor, pc>> PROVE WaitGroupInv'
  BY <1>9, <1>2 DEF Busy, Running
<1> QED
  BY <1>3, <1>4, <1>5, <1>6, <1>7, <1>8, <1>9
  DEF Next, vars, tunnelVars, handlerFrame, HeartbeatFrame, InvokeHeartbeat,
      ReadFails, PeerGone, WatchCerts, WatcherEnds, ServerStop, StopCancel,
      StopListener, StopWait, stopFrame

(* Every variable of the tunnel keeps its type; wg stays a natural number  *)
(* because it counts something.                                            *)
LEMMA TypeStep ==
  ASSUME IInv, [Next]_vars
  PROVE  TunnelTypeOK'
<1>1. wg' \in Nat
  <2>1. AcceptLoops' \in {0, 1}
    BY DEF AcceptLoops
  <2>2. Cardinality(Busy)' \in Nat /\ wg' = Cardinality(Busy)' + AcceptLoops'
    BY WaitGroupStep, FS_CardinalityType DEF WaitGroupInv, WaitGroupCounts
  <2> QED BY <2>1, <2>2
<1> USE <1>1 DEF IInv, TunnelTypeOK, Acceptor, HandlerPC, ReaderPC, WatcherPC,
                 StopperPC
<1>2. CASE Start \/ AcceptError \/ AcceptRetry
  BY <1>2 DEF Start, AcceptError, AcceptRetry
<1>3. ASSUME NEW c \in Session,
             Accept(c) \/ TlsHandshake(c) \/ AcceptStream(c) \/ SetupFails(c)
      PROVE  TunnelTypeOK'
  BY <1>3 DEF Accept, TlsHandshake, AcceptStream, SetupFails, Goto, handlerFrame
<1>4. ASSUME NEW c \in Session, ReceiveHandshake(c) PROVE TunnelTypeOK'
  BY <1>4 DEF ReceiveHandshake, Goto, handlerFrame
<1>5. ASSUME NEW c \in Session, Serve(c) PROVE TunnelTypeOK'
  BY <1>5 DEF Serve, Goto, handlerFrame
<1>6. ASSUME NEW c \in Session, Wake(c) \/ CloseConnection(c) \/ Drain(c)
      PROVE  TunnelTypeOK'
  BY <1>6 DEF Wake, CloseConnection, Drain, Goto, handlerFrame
<1>7. ASSUME NEW c \in Session, Deregister(c) \/ Exit(c) PROVE TunnelTypeOK'
  BY <1>7 DEF Deregister, Exit, Goto, handlerFrame, NoClaim
<1>8. ASSUME NEW c \in Session, ReadFails(c) PROVE TunnelTypeOK'
  BY <1>8 DEF ReadFails, handlerFrame
<1>9. ASSUME NEW k \in Stopper,
             ServerStop(k) \/ StopCancel(k) \/ StopListener(k) \/ StopWait(k)
      PROVE  TunnelTypeOK'
  BY <1>9 DEF ServerStop, StopCancel, StopListener, StopWait, StopGoto, stopFrame
<1>10. CASE WatchCerts \/ WatcherEnds
  BY <1>10 DEF WatchCerts, WatcherEnds
<1>11. ASSUME UNCHANGED tunnelVars PROVE TunnelTypeOK'
  BY <1>11 DEF tunnelVars
<1> QED
  BY <1>2, <1>3, <1>4, <1>5, <1>6, <1>7, <1>8, <1>9, <1>10, <1>11
  DEF Next, HandlerStep, vars, HeartbeatFrame, InvokeHeartbeat, PeerGone

(* A handler keeps its authorised claim until it exits, files its session  *)
(* under the claimed node, and outlives its read loop.                     *)
LEMMA HandlerInvStep ==
  ASSUME IInv, [Next]_vars
  PROVE  HandlerInv'
<1> USE DEF IInv, TunnelTypeOK, HandlerInv, BeforeServing, Holding
<1>1. ASSUME UNCHANGED <<pc, hello, owner, reader, readDone>> PROVE HandlerInv'
  BY <1>1
<1>2. ASSUME NEW c \in Session,
             Accept(c) \/ TlsHandshake(c) \/ AcceptStream(c) \/ SetupFails(c)
      PROVE  HandlerInv'
  BY <1>2 DEF Accept, TlsHandshake, AcceptStream, SetupFails, Goto, registryVars
<1>3. ASSUME NEW c \in Session, ReceiveHandshake(c) PROVE HandlerInv'
  BY <1>3 DEF ReceiveHandshake, Goto, registryVars
<1>4. ASSUME NEW c \in Session, Serve(c) PROVE HandlerInv'
  <2>1. /\ pc[c] = "admitted" /\ pc' = [pc EXCEPT ![c] = "serving"]
        /\ owner' = [owner EXCEPT ![c] = hello[c].node]
        /\ reader' = [reader EXCEPT ![c] = "reading"]
        /\ hello' = hello /\ readDone' = readDone
    BY <1>4 DEF Serve, Goto, RegisterSession, Install
  <2> QED BY <2>1 DEF RegistryInv, RegistryTypeOK
<1>5. ASSUME NEW c \in Session, Wake(c) PROVE HandlerInv'
  BY <1>5 DEF Wake, Goto, registryVars
<1>6. ASSUME NEW c \in Session, CloseConnection(c) PROVE HandlerInv'
  BY <1>6 DEF CloseConnection, Goto
<1>7. ASSUME NEW c \in Session, Drain(c) PROVE HandlerInv'
  BY <1>7 DEF Drain, Goto, registryVars
<1>8. ASSUME NEW c \in Session, Deregister(c) PROVE HandlerInv'
  <2>1. UNCHANGED <<owner, hello, reader, readDone>>
    BY <1>8 DEF Deregister, RemoveIfCurrent, Drop, registryVars
  <2> QED BY <1>8, <2>1 DEF Deregister, Goto
<1>9. ASSUME NEW c \in Session, Exit(c) PROVE HandlerInv'
  BY <1>9 DEF Exit, Goto
<1>10. ASSUME NEW c \in Session, ReadFails(c) PROVE HandlerInv'
  BY <1>10 DEF ReadFails, registryVars
<1> QED
  BY <1>1, <1>2, <1>3, <1>4, <1>5, <1>6, <1>7, <1>8, <1>9, <1>10
  DEF Next, HandlerStep, vars, registryVars, tunnelVars, Start, AcceptError,
      AcceptRetry, HeartbeatFrame, InvokeHeartbeat, TouchHeartbeat, PeerGone,
      HangUp, WatchCerts, WatcherEnds, ServerStop, StopCancel, StopListener,
      StopWait, stopFrame, Cleanup, Drop, Tick

(* Sessions enter the registry as their handler starts to serve, and are   *)
(* out of it when the handler has deregistered.                            *)
LEMMA RegisteredHasHandlerStep ==
  ASSUME IInv, [Next]_vars
  PROVE  RegisteredHasHandler'
<1> USE DEF IInv, TunnelTypeOK, RegisteredHasHandler
<1>1. ASSUME Registered' \subseteq Registered, UNCHANGED pc
      PROVE  RegisteredHasHandler'
  BY <1>1
<1>2. ASSUME NEW c \in Session, HandlerStep(c), ~Serve(c), ~Deregister(c)
      PROVE  RegisteredHasHandler'
  <2>1. sessions' = sessions
    BY <1>2 DEF HandlerStep, TlsHandshake, AcceptStream, ReceiveHandshake,
       SetupFails, Wake, CloseConnection, Drain, Exit, registryVars
  <2>2. Registered' = Registered
    BY <2>1 DEF Registered
  <2>3. c \in Registered => pc'[c] \in Holding
    BY <1>2 DEF HandlerStep, TlsHandshake, AcceptStream, ReceiveHandshake,
       SetupFails, Wake, CloseConnection, Drain, Exit, Goto, Holding
  <2>4. \A d \in Session \ {c} : pc'[d] = pc[d]
    BY <1>2 DEF HandlerStep, TlsHandshake, AcceptStream, ReceiveHandshake,
       SetupFails, Wake, CloseConnection, Drain, Exit, Goto
  <2>5. Registered \subseteq Session
    BY DEF RegistryInv, RegistryTypeOK, Registered
  <2> QED BY <2>2, <2>3, <2>4, <2>5 DEF Holding
<1>3. ASSUME NEW c \in Session, Serve(c) PROVE RegisteredHasHandler'
  <2>1. /\ sessions' = [sessions EXCEPT ![hello[c].node] = c]
        /\ pc' = [pc EXCEPT ![c] = "serving"]
    BY <1>3 DEF Serve, Goto, RegisterSession, Install
  <2>2. Registered' \subseteq Registered \cup {c}
    BY <2>1 DEF Registered, RegistryInv, RegistryTypeOK
  <2>3. Registered \subseteq Session
    BY DEF RegistryInv, RegistryTypeOK, Registered
  <2> QED BY <2>1, <2>2, <2>3
<1>4. ASSUME NEW c \in Session, Deregister(c) PROVE RegisteredHasHandler'
  <2>1. /\ pc[c] = "deregister" /\ pc' = [pc EXCEPT ![c] = "exit"]
        /\ RemoveIfCurrent(hello[c].node, c)
    BY <1>4 DEF Deregister, Goto
  <2>2. hello[c].node \in Peer /\ owner[c] = hello[c].node
    BY <2>1 DEF HandlerInv, Holding, Claim
  <2>3. \A p \in Peer : sessions[p] = c => p = hello[c].node
    BY <2>2, RegistryConstants
    DEF RegistryConstants, RegistryInv, RegisteredIsOpen
  <2>4. Registered' \subseteq Registered \ {c}
    <3>1. CASE sessions[hello[c].node] = c
      BY <3>1, <2>1 DEF RemoveIfCurrent, Drop, Registered
    <3>2. CASE sessions[hello[c].node] # c
      <4>1. c \notin Registered /\ sessions' = sessions
        BY <3>2, <2>1, <2>3 DEF RemoveIfCurrent, registryVars, Registered
      <4> QED BY <4>1 DEF Registered
    <3> QED BY <3>1, <3>2
  <2>5. Registered \subseteq Session
    BY DEF RegistryInv, RegistryTypeOK, Registered
  <2> QED BY <2>1, <2>4, <2>5
<1>5. ASSUME NEW c \in Session, Accept(c) PROVE RegisteredHasHandler'
  <2>1. /\ sessions' = sessions /\ pc[c] = "none"
        /\ pc' = [pc EXCEPT ![c] = "tls"]
    BY <1>5 DEF Accept, Goto, registryVars
  <2>2. Registered' = Registered /\ Registered \subseteq Session
    BY <2>1 DEF Registered, RegistryInv, RegistryTypeOK
  <2> QED BY <2>1, <2>2
<1>6. ASSUME Cleanup, UNCHANGED tunnelVars PROVE RegisteredHasHandler'
  BY <1>6, <1>1 DEF Cleanup, Drop, Registered, tunnelVars
<1>7. ASSUME UNCHANGED <<sessions, pc>> PROVE RegisteredHasHandler'
  BY <1>7, <1>1 DEF Registered
<1> QED
  BY <1>2, <1>3, <1>4, <1>5, <1>6, <1>7
  DEF Next, vars, registryVars, tunnelVars, Start, AcceptError, AcceptRetry,
      HeartbeatFrame, InvokeHeartbeat, TouchHeartbeat, ReadFails, PeerGone,
      HangUp, WatchCerts, WatcherEnds, ServerStop, StopCancel, StopListener,
      StopWait, stopFrame, Tick

(* A wait group at zero leaves nothing behind, and nothing starts again    *)
(* once a Stop has returned.                                               *)
LEMMA StopLeavesOnlyWatcherStep ==
  ASSUME IInv, [Next]_vars
  PROVE  StopLeavesOnlyWatcher'
<1> DEFINE Nothing == /\ acceptor \in {"off", "exited"}
                      /\ \A c \in Session : ~Running(c) /\ reader[c] # "reading"
                      /\ Registered = {}
<1>1. CASE \E k \in Stopper : stopper[k] = "returned"
  <2>1. Nothing
    BY <1>1 DEF IInv, StopLeavesOnlyWatcher
  <2>2. UNCHANGED <<acceptor, pc, reader, sessions>>
    <3>1. ~Start
      BY <1>1 DEF Start
    <3>2. ~AcceptError /\ ~AcceptRetry /\ \A c \in Session : ~Accept(c)
      BY <2>1 DEF AcceptError, AcceptRetry, Accept
    <3>3. \A c \in Session : ~HandlerStep(c) /\ ~HeartbeatFrame(c) /\ ~ReadFails(c)
      BY <2>1 DEF HandlerStep, TlsHandshake, AcceptStream, ReceiveHandshake,
         SetupFails, Serve, Wake, CloseConnection, Drain, Deregister, Exit, Goto,
         Running, HeartbeatFrame, ReadFails
    <3>4. ~Cleanup
      BY <2>1 DEF Cleanup, Stale
    <3> QED
      BY <3>1, <3>2, <3>3, <3>4
      DEF Next, vars, registryVars, tunnelVars, PeerGone, HangUp, InvokeHeartbeat,
          TouchHeartbeat, WatchCerts, WatcherEnds, ServerStop, StopCancel,
          StopListener, StopWait, stopFrame, Tick
  <2>3. Nothing'
    BY <2>1, <2>2 DEF Running, Registered
  <2> QED BY <2>3 DEF StopLeavesOnlyWatcher
<1>2. CASE ~ \E k \in Stopper : stopper[k] = "returned"
  <2>1. SUFFICES ASSUME NEW k \in Stopper, stopper'[k] = "returned"
                 PROVE  Nothing'
    BY DEF StopLeavesOnlyWatcher
  <2>2. wg = 0 /\ UNCHANGED <<acceptor, pc, reader, sessions>>
    BY <1>2, <2>1
    DEF IInv, TunnelTypeOK, Next, vars, tunnelVars, registryVars, handlerFrame,
        Start, AcceptError, AcceptRetry, Accept, HandlerStep, TlsHandshake,
        AcceptStream, ReceiveHandshake, SetupFails, Serve, Wake, CloseConnection,
        Drain, Deregister, Exit, HeartbeatFrame, InvokeHeartbeat, ReadFails,
        PeerGone, WatchCerts, WatcherEnds, ServerStop, StopCancel, StopListener,
        StopWait, StopGoto, stopFrame
  <2>3. Busy = {} /\ AcceptLoops = 0
    <3>1. /\ IsFiniteSet(Busy) /\ Cardinality(Busy) \in Nat
          /\ wg = Cardinality(Busy) + AcceptLoops
      BY FS_CardinalityType DEF IInv, WaitGroupInv, WaitGroupCounts
    <3>2. AcceptLoops \in {0, 1}
      BY DEF AcceptLoops
    <3>3. Cardinality(Busy) = 0 /\ AcceptLoops = 0
      BY <2>2, <3>1, <3>2
    <3> QED BY <3>1, <3>3, FS_EmptySet
  <2>4. \A c \in Session : ~Running(c)
    BY <2>3 DEF Busy
  <2>5. Nothing
    <3>1. acceptor \in {"off", "exited"}
      BY <2>3 DEF AcceptLoops, IInv, TunnelTypeOK, Acceptor
    <3>2. \A c \in Session : reader[c] # "reading"
      BY <2>4 DEF IInv, HandlerInv, Running
    <3>3. Registered = {}
      <4>1. Registered \subseteq Session
        BY DEF Registered, IInv, RegistryInv, RegistryTypeOK
      <4> QED BY <2>4, <4>1 DEF IInv, RegisteredHasHandler, Running
    <3> QED BY <2>4, <3>1, <3>2, <3>3
  <2> QED BY <2>5, <2>2 DEF Running, Registered
<1> QED BY <1>1, <1>2

(* The invariant is inductive. *)
LEMMA NextIInv == IInv /\ [Next]_vars => IInv'
BY RegistryStep, TypeStep, HandlerInvStep, RegisteredHasHandlerStep,
   WaitGroupStep, StopLeavesOnlyWatcherStep DEF IInv

LEMMA Invariance == Spec => []IInv
BY InitIInv, NextIInv, PTL DEF Spec

-----------------------------------------------------------------------------
(***************************************************************************)
(* The theorems.                                                           *)
(***************************************************************************)

(* Every variable of the server and of its registry keeps its type.        *)
THEOREM TypeCorrect == Spec => []TypeOK
<1>1. IInv => TypeOK
  BY DEF IInv, RegistryInv, TypeOK
<1> QED BY <1>1, Invariance, PTL

(* However connections, replacements, pruning and shutdown interleave, no  *)
(* control channel is closed twice: the server does not panic in Close.    *)
THEOREM ServerNeverPanics == Spec => []NoPanic
<1>1. IInv => NoPanic
  BY DEF IInv, RegistryInv
<1> QED BY <1>1, Invariance, PTL

(* Get and List only ever see open sessions, filed under their own node.   *)
THEOREM OnlyOpenSessionsRegistered == Spec => []RegisteredIsOpen
<1>1. IInv => RegisteredIsOpen
  BY DEF IInv, RegistryInv
<1> QED BY <1>1, Invariance, PTL

(* A session that left the map has had its channel and transport closed.   *)
THEOREM SessionsNeverLeak == Spec => []NoSessionLeaked
<1>1. IInv => NoSessionLeaked
  BY DEF IInv, RegistryInv
<1> QED BY <1>1, Invariance, PTL

(* No entry of the map outlives the handler that would remove it.          *)
THEOREM NoOrphanEntry == Spec => []RegisteredHasHandler
<1>1. IInv => RegisteredHasHandler
  BY DEF IInv
<1> QED BY <1>1, Invariance, PTL

(* The wait group is exact, so Stop cannot return early.                   *)
THEOREM WaitGroupExact == Spec => []WaitGroupCounts
<1>1. IInv => WaitGroupCounts
  BY DEF IInv, WaitGroupInv
<1> QED BY <1>1, Invariance, PTL

(* When Stop returns, the accept loop, every handler and every read loop   *)
(* have ended and the registry is empty; the certificate watcher is the    *)
(* one goroutine of the tunnel that may be left.                           *)
THEOREM StopIsClean == Spec => []StopLeavesOnlyWatcher
<1>1. IInv => StopLeavesOnlyWatcher
  BY DEF IInv
<1> QED BY <1>1, Invariance, PTL

(* Under node-bound tokens a node ID resolves only to a connection that    *)
(* presented that node's token.                                            *)
THEOREM IdentityIsBound == Spec => []RegisteredIsAuthorised
<1>1. IInv => RegisteredIsAuthorised
  <2> SUFFICES ASSUME IInv, IdentityBound,
                      NEW p \in Peer, sessions[p] # NoSession
               PROVE  hello[sessions[p]] = [node |-> p, token |-> NodeTokens[p]]
    BY DEF RegisteredIsAuthorised
  <2> DEFINE c == sessions[p]
  <2>1. c \in Session /\ owner[c] = p /\ c \in Registered
    BY DEF IInv, RegistryInv, RegistryTypeOK, RegisteredIsOpen, Registered
  <2>2. pc[c] \in Holding
    BY <2>1 DEF IInv, RegisteredHasHandler, Holding
  <2>3. /\ hello[c] \in Claim /\ hello[c].node = p
        /\ AuthorizeNode(hello[c].node, hello[c].token)
    BY <2>1, <2>2 DEF IInv, HandlerInv
  <2>4. hello[c].token = NodeTokens[p]
    BY <2>3 DEF IdentityBound, AuthorizeNode
  <2> QED BY <2>3, <2>4 DEF Claim
<1> QED BY <1>1, Invariance, PTL

(* A session is evicted by its own handler, by an authorised successor or  *)
(* by staleness, never by the exit of an older connection's handler.       *)
THEOREM EvictionsHaveCause == Spec => EvictionHasCause
<1> DEFINE Cause(p) ==
      sessions[p] # NoSession /\ sessions'[p] # sessions[p] =>
        \/ pc[sessions[p]] = "deregister" /\ pc'[sessions[p]] = "exit"
        \/ sessions'[p] # NoSession /\ pc'[sessions'[p]] = "serving"
             /\ pc[sessions'[p]] = "admitted"
        \/ sessions[p] \in Stale
<1>1. IInv /\ [Next]_vars => [\A p \in Peer : Cause(p)]_vars
  <2> SUFFICES ASSUME IInv, Next, NEW p \in Peer,
                      sessions[p] # NoSession, sessions'[p] # sessions[p]
               PROVE  Cause(p)
    OBVIOUS
  <2> USE DEF IInv, RegistryInv, RegistryTypeOK, TunnelTypeOK
  <2>1. ASSUME NEW c \in Session, Serve(c) PROVE Cause(p)
    <3>1. /\ sessions' = [sessions EXCEPT ![hello[c].node] = c]
          /\ pc[c] = "admitted" /\ pc' = [pc EXCEPT ![c] = "serving"]
      BY <2>1 DEF Serve, Goto, RegisterSession, Install
    <3>2. sessions'[p] = c
      BY <3>1
    <3> QED BY <3>1, <3>2, RegistryConstants DEF RegistryConstants
  <2>2. ASSUME NEW c \in Session, Deregister(c) PROVE Cause(p)
    <3>1. sessions[p] = c
      BY <2>2 DEF Deregister, RemoveIfCurrent, Drop, registryVars
    <3> QED BY <2>2, <3>1 DEF Deregister, Goto
  <2>3. CASE Cleanup
    BY <2>3 DEF Cleanup, Drop
  <2>4. ASSUME sessions' = sessions PROVE Cause(p)
    BY <2>4
  <2> QED
    BY <2>1, <2>2, <2>3, <2>4
    DEF Next, HandlerStep, registryVars, Start, AcceptError, AcceptRetry, Accept,
        TlsHandshake, AcceptStream, ReceiveHandshake, SetupFails, Wake,
        CloseConnection, Drain, Exit, HeartbeatFrame, InvokeHeartbeat,
        TouchHeartbeat, ReadFails, PeerGone, HangUp, WatchCerts, WatcherEnds,
        ServerStop, StopCancel, StopListener, StopWait, stopFrame, Tick
<1> QED BY <1>1, Invariance, PTL DEF Spec, EvictionHasCause

(* The registry inside the running server implements the abstract          *)
(* directory.                                                              *)
THEOREM TunnelImplementsDirectory == Spec => ImplementsDirectory
<1>1. Init => Directory!Init
  BY RegistryInitRefines DEF Init
<1>2. IInv /\ [Next]_vars => directoryStep
  <2> SUFFICES ASSUME IInv, [Next]_vars PROVE directoryStep
    OBVIOUS
  <2> USE DEF IInv
  <2>1. ASSUME NEW c \in Session, Serve(c) PROVE directoryStep
    <3>1. hello[c].node \in Peer /\ RegisterSession(hello[c].node, c)
      BY <2>1 DEF Serve, Goto, HandlerInv, Claim
    <3> QED BY <3>1, RegisterSessionRefines
  <2>2. ASSUME NEW c \in Session, Deregister(c) PROVE directoryStep
    <3>1. hello[c].node \in Peer /\ RemoveIfCurrent(hello[c].node, c)
      BY <2>2 DEF Deregister, Goto, HandlerInv, Holding, Claim
    <3> QED BY <3>1, RemoveIfCurrentRefines
  <2>3. CASE Cleanup
    BY <2>3, CleanupRefines
  <2>4. ASSUME UNCHANGED <<sessions, closed>> PROVE directoryStep
    BY <2>4 DEF directoryStep
  <2> QED
    BY <2>1, <2>2, <2>3, <2>4
    DEF Next, HandlerStep, vars, registryVars, Start, AcceptError, AcceptRetry,
        Accept, TlsHandshake, AcceptStream, ReceiveHandshake, SetupFails, Wake,
        CloseConnection, Drain, Exit, HeartbeatFrame, InvokeHeartbeat,
        TouchHeartbeat, ReadFails, PeerGone, HangUp, WatchCerts, WatcherEnds,
        ServerStop, StopCancel, StopListener, StopWait, stopFrame, Tick
<1> QED
  BY <1>1, <1>2, Invariance, PTL
  DEF Spec, ImplementsDirectory, Directory!Spec, directoryStep
=============================================================================
