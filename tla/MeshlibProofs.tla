---------------------------- MODULE MeshlibProofs ----------------------------
(***************************************************************************)
(* The safety properties of Meshlib for any number of threads, Starts and  *)
(* strings.                                                                *)
(***************************************************************************)
EXTENDS Meshlib, TLAPS

-----------------------------------------------------------------------------
(***************************************************************************)
(* The life cycle.  Once GracefulStop has drained the server no call can   *)
(* begin any more, and only then are the tunnel and the exporter stopped.  *)
(***************************************************************************)

Drained == grpcStopped /\ calls = {}

(* A server without exporter has been drained, or nothing of it that the   *)
(* exporter precedes has been started.                                     *)
Unstarted ==
  /\ calls = {} /\ serving = {} /\ bound = {}
  /\ \A k \in Thread : pc[k] \notin {"listen", "assign", "spawn", "grpc"}

AfterDrain == {"tunnelCancel", "tunnelClose", "tunnelWait", "metricsStop"}

LifecycleInv ==
  /\ DOMAIN pc = Thread
  /\ \A k \in Thread : pc[k] = "drain" => grpcStopped
  /\ \A k \in Thread : pc[k] \in AfterDrain => Drained
  /\ grpcStopped => serving = {}
  /\ tunnelCancelled => Drained
  /\ ~exporter => Drained \/ Unstarted

USE DEF LifecycleInv, Drained, Unstarted, AfterDrain, Goto

LEMMA LifecycleInitInv == LifecycleInit => LifecycleInv
BY DEF LifecycleInit

LEMMA EntersInv ==
  ASSUME LifecycleInv, NEW k \in Thread, CallStart(k) \/ CallStop(k)
  PROVE  LifecycleInv'
BY DEF CallStart, CallStop, Enters, serverVars, tunnelVars, grpcVars

LEMMA StartInv ==
  ASSUME LifecycleInv, NEW k \in Thread, StartStep(k)
  PROVE  LifecycleInv'
<1> USE DEF serverVars, tunnelVars, grpcVars
<1>1. CASE StartFails(k)
  BY <1>1 DEF StartFails
<1>2. CASE StartMetrics(k)
  BY <1>2 DEF StartMetrics
<1>3. CASE TunnelListen(k)
  BY <1>3 DEF TunnelListen
<1>4. CASE TunnelAssign(k)
  BY <1>4 DEF TunnelAssign
<1>5. CASE TunnelSpawn(k)
  BY <1>5 DEF TunnelSpawn
<1>6. CASE StartGrpc(k)
  BY <1>6 DEF StartGrpc
<1> QED BY <1>1, <1>2, <1>3, <1>4, <1>5, <1>6 DEF StartStep

LEMMA StopInv ==
  ASSUME LifecycleInv, NEW k \in Thread, StopStep(k)
  PROVE  LifecycleInv'
<1> USE DEF serverVars, tunnelVars, grpcVars
<1>1. CASE StopCancel(k)
  BY <1>1 DEF StopCancel
<1>2. CASE GracefulStop(k)
  BY <1>2 DEF GracefulStop
<1>3. CASE GracefulDrain(k)
  BY <1>3 DEF GracefulDrain
<1>4. CASE TunnelCancel(k)
  BY <1>4 DEF TunnelCancel
<1>5. CASE TunnelClose(k)
  BY <1>5 DEF TunnelClose
<1>6. CASE TunnelCloseTorn(k)
  BY <1>6 DEF TunnelCloseTorn
<1>7. CASE TunnelWait(k)
  BY <1>7 DEF TunnelWait
<1>8. CASE MetricsStop(k)
  BY <1>8 DEF MetricsStop
<1> QED BY <1>1, <1>2, <1>3, <1>4, <1>5, <1>6, <1>7, <1>8 DEF StopStep

LEMMA BackgroundInv ==
  ASSUME LifecycleInv, Background
  PROVE  LifecycleInv'
<1> USE DEF serverVars, tunnelVars, grpcVars
<1>1. CASE \E r \in Run : Serve(r)
  BY <1>1 DEF Serve
<1>2. CASE \E r \in Run : LoopAccepts(r) \/ LoopExits(r)
  BY <1>2 DEF LoopAccepts, LoopExits
<1>3. CASE \E c \in Rpc : CallBegins(c)
  BY <1>3 DEF CallBegins
<1>4. CASE \E c \in Rpc : CallEnds(c)
  BY <1>4 DEF CallEnds
<1>5. CASE \E c \in Conn : NodeProceeds(c) \/ HandlerReturns(c) \/ HandlerLost(c)
  BY <1>5 DEF NodeProceeds, HandlerReturns, HandlerLost, handlerFrame
<1>6. CASE WatcherReturns
  BY <1>6 DEF WatcherReturns
<1> QED BY <1>1, <1>2, <1>3, <1>4, <1>5, <1>6 DEF Background

LEMMA LifecycleFrame ==
  ASSUME LifecycleInv, UNCHANGED lifecycleVars
  PROVE  LifecycleInv'
BY DEF lifecycleVars, serverVars, tunnelVars, grpcVars

-----------------------------------------------------------------------------
(***************************************************************************)
(* The strings.  A block has one owner: an id of the table, the thread     *)
(* that is about to enter it, or the thread that is about to free it.      *)
(***************************************************************************)

(* What is in a thread's hands is allocated, and in no other's. *)
HandsInv ==
  \A k, j \in Thread :
    /\ fresh[k] # NoBlock => /\ fresh[k] \in heap
                             /\ fresh[k] # doomed[j]
                             /\ fresh[k] = fresh[j] => k = j
    /\ doomed[k] # NoBlock => /\ doomed[k] \in heap
                              /\ doomed[k] = doomed[j] => k = j

(* Ids not issued yet have no entry. *)
UnissuedInv == \A i \in StringID : i > nextStrID => liveStrs[i] = NoBlock

StringInv ==
  /\ StringTypeOK
  /\ LiveStringsAreSafe
  /\ NothingFreedTwice
  /\ NoBlockLost
  /\ HandsInv
  /\ UnissuedInv

LEMMA StringInitInv == StringInit => StringInv
<1> SUFFICES ASSUME StringInit PROVE StringInv
  OBVIOUS
<1> USE StringConstants DEF StringInit
<1>1. StringTypeOK
  <2>1. doubleFreed \in BOOLEAN
    BY Zenon
  <2> QED BY <2>1 DEF StringTypeOK, StringID
<1>2. LiveStringsAreSafe /\ UnissuedInv
  BY DEF LiveStringsAreSafe, UnissuedInv
<1>3. NothingFreedTwice /\ NoBlockLost /\ HandsInv
  BY DEF NothingFreedTwice, NoBlockLost, HandsInv
<1> QED BY <1>1, <1>2, <1>3 DEF StringInv

LEMMA CStringInv ==
  ASSUME StringInv, NEW k \in Thread, EmptyHanded(k), CString(k)
  PROVE  StringInv'
<1> USE StringConstants DEF StringInv, CString, EmptyHanded, StringTypeOK
<1>1. PICK b \in Block \ heap : heap' = heap \cup {b} /\ fresh' = [fresh EXCEPT ![k] = b]
  OBVIOUS
<1>2. StringTypeOK'
  BY <1>1
<1>3. LiveStringsAreSafe'
  BY <1>1 DEF LiveStringsAreSafe
<1>4. NoBlockLost'
  BY <1>1 DEF NoBlockLost
<1>5. HandsInv'
  BY <1>1 DEF HandsInv
<1>6. UnissuedInv' /\ NothingFreedTwice'
  BY DEF UnissuedInv, NothingFreedTwice
<1> QED BY <1>2, <1>3, <1>4, <1>5, <1>6

LEMMA EnterInv ==
  ASSUME StringInv, NEW k \in Thread, Enter(k)
  PROVE  StringInv'
<1> USE StringConstants DEF StringInv, Enter, StringTypeOK
<1>1. nextStrID + 1 \in StringID /\ liveStrs[nextStrID + 1] = NoBlock
  BY DEF UnissuedInv, StringID
<1>2. StringTypeOK'
  BY <1>1 DEF StringID
<1>3. LiveStringsAreSafe'
  BY <1>1 DEF LiveStringsAreSafe, HandsInv
<1>4. NoBlockLost'
  BY <1>1 DEF NoBlockLost
<1>5. HandsInv'
  BY DEF HandsInv
<1>6. UnissuedInv' /\ NothingFreedTwice'
  BY <1>1 DEF UnissuedInv, NothingFreedTwice, StringID
<1> QED BY <1>2, <1>3, <1>4, <1>5, <1>6

LEMMA ReleaseInv ==
  ASSUME StringInv, NEW k \in Thread, EmptyHanded(k), NEW i \in StringID, Release(k, i)
  PROVE  StringInv'
<1> USE StringConstants DEF StringInv, Release, EmptyHanded, StringTypeOK
<1>1. StringTypeOK'
  OBVIOUS
<1>2. LiveStringsAreSafe'
  BY DEF LiveStringsAreSafe
<1>3. NoBlockLost'
  BY DEF NoBlockLost
<1>4. HandsInv'
  BY DEF HandsInv, LiveStringsAreSafe
<1>5. UnissuedInv' /\ NothingFreedTwice'
  BY DEF UnissuedInv, NothingFreedTwice
<1> QED BY <1>1, <1>2, <1>3, <1>4, <1>5

LEMMA FreeInv ==
  ASSUME StringInv, NEW k \in Thread, Free(k)
  PROVE  StringInv'
<1> USE StringConstants DEF StringInv, Free, StringTypeOK
<1>1. StringTypeOK'
  OBVIOUS
<1>2. LiveStringsAreSafe'
  BY DEF LiveStringsAreSafe
<1>3. NoBlockLost'
  BY DEF NoBlockLost
<1>4. HandsInv'
  BY DEF HandsInv
<1>5. UnissuedInv' /\ NothingFreedTwice'
  BY DEF UnissuedInv, NothingFreedTwice, HandsInv
<1> QED BY <1>1, <1>2, <1>3, <1>4, <1>5

LEMMA StringFrame ==
  ASSUME StringInv, UNCHANGED stringVars
  PROVE  StringInv'
BY DEF StringInv, stringVars, StringTypeOK, LiveStringsAreSafe, NothingFreedTwice,
       NoBlockLost, HandsInv, UnissuedInv

-----------------------------------------------------------------------------
(***************************************************************************)
(* The library.                                                            *)
(***************************************************************************)

(* A thread that is to bring a result has nothing else in its hands. *)
IInv ==
  /\ LifecycleInv
  /\ StringInv
  /\ \A k \in invoking : k \in Thread /\ EmptyHanded(k)

LEMMA InitIInv == Init => IInv
BY LifecycleInitInv, StringInitInv DEF Init, IInv

LEMMA NextIInv == IInv /\ [Next]_vars => IInv'
<1> SUFFICES ASSUME IInv, [Next]_vars PROVE IInv'
  OBVIOUS
<1> USE DEF IInv
<1>1. CASE mesh_server_new
  <2>1. LifecycleInv'
    BY <1>1 DEF mesh_server_new, NewServer, tunnelVars, grpcVars
  <2>2. StringInv' /\ UNCHANGED <<fresh, doomed, invoking>>
    BY <1>1, StringFrame DEF mesh_server_new, stringVars
  <2> QED BY <2>1, <2>2 DEF EmptyHanded
<1>2. ASSUME NEW k \in Thread,
             mesh_server_start(k) \/ mesh_server_stop(k) \/ mesh_server_free(k)
      PROVE  IInv'
  <2>1. LifecycleInv'
    BY <1>2, EntersInv DEF mesh_server_start, mesh_server_stop, mesh_server_free
  <2>2. UNCHANGED <<stringVars, invoking>>
    BY <1>2 DEF mesh_server_start, mesh_server_stop, mesh_server_free
  <2>3. StringInv' /\ UNCHANGED <<fresh, doomed>>
    BY <2>2, StringFrame DEF stringVars
  <2> QED BY <2>1, <2>2, <2>3 DEF EmptyHanded
<1>3. ASSUME NEW k \in Thread, ServerStep(k) PROVE IInv'
  <2>1. LifecycleInv'
    BY <1>3, StartInv, StopInv DEF ServerStep
  <2>2. UNCHANGED <<stringVars, invoking>>
    BY <1>3 DEF ServerStep
  <2>3. StringInv' /\ UNCHANGED <<fresh, doomed>>
    BY <2>2, StringFrame DEF stringVars
  <2> QED BY <2>1, <2>2, <2>3 DEF EmptyHanded
<1>4. ASSUME NEW k \in Thread, mesh_invoke(k) \/ InvokeFails(k) PROVE IInv'
  <2>1. UNCHANGED <<lifecycleVars, stringVars>>
    BY <1>4 DEF mesh_invoke, InvokeFails
  <2>2. LifecycleInv' /\ StringInv' /\ UNCHANGED <<fresh, doomed>>
    BY <2>1, LifecycleFrame, StringFrame DEF stringVars
  <2> QED BY <1>4, <2>2 DEF mesh_invoke, InvokeFails, Idle, EmptyHanded
<1>5. ASSUME NEW k \in Thread, InvokeReturns(k) PROVE IInv'
  <2>1. LifecycleInv' /\ StringInv'
    BY <1>5, LifecycleFrame, CStringInv DEF InvokeReturns
  <2>2. /\ invoking' = invoking \ {k}
        /\ doomed' = doomed
        /\ \A j \in Thread : j # k => fresh'[j] = fresh[j]
    BY <1>5 DEF InvokeReturns, CString, StringInv, StringTypeOK
  <2> QED BY <2>1, <2>2 DEF EmptyHanded
<1>6. ASSUME NEW k \in Thread, registerCString(k) PROVE IInv'
  <2>1. LifecycleInv' /\ StringInv'
    BY <1>6, LifecycleFrame, EnterInv DEF registerCString
  <2>2. /\ invoking' = invoking
        /\ doomed' = doomed
        /\ fresh' = [fresh EXCEPT ![k] = NoBlock]
    BY <1>6 DEF registerCString, Enter
  <2> QED BY <2>1, <2>2 DEF EmptyHanded, StringInv, StringTypeOK
<1>7. ASSUME NEW k \in Thread, mesh_str_release(k) PROVE IInv'
  <2>1. LifecycleInv' /\ StringInv'
    BY <1>7, LifecycleFrame, ReleaseInv DEF mesh_str_release, Idle
  <2>2. /\ k \notin invoking /\ invoking' = invoking
        /\ fresh' = fresh
        /\ \A j \in Thread : j # k => doomed'[j] = doomed[j]
    BY <1>7 DEF mesh_str_release, Idle, Release, StringInv, StringTypeOK
  <2> QED BY <2>1, <2>2 DEF EmptyHanded
<1>8. ASSUME NEW k \in Thread, free(k) PROVE IInv'
  <2>1. LifecycleInv' /\ StringInv'
    BY <1>8, LifecycleFrame, FreeInv DEF free
  <2>2. /\ invoking' = invoking
        /\ fresh' = fresh
        /\ doomed' = [doomed EXCEPT ![k] = NoBlock]
    BY <1>8 DEF free, Free
  <2> QED BY <2>1, <2>2 DEF EmptyHanded, StringInv, StringTypeOK
<1>9. CASE Background /\ UNCHANGED <<stringVars, handle, invoking>>
  <2>1. LifecycleInv'
    BY <1>9, BackgroundInv
  <2>2. StringInv' /\ UNCHANGED <<fresh, doomed, invoking>>
    BY <1>9, StringFrame DEF stringVars
  <2> QED BY <2>1, <2>2 DEF EmptyHanded
<1>10. CASE UNCHANGED vars
  <2>1. UNCHANGED <<lifecycleVars, stringVars, invoking>>
    BY <1>10 DEF vars
  <2>2. LifecycleInv' /\ StringInv' /\ UNCHANGED <<fresh, doomed, invoking>>
    BY <2>1, LifecycleFrame, StringFrame DEF stringVars
  <2> QED BY <2>2 DEF EmptyHanded
<1> QED
  BY <1>1, <1>2, <1>3, <1>4, <1>5, <1>6, <1>7, <1>8, <1>9, <1>10 DEF Next

THEOREM Invariant == Spec => []IInv
BY InitIInv, NextIInv, PTL DEF Spec

(* Server.Stop: no call through gRPC ever finds the tunnel cancelled or    *)
(* the exporter gone, whatever Starts and Stops overlap.                   *)
THEOREM CallsAreDrained == Spec => []CallsHaveTunnel
<1>1. IInv => CallsHaveTunnel
  BY DEF IInv, CallsHaveTunnel
<1> QED BY <1>1, Invariant, PTL

(* mesh_str_release: a stale release can never free a live string.         *)
THEOREM StaleReleaseIsHarmless == Spec => []LiveStringsAreSafe
<1>1. IInv => LiveStringsAreSafe
  BY DEF IInv, StringInv
<1> QED BY <1>1, Invariant, PTL

(* mesh_str_release: no block is freed twice.                              *)
THEOREM FreedOnce == Spec => []NothingFreedTwice
<1>1. IInv => NothingFreedTwice
  BY DEF IInv, StringInv
<1> QED BY <1>1, Invariant, PTL

(* registerCString: no block is lost.                                      *)
THEOREM NoStringLeaks == Spec => []NoBlockLost
<1>1. IInv => NoBlockLost
  BY DEF IInv, StringInv
<1> QED BY <1>1, Invariant, PTL
=============================================================================
