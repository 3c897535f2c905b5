-------------------------- MODULE InvokeProxyProofs --------------------------
(***************************************************************************)
(* The safety properties of the data plane for any number of callers,      *)
(* peers, sessions and slots.                                              *)
(***************************************************************************)
EXTENDS InvokeProxy, SessionRegistryProofs, FiniteSetTheorems

(* A caller has a target from its admission, or its Dial, to its return;   *)
(* one that dialled itself never gets to Heartbeat and Release; and the    *)
(* session a caller works on was created under its target.                 *)
CallerOK(k) ==
  /\ target[k] = NoPeer <=> pc[k] = "idle"
  /\ k \in direct => pc[k] \in {"dial", "opening", "calling"}
  /\ pc[k] \in {"opening", "calling", "touch"} =>
       session[k] \in Session /\ owner[session[k]] = target[k]

CallerInv == \A k \in Caller : CallerOK(k)

ProxyTypeOK ==
  /\ pc \in [Caller -> CallerPC]
  /\ direct \subseteq Caller
  /\ target \in [Caller -> Peer \cup {NoPeer}]
  /\ session \in [Caller -> Session \cup {NoSession}]
  /\ current \in [Peer -> 0 .. MaxConcurrent]
  /\ orphaned \subseteq Session
  /\ leaked \subseteq Session

IInv ==
  /\ RegistryInv
  /\ ProxyTypeOK
  /\ CallerInv
  /\ LimiterIsExact

LEMMA InitIInv == Init => IInv
<1> SUFFICES ASSUME Init PROVE IInv
  OBVIOUS
<1> USE RegistryConstants, NoPeerAssumption, ProxyConstants
    DEF RegistryConstants, NoPeerAssumption, ProxyConstants, Init
<1>1. RegistryInv
  BY RegistryInitInv
<1>2. ProxyTypeOK
  BY DEF ProxyTypeOK, CallerPC
<1>3. CallerInv
  BY DEF CallerInv, CallerOK
<1>4. LimiterIsExact
  <2>1. \A p \in Peer : InFlight(p) = {}
    BY DEF InFlight
  <2> QED BY <2>1, FS_EmptySet DEF LimiterIsExact
<1> QED BY <1>1, <1>2, <1>3, <1>4 DEF IInv

-----------------------------------------------------------------------------
(* Every step keeps the registry's invariant, and an object that exists    *)
(* keeps its peer ID.                                                      *)
LEMMA RegistryStep ==
  ASSUME IInv, [Next]_vars
  PROVE  /\ RegistryInv'
         /\ \A s \in Session : owner[s] # NoPeer => owner'[s] = owner[s]
<1> USE DEF IInv
<1>1. CASE UNCHANGED registryVars
  BY <1>1, RegistryUnchanged DEF registryVars
<1>2. ASSUME NEW k \in Caller, Touch(k) PROVE RegistryInv' /\ UNCHANGED owner
  <2>1. session[k] \in Session /\ TouchHeartbeat(session[k])
    BY <1>2 DEF Touch, Goto, CallerInv, CallerOK
  <2> QED BY <2>1, TouchHeartbeatInv DEF TouchHeartbeat
<1>3. ASSUME NEW p \in Peer, NEW s \in Session, Connect(p, s)
      PROVE  /\ RegistryInv'
             /\ \A r \in Session : owner[r] # NoPeer => owner'[r] = owner[r]
  <2>1. RegisterSession(p, s)
    BY <1>3 DEF Connect
  <2>2. owner[s] = NoPeer /\ owner' = [owner EXCEPT ![s] = p]
    BY <2>1 DEF RegisterSession, Install
  <2> QED BY <2>1, <2>2, RegisterSessionInv DEF RegistryInv, RegistryTypeOK
<1>4. ASSUME NEW s \in Session, HandlerExits(s)
      PROVE  RegistryInv' /\ UNCHANGED owner
  <2>1. owner[s] \in Peer /\ RemoveIfCurrent(owner[s], s)
    BY <1>4 DEF HandlerExits, RegistryInv, RegistryTypeOK
  <2> QED BY <2>1, RemoveIfCurrentInv DEF RemoveIfCurrent, Drop, registryVars
<1>5. ASSUME NEW s \in Session, SessionDies(s)
      PROVE  RegistryInv' /\ UNCHANGED owner
  BY <1>5, HangUpInv DEF SessionDies, HangUp
<1>6. CASE Prune
  BY <1>6, CleanupInv DEF Prune, Cleanup, Drop
<1>7. CASE Tick
  BY <1>7, TickInv DEF Tick
<1> QED
  BY <1>1, <1>2, <1>3, <1>4, <1>5, <1>6, <1>7
  DEF Next, Step, vars, Admit, Dial, GetPeer, OpenStream, StreamOpened,
      DialTimeout, CallReturns, Beat, Release, HangUpDirect, OrphanDone

(* A step that moves no caller preserves what is said of the callers.      *)
LEMMA OthersStep ==
  ASSUME IInv, [Next]_vars,
         UNCHANGED <<pc, direct, target, session, current>>,
         orphaned' \subseteq Session, leaked' \subseteq Session
  PROVE  IInv'
<1> USE DEF IInv
<1>1. RegistryInv'
  BY RegistryStep
<1>2. ProxyTypeOK'
  BY DEF ProxyTypeOK
<1>3. CallerInv'
  BY RegistryStep, RegistryConstants, NoPeerAssumption
  DEF CallerInv, CallerOK, RegistryConstants, NoPeerAssumption, ProxyTypeOK
<1>4. LimiterIsExact'
  BY DEF LimiterIsExact, InFlight
<1> QED BY <1>1, <1>2, <1>3, <1>4

-----------------------------------------------------------------------------
(***************************************************************************)
(* The steps of the callers.                                               *)
(***************************************************************************)

(* When one caller moves, what holds of the others holds still.            *)
LEMMA OneMoves ==
  ASSUME IInv, [Next]_vars, NEW k \in Caller, CallerOK(k)',
         \A j \in Caller \ {k} :
           /\ pc'[j] = pc[j] /\ target'[j] = target[j]
           /\ session'[j] = session[j] /\ (j \in direct' <=> j \in direct)
  PROVE  CallerInv'
<1> SUFFICES ASSUME NEW j \in Caller, j # k PROVE CallerOK(j)'
  BY DEF CallerInv, CallerOK
<1>1. CallerOK(j) /\ j \in Caller \ {k}
  BY DEF IInv, CallerInv, CallerOK
<1>2. ASSUME pc[j] \in {"opening", "calling", "touch"}
      PROVE  session[j] \in Session /\ owner'[session[j]] = target[j]
  <2>1. session[j] \in Session /\ owner[session[j]] = target[j] /\ target[j] # NoPeer
    BY <1>1, <1>2 DEF CallerOK
  <2> QED BY <2>1, RegistryStep
<1> QED BY <1>1, <1>2 DEF CallerOK

(* The calls in flight are finitely many: they can be counted.             *)
LEMMA InFlightFinite == \A p \in Peer : IsFiniteSet(InFlight(p))
BY ProxyConstants, FS_Subset DEF ProxyConstants, InFlight

(* A step that changes neither the count nor the calls keeps them equal.   *)
LEMMA SlotsKept ==
  ASSUME LimiterIsExact, current' = current,
         \A p \in Peer : InFlight(p)' = InFlight(p)
  PROVE  LimiterIsExact'
BY DEF LimiterIsExact

(* Admit takes a slot of one peer for one call more to it.                 *)
LEMMA AdmitIInv ==
  ASSUME IInv, [Next]_vars, NEW k \in Caller, NEW p \in Peer, Admit(k, p)
  PROVE  IInv'
<1> USE RegistryConstants, NoPeerAssumption, ProxyConstants
    DEF RegistryConstants, NoPeerAssumption, ProxyConstants, IInv
<1>1. /\ pc[k] = "idle" /\ pc' = [pc EXCEPT ![k] = "get"]
      /\ current[p] < MaxConcurrent
      /\ current' = [current EXCEPT ![p] = @ + 1]
      /\ target' = [target EXCEPT ![k] = p]
      /\ UNCHANGED <<direct, session, orphaned, leaked>>
  BY DEF Admit, Goto
<1>2. k \notin direct /\ target[k] = NoPeer
  BY <1>1 DEF CallerInv, CallerOK
<1>3. ProxyTypeOK'
  BY <1>1 DEF ProxyTypeOK, CallerPC
<1>4. CallerInv'
  <2>1. CallerOK(k)'
    BY <1>1, <1>2 DEF CallerOK, ProxyTypeOK
  <2> QED BY <1>1, <2>1, OneMoves DEF ProxyTypeOK
<1>5. LimiterIsExact'
  <2> SUFFICES ASSUME NEW q \in Peer PROVE current'[q] = Cardinality(InFlight(q)')
    BY DEF LimiterIsExact
  <2>1. CASE q = p
    <3>1. InFlight(q)' = InFlight(q) \cup {k} /\ k \notin InFlight(q)
      BY <1>1, <1>2, <2>1 DEF InFlight, ProxyTypeOK
    <3>2. Cardinality(InFlight(q)') = Cardinality(InFlight(q)) + 1
      BY <3>1, InFlightFinite, FS_AddElement
    <3>3. current[q] = Cardinality(InFlight(q))
      BY DEF LimiterIsExact
    <3> QED BY <1>1, <2>1, <3>2, <3>3 DEF ProxyTypeOK
  <2>2. CASE q # p
    <3>1. InFlight(q)' = InFlight(q)
      BY <1>1, <1>2, <2>2 DEF InFlight, ProxyTypeOK
    <3> QED BY <1>1, <2>2, <3>1 DEF LimiterIsExact, ProxyTypeOK
  <2> QED BY <2>1, <2>2
<1> QED BY <1>3, <1>4, <1>5, RegistryStep

(* Release gives back the slot of the peer its call went to.               *)
LEMMA ReleaseIInv ==
  ASSUME IInv, [Next]_vars, NEW k \in Caller, Release(k)
  PROVE  IInv'
<1> USE RegistryConstants, NoPeerAssumption, ProxyConstants
    DEF RegistryConstants, NoPeerAssumption, ProxyConstants, IInv
<1> DEFINE p == target[k]
<1>1. /\ pc[k] = "release" /\ pc' = [pc EXCEPT ![k] = "idle"]
      /\ current' = [current EXCEPT ![p] = IF @ > 0 THEN @ - 1 ELSE @]
      /\ target' = [target EXCEPT ![k] = NoPeer]
      /\ session' = [session EXCEPT ![k] = NoSession]
      /\ UNCHANGED <<direct, orphaned, leaked>>
  BY DEF Release, Goto
<1>2. k \notin direct /\ p \in Peer
  BY <1>1 DEF CallerInv, CallerOK, ProxyTypeOK
<1>3. ProxyTypeOK'
  BY <1>1, <1>2 DEF ProxyTypeOK, CallerPC
<1>4. CallerInv'
  <2>1. CallerOK(k)'
    BY <1>1, <1>2 DEF CallerOK, ProxyTypeOK
  <2> QED BY <1>1, <2>1, OneMoves DEF ProxyTypeOK
<1>5. LimiterIsExact'
  <2> SUFFICES ASSUME NEW q \in Peer PROVE current'[q] = Cardinality(InFlight(q)')
    BY DEF LimiterIsExact
  <2>1. CASE q = p
    <3>1. InFlight(q)' = InFlight(q) \ {k} /\ k \in InFlight(q)
      BY <1>1, <1>2, <2>1 DEF InFlight, ProxyTypeOK
    <3>2. /\ Cardinality(InFlight(q)) \in Nat
          /\ Cardinality(InFlight(q)') = Cardinality(InFlight(q)) - 1
          /\ Cardinality(InFlight(q)') \in Nat
      BY <3>1, InFlightFinite, FS_RemoveElement, FS_CardinalityType
    <3>3. current[q] > 0 /\ current[q] = Cardinality(InFlight(q))
      BY <3>2 DEF LimiterIsExact
    <3> QED BY <1>1, <1>2, <2>1, <3>2, <3>3 DEF ProxyTypeOK
  <2>2. CASE q # p
    <3>1. InFlight(q)' = InFlight(q)
      BY <1>1, <1>2, <2>2 DEF InFlight, ProxyTypeOK
    <3> QED BY <1>1, <1>2, <2>2, <3>1 DEF LimiterIsExact, ProxyTypeOK
  <2> QED BY <2>1, <2>2
<1> QED BY <1>3, <1>4, <1>5, RegistryStep

(* The steps in between keep the caller's target, and take the session of  *)
(* that target.                                                            *)
LEMMA OnTheWayIInv ==
  ASSUME IInv, [Next]_vars, NEW k \in Caller,
         \/ GetPeer(k) \/ OpenStream(k) \/ StreamOpened(k) \/ CallReturns(k)
         \/ Beat(k) \/ Touch(k)
  PROVE  IInv'
<1> USE RegistryConstants, NoPeerAssumption
    DEF RegistryConstants, NoPeerAssumption, IInv
<1>1. /\ UNCHANGED <<direct, target, current, orphaned, leaked>>
      /\ \E to \in CallerPC : pc' = [pc EXCEPT ![k] = to]
      /\ \E s \in Session \cup {NoSession} : session' = [session EXCEPT ![k] = s]
  <2>1. GetPeer(k) \/ StreamOpened(k) \/ CallReturns(k) \/ Touch(k)
          => session' = [session EXCEPT ![k] = session[k]]
    BY DEF GetPeer, StreamOpened, CallReturns, Touch, ProxyTypeOK
  <2>2. OpenStream(k) \/ Beat(k)
          => session' = [session EXCEPT ![k] = sessions[target[k]]]
    BY DEF OpenStream, Beat
  <2>3. OpenStream(k) \/ Beat(k) => target[k] \in Peer
    BY DEF OpenStream, Beat, Goto, CallerInv, CallerOK, ProxyTypeOK
  <2>4. OpenStream(k) \/ Beat(k) => sessions[target[k]] \in Session \cup {NoSession}
    BY <2>3 DEF RegistryInv, RegistryTypeOK
  <2> QED
    BY <2>1, <2>2, <2>4
    DEF GetPeer, OpenStream, StreamOpened, CallReturns, Beat, Touch, Goto,
        CallerPC, ProxyTypeOK
<1>2. ProxyTypeOK'
  BY <1>1 DEF ProxyTypeOK
<1>3. CallerOK(k)'
  <2>1. /\ target'[k] = target[k] /\ target[k] # NoPeer /\ target[k] \in Peer
        /\ pc'[k] # "idle"
        /\ k \in direct' => pc'[k] \in {"dial", "opening", "calling"}
    BY DEF GetPeer, OpenStream, StreamOpened, CallReturns, Beat, Touch, Goto,
       CallerInv, CallerOK, ProxyTypeOK
  <2>2. ASSUME GetPeer(k) \/ CallReturns(k) \/ Touch(k)
        PROVE  pc'[k] \notin {"opening", "calling", "touch"}
    BY <2>2 DEF GetPeer, CallReturns, Touch, Goto, ProxyTypeOK
  <2>3. ASSUME OpenStream(k) \/ Beat(k), pc'[k] \in {"opening", "touch"}
        PROVE  /\ session'[k] = sessions[target[k]]
               /\ session'[k] \in Session /\ owner[session'[k]] = target[k]
    <3>1. session'[k] = sessions[target[k]]
      BY <2>3 DEF OpenStream, Beat, ProxyTypeOK
    <3>2. sessions[target[k]] # NoSession
      BY <2>3, <2>1
      DEF OpenStream, Beat, Goto, ProxyTypeOK, RegistryInv, RegistryTypeOK
    <3> QED
      BY <2>1, <3>1, <3>2 DEF RegistryInv, RegistryTypeOK, RegisteredIsOpen
  <2>4. ASSUME StreamOpened(k)
        PROVE  /\ session'[k] = session[k]
               /\ session[k] \in Session /\ owner[session[k]] = target[k]
    BY <2>4 DEF StreamOpened, Goto, CallerInv, CallerOK
  <2>5. ASSUME NEW s \in Session, owner[s] = target[k]
        PROVE  owner'[s] = target'[k]
    BY <2>1, <2>5, RegistryStep
  <2>6. OpenStream(k) \/ Beat(k) => pc'[k] # "calling"
    BY DEF OpenStream, Beat, Goto, ProxyTypeOK
  <2>7. pc'[k] \in {"opening", "calling", "touch"} =>
          session'[k] \in Session /\ owner'[session'[k]] = target'[k]
    BY <2>2, <2>3, <2>4, <2>5, <2>6
  <2> QED BY <2>1, <2>7 DEF CallerOK
<1>4. CallerInv'
  BY <1>1, <1>3, OneMoves DEF ProxyTypeOK
<1>5. LimiterIsExact'
  BY <1>1, SlotsKept DEF InFlight
<1> QED BY <1>2, <1>4, <1>5, RegistryStep

(* Giving up returns a caller of Dial without having used a slot, and      *)
(* sends a call of Invoke on to give its slot back.                        *)
LEMMA GiveUpIInv ==
  ASSUME IInv, [Next]_vars, NEW k \in Caller, GiveUp(k),
         k \in direct \/ pc[k] \in {"dial", "opening"},
         current' = current, orphaned' \subseteq Session, leaked' \subseteq Session
  PROVE  IInv'
<1> USE RegistryConstants, NoPeerAssumption
    DEF RegistryConstants, NoPeerAssumption, IInv
<1>1. CASE k \in direct
  <2>1. /\ pc' = [pc EXCEPT ![k] = "idle"]
        /\ direct' = direct \ {k}
        /\ target' = [target EXCEPT ![k] = NoPeer]
        /\ session' = [session EXCEPT ![k] = NoSession]
    BY <1>1 DEF GiveUp
  <2>2. ProxyTypeOK'
    BY <2>1 DEF ProxyTypeOK, CallerPC
  <2>3. CallerOK(k)'
    BY <2>1 DEF CallerOK, ProxyTypeOK
  <2>4. CallerInv'
    BY <2>1, <2>3, OneMoves DEF ProxyTypeOK
  <2>5. \A p \in Peer : InFlight(p)' = InFlight(p)
    BY <1>1, <2>1 DEF InFlight, ProxyTypeOK
  <2> QED BY <2>2, <2>4, <2>5, SlotsKept, RegistryStep
<1>2. CASE k \notin direct
  <2>1. /\ pc' = [pc EXCEPT ![k] = "beat"]
        /\ direct' = direct
        /\ UNCHANGED <<target, session>>
    BY <1>2 DEF GiveUp
  <2>2. ProxyTypeOK'
    BY <2>1 DEF ProxyTypeOK, CallerPC
  <2>3. CallerOK(k)'
    BY <1>2, <2>1 DEF CallerOK, CallerInv, ProxyTypeOK
  <2>4. CallerInv'
    BY <2>1, <2>3, OneMoves DEF ProxyTypeOK
  <2>5. \A p \in Peer : InFlight(p)' = InFlight(p)
    BY <2>1 DEF InFlight
  <2> QED BY <2>2, <2>4, <2>5, SlotsKept, RegistryStep
<1> QED BY <1>1, <1>2

(* A deadline that ends a dial leaves a goroutine on a session that exists.*)
LEMMA DialTimeoutIInv ==
  ASSUME IInv, [Next]_vars, NEW k \in Caller, DialTimeout(k)
  PROVE  IInv'
<1>1. pc[k] = "opening" => session[k] \in Session
  BY DEF IInv, CallerInv, CallerOK
<1>2. orphaned' \subseteq Session /\ leaked' \subseteq Session
  BY <1>1 DEF DialTimeout, IInv, ProxyTypeOK
<1> QED BY <1>2, GiveUpIInv DEF DialTimeout

(* A caller of Dial goes past the limiter.                                 *)
LEMMA DialIInv ==
  ASSUME IInv, [Next]_vars, NEW k \in Caller, NEW p \in Peer, Dial(k, p)
  PROVE  IInv'
<1> USE RegistryConstants, NoPeerAssumption
    DEF RegistryConstants, NoPeerAssumption, IInv
<1>1. /\ pc[k] = "idle" /\ pc' = [pc EXCEPT ![k] = "dial"]
      /\ direct' = direct \cup {k}
      /\ target' = [target EXCEPT ![k] = p]
      /\ UNCHANGED <<session, current, orphaned, leaked>>
  BY DEF Dial, Goto
<1>2. target[k] = NoPeer
  BY <1>1 DEF CallerInv, CallerOK
<1>3. ProxyTypeOK'
  BY <1>1 DEF ProxyTypeOK, CallerPC
<1>4. CallerOK(k)'
  BY <1>1 DEF CallerOK, ProxyTypeOK
<1>5. CallerInv'
  BY <1>1, <1>4, OneMoves DEF ProxyTypeOK
<1>6. \A q \in Peer : InFlight(q)' = InFlight(q)
  BY <1>1, <1>2 DEF InFlight, ProxyTypeOK
<1> QED BY <1>1, <1>3, <1>5, <1>6, SlotsKept, RegistryStep

-----------------------------------------------------------------------------
LEMMA NextIInv == IInv /\ [Next]_vars => IInv'
<1> SUFFICES ASSUME IInv, [Next]_vars PROVE IInv'
  OBVIOUS
<1> USE DEF IInv
<1>1. ASSUME NEW k \in Caller, NEW p \in Peer, Admit(k, p) PROVE IInv'
  BY <1>1, AdmitIInv
<1>2. ASSUME NEW k \in Caller, NEW p \in Peer, Dial(k, p) PROVE IInv'
  BY <1>2, DialIInv
<1>3. ASSUME NEW k \in Caller, Step(k) PROVE IInv'
  BY <1>3, OnTheWayIInv, DialTimeoutIInv, ReleaseIInv DEF Step
<1>4. ASSUME NEW k \in Caller, HangUpDirect(k) PROVE IInv'
  BY <1>4, GiveUpIInv DEF HangUpDirect, ProxyTypeOK
<1>5. ASSUME UNCHANGED <<pc, direct, target, session, current>>,
             orphaned' \subseteq orphaned,
             leaked' \subseteq leaked \cup orphaned
      PROVE  IInv'
  BY <1>5, OthersStep DEF ProxyTypeOK
<1>6. ASSUME NEW s \in Session, OrphanDone(s) PROVE IInv'
  BY <1>5, <1>6 DEF OrphanDone
<1>7. ASSUME NEW p \in Peer, NEW s \in Session, Connect(p, s) PROVE IInv'
  BY <1>5, <1>7 DEF Connect, proxyVars
<1>8. ASSUME NEW s \in Session, HandlerExits(s) PROVE IInv'
  BY <1>5, <1>8 DEF HandlerExits, proxyVars
<1>9. ASSUME NEW s \in Session, SessionDies(s) PROVE IInv'
  BY <1>5, <1>9 DEF SessionDies
<1>10. CASE Prune
  BY <1>5, <1>10 DEF Prune
<1>11. CASE Tick /\ UNCHANGED proxyVars
  BY <1>5, <1>11 DEF proxyVars
<1>12. CASE UNCHANGED vars
  BY <1>5, <1>12 DEF vars, proxyVars
<1> QED
  BY <1>1, <1>2, <1>3, <1>4, <1>6, <1>7, <1>8, <1>9, <1>10, <1>11, <1>12 DEF Next

LEMMA Invariance == Spec => []IInv
BY InitIInv, NextIInv, PTL DEF Spec

-----------------------------------------------------------------------------
(* Every reachable state is well-typed; in particular the count of a peer  *)
(* never exceeds the limit and never goes negative.                        *)
THEOREM TypeCorrect == Spec => []TypeOK
<1>1. IInv => TypeOK
  BY DEF IInv, ProxyTypeOK, RegistryInv, TypeOK
<1> QED BY <1>1, Invariance, PTL

(* The limiter's count of a peer is the number of calls in progress to it, *)
(* on every path out of Invoke.                                            *)
THEOREM SlotsAreExact == Spec => []LimiterIsExact
BY Invariance, PTL DEF IInv

(* The stream a call is granted is on the session its peer has at that     *)
(* moment, however often the peer reconnected since the lookup.            *)
THEOREM StreamsStayCurrent == Spec => StreamsAreCurrent
<1> DEFINE Current(k) ==
      pc[k] = "opening" /\ pc'[k] = "calling" => sessions[target[k]] = session[k]
<1>1. ASSUME IInv, Next, NEW k \in Caller, pc[k] = "opening", pc'[k] = "calling"
      PROVE  sessions[target[k]] = session[k]
  <2>1. session[k] \notin hungUp
    BY <1>1
    DEF IInv, ProxyTypeOK, Next, Step, Admit, GetPeer, OpenStream, StreamOpened,
        DialTimeout, GiveUp, CallReturns, Beat, Touch, Release, Dial, HangUpDirect,
        OrphanDone, Connect, HandlerExits, SessionDies, Prune, proxyVars, Goto
  <2>2. session[k] \in Session /\ owner[session[k]] = target[k] /\ target[k] # NoPeer
    BY <1>1 DEF IInv, CallerInv, CallerOK
  <2>3. session[k] \in Registered
    BY <1>1, <2>1, <2>2 DEF IInv, RegistryInv, NoSessionLeaked, Created
  <2>4. PICK p \in Peer : sessions[p] = session[k] /\ sessions[p] # NoSession
    BY <2>3 DEF Registered
  <2>5. owner[session[k]] = p
    BY <1>1, <2>4 DEF IInv, RegistryInv, RegisteredIsOpen
  <2> QED BY <2>2, <2>4, <2>5
<1>2. IInv /\ [Next]_vars => [\A k \in Caller : Current(k)]_vars
  BY <1>1
<1> QED BY <1>2, Invariance, PTL DEF Spec, StreamsAreCurrent
=============================================================================
