------------------------- MODULE SessionManagerProofs -------------------------
(***************************************************************************)
(* The session managers for any number of peers, objects and concurrent    *)
(* callers: the registry used as a library (SessionManager), the extended  *)
(* manager with its catalogs and searches (PeerSearch), and the breaker it *)
(* keeps for each peer (CircuitBreaker), for any thresholds.               *)
(***************************************************************************)
EXTENDS SessionManager, PeerSearch, CircuitBreaker, SessionRegistryProofs,
        Induction, FiniteSetTheorems, SequenceTheorems

(* The invariant of the registry as a library.  Panics and closed channels *)
(* in the map can be had; what they cost is recorded in misused.           *)
ManagerInv ==
  /\ ManagerTypeOK
  /\ \A p \in Peer : sessions[p] # NoSession => owner[sessions[p]] = p
  /\ NoSessionLeaked
  /\ UnlessMisusedOpen
  /\ ClosedIsCreated

(* A step that panics does so over an object that was misused. *)
panicStep == ~panicked /\ panicked' => misused' \cap closed # {}

(* A heartbeat just recorded is a possible age. *)
LEMMA Fresh == 0 \in 0 .. MaxAge + 1
BY RegistryConstants DEF RegistryConstants

(* The initial state satisfies the invariant. *)
LEMMA ManagerInitInv == ManagerInit => ManagerInv
<1> SUFFICES ASSUME ManagerInit PROVE ManagerInv
  OBVIOUS
<1>1. RegistryInv /\ misused = {}
  BY RegistryInitInv DEF ManagerInit
<1> QED BY <1>1 DEF RegistryInv, ManagerInv, ManagerTypeOK, RegisteredIsOpen,
                    UnlessMisusedOpen

(* Register and RegisterSession.  The object may be new, in the map, or    *)
(* closed already; if it cannot be closed again it counts as misused.      *)
LEMMA StoreInv ==
  ASSUME ManagerInv,
         NEW p \in Peer, NEW s \in Session, owner[s] \in {NoPeer, p},
         NEW up \in BOOLEAN, NEW sinceBeat \in 0 .. MaxAge + 1,
         NEW bare \in SUBSET {s}, bare # {} => owner[s] = NoPeer,
         Install(p, s, up, sinceBeat, bare),
         misused \subseteq misused', misused' \subseteq Session,
         bare # {} \/ owner[s] # NoPeer => s \in misused'
  PROVE  ManagerInv' /\ panicStep
<1> USE RegistryConstants, NoPeerAssumption DEF RegistryConstants, NoPeerAssumption
<1> DEFINE replaced == {sessions[p]} \ {NoSession}
<1>1. /\ sessions' = [sessions EXCEPT ![p] = s]
      /\ owner' = [owner EXCEPT ![s] = p]
      /\ connected' = IF up THEN (connected \ replaced) \cup {s}
                            ELSE connected \ (replaced \cup {s})
      /\ age' = [age EXCEPT ![s] = sinceBeat]
      /\ closed' = closed \cup bare \cup replaced
      /\ hungUp' = hungUp \cup replaced
      /\ panicked' = (panicked \/ replaced \cap (closed \cup bare) # {})
  BY DEF Install, Close
<1>2. RegistryTypeOK /\ replaced \subseteq Session /\ bare \subseteq Session
  BY DEF ManagerInv, ManagerTypeOK, RegistryTypeOK
<1>3. \A q \in Peer : q # p => sessions[q] # s
  BY DEF ManagerInv
<1>4. owner[s] = NoPeer => s \notin closed /\ s \notin replaced
  BY DEF ManagerInv, ClosedIsCreated, Created
<1>5. ManagerTypeOK'
  BY <1>1, <1>2 DEF ManagerTypeOK, RegistryTypeOK
<1>6. ASSUME NEW q \in Peer, sessions'[q] # NoSession
      PROVE  /\ owner'[sessions'[q]] = q
             /\ sessions'[q] \notin misused' => sessions'[q] \notin closed'
  <2>1. CASE q = p
    BY <2>1, <1>1, <1>2, <1>4 DEF RegistryTypeOK
  <2>2. CASE q # p
    <3>1. sessions'[q] = sessions[q] /\ sessions[q] \in Session /\ sessions[q] # s
      BY <2>2, <1>1, <1>2, <1>3, <1>6 DEF RegistryTypeOK
    <3>2. owner[sessions[q]] = q
      BY <3>1 DEF ManagerInv
    <3>3. sessions[q] \notin replaced
      BY <2>2, <3>1, <3>2 DEF ManagerInv
    <3>4. sessions[q] \notin misused => sessions[q] \notin closed
      BY <3>1 DEF ManagerInv, UnlessMisusedOpen
    <3> QED BY <3>1, <3>2, <3>3, <3>4, <1>1, <1>2 DEF RegistryTypeOK
  <2> QED BY <2>1, <2>2
<1>7. UnlessMisusedOpen'
  BY <1>6 DEF UnlessMisusedOpen
<1>8. NoSessionLeaked'
  <2> SUFFICES ASSUME NEW r \in Session, owner'[r] # NoPeer
               PROVE  r \in Registered' \/ (r \in closed' /\ r \in hungUp')
    BY DEF NoSessionLeaked, Created
  <2>1. CASE r = s
    BY <2>1, <1>1, <1>2 DEF Registered, RegistryTypeOK
  <2>2. CASE r # s
    <3>1. r \in Registered \/ (r \in closed /\ r \in hungUp)
      BY <2>2, <1>1, <1>2 DEF Created, RegistryTypeOK, ManagerInv, NoSessionLeaked
    <3>2. CASE r \in Registered
      <4>1. PICK q \in Peer : sessions[q] = r
        BY <3>2 DEF Registered
      <4> QED BY <4>1, <3>2, <1>1, <1>2 DEF Registered, RegistryTypeOK
    <3> QED BY <3>1, <3>2, <1>1
  <2> QED BY <2>1, <2>2
<1>9. ClosedIsCreated'
  <2>1. replaced \subseteq Created
    BY <1>2 DEF ManagerInv, Created
  <2> QED BY <2>1, <1>1, <1>2 DEF ManagerInv, ClosedIsCreated, Created, RegistryTypeOK
<1>10. panicStep
  <2> SUFFICES ASSUME replaced \cap (closed \cup bare) # {}
               PROVE  misused' \cap closed # {}
    BY <1>1 DEF panicStep
  <2>1. sessions[p] \in closed
    BY <1>4
  <2>2. sessions[p] \in misused
    BY <2>1 DEF ManagerInv, UnlessMisusedOpen
  <2> QED BY <2>1, <2>2
<1> QED BY <1>5, <1>6, <1>7, <1>8, <1>9, <1>10 DEF ManagerInv

(* Remove, RemoveIfCurrent and Cleanup close what is in the map. *)
LEMMA TakeOutInv ==
  ASSUME ManagerInv, NEW S \in SUBSET Registered, Drop(S), UNCHANGED misused
  PROVE  ManagerInv' /\ panicStep
<1> USE RegistryConstants DEF RegistryConstants
<1>1. /\ sessions' = [p \in Peer |-> IF sessions[p] \in S THEN NoSession
                                                          ELSE sessions[p]]
      /\ connected' = connected \ S
      /\ closed' = closed \cup S
      /\ hungUp' = hungUp \cup S
      /\ panicked' = (panicked \/ S \cap closed # {})
      /\ owner' = owner /\ age' = age
  BY DEF Drop, Close
<1>2. RegistryTypeOK /\ misused \subseteq Session
  BY DEF ManagerInv, ManagerTypeOK
<1>3. ASSUME NEW s \in S
      PROVE  s \in Session /\ s \in Created /\ (s \in closed => s \in misused)
  <2>1. PICK p \in Peer : sessions[p] = s /\ s # NoSession
    BY DEF Registered
  <2>2. s \in Session /\ owner[s] = p
    BY <1>2, <2>1 DEF RegistryTypeOK, ManagerInv
  <2> QED BY <2>1, <2>2, NoPeerAssumption
          DEF NoPeerAssumption, Created, ManagerInv, UnlessMisusedOpen
<1>4. ManagerTypeOK'
  BY <1>1, <1>2, <1>3 DEF ManagerTypeOK, RegistryTypeOK
<1>5. \A p \in Peer : sessions'[p] # NoSession =>
        sessions'[p] = sessions[p] /\ sessions[p] \notin S
  BY <1>1, <1>2 DEF RegistryTypeOK
<1>6. UnlessMisusedOpen'
  BY <1>1, <1>5 DEF ManagerInv, UnlessMisusedOpen
<1>7. NoSessionLeaked'
  BY <1>1 DEF ManagerInv, NoSessionLeaked, Created, Registered
<1>8. ClosedIsCreated'
  BY <1>1, <1>3 DEF ManagerInv, ClosedIsCreated, Created
<1>9. panicStep
  BY <1>1, <1>3 DEF panicStep
<1>10. \A p \in Peer : sessions'[p] # NoSession => owner'[sessions'[p]] = p
  BY <1>1, <1>5 DEF ManagerInv
<1> QED BY <1>4, <1>6, <1>7, <1>8, <1>9, <1>10 DEF ManagerInv

(* Close called by a holder of the pointer. *)
LEMMA HolderClosesInv ==
  ASSUME ManagerInv, NEW s \in Created, HolderCloses(s)
  PROVE  ManagerInv' /\ panicStep
<1>1. /\ connected' = connected \ {s}
      /\ closed' = closed \cup {s}
      /\ hungUp' = hungUp \cup {s}
      /\ panicked' = (panicked \/ {s} \cap closed # {})
      /\ sessions' = sessions /\ owner' = owner /\ age' = age
      /\ misused' = misused \cup {s}
  BY DEF HolderCloses, CloseObject, Close
<1>2. s \in Session /\ RegistryTypeOK /\ misused \subseteq Session
  BY DEF Created, ManagerInv, ManagerTypeOK
<1>3. ManagerTypeOK'
  BY <1>1, <1>2 DEF ManagerTypeOK, RegistryTypeOK
<1>4. UnlessMisusedOpen'
  BY <1>1 DEF ManagerInv, UnlessMisusedOpen
<1>5. NoSessionLeaked' /\ ClosedIsCreated'
  BY <1>1 DEF ManagerInv, NoSessionLeaked, ClosedIsCreated, Created, Registered
<1>6. panicStep
  BY <1>1 DEF panicStep
<1> QED BY <1>1, <1>3, <1>4, <1>5, <1>6 DEF ManagerInv

(* Heartbeats, disconnection marks, the clock and the transport. *)
LEMMA QuietlyInv ==
  ASSUME ManagerInv,
         UNCHANGED <<sessions, owner, closed, panicked, misused>>,
         connected' \subseteq connected,
         hungUp \subseteq hungUp', hungUp' \subseteq Session,
         age' \in [Session -> 0 .. MaxAge + 1]
  PROVE  ManagerInv' /\ panicStep
<1>1. ManagerTypeOK'
  BY DEF ManagerInv, ManagerTypeOK, RegistryTypeOK
<1>2. UnlessMisusedOpen' /\ ClosedIsCreated' /\ panicStep
  BY DEF ManagerInv, UnlessMisusedOpen, ClosedIsCreated, Created, panicStep
<1>3. NoSessionLeaked'
  BY DEF ManagerInv, NoSessionLeaked, Created, Registered
<1> QED BY <1>1, <1>2, <1>3 DEF ManagerInv

(* Every step keeps the invariant, and panics only over a misused object.  *)
LEMMA ManageInv ==
  ASSUME ManagerInv, [Manage]_managerVars
  PROVE  ManagerInv' /\ panicStep
<1>0. RegistryTypeOK /\ misused \subseteq Session
  BY DEF ManagerInv, ManagerTypeOK
<1> USE RegistryConstants, NoPeerAssumption DEF RegistryConstants, NoPeerAssumption
<1>1. ASSUME NEW p \in Peer, NEW s \in Session, Register(p, s)
      PROVE  ManagerInv' /\ panicStep
  <2>1. misused' = misused \cup ({s} \cap (Created \cup closed'))
    BY <1>1 DEF Register
  <2>2. misused \subseteq misused' /\ misused' \subseteq Session
    BY <1>0, <2>1
  <2>3. CASE RegisterNew(p, s)
    <3>1. PICK up \in BOOLEAN, sinceBeat \in {0, MaxAge + 1}, bare \in SUBSET {s} :
            Install(p, s, up, sinceBeat, bare)
      BY <2>3 DEF RegisterNew
    <3>2. owner[s] = NoPeer /\ sinceBeat \in 0 .. MaxAge + 1
      BY <2>3 DEF RegisterNew
    <3>3. bare # {} => s \in misused'
      BY <2>1, <3>1 DEF Install, Close
    <3> QED BY <2>2, <3>1, <3>2, <3>3, StoreInv
  <2>4. CASE p = owner[s] /\ RegisterAgain(s)
    <3>1. s \in misused' /\ age[s] \in 0 .. MaxAge + 1
      BY <1>0, <2>1, <2>4 DEF Created, RegistryTypeOK
    <3> DEFINE up == s \in connected \ {sessions[owner[s]]}
    <3>2. Install(p, s, up, age[s], {}) /\ up \in BOOLEAN
      BY <2>4 DEF RegisterAgain
    <3> HIDE DEF up
    <3> QED BY <2>2, <2>4, <3>1, <3>2, StoreInv
  <2> QED BY <1>1, <2>3, <2>4 DEF Register
<1>2. ASSUME NEW s \in Created, HolderCloses(s) PROVE ManagerInv' /\ panicStep
  BY <1>2, HolderClosesInv
<1>3. ASSUME NEW p \in Peer, NEW s \in Session, RegisterSession(p, s), UNCHANGED misused
      PROVE  ManagerInv' /\ panicStep
  <2>1. PICK up \in BOOLEAN, bare \in SUBSET {s} :
          bare = {} /\ owner[s] = NoPeer /\ Install(p, s, up, 0, bare)
    BY <1>3 DEF RegisterSession
  <2>2. misused \subseteq misused' /\ misused' \subseteq Session
    BY <1>0, <1>3
  <2> QED BY <2>1, <2>2, Fresh, StoreInv
<1>4. ASSUME NEW p \in Peer, Remove(p), UNCHANGED misused
      PROVE  ManagerInv' /\ panicStep
  <2>1. {sessions[p]} \in SUBSET Registered
    BY <1>4 DEF Remove, Registered
  <2> QED BY <1>4, <2>1, TakeOutInv DEF Remove
<1>5. ASSUME NEW p \in Peer, MarkDisconnected(p), UNCHANGED misused
      PROVE  ManagerInv' /\ panicStep
  <2>1. connected' \subseteq connected
    BY <1>5 DEF MarkDisconnected
  <2> QED BY <1>0, <1>5, <2>1, QuietlyInv DEF MarkDisconnected, RegistryTypeOK
<1>6. ASSUME NEW p \in Peer, NEW s \in Created, RemoveIfCurrent(p, s), UNCHANGED misused
      PROVE  ManagerInv' /\ panicStep
  <2>1. CASE sessions[p] = s
    <3>1. {s} \in SUBSET Registered
      BY <2>1 DEF Registered, Created
    <3> QED BY <1>6, <2>1, <3>1, TakeOutInv DEF RemoveIfCurrent
  <2>2. CASE sessions[p] # s
    BY <1>0, <1>6, <2>2, QuietlyInv DEF RemoveIfCurrent, registryVars, RegistryTypeOK
  <2> QED BY <2>1, <2>2
<1>7. ASSUME NEW s \in Created, Heartbeat(s), UNCHANGED misused
      PROVE  ManagerInv' /\ panicStep
  <2>1. /\ UNCHANGED <<sessions, owner, connected, closed, hungUp, panicked>>
        /\ age' = [age EXCEPT ![s] = 0]
    BY <1>7 DEF Heartbeat, TouchHeartbeat
  <2>2. age' \in [Session -> 0 .. MaxAge + 1]
    BY <1>0, <2>1, Fresh DEF RegistryTypeOK
  <2> QED BY <1>0, <1>7, <2>1, <2>2, QuietlyInv DEF RegistryTypeOK
<1>8. CASE Cleanup /\ UNCHANGED misused
  BY <1>8, TakeOutInv DEF Cleanup, Stale
<1>9. CASE Tick /\ UNCHANGED misused
  <2>1. age' \in [Session -> 0 .. MaxAge + 1]
    BY <1>0, <1>9 DEF Tick, RegistryTypeOK
  <2> QED BY <1>0, <1>9, <2>1, QuietlyInv DEF Tick, RegistryTypeOK
<1>10. ASSUME NEW s \in Created, HangUp(s), UNCHANGED misused
       PROVE  ManagerInv' /\ panicStep
  BY <1>0, <1>10, QuietlyInv DEF HangUp, Created, RegistryTypeOK
<1>11. CASE UNCHANGED managerVars
  BY <1>0, <1>11, QuietlyInv DEF managerVars, registryVars, RegistryTypeOK
<1> QED BY <1>1, <1>2, <1>3, <1>4, <1>5, <1>6, <1>7, <1>8, <1>9, <1>10, <1>11 DEF Manage

LEMMA ManagerInvariance == ManagerSpec => []ManagerInv
<1>1. ManagerInv /\ [Manage]_managerVars => ManagerInv'
  BY ManageInv
<1> QED BY ManagerInitInv, <1>1, PTL DEF ManagerSpec

-----------------------------------------------------------------------------
(* Every reachable state is well-typed: no age or entry out of range,      *)
(* whatever callers do with the objects they hold.                         *)
THEOREM ManagerTypeCorrect == ManagerSpec => []ManagerTypeOK
BY ManagerInvariance, PTL DEF ManagerInv

(* A session that left the map has been closed, with its connection, even  *)
(* if its users closed it or registered it again in between.               *)
THEOREM ManagerLeaksNothing == ManagerSpec => []NoSessionLeaked
<1>1. ManagerInv => NoSessionLeaked
  BY DEF ManagerInv
<1> QED BY <1>1, ManagerInvariance, PTL

(* An object its users left to the manager is found open and under its own *)
(* peer ID, whatever they do to the others.                                *)
THEOREM UntouchedSessionsAreOpen == ManagerSpec => []UnlessMisusedOpen
<1>1. ManagerInv => UnlessMisusedOpen
  BY DEF ManagerInv
<1> QED BY <1>1, ManagerInvariance, PTL

(* The methods that compete to close a session never close it twice: to    *)
(* panic takes an object that its users registered without a channel or    *)
(* twice, or closed themselves.                                            *)
THEOREM PanicsNeedMisuse == ManagerSpec => PanicNeedsMisuse
<1>1. ManagerInv /\ [Manage]_managerVars => [panicStep]_managerVars
  BY ManageInv
<1> QED
  BY <1>1, ManagerInvariance, PTL DEF ManagerSpec, PanicNeedsMisuse, panicStep

-----------------------------------------------------------------------------
(***************************************************************************)
(* The method registry: what its loops do to the index.                    *)
(***************************************************************************)

Indices == [Method -> Seq(Peer)]

(* The peers an index names under m, and an index that names none twice. *)
Named(ix, m) == SX!ToSet(ix[m])
Distinct(ix) == \A m \in Method : SX!IsInjective(ix[m])

(* iy is ix with p added, or removed, under each method of M. *)
Adds(ix, iy, M, p) ==
  /\ iy \in Indices
  /\ Distinct(iy)
  /\ \A m \in Method :
       Named(iy, m) = IF m \in M THEN Named(ix, m) \cup {p} ELSE Named(ix, m)

Removes(ix, iy, M, p) ==
  /\ iy \in Indices
  /\ Distinct(iy)
  /\ \A m \in Method :
       Named(iy, m) = IF m \in M THEN Named(ix, m) \ {p} ELSE Named(ix, m)

(* RemoveFirst takes its element out of a sequence without repetitions. *)
LEMMA RemoveFirstEffect ==
  ASSUME NEW S, NEW s \in Seq(S), SX!IsInjective(s), NEW p
  PROVE  /\ SX!RemoveFirst(s, p) \in Seq(S)
         /\ SX!IsInjective(SX!RemoveFirst(s, p))
         /\ SX!ToSet(SX!RemoveFirst(s, p)) = SX!ToSet(s) \ {p}
<1> DEFINE at == {i \in 1 .. Len(s) : s[i] = p}
<1>1. CASE at = {}
  <2>1. SX!RemoveFirst(s, p) = s
    BY <1>1 DEF SX!RemoveFirst
  <2>2. p \notin SX!ToSet(s)
    BY <1>1 DEF SX!ToSet
  <2> QED BY <2>1, <2>2
<1>2. CASE at # {}
  <2> DEFINE k == SX!Min(at)
  <2>1. SX!RemoveFirst(s, p) = SX!RemoveAt(s, k)
    BY <1>2 DEF SX!RemoveFirst, SX!SelectInSeq
  <2>2. k \in at
    <3> HIDE DEF at
    <3>1. at \subseteq Nat
      BY DEF at
    <3>2. \E x \in at : \A y \in at : x <= y
      BY <1>2, <3>1, Smallest
    <3> QED BY <3>2 DEF SX!Min
  <2> HIDE DEF k
  <2>3. k \in 1 .. Len(s) /\ s[k] = p
    BY <2>2
  <2> DEFINE t == SX!RemoveAt(s, k)
  <2>4. /\ t \in Seq(S)
        /\ Len(t) = Len(s) - 1
        /\ \A i \in 1 .. Len(s) - 1 : t[i] = IF i < k THEN s[i] ELSE s[i + 1]
    <3> DEFINE u == SubSeq(s, 1, k - 1)
               v == SubSeq(s, k + 1, Len(s))
    <3>1. u \in Seq(S) /\ Len(u) = k - 1 /\ \A i \in 1 .. k - 1 : u[i] = s[i]
      BY <2>3
    <3>2. v \in Seq(S) /\ Len(v) = Len(s) - k
          /\ \A i \in 1 .. Len(s) - k : v[i] = s[k + i]
      BY <2>3
    <3>3. t = u \o v
      BY DEF SX!RemoveAt
    <3> HIDE DEF u, v, t
    <3>4. t \in Seq(S) /\ Len(t) = Len(u) + Len(v)
      BY <3>1, <3>2, <3>3, ConcatProperties
    <3>5. ASSUME NEW i \in 1 .. Len(s) - 1
          PROVE  t[i] = IF i < k THEN s[i] ELSE s[i + 1]
      <4>1. t[i] = IF i <= Len(u) THEN u[i] ELSE v[i - Len(u)]
        BY <2>3, <3>1, <3>2, <3>3
      <4>2. CASE i < k
        BY <2>3, <3>1, <4>1, <4>2
      <4>3. CASE i >= k
        <5>1. i - Len(u) \in 1 .. Len(s) - k /\ k + (i - Len(u)) = i + 1
          BY <2>3, <3>1, <4>3
        <5>2. t[i] = v[i - Len(u)]
          BY <2>3, <3>1, <4>1, <4>3
        <5>3. t[i] = s[i + 1]
          BY <3>2, <5>1, <5>2
        <5> QED BY <2>3, <4>3, <5>3
      <4> QED BY <2>3, <4>2, <4>3
    <3> QED BY <2>3, <3>1, <3>2, <3>4, <3>5
  <2> HIDE DEF t
  <2>5. SX!IsInjective(t)
    <3> SUFFICES ASSUME NEW i \in 1 .. Len(s) - 1, NEW j \in 1 .. Len(s) - 1, t[i] = t[j]
                 PROVE  i = j
      BY <2>4 DEF SX!IsInjective
    <3> DEFINE from(n) == IF n < k THEN n ELSE n + 1
    <3>1. from(i) \in DOMAIN s /\ from(j) \in DOMAIN s
      BY <2>3
    <3>2. s[from(i)] = s[from(j)]
      BY <2>4
    <3>3. from(i) = from(j)
      BY <3>1, <3>2 DEF SX!IsInjective
    <3> QED BY <2>3, <3>3
  <2>6. SX!ToSet(t) \subseteq SX!ToSet(s) \ {p}
    <3> SUFFICES ASSUME NEW i \in 1 .. Len(s) - 1
                 PROVE  t[i] \in SX!ToSet(s) \ {p}
      BY <2>4 DEF SX!ToSet
    <3>1. PICK j \in 1 .. Len(s) : j # k /\ t[i] = s[j]
      BY <2>3, <2>4
    <3> QED BY <2>3, <3>1 DEF SX!ToSet, SX!IsInjective
  <2>7. SX!ToSet(s) \ {p} \subseteq SX!ToSet(t)
    <3> SUFFICES ASSUME NEW j \in 1 .. Len(s), s[j] # p
                 PROVE  \E i \in 1 .. Len(s) - 1 : t[i] = s[j]
      BY <2>4 DEF SX!ToSet
    <3>1. j # k
      BY <2>3
    <3>2. CASE j < k
      BY <2>3, <2>4, <3>2
    <3>3. CASE j > k
      <4>1. j - 1 \in 1 .. Len(s) - 1 /\ t[j - 1] = s[j]
        BY <2>3, <2>4, <3>3
      <4> QED BY <4>1
    <3> QED BY <2>3, <3>1, <3>2, <3>3
  <2> QED BY <2>1, <2>4, <2>5, <2>6, <2>7 DEF t
<1> QED BY <1>1, <1>2

(* One turn of each loop. *)
LEMMA AddTurn ==
  ASSUME NEW ix \in Indices, Distinct(ix), NEW m \in Method, NEW p \in Peer
  PROVE  Adds(ix, AddToIndex(ix, m, p), {m}, p)
<1> DEFINE iy == AddToIndex(ix, m, p)
<1>1. CASE p \in SX!ToSet(ix[m])
  BY <1>1 DEF AddToIndex, Named, Adds
<1>2. CASE p \notin SX!ToSet(ix[m])
  <2>1. iy = [ix EXCEPT ![m] = Append(ix[m], p)]
    BY <1>2 DEF AddToIndex
  <2>2. ix[m] \in Seq(Peer)
    BY DEF Indices
  <2> DEFINE s == ix[m]
             t == Append(ix[m], p)
  <2>3. /\ t \in Seq(Peer) /\ Len(t) = Len(s) + 1 /\ t[Len(s) + 1] = p
        /\ \A i \in 1 .. Len(s) : t[i] = s[i]
    BY <2>2
  <2>4. iy \in Indices
    BY <2>1, <2>3 DEF Indices
  <2>5. SX!ToSet(t) = SX!ToSet(s) \cup {p}
    <3> HIDE DEF t
    <3>1. DOMAIN t = 1 .. Len(s) + 1 /\ DOMAIN s = 1 .. Len(s) /\ Len(s) \in Nat
      BY <2>2, <2>3
    <3> HIDE DEF s
    <3>2. ASSUME NEW i \in DOMAIN t PROVE t[i] \in SX!ToSet(s) \cup {p}
      BY <2>3, <3>1 DEF SX!ToSet
    <3>3. ASSUME NEW i \in DOMAIN s PROVE s[i] \in SX!ToSet(t)
      BY <2>3, <3>1 DEF SX!ToSet
    <3>4. p \in SX!ToSet(t)
      BY <2>3, <3>1 DEF SX!ToSet
    <3> QED BY <3>2, <3>3, <3>4 DEF SX!ToSet
  <2>6. SX!IsInjective(s) => SX!IsInjective(t)
    BY <1>2, <2>2, <2>3 DEF SX!IsInjective, SX!ToSet
  <2>7. \A n \in Method : iy[n] = IF n = m THEN t ELSE ix[n]
    BY <2>1 DEF Indices
  <2> HIDE DEF iy, s, t
  <2>8. Distinct(iy)
    BY <2>6, <2>7 DEF Distinct, s
  <2>9. \A n \in Method :
          Named(iy, n) = IF n = m THEN Named(ix, n) \cup {p} ELSE Named(ix, n)
    BY <2>5, <2>7 DEF Named, s
  <2> QED BY <2>4, <2>8, <2>9 DEF iy, Adds
<1> QED BY <1>1, <1>2

LEMMA RemoveTurn ==
  ASSUME NEW ix \in Indices, Distinct(ix), NEW m \in Method, NEW p \in Peer
  PROVE  Removes(ix, RemoveFromIndex(ix, m, p), {m}, p)
<1> DEFINE t == SX!RemoveFirst(ix[m], p)
           iy == RemoveFromIndex(ix, m, p)
<1>1. t \in Seq(Peer) /\ SX!IsInjective(t) /\ SX!ToSet(t) = Named(ix, m) \ {p}
  <2>1. ix[m] \in Seq(Peer) /\ SX!IsInjective(ix[m])
    BY DEF Indices, Distinct
  <2> QED BY <2>1, RemoveFirstEffect DEF Named
<1>2. iy = [ix EXCEPT ![m] = t]
  BY DEF RemoveFromIndex
<1> HIDE DEF t, iy
<1>3. iy \in Indices /\ \A n \in Method : iy[n] = IF n = m THEN t ELSE ix[n]
  BY <1>1, <1>2 DEF Indices
<1>4. Distinct(iy)
  BY <1>1, <1>3 DEF Distinct
<1>5. \A n \in Method : Named(iy, n) = IF n = m THEN Named(ix, n) \ {p} ELSE Named(ix, n)
  BY <1>1, <1>3 DEF Named
<1> QED BY <1>3, <1>4, <1>5 DEF iy, Removes

(* The loops: by induction over the turns, the first i of them have added  *)
(* or removed p under the first i methods.                                 *)
LEMMA AddAllEffect ==
  ASSUME NEW ix \in Indices, Distinct(ix), NEW ms \in Seq(Method), NEW p \in Peer
  PROVE  Adds(ix, AddAll(ix, ms, p), SX!ToSet(ms), p)
<1> DEFINE X == {iy \in Indices : Distinct(iy)}
           turn == [i \in 1 .. Len(ms) |-> [iy \in X |-> AddToIndex(iy, ms[i], p)]]
<1>1. Len(ms) \in Nat /\ \A i \in 1 .. Len(ms) : ms[i] \in Method
  OBVIOUS
<1>2. turn \in Turns(Len(ms), X)
  BY <1>1, AddTurn DEF Turns, Adds
<1>3. PICK run : IsRun(run, Len(ms), X, ix, turn)
  <2> HIDE DEF turn
  <2>1. ix \in X
    OBVIOUS
  <2> HIDE DEF X
  <2> QED BY <1>1, <1>2, <2>1, LoopRuns
<1>4. run = [i \in 0 .. Len(ms) |->
               IF i = 0 THEN ix ELSE AddToIndex(run[i - 1], ms[i], p)]
  <2>1. ASSUME NEW i \in 1 .. Len(ms)
        PROVE  run[i] = AddToIndex(run[i - 1], ms[i], p)
    <3> HIDE DEF X
    <3>1. run[i - 1] \in X
      BY <1>1, <1>3 DEF IsRun
    <3> QED BY <1>3, <3>1 DEF IsRun
  <2> QED BY <1>1, <1>3, <2>1 DEF IsRun
<1>5. PICK after :
        /\ after = [i \in 0 .. Len(ms) |->
                      IF i = 0 THEN ix ELSE AddToIndex(after[i - 1], ms[i], p)]
        /\ AddAll(ix, ms, p) = after[Len(ms)]
  BY <1>4, Zenon DEF AddAll
<1> DEFINE First(i) == {ms[j] : j \in 1 .. i}
           T == {i \in 0 .. Len(ms) : Adds(ix, after[i], First(i), p)}
<1>6. 0 \in T
  <2>1. after[0] = ix /\ First(0) = {}
    BY <1>1, <1>5
  <2>2. Adds(ix, ix, {}, p)
    BY DEF Adds
  <2>3. Adds(ix, after[0], First(0), p)
    BY <2>1, <2>2
  <2> HIDE DEF First
  <2> QED BY <1>1, <2>3
<1>7. ASSUME NEW i \in 0 .. Len(ms) - 1, i \in T PROVE i + 1 \in T
  <2>1. Adds(ix, after[i], First(i), p)
    BY <1>7
  <2>2. ms[i + 1] \in Method
    BY <1>1
  <2>3. after[i + 1] = AddToIndex(after[i], ms[i + 1], p)
    BY <1>1, <1>5
  <2>4. Adds(after[i], after[i + 1], {ms[i + 1]}, p)
    <3>1. after[i] \in Indices /\ Distinct(after[i])
      BY <2>1 DEF Adds
    <3> HIDE DEF T, First
    <3> QED BY <2>2, <2>3, <3>1, AddTurn
  <2>5. First(i + 1) = First(i) \cup {ms[i + 1]}
    <3>1. 1 .. i + 1 = (1 .. i) \cup {i + 1}
      BY <1>1
    <3> QED BY <3>1
  <2>6. Adds(ix, after[i + 1], First(i + 1), p)
    BY <2>1, <2>4, <2>5 DEF Adds
  <2> HIDE DEF First
  <2> QED BY <1>1, <2>6
<1>8. Adds(ix, after[Len(ms)], First(Len(ms)), p)
  <2>1. 0 .. Len(ms) \subseteq T
    <3> HIDE DEF T
    <3> QED BY <1>1, <1>6, <1>7, UpTo
  <2> HIDE DEF First
  <2>2. Len(ms) \in T
    BY <1>1, <2>1
  <2> QED BY <2>2
<1>9. First(Len(ms)) = SX!ToSet(ms)
  BY DEF SX!ToSet
<1> QED BY <1>5, <1>8, <1>9

LEMMA RemoveAllEffect ==
  ASSUME NEW ix \in Indices, Distinct(ix), NEW ms \in Seq(Method), NEW p \in Peer
  PROVE  Removes(ix, RemoveAll(ix, ms, p), SX!ToSet(ms), p)
<1> DEFINE X == {iy \in Indices : Distinct(iy)}
           turn == [i \in 1 .. Len(ms) |-> [iy \in X |-> RemoveFromIndex(iy, ms[i], p)]]
<1>1. Len(ms) \in Nat /\ \A i \in 1 .. Len(ms) : ms[i] \in Method
  OBVIOUS
<1>2. turn \in Turns(Len(ms), X)
  BY <1>1, RemoveTurn DEF Turns, Removes
<1>3. PICK run : IsRun(run, Len(ms), X, ix, turn)
  <2> HIDE DEF turn
  <2>1. ix \in X
    OBVIOUS
  <2> HIDE DEF X
  <2> QED BY <1>1, <1>2, <2>1, LoopRuns
<1>4. run = [i \in 0 .. Len(ms) |->
               IF i = 0 THEN ix ELSE RemoveFromIndex(run[i - 1], ms[i], p)]
  <2>1. ASSUME NEW i \in 1 .. Len(ms)
        PROVE  run[i] = RemoveFromIndex(run[i - 1], ms[i], p)
    <3> HIDE DEF X
    <3>1. run[i - 1] \in X
      BY <1>1, <1>3 DEF IsRun
    <3> QED BY <1>3, <3>1 DEF IsRun
  <2> QED BY <1>1, <1>3, <2>1 DEF IsRun
<1>5. PICK after :
        /\ after = [i \in 0 .. Len(ms) |->
                      IF i = 0 THEN ix ELSE RemoveFromIndex(after[i - 1], ms[i], p)]
        /\ RemoveAll(ix, ms, p) = after[Len(ms)]
  BY <1>4, Zenon DEF RemoveAll
<1> DEFINE First(i) == {ms[j] : j \in 1 .. i}
           T == {i \in 0 .. Len(ms) : Removes(ix, after[i], First(i), p)}
<1>6. 0 \in T
  <2>1. after[0] = ix /\ First(0) = {}
    BY <1>1, <1>5
  <2>2. Removes(ix, ix, {}, p)
    BY DEF Removes
  <2>3. Removes(ix, after[0], First(0), p)
    BY <2>1, <2>2
  <2> HIDE DEF First
  <2> QED BY <1>1, <2>3
<1>7. ASSUME NEW i \in 0 .. Len(ms) - 1, i \in T PROVE i + 1 \in T
  <2>1. Removes(ix, after[i], First(i), p)
    BY <1>7
  <2>2. ms[i + 1] \in Method
    BY <1>1
  <2>3. after[i + 1] = RemoveFromIndex(after[i], ms[i + 1], p)
    BY <1>1, <1>5
  <2>4. Removes(after[i], after[i + 1], {ms[i + 1]}, p)
    <3>1. after[i] \in Indices /\ Distinct(after[i])
      BY <2>1 DEF Removes
    <3> HIDE DEF T, First
    <3> QED BY <2>2, <2>3, <3>1, RemoveTurn
  <2>5. First(i + 1) = First(i) \cup {ms[i + 1]}
    <3>1. 1 .. i + 1 = (1 .. i) \cup {i + 1}
      BY <1>1
    <3> QED BY <3>1
  <2>6. Removes(ix, after[i + 1], First(i + 1), p)
    BY <2>1, <2>4, <2>5 DEF Removes
  <2> HIDE DEF First
  <2> QED BY <1>1, <2>6
<1>8. Removes(ix, after[Len(ms)], First(Len(ms)), p)
  <2>1. 0 .. Len(ms) \subseteq T
    <3> HIDE DEF T
    <3> QED BY <1>1, <1>6, <1>7, UpTo
  <2> HIDE DEF First
  <2>2. Len(ms) \in T
    BY <1>1, <2>1
  <2> QED BY <2>2
<1>9. First(Len(ms)) = SX!ToSet(ms)
  BY DEF SX!ToSet
<1> QED BY <1>5, <1>8, <1>9

(* FindMethods finds nothing exactly if no method matches. *)
LEMMA MatchedEmpty ==
  ASSUME NEW ms \in Seq(Method), NEW matching
  PROVE  Matched(ms, matching) = <<>> <=> SX!ToSet(ms) \cap matching = {}
<1> DEFINE X == Seq(Method)
           turn == [i \in 1 .. Len(ms) |-> [t \in X |-> AddMatch(t, ms[i], matching)]]
<1>1. Len(ms) \in Nat /\ \A i \in 1 .. Len(ms) : ms[i] \in Method
  OBVIOUS
<1>2. turn \in Turns(Len(ms), X) /\ <<>> \in X
  BY <1>1 DEF Turns, AddMatch
<1>3. PICK run : IsRun(run, Len(ms), X, <<>>, turn)
  <2> HIDE DEF turn, X
  <2> QED BY <1>1, <1>2, LoopRuns
<1>4. run = [i \in 0 .. Len(ms) |->
               IF i = 0 THEN <<>> ELSE AddMatch(run[i - 1], ms[i], matching)]
  <2>1. ASSUME NEW i \in 1 .. Len(ms)
        PROVE  run[i] = AddMatch(run[i - 1], ms[i], matching)
    <3>1. run[i - 1] \in X
      BY <1>1, <1>3 DEF IsRun
    <3> QED BY <1>3, <3>1 DEF IsRun
  <2> QED BY <1>1, <1>3, <2>1 DEF IsRun
<1>5. PICK after : /\ after = [i \in 0 .. Len(ms) |->
                                IF i = 0 THEN <<>> ELSE AddMatch(after[i - 1], ms[i], matching)]
                   /\ Matched(ms, matching) = after[Len(ms)]
  BY <1>4, Zenon DEF Matched
<1>6. after[0] = <<>>
  BY <1>1, <1>5
<1>7. \A i \in 0 .. Len(ms) - 1 :
        after[i + 1] = AddMatch(after[i], ms[i + 1], matching)
  BY <1>1, <1>5
<1> DEFINE Right(i) == /\ after[i] \in Seq(Method)
                       /\ after[i] = <<>> <=> \A j \in 1 .. i : ms[j] \notin matching
           T == {i \in 0 .. Len(ms) : Right(i)}
<1>8. 0 \in T
  <2>1. Right(0)
    BY <1>6
  <2> HIDE DEF Right
  <2> QED BY <1>1, <2>1
<1>9. ASSUME NEW i \in 0 .. Len(ms) - 1, i \in T PROVE i + 1 \in T
  <2>1. Right(i)
    BY <1>9
  <2>2. 1 .. i + 1 = (1 .. i) \cup {i + 1}
    BY <1>1
  <2>3. ms[i + 1] \in Method
    BY <1>1
  <2>4. after[i + 1] = AddMatch(after[i], ms[i + 1], matching)
    BY <1>7
  <2>5. after[i + 1] \in Seq(Method)
    BY <2>1, <2>3, <2>4 DEF AddMatch
  <2>6. after[i + 1] = <<>> <=> after[i] = <<>> /\ ms[i + 1] \notin matching
    BY <2>1, <2>3, <2>4 DEF AddMatch
  <2>7. Right(i + 1)
    BY <2>1, <2>2, <2>5, <2>6
  <2> HIDE DEF Right
  <2> QED BY <1>1, <2>7
<1>10. Right(Len(ms))
  <2> HIDE DEF Right
  <2>1. 0 .. Len(ms) \subseteq T
    <3> HIDE DEF T
    <3> QED BY <1>1, <1>8, <1>9, UpTo
  <2> QED BY <1>1, <2>1
<1> QED BY <1>5, <1>10 DEF SX!ToSet
-----------------------------------------------------------------------------
(* The invariant of the method registry: the index names a peer under a    *)
(* method, and once, exactly if its catalog has the method.                *)
Provides(p, m) == catalog[p] # NoCatalog /\ m \in SX!ToSet(catalog[p])

CatalogInv ==
  /\ CatalogTypeOK
  /\ Distinct(index)
  /\ \A m \in Method : Named(index, m) = {p \in Peer : Provides(p, m)}

LEMMA CatalogsAreSequences == Catalogs \subseteq Seq(Method) /\ NoCatalog \notin Catalogs
<1>1. Catalogs \subseteq Seq(Method)
  BY CatalogConstants DEF CatalogConstants, Catalogs, SX!BoundedSeq, SX!SeqOf
<1> QED BY <1>1, CatalogConstants DEF CatalogConstants

LEMMA CatalogInitInv == CatalogInit => CatalogInv
<1> SUFFICES ASSUME CatalogInit PROVE CatalogInv
  OBVIOUS
<1>1. CatalogTypeOK
  BY DEF CatalogInit, CatalogTypeOK
<1>2. Distinct(index)
  BY DEF CatalogInit, Distinct, SX!IsInjective
<1>3. ASSUME NEW m \in Method PROVE Named(index, m) = {p \in Peer : Provides(p, m)}
  BY DEF CatalogInit, Named, Provides, SX!ToSet
<1> QED BY <1>1, <1>2, <1>3 DEF CatalogInv

LEMMA CatalogUnchanged ==
  ASSUME CatalogInv, UNCHANGED catalogVars
  PROVE  CatalogInv'
BY DEF catalogVars, CatalogInv, CatalogTypeOK, Distinct, Named, Provides

(* The index without p's catalog names p nowhere, and the others as before. *)
LEMMA UnindexedEffect ==
  ASSUME CatalogInv, NEW p \in Peer
  PROVE  /\ Unindexed(p) \in Indices
         /\ Distinct(Unindexed(p))
         /\ \A m \in Method : Named(Unindexed(p), m) = Named(index, m) \ {p}
<1>1. index \in Indices /\ Distinct(index)
  BY DEF CatalogInv, CatalogTypeOK, Indices
<1>2. CASE catalog[p] = NoCatalog
  <2>1. Unindexed(p) = index
    BY <1>2 DEF Unindexed
  <2>2. \A m \in Method : p \notin Named(index, m)
    BY <1>2 DEF CatalogInv, Provides
  <2> QED BY <1>1, <2>1, <2>2
<1>3. CASE catalog[p] # NoCatalog
  <2>1. catalog[p] \in Seq(Method)
    BY <1>3, CatalogsAreSequences DEF CatalogInv, CatalogTypeOK
  <2>2. Removes(index, Unindexed(p), SX!ToSet(catalog[p]), p)
    BY <1>1, <1>3, <2>1, RemoveAllEffect DEF Unindexed
  <2>3. \A m \in Method : m \notin SX!ToSet(catalog[p]) => p \notin Named(index, m)
    BY DEF CatalogInv, Provides
  <2> QED BY <2>2, <2>3 DEF Removes
<1> QED BY <1>2, <1>3

LEMMA UpdateMethodsInv ==
  ASSUME CatalogInv, NEW p \in Peer, NEW ms \in Catalogs, UpdateMethods(p, ms)
  PROVE  CatalogInv'
<1>1. ms \in Seq(Method) /\ ms # NoCatalog
  BY CatalogsAreSequences
<1>2. /\ Unindexed(p) \in Indices /\ Distinct(Unindexed(p))
      /\ \A m \in Method : Named(Unindexed(p), m) = Named(index, m) \ {p}
  BY UnindexedEffect
<1>3. Adds(Unindexed(p), index', SX!ToSet(ms), p)
  BY <1>1, <1>2, AddAllEffect DEF UpdateMethods
<1>4. catalog' = [catalog EXCEPT ![p] = ms]
  BY DEF UpdateMethods
<1>5. CatalogTypeOK' /\ Distinct(index')
  BY <1>3, <1>4 DEF Adds, Indices, CatalogInv, CatalogTypeOK
<1>6. ASSUME NEW m \in Method
      PROVE  Named(index', m) = {q \in Peer : Provides(q, m)'}
  <2>1. Named(index, m) = {q \in Peer : Provides(q, m)}
    BY DEF CatalogInv
  <2>2. ASSUME NEW q \in Peer, q # p PROVE Provides(q, m)' <=> Provides(q, m)
    BY <1>4, <2>2 DEF Provides, CatalogInv, CatalogTypeOK
  <2>3. Provides(p, m)' <=> m \in SX!ToSet(ms)
    BY <1>1, <1>4 DEF Provides, CatalogInv, CatalogTypeOK
  <2>4. Named(index', m) = IF m \in SX!ToSet(ms) THEN (Named(index, m) \ {p}) \cup {p}
                           ELSE Named(index, m) \ {p}
    BY <1>2, <1>3 DEF Adds
  <2> HIDE DEF Provides
  <2> QED BY <2>1, <2>2, <2>3, <2>4
<1> QED BY <1>5, <1>6 DEF CatalogInv, Distinct, Named

LEMMA RemovePeerInv ==
  ASSUME CatalogInv, NEW p \in Peer, RemovePeer(p)
  PROVE  CatalogInv'
<1>1. /\ index' \in Indices /\ Distinct(index')
      /\ \A m \in Method : Named(index', m) = Named(index, m) \ {p}
  BY UnindexedEffect DEF RemovePeer
<1>2. catalog' = [catalog EXCEPT ![p] = NoCatalog]
  BY DEF RemovePeer
<1>3. CatalogTypeOK'
  BY <1>1, <1>2 DEF Indices, CatalogInv, CatalogTypeOK
<1>4. ASSUME NEW m \in Method
      PROVE  Named(index', m) = {q \in Peer : Provides(q, m)'}
  <2>1. Named(index, m) = {q \in Peer : Provides(q, m)}
    BY DEF CatalogInv
  <2>2. ASSUME NEW q \in Peer, q # p PROVE Provides(q, m)' <=> Provides(q, m)
    BY <1>2, <2>2 DEF Provides, CatalogInv, CatalogTypeOK
  <2>3. ~Provides(p, m)'
    BY <1>2 DEF Provides, CatalogInv, CatalogTypeOK
  <2> HIDE DEF Provides
  <2> QED BY <1>1, <2>1, <2>2, <2>3
<1> QED BY <1>1, <1>3, <1>4 DEF CatalogInv, Distinct, Named

(* The invariant is what the queries promise. *)
LEMMA GetMethodMeans ==
  ASSUME NEW p \in Peer, NEW m
  PROVE  GetMethod(p, m) <=> Provides(p, m)
BY DEF GetMethod, GetCatalog, Provides

LEMMA QueriesAgree == CatalogInv => IndexMatchesCatalogs
<1> SUFFICES ASSUME CatalogInv, NEW m \in Method
             PROVE  /\ SX!IsInjective(FindPeersWithMethod(m))
                    /\ SX!ToSet(FindPeersWithMethod(m)) = {p \in Peer : GetMethod(p, m)}
                    /\ SX!ToSet(FindPeersWithMethod(m)) = DOMAIN FindMethods({m})
  BY DEF IndexMatchesCatalogs
<1>1. SX!IsInjective(FindPeersWithMethod(m))
  BY DEF CatalogInv, Distinct, FindPeersWithMethod
<1>2. SX!ToSet(FindPeersWithMethod(m)) = {p \in Peer : Provides(p, m)}
  BY DEF CatalogInv, Named, FindPeersWithMethod
<1>3. {p \in Peer : Provides(p, m)} = {p \in Peer : GetMethod(p, m)}
  BY GetMethodMeans
<1>4. DOMAIN FindMethods({m}) = {p \in Peer : Provides(p, m)}
  <2>1. DOMAIN FindMethods({m}) =
          {q \in DOMAIN GetCatalog : Matched(catalog[q], {m}) # <<>>}
    BY DEF FindMethods
  <2>2. DOMAIN GetCatalog = {q \in Peer : catalog[q] # NoCatalog}
    BY DEF GetCatalog
  <2>3. ASSUME NEW q \in Peer, catalog[q] # NoCatalog
        PROVE  Matched(catalog[q], {m}) # <<>> <=> m \in SX!ToSet(catalog[q])
    <3>1. catalog[q] \in Seq(Method)
      BY <2>3, CatalogsAreSequences DEF CatalogInv, CatalogTypeOK
    <3>2. Matched(catalog[q], {m}) = <<>> <=> SX!ToSet(catalog[q]) \cap {m} = {}
      BY <3>1, MatchedEmpty
    <3> QED BY <3>2
  <2> QED BY <2>1, <2>2, <2>3 DEF Provides
<1> QED BY <1>1, <1>2, <1>3, <1>4

-----------------------------------------------------------------------------
(***************************************************************************)
(* The extended session manager: its own bookkeeping.                      *)
(***************************************************************************)

(* A caller works on a peer exactly while it is in an operation. *)
WorkHasPeer == \A k \in Caller : pc[k] = "idle" <=> peer[k] = NoPeer

(* What holds whatever the callers, and the users of the session manager   *)
(* below, do.                                                              *)
ExtInv ==
  /\ CatalogInv
  /\ TypeOK
  /\ WorkHasPeer
  /\ IsFiniteSet(present)

LEMMA EmptyCatalog == <<>> \in Catalogs
BY CatalogConstants DEF CatalogConstants, Catalogs, SX!BoundedSeq, SX!SeqOf

LEMMA ExtInitInv == Init => ExtInv
<1> SUFFICES ASSUME Init PROVE ExtInv
  OBVIOUS
<1>1. CatalogInv
  BY CatalogInitInv DEF Init
<1>2. TypeOK
  BY <1>1, EmptyCatalog DEF Init, TypeOK, CatalogInv
<1>3. WorkHasPeer
  BY DEF Init, WorkHasPeer
<1> QED BY <1>1, <1>2, <1>3, FS_EmptySet DEF ExtInv, Init

(* Every step of the extended manager keeps its invariant. *)
LEMMA ExtNextInv ==
  ASSUME ExtInv, Next
  PROVE  ExtInv'
<1> USE NoPeerAssumption DEF NoPeerAssumption
<1>0. CatalogInv /\ TypeOK /\ WorkHasPeer /\ IsFiniteSet(present)
  BY DEF ExtInv
<1>1. ASSUME NEW k \in Caller, NEW p \in Peer, ExtRegister(k, p) PROVE ExtInv'
  <2>1. CatalogInv' /\ IsFiniteSet(present')
    BY <1>0, <1>1, CatalogUnchanged, FS_AddElement DEF ExtRegister
  <2>2. TypeOK' /\ WorkHasPeer'
    BY <1>0, <1>1, <2>1 DEF ExtRegister, Begin, TypeOK, WorkHasPeer, CatalogInv
  <2> QED BY <2>1, <2>2 DEF ExtInv
<1>2. ASSUME NEW k \in Caller, CreateBreaker(k) PROVE ExtInv'
  <2>1. CatalogInv' /\ IsFiniteSet(present')
    BY <1>0, <1>2, CatalogUnchanged DEF CreateBreaker
  <2>2. peer[k] \in Peer
    BY <1>0, <1>2 DEF CreateBreaker, Finish, TypeOK, WorkHasPeer
  <2>3. TypeOK' /\ WorkHasPeer'
    BY <1>0, <1>2, <2>1, <2>2 DEF CreateBreaker, Finish, TypeOK, WorkHasPeer, CatalogInv
  <2> QED BY <2>1, <2>3 DEF ExtInv
<1>3. ASSUME NEW k \in Caller, NEW p \in Peer, NEW ms \in Catalogs, CheckSession(k, p, ms)
      PROVE  ExtInv'
  <2>1. CatalogInv' /\ IsFiniteSet(present')
    BY <1>0, <1>3, CatalogUnchanged DEF CheckSession
  <2>2. TypeOK' /\ WorkHasPeer'
    BY <1>0, <1>3, <2>1 DEF CheckSession, Begin, TypeOK, WorkHasPeer, CatalogInv
  <2> QED BY <2>1, <2>2 DEF ExtInv
<1>4. ASSUME NEW k \in Caller, Publish(k) PROVE ExtInv'
  <2>1. peer[k] \in Peer /\ methods[k] \in Catalogs
    BY <1>0, <1>4 DEF Publish, Finish, TypeOK, WorkHasPeer
  <2>2. CatalogInv' /\ IsFiniteSet(present')
    BY <1>0, <1>4, <2>1, UpdateMethodsInv DEF Publish
  <2>3. TypeOK' /\ WorkHasPeer'
    BY <1>0, <1>4, <2>2, EmptyCatalog DEF Publish, Finish, TypeOK, WorkHasPeer, CatalogInv
  <2> QED BY <2>2, <2>3 DEF ExtInv
<1>5. ASSUME NEW k \in Caller, NEW p \in Peer, ExtRemove(k, p) PROVE ExtInv'
  <2>1. CatalogInv' /\ IsFiniteSet(present')
    BY <1>0, <1>5, CatalogUnchanged, FS_Subset DEF ExtRemove
  <2>2. TypeOK' /\ WorkHasPeer'
    BY <1>0, <1>5, <2>1 DEF ExtRemove, Begin, TypeOK, WorkHasPeer, CatalogInv
  <2> QED BY <2>1, <2>2 DEF ExtInv
<1>6. ASSUME NEW k \in Caller, ForgetMethods(k) PROVE ExtInv'
  <2>1. peer[k] \in Peer
    BY <1>0, <1>6 DEF ForgetMethods, TypeOK, WorkHasPeer
  <2>2. CatalogInv' /\ IsFiniteSet(present')
    BY <1>0, <1>6, <2>1, RemovePeerInv DEF ForgetMethods
  <2>3. TypeOK' /\ WorkHasPeer'
    BY <1>0, <1>6, <2>2 DEF ForgetMethods, TypeOK, WorkHasPeer, CatalogInv
  <2> QED BY <2>2, <2>3 DEF ExtInv
<1>7. ASSUME NEW k \in Caller, DropBreaker(k) PROVE ExtInv'
  <2>1. CatalogInv' /\ IsFiniteSet(present')
    BY <1>0, <1>7, CatalogUnchanged DEF DropBreaker
  <2>2. TypeOK' /\ WorkHasPeer'
    BY <1>0, <1>7, <2>1 DEF DropBreaker, Finish, TypeOK, WorkHasPeer, CatalogInv
  <2> QED BY <2>1, <2>2 DEF ExtInv
<1>8. ASSUME NEW p \in Peer, SharedRegister(p) PROVE ExtInv'
  <2>1. CatalogInv' /\ IsFiniteSet(present')
    BY <1>0, <1>8, CatalogUnchanged, FS_AddElement DEF SharedRegister
  <2>2. TypeOK' /\ WorkHasPeer'
    BY <1>0, <1>8, <2>1 DEF SharedRegister, extVars, TypeOK, WorkHasPeer, CatalogInv
  <2> QED BY <2>1, <2>2 DEF ExtInv
<1>9. ASSUME NEW S, SharedRemove(S) PROVE ExtInv'
  <2>1. CatalogInv' /\ IsFiniteSet(present')
    BY <1>0, <1>9, CatalogUnchanged, FS_Subset DEF SharedRemove
  <2>2. TypeOK' /\ WorkHasPeer'
    BY <1>0, <1>9, <2>1 DEF SharedRemove, extVars, TypeOK, WorkHasPeer, CatalogInv
  <2> QED BY <2>1, <2>2 DEF ExtInv
<1> QED BY <1>1, <1>2, <1>3, <1>4, <1>5, <1>6, <1>7, <1>8, <1>9 DEF Next, Operation

LEMMA ExtUnchanged ==
  ASSUME ExtInv, UNCHANGED vars
  PROVE  ExtInv'
<1>1. CatalogInv' /\ IsFiniteSet(present')
  BY CatalogUnchanged DEF ExtInv, vars
<1>2. TypeOK' /\ WorkHasPeer'
  BY <1>1 DEF ExtInv, vars, extVars, TypeOK, WorkHasPeer, CatalogInv
<1> QED BY <1>1, <1>2 DEF ExtInv
-----------------------------------------------------------------------------
(***************************************************************************)
(* The search among the operations it runs beside.                         *)
(***************************************************************************)

(* The lists a search works on: no peer twice, and only listed ones. *)
SearchLists ==
  /\ SX!IsInjective(todo) /\ SX!IsInjective(healthy)
  /\ SX!ToSet(todo) \cap SX!ToSet(healthy) = {}
  /\ SX!ToSet(todo) \cup SX!ToSet(healthy) \subseteq seen.listed
  /\ stage = "idle" <=> todo = <<>>

(* What the list built so far owes to its reader. *)
SearchResult ==
  /\ seen.fit \subseteq SX!ToSet(healthy) \cup SX!ToSet(todo)
  /\ SX!ToSet(healthy) \cap (seen.gone \cup seen.open) = {}

(* The history is about the present. *)
SearchHistory ==
  stage # "idle" =>
    /\ seen.fit \subseteq present \ tripped
    /\ seen.gone \cap present = {}
    /\ seen.open \subseteq tripped

(* The answer of the session manager, which may be out of date when the    *)
(* breaker is asked, was right at some moment of the search.               *)
SearchAnswer ==
  stage = "breaker" =>
    IF alive THEN Head(todo) \notin seen.gone ELSE Head(todo) \notin seen.fit

SearchInv ==
  /\ ExtInv
  /\ SearchTypeOK
  /\ SearchLists
  /\ SearchResult
  /\ SearchHistory
  /\ SearchAnswer

LEMMA SearchInitInv == SearchInit => SearchInv
<1> SUFFICES ASSUME SearchInit PROVE SearchInv
  OBVIOUS
<1>1. ExtInv
  BY ExtInitInv DEF SearchInit
<1>2. <<>> \in Seq(Peer)
  OBVIOUS
<1>3. SearchTypeOK
  BY <1>1, <1>2, Zenon DEF SearchInit, SearchTypeOK, ExtInv
<1>4. SearchLists
  BY DEF SearchInit, SearchLists, SX!ToSet, SX!IsInjective
<1>5. SearchResult /\ SearchHistory /\ SearchAnswer
  BY DEF SearchInit, SearchResult, SearchHistory, SearchAnswer
<1> QED BY <1>1, <1>3, <1>4, <1>5 DEF SearchInv

(* A step that leaves the search alone may change what it looks at: the    *)
(* history follows.                                                        *)
LEMMA BesideSearch ==
  ASSUME SearchInv, ExtInv', tripped' \subseteq breakers', UNCHANGED searchVars, Watch
  PROVE  SearchInv'
<1> USE DEF searchVars
<1>1. /\ seen'.listed = seen.listed /\ seen'.fit \subseteq seen.fit
      /\ seen'.gone \subseteq seen.gone /\ seen'.open \subseteq seen.open
      /\ seen' \in [listed : SUBSET Peer, fit : SUBSET Peer,
                    gone : SUBSET Peer, open : SUBSET Peer]
  BY DEF Watch, SearchInv, SearchTypeOK
<1>2. SearchTypeOK'
  BY <1>1 DEF SearchInv, SearchTypeOK, ExtInv
<1>3. SearchLists' /\ SearchResult' /\ SearchAnswer'
  BY <1>1 DEF SearchInv, SearchLists, SearchResult, SearchAnswer
<1>4. SearchHistory'
  BY DEF Watch, SearchHistory, SearchInv, SearchTypeOK
<1> QED BY <1>2, <1>3, <1>4 DEF SearchInv

(* A search begins with a list of the listed peers that names none twice. *)
LEMMA BeginSearchInv ==
  ASSUME SearchInv, NEW c \in Seq(Peer), NEW listed \in SUBSET Peer,
         SX!IsInjective(c), SX!ToSet(c) = listed,
         BeginSearch(c), WatchFrom(listed)
  PROVE  SearchInv'
<1>1. /\ stage' = IF c = <<>> THEN "idle" ELSE "session"
      /\ todo' = c /\ alive' = FALSE /\ healthy' = <<>>
      /\ UNCHANGED <<vars, tripped>>
  BY DEF BeginSearch
<1>2. ExtInv'
  BY <1>1, ExtUnchanged DEF SearchInv
<1>3. present' = present /\ breakers' = breakers
  BY <1>1 DEF vars, extVars
<1>4. seen' = [listed |-> listed, fit |-> (listed \cap present) \ tripped,
               gone |-> listed \ present, open |-> listed \cap tripped]
  BY DEF WatchFrom
<1>5. SearchTypeOK'
  <2>1. tripped \subseteq Peer /\ tripped \subseteq breakers /\ present \subseteq Peer
    BY DEF SearchInv, SearchTypeOK, ExtInv, TypeOK
  <2>2. tripped' \subseteq breakers' /\ stage' \in {"idle", "session", "breaker"}
    BY <1>1, <1>3, <2>1
  <2>3. todo' \in Seq(Peer) /\ healthy' \in Seq(Peer) /\ alive' \in BOOLEAN
    <3>1. <<>> \in Seq(Peer)
      OBVIOUS
    <3> QED BY <1>1, <3>1, Zenon
  <2>4. seen' \in [listed : SUBSET Peer, fit : SUBSET Peer,
                   gone : SUBSET Peer, open : SUBSET Peer]
    BY <1>4, <2>1
  <2> QED BY <1>2, <2>2, <2>3, <2>4 DEF SearchTypeOK, ExtInv
<1>6. SX!ToSet(<<>>) = {} /\ SX!IsInjective(<<>>)
  BY DEF SX!ToSet, SX!IsInjective
<1>7. SearchLists'
  BY <1>1, <1>4, <1>6 DEF SearchLists
<1>8. SearchResult' /\ SearchHistory' /\ SearchAnswer'
  BY <1>1, <1>3, <1>4, <1>6 DEF SearchResult, SearchHistory, SearchAnswer
<1> QED BY <1>2, <1>5, <1>7, <1>8 DEF SearchInv

(* A list that names the members of a finite set once each names them all. *)
LEMMA ListingIsComplete ==
  ASSUME NEW S, IsFiniteSet(S), NEW c \in SX!SetToSeqs(S)
  PROVE  c \in Seq(S) /\ SX!IsInjective(c) /\ SX!ToSet(c) = S
<1>1. Cardinality(S) \in Nat
  BY FS_CardinalityType
<1>2. c \in [1 .. Cardinality(S) -> S] /\ SX!IsInjective(c)
  <2>1. SX!Cardinality(S) = Cardinality(S)
    BY DEF SX!Cardinality, Cardinality
  <2> QED BY <2>1 DEF SX!SetToSeqs, SX!IsInjective
<1>3. c \in Seq(S)
  BY <1>1, <1>2
<1>4. SX!ToSet(c) = S
  <2>1. IsFiniteSet(1 .. Cardinality(S)) /\ Cardinality(1 .. Cardinality(S)) = Cardinality(S)
    BY <1>1, FS_Interval
  <2>2. c \in Injection(1 .. Cardinality(S), S)
    BY <1>2 DEF SX!IsInjective, Injection, IsInjective
  <2>3. c \in Surjection(1 .. Cardinality(S), S)
    BY <2>1, <2>2, FS_Injection
  <2> QED BY <1>1, <1>2, <1>3, <2>3 DEF SX!ToSet, Surjection
<1> QED BY <1>2, <1>3, <1>4

LEMMA ListHealthyPeersInv == SearchInv /\ ListHealthyPeers => SearchInv'
<1> SUFFICES ASSUME SearchInv, ListHealthyPeers PROVE SearchInv'
  OBVIOUS
<1>1. PICK c \in SX!SetToSeqs(present) : BeginSearch(c)
  BY DEF ListHealthyPeers
<1>2. c \in Seq(present) /\ SX!IsInjective(c) /\ SX!ToSet(c) = present
  BY ListingIsComplete DEF SearchInv, ExtInv
<1>3. present \in SUBSET Peer /\ WatchFrom(present)
  BY DEF SearchInv, ExtInv, TypeOK, ListHealthyPeers
<1>4. c \in Seq(Peer)
  BY <1>2, <1>3
<1> QED BY <1>1, <1>2, <1>3, <1>4, BeginSearchInv

LEMMA FindHealthyPeersInv ==
  ASSUME SearchInv, NEW m \in Method, FindHealthyPeersWithMethod(m)
  PROVE  SearchInv'
<1> DEFINE listed == {p \in Peer : GetMethod(p, m)}
<1>1. FindPeersWithMethod(m) \in Seq(Peer)
  BY DEF SearchInv, ExtInv, CatalogInv, CatalogTypeOK, FindPeersWithMethod
<1>2. /\ SX!IsInjective(FindPeersWithMethod(m))
      /\ SX!ToSet(FindPeersWithMethod(m)) = listed
  BY QueriesAgree DEF SearchInv, ExtInv, IndexMatchesCatalogs
<1>3. BeginSearch(FindPeersWithMethod(m)) /\ WatchFrom(listed)
  BY DEF FindHealthyPeersWithMethod
<1>4. listed \in SUBSET Peer
  OBVIOUS
<1> HIDE DEF listed
<1> QED BY <1>1, <1>2, <1>3, <1>4, BeginSearchInv

(* What the first candidate and the rest are. *)
LEMMA FirstCandidate ==
  ASSUME NEW t \in Seq(Peer), t # <<>>, SX!IsInjective(t)
  PROVE  /\ Head(t) \in Peer
         /\ Tail(t) \in Seq(Peer)
         /\ SX!IsInjective(Tail(t))
         /\ Head(t) \notin SX!ToSet(Tail(t))
         /\ SX!ToSet(t) = SX!ToSet(Tail(t)) \cup {Head(t)}
<1>1. /\ Len(t) \in Nat \ {0} /\ DOMAIN t = 1 .. Len(t)
      /\ Head(t) = t[1] /\ Tail(t) \in Seq(Peer)
      /\ Len(Tail(t)) = Len(t) - 1 /\ DOMAIN Tail(t) = 1 .. Len(t) - 1
      /\ \A i \in 1 .. Len(t) - 1 : Tail(t)[i] = t[i + 1]
  OBVIOUS
<1>2. Head(t) \in Peer
  BY <1>1
<1>3. SX!IsInjective(Tail(t))
  BY <1>1 DEF SX!IsInjective
<1>4. Head(t) \notin SX!ToSet(Tail(t))
  BY <1>1 DEF SX!IsInjective, SX!ToSet
<1>5. SX!ToSet(t) = SX!ToSet(Tail(t)) \cup {Head(t)}
  <2>1. ASSUME NEW i \in 1 .. Len(t)
        PROVE  t[i] \in SX!ToSet(Tail(t)) \cup {Head(t)}
    <3>1. CASE i = 1
      BY <1>1, <3>1
    <3>2. CASE i # 1
      <4>1. i - 1 \in 1 .. Len(t) - 1 /\ t[i] = Tail(t)[i - 1]
        BY <1>1, <3>2
      <4> QED BY <1>1, <4>1 DEF SX!ToSet
    <3> QED BY <3>1, <3>2
  <2>2. ASSUME NEW i \in 1 .. Len(t) - 1 PROVE Tail(t)[i] \in SX!ToSet(t)
    <3>1. i + 1 \in 1 .. Len(t) /\ Tail(t)[i] = t[i + 1]
      BY <1>1
    <3> QED BY <1>1, <3>1 DEF SX!ToSet
  <2>3. Head(t) \in SX!ToSet(t)
    BY <1>1 DEF SX!ToSet
  <2>4. SX!ToSet(t) \subseteq SX!ToSet(Tail(t)) \cup {Head(t)}
    <3> DEFINE all == SX!ToSet(Tail(t)) \cup {Head(t)}
    <3>1. \A i \in 1 .. Len(t) : t[i] \in all
      BY <2>1
    <3> HIDE DEF all
    <3>2. SX!ToSet(t) \subseteq all
      BY <1>1, <3>1 DEF SX!ToSet
    <3> QED BY <3>2 DEF all
  <2>5. SX!ToSet(Tail(t)) \subseteq SX!ToSet(t)
    <3> DEFINE all == SX!ToSet(t)
    <3>1. \A i \in 1 .. Len(t) - 1 : Tail(t)[i] \in all
      BY <2>2
    <3> HIDE DEF all
    <3>2. SX!ToSet(Tail(t)) \subseteq all
      BY <1>1, <3>1 DEF SX!ToSet
    <3> QED BY <3>2 DEF all
  <2> QED BY <2>3, <2>4, <2>5
<1> QED BY <1>1, <1>2, <1>3, <1>4, <1>5

LEMMA OneMoreHealthy ==
  ASSUME NEW h \in Seq(Peer), NEW p \in Peer, SX!IsInjective(h), p \notin SX!ToSet(h)
  PROVE  /\ Append(h, p) \in Seq(Peer)
         /\ SX!IsInjective(Append(h, p))
         /\ SX!ToSet(Append(h, p)) = SX!ToSet(h) \cup {p}
<1>1. /\ Append(h, p) \in Seq(Peer) /\ Len(Append(h, p)) = Len(h) + 1
      /\ DOMAIN h = 1 .. Len(h) /\ DOMAIN Append(h, p) = 1 .. Len(h) + 1
      /\ Append(h, p)[Len(h) + 1] = p
      /\ \A i \in 1 .. Len(h) : Append(h, p)[i] = h[i]
      /\ 1 .. Len(h) + 1 = (1 .. Len(h)) \cup {Len(h) + 1}
  OBVIOUS
<1>2. SX!IsInjective(Append(h, p))
  BY <1>1 DEF SX!IsInjective, SX!ToSet
<1>3. SX!ToSet(Append(h, p)) = SX!ToSet(h) \cup {p}
  BY <1>1 DEF SX!ToSet
<1> QED BY <1>1, <1>2, <1>3

(* HealthCheck asks the session manager. *)
LEMMA CheckHealthInv == SearchInv /\ CheckHealth /\ Watch => SearchInv'
<1> SUFFICES ASSUME SearchInv, CheckHealth, Watch PROVE SearchInv'
  OBVIOUS
<1>1. /\ stage = "session" /\ stage' = "breaker"
      /\ alive' = (Head(todo) \in present)
      /\ UNCHANGED <<vars, tripped, todo, healthy>>
  BY DEF CheckHealth
<1>2. ExtInv'
  BY <1>1, ExtUnchanged DEF SearchInv
<1>3. present' = present /\ breakers' = breakers
  BY <1>1 DEF vars, extVars
<1>4. /\ seen' \in [listed : SUBSET Peer, fit : SUBSET Peer,
                    gone : SUBSET Peer, open : SUBSET Peer]
      /\ seen'.listed = seen.listed /\ seen'.fit = seen.fit
      /\ seen'.gone = seen.gone /\ seen'.open = seen.open
  BY <1>1, <1>3 DEF Watch, SearchInv, SearchHistory, SearchTypeOK
<1>5. SearchTypeOK'
  <2>1. (Head(todo) \in present) \in BOOLEAN
    OBVIOUS
  <2>2. alive' \in BOOLEAN
    BY <1>1, <2>1
  <2> QED BY <1>1, <1>2, <1>3, <1>4, <2>2 DEF SearchInv, SearchTypeOK, ExtInv
<1>6. SearchLists' /\ SearchResult' /\ SearchHistory'
  BY <1>1, <1>3, <1>4 DEF SearchInv, SearchLists, SearchResult, SearchHistory
<1>7. SearchAnswer'
  BY <1>1, <1>4 DEF SearchInv, SearchHistory, SearchAnswer
<1> QED BY <1>2, <1>5, <1>6, <1>7 DEF SearchInv

(* HealthCheck asks the breaker, and the candidate is kept or dropped. *)
LEMMA CheckBreakerInv == SearchInv /\ CheckBreaker /\ Watch => SearchInv'
<1> SUFFICES ASSUME SearchInv, CheckBreaker, Watch PROVE SearchInv'
  OBVIOUS
<1> DEFINE p == Head(todo)
           keep == alive /\ p \notin tripped
<1>1. /\ stage = "breaker" /\ todo' = Tail(todo) /\ alive' = FALSE
      /\ stage' = IF todo' = <<>> THEN "idle" ELSE "session"
      /\ healthy' = IF keep THEN Append(healthy, p) ELSE healthy
      /\ UNCHANGED <<vars, tripped>>
  BY DEF CheckBreaker
<1>2. ExtInv'
  BY <1>1, ExtUnchanged DEF SearchInv
<1>3. present' = present /\ breakers' = breakers
  BY <1>1 DEF vars, extVars
<1>4. /\ seen' \in [listed : SUBSET Peer, fit : SUBSET Peer,
                    gone : SUBSET Peer, open : SUBSET Peer]
      /\ seen'.listed = seen.listed /\ seen'.fit = seen.fit
      /\ seen'.gone = seen.gone /\ seen'.open = seen.open
  BY <1>1, <1>3 DEF Watch, SearchInv, SearchHistory, SearchTypeOK
<1>5. /\ todo \in Seq(Peer) /\ healthy \in Seq(Peer) /\ todo # <<>>
      /\ SX!IsInjective(todo) /\ SX!IsInjective(healthy)
      /\ SX!ToSet(todo) \cap SX!ToSet(healthy) = {}
      /\ SX!ToSet(todo) \cup SX!ToSet(healthy) \subseteq seen.listed
  BY <1>1 DEF SearchInv, SearchTypeOK, SearchLists
<1>6. /\ p \in Peer /\ Tail(todo) \in Seq(Peer) /\ SX!IsInjective(Tail(todo))
      /\ p \notin SX!ToSet(Tail(todo))
      /\ SX!ToSet(todo) = SX!ToSet(Tail(todo)) \cup {p}
  BY <1>5, FirstCandidate
<1> HIDE DEF p
<1>7. /\ healthy' \in Seq(Peer) /\ SX!IsInjective(healthy')
      /\ SX!ToSet(healthy') = IF keep THEN SX!ToSet(healthy) \cup {p} ELSE SX!ToSet(healthy)
  <2>1. p \notin SX!ToSet(healthy)
    BY <1>5, <1>6
  <2> QED BY <1>1, <1>5, <1>6, <2>1, OneMoreHealthy
<1>8. keep => p \notin seen.gone \cup seen.open
  BY <1>1 DEF SearchInv, SearchHistory, SearchAnswer, p
<1>9. ~keep => p \notin seen.fit
  BY <1>1 DEF SearchInv, SearchHistory, SearchAnswer, p
<1> HIDE DEF keep
<1>10. SearchTypeOK'
  BY <1>1, <1>2, <1>3, <1>4, <1>6, <1>7 DEF SearchInv, SearchTypeOK, ExtInv
<1>11. SearchLists'
  BY <1>1, <1>4, <1>5, <1>6, <1>7 DEF SearchLists
<1>12. SearchResult'
  BY <1>1, <1>4, <1>6, <1>7, <1>8, <1>9 DEF SearchInv, SearchResult
<1>13. SearchHistory' /\ SearchAnswer'
  BY <1>1, <1>3, <1>4 DEF SearchInv, SearchHistory, SearchAnswer
<1> QED BY <1>2, <1>10, <1>11, <1>12, <1>13 DEF SearchInv

LEMMA SearchNextInv == SearchInv /\ [SearchNext]_allVars => SearchInv'
<1> SUFFICES ASSUME SearchInv, [SearchNext]_allVars PROVE SearchInv'
  OBVIOUS
<1>1. CASE ListHealthyPeers
  BY <1>1, ListHealthyPeersInv
<1>2. ASSUME NEW m \in Method, FindHealthyPeersWithMethod(m) PROVE SearchInv'
  BY <1>2, FindHealthyPeersInv
<1>3. CASE CheckHealth /\ Watch
  BY <1>3, CheckHealthInv
<1>4. CASE CheckBreaker /\ Watch
  BY <1>4, CheckBreakerInv
<1>5. ASSUME NEW p \in Peer, ExecuteWithCircuitBreaker(p), Watch PROVE SearchInv'
  <2>1. ExtInv'
    BY <1>5, ExtUnchanged DEF SearchInv, ExecuteWithCircuitBreaker
  <2>2. tripped' \subseteq breakers'
    BY <1>5 DEF SearchInv, SearchTypeOK, ExecuteWithCircuitBreaker, vars, extVars
  <2> QED BY <1>5, <2>1, <2>2, BesideSearch DEF ExecuteWithCircuitBreaker
<1>6. CASE ManagerStep /\ Watch
  <2>1. ExtInv'
    BY <1>6, ExtNextInv DEF SearchInv, ManagerStep
  <2> QED BY <1>6, <2>1, BesideSearch DEF ManagerStep
<1>7. CASE UNCHANGED allVars
  <2>1. ExtInv'
    BY <1>7, ExtUnchanged DEF SearchInv, allVars
  <2>2. present' = present /\ breakers' = breakers
    BY <1>7 DEF allVars, vars, extVars
  <2> QED
    BY <1>7, <2>1, <2>2 DEF allVars, searchVars, SearchInv, SearchTypeOK, ExtInv,
       SearchLists, SearchResult, SearchHistory, SearchAnswer
<1> QED BY <1>1, <1>2, <1>3, <1>4, <1>5, <1>6, <1>7 DEF SearchNext

LEMMA SearchInvariance == SearchSpec => []SearchInv
BY SearchInitInv, SearchNextInv, PTL DEF SearchSpec

(* Type correctness of the extended manager and its searches, for any      *)
(* peers, callers and methods.                                             *)
THEOREM SearchTypeCorrect == SearchSpec => []SearchTypeOK
<1>1. SearchInv => SearchTypeOK
  BY DEF SearchInv
<1> QED BY <1>1, SearchInvariance, PTL

(* The index that UpdateMethods and RemovePeer maintain by hand agrees     *)
(* with the catalogs after any number of updates by any callers, of lists  *)
(* of any length, with repetitions.                                        *)
THEOREM IndexIsRight == SearchSpec => []IndexMatchesCatalogs
<1>1. SearchInv => IndexMatchesCatalogs
  BY QueriesAgree DEF SearchInv, ExtInv
<1> QED BY <1>1, SearchInvariance, PTL

(* ListHealthyPeers and FindHealthyPeersWithMethod are sound and complete  *)
(* for any number of peers, sessions and callers that change the registry, *)
(* the catalogs and the breakers while the search runs.                    *)
THEOREM SearchesAreAccurate == SearchSpec => []SearchIsAccurate
<1>1. SearchInv => SearchIsAccurate
  <2> SUFFICES ASSUME SearchInv, stage = "idle"
               PROVE  /\ SX!IsInjective(healthy)
                      /\ seen.fit \subseteq SX!ToSet(healthy)
                      /\ SX!ToSet(healthy) \subseteq seen.listed \ (seen.gone \cup seen.open)
    BY DEF SearchIsAccurate
  <2>1. SX!ToSet(todo) = {}
    BY DEF SearchInv, SearchLists, SX!ToSet
  <2> QED BY <2>1 DEF SearchInv, SearchLists, SearchResult
<1> QED BY <1>1, SearchInvariance, PTL
-----------------------------------------------------------------------------
(***************************************************************************)
(* A breaker.                                                              *)
(***************************************************************************)

(* While half-open no failure has been recorded: the first one trips the   *)
(* breaker.  With a failure ratio it does so because failures never lag    *)
(* behind attempts in that state.                                          *)
NoAttemptHalfOpen ==
  RatioNum > 0 /\ state = "half-open" => attempts = 0

BreakerInv ==
  /\ BreakerTypeOK
  /\ ClosedIsHealthy
  /\ NoAttemptHalfOpen

LEMMA MaxProbesPositive == MaxProbes \in Nat \ {0}
BY BreakerConstants DEF BreakerConstants, MaxProbes

(* A saturating counter stays in its range. *)
LEMMA BumpType ==
  ASSUME NEW n \in 0 .. CounterCap
  PROVE  Bump(n) \in 0 .. CounterCap
BY BreakerConstants DEF BreakerConstants, Bump

LEMMA BreakerInitInv == BreakerInit => BreakerInv
<1> SUFFICES ASSUME BreakerInit PROVE BreakerInv
  OBVIOUS
<1> USE BreakerConstants, MaxProbesPositive DEF BreakerConstants, BreakerInit
<1>1. BreakerTypeOK
  BY DEF BreakerTypeOK
<1>2. ClosedIsHealthy /\ NoAttemptHalfOpen
  BY DEF ClosedIsHealthy, NoAttemptHalfOpen
<1> QED BY <1>1, <1>2 DEF BreakerInv

(* A probe is admitted, and the half-open state entered, with attempts at  *)
(* zero.                                                                   *)
LEMMA AllowInv ==
  ASSUME BreakerInv, NEW k \in Caller, Allow(k)
  PROVE  BreakerInv'
<1> USE BreakerConstants DEF BreakerConstants, BreakerInv, BreakerTypeOK
<1>1. /\ state' \in {"closed", "open", "half-open"}
      /\ attempts' \in 0 .. CounterCap
      /\ elapsed' \in 0 .. Timeout + 1
      /\ UNCHANGED <<failures, successes, serviceUp>>
  BY DEF Allow, SetState
<1>2. call' \in [Caller -> {"idle", "calling"}]
  BY DEF Allow
<1>3. BreakerTypeOK'
  BY <1>1, <1>2
<1>4. ClosedIsHealthy' /\ NoAttemptHalfOpen'
  BY DEF Allow, SetState, ClosedIsHealthy, NoAttemptHalfOpen
<1> QED BY <1>3, <1>4

(* A success: enough of them close a half-open breaker, with its counters  *)
(* reset.                                                                  *)
LEMMA SuccessInv ==
  ASSUME BreakerInv, RecordSuccess, UNCHANGED serviceUp,
         call' \in [Caller -> {"idle", "calling"}]
  PROVE  BreakerInv'
<1> USE BreakerConstants, MaxProbesPositive
    DEF BreakerConstants, BreakerInv, BreakerTypeOK, ClosedIsHealthy, NoAttemptHalfOpen
<1>1. CASE state = "half-open" /\ successes + 1 >= MaxProbes
  BY <1>1 DEF RecordSuccess, SetState, ResetCounters
<1>2. CASE state = "half-open" /\ ~(successes + 1 >= MaxProbes)
  <2>1. /\ successes' = successes + 1
        /\ UNCHANGED <<state, elapsed, failures, attempts>>
    BY <1>2 DEF RecordSuccess
  <2> QED BY <1>2, <2>1
<1>3. CASE state = "closed"
  <2>1. attempts' \in 0 .. CounterCap
    BY <1>3, BumpType DEF RecordSuccess
  <2> QED BY <1>3, <2>1 DEF RecordSuccess
<1>4. CASE state = "open"
  BY <1>4 DEF RecordSuccess
<1> QED BY <1>1, <1>2, <1>3, <1>4

(* A failure leaves the breaker closed only below the limit, and never     *)
(* leaves it half-open when a ratio is set: one failure in one attempt     *)
(* reaches every ratio.                                                    *)
LEMMA FailureInv ==
  ASSUME BreakerInv, RecordFailure, UNCHANGED serviceUp,
         call' \in [Caller -> {"idle", "calling"}]
  PROVE  BreakerInv'
<1> USE BreakerConstants DEF BreakerConstants, BreakerInv, BreakerTypeOK
<1>1. failures' \in 0 .. CounterCap /\ attempts' \in 0 .. CounterCap
  BY BumpType DEF RecordFailure
<1>2. /\ state' = IF ShouldTrip(failures', attempts') THEN "open" ELSE state
      /\ elapsed' = IF ShouldTrip(failures', attempts') THEN 0 ELSE elapsed
      /\ successes' = successes
  BY DEF RecordFailure, SetState
<1>3. BreakerTypeOK'
  BY <1>1, <1>2
<1>4. ClosedIsHealthy'
  BY <1>1, <1>2 DEF ClosedIsHealthy, ShouldTrip
<1>5. NoAttemptHalfOpen'
  <2> SUFFICES ASSUME RatioNum > 0, state' = "half-open" PROVE FALSE
    BY DEF NoAttemptHalfOpen
  <2>1. state = "half-open" /\ ~ShouldTrip(failures', attempts')
    BY <1>2
  <2>2. attempts = 0
    BY <2>1 DEF NoAttemptHalfOpen
  <2>3. CounterCap >= 1
    OBVIOUS
  <2>4. attempts' = 1 /\ failures' >= 1
    BY <2>2, <2>3 DEF RecordFailure, Bump
  <2>5. failures' * RatioDen >= RatioDen
    BY <2>4, <1>1
  <2> QED BY <2>1, <2>4, <2>5, <1>1 DEF ShouldTrip
<1> QED BY <1>3, <1>4, <1>5

LEMMA BreakerNextInv == BreakerInv /\ [BreakerNext]_breakerVars => BreakerInv'
<1> SUFFICES ASSUME BreakerInv, [BreakerNext]_breakerVars PROVE BreakerInv'
  OBVIOUS
<1>1. ASSUME NEW k \in Caller, Allow(k) PROVE BreakerInv'
  BY <1>1, AllowInv
<1>2. ASSUME NEW k \in Caller, Return(k) PROVE BreakerInv'
  <2>1. call' \in [Caller -> {"idle", "calling"}] /\ UNCHANGED serviceUp
    BY <1>2 DEF Return, BreakerInv, BreakerTypeOK
  <2>2. CASE RecordSuccess
    BY <2>1, <2>2, SuccessInv
  <2>3. CASE RecordFailure
    BY <2>1, <2>3, FailureInv
  <2> QED BY <1>2, <2>2, <2>3 DEF Return
<1> USE BreakerConstants, MaxProbesPositive
    DEF BreakerConstants, BreakerInv, BreakerTypeOK, ClosedIsHealthy, NoAttemptHalfOpen
<1>3. CASE Reset
  BY <1>3 DEF Reset, SetState, ResetCounters
<1>4. CASE ForceOpen
  BY <1>4 DEF ForceOpen, SetState
<1>5. CASE BreakerTick
  BY <1>5 DEF BreakerTick
<1>6. CASE ServiceChanges
  BY <1>6 DEF ServiceChanges
<1>7. CASE UNCHANGED breakerVars
  BY <1>7 DEF breakerVars
<1> QED BY <1>1, <1>2, <1>3, <1>4, <1>5, <1>6, <1>7 DEF BreakerNext

LEMMA BreakerInvariance == BreakerSpec => []BreakerInv
BY BreakerInitInv, BreakerNextInv, PTL DEF BreakerSpec

-----------------------------------------------------------------------------
(* The counters stay in their ranges: no success is counted beyond the one *)
(* that closes the breaker.                                                *)
THEOREM BreakerTypeCorrect == BreakerSpec => []BreakerTypeOK
BY BreakerInvariance, PTL DEF BreakerInv

(* No late result leaves a breaker closed that has reached MaxFailures.    *)
THEOREM ClosedBreakersAreHealthy == BreakerSpec => []ClosedIsHealthy
BY BreakerInvariance, PTL DEF BreakerInv

(* With a failure ratio set a half-open breaker that waits for no result   *)
(* admits another probe.  Without one it need not: ForceOpen on a breaker  *)
(* that has seen no failure, and then one failed probe with                *)
(* HalfOpenMaxAttempts = 1, leave it half-open and closed to every caller. *)
THEOREM HalfOpenBreakersAdmit == RatioNum > 0 => (BreakerSpec => []HalfOpenNotStuck)
<1> SUFFICES ASSUME RatioNum > 0 PROVE BreakerSpec => []HalfOpenNotStuck
  OBVIOUS
<1>1. BreakerInv => HalfOpenNotStuck
  BY MaxProbesPositive DEF BreakerInv, NoAttemptHalfOpen, HalfOpenNotStuck
<1> QED BY <1>1, BreakerInvariance, PTL
=============================================================================
