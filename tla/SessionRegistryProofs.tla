------------------------ MODULE SessionRegistryProofs ------------------------
(***************************************************************************)
(* Facts about the operations of SessionRegistry that hold for every set   *)
(* of peers and sessions: each preserves the registry's invariant and is a *)
(* step, or a stutter, of the abstract directory.  The proofs about the    *)
(* modules that drive the registry cite these lemmas.                      *)
(***************************************************************************)
EXTENDS SessionRegistry, TLAPS

(* Only objects that exist have been closed. *)
ClosedIsCreated == closed \subseteq Created

RegistryInv ==
  /\ RegistryTypeOK
  /\ RegisteredIsOpen
  /\ NoSessionLeaked
  /\ ClosedIsCreated
  /\ NoPanic

(* The empty registry satisfies the invariant. *)
LEMMA RegistryInitInv == RegistryInit => RegistryInv
<1> SUFFICES ASSUME RegistryInit PROVE RegistryInv
  OBVIOUS
<1> USE RegistryConstants DEF RegistryConstants, RegistryInit
<1>1. RegistryTypeOK
  <2>1. sessions \in [Peer -> Session \cup {NoSession}]
    OBVIOUS
  <2>2. owner \in [Session -> Peer \cup {NoPeer}]
    OBVIOUS
  <2>3. age \in [Session -> 0 .. MaxAge + 1]
    OBVIOUS
  <2> QED BY <2>1, <2>2, <2>3 DEF RegistryTypeOK
<1>2. RegisteredIsOpen /\ NoPanic
  BY DEF RegisteredIsOpen, NoPanic
<1>3. Created = {}
  BY DEF Created
<1>4. NoSessionLeaked /\ ClosedIsCreated
  BY <1>3 DEF NoSessionLeaked, ClosedIsCreated
<1> QED BY <1>1, <1>2, <1>4 DEF RegistryInv

(* A step that leaves the registry alone preserves its invariant. *)
LEMMA RegistryUnchanged ==
  ASSUME RegistryInv, UNCHANGED registryVars
  PROVE  RegistryInv'
BY DEF registryVars, RegistryInv, RegistryTypeOK, RegisteredIsOpen, Registered,
       NoSessionLeaked, ClosedIsCreated, NoPanic, Created

(* RegisterSession: what it replaces was open, so it is closed exactly     *)
(* once, and the newcomer is open.                                         *)
LEMMA InstallInv ==
  ASSUME RegistryInv,
         NEW p \in Peer, NEW s \in Session, owner[s] = NoPeer,
         NEW up \in BOOLEAN, NEW sinceBeat \in 0 .. MaxAge + 1,
         Install(p, s, up, sinceBeat, {})
  PROVE  RegistryInv'
<1> USE RegistryConstants, NoPeerAssumption DEF RegistryConstants, NoPeerAssumption, RegistryInv
<1> DEFINE replaced == {sessions[p]} \ {NoSession}
<1>1. /\ sessions' = [sessions EXCEPT ![p] = s]
      /\ owner' = [owner EXCEPT ![s] = p]
      /\ connected' = IF up THEN (connected \ replaced) \cup {s}
                            ELSE connected \ (replaced \cup {s})
      /\ age' = [age EXCEPT ![s] = sinceBeat]
      /\ closed' = closed \cup replaced
      /\ hungUp' = hungUp \cup replaced
      /\ panicked' = (panicked \/ replaced \cap closed # {})
  BY DEF Install, Close
<1>2. replaced \subseteq Session /\ replaced \cap closed = {}
  BY DEF RegistryTypeOK, RegisteredIsOpen
<1>3. \A q \in Peer : sessions[q] # s
  BY DEF RegistryTypeOK, RegisteredIsOpen
<1>4. s \notin closed
  BY DEF ClosedIsCreated, Created
<1>5. RegistryTypeOK'
  BY <1>1, <1>2 DEF RegistryTypeOK
<1>6. RegisteredIsOpen'
  <2> SUFFICES ASSUME NEW q \in Peer, sessions'[q] # NoSession
               PROVE  owner'[sessions'[q]] = q /\ sessions'[q] \notin closed'
    BY DEF RegisteredIsOpen
  <2>1. CASE q = p
    BY <2>1, <1>1, <1>3, <1>4 DEF RegistryTypeOK
  <2>2. CASE q # p
    <3>1. sessions'[q] = sessions[q] /\ sessions[q] \in Session
      BY <2>2, <1>1 DEF RegistryTypeOK
    <3>2. owner[sessions[q]] = q /\ sessions[q] \notin closed
      BY <3>1 DEF RegisteredIsOpen
    <3>3. sessions[q] \notin replaced
      BY <2>2, <3>1, <3>2 DEF RegisteredIsOpen
    <3> QED BY <3>1, <3>2, <3>3, <1>1, <1>3 DEF RegistryTypeOK
  <2> QED BY <2>1, <2>2
<1>7. NoSessionLeaked'
  <2> SUFFICES ASSUME NEW r \in Session, owner'[r] # NoPeer
               PROVE  r \in Registered' \/ (r \in closed' /\ r \in hungUp')
    BY DEF NoSessionLeaked, Created
  <2>1. CASE r = s
    BY <2>1, <1>1 DEF Registered, RegistryTypeOK
  <2>2. CASE r # s
    <3>1. r \in Created
      BY <2>2, <1>1 DEF Created, RegistryTypeOK
    <3>2. CASE r \in Registered
      <4>1. PICK q \in Peer : sessions[q] = r
        BY <3>2 DEF Registered
      <4>2. CASE q = p
        BY <4>1, <4>2, <1>1
      <4>3. CASE q # p
        BY <4>1, <4>3, <1>1 DEF Registered, RegistryTypeOK
      <4> QED BY <4>2, <4>3
    <3>3. CASE r \in closed /\ r \in hungUp
      BY <3>3, <1>1
    <3> QED BY <3>1, <3>2, <3>3 DEF NoSessionLeaked
  <2> QED BY <2>1, <2>2
<1>8. ClosedIsCreated'
  BY <1>1, <1>2 DEF ClosedIsCreated, Created, RegistryTypeOK, RegisteredIsOpen
<1>9. NoPanic'
  BY <1>1, <1>2 DEF NoPanic
<1> QED BY <1>5, <1>6, <1>7, <1>8, <1>9

(* Remove, RemoveIfCurrent and Cleanup: what they close was registered,    *)
(* hence open.                                                             *)
LEMMA DropInv ==
  ASSUME RegistryInv, NEW S \in SUBSET Registered, Drop(S)
  PROVE  RegistryInv'
<1> USE RegistryConstants, NoPeerAssumption DEF RegistryConstants, NoPeerAssumption, RegistryInv
<1>1. /\ sessions' = [p \in Peer |-> IF sessions[p] \in S THEN NoSession
                                                          ELSE sessions[p]]
      /\ connected' = connected \ S
      /\ closed' = closed \cup S
      /\ hungUp' = hungUp \cup S
      /\ panicked' = (panicked \/ S \cap closed # {})
      /\ owner' = owner /\ age' = age
  BY DEF Drop, Close
<1>2. S \subseteq Session /\ S \subseteq Created /\ S \cap closed = {}
  BY DEF RegistryTypeOK, RegisteredIsOpen, Registered, Created
<1>3. RegistryTypeOK'
  BY <1>1, <1>2 DEF RegistryTypeOK
<1>4. RegisteredIsOpen'
  BY <1>1 DEF RegisteredIsOpen
<1>5. NoSessionLeaked'
  BY <1>1 DEF NoSessionLeaked, Created, Registered
<1>6. ClosedIsCreated'
  BY <1>1, <1>2 DEF ClosedIsCreated, Created
<1>7. NoPanic'
  BY <1>1, <1>2 DEF NoPanic
<1> QED BY <1>3, <1>4, <1>5, <1>6, <1>7

(* Heartbeats, disconnection marks, the clock and the transport: the map   *)
(* and the channels stay as they are, and no yamux session reopens.        *)
LEMMA QuietInv ==
  ASSUME RegistryInv,
         UNCHANGED <<sessions, owner, closed, panicked>>,
         connected' \subseteq connected,
         hungUp \subseteq hungUp', hungUp' \subseteq Session,
         age' \in [Session -> 0 .. MaxAge + 1]
  PROVE  RegistryInv'
<1>1. RegistryTypeOK'
  BY DEF RegistryInv, RegistryTypeOK
<1>2. RegisteredIsOpen' /\ ClosedIsCreated' /\ NoPanic'
  BY DEF RegistryInv, RegisteredIsOpen, ClosedIsCreated, Created, NoPanic
<1>3. NoSessionLeaked'
  BY DEF RegistryInv, NoSessionLeaked, Created, Registered
<1> QED BY <1>1, <1>2, <1>3 DEF RegistryInv

LEMMA MarkDisconnectedInv ==
  ASSUME RegistryInv, NEW p \in Peer, MarkDisconnected(p)
  PROVE  RegistryInv'
<1>1. /\ UNCHANGED <<sessions, owner, closed, hungUp, age, panicked>>
      /\ connected' \subseteq connected
  BY DEF MarkDisconnected
<1> QED BY <1>1, QuietInv DEF RegistryInv, RegistryTypeOK

LEMMA TouchHeartbeatInv ==
  ASSUME RegistryInv, NEW s \in Session, TouchHeartbeat(s)
  PROVE  RegistryInv'
<1>1. /\ UNCHANGED <<sessions, owner, connected, closed, hungUp, panicked>>
      /\ age' = [age EXCEPT ![s] = 0]
  BY DEF TouchHeartbeat
<1>2. age' \in [Session -> 0 .. MaxAge + 1]
  BY <1>1, RegistryConstants DEF RegistryConstants, RegistryInv, RegistryTypeOK
<1> QED BY <1>1, <1>2, QuietInv DEF RegistryInv, RegistryTypeOK

LEMMA TickInv ==
  ASSUME RegistryInv, Tick
  PROVE  RegistryInv'
<1>1. /\ UNCHANGED <<sessions, owner, connected, closed, hungUp, panicked>>
      /\ age' = [s \in Session |->
                   IF s \in Registered /\ age[s] <= MaxAge THEN age[s] + 1
                                                           ELSE age[s]]
  BY DEF Tick
<1>2. age' \in [Session -> 0 .. MaxAge + 1]
  BY <1>1, RegistryConstants DEF RegistryConstants, RegistryInv, RegistryTypeOK
<1> QED BY <1>1, <1>2, QuietInv DEF RegistryInv, RegistryTypeOK

LEMMA HangUpInv ==
  ASSUME RegistryInv, NEW s \in Session, HangUp(s)
  PROVE  RegistryInv'
BY QuietInv DEF HangUp, RegistryInv, RegistryTypeOK

LEMMA RegisterSessionInv ==
  ASSUME RegistryInv, NEW p \in Peer, NEW s \in Session, RegisterSession(p, s)
  PROVE  RegistryInv'
<1>1. 0 \in 0 .. MaxAge + 1
  BY RegistryConstants DEF RegistryConstants
<1> QED BY <1>1, InstallInv DEF RegisterSession

LEMMA RemoveIfCurrentInv ==
  ASSUME RegistryInv, NEW p \in Peer, NEW s \in Session, RemoveIfCurrent(p, s)
  PROVE  RegistryInv'
<1>1. CASE sessions[p] = s
  <2>1. {s} \in SUBSET Registered
    BY <1>1, RegistryConstants DEF RegistryConstants, Registered
  <2> QED BY <1>1, <2>1, DropInv DEF RemoveIfCurrent
<1>2. CASE sessions[p] # s
  BY <1>2, RegistryUnchanged DEF RemoveIfCurrent
<1> QED BY <1>1, <1>2

LEMMA CleanupInv ==
  ASSUME RegistryInv, Cleanup
  PROVE  RegistryInv'
BY DropInv DEF Cleanup, Stale

-----------------------------------------------------------------------------
(***************************************************************************)
(* The abstract directory.                                                 *)
(***************************************************************************)

directoryStep == [Directory!Next]_<<sessions, closed>>

LEMMA RegistryInitRefines == RegistryInit => Directory!Init
BY DEF RegistryInit, Directory!Init

(* Storing a new object is a Join: it was neither a member nor retired.    *)
LEMMA InstallRefines ==
  ASSUME RegistryInv,
         NEW p \in Peer, NEW s \in Session, owner[s] = NoPeer,
         NEW up, NEW sinceBeat, Install(p, s, up, sinceBeat, {})
  PROVE  directoryStep
<1>1. s \notin Directory!Members
  BY RegistryConstants, NoPeerAssumption DEF RegistryConstants, NoPeerAssumption, Directory!Members, RegistryInv,
     RegistryTypeOK, RegisteredIsOpen
<1>2. s \notin closed
  BY DEF RegistryInv, ClosedIsCreated, Created
<1>3. Directory!Join(p, s)
  BY <1>1, <1>2 DEF Directory!Join, Install, Close
<1> QED BY <1>3 DEF directoryStep, Directory!Next

(* Dropping registered objects is a Leave. *)
LEMMA DropRefines ==
  ASSUME NEW S \in SUBSET Registered, Drop(S)
  PROVE  directoryStep
<1>1. S \in SUBSET Directory!Members
  BY DEF Directory!Members, Registered
<1>2. Directory!Leave(S)
  BY DEF Directory!Leave, Drop, Close
<1> QED BY <1>1, <1>2 DEF directoryStep, Directory!Next

LEMMA RegisterSessionRefines ==
  ASSUME RegistryInv, NEW p \in Peer, NEW s \in Session, RegisterSession(p, s)
  PROVE  directoryStep
BY InstallRefines DEF RegisterSession

LEMMA RemoveIfCurrentRefines ==
  ASSUME NEW p \in Peer, NEW s \in Session, RemoveIfCurrent(p, s)
  PROVE  directoryStep
<1>1. CASE sessions[p] = s
  <2>1. {s} \in SUBSET Registered
    BY <1>1, RegistryConstants DEF RegistryConstants, Registered
  <2> QED BY <1>1, <2>1, DropRefines DEF RemoveIfCurrent
<1>2. CASE sessions[p] # s
  BY <1>2 DEF RemoveIfCurrent, registryVars, directoryStep
<1> QED BY <1>1, <1>2

LEMMA CleanupRefines ==
  ASSUME Cleanup
  PROVE  directoryStep
BY DropRefines DEF Cleanup, Stale
=============================================================================
