--------------------------- MODULE SessionRegistry ---------------------------
(***************************************************************************)
(* The state of registry.SessionManager (pkg/registry/registry.go): the    *)
(* map from peer IDs to SessionState objects, and the objects themselves.  *)
(* Every operation that runs under sm.mu is one step.  The module has no   *)
(* next-state relation of its own: SessionManager drives the operations    *)
(* from arbitrary API callers, Tunnel from the connection handlers.        *)
(***************************************************************************)
EXTENDS Naturals, FiniteSets, Nodes

CONSTANTS
  Session,    \* identities of SessionState objects (Go pointers)
  NoSession,  \* "no entry in the map"
  MaxAge      \* staleness window of the cleanup loop, in clock ticks

ASSUME RegistryConstants ==
  /\ NoSession \notin Session
  /\ MaxAge \in Nat

VARIABLES
  sessions,   \* sm.sessions: the object registered under each peer ID
  owner,      \* SessionState.PeerID, NoPeer before the object exists
  connected,  \* objects whose Connected flag is set
  closed,     \* objects whose ControlChan cannot be closed: it is, or was never made
  hungUp,     \* objects whose yamux session is closed, by either side
  age,        \* ticks since LastHeartbeat, saturating above MaxAge
  panicked    \* the process died in close(ControlChan)

registryVars == <<sessions, owner, connected, closed, hungUp, age, panicked>>

Registered == {sessions[p] : p \in Peer} \ {NoSession}
Created == {s \in Session : owner[s] # NoPeer}

RegistryTypeOK ==
  /\ sessions \in [Peer -> Session \cup {NoSession}]
  /\ owner \in [Session -> Peer \cup {NoPeer}]
  /\ connected \subseteq Session
  /\ closed \subseteq Session
  /\ hungUp \subseteq Session
  /\ age \in [Session -> 0 .. MaxAge + 1]
  /\ panicked \in BOOLEAN

RegistryInit ==
  /\ sessions = [p \in Peer |-> NoSession]
  /\ owner = [s \in Session |-> NoPeer]
  /\ connected = {}
  /\ closed = {}
  /\ hungUp = {}
  /\ age = [s \in Session |-> 0]
  /\ panicked = FALSE

-----------------------------------------------------------------------------
(***************************************************************************)
(* Operations.                                                             *)
(***************************************************************************)

(* Mutation of Close: the yamux session stays open. *)
CloseKeepsTransport(S, gone) ==
  /\ closed' = gone \cup S
  /\ panicked' = (panicked \/ S \cap gone # {})
  /\ UNCHANGED hungUp

(* The part of SessionState.Close that others can see, for each object of  *)
(* S; gone are the objects whose channel cannot be closed before.  Closing *)
(* one of these panics; the process is then lost, so what Close would have *)
(* done next does not matter.  The callers clear Connected themselves.     *)
Close(S, gone) ==
  /\ closed' = gone \cup S
  /\ hungUp' = hungUp \cup S
  /\ panicked' = (panicked \/ S \cap gone # {})

(* Mutation of Install: what s replaces is not closed. *)
InstallKeepsOld(p, s, up, sinceBeat, bare) ==
  /\ sessions' = [sessions EXCEPT ![p] = s]
  /\ owner' = [owner EXCEPT ![s] = p]
  /\ connected' = IF up THEN connected \cup {s} ELSE connected \ {s}
  /\ age' = [age EXCEPT ![s] = sinceBeat]
  /\ closed' = closed \cup bare
  /\ UNCHANGED <<hungUp, panicked>>

(* Close what is stored under p and store s, all under sm.mu.  The set     *)
(* bare holds s if it came without a control channel.                      *)
Install(p, s, up, sinceBeat, bare) ==
  LET replaced == {sessions[p]} \ {NoSession}
  IN  /\ sessions' = [sessions EXCEPT ![p] = s]
      /\ owner' = [owner EXCEPT ![s] = p]
      /\ connected' = IF up THEN (connected \ replaced) \cup {s}
                            ELSE connected \ (replaced \cup {s})
      /\ age' = [age EXCEPT ![s] = sinceBeat]
      /\ Close(replaced, closed \cup bare)

(* RegisterSession builds the object itself: always a new one. *)
RegisterSession(p, s) ==
  /\ owner[s] = NoPeer
  /\ Install(p, s, TRUE, 0, {})

(* Register takes the caller's object as it finds it.  A new object has    *)
(* whatever Connected flag and LastHeartbeat the caller gave it, and a     *)
(* control channel only if the caller made one.                            *)
RegisterNew(p, s) ==
  /\ owner[s] = NoPeer
  /\ \E up \in BOOLEAN, sinceBeat \in {0, MaxAge + 1}, bare \in SUBSET {s} :
       Install(p, s, up, sinceBeat, bare)

(* Register of an object that has been registered before: it may be in the *)
(* map, and is then closed and stored again, or closed long ago.           *)
RegisterAgain(s) ==
  /\ owner[s] # NoPeer
  /\ Install(owner[s], s, s \in connected \ {sessions[owner[s]]}, age[s], {})

(* SessionState.Close, called by someone who holds a pointer. *)
CloseObject(s) ==
  /\ connected' = connected \ {s}
  /\ Close({s}, closed)
  /\ UNCHANGED <<sessions, owner, age>>

(* Close the objects of S and delete their entries. *)
Drop(S) ==
  /\ sessions' = [p \in Peer |-> IF sessions[p] \in S THEN NoSession
                                                       ELSE sessions[p]]
  /\ connected' = connected \ S
  /\ Close(S, closed)
  /\ UNCHANGED <<owner, age>>

(* Mutation of Remove: the entry stays. *)
RemoveKeepsEntry(p) ==
  /\ sessions[p] # NoSession
  /\ Close({sessions[p]}, closed)
  /\ connected' = connected \ {sessions[p]}
  /\ UNCHANGED <<sessions, owner, age>>

Remove(p) ==
  /\ sessions[p] # NoSession
  /\ Drop({sessions[p]})

(* Mutation of RemoveIfCurrent: whatever is registered goes. *)
RemoveWhatever(p, s) ==
  IF sessions[p] # NoSession THEN Drop({sessions[p]}) ELSE UNCHANGED registryVars

RemoveIfCurrent(p, s) ==
  IF sessions[p] = s THEN Drop({s}) ELSE UNCHANGED registryVars

MarkDisconnected(p) ==
  /\ sessions[p] # NoSession
  /\ connected' = connected \ {sessions[p]}
  /\ UNCHANGED <<sessions, owner, closed, hungUp, age, panicked>>

(* Mutation of Stale: silent sessions are kept. *)
StaleIfDisconnected == {s \in Registered : s \notin connected}

Stale == {s \in Registered : s \notin connected \/ age[s] > MaxAge}

(* Mutation of Cleanup: the entries stay. *)
CleanupKeepsEntries ==
  /\ Stale # {}
  /\ Close(Stale, closed)
  /\ connected' = connected \ Stale
  /\ UNCHANGED <<sessions, owner, age>>

(* One pass of the cleanup loop; a pass that finds nothing changes nothing. *)
Cleanup ==
  /\ Stale # {}
  /\ Drop(Stale)

TouchHeartbeat(s) ==
  /\ age' = [age EXCEPT ![s] = 0]
  /\ UNCHANGED <<sessions, owner, connected, closed, hungUp, panicked>>

-----------------------------------------------------------------------------
(***************************************************************************)
(* Environment: the clock and the transport.                               *)
(***************************************************************************)

(* Time passes for the objects in the map: no other age is ever read. *)
Tick ==
  /\ \E s \in Registered : age[s] <= MaxAge
  /\ age' = [s \in Session |->
               IF s \in Registered /\ age[s] <= MaxAge THEN age[s] + 1
                                                       ELSE age[s]]
  /\ UNCHANGED <<sessions, owner, connected, closed, hungUp, panicked>>

(* The yamux session dies under the registry: the node closed it, or its   *)
(* keepalive gave up.  Nothing in the registry notices.                    *)
HangUp(s) ==
  /\ s \notin hungUp
  /\ hungUp' = hungUp \cup {s}
  /\ UNCHANGED <<sessions, owner, connected, closed, age, panicked>>

-----------------------------------------------------------------------------
(***************************************************************************)
(* Safety.                                                                 *)
(***************************************************************************)

(* An object found in the map is filed under its own peer ID and its       *)
(* control channel is open, if only RegisterSession adds to the map and    *)
(* only the manager closes objects, as in the server: every path that      *)
(* closes one takes it out, or replaces it, under the same hold of sm.mu.  *)
RegisteredIsOpen ==
  \A p \in Peer : sessions[p] # NoSession =>
    /\ owner[sessions[p]] = p
    /\ sessions[p] \notin closed

(* No object is forgotten while open: one that left the map (replaced,     *)
(* removed, pruned) has had its channel and its yamux session closed.      *)
NoSessionLeaked ==
  \A s \in Created : s \in Registered \/ (s \in closed /\ s \in hungUp)

(* Users that register with RegisterSession and leave closing to the       *)
(* manager never see close(ControlChan) bring the server down:             *)
(* RegisterSession, RemoveIfCurrent and Cleanup compete to close the same  *)
(* object, and one of them does.  SessionManager has users of the other    *)
(* kind, which do bring it down.                                           *)
NoPanic == ~panicked

-----------------------------------------------------------------------------
(***************************************************************************)
(* Refinement.                                                             *)
(***************************************************************************)

Directory == INSTANCE SessionDirectory WITH current <- sessions, retired <- closed

(* The server's registry implements the abstract directory: one session    *)
(* per peer ID, and an object that Close has touched never comes back,     *)
(* however RegisterSession, RemoveIfCurrent and Cleanup interleave.        *)
ImplementsDirectory == Directory!Spec
=============================================================================
