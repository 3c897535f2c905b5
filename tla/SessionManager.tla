---------------------------- MODULE SessionManager ----------------------------
(***************************************************************************)
(* The registry used as a library: any callers of the exported methods of  *)
(* SessionManager and SessionState.  Every method is one step but          *)
(* Heartbeat, which looks the object up under sm.mu and touches it when    *)
(* the lock is gone.  RegisterSession, Get and ControlChannel hand out     *)
(* pointers as well, so a caller may touch, close or register again any    *)
(* object that ever was in the map, whatever became of it.                 *)
(***************************************************************************)
EXTENDS SessionRegistry

VARIABLE misused  \* history: objects their users did not leave to the manager

managerVars == <<registryVars, misused>>

ManagerTypeOK ==
  /\ RegistryTypeOK
  /\ misused \subseteq Session

ManagerInit ==
  /\ RegistryInit
  /\ misused = {}

(* Register.  An object is misused if it comes without a channel, or again. *)
Register(p, s) ==
  /\ RegisterNew(p, s) \/ (p = owner[s] /\ RegisterAgain(s))
  /\ misused' = misused \cup ({s} \cap (Created \cup closed'))

(* Close of an object that is the manager's to close. *)
HolderCloses(s) ==
  /\ CloseObject(s)
  /\ misused' = misused \cup {s}

(* The rest of Heartbeat, on the object it looked up. *)
Heartbeat(s) == TouchHeartbeat(s)

Manage ==
  /\ ~panicked
  /\ \/ \E p \in Peer, s \in Session : Register(p, s)
     \/ \E s \in Created : HolderCloses(s)
     \/ /\ UNCHANGED misused
        /\ \/ \E p \in Peer, s \in Session : RegisterSession(p, s)
           \/ \E p \in Peer : Remove(p)
           \/ \E p \in Peer : MarkDisconnected(p)
           \/ \E p \in Peer, s \in Created : RemoveIfCurrent(p, s)
           \/ \E s \in Created : Heartbeat(s)
           \/ Cleanup
           \/ Tick
           \/ \E s \in Created : HangUp(s)

ManagerSpec == ManagerInit /\ [][Manage]_managerVars

-----------------------------------------------------------------------------
(* An object that its users left to the manager is found in the map only   *)
(* under its own peer ID and with its control channel open, whatever they  *)
(* do to others: every path that closes it takes it out, or replaces it,   *)
(* under the same hold of sm.mu.                                           *)
UnlessMisusedOpen ==
  \A p \in Peer : sessions[p] \notin misused \cup {NoSession} =>
    /\ owner[sessions[p]] = p
    /\ sessions[p] \notin closed

(* The process dies in close(ControlChan) only over an object that was     *)
(* registered without a channel or a second time, or that a holder of its  *)
(* pointer closed.  Those do bring it down, although the comment of Close  *)
(* calls it idempotent; the methods that compete to close the same object  *)
(* never do so by themselves.                                              *)
PanicNeedsMisuse ==
  [][~panicked /\ panicked' => misused' \cap closed # {}]_managerVars
=============================================================================
