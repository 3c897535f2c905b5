------------------------------- MODULE Meshlib -------------------------------
(***************************************************************************)
(* The C library (cmd/meshlib/main.go) in a program of several threads:    *)
(* the table of servers, seen through one handle, and the table of         *)
(* strings.  lookup gives the server out of handlesMu, so a thread may be  *)
(* in Start, or on its way to a result, when another frees the handle.     *)
(* A call with a handle that is not in the table changes nothing.          *)
(***************************************************************************)
EXTENDS ServerLifecycle, StringTable

VARIABLES
  handle,    \* the entry of the handle: "none" yet, "live", "freed"
  invoking   \* threads in mesh_invoke or mesh_list_nodes

vars == <<lifecycleVars, stringVars, handle, invoking>>

TypeOK ==
  /\ LifecycleTypeOK
  /\ StringTypeOK
  /\ handle \in {"none", "live", "freed"}
  /\ invoking \subseteq Thread

Init ==
  /\ LifecycleInit
  /\ StringInit
  /\ handle = "none"
  /\ invoking = {}

Idle(k) == pc[k] = "idle" /\ k \notin invoking /\ EmptyHanded(k)

mesh_server_new ==
  /\ handle = "none"
  /\ handle' = "live"
  /\ NewServer
  /\ UNCHANGED <<stringVars, invoking>>

mesh_server_start(k) ==
  /\ Idle(k)
  /\ handle = "live"
  /\ CallStart(k)
  /\ UNCHANGED <<stringVars, handle, invoking>>

mesh_server_stop(k) ==
  /\ Idle(k)
  /\ handle = "live"
  /\ CallStop(k)
  /\ UNCHANGED <<stringVars, handle, invoking>>

(* Only the thread that takes the entry out of the table stops the server. *)
mesh_server_free(k) ==
  /\ Idle(k)
  /\ handle = "live"
  /\ handle' = "freed"
  /\ CallStop(k)
  /\ UNCHANGED <<stringVars, invoking>>

(* The lookup; the call of the gateway, or of the registry, follows. *)
mesh_invoke(k) ==
  /\ Idle(k)
  /\ handle = "live"
  /\ invoking' = invoking \cup {k}
  /\ UNCHANGED <<lifecycleVars, stringVars, handle>>

(* An error, and handle 0. *)
InvokeFails(k) ==
  /\ k \in invoking
  /\ invoking' = invoking \ {k}
  /\ UNCHANGED <<lifecycleVars, stringVars, handle>>

(* A result, which becomes a string. *)
InvokeReturns(k) ==
  /\ k \in invoking
  /\ nextStrID < MaxStrings
  /\ invoking' = invoking \ {k}
  /\ CString(k)
  /\ UNCHANGED <<lifecycleVars, handle>>

registerCString(k) == Enter(k) /\ UNCHANGED <<lifecycleVars, handle, invoking>>

mesh_str_release(k) ==
  /\ Idle(k)
  /\ \E i \in StringID : Release(k, i)
  /\ UNCHANGED <<lifecycleVars, handle, invoking>>

free(k) == Free(k) /\ UNCHANGED <<lifecycleVars, handle, invoking>>

ServerStep(k) ==
  /\ StartStep(k) \/ StopStep(k)
  /\ UNCHANGED <<stringVars, handle, invoking>>

Next ==
  \/ mesh_server_new
  \/ \E k \in Thread :
       \/ mesh_server_start(k)
       \/ mesh_server_stop(k)
       \/ mesh_server_free(k)
       \/ ServerStep(k)
       \/ mesh_invoke(k)
       \/ InvokeFails(k)
       \/ InvokeReturns(k)
       \/ registerCString(k)
       \/ mesh_str_release(k)
       \/ free(k)
  \/ Background /\ UNCHANGED <<stringVars, handle, invoking>>

Spec == Init /\ [][Next]_vars

Goroutine(A) == A /\ UNCHANGED <<stringVars, handle, invoking>>

(* Threads in Start or Stop go on when they can; so do the goroutines,     *)
(* those of a handler that serves and of the watcher once the tunnel's     *)
(* context is done.  A unary call has a deadline (Gateway.Invoke), a       *)
(* stream lasts as long as its client keeps it open, and a node may leave  *)
(* a handler waiting.                                                      *)
Fairness ==
  /\ \A k \in Thread : WF_vars(ServerStep(k))
  /\ \A r \in Run : WF_vars(Goroutine(Serve(r) \/ LoopExits(r)))
  /\ \A c \in Conn :
       WF_vars(tunnelCancelled /\ handler[c] = "serving"
               /\ Goroutine(HandlerReturns(c) \/ HandlerLost(c)))
  /\ WF_vars(Goroutine(WatcherReturns))
  /\ WF_vars(Goroutine(CallEnds("unary")))

FairSpec == Spec /\ Fairness

-----------------------------------------------------------------------------
(* mesh_server_free leaves nothing running and no port taken, however many *)
(* Starts, failed or not, and Stops there were, with three exceptions: a   *)
(* Start overlapped with a Stop, the client of a stream does not go away,  *)
(* or the tunnel's Stop is held up by a handler that waits for a silent    *)
(* node or has lost the result of its read loop.                           *)
FreedFallsSilent ==
  handle = "freed" ~> Silent \/ overlapped \/ "stream" \in calls \/ Held
=============================================================================
