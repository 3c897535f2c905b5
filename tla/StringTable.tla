----------------------------- MODULE StringTable -----------------------------
(***************************************************************************)
(* The strings of the C library (cmd/meshlib/main.go): liveStrs maps an id *)
(* that is never reused to a C allocation, whose address the allocator may *)
(* well reuse.  Only what holds stringsMu is atomic with it: the block is  *)
(* allocated before the lock is taken, and freed after it is gone.         *)
(*                                                                         *)
(* mesh_str_data only reads the table; what the C program does with the    *)
(* pointer it borrows ends, by the conventions, before the release.        *)
(***************************************************************************)
EXTENDS Integers, Threads

CONSTANTS
  Block,       \* what C.CString can return
  NoBlock,     \* nil
  MaxStrings   \* bound on nextStrID

ASSUME StringConstants == NoBlock \notin Block /\ MaxStrings \in Nat

VARIABLES
  nextStrID,
  liveStrs,
  heap,         \* the blocks that are allocated
  fresh,        \* the block each thread has allocated and not yet registered
  doomed,       \* the block each thread has taken out and not yet freed
  doubleFreed   \* a block was freed that was not allocated

stringVars == <<nextStrID, liveStrs, heap, fresh, doomed, doubleFreed>>

StringID == 1 .. MaxStrings

StringTypeOK ==
  /\ nextStrID \in 0 .. MaxStrings
  /\ liveStrs \in [StringID -> Block \cup {NoBlock}]
  /\ heap \subseteq Block
  /\ fresh \in [Thread -> Block \cup {NoBlock}]
  /\ doomed \in [Thread -> Block \cup {NoBlock}]
  /\ doubleFreed \in BOOLEAN

StringInit ==
  /\ nextStrID = 0
  /\ liveStrs = [i \in StringID |-> NoBlock]
  /\ heap = {}
  /\ fresh = [k \in Thread |-> NoBlock]
  /\ doomed = [k \in Thread |-> NoBlock]
  /\ doubleFreed = FALSE

EmptyHanded(k) == fresh[k] = NoBlock /\ doomed[k] = NoBlock

(* C.CString. *)
CString(k) ==
  /\ \E b \in Block \ heap :
       /\ heap' = heap \cup {b}
       /\ fresh' = [fresh EXCEPT ![k] = b]
  /\ UNCHANGED <<nextStrID, liveStrs, doomed, doubleFreed>>

(* The rest of registerCString, under stringsMu. *)
Enter(k) ==
  /\ fresh[k] # NoBlock
  /\ nextStrID < MaxStrings
  /\ nextStrID' = nextStrID + 1
  /\ liveStrs' = [liveStrs EXCEPT ![nextStrID + 1] = fresh[k]]
  /\ fresh' = [fresh EXCEPT ![k] = NoBlock]
  /\ UNCHANGED <<heap, doomed, doubleFreed>>

(* Mutation of Release: the entry is left in the table. *)
ReleaseKeepsEntry(k, i) ==
  /\ liveStrs[i] # NoBlock
  /\ doomed' = [doomed EXCEPT ![k] = liveStrs[i]]
  /\ UNCHANGED <<nextStrID, liveStrs, heap, fresh, doubleFreed>>

(* mesh_str_release under stringsMu.  An id without an entry, released     *)
(* before or never issued, changes nothing.                                *)
Release(k, i) ==
  /\ liveStrs[i] # NoBlock
  /\ doomed' = [doomed EXCEPT ![k] = liveStrs[i]]
  /\ liveStrs' = [liveStrs EXCEPT ![i] = NoBlock]
  /\ UNCHANGED <<nextStrID, heap, fresh, doubleFreed>>

(* Mutation of Free: the entry is gone and C.free is not called. *)
FreeForgotten(k) ==
  /\ doomed[k] # NoBlock
  /\ doomed' = [doomed EXCEPT ![k] = NoBlock]
  /\ UNCHANGED <<nextStrID, liveStrs, heap, fresh, doubleFreed>>

(* C.free, outside the lock. *)
Free(k) ==
  /\ doomed[k] # NoBlock
  /\ doubleFreed' = (doubleFreed \/ doomed[k] \notin heap)
  /\ heap' = heap \ {doomed[k]}
  /\ doomed' = [doomed EXCEPT ![k] = NoBlock]
  /\ UNCHANGED <<nextStrID, liveStrs, fresh>>

-----------------------------------------------------------------------------
(* "a stale release can never free a live string": the block of a string   *)
(* in the table is allocated, belongs to no other string, and no thread is *)
(* about to free or to register it.                                        *)
LiveStringsAreSafe ==
  \A i \in StringID : liveStrs[i] # NoBlock =>
    /\ liveStrs[i] \in heap
    /\ \A j \in StringID : liveStrs[j] = liveStrs[i] => j = i
    /\ \A k \in Thread : liveStrs[i] \notin {fresh[k], doomed[k]}

(* Concurrent releases of one id, and of its successor at the same         *)
(* address, free every block once.                                         *)
NothingFreedTwice == ~doubleFreed

(* Every block that is allocated is in the table or in the hands of the    *)
(* thread that is about to enter or to free it: none leaks.                *)
NoBlockLost ==
  \A b \in heap :
    \/ \E i \in StringID : liveStrs[i] = b
    \/ \E k \in Thread : b \in {fresh[k], doomed[k]}
=============================================================================
