---------------------------- MODULE MethodRegistry ----------------------------
(***************************************************************************)
(* registry.MethodRegistry (pkg/registry/method_registry.go): the method   *)
(* catalog of each peer, and the reverse index from methods to peers that  *)
(* is maintained by hand next to it.  Every operation runs under mr.mu.    *)
(* A catalog is whatever list the node sent, repetitions included.         *)
(***************************************************************************)
EXTENDS Naturals, Sequences, Nodes
SX == INSTANCE SequencesExt

CONSTANTS
  Method,
  NoCatalog,  \* "no entry in peerMethods"
  MaxMethods  \* bound on the length of the lists that are tried

ASSUME CatalogConstants ==
  /\ MaxMethods \in Nat
  /\ NoCatalog \notin Seq(Method)

VARIABLES
  catalog,  \* peerMethods
  index     \* methodPeers, <<>> where there is no entry

catalogVars == <<catalog, index>>

Catalogs == SX!BoundedSeq(Method, MaxMethods)

CatalogTypeOK ==
  /\ catalog \in [Peer -> Catalogs \cup {NoCatalog}]
  /\ index \in [Method -> Seq(Peer)]

CatalogInit ==
  /\ catalog = [p \in Peer |-> NoCatalog]
  /\ index = [m \in Method |-> <<>>]

AddToIndex(ix, m, p) ==
  IF p \in SX!ToSet(ix[m]) THEN ix ELSE [ix EXCEPT ![m] = Append(@, p)]

(* Mutation of RemoveFromIndex: everything after the entry goes with it. *)
RemoveTailFromIndex(ix, m, p) ==
  [ix EXCEPT ![m] = IF p \in SX!ToSet(@)
                    THEN SubSeq(@, 1, SX!SelectInSeq(@, LAMBDA q : q = p) - 1)
                    ELSE @]

RemoveFromIndex(ix, m, p) == [ix EXCEPT ![m] = SX!RemoveFirst(@, p)]

(* The loops over a list of methods, one turn each. *)
AddAll(ix, methods, p) ==
  LET after[i \in 0 .. Len(methods)] ==
        IF i = 0 THEN ix ELSE AddToIndex(after[i - 1], methods[i], p)
  IN  after[Len(methods)]

RemoveAll(ix, methods, p) ==
  LET after[i \in 0 .. Len(methods)] ==
        IF i = 0 THEN ix ELSE RemoveFromIndex(after[i - 1], methods[i], p)
  IN  after[Len(methods)]

(* The index without p's present catalog. *)
Unindexed(p) ==
  IF catalog[p] = NoCatalog THEN index ELSE RemoveAll(index, catalog[p], p)

UpdateMethods(p, methods) ==
  /\ catalog' = [catalog EXCEPT ![p] = methods]
  /\ index' = AddAll(Unindexed(p), methods, p)

RemovePeer(p) ==
  /\ catalog' = [catalog EXCEPT ![p] = NoCatalog]
  /\ index' = Unindexed(p)

-----------------------------------------------------------------------------
(***************************************************************************)
(* Queries.  Each copies its result under the lock.                        *)
(***************************************************************************)

GetCatalog == [p \in {q \in Peer : catalog[q] # NoCatalog} |-> catalog[p]]

GetMethod(p, m) == p \in DOMAIN GetCatalog /\ m \in SX!ToSet(GetCatalog[p])

FindPeersWithMethod(m) == index[m]

(* The loop of FindMethods over the catalog of a peer, *)
AddMatch(matched, m, matching) ==
  IF m \in matching THEN Append(matched, m) ELSE matched

Matched(methods, matching) ==
  LET after[i \in 0 .. Len(methods)] ==
        IF i = 0 THEN <<>> ELSE AddMatch(after[i - 1], methods[i], matching)
  IN  after[Len(methods)]

(* and the methods a pattern matches, peer by peer, without empty lists. *)
FindMethods(matching) ==
  [p \in {q \in DOMAIN GetCatalog : Matched(catalog[q], matching) # <<>>} |->
     Matched(catalog[p], matching)]

-----------------------------------------------------------------------------
(* The queries tell the same truth: after any sequence of updates and      *)
(* removals the index names a peer under a method, and once only, exactly  *)
(* when GetMethod and FindMethods find the method in the peer's catalog.   *)
(* A peer that was named twice, because its catalog repeats a method,      *)
(* would be named still after its removal, which takes out one entry.      *)
IndexMatchesCatalogs ==
  \A m \in Method :
    /\ SX!IsInjective(FindPeersWithMethod(m))
    /\ SX!ToSet(FindPeersWithMethod(m)) = {p \in Peer : GetMethod(p, m)}
    /\ SX!ToSet(FindPeersWithMethod(m)) = DOMAIN FindMethods({m})
=============================================================================
