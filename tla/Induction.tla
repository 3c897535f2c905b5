------------------------------ MODULE Induction ------------------------------
(***************************************************************************)
(* Induction for the other proofs.  The induction theorems of the library  *)
(* are about an operator, which the provers cannot instantiate; these are  *)
(* about a set, the set of the numbers with the property to be shown.      *)
(***************************************************************************)
EXTENDS Integers, WellFoundedInduction, TLAPS

(* A set of natural numbers has a smallest element. *)
LEMMA Smallest ==
  ASSUME NEW T, T \subseteq Nat, T # {}
  PROVE  \E x \in T : \A y \in T : x <= y
<1> DEFINE Less == OpToRel(<, Nat)
<1>1. \A x, y \in Nat : <<x, y>> \in Less <=> x < y
  BY DEF OpToRel
<1>2. IsWellFoundedOn(Less, Nat)
  BY NatLessThanWellFounded
<1> HIDE DEF Less
<1>3. PICK x \in T : \A y \in T : ~ (<<y, x>> \in Less)
  BY <1>2, WFMin
<1>4. ASSUME NEW y \in T PROVE x <= y
  <2>1. ~ (y < x)
    BY <1>1, <1>3
  <2> QED BY <2>1
<1> QED BY <1>4

(* A set of natural numbers with a bound has a largest one. *)
LEMMA Largest ==
  ASSUME NEW n \in Nat, NEW T, T \subseteq 0 .. n, T # {}
  PROVE  \E x \in T : \A y \in T : x >= y
<1> DEFINE above == {n - x : x \in T}
<1>1. above \subseteq Nat
  OBVIOUS
<1>2. above # {}
  <2>1. PICK x \in T : TRUE
    OBVIOUS
  <2>2. n - x \in above
    OBVIOUS
  <2> QED BY <2>2
<1> HIDE DEF above
<1>3. PICK a \in above : \A b \in above : a <= b
  BY <1>1, <1>2, Smallest
<1>4. PICK x \in T : a = n - x
  BY DEF above
<1>5. ASSUME NEW y \in T PROVE x >= y
  <2>1. n - y \in above
    BY DEF above
  <2> QED BY <1>3, <1>4, <2>1
<1> QED BY <1>5

(* Induction up to n. *)
LEMMA UpTo ==
  ASSUME NEW n \in Nat, NEW T, 0 \in T,
         \A i \in 0 .. n - 1 : i \in T => i + 1 \in T
  PROVE  0 .. n \subseteq T
<1> DEFINE missing == (0 .. n) \ T
<1> SUFFICES ASSUME missing # {} PROVE FALSE
  OBVIOUS
<1>1. missing \subseteq Nat
  OBVIOUS
<1>2. PICK x \in missing : \A y \in missing : x <= y
  <2> HIDE DEF missing
  <2> QED BY <1>1, Smallest
<1>3. x - 1 \in 0 .. n - 1
  OBVIOUS
<1>4. x - 1 \in T
  BY <1>2, <1>3
<1> QED BY <1>3, <1>4

(* A loop of n turns on a value of X has a run: the values after each      *)
(* turn.                                                                   *)
Turns(n, X) == [1 .. n -> [X -> X]]

IsRun(run, n, X, start, turn) ==
  /\ run \in [0 .. n -> X]
  /\ run[0] = start
  /\ \A i \in 1 .. n : run[i] = turn[i][run[i - 1]]

LEMMA LoopRuns ==
  ASSUME NEW n \in Nat, NEW X, NEW start \in X, NEW turn \in Turns(n, X)
  PROVE  \E run : IsRun(run, n, X, start, turn)
<1> USE DEF Turns
<1> DEFINE Run(k, f) == IsRun(f, k, X, start, turn)
           T == {k \in 0 .. n : \E f : Run(k, f)}
<1>1. 0 \in T
  <2> DEFINE f == [i \in 0 .. 0 |-> start]
  <2>1. Run(0, f)
    BY DEF IsRun
  <2> HIDE DEF f
  <2> QED BY <2>1
<1>2. ASSUME NEW k \in 0 .. n - 1, k \in T PROVE k + 1 \in T
  <2>1. PICK f : Run(k, f)
    BY <1>2
  <2> DEFINE g == [i \in 0 .. k + 1 |-> IF i <= k THEN f[i] ELSE turn[k + 1][f[k]]]
  <2>2. f[k] \in X /\ k + 1 \in 1 .. n
    BY <2>1 DEF IsRun
  <2>3. turn[k + 1][f[k]] \in X
    BY <2>2
  <2>4. g \in [0 .. k + 1 -> X]
    BY <2>1, <2>3 DEF IsRun
  <2>5. g[0] = start
    BY <2>1 DEF IsRun
  <2>6. ASSUME NEW i \in 1 .. k + 1 PROVE g[i] = turn[i][g[i - 1]]
    <3>1. CASE i <= k
      BY <2>1, <3>1 DEF IsRun
    <3>2. CASE i = k + 1
      BY <3>2
    <3> QED BY <3>1, <3>2
  <2> HIDE DEF g
  <2>7. Run(k + 1, g)
    BY <2>4, <2>5, <2>6 DEF IsRun
  <2> QED BY <2>2, <2>7
<1>3. n \in T
  <2> HIDE DEF T
  <2>1. 0 .. n \subseteq T
    BY <1>1, <1>2, UpTo
  <2> QED BY <2>1
<1>4. PICK f : Run(n, f)
  BY <1>3
<1> QED BY <1>4
==============================================================================
