----------------------------- MODULE TokenBucket -----------------------------
(***************************************************************************)
(* One bucket of TokenBucketLimiter (pkg/server/ratelimit.go); the buckets *)
(* of different keys share nothing but tbl.mu, which makes Allow atomic.   *)
(* A clock tick is 1/TicksPerSecond of a second.                           *)
(*                                                                         *)
(* credit is a history variable: the content, in fractions of a token, of  *)
(* the bucket the algorithm approximates, which fills continuously at Rate *)
(* tokens per second and from which every admitted request takes a token.  *)
(***************************************************************************)
EXTENDS Integers

CONSTANTS
  Rate,            \* tokens per second
  Burst,           \* capacity
  TicksPerSecond

ASSUME BucketConstants ==
  /\ {Rate, TicksPerSecond} \subseteq Nat \ {0}
  /\ Burst \in Nat

VARIABLES
  exists,    \* the key has a bucket
  tokens,    \* b.tokens
  elapsed,   \* ticks since b.lastRefill, saturating at Window
  admitted,  \* what the last Allow returned
  credit

vars == <<exists, tokens, elapsed, admitted, credit>>

AtMost(bound, n) == IF n > bound THEN bound ELSE n

Full == Burst * TicksPerSecond  \* a full bucket, in the unit of credit

(* Ticks after which any bucket is full: no longer wait makes a difference. *)
Window == Full \div Rate + 1

TypeOK ==
  /\ exists \in BOOLEAN
  /\ tokens \in 0 .. Burst
  /\ elapsed \in 0 .. Window
  /\ admitted \in BOOLEAN
  /\ credit \in Int

(* Allow gives a key without a bucket a full one. *)
Init ==
  /\ exists = FALSE
  /\ tokens = Burst
  /\ elapsed = 0
  /\ admitted = FALSE
  /\ credit = Full

TokensToAdd == (elapsed * Rate) \div TicksPerSecond

(* Check and consume, from a bucket that holds n tokens. *)
Consume(n) ==
  /\ exists' = TRUE
  /\ admitted' = (n > 0)
  /\ tokens' = IF n > 0 THEN n - 1 ELSE n
  /\ credit' = IF n > 0 THEN credit - TicksPerSecond ELSE credit

(* Mutation of Allow: the time of the refill is not recorded. *)
AllowKeepsStamp ==
  /\ Consume(AtMost(Burst, tokens + TokensToAdd))
  /\ UNCHANGED elapsed

(* Mutation of Allow: the time is recorded also when nothing is added. *)
AllowAlwaysStamps ==
  /\ Consume(AtMost(Burst, tokens + TokensToAdd))
  /\ elapsed' = 0

(* Mutation of Allow: the refill is not capped at the burst. *)
AllowUncapped ==
  /\ Consume(tokens + TokensToAdd)
  /\ elapsed' = IF TokensToAdd > 0 THEN 0 ELSE elapsed

Allow ==
  /\ Consume(AtMost(Burst, tokens + TokensToAdd))
  /\ elapsed' = IF TokensToAdd > 0 THEN 0 ELSE elapsed

Tick ==
  /\ elapsed' = IF exists THEN AtMost(Window, elapsed + 1) ELSE 0
  /\ credit' = AtMost(Full, credit + Rate)
  /\ UNCHANGED <<exists, tokens, admitted>>

Next == Allow \/ Tick

Spec == Init /\ [][Next]_vars

-----------------------------------------------------------------------------
(* The limiter never admits what the exact bucket would refuse: over any   *)
(* stretch of time no more than Burst plus Rate times its length, although *)
(* tokens are added in whole numbers and at the moments of calls only.     *)
WithinRate == credit >= 0
=============================================================================
