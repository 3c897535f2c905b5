--------------------------- MODULE AdmissionProofs ---------------------------
(***************************************************************************)
(* What holds of the calls at the door of InvokeProxy.Invoke for every     *)
(* rate, capacity and clock of the token bucket, every number of attempts  *)
(* and every set of errors of Retry, and whatever rules the ACL is given.  *)
(***************************************************************************)
EXTENDS Admission, Induction, SequenceTheorems

(***************************************************************************)
(* The token bucket.                                                       *)
(***************************************************************************)

(* What the bucket holds and is about to add, in the unit of credit. *)
Claimed == tokens * TicksPerSecond + elapsed * Rate

(* The exact bucket holds at least what this one can pay out, unless it is *)
(* full.  A bucket in use has lost a token: were it full with a fraction   *)
(* of a token in hand, it could get ahead of the exact bucket, which       *)
(* spills that fraction.                                                   *)
BucketInv ==
  /\ TypeOK
  /\ credit <= Full
  /\ credit >= AtMost(Full, Claimed)
  /\ exists /\ Burst > 0 => tokens < Burst
  /\ ~exists => elapsed = 0

(* What division by a tick count means. *)
LEMMA Division ==
  ASSUME NEW a \in Nat, NEW b \in Nat \ {0}
  PROVE  /\ a \div b \in Nat
         /\ (a \div b) * b <= a
         /\ a < (a \div b) * b + b
BY SMT

(* The capacity in the unit of credit, and the window, are numbers; a      *)
(* bucket left alone for the window is full.                               *)
LEMMA Sizes == Full \in Nat /\ Window \in Nat /\ Window * Rate >= Full
<1>1. Full \in Nat
  BY BucketConstants DEF Full
<1>2. /\ Full \div Rate \in Nat
      /\ Full < (Full \div Rate) * Rate + Rate
  BY <1>1, Division, BucketConstants
<1>3. (Full \div Rate + 1) * Rate = (Full \div Rate) * Rate + Rate
  BY <1>2, BucketConstants
<1> QED BY <1>1, <1>2, <1>3, BucketConstants DEF Window

LEMMA BucketInitInv == Init => BucketInv
<1> SUFFICES ASSUME Init PROVE BucketInv
  OBVIOUS
<1>1. Claimed = Full
  BY Sizes, BucketConstants DEF Init, Claimed, Full
<1>2. TypeOK
  <2>1. exists \in BOOLEAN /\ admitted \in BOOLEAN
    BY Zenon DEF Init
  <2>2. tokens \in 0 .. Burst /\ elapsed \in 0 .. Window /\ credit \in Int
    BY Sizes, BucketConstants DEF Init
  <2> QED BY <2>1, <2>2 DEF TypeOK
<1>3. credit <= Full /\ credit >= AtMost(Full, Claimed)
  BY <1>1, Sizes DEF Init, AtMost
<1> QED BY <1>2, <1>3 DEF Init, BucketInv

(* Time passing adds to both buckets alike, and nothing to a full one. *)
LEMMA BucketTick == BucketInv /\ Tick => BucketInv'
<1> SUFFICES ASSUME BucketInv, Tick PROVE BucketInv'
  OBVIOUS
<1> USE BucketConstants, Sizes
<1>1. TypeOK'
  BY DEF BucketInv, TypeOK, Tick, AtMost
<1>2. credit' <= Full
  BY DEF BucketInv, TypeOK, Tick, AtMost
<1>3. credit' >= AtMost(Full, Claimed')
  <2> DEFINE held == tokens * TicksPerSecond
  <2>1. held \in Nat /\ elapsed * Rate \in Nat /\ (elapsed + 1) * Rate = elapsed * Rate + Rate
    BY DEF BucketInv, TypeOK
  <2>2. CASE exists /\ elapsed < Window
    <3>1. elapsed' = elapsed + 1 /\ tokens' = tokens
      BY <2>2 DEF Tick, AtMost, BucketInv, TypeOK
    <3>2. Claimed' = Claimed + Rate
      BY <2>1, <3>1 DEF Claimed
    <3>3. Claimed \in Nat
      BY <2>1 DEF Claimed
    <3> QED BY <3>2, <3>3 DEF BucketInv, TypeOK, Tick, AtMost
  <2>3. CASE exists /\ elapsed = Window
    <3>1. Claimed >= Full /\ Claimed \in Nat
      BY <2>1, <2>3 DEF Claimed
    <3>2. Claimed' = Claimed
      BY <2>3 DEF Claimed, Tick, AtMost
    <3> QED BY <3>1, <3>2 DEF BucketInv, TypeOK, Tick, AtMost
  <2>4. CASE ~exists
    <3>1. elapsed' = 0 /\ elapsed = 0 /\ tokens' = tokens
      BY <2>4 DEF Tick, BucketInv
    <3>2. Claimed' = Claimed /\ Claimed \in Nat
      BY <2>1, <3>1 DEF Claimed
    <3> QED BY <3>2 DEF BucketInv, TypeOK, Tick, AtMost
  <2> QED BY <2>2, <2>3, <2>4 DEF BucketInv, TypeOK
<1>4. (exists /\ Burst > 0 => tokens < Burst)' /\ (~exists => elapsed = 0)'
  BY DEF BucketInv, Tick
<1> QED BY <1>1, <1>2, <1>3, <1>4 DEF BucketInv

(* A call is paid for by credit. *)
LEMMA BucketAllow == BucketInv /\ Allow => BucketInv' /\ WithinRate'
<1> SUFFICES ASSUME BucketInv, Allow PROVE BucketInv' /\ WithinRate'
  OBVIOUS
<1> USE BucketConstants, Sizes
<1> DEFINE n == AtMost(Burst, tokens + TokensToAdd)
           T == TicksPerSecond
<1>1. /\ TokensToAdd \in Nat
      /\ TokensToAdd * T <= elapsed * Rate
      /\ elapsed * Rate < TokensToAdd * T + T
  <2>1. elapsed * Rate \in Nat
    BY DEF BucketInv, TypeOK
  <2> QED BY <2>1, Division DEF TokensToAdd
<1>2. n \in 0 .. Burst
  BY <1>1 DEF BucketInv, TypeOK, AtMost
<1>3. TypeOK'
  BY <1>1, <1>2 DEF Allow, Consume, BucketInv, TypeOK
<1>4. exists' /\ (Burst > 0 => tokens' < Burst)
  BY <1>2 DEF Allow, Consume
<1>5. credit' <= Full
  BY DEF Allow, Consume, BucketInv, TypeOK
<1>6. credit \in Int /\ Full = Burst * T /\ n * T \in Nat /\ n * T <= Full
  BY <1>2 DEF Full, BucketInv, TypeOK
<1>7. CASE TokensToAdd > 0
  <2>1. elapsed' = 0 /\ Claimed' = tokens' * T
    BY <1>3, <1>7 DEF Allow, Claimed, TypeOK
  <2>2. (tokens + TokensToAdd) * T <= Claimed /\ Claimed \in Nat
    BY <1>1 DEF Claimed, BucketInv, TypeOK
  <2>3. n * T <= (tokens + TokensToAdd) * T
    BY <1>1, <1>2 DEF AtMost, BucketInv, TypeOK
  <2>4. credit >= n * T
    BY <1>1, <1>6, <2>2, <2>3 DEF BucketInv, TypeOK, AtMost
  <2>5. CASE n > 0
    <3>1. tokens' = n - 1 /\ credit' = credit - T /\ (n - 1) * T = n * T - T
      BY <1>2, <2>5 DEF Allow, Consume
    <3>2. credit' >= Claimed' /\ Claimed' \in Nat
      BY <1>2, <1>6, <2>1, <2>4, <2>5, <3>1
    <3> QED BY <1>3, <1>4, <1>5, <3>2 DEF BucketInv, AtMost, WithinRate, TypeOK
  <2>6. CASE n = 0
    <3>1. tokens' = 0 /\ credit' = credit
      BY <2>6 DEF Allow, Consume
    <3>2. Claimed' = 0 /\ credit' >= 0
      BY <2>1, <2>4, <2>6, <3>1
    <3> QED BY <1>3, <1>4, <1>5, <3>2 DEF BucketInv, AtMost, WithinRate, TypeOK
  <2> QED BY <1>2, <2>5, <2>6
<1>8. CASE TokensToAdd = 0
  <2>1. n = tokens /\ elapsed' = elapsed /\ elapsed * Rate < T /\ elapsed * Rate \in Nat
    BY <1>1, <1>8 DEF Allow, AtMost, BucketInv, TypeOK
  <2>2. CASE n > 0
    <3>1. Claimed <= Full /\ Claimed \in Nat
      <4>1. CASE exists
        <5>1. (tokens + 1) * T <= Full /\ (tokens + 1) * T = tokens * T + T
          BY <2>1, <2>2, <4>1 DEF BucketInv, TypeOK, Full
        <5> QED BY <1>6, <2>1, <5>1 DEF Claimed, BucketInv, TypeOK
      <4>2. CASE ~exists
        BY <1>6, <2>1, <4>2 DEF Claimed, BucketInv, TypeOK
      <4> QED BY <4>1, <4>2
    <3>2. tokens' = tokens - 1 /\ credit' = credit - T /\ (tokens - 1) * T = tokens * T - T
      BY <2>1, <2>2 DEF Allow, Consume, BucketInv, TypeOK
    <3>3. Claimed' = Claimed - T /\ Claimed' \in Nat
      BY <1>2, <2>1, <2>2, <3>2 DEF Claimed, BucketInv, TypeOK
    <3>4. credit' >= Claimed'
      BY <1>6, <3>1, <3>2, <3>3 DEF BucketInv, AtMost
    <3> QED BY <1>3, <1>4, <1>5, <3>3, <3>4 DEF BucketInv, AtMost, WithinRate, TypeOK
  <2>3. CASE n = 0
    <3>1. tokens' = tokens /\ credit' = credit
      BY <2>1, <2>3 DEF Allow, Consume
    <3>2. Claimed' = Claimed
      BY <2>1, <3>1 DEF Claimed
    <3>3. Claimed \in Nat
      BY <2>1 DEF Claimed, BucketInv, TypeOK
    <3>4. credit >= AtMost(Full, Claimed)
      BY DEF BucketInv
    <3>5. AtMost(Full, Claimed') = AtMost(Full, Claimed)
      BY <3>2
    <3>6. credit' >= 0
      BY <1>6, <3>1, <3>3, <3>4 DEF AtMost
    <3> QED BY <1>3, <1>4, <1>5, <3>1, <3>4, <3>5, <3>6 DEF BucketInv, WithinRate
  <2> QED BY <1>2, <2>2, <2>3
<1> QED BY <1>1, <1>7, <1>8

LEMMA BucketNext ==
  ASSUME BucketInv, [AdmissionNext]_admissionVars
  PROVE  BucketInv'
<1>1. CASE UNCHANGED bucketVars
  BY <1>1 DEF bucketVars, BucketInv, TypeOK, Claimed
<1>2. CASE Limit
  BY <1>2, BucketAllow DEF Limit
<1>3. CASE ClockTick
  BY <1>3, BucketTick DEF ClockTick
<1> QED
  BY <1>1, <1>2, <1>3
  DEF AdmissionNext, admissionVars, Call, Cancel, Work, CallAgain, GiveUp,
      CheckRule, CheckPanics, CheckAllows, CheckDenies, CallEnds, UpdateRules

-----------------------------------------------------------------------------
(***************************************************************************)
(* Retry.                                                                  *)
(***************************************************************************)

(* While Retry goes on, every attempt so far was worth another, and there  *)
(* is at least one left.                                                   *)
RetryInv ==
  /\ phase \in {"idle", "running", "waiting"}
  /\ outcomes \in Seq(Error \cup {OK})
  /\ phase # "idle" =>
       /\ verdict = "none"
       /\ Len(outcomes) <= MaxAttempts
       /\ \A i \in 1 .. Len(outcomes) : outcomes[i] \in Retryable
  /\ VerdictIsTrue

LEMMA RetryInitInv == RetryInit => RetryInv
BY RetryAssumption DEF RetryAssumption, RetryInit, RetryInv, VerdictIsTrue, OK

(* An attempt ends Retry, with the verdict it deserves, or leads to the    *)
(* next.                                                                   *)
LEMMA RetryAttempt ==
  ASSUME RetryInv, NEW e \in Error \cup {OK}, AttemptReturns(e)
  PROVE  RetryInv'
<1> USE RetryAssumption DEF RetryAssumption
<1> DEFINE n == Len(outcomes)
<1>1. /\ phase = "running" /\ n \in Nat /\ n <= MaxAttempts
      /\ \A i \in 1 .. n : outcomes[i] \in Retryable
      /\ verdict = "none"
  BY DEF RetryInv, AttemptReturns
<1>2. /\ outcomes' = Append(outcomes, e) /\ ended' = ended
  BY DEF AttemptReturns
<1>3. /\ outcomes' \in Seq(Error \cup {OK}) /\ Len(outcomes') = n + 1
      /\ \A i \in 1 .. n : outcomes'[i] = outcomes[i]
      /\ outcomes'[n + 1] = e
  BY <1>2 DEF RetryInv
<1>4. CASE e = OK /\ Return(OK)
  BY <1>1, <1>3, <1>4 DEF RetryInv, VerdictIsTrue, Return, OK
<1>5. CASE e # OK /\ ~Retries /\ Return("exceeded")
  <2>1. n = MaxAttempts
    BY <1>1, <1>5 DEF Retries
  <2> QED BY <1>1, <1>3, <1>5, <2>1 DEF RetryInv, VerdictIsTrue, Return, OK
<1>6. CASE e # OK /\ Retries /\ e \notin Retryable /\ Return("refused")
  <2>1. n < MaxAttempts /\ e \in Error \ Retryable
    BY <1>6 DEF Retries
  <2> QED BY <1>1, <1>3, <1>6, <2>1 DEF RetryInv, VerdictIsTrue, Return, OK
<1>7. CASE e \in Retryable /\ Retries /\ ended /\ Return("cancelled")
  <2>1. n < MaxAttempts
    BY <1>7 DEF Retries
  <2> QED BY <1>1, <1>2, <1>3, <1>7, <2>1 DEF RetryInv, VerdictIsTrue, Return, OK
<1>8. CASE e \in Retryable /\ Retries /\ phase' = "waiting" /\ UNCHANGED verdict
  <2>1. n < MaxAttempts
    BY <1>8 DEF Retries
  <2>2. \A i \in 1 .. n + 1 : outcomes'[i] \in Retryable
    BY <1>1, <1>3, <1>8
  <2> QED BY <1>1, <1>3, <1>8, <2>1, <2>2 DEF RetryInv, VerdictIsTrue, OK
<1> QED BY <1>4, <1>5, <1>6, <1>7, <1>8 DEF AttemptReturns

LEMMA RetryNext ==
  ASSUME RetryInv, [AdmissionNext]_admissionVars
  PROVE  RetryInv'
<1> USE RetryAssumption DEF RetryAssumption
<1>1. CASE UNCHANGED <<phase, outcomes, ended, verdict>>
  BY <1>1 DEF RetryInv, VerdictIsTrue
<1>2. CASE Begin
  BY <1>2 DEF Begin, RetryInv, VerdictIsTrue, OK
<1>3. CASE TimerFires
  BY <1>3 DEF TimerFires, RetryInv, VerdictIsTrue
<1>4. CASE ContextDone
  BY <1>4 DEF ContextDone, Return, RetryInv, VerdictIsTrue, OK
<1>5. CASE ContextEnds
  BY <1>5 DEF ContextEnds, RetryInv, VerdictIsTrue, OK
<1>6. ASSUME NEW e \in Error \cup {OK}, AttemptReturns(e) PROVE RetryInv'
  BY <1>6, RetryAttempt
<1>7. CASE CheckDenies
  BY <1>6, <1>7, ErrorAssumption DEF ErrorAssumption, CheckDenies
<1>8. CASE Limit
  BY <1>1, <1>6, <1>8, ErrorAssumption DEF ErrorAssumption, Limit, retryVars
<1>9. CASE CallEnds
  BY <1>6, <1>9 DEF CallEnds
<1> QED
  BY <1>1, <1>2, <1>3, <1>4, <1>5, <1>7, <1>8, <1>9
  DEF AdmissionNext, admissionVars, retryVars, Call, Cancel, Work, CallAgain,
      GiveUp, CheckRule, CheckPanics, CheckAllows, UpdateRules, ClockTick

(* A delay is a number of ticks. *)
LEMMA DelayType ==
  ASSUME NEW n \in 0 .. MaxAttempts, NEW d \in Delays(n)
  PROVE  d \in Nat
<1> USE RetryAssumption DEF RetryAssumption
<1>1. Multiplier ^ n \in Nat
  BY PowerAssumption DEF PowerAssumption
<1>2. InitialDelay * Multiplier ^ n \in Nat
  BY <1>1
<1>3. Backoff(n) \in Nat
  BY <1>2 DEF Backoff, Smaller
<1> QED BY <1>3 DEF Delays

LEMMA WaitNext ==
  ASSUME RetryInv, RetryTypeOK, [AdmissionNext]_admissionVars
  PROVE  RetryTypeOK'
<1> USE RetryAssumption DEF RetryAssumption
<1>1. RetryInv'
  BY RetryNext
<1>2. /\ ended' \in BOOLEAN
  BY Zenon
  DEF RetryTypeOK, AdmissionNext, admissionVars, retryVars, Call, Cancel, Work,
      CallAgain, GiveUp, CheckRule, CheckPanics, CheckAllows, CheckDenies,
      Limit, CallEnds, UpdateRules, ClockTick, Begin, TimerFires, ContextDone,
      ContextEnds, AttemptReturns
<1> DEFINE Rest == /\ Len(outcomes') <= MaxAttempts + 1
                   /\ wait' \in Nat
                   /\ verdict' \in Verdict
<1>3. CASE UNCHANGED retryVars
  <2>1. Rest
    BY <1>3 DEF retryVars, RetryTypeOK
  <2> QED BY <1>1, <1>2, <2>1 DEF RetryTypeOK, RetryInv
<1>4. CASE Begin \/ TimerFires \/ ContextDone \/ ContextEnds
  <2>1. Rest
    BY <1>4
    DEF Begin, TimerFires, ContextDone, ContextEnds, Return, RetryTypeOK, Verdict
  <2> QED BY <1>1, <1>2, <2>1 DEF RetryTypeOK, RetryInv
<1>5. CASE ClockTick
  <2>1. Rest
    BY <1>5 DEF ClockTick, TimePasses, RetryTypeOK
  <2> QED BY <1>1, <1>2, <2>1 DEF RetryTypeOK, RetryInv
<1>6. ASSUME NEW e \in Error \cup {OK}, AttemptReturns(e) PROVE RetryTypeOK'
  <2>1. Len(outcomes') <= MaxAttempts + 1
    BY <1>6 DEF AttemptReturns, RetryInv
  <2>2. wait' \in Nat
    BY <1>6, DelayType DEF AttemptReturns, Return, Retries, RetryInv
  <2>3. verdict' \in Verdict
    BY <1>6 DEF AttemptReturns, Return, RetryTypeOK, Verdict
  <2> QED BY <1>1, <1>2, <2>1, <2>2, <2>3 DEF RetryTypeOK, RetryInv
<1>7. CASE CheckDenies
  BY <1>6, <1>7, ErrorAssumption DEF ErrorAssumption, CheckDenies
<1>8. CASE Limit
  BY <1>3, <1>6, <1>8, ErrorAssumption DEF ErrorAssumption, Limit
<1>9. CASE CallEnds
  BY <1>6, <1>9 DEF CallEnds
<1> QED
  BY <1>3, <1>4, <1>5, <1>7, <1>8, <1>9
  DEF AdmissionNext, admissionVars, Call, Cancel, Work, CallAgain, GiveUp,
      CheckRule, CheckPanics, CheckAllows, UpdateRules

-----------------------------------------------------------------------------
(***************************************************************************)
(* The ACL, whose slice may be torn.                                       *)
(***************************************************************************)

LEMMA RulesAreRules ==
  /\ \A rs \in RuleSet : rs \in Seq(Rule) /\ Len(rs) \in Nat
  /\ \A rule \in AnyRule : rule \in Rule
BY ACLAssumption DEF ACLAssumption, AnyRule

LEMMA ACLNext ==
  ASSUME ACLTypeOK, [AdmissionNext]_admissionVars
  PROVE  ACLTypeOK'
<1>1. overlapped' \in BOOLEAN
  BY Zenon
  DEF ACLTypeOK, AdmissionNext, admissionVars, aclVars, Call, Cancel, Work,
      CallAgain, GiveUp, CheckRule, CheckPanics, CheckAllows, CheckDenies,
      Limit, CallEnds, UpdateRules, ClockTick, BeginMatch, Consider, EndMatch,
      WriteCount, WritePointer, Consistent
<1>2. CASE UNCHANGED aclVars
  BY <1>2 DEF aclVars, ACLTypeOK
<1>3. ASSUME NEW r \in Request, BeginMatch(r) PROVE ACLTypeOK'
  BY <1>1, <1>3, RulesAreRules DEF BeginMatch, ACLTypeOK, NoRule
<1>4. CASE Consider
  <2>1. PICK rule \in IF at <= Len(rules) THEN {rules[at]} ELSE AnyRule :
          best' = IF Applies(rule, request) /\ Better(rule, best)
                  THEN Strictest(rule) ELSE best
    BY <1>4 DEF Consider
  <2>2. rule \in Rule
    BY <2>1, RulesAreRules DEF ACLTypeOK
  <2>3. best'.allow \in BOOLEAN /\ best'.priority \in Int
    <3>1. /\ Strictest(rule).allow = rule.allow
          /\ Strictest(rule).priority = rule.priority
      BY DEF Strictest
    <3>2. rule.allow \in BOOLEAN /\ rule.priority \in Int
      BY <2>2 DEF Rule
    <3>3. best.allow \in BOOLEAN /\ best.priority \in Int
      BY DEF ACLTypeOK
    <3>4. best' = Strictest(rule) \/ best' = best
      BY <2>1
    <3> QED BY <3>1, <3>2, <3>3, <3>4, Zenon
  <2> QED BY <1>1, <1>4, <2>3 DEF Consider, ACLTypeOK
<1>5. CASE EndMatch
  BY <1>1, <1>5 DEF EndMatch, ACLTypeOK, NoRule
<1>6. CASE WriteCount \/ WritePointer
  BY <1>1, <1>6 DEF WriteCount, WritePointer, checkVars, ACLTypeOK
<1>7. request \in Request
  BY DEF ACLTypeOK
<1> QED
  BY <1>2, <1>3, <1>4, <1>5, <1>6, <1>7
  DEF AdmissionNext, admissionVars, Call, Cancel, Work, CallAgain, GiveUp,
      CheckRule, CheckPanics, CheckAllows, CheckDenies, Limit, CallEnds,
      UpdateRules, ClockTick

-----------------------------------------------------------------------------
(***************************************************************************)
(* matchPattern.                                                           *)
(***************************************************************************)

(* What Glob asks of a cut at the i-th character of the pattern. *)
Covers(cut, value, pattern, i) ==
  IF pattern[i] = Star THEN cut[i - 1] <= cut[i]
  ELSE cut[i] = cut[i - 1] + 1 /\ value[cut[i]] = pattern[i]

IsCut(cut, value, pattern) ==
  /\ cut \in [0 .. Len(pattern) -> 0 .. Len(value)]
  /\ cut[0] = 0 /\ cut[Len(pattern)] = Len(value)
  /\ \A i \in 1 .. Len(pattern) : Covers(cut, value, pattern, i)

LEMMA GlobMeans ==
  ASSUME NEW C, NEW value \in Seq(C), NEW pattern \in Seq(C)
  PROVE  Glob(value, pattern) <=> \E cut : IsCut(cut, value, pattern)
BY DEF Glob, IsCut, Covers

(* What the functions of package strings say, character by character. *)
LEMMA PrefixMeans ==
  ASSUME NEW C, NEW s \in Seq(C), NEW t \in Seq(C)
  PROVE  SX!IsPrefix(s, t) <=>
           Len(s) <= Len(t) /\ \A i \in 1 .. Len(s) : s[i] = t[i]
<1>1. CASE Len(s) <= Len(t)
  <2>1. SubSeq(s, 1, Len(s)) = [i \in 1 .. Len(s) |-> s[i]]
    OBVIOUS
  <2>2. SubSeq(t, 1, Len(s)) = [i \in 1 .. Len(s) |-> t[i]]
    BY <1>1
  <2> QED BY <1>1, <2>1, <2>2 DEF SX!IsPrefix
<1>2. CASE ~(Len(s) <= Len(t))
  BY <1>2 DEF SX!IsPrefix
<1> QED BY <1>1, <1>2

LEMMA SuffixMeans ==
  ASSUME NEW C, NEW s \in Seq(C), NEW t \in Seq(C)
  PROVE  SX!IsSuffix(s, t) <=>
           /\ Len(s) <= Len(t)
           /\ \A i \in 1 .. Len(s) : s[i] = t[Len(t) - Len(s) + i]
<1> DEFINE rs == SX!Reverse(s)
           rt == SX!Reverse(t)
<1>1. /\ rs \in Seq(C) /\ Len(rs) = Len(s)
      /\ \A i \in 1 .. Len(s) : rs[i] = s[Len(s) - i + 1]
  BY DEF SX!Reverse
<1>2. /\ rt \in Seq(C) /\ Len(rt) = Len(t)
      /\ \A i \in 1 .. Len(t) : rt[i] = t[Len(t) - i + 1]
  BY DEF SX!Reverse
<1>3. SX!IsSuffix(s, t) <=> SX!IsPrefix(rs, rt)
  BY DEF SX!IsSuffix
<1> HIDE DEF rs, rt
<1>4. SX!IsSuffix(s, t) <=> Len(s) <= Len(t) /\ \A i \in 1 .. Len(s) : rs[i] = rt[i]
  BY <1>1, <1>2, <1>3, PrefixMeans
<1>5. CASE Len(s) <= Len(t)
  <2>1. ASSUME \A i \in 1 .. Len(s) : rs[i] = rt[i], NEW i \in 1 .. Len(s)
        PROVE  s[i] = t[Len(t) - Len(s) + i]
    <3>1. Len(s) - i + 1 \in 1 .. Len(s)
      OBVIOUS
    <3>2. rs[Len(s) - i + 1] = rt[Len(s) - i + 1]
      BY <2>1, <3>1
    <3>3. rs[Len(s) - i + 1] = s[i]
      BY <1>1, <3>1
    <3>4. rt[Len(s) - i + 1] = t[Len(t) - Len(s) + i]
      BY <1>2, <1>5, <3>1
    <3> QED BY <3>2, <3>3, <3>4
  <2>2. ASSUME \A i \in 1 .. Len(s) : s[i] = t[Len(t) - Len(s) + i], NEW i \in 1 .. Len(s)
        PROVE  rs[i] = rt[i]
    <3>1. Len(s) - i + 1 \in 1 .. Len(s)
      OBVIOUS
    <3>2. s[Len(s) - i + 1] = t[Len(t) - Len(s) + (Len(s) - i + 1)]
      BY <2>2, <3>1
    <3>3. Len(t) - Len(s) + (Len(s) - i + 1) = Len(t) - i + 1
      OBVIOUS
    <3>4. i \in 1 .. Len(t)
      BY <1>5
    <3>5. rs[i] = s[Len(s) - i + 1] /\ rt[i] = t[Len(t) - i + 1]
      BY <1>1, <1>2, <3>4
    <3> QED BY <3>2, <3>3, <3>5
  <2> QED BY <1>4, <1>5, <2>1, <2>2
<1>6. CASE ~(Len(s) <= Len(t))
  BY <1>4, <1>6
<1> QED BY <1>5, <1>6

(* The word stands in the value after the first o characters. *)
StandsAt(value, word, o) ==
  /\ o \in 0 .. Len(value) - Len(word)
  /\ \A i \in 1 .. Len(word) : value[o + i] = word[i]

LEMMA SubstringMeans ==
  ASSUME NEW C, NEW value \in Seq(C), NEW word \in Seq(C)
  PROVE  HasSubstring(value, word) <=> \E o : StandsAt(value, word, o)
<1>1. ASSUME NEW o \in 0 .. Len(value) - Len(word)
      PROVE  SubSeq(value, o + 1, o + Len(word)) = word <=>
               \A i \in 1 .. Len(word) : value[o + i] = word[i]
  <2> DEFINE part == SubSeq(value, o + 1, o + Len(word))
  <2>1. /\ part \in Seq(C) /\ Len(part) = Len(word)
        /\ \A i \in 1 .. Len(word) : part[i] = value[o + i]
    OBVIOUS
  <2> HIDE DEF part
  <2>2. part = word <=> \A i \in 1 .. Len(word) : part[i] = word[i]
    BY <2>1, SeqEqual
  <2>3. part = word <=> \A i \in 1 .. Len(word) : value[o + i] = word[i]
    BY <2>1, <2>2
  <2> QED BY <2>3 DEF part
<1> QED BY <1>1 DEF HasSubstring, StandsAt

(* The stars that strings.Trim takes off. *)
TrimmedTo(pattern, word, lo, hi) ==
  /\ lo \in 1 .. Len(pattern) /\ hi \in 1 .. Len(pattern)
  /\ lo <= hi /\ pattern[lo] # Star /\ pattern[hi] # Star
  /\ \A i \in 1 .. Len(pattern) : i < lo \/ i > hi => pattern[i] = Star
  /\ Len(word) = hi - lo + 1
  /\ \A i \in 1 .. hi - lo + 1 : word[i] = pattern[lo + i - 1]

AllStars(pattern) == \A i \in 1 .. Len(pattern) : pattern[i] = Star

LEMMA TrimMeans ==
  ASSUME NEW C, NEW pattern \in Seq(C)
  PROVE  /\ TrimStars(pattern) \in Seq(C)
         /\ IF AllStars(pattern) THEN TrimStars(pattern) = <<>>
            ELSE \E lo, hi : TrimmedTo(pattern, TrimStars(pattern), lo, hi)
<1> DEFINE kept == {i \in DOMAIN pattern : pattern[i] # Star}
<1>1. kept \subseteq 1 .. Len(pattern) /\ Len(pattern) \in Nat
  OBVIOUS
<1>2. TrimStars(pattern) = IF kept = {} THEN <<>>
                           ELSE SubSeq(pattern, SX!Min(kept), SX!Max(kept))
  BY DEF TrimStars
<1>3. CASE kept = {}
  BY <1>2, <1>3 DEF AllStars
<1>4. CASE kept # {}
  <2>1. /\ SX!Min(kept) = CHOOSE x \in kept : \A y \in kept : x <= y
        /\ SX!Max(kept) = CHOOSE x \in kept : \A y \in kept : x >= y
    BY DEF SX!Min, SX!Max
  <2> DEFINE lo == SX!Min(kept)
             hi == SX!Max(kept)
  <2>2. lo \in kept /\ \A y \in kept : lo <= y
    <3>1. \E x \in kept : \A y \in kept : x <= y
      <4> HIDE DEF kept
      <4>1. kept \subseteq Nat
        BY <1>1
      <4> QED BY <1>4, <4>1, Smallest
    <3> HIDE DEF kept
    <3> QED BY <2>1, <3>1
  <2>3. hi \in kept /\ \A y \in kept : hi >= y
    <3>1. \E x \in kept : \A y \in kept : x >= y
      <4> HIDE DEF kept
      <4>1. kept \subseteq 0 .. Len(pattern)
        BY <1>1
      <4> QED BY <1>1, <1>4, <4>1, Largest
    <3> HIDE DEF kept
    <3> QED BY <2>1, <3>1
  <2> HIDE DEF lo, hi
  <2>4. lo \in 1 .. Len(pattern) /\ hi \in 1 .. Len(pattern) /\ lo <= hi
    BY <2>2, <2>3
  <2>5. \A i \in 1 .. Len(pattern) : i < lo \/ i > hi => pattern[i] = Star
    BY <2>2, <2>3, <2>4
  <2>6. TrimStars(pattern) = SubSeq(pattern, lo, hi)
    BY <1>2, <1>4 DEF lo, hi
  <2>7. pattern[lo] # Star /\ pattern[hi] # Star
    BY <2>2, <2>3
  <2> HIDE DEF kept
  <2>8. TrimmedTo(pattern, SubSeq(pattern, lo, hi), lo, hi)
    BY <2>4, <2>5, <2>7 DEF TrimmedTo
  <2>9. SubSeq(pattern, lo, hi) \in Seq(C)
    BY <2>4
  <2> QED BY <2>4, <2>6, <2>7, <2>8, <2>9 DEF AllStars
<1> QED BY <1>3, <1>4

LEMMA EndsMean ==
  ASSUME NEW C, NEW pattern \in Seq(C)
  PROVE  /\ StartsWithStar(pattern) <=> Len(pattern) > 0 /\ pattern[1] = Star
         /\ EndsWithStar(pattern) <=> Len(pattern) > 0 /\ pattern[Len(pattern)] = Star
         /\ Star \notin SX!ToSet(pattern) <=>
              \A i \in 1 .. Len(pattern) : pattern[i] # Star
BY DEF StartsWithStar, EndsWithStar, SX!Last, SX!ToSet

LEMMA CutEnds ==
  ASSUME NEW C, NEW pattern \in Seq(C), Len(pattern) > 0
  PROVE  /\ Tail(pattern) \in Seq(C) /\ Len(Tail(pattern)) = Len(pattern) - 1
         /\ \A i \in 1 .. Len(pattern) - 1 : Tail(pattern)[i] = pattern[i + 1]
         /\ SX!Front(pattern) \in Seq(C) /\ Len(SX!Front(pattern)) = Len(pattern) - 1
         /\ \A i \in 1 .. Len(pattern) - 1 : SX!Front(pattern)[i] = pattern[i]
<1>1. /\ Tail(pattern) \in Seq(C) /\ Len(Tail(pattern)) = Len(pattern) - 1
      /\ \A i \in 1 .. Len(pattern) - 1 : Tail(pattern)[i] = pattern[i + 1]
  OBVIOUS
<1>2. /\ SX!Front(pattern) \in Seq(C) /\ Len(SX!Front(pattern)) = Len(pattern) - 1
      /\ \A i \in 1 .. Len(pattern) - 1 : SX!Front(pattern)[i] = pattern[i]
  BY DEF SX!Front
<1> QED BY <1>1, <1>2

(* matchPattern, with its cases for prefixes, suffixes and substrings,     *)
(* never matches a value that the pattern does not cover.                  *)
THEOREM MatchIsSound ==
  ASSUME NEW C, NEW value \in Seq(C), NEW pattern \in Seq(C),
         MatchPattern(value, pattern)
  PROVE  Glob(value, pattern)
<1> DEFINE n == Len(pattern)
           v == Len(value)
           Good(cut) == IsCut(cut, value, pattern)
<1>1. n \in Nat /\ v \in Nat
  OBVIOUS
<1>2. SUFFICES \E cut : Good(cut)
  BY GlobMeans
<1>3. CASE value = pattern
  <2> DEFINE cut == [i \in 0 .. n |-> i]
  <2>1. Good(cut)
    BY <1>1, <1>3 DEF IsCut, Covers
  <2> QED BY <2>1
<1>4. CASE /\ StartsWithStar(pattern) /\ EndsWithStar(pattern)
           /\ HasSubstring(value, TrimStars(pattern))
  <2>1. n > 0 /\ pattern[1] = Star /\ pattern[n] = Star
    BY <1>4, EndsMean
  <2>2. CASE AllStars(pattern)
    <3> DEFINE cut == [i \in 0 .. n |-> IF i = n THEN v ELSE 0]
    <3>1. Good(cut)
      BY <1>1, <2>1, <2>2 DEF IsCut, Covers, AllStars
    <3> QED BY <3>1
  <2>3. CASE ~AllStars(pattern)
    <3> DEFINE word == TrimStars(pattern)
    <3>a. word \in Seq(C) /\ Len(word) \in Nat
      BY TrimMeans
    <3>b. PICK lo, hi : TrimmedTo(pattern, word, lo, hi)
      BY <2>3, TrimMeans
    <3>c. PICK o : StandsAt(value, word, o)
      BY <1>4, <3>a, SubstringMeans
    <3>1. /\ lo \in 1 .. n /\ hi \in 1 .. n
          /\ lo <= hi /\ pattern[lo] # Star /\ pattern[hi] # Star
          /\ \A i \in 1 .. n : i < lo \/ i > hi => pattern[i] = Star
          /\ Len(word) = hi - lo + 1
          /\ \A i \in 1 .. hi - lo + 1 : word[i] = pattern[lo + i - 1]
      BY <3>b DEF TrimmedTo
    <3>2. /\ o \in 0 .. v - Len(word)
          /\ \A i \in 1 .. Len(word) : value[o + i] = word[i]
      BY <3>c DEF StandsAt
    <3> HIDE DEF word
    <3>3. lo > 1 /\ hi < n
      BY <1>1, <2>1, <3>1
    <3> DEFINE cut == [i \in 0 .. n |-> IF i = 0 THEN 0
                                        ELSE IF i = n THEN v
                                        ELSE IF i < lo THEN o
                                        ELSE IF i <= hi THEN o + i - lo + 1
                                        ELSE o + Len(word)]
    <3>4. cut \in [0 .. n -> 0 .. v] /\ cut[0] = 0 /\ cut[n] = v
      BY <1>1, <2>1, <3>1, <3>2, <3>3
    <3>5. ASSUME NEW i \in 1 .. n, i < lo \/ i > hi PROVE Covers(cut, value, pattern, i)
      <4>1. pattern[i] = Star
        BY <3>1, <3>5
      <4>2. cut[i - 1] <= cut[i]
        BY <1>1, <2>1, <3>1, <3>2, <3>3, <3>5
      <4> QED BY <4>1, <4>2 DEF Covers
    <3>6. ASSUME NEW i \in lo .. hi PROVE Covers(cut, value, pattern, i)
      <4>0. i \in 2 .. n - 1 /\ (i - 1 < lo => i = lo) /\ o \in Nat
        BY <1>1, <3>1, <3>2, <3>3
      <4>1. cut[i - 1] = o + i - lo /\ cut[i] = o + (i - lo + 1)
        <5>1. i \in 0 .. n /\ i # 0 /\ i # n /\ ~(i < lo) /\ i <= hi
          BY <1>1, <3>1, <4>0
        <5>2. cut[i] = o + i - lo + 1
          BY <5>1
        <5>3. i - 1 \in 0 .. n /\ i - 1 # 0 /\ i - 1 # n /\ i - 1 <= hi
          BY <1>1, <3>1, <4>0
        <5>4. cut[i - 1] = IF i - 1 < lo THEN o ELSE o + (i - 1) - lo + 1
          BY <5>3
        <5> HIDE DEF cut
        <5> QED BY <3>1, <4>0, <5>2, <5>4
      <4>2. i - lo + 1 \in 1 .. hi - lo + 1
        BY <1>1, <3>1
      <4>3. value[o + (i - lo + 1)] = word[i - lo + 1]
        BY <3>1, <3>2, <4>2
      <4>4. word[i - lo + 1] = pattern[lo + (i - lo + 1) - 1] /\ lo + (i - lo + 1) - 1 = i
        BY <3>1, <4>2
      <4>5. value[cut[i]] = pattern[i]
        BY <4>1, <4>3, <4>4
      <4> HIDE DEF cut
      <4>6. cut[i - 1] + 1 = cut[i] /\ cut[i - 1] <= cut[i]
        BY <3>1, <4>0, <4>1
      <4> QED BY <4>5, <4>6 DEF Covers
    <3>7. Good(cut)
      <4> HIDE DEF cut
      <4>1. ASSUME NEW i \in 1 .. n PROVE i \in lo .. hi \/ i < lo \/ i > hi
        BY <1>1, <3>1
      <4> QED BY <3>4, <3>5, <3>6, <4>1 DEF IsCut
    <3> QED BY <3>7
  <2> QED BY <2>2, <2>3
<1>5. CASE StartsWithStar(pattern) /\ SX!IsSuffix(Tail(pattern), value)
  <2>1. n > 0 /\ pattern[1] = Star
    BY <1>5, EndsMean
  <2>2. /\ n - 1 <= v
        /\ \A i \in 1 .. n - 1 : pattern[i + 1] = value[v - (n - 1) + i]
    <3>1. /\ Tail(pattern) \in Seq(C) /\ Len(Tail(pattern)) = n - 1
          /\ \A i \in 1 .. n - 1 : Tail(pattern)[i] = pattern[i + 1]
      BY <2>1, CutEnds
    <3>2. /\ Len(Tail(pattern)) <= v
          /\ \A i \in 1 .. Len(Tail(pattern)) :
               Tail(pattern)[i] = value[v - Len(Tail(pattern)) + i]
      BY <1>5, <3>1, SuffixMeans
    <3> QED BY <3>1, <3>2
  <2> DEFINE cut == [i \in 0 .. n |-> IF i = 0 THEN 0 ELSE v - n + i]
  <2>3. cut \in [0 .. n -> 0 .. v] /\ cut[0] = 0 /\ cut[n] = v
    BY <1>1, <2>1, <2>2
  <2>4. Covers(cut, value, pattern, 1)
    BY <1>1, <2>1, <2>2 DEF Covers
  <2>5. ASSUME NEW i \in 2 .. n PROVE Covers(cut, value, pattern, i)
    <3>1. i - 1 \in 1 .. n - 1
      BY <1>1
    <3>2. pattern[(i - 1) + 1] = value[v - (n - 1) + (i - 1)]
      BY <2>2, <3>1
    <3>3. (i - 1) + 1 = i /\ v - (n - 1) + (i - 1) = v - n + i
      BY <1>1
    <3>4. cut[i] = v - n + i /\ cut[i - 1] = v - n + i - 1
      BY <1>1
    <3>5. cut[i - 1] + 1 = cut[i] /\ cut[i - 1] <= cut[i] /\ value[cut[i]] = pattern[i]
      BY <1>1, <3>2, <3>3, <3>4
    <3> HIDE DEF cut
    <3> QED BY <3>5 DEF Covers
  <2>6. Good(cut)
    <3> HIDE DEF cut
    <3>1. \A i \in 1 .. n : i = 1 \/ i \in 2 .. n
      BY <1>1
    <3> QED BY <2>3, <2>4, <2>5, <3>1 DEF IsCut
  <2> QED BY <2>6
<1>6. CASE EndsWithStar(pattern) /\ SX!IsPrefix(SX!Front(pattern), value)
  <2>1. n > 0 /\ pattern[n] = Star
    BY <1>6, EndsMean
  <2>2. n - 1 <= v /\ \A i \in 1 .. n - 1 : pattern[i] = value[i]
    BY <1>6, <2>1, CutEnds, PrefixMeans
  <2> DEFINE cut == [i \in 0 .. n |-> IF i = n THEN v ELSE i]
  <2>3. Good(cut)
    BY <1>1, <2>1, <2>2 DEF IsCut, Covers
  <2> QED BY <2>3
<1> QED BY <1>3, <1>4, <1>5, <1>6 DEF MatchPattern

(* Letters in a row cover as many letters of the value. *)
Letters(pattern, a, b) == \A i \in a + 1 .. b : pattern[i] # Star

InARow(cut, value, pattern, a, b) ==
  /\ \A i \in 0 .. b - a : cut[a + i] = cut[a] + i
  /\ \A i \in 1 .. b - a : value[cut[a] + i] = pattern[a + i]

LEMMA LettersInARow ==
  ASSUME NEW C, NEW value \in Seq(C), NEW pattern \in Seq(C),
         NEW cut, IsCut(cut, value, pattern),
         NEW a \in 0 .. Len(pattern), NEW b \in a .. Len(pattern),
         Letters(pattern, a, b)
  PROVE  InARow(cut, value, pattern, a, b)
<1> USE DEF IsCut, Letters
<1> DEFINE T == {i \in 0 .. b - a : cut[a + i] = cut[a] + i}
<1>0. b - a \in Nat /\ Len(pattern) \in Nat /\ Len(value) \in Nat
  OBVIOUS
<1>1. 0 \in T
  BY <1>0
<1>2. ASSUME NEW i \in 0 .. b - a - 1
      PROVE  cut[a + i + 1] = cut[a + i] + 1 /\ value[cut[a + i + 1]] = pattern[a + i + 1]
  <2>1. a + i + 1 \in a + 1 .. b /\ a + i + 1 \in 1 .. Len(pattern) /\ (a + i + 1) - 1 = a + i
    BY <1>0
  <2>2. pattern[a + i + 1] # Star /\ Covers(cut, value, pattern, a + i + 1)
    BY <2>1
  <2> QED BY <2>1, <2>2 DEF Covers
<1>3. ASSUME NEW i \in 0 .. b - a - 1, i \in T PROVE i + 1 \in T
  <2>1. cut[a + i] \in Nat /\ cut[a] \in Nat
    BY <1>0
  <2>2. cut[a + i] = cut[a] + i /\ cut[a + i + 1] = cut[a + i] + 1
    BY <1>2, <1>3
  <2>3. a + i + 1 = a + (i + 1) /\ cut[a] + i + 1 = cut[a] + (i + 1)
    BY <1>0, <2>1
  <2>4. cut[a + (i + 1)] = cut[a] + (i + 1)
    BY <2>1, <2>2, <2>3
  <2> QED BY <1>0, <2>4
<1>4. 0 .. b - a \subseteq T
  <2> HIDE DEF T
  <2> QED BY <1>0, <1>1, <1>3, UpTo
<1>5. \A i \in 0 .. b - a : cut[a + i] = cut[a] + i
  BY <1>4
<1>6. ASSUME NEW i \in 1 .. b - a PROVE value[cut[a] + i] = pattern[a + i]
  <2>1. i - 1 \in 0 .. b - a - 1 /\ a + (i - 1) + 1 = a + i
    BY <1>0
  <2>2. value[cut[a + i]] = pattern[a + i]
    BY <1>2, <2>1
  <2> QED BY <1>0, <1>5, <2>2
<1> QED BY <1>5, <1>6 DEF InARow

(* matchPattern matches every value that the pattern covers, if the        *)
(* pattern is of the forms the documents use: stars at its ends only.      *)
THEOREM MatchIsComplete ==
  ASSUME NEW C, NEW value \in Seq(C), NEW pattern \in Seq(C),
         Documented(pattern), Glob(value, pattern)
  PROVE  MatchPattern(value, pattern)
<1> DEFINE n == Len(pattern)
           v == Len(value)
<1>1. n \in Nat /\ v \in Nat
  OBVIOUS
<1>2. PICK cut : IsCut(cut, value, pattern)
  BY GlobMeans
<1>3. cut \in [0 .. n -> 0 .. v] /\ cut[0] = 0 /\ cut[n] = v
  BY <1>2 DEF IsCut
<1>4. \A i \in 2 .. n - 1 : pattern[i] # Star
  BY DEF Documented
<1>5. CASE \A i \in 1 .. n : pattern[i] # Star
  <2>1. InARow(cut, value, pattern, 0, n)
    <3>1. Letters(pattern, 0, n) /\ 0 \in 0 .. n /\ n \in 0 .. n
      BY <1>1, <1>5 DEF Letters
    <3> QED BY <1>2, <3>1, LettersInARow
  <2>2. v = n /\ \A i \in 1 .. n : value[i] = pattern[i]
    BY <1>1, <1>3, <2>1 DEF InARow
  <2>3. value = pattern
    BY <2>2, SeqEqual
  <2> QED BY <1>5, <2>3, EndsMean DEF MatchPattern
<1>6. CASE n > 0 /\ pattern[1] = Star /\ pattern[n] = Star
  <2> DEFINE word == TrimStars(pattern)
  <2>1. StartsWithStar(pattern) /\ EndsWithStar(pattern)
    BY <1>6, EndsMean
  <2>2. word \in Seq(C)
    BY TrimMeans
  <2>3. \E o : StandsAt(value, word, o)
    <3>1. CASE AllStars(pattern)
      <4>1. word = <<>>
        BY <3>1, TrimMeans
      <4>2. StandsAt(value, <<>>, 0)
        BY <1>1 DEF StandsAt
      <4> QED BY <4>1, <4>2
    <3>2. CASE ~AllStars(pattern)
      <4>1. PICK lo, hi : TrimmedTo(pattern, word, lo, hi)
        BY <3>2, TrimMeans
      <4> HIDE DEF word
      <4>2. lo \in 2 .. n - 1 /\ hi \in 2 .. n - 1
        BY <1>1, <1>6, <4>1 DEF TrimmedTo
      <4>3. lo = 2 /\ hi = n - 1
        <5>1. \A i \in 1 .. n : i < lo \/ i > hi => pattern[i] = Star
          BY <4>1 DEF TrimmedTo
        <5>2. 2 \in 2 .. n - 1 /\ n - 1 \in 2 .. n - 1
          BY <1>1, <4>2
        <5>3. pattern[2] # Star /\ pattern[n - 1] # Star
          BY <1>4, <5>2
        <5> QED BY <1>1, <4>2, <5>1, <5>2, <5>3
      <4>4. InARow(cut, value, pattern, 1, n - 1)
        <5>1. Letters(pattern, 1, n - 1) /\ 1 \in 0 .. n /\ n - 1 \in 1 .. n
          BY <1>1, <1>4, <4>2 DEF Letters
        <5> QED BY <1>2, <5>1, LettersInARow
      <4>5. Len(word) = n - 2 /\ \A i \in 1 .. n - 2 : word[i] = pattern[1 + i]
        BY <1>1, <4>1, <4>3 DEF TrimmedTo
      <4>6. cut[1] \in 0 .. v /\ cut[1] + (n - 2) <= v
        <5>1. n - 2 \in 0 .. n - 1 - 1 /\ 1 + (n - 2) = n - 1 /\ n - 1 \in 0 .. n /\ 1 \in 0 .. n
          BY <1>1, <4>2
        <5>2. cut[1 + (n - 2)] = cut[1] + (n - 2)
          BY <4>4, <5>1 DEF InARow
        <5>3. cut[n - 1] \in 0 .. v /\ cut[1] \in 0 .. v
          BY <1>3, <5>1
        <5> QED BY <1>1, <5>1, <5>2, <5>3
      <4>7. \A i \in 1 .. n - 2 : value[cut[1] + i] = pattern[1 + i]
        BY <1>1, <4>4 DEF InARow
      <4>8. StandsAt(value, word, cut[1])
        <5>1. cut[1] \in 0 .. v - Len(word)
          BY <1>1, <4>2, <4>5, <4>6
        <5>2. ASSUME NEW i \in 1 .. Len(word) PROVE value[cut[1] + i] = word[i]
          BY <4>5, <4>7
        <5> QED BY <5>1, <5>2 DEF StandsAt
      <4> QED BY <4>8
    <3> QED BY <3>1, <3>2
  <2>4. HasSubstring(value, word)
    <3> HIDE DEF word
    <3> QED BY <2>2, <2>3, SubstringMeans
  <2> QED BY <2>1, <2>4 DEF MatchPattern
<1>7. CASE n > 0 /\ pattern[1] = Star /\ pattern[n] # Star
  <2>1. StartsWithStar(pattern) /\ ~EndsWithStar(pattern) /\ n > 1
    BY <1>1, <1>7, EndsMean
  <2>2. InARow(cut, value, pattern, 1, n)
    <3>1. Letters(pattern, 1, n) /\ 1 \in 0 .. n /\ n \in 1 .. n
      BY <1>1, <1>4, <1>7, <2>1 DEF Letters
    <3> QED BY <1>2, <3>1, LettersInARow
  <2>3. n - 1 <= v /\ cut[1] = v - (n - 1)
    <3>1. n - 1 \in 0 .. n - 1 /\ 1 + (n - 1) = n /\ cut[1] \in 0 .. v
      BY <1>1, <1>3, <2>1
    <3>2. v = cut[1] + (n - 1)
      BY <1>3, <2>2, <3>1 DEF InARow
    <3> QED BY <1>1, <3>1, <3>2
  <2>4. /\ Tail(pattern) \in Seq(C) /\ Len(Tail(pattern)) = n - 1
        /\ \A i \in 1 .. n - 1 : Tail(pattern)[i] = pattern[i + 1]
    BY <2>1, CutEnds
  <2>5. ASSUME NEW i \in 1 .. n - 1 PROVE Tail(pattern)[i] = value[v - (n - 1) + i]
    <3>1. Tail(pattern)[i] = pattern[i + 1] /\ i + 1 = 1 + i
      BY <1>1, <2>4
    <3>2. value[cut[1] + i] = pattern[1 + i]
      BY <2>2 DEF InARow
    <3> QED BY <2>3, <3>1, <3>2
  <2>6. SX!IsSuffix(Tail(pattern), value)
    BY <2>3, <2>4, <2>5, SuffixMeans
  <2> QED BY <2>1, <2>6 DEF MatchPattern
<1>8. CASE n > 0 /\ pattern[1] # Star /\ pattern[n] = Star
  <2>1. ~StartsWithStar(pattern) /\ EndsWithStar(pattern) /\ n > 1
    BY <1>1, <1>8, EndsMean
  <2>2. InARow(cut, value, pattern, 0, n - 1)
    <3>1. Letters(pattern, 0, n - 1) /\ 0 \in 0 .. n /\ n - 1 \in 0 .. n
      BY <1>1, <1>4, <1>8, <2>1 DEF Letters
    <3> QED BY <1>2, <3>1, LettersInARow
  <2>3. n - 1 <= v
    <3>1. n - 1 \in 0 .. n - 1 - 0 /\ 0 + (n - 1) = n - 1 /\ n - 1 \in 0 .. n
      BY <1>1, <2>1
    <3>2. cut[n - 1] = cut[0] + (n - 1)
      BY <2>2, <3>1 DEF InARow
    <3> QED BY <1>1, <1>3, <3>1, <3>2
  <2>4. \A i \in 1 .. n - 1 : value[i] = pattern[i]
    BY <1>1, <1>3, <2>2 DEF InARow
  <2>5. /\ SX!Front(pattern) \in Seq(C) /\ Len(SX!Front(pattern)) = n - 1
        /\ \A i \in 1 .. n - 1 : SX!Front(pattern)[i] = pattern[i]
    BY <2>1, CutEnds
  <2>6. SX!IsPrefix(SX!Front(pattern), value)
    BY <2>3, <2>4, <2>5, PrefixMeans
  <2> QED BY <2>1, <2>6 DEF MatchPattern
<1>9. CASE n > 0 /\ pattern[1] # Star /\ pattern[n] # Star
  <2>1. \A i \in 1 .. n : pattern[i] # Star
    BY <1>1, <1>4, <1>9
  <2> QED BY <1>5, <2>1
<1>10. CASE n = 0
  BY <1>5, <1>10
<1> QED BY <1>1, <1>6, <1>7, <1>8, <1>9, <1>10

(* Applies, rule by rule, against the meaning of the patterns. *)
LEMMA AppliesMeans ==
  ASSUME NEW rule \in Rule, NEW r \in Request
  PROVE  /\ Applies(rule, r) => Glob(r.peer, rule.peer) /\ Glob(r.method, rule.method)
         /\ /\ Documented(rule.peer) /\ Documented(rule.method)
            /\ Glob(r.peer, rule.peer) /\ Glob(r.method, rule.method)
            => Applies(rule, r)
<1>1. /\ rule.peer \in Seq(Char) /\ rule.method \in Seq(Char)
      /\ r.peer \in Seq(Char) /\ r.method \in Seq(Char)
  BY ACLAssumption DEF ACLAssumption, Rule, Request
<1> QED BY <1>1, MatchIsSound, MatchIsComplete DEF Applies

(***************************************************************************)
(* The loop of Match.                                                      *)
(***************************************************************************)

(* The rules before the k-th that Match has to reckon with, the one of     *)
(* them that decides, and what bestMatch then is.                          *)
Candidates(k) ==
  {i \in 1 .. k : Applies(rules[i], request) /\ rules[i].priority >= 0}

Decides(i, S) ==
  \A j \in S \ {i} : \/ rules[j].priority < rules[i].priority
                     \/ rules[j].priority = rules[i].priority /\ i < j

BestOf(k) ==
  \/ Candidates(k) = {} /\ best = NoRule
  \/ \E i \in Candidates(k) : best = Strictest(rules[i]) /\ Decides(i, Candidates(k))

(* While nobody writes to acl.rules the loop is over all of the rules, and *)
(* bestMatch is the best of those it has seen.                             *)
MatchInv ==
  phase = "running" /\ stage = "check" /\ ~overlapped =>
    bound = Len(rules) /\ BestOf(at - 1)

LEMMA NoneBefore ==
  ASSUME best = NoRule, at = 1
  PROVE  BestOf(at - 1)
BY DEF BestOf, Candidates

LEMMA BestOfNext ==
  ASSUME ACLTypeOK, at \in 1 .. Len(rules), BestOf(at - 1), UNCHANGED <<rules, request>>,
         best' = IF Applies(rules[at], request) /\ Better(rules[at], best)
                 THEN Strictest(rules[at]) ELSE best,
         at' = at + 1
  PROVE  BestOf(at - 1)'
<1> DEFINE k == at - 1
<1>1. rules \in Seq(Rule) /\ Len(rules) \in Nat /\ k \in Nat /\ at = k + 1 /\ at' - 1 = at
  BY RulesAreRules DEF ACLTypeOK
<1>2. \A i \in 1 .. Len(rules) : rules[i].priority \in Int
  <2>1. \A i \in 1 .. Len(rules) : rules[i] \in Rule
    BY <1>1
  <2> QED BY <2>1 DEF Rule
<1>3. \A i \in 1 .. Len(rules) : Strictest(rules[i]).priority = rules[i].priority
  BY DEF Strictest
<1>4. NoRule.priority = -1
  BY DEF NoRule
<1>5. Candidates(at) = Candidates(k) \cup
        (IF Applies(rules[at], request) /\ rules[at].priority >= 0 THEN {at} ELSE {})
  <2>1. 1 .. at = (1 .. k) \cup {at}
    BY <1>1
  <2> QED BY <2>1 DEF Candidates
<1>6. Candidates(k) \subseteq 1 .. k /\ 1 .. k \subseteq 1 .. Len(rules)
  BY <1>1 DEF Candidates
<1>7. \A i \in Candidates(k) : rules[i].priority >= 0
  BY DEF Candidates
<1>8. SUFFICES \/ Candidates(at) = {} /\ best' = NoRule
               \/ \E i \in Candidates(at) : /\ best' = Strictest(rules[i])
                                            /\ Decides(i, Candidates(at))
  <2>1. (Candidates(at - 1))' = Candidates(at)
    BY <1>1 DEF Candidates
  <2>2. \A i, S : Decides(i, S)' <=> Decides(i, S)
    BY DEF Decides
  <2> QED BY <1>1, <2>1, <2>2 DEF BestOf
<1>9. CASE Applies(rules[at], request) /\ Better(rules[at], best)
  <2>1. best' = Strictest(rules[at]) /\ rules[at].priority > best.priority
    BY <1>9 DEF Better
  <2>2. CASE Candidates(k) = {} /\ best = NoRule
    <3>1. Candidates(at) = {at}
      BY <1>2, <1>4, <1>5, <1>9, <2>1, <2>2
    <3> QED BY <2>1, <3>1 DEF Decides
  <2>3. ASSUME NEW i \in Candidates(k), best = Strictest(rules[i]), Decides(i, Candidates(k))
        PROVE  at \in Candidates(at) /\ Decides(at, Candidates(at))
    <3>1. rules[at].priority > rules[i].priority /\ rules[i].priority >= 0
      BY <1>3, <1>6, <1>7, <2>1, <2>3
    <3>2. Candidates(at) = Candidates(k) \cup {at}
      BY <1>2, <1>5, <1>6, <1>9, <3>1
    <3>3. \A j \in Candidates(k) : rules[j].priority <= rules[i].priority
      BY <1>2, <1>6, <2>3 DEF Decides
    <3>4. \A j \in Candidates(k) : rules[j].priority < rules[at].priority
      BY <1>2, <1>6, <3>1, <3>3
    <3> QED BY <3>2, <3>4 DEF Decides
  <2> QED BY <2>1, <2>2, <2>3 DEF BestOf
<1>10. CASE ~(Applies(rules[at], request) /\ Better(rules[at], best))
  <2>1. best' = best
    BY <1>10
  <2>2. CASE Candidates(k) = {} /\ best = NoRule
    <3>1. Candidates(at) = {}
      BY <1>2, <1>4, <1>5, <1>10, <2>2 DEF Better
    <3> QED BY <2>1, <2>2, <3>1
  <2>3. ASSUME NEW i \in Candidates(k), best = Strictest(rules[i]), Decides(i, Candidates(k))
        PROVE  i \in Candidates(at) /\ Decides(i, Candidates(at))
    <3>1. i \in Candidates(at)
      BY <1>5
    <3>2. ASSUME Applies(rules[at], request)
          PROVE  rules[at].priority <= rules[i].priority /\ i < at
      BY <1>1, <1>2, <1>3, <1>6, <1>10, <2>3, <3>2 DEF Better
    <3>3. ASSUME NEW j \in Candidates(at) \ {i}
          PROVE  \/ rules[j].priority < rules[i].priority
                 \/ rules[j].priority = rules[i].priority /\ i < j
      <4>1. CASE j \in Candidates(k)
        BY <2>3, <3>3, <4>1 DEF Decides
      <4>2. CASE j = at /\ Applies(rules[at], request)
        BY <1>1, <1>2, <1>6, <3>2, <4>2
      <4> QED BY <1>5, <4>1, <4>2
    <3> QED BY <3>1, <3>3 DEF Decides
  <2> QED BY <2>1, <2>2, <2>3 DEF BestOf
<1> QED BY <1>9, <1>10

LEMMA MatchInitInv == AdmissionInit => MatchInv
BY DEF AdmissionInit, RetryInit, MatchInv

LEMMA MatchNextInv ==
  ASSUME MatchInv, ACLTypeOK, [AdmissionNext]_admissionVars
  PROVE  MatchInv'
<1>1. ASSUME UNCHANGED aclVars,
             phase' = "running" /\ stage' = "check" => phase = "running" /\ stage = "check"
      PROVE  MatchInv'
  BY <1>1 DEF MatchInv, aclVars, BestOf, Candidates, Decides
<1>2. ASSUME NEW r, BeginMatch(r) PROVE MatchInv'
  <2>1. best' = NoRule /\ at' = 1 /\ (~overlapped' => bound' = Len(rules'))
    BY <1>2 DEF BeginMatch, Consistent
  <2>2. BestOf(at - 1)'
    BY <2>1 DEF BestOf, Candidates
  <2> QED BY <2>1, <2>2 DEF MatchInv
<1>3. CASE CheckRule
  <2> SUFFICES ASSUME ~overlapped' PROVE (bound = Len(rules) /\ BestOf(at - 1))'
    BY DEF MatchInv
  <2>1. ~overlapped /\ bound = Len(rules) /\ BestOf(at - 1)
    BY <1>3 DEF CheckRule, Consider, At, MatchInv
  <2>2. at \in 1 .. Len(rules) /\ at' = at + 1 /\ UNCHANGED <<rules, request, bound>>
    BY <1>3, <2>1, RulesAreRules DEF CheckRule, Consider, ACLTypeOK
  <2>3. best' = IF Applies(rules[at], request) /\ Better(rules[at], best)
                THEN Strictest(rules[at]) ELSE best
    <3>1. PICK rule \in IF at <= Len(rules) THEN {rules[at]} ELSE AnyRule :
            best' = IF Applies(rule, request) /\ Better(rule, best)
                    THEN Strictest(rule) ELSE best
      BY <1>3 DEF CheckRule, Consider
    <3>2. at <= Len(rules)
      BY <2>2
    <3>3. rule = rules[at]
      BY <3>1, <3>2
    <3> QED BY <3>1, <3>3
  <2>4. BestOf(at - 1)'
    BY <2>1, <2>2, <2>3, BestOfNext
  <2> QED BY <2>1, <2>2, <2>4
<1>4. CASE UpdateRules
  BY <1>4 DEF UpdateRules, WriteCount, WritePointer, MatchInv
<1>5. CASE CheckAllows
  BY <1>5 DEF CheckAllows, MatchInv
<1>6. CASE CheckDenies
  BY <1>6 DEF CheckDenies, AttemptReturns, Return, MatchInv
<1>7. CASE Limit
  BY <1>1, <1>7 DEF Limit, At, AttemptReturns, Return, retryVars
<1>8. CASE CallEnds
  BY <1>1, <1>8 DEF CallEnds, AttemptReturns, Return
<1>9. CASE GiveUp
  BY <1>1, <1>9 DEF GiveUp, ContextDone, Return
<1>10. CASE Cancel
  BY <1>1, <1>10 DEF Cancel, ContextEnds
<1>11. CASE CheckPanics
  BY <1>1, <1>11 DEF CheckPanics, retryVars
<1>12. CASE ClockTick
  BY <1>1, <1>12 DEF ClockTick
<1>13. CASE UNCHANGED admissionVars
  BY <1>1, <1>13 DEF admissionVars, retryVars
<1>14. CASE CallAgain
  BY <1>2, <1>14 DEF CallAgain
<1>15. ASSUME NEW r \in Request, Call(r) PROVE MatchInv'
  BY <1>2, <1>15 DEF Call
<1> QED
  BY <1>3, <1>4, <1>5, <1>6, <1>7, <1>8, <1>9, <1>10, <1>11, <1>12, <1>13, <1>14, <1>15
  DEF AdmissionNext, Work

(* The invariant is the exactness of the check. *)
LEMMA MatchIsExact ==
  ASSUME MatchInv, ACLTypeOK
  PROVE  CheckIsExact
<1>1. rules \in Seq(Rule) /\ Len(rules) \in Nat /\ request \in Request
  BY RulesAreRules DEF ACLTypeOK
<1>2. \A i \in 1 .. Len(rules) :
        /\ rules[i] \in Rule
        /\ Applies(rules[i], request) =>
             Glob(request.peer, rules[i].peer) /\ Glob(request.method, rules[i].method)
  BY <1>1, AppliesMeans
<1>3. ASSUME At("check"), Decided, ~overlapped,
             \A i \in DOMAIN rules : Documented(rules[i].peer) /\ Documented(rules[i].method)
      PROVE  Allowed = Decision(rules, request)
  <2> DEFINE M == Matching(rules, request)
  <2>1. bound = Len(rules) /\ BestOf(at - 1)
    BY <1>3 DEF At, MatchInv
  <2>2. at - 1 = Len(rules)
    BY <1>1, <1>3, <2>1 DEF Decided, ACLTypeOK
  <2>3. Candidates(at - 1) = M
    <3>1. ASSUME NEW i \in 1 .. Len(rules)
          PROVE  Applies(rules[i], request) <=>
                   Glob(request.peer, rules[i].peer) /\ Glob(request.method, rules[i].method)
      BY <1>1, <1>2, <1>3, AppliesMeans
    <3> QED BY <1>1, <2>2, <3>1 DEF Candidates, Matching
  <2>4. M \subseteq 1 .. Len(rules) /\ \A i \in M : rules[i].priority \in Int
    <3>1. M \subseteq 1 .. Len(rules)
      BY <1>1 DEF Matching
    <3> HIDE DEF M
    <3> QED BY <1>2, <3>1 DEF Rule
  <2>5. Decision(rules, request) <=> \E i \in M : rules[i].allow /\ Decides(i, M)
    BY DEF Decision, Decides
  <2> HIDE DEF M
  <2>6. CASE M = {} /\ best = NoRule
    <3>1. ~Decision(rules, request) /\ Allowed = FALSE
      BY <2>5, <2>6 DEF Allowed, NoRule
    <3> QED BY <3>1 DEF Decision
  <2>7. ASSUME NEW i \in M, best = Strictest(rules[i]), Decides(i, M)
        PROVE  Allowed = Decision(rules, request)
    <3>1. \A j \in M : Decides(j, M) => j = i
      BY <2>4, <2>7 DEF Decides
    <3>2. Decision(rules, request) <=> rules[i].allow
      BY <2>5, <2>7, <3>1
    <3>3. Allowed = rules[i].allow /\ rules[i].allow \in BOOLEAN
      BY <1>2, <2>4, <2>7 DEF Allowed, Strictest, Rule
    <3>4. CASE rules[i].allow = TRUE
      BY <3>2, <3>3, <3>4 DEF Decision
    <3>5. CASE rules[i].allow = FALSE
      BY <3>2, <3>3, <3>5 DEF Decision
    <3> QED BY <3>3, <3>4, <3>5
  <2> QED BY <2>1, <2>3, <2>6, <2>7 DEF BestOf
<1> QED BY <1>1, <1>2, <1>3 DEF CheckIsExact

-----------------------------------------------------------------------------
IInv == BucketInv /\ RetryInv /\ AdmissionTypeOK /\ MatchInv

LEMMA InitIInv == AdmissionInit => IInv
<1> SUFFICES ASSUME AdmissionInit PROVE IInv
  OBVIOUS
<1> USE DEF AdmissionInit
<1>1. BucketInv /\ RetryInv
  BY BucketInitInv, RetryInitInv
<1>2. ended \in BOOLEAN /\ overlapped \in BOOLEAN /\ crashed \in BOOLEAN
  BY Zenon DEF RetryInit, ACLInit
<1>3. RetryTypeOK
  BY <1>2, RetryAssumption DEF RetryAssumption, RetryInit, RetryTypeOK, Verdict
<1>4. ACLTypeOK
  BY <1>2, RulesAreRules DEF ACLInit, ACLTypeOK, NoRule
<1> QED BY <1>1, <1>2, <1>3, <1>4, MatchInitInv DEF IInv, AdmissionTypeOK, BucketInv

LEMMA NextIInv == IInv /\ [AdmissionNext]_admissionVars => IInv'
<1> SUFFICES ASSUME IInv, [AdmissionNext]_admissionVars PROVE IInv'
  OBVIOUS
<1> USE DEF IInv, AdmissionTypeOK
<1>1. BucketInv' /\ RetryInv' /\ RetryTypeOK' /\ ACLTypeOK' /\ MatchInv'
  BY BucketNext, RetryNext, WaitNext, ACLNext, MatchNextInv
<1>2. crashed' \in BOOLEAN
  BY Zenon
  DEF AdmissionNext, admissionVars, Call, Cancel, Work, CallAgain, GiveUp,
      CheckRule, CheckPanics, CheckAllows, CheckDenies, Limit, CallEnds,
      UpdateRules, ClockTick
<1>3. stage' \in {"check", "limit", "call"}
  BY DEF AdmissionNext, admissionVars, Call, Cancel, Work, CallAgain, GiveUp,
         CheckRule, CheckPanics, CheckAllows, CheckDenies, Limit, CallEnds,
         UpdateRules, ClockTick
<1> QED BY <1>1, <1>2, <1>3 DEF BucketInv

LEMMA Invariance == AdmissionSpec => []IInv
BY InitIInv, NextIInv, PTL DEF AdmissionSpec

(* Type correctness: the bucket never holds more than the burst or less    *)
(* than nothing, Retry never makes an attempt too many, and Match never    *)
(* leaves the rules it set out to read.                                    *)
THEOREM TypeCorrect == AdmissionSpec => []AdmissionTypeOK
<1>1. IInv => AdmissionTypeOK
  BY DEF IInv
<1> QED BY <1>1, Invariance, PTL

(* The limiter never admits what a bucket that fills continuously would    *)
(* refuse (TokenBucketLimiter.Allow), whatever rate, burst and clock, and  *)
(* however its client retries.                                             *)
THEOREM RateIsKept == AdmissionSpec => []WithinRate
<1>1. IInv => WithinRate
  BY Sizes, BucketConstants DEF IInv, BucketInv, TypeOK, AtMost, Claimed, WithinRate
<1> QED BY <1>1, Invariance, PTL

(* Retry reports what happened, for every number of attempts, whatever the *)
(* calls return and whenever the context ends.                             *)
THEOREM RetryReportsTheTruth == AdmissionSpec => []VerdictIsTrue
<1>1. IInv => VerdictIsTrue
  BY DEF IInv, RetryInv
<1> QED BY <1>1, Invariance, PTL

(* A check that no UpdateRules overlaps decides as the rule set says, and  *)
(* matchPattern never covers more than the pattern means: for every rule   *)
(* set, pattern and name of any length, and whatever checks and updates    *)
(* came before.                                                            *)
THEOREM ChecksAreExact == AdmissionSpec => []CheckIsExact
<1>1. IInv => CheckIsExact
  BY MatchIsExact DEF IInv, AdmissionTypeOK
<1> QED BY <1>1, Invariance, PTL
==============================================================================
