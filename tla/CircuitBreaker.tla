---------------------------- MODULE CircuitBreaker ----------------------------
(***************************************************************************)
(* fault.CircuitBreaker (pkg/fault/circuit_breaker.go) shared by           *)
(* concurrent callers of Execute.  Allow, RecordSuccess and RecordFailure  *)
(* each run under cb.mu, but a call runs between them with no lock: its    *)
(* result may arrive when the breaker is in another state, or after it has *)
(* been reset, forced open, tripped and half-opened by others.             *)
(*                                                                         *)
(* failures and attempts saturate at CounterCap.  From there on neither    *)
(* changes the outcome of shouldTrip (assumption BreakerConstants).        *)
(***************************************************************************)
EXTENDS Naturals, Callers

CONSTANTS
  MaxFailures,
  RatioNum, RatioDen,   \* FailureRatio = RatioNum / RatioDen
  HalfOpenMaxAttempts,
  Timeout,              \* ticks the breaker stays open
  CounterCap

ASSUME BreakerConstants ==
  /\ {MaxFailures, RatioDen} \subseteq Nat \ {0}
  /\ {RatioNum, HalfOpenMaxAttempts, Timeout} \subseteq Nat
  /\ RatioNum <= RatioDen
  /\ CounterCap \in Nat /\ CounterCap >= MaxFailures
  /\ RatioNum > 0 => (MaxFailures - 1) * RatioDen < RatioNum * CounterCap

VARIABLES
  state,      \* cb.state
  failures, successes, attempts,
  elapsed,    \* ticks since stateChanged, saturating above Timeout
  call,       \* where each caller is: "idle" or inside fn
  serviceUp   \* the protected service answers

breakerVars == <<state, failures, successes, attempts, elapsed, call, serviceUp>>

(* NewCircuitBreaker raises a zero HalfOpenMaxAttempts to one. *)
MaxProbes == IF HalfOpenMaxAttempts = 0 THEN 1 ELSE HalfOpenMaxAttempts

BreakerTypeOK ==
  /\ state \in {"closed", "open", "half-open"}
  /\ {failures, attempts} \subseteq 0 .. CounterCap
  /\ successes \in 0 .. MaxProbes - 1
  /\ elapsed \in 0 .. Timeout + 1
  /\ call \in [Caller -> {"idle", "calling"}]
  /\ serviceUp \in BOOLEAN

BreakerInit ==
  /\ state = "closed"
  /\ failures = 0 /\ successes = 0 /\ attempts = 0
  /\ elapsed = 0
  /\ call = [k \in Caller |-> "idle"]
  /\ serviceUp \in BOOLEAN

Bump(n) == IF n < CounterCap THEN n + 1 ELSE n

(* setState stamps the time even when the state stays the same. *)
SetState(new) ==
  /\ state' = new
  /\ elapsed' = 0

ResetCounters ==
  /\ failures' = 0
  /\ successes' = 0
  /\ attempts' = 0

-----------------------------------------------------------------------------
(* Mutation of Allow: the half-open state inherits the attempts made when  *)
(* the breaker was closed.                                                 *)
AllowKeepsAttempts(k) ==
  /\ call[k] = "idle"
  /\ \/ /\ state = "closed"
        /\ UNCHANGED <<state, attempts, elapsed>>
     \/ /\ state = "open" /\ elapsed > Timeout
        /\ SetState("half-open")
        /\ UNCHANGED attempts
     \/ /\ state = "half-open" /\ attempts < MaxProbes
        /\ UNCHANGED <<state, attempts, elapsed>>
  /\ call' = [call EXCEPT ![k] = "calling"]
  /\ UNCHANGED <<failures, successes, serviceUp>>

(* Execute up to the call of fn.  A rejected caller changes nothing. *)
Allow(k) ==
  /\ call[k] = "idle"
  /\ \/ /\ state = "closed"
        /\ UNCHANGED <<state, attempts, elapsed>>
     \/ /\ state = "open" /\ elapsed > Timeout
        /\ SetState("half-open")
        /\ attempts' = 0
     \/ /\ state = "half-open" /\ attempts < MaxProbes
        /\ UNCHANGED <<state, attempts, elapsed>>
  /\ call' = [call EXCEPT ![k] = "calling"]
  /\ UNCHANGED <<failures, successes, serviceUp>>

(* Mutation of RecordSuccess: the counters are not reset on closing. *)
RecordSuccessKeepsCounters ==
  \/ /\ state = "half-open"
     /\ IF successes + 1 >= MaxProbes
          THEN SetState("closed") /\ successes' = 0
          ELSE successes' = successes + 1 /\ UNCHANGED <<state, elapsed>>
     /\ UNCHANGED <<failures, attempts>>
  \/ /\ state = "closed"
     /\ attempts' = Bump(attempts)
     /\ UNCHANGED <<state, elapsed, failures, successes>>
  \/ /\ state = "open"
     /\ UNCHANGED <<state, elapsed, failures, successes, attempts>>

(* Mutation of RecordSuccess: one success more than the limit is asked. *)
RecordSuccessOffByOne ==
  \/ /\ state = "half-open"
     /\ IF successes + 1 > MaxProbes
          THEN SetState("closed") /\ ResetCounters
          ELSE /\ successes' = successes + 1
               /\ UNCHANGED <<state, elapsed, failures, attempts>>
  \/ /\ state = "closed"
     /\ attempts' = Bump(attempts)
     /\ failures' = 0
     /\ UNCHANGED <<state, elapsed, successes>>
  \/ /\ state = "open"
     /\ UNCHANGED <<state, elapsed, failures, successes, attempts>>

(* Mutation of RecordSuccess: successes are not counted half-open. *)
RecordSuccessUncounted ==
  /\ IF state = "closed" THEN attempts' = Bump(attempts) /\ failures' = 0
                         ELSE UNCHANGED <<attempts, failures>>
  /\ UNCHANGED <<state, elapsed, successes>>

RecordSuccess ==
  \/ /\ state = "half-open"
     /\ IF successes + 1 >= MaxProbes
          THEN SetState("closed") /\ ResetCounters
          ELSE /\ successes' = successes + 1
               /\ UNCHANGED <<state, elapsed, failures, attempts>>
  \/ /\ state = "closed"
     /\ attempts' = Bump(attempts)
     /\ failures' = 0
     /\ UNCHANGED <<state, elapsed, successes>>
  \/ /\ state = "open"
     /\ UNCHANGED <<state, elapsed, failures, successes, attempts>>

ShouldTrip(f, a) ==
  \/ f >= MaxFailures
  \/ RatioNum > 0 /\ a > 0 /\ f * RatioDen >= RatioNum * a

RecordFailure ==
  /\ failures' = Bump(failures)
  /\ attempts' = Bump(attempts)
  /\ IF ShouldTrip(failures', attempts') THEN SetState("open")
                                         ELSE UNCHANGED <<state, elapsed>>
  /\ UNCHANGED successes

(* The rest of Execute, once fn has returned. *)
Return(k) ==
  /\ call[k] = "calling"
  /\ call' = [call EXCEPT ![k] = "idle"]
  /\ IF serviceUp THEN RecordSuccess ELSE RecordFailure
  /\ UNCHANGED serviceUp

(* Reset and ForceClose. *)
Reset ==
  /\ SetState("closed")
  /\ ResetCounters
  /\ UNCHANGED <<call, serviceUp>>

ForceOpen ==
  /\ SetState("open")
  /\ UNCHANGED <<failures, successes, attempts, call, serviceUp>>

-----------------------------------------------------------------------------
BreakerTick ==
  /\ elapsed <= Timeout
  /\ elapsed' = elapsed + 1
  /\ UNCHANGED <<state, failures, successes, attempts, call, serviceUp>>

(* The protected service fails or recovers. *)
ServiceChanges ==
  /\ serviceUp' = ~serviceUp
  /\ UNCHANGED <<state, failures, successes, attempts, elapsed, call>>

BreakerNext ==
  \/ \E k \in Caller : Allow(k)
  \/ \E k \in Caller : Return(k)
  \/ Reset
  \/ ForceOpen
  \/ BreakerTick
  \/ ServiceChanges

BreakerSpec == BreakerInit /\ [][BreakerNext]_breakerVars

(* Somebody keeps calling, calls return, time passes. *)
FairBreakerSpec ==
  /\ BreakerSpec
  /\ WF_breakerVars(\E k \in Caller : Allow(k))
  /\ \A k \in Caller : WF_breakerVars(Return(k))
  /\ WF_breakerVars(BreakerTick)

-----------------------------------------------------------------------------
(* A closed breaker is one step short of tripping at most: no interleaving *)
(* of late results with resets leaves it closed with MaxFailures recorded. *)
ClosedIsHealthy == state = "closed" => failures < MaxFailures

(* A half-open breaker that waits for nothing lets the next probe through. *)
(* Were attempts to reach HalfOpenMaxAttempts with no call in flight,      *)
(* Allow would refuse everybody, no result would ever be recorded, and     *)
(* only an operator could get the breaker out of that state.  This is not  *)
(* the limit on attempts that docs/API.md gives the setting: a failure is  *)
(* counted when the call is back, and how many probes are out is not.      *)
HalfOpenNotStuck ==
  state = "half-open" /\ (\A k \in Caller : call[k] = "idle") => attempts < MaxProbes

(* Once the service stays up and nobody forces the breaker open any more,  *)
(* the breaker closes again, whatever results were still in flight.        *)
Recovers ==
  (<>[]serviceUp /\ <>[][~ForceOpen]_breakerVars) => []<>(state = "closed")
=============================================================================
