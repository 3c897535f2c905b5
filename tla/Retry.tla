-------------------------------- MODULE Retry --------------------------------
(***************************************************************************)
(* fault.Retry (pkg/fault/retry.go) for one caller, as Executor.Execute    *)
(* calls it: attempts, the errors worth another one, the delays between    *)
(* them in clock ticks, and the end of the caller's context.               *)
(***************************************************************************)
EXTENDS Integers, Sequences
LOCAL INSTANCE SequencesExt

CONSTANTS
  Error,         \* errors of the function that is retried
  Retryable,     \* those for which RetryableErrors is true
  MaxAttempts,
  InitialDelay,  \* in ticks, as is MaxDelay
  MaxDelay,
  Multiplier,
  Jitter

OK == "ok"

ASSUME RetryAssumption ==
  /\ Retryable \subseteq Error
  /\ OK \notin Error
  /\ {MaxAttempts, InitialDelay, MaxDelay, Multiplier} \subseteq Nat
  /\ Jitter \in BOOLEAN

(* A power of a natural number is one, which the provers do not know. *)
ASSUME PowerAssumption == \A n \in 0 .. MaxAttempts : Multiplier ^ n \in Nat

VARIABLES
  phase,     \* "idle", "running" the function, "waiting" between two attempts
  outcomes,  \* what the attempts of this Retry have returned
  wait,      \* ticks until the timer of time.After fires
  ended,     \* ctx is done
  verdict    \* what Retry returned, or "none"

retryVars == <<phase, outcomes, wait, ended, verdict>>

(* The kinds of result: nil, the error of a single attempt, ctx.Err(), and *)
(* "max retry attempts exceeded".                                          *)
Verdict == {"none", OK, "refused", "cancelled", "exceeded"}

RetryTypeOK ==
  /\ phase \in {"idle", "running", "waiting"}
  /\ outcomes \in Seq(Error \cup {OK}) /\ Len(outcomes) <= MaxAttempts + 1
  /\ wait \in Nat
  /\ ended \in BOOLEAN
  /\ verdict \in Verdict

RetryInit ==
  /\ phase = "idle"
  /\ outcomes = <<>>
  /\ wait = 0
  /\ ended = FALSE
  /\ verdict = "none"

(* calculateDelay.  The delay before jitter, *)
Smaller(a, b) == IF a < b THEN a ELSE b

Backoff(attempt) == Smaller(InitialDelay * Multiplier ^ attempt, MaxDelay)

(* and with it: anything from half of it to one and a half.  Jitter is     *)
(* applied after the cap, so a delay can exceed MaxDelay, which retry.go   *)
(* describes as the maximum delay between retries.                         *)
Delays(attempt) ==
  IF Jitter THEN {d \in 0 .. 2 * Backoff(attempt) :
                    /\ Backoff(attempt) <= 2 * d + 1
                    /\ d = 0 \/ 2 * d < 3 * Backoff(attempt)}
  ELSE {Backoff(attempt)}

-----------------------------------------------------------------------------
Begin ==
  /\ phase = "idle"
  /\ phase' = "running"
  /\ outcomes' = <<>>
  /\ wait' = 0
  /\ ended' = FALSE
  /\ verdict' = "none"

Return(v) == phase' = "idle" /\ verdict' = v /\ wait' = 0

(* Mutation of Retries: the attempt that is not counted. *)
RetriesOnceMore == Len(outcomes) <= MaxAttempts + 1

(* attempt >= config.MaxAttempts ends the loop. *)
Retries == Len(outcomes) < MaxAttempts

(* The function returns e.  The last attempt is not asked whether its      *)
(* error is worth another.                                                 *)
AttemptReturns(e) ==
  /\ phase = "running"
  /\ outcomes' = Append(outcomes, e)
  /\ \/ e = OK /\ Return(OK)
     \/ e # OK /\ ~Retries /\ Return("exceeded")
     \/ e # OK /\ Retries /\ e \notin Retryable /\ Return("refused")
     \/ e \in Retryable /\ Retries /\ ended /\ Return("cancelled")
     \/ /\ e \in Retryable /\ Retries /\ ~ended
        /\ phase' = "waiting"
        /\ wait' \in Delays(Len(outcomes))
        /\ UNCHANGED verdict
  /\ UNCHANGED ended

(* The timer and the context; when both are ready either may be taken. *)
TimerFires ==
  /\ phase = "waiting"
  /\ wait = 0
  /\ phase' = "running"
  /\ UNCHANGED <<outcomes, wait, ended, verdict>>

ContextDone ==
  /\ phase = "waiting"
  /\ ended
  /\ Return("cancelled")
  /\ UNCHANGED <<outcomes, ended>>

ContextEnds ==
  /\ phase # "idle"
  /\ ~ended
  /\ ended' = TRUE
  /\ UNCHANGED <<phase, outcomes, wait, verdict>>

TimePasses == wait' = IF wait > 0 THEN wait - 1 ELSE 0

-----------------------------------------------------------------------------
(* What Retry returns is what happened: success exactly if the last        *)
(* attempt succeeded, "exceeded" exactly if all the attempts there are     *)
(* have failed, the error itself only if it is not worth another attempt,  *)
(* ctx.Err() only if the context is done; and no attempt follows a success *)
(* or an error that is not worth one.                                      *)
VerdictIsTrue ==
  LET n == Len(outcomes) IN
  /\ \A i \in 1 .. n - 1 : outcomes[i] \in Retryable
  /\ verdict = OK <=> n > 0 /\ outcomes[n] = OK
  /\ verdict = "exceeded" <=> n = MaxAttempts + 1 /\ outcomes[n] # OK
  /\ verdict = "refused" => n <= MaxAttempts /\ outcomes[n] \in Error \ Retryable
  /\ verdict = "cancelled" => ended /\ n <= MaxAttempts
==============================================================================
