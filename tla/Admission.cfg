\* A token in two ticks, two at once; up to two retries, after at most two
\* ticks before jitter.
SPECIFICATION AdmissionSpec
CONSTANTS
  Rate = 1
  Burst = 2
  TicksPerSecond = 2
  Star <- MCStar
  Char <- MCChar
  Word <- MCWord
  RuleSet <- MCRuleSet
  Error <- MCError
  Retryable <- MCRetryable
  MaxAttempts = 2
  InitialDelay = 1
  MaxDelay = 2
  Multiplier = 3
  Jitter = TRUE
INVARIANTS AdmissionTypeOK WithinRate CheckIsExact VerdictIsTrue
PROPERTIES ClientIsServed
\* A process that has panicked stops.
CHECK_DEADLOCK FALSE
