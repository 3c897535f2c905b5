\* Three concurrent callers, failure ratio one half: safety and recovery.
SPECIFICATION FairBreakerSpec
CONSTANTS
  Caller = {k1, k2, k3}
  MaxFailures = 3
  RatioNum = 1
  RatioDen = 2
  HalfOpenMaxAttempts = 2
  Timeout = 1
  CounterCap = 5
INVARIANTS BreakerTypeOK ClosedIsHealthy HalfOpenNotStuck
PROPERTY Recovers
