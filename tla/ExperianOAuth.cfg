\* A tick is 30 s: a skew of 90 s, a time-out of 30 s, lifetimes below and above the skew.
SPECIFICATION FairSpec
CONSTANTS
  Callers = {a1, a2}
  Runs = {p1, p2}
  RefreshTokens = {t1, t2}
  None = None
  REFRESH_SKEW = 3
  HttpTimeout = 1
  DefaultLife = 5
  Lives = {2, 4}
  MaxFaults = 3
INVARIANTS TypeOK OneGrant TokenOutlivesCall FailedNotRetried
PROPERTIES CallersServed
