SPECIFICATION Spec
CONSTANTS
  Requests = {r1, r2}
  Sessions = {s1, s2}
  Keys = {k1, k2}
  TTL = 5
  MaxDuration = 2
  MaxTime = 4
  MaxArrivals = 4
  MaxWithdrawals = 1
  NoKey = NoKey
  NoSession = NoSession
SYMMETRY Symmetry
INVARIANTS ActiveSessionLives KeyFlagJustified
PROPERTY RevocationStays
CHECK_DEADLOCK FALSE
