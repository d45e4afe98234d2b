CONSTANTS
  s1 = s1  s2 = s2  s3 = s3
  d1 = d1  d2 = d2
  k1 = k1  k2 = k2
  None = None
  Sockets = {s1, s2, s3}
  Calls = {d1, d2}
  Timers = {k1, k2}
  MaxAuthFailures = 2
  HeldTokens = {TRUE, FALSE}
  MaxToggles = 3
  MaxDrops = 3
  MaxMissing = 1
  MaxRefreshFails = 1
SPECIFICATION FairSpec
CHECK_DEADLOCK FALSE
INVARIANT TypeOK
INVARIANT NotStranded
PROPERTY NoSocketAfterUnmount
PROPERTY Reconnects
PROPERTY ClosedAfterUnmount
