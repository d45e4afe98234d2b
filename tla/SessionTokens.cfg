CONSTANTS
  r1 = r1  r2 = r2  r3 = r3
  Requests = {r1, r2}
  MaxLogins = 3
SPECIFICATION FairSpec
CHECK_DEADLOCK FALSE
INVARIANT TypeOK
INVARIANT IdentityAgrees
INVARIANT UiMatchesStore
PROPERTY RequestEnds
PROPERTY LoadingEnds
