CONSTANTS
  r1 = r1  r2 = r2  r3 = r3  r4 = r4  s1 = s1  s2 = s2
  w1 = w1  w2 = w2  j1 = j1  j2 = j2
  Runs = {r1, r2, r3}
  Sessions = {s1, s2}
  SessionOf <- TwoSessions
  Jobs = {j1, j2}
  Workers = {w1, w2}
  HomeOf <- OneEach
  MaxConcurrent = 1
  MaxQueued = 2
  MaxAttempts = 20
  MaxCrashes = 0
  MaxCancels = 1
  Oversized = {}
  ColdWorkers = {}
  Faults = {}
  Free = Free
  Orphan = Orphan
  NoRun = NoRun
SPECIFICATION FairSpec
CHECK_DEADLOCK FALSE
INVARIANT TypeOK
INVARIANT NoLostRun
INVARIANT DispatchedOnce
INVARIANT EndedRunsGiveBack
PROPERTY QueuedLeaves
PROPERTY ImplementsSlotPool
