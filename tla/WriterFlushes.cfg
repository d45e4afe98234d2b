CONSTANTS
  c1 = c1  c2 = c2
  Tasks = {c1, c2}
  MaxEvents = 2
  BatchSize = 2
  BufferMax = 2
  MaxTimers = 3
  MaxCancels = 1
  Faults = {"fail"}
SPECIFICATION FairSpec
CHECK_DEADLOCK FALSE
INVARIANT TypeOK
INVARIANT OnePlace
INVARIANT FlushTakes
PROPERTY ReadyAgain
