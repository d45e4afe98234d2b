CONSTANTS
  f1 = f1  f2 = f2  f3 = f3
  Files = {f1, f2}
  Images = {f2}
  Content <- Shared
  MaxFiles = 1
  MaxMounts = 3
  MaxFails = 2
SPECIFICATION FairSpec
CHECK_DEADLOCK FALSE
INVARIANT TypeOK
INVARIANT Abortable
INVARIANT LimitKept
PROPERTY GoneForGood
PROPERTY UploadEnds
