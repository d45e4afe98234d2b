CONSTANTS
  f1 = f1  f2 = f2  f3 = f3
  Files = {f1, f2}
  Images = {}
  Content <- Shared
  MaxFiles = 2
  MaxMounts = 1
  MaxFails = 0
SPECIFICATION Spec
CHECK_DEADLOCK FALSE
INVARIANT ReadyIsStored
