CONSTANTS
  Text <- Own
  MaxSends = 2
  Events = 3
  MaxConns = 2
  MaxLoads = 1
  MaxClears = 1
  MaxStops = 1
  MaxWakes = 1
  MaxDrops = 1
  MaxRejects = 1
  MaxUpsets <- Two
SPECIFICATION Spec
CHECK_DEADLOCK FALSE
INVARIANT TypeOK
INVARIANT OneStream
INVARIANT UniqueIds
INVARIANT ShowsPrefix
INVARIANT InSession
INVARIANT NothingMissing
