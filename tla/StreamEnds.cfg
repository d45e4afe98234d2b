CONSTANTS
  Text <- Same
  MaxSends = 2
  Events = 3
  MaxConns = 2
  MaxLoads = 2
  MaxClears = 1
  MaxStops = 1
  MaxWakes = 1
  MaxDrops = 2
  MaxRejects = 1
  MaxUpsets <- ThreeOrOne
SPECIFICATION FairSpec
CHECK_DEADLOCK FALSE
PROPERTY AnswerEnds
PROPERTY LoadEnds
