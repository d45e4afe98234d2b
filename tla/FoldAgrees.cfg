CONSTANTS
  a1 = a1  a2 = a2  c1 = c1
  Agents = {a1, a2}
  Calls = {c1}
  None = None
  MaxEvents = 5
  MaxCancels = 1
  MaxMurmurs = 1
  MaxUpsets = 1
SPECIFICATION Spec
CHECK_DEADLOCK FALSE
SYMMETRY FoldSymmetry
INVARIANT TypeOK
INVARIANT NothingLost
INVARIANT InPlace
INVARIANT ReloadSame
INVARIANT Settled
