SPECIFICATION Spec
CONSTANTS
  Req = {r1, r2}
  NBit = 2
  Registered <- MCRegistered
  Locations <- None
  Asked <- MCAsked
  AutoAsked <- None
  Policies <- MCEqualPolicies
  Rank <- MCRank
  MaxFaults = 0
SYMMETRY Symmetry
CHECK_DEADLOCK FALSE
INVARIANT EnsureCompletes
