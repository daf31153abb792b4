SPECIFICATION Spec
CONSTANTS
  Req = {r1, r2}
  NBit = 2
  Registered <- MCHourRegistered
  Locations <- MCLocations
  Asked <- None
  AutoAsked <- MCAutoAsked
  Policies <- MCHourPolicies
  Rank <- MCRank
  MaxFaults = 0
SYMMETRY Symmetry
CHECK_DEADLOCK FALSE
INVARIANT EnsureCompletes
