SPECIFICATION Spec
CONSTANTS
  Req = {r1}
  NBit = 2
  Registered <- MCRegistered
  Locations <- None
  Asked <- MCOtherAsked
  AutoAsked <- None
  Policies <- None
  Rank <- MCRank
  MaxFaults = 0
SYMMETRY Symmetry
CHECK_DEADLOCK FALSE
INVARIANT NumbersAsRegistered
