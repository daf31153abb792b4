SPECIFICATION Spec
CONSTANTS
  Req = {r1, r2, r3}
  NBit = 2
  Registered <- MCScoreOnly
  Locations <- MCLocations
  Asked <- MCUnparsed
  AutoAsked <- MCAutoAsked
  Policies <- MCPolicies
  Rank <- MCRank
  MaxFaults = 1
SYMMETRY Symmetry
CONSTRAINTS AtMostTwo FaultsOfTwo
CHECK_DEADLOCK FALSE
INVARIANTS TypeOK VersionsFollowOrder ReportedVersionIsOwn EnsureCompletesInequalities
