SPECIFICATION Spec
CONSTANTS
  Menu = {"deploy", "pause", "resume", "deployCC"}
  Kinds = {}
  MaxFaults = 0
  MaxCerts = 1
  MaxPackages = 2
  Retries = 2
CHECK_DEADLOCK FALSE
INVARIANT ReadyMeansServing
