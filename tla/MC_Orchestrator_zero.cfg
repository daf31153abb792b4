SPECIFICATION Spec
CONSTANTS
  Menu = {"clean", "deploy"}
  Kinds = {"warn"}
  MaxFaults = 2
  MaxCerts = 2
  MaxPackages = 2
  Retries = 2
CHECK_DEADLOCK FALSE
INVARIANT CleanMeansZero
