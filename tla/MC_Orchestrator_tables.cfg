SPECIFICATION Spec
CONSTANTS
  Menu = {"clean", "deploy"}
  Kinds = {"error"}
  MaxFaults = 1
  MaxCerts = 2
  MaxPackages = 2
  Retries = 2
CHECK_DEADLOCK FALSE
INVARIANT DeployedHasTables
