SPECIFICATION Spec
CONSTANTS
  Menu = {"deploy"}
  Kinds = {"kill"}
  MaxFaults = 1
  MaxCerts = 2
  MaxPackages = 2
  Retries = 2
CHECK_DEADLOCK FALSE
INVARIANT IncompleteIsRegenerated
