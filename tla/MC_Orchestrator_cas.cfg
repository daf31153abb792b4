SPECIFICATION Spec
CONSTANTS
  Menu = {"deploy", "pause", "resume"}
  Kinds = {}
  MaxFaults = 0
  MaxCerts = 2
  MaxPackages = 2
  Retries = 2
CHECK_DEADLOCK FALSE
INVARIANT ResumeRestoresCAs
