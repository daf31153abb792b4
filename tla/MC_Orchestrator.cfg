SPECIFICATION Spec
CONSTANTS
  Menu = {"clean", "deploy", "pause", "resume", "deployCC"}
  Kinds = {"kill", "error", "warn", "query", "docker"}
  MaxFaults = 2
  MaxCerts = 3
  MaxPackages = 3
  Retries = 2
CHECK_DEADLOCK FALSE
INVARIANTS TypeOK CleanReachesZero DeployRepairs SeededUsersCurrent OnePackageServed
