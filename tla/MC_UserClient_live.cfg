SPECIFICATION ClientFairSpec
CONSTANTS
  Menu = {"deploy", "pause", "resume"}
  Kinds = {"docker", "warn"}
  MaxFaults = 1
  MaxCerts = 1
  MaxPackages = 1
  Retries = 2
  Users = {u1}
  Requests = {r1, r2}
  Nil = Nil
CHECK_DEADLOCK FALSE
PROPERTIES CommandReturns ServiceReturns NamesGetAccounts
