SPECIFICATION ClientFairSpec
CONSTANTS
  Menu = {"deploy", "resume"}
  Kinds = {}
  MaxFaults = 0
  MaxCerts = 1
  MaxPackages = 1
  Retries = 1
  Users = {}
  Requests = {}
  Nil = Nil
CHECK_DEADLOCK FALSE
PROPERTY ClientServes
