SPECIFICATION ClientSpec
CONSTANTS
  Menu = {"clean", "deploy", "pause", "resume"}
  Kinds = {"call", "stop"}
  MaxFaults = 2
  MaxCerts = 2
  MaxPackages = 2
  Retries = 1
  Users = {u1}
  Requests = {r1, r2}
  Nil = Nil
CHECK_DEADLOCK FALSE
SYMMETRY Symmetry
INVARIANTS RegistrarFits AccountsKnownToCA
