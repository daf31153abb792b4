CONSTANTS
  Requests = {r1, r2}
  Orgs = {org1, org2}
  Params = GLOBAL_PARAMS
  Nil = Nil
  NoTime = NoTime
  MaxFaults = 0
SPECIFICATION Spec
INVARIANT SynchronizedKeyIsPublished
CHECK_DEADLOCK FALSE
