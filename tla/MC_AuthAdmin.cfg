CONSTANTS
  Requests = {r1, r2, r3, r4}
  Orgs = {org1, org2}
  Params = GLOBAL_PARAMS
  Nil = Nil
  NoTime = NoTime
  MaxFaults = 1
SPECIFICATION Spec
INVARIANTS TypeOK PublishedKeyRecorded RecordBelongsTogether IssuedUnderPublishedKey QuietInitRepairs
PROPERTY KeysNeverReplaced
CONSTRAINT Explored
SYMMETRY Symmetry
CHECK_DEADLOCK FALSE
