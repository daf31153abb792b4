CONSTANTS
  Requests = {r1, r2, r3}
  Users = {u1, u2}
  Ids = {id1}
  Params = GLOBAL_PARAMS
  Nil = Nil
  NoTime = NoTime
  MaxFaults = 1
SPECIFICATION Spec
INVARIANTS TypeOK StoredFilesCommitted LastWriterStands QuietDecryptSucceeds
PROPERTIES CreatedAtKept OwnerDeletes
CONSTRAINT Explored
SYMMETRY Symmetry
CHECK_DEADLOCK FALSE
