CONSTANTS
  Tx = {t1, t2, t3, t4}
  Ids = {id1}
  Params = GLOBAL_PARAMS
  Bodies = {b1}
  Times = {now}
  Nil = Nil
  NoTime = NoTime
SPECIFICATION Spec
INVARIANTS ParamsVersionCounts LedgerInv
PROPERTY ActsAsVersionedStore
SYMMETRY Symmetry
CHECK_DEADLOCK FALSE
