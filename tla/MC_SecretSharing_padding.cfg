CONSTANTS
  BoolAttrs = {"a", "b", "c", "d", "e", "f"}
  NumericAttrs = {"n"}
  NBit = 5
  Trees <- MCTrees
SPECIFICATION Spec
INVARIANT SharesFollowPolicy
CHECK_DEADLOCK FALSE
