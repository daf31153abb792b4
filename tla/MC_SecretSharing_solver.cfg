CONSTANTS
  BoolAttrs = {"a", "b", "c", "d", "e", "f"}
  NumericAttrs = {"n"}
  NBit = 5
  Trees <- MCTrees
SPECIFICATION Spec
INVARIANT ComparisonsComplete
CHECK_DEADLOCK FALSE
