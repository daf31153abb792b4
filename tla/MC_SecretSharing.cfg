CONSTANTS
  BoolAttrs = {"a", "b", "c", "d", "e", "f"}
  NumericAttrs = {"n"}
  NBit = 5
  Trees <- MCTrees
SPECIFICATION Spec
INVARIANTS CompleteWithAllKeys SoundWhenAligned LeanSound ComparisonsSound
CHECK_DEADLOCK FALSE
