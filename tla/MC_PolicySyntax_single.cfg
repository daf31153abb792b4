CONSTANTS
  BoolAttrs = {"a", "b", "c"}
  NumericAttrs = {"score", "Score"}
  NBit = 3
  Texts <- MCTexts
  Lower <- MCLower
  MaxValue <- MCMaxValue
SPECIFICATION Spec
INVARIANT ComparisonsValidated
CHECK_DEADLOCK FALSE
