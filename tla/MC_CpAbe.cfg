SPECIFICATION Spec
CONSTANTS
  Order = 5
  Draws = {1, 3}
  Secrets = {2}
  MaxCiphertexts = 2
  HashUser = 2
  Attrs <- MCAttrs
  HashAttr <- MCHash
  Alpha <- MCAlpha
  Y <- MCY
  Policies <- MCPolicies
  Vars <- MCVars
  M <- MCM
  Factors <- MCFactors
CHECK_DEADLOCK FALSE
INVARIANTS DecryptReturnsSecret
