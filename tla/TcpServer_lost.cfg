SPECIFICATION Spec
CONSTANTS
  None = None
  n1 = n1
  n2 = n2
  Conns <- TwoConns
  Lines <- FewLines
  MaxLines = 1
  Pipelined = FALSE
  Splits = FALSE
  Lossy = FALSE
  MayFail = FALSE
CHECK_DEADLOCK FALSE
INVARIANTS ServesUntilKilled
