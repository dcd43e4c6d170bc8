SPECIFICATION Spec
CONSTANTS
  None = None
  n1 = n1
  n2 = n2
  Conns <- TwoConns
  Lines <- MixedLines
  MaxLines = 2
  Pipelined = TRUE
  Splits = TRUE
  Lossy = TRUE
  MayFail = TRUE
CHECK_DEADLOCK FALSE
INVARIANTS TypeOK OneConnection UsesOpenConnection
