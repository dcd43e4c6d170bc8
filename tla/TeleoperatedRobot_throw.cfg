SPECIFICATION Spec
CONSTANTS
  None = None
  Dog = Dog
  Main = Main
  TCP = TCP
  n1 = n1
  n2 = n2
  Conns <- OneConn
  Lines <- Drives
  MaxLines = 1
  Pipelined = FALSE
  Splits = FALSE
  Lossy = FALSE
  Timeouts <- OneTimeout
  Horizon = 1
  Moves <- Ahead
  ClawFails = FALSE
CHECK_DEADLOCK FALSE
INVARIANTS ThrowOnlyIfDead
