SPECIFICATION FairSpec
CONSTANTS
  None = None
  n1 = n1
  n2 = n2
  Conns <- TwoConns
  Lines <- SomeLines
  MaxLines = 2
  Pipelined = FALSE
  Splits = FALSE
  Lossy = TRUE
  MayFail = FALSE
CHECK_DEADLOCK FALSE
PROPERTIES AnswersMatch LoneLineAnswered WaitsBehindAnother KillReturns
