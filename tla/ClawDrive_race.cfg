SPECIFICATION Spec
CONSTANTS
  None = None
  Main = Main
  tcp = tcp
  dog = dog
  Drivers <- TcpThread
  Stoppers <- DogThread
  Speeds <- FewSpeeds
  Headings <- FewHeadings
  Leftover <- Running
  TimeoutMillis = 1
  Noise = TRUE
CHECK_DEADLOCK FALSE
INVARIANT Obeyed
PROPERTIES FailureIsFinal LineSpec
