SPECIFICATION FairSpec
CONSTANTS
  None = None
  Main = Main
  tcp = tcp
  dog = dog
  Drivers <- TcpThread
  Stoppers <- NoThread
  Speeds <- AllSpeeds
  Headings <- AllHeadings
  Leftover <- Running
  TimeoutMillis = 2
  Noise = TRUE
CHECK_DEADLOCK FALSE
INVARIANTS TypeOK Obeyed
PROPERTIES CallsEnd
