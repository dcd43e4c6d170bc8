SPECIFICATION TFairSpec
CONSTANTS
  None = None
  Dog = Dog
  Owner = Owner
  c1 = c1
  c2 = c2
  Clients <- OneClient
  Timeouts <- OneTimeout
  Horizon = 2
  MaxListeners = 1
  Spurious = FALSE
PROPERTIES StopReturns
