SPECIFICATION TFairSpec
CONSTANTS
  None = None
  Dog = Dog
  Owner = Owner
  c1 = c1
  c2 = c2
  Clients <- TwoClients
  Timeouts <- MCTimeouts
  Horizon = 3
  MaxListeners = 1
  Spurious = TRUE
INVARIANTS TimesTypeOK AlertDuringRun StoppedMeansGone MutexKept
PROPERTIES AlertSpacing KickDefersWait AlertsKeepComing StopReturnsElsewhere
