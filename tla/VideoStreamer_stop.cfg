SPECIFICATION Spec
CONSTANTS
  Pids <- Ids
  Robot = 1
  Shares <- CpuShares
CHECK_DEADLOCK FALSE
INVARIANT StreamIsDead
