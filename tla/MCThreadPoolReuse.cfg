CONSTANTS
  p1 = p1
  p2 = p2
  p3 = p3
  Procs <- MCProcs
  Root <- p1
  Pids = {101, 102, 103}
  MaxThreads = 2
  MaxDepth <- MCDepth
  NoPool = NoPool
  PidReuse = TRUE
SPECIFICATION MCSpec
INVARIANT NeverStranded
CHECK_DEADLOCK FALSE
