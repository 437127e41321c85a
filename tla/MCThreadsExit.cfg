SPECIFICATION Spec
CONSTANTS
  Thread = {m, t1, t2}
  Cond = {m, t1, t2}
  idle = m
  init = t1
  TIMESLICE = 2
  ExitValue = {0, 1}
INVARIANT JoinReturnsExitValue
