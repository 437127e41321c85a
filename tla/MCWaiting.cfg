SPECIFICATION AllFairSpec
CONSTANTS
  Thread = {m, t1, t2}
  Cond = {m, t1, t2, c}
  cv = c
  idle = m
  init = t1
  NoThread = none
  TIMESLICE = 1
PROPERTIES
  ReadyRuns
  JoinReturns
  NotifiedReturns
  ExampleTerminates
