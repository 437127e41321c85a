SPECIFICATION AllSpec
CONSTANTS
  Thread = {m, t1, t2, t3}
  Cond = {m, t1, t2, t3}
  cv = c
  NoThread = none
  idle = m
  init = t1
  TIMESLICE = 2
  ExitValue = {0}
INVARIANTS
  IInv
  SpinExclusion
  ReadyQueueOK
  NoLostThread
  NoLostJoin
  DestroyedIsUnused
  MonitorExclusion
  MonitorNoLostWakeup
PROPERTIES
  DeadOffStack
  ImplementsMonitor
SYMMETRY Objects
