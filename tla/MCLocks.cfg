SPECIFICATION AllFairSpec
CONSTANTS
  Thread = {t1, t2, t3}
  UINT = 3
  TICKETS = 6
  N = 3
  idle = m
  init = t1
  NoThread = none
  TIMESLICE = 2
INVARIANTS
  Exclusion
  PetersonExclusion
  WellFormed
  MutualExclusion
  NoLostWakeup
PROPERTIES
  EveryLockServed
  ImplementsLock
  NoStarvation
