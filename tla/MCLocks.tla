-------------------------------- MODULE MCLocks --------------------------------
(***************************************************************************)
(* Small instances of three locks, side by side as in MCFiles: the lock    *)
(* for readers and writers of the lecture (RWLock), Peterson's lock        *)
(* (PetersonLock), and the kernel's mutex under its demonstration program, *)
(* with main, init and two more threads (MutexDemo).                       *)
(***************************************************************************)
EXTENDS RWLock

CONSTANTS N, idle, init, NoThread, TIMESLICE

VARIABLES
  on,                              \* "rwlock", "peterson" or "mutex"
  flag, last, label, level, other, \* PetersonLock
  cpu, current, ready, state, context, remained_time, preempt_count, int_enabled,
  wait, at, owner, queue           \* MutexDemo

petersonVars == <<flag, last, label, level, other>>
mutexVars == <<cpu, current, ready, state, context, remained_time, preempt_count,
               int_enabled, wait, at, owner, queue>>
allVars == <<on, vars, petersonVars, mutexVars>>

\* Peterson's lock; and the mutex, which comes with its theorems.
P == INSTANCE PetersonLock WITH pc <- label

Demo == INSTANCE MutexProofs WITH
  Thread <- Thread \cup {idle}, Cond <- Thread \cup {idle}, pc <- at

ASSUME InstanceAssumption == /\ Demo!Assumption /\ P!Assumption
                             /\ TIMESLICE \in Nat \ {0}

AllInit == /\ on \in {"rwlock", "peterson", "mutex"}
           /\ Init /\ P!Init /\ Demo!Init

AllNext ==
  /\ UNCHANGED on
  /\ \/ on = "rwlock" /\ Next /\ UNCHANGED <<petersonVars, mutexVars>>
     \/ on = "peterson" /\ P!Next /\ UNCHANGED <<vars, mutexVars>>
     \/ on = "mutex" /\ Demo!Next /\ UNCHANGED <<vars, petersonVars>>

AllSpec == AllInit /\ [][AllNext]_allVars

InRWLock(A) == on = "rwlock" /\ A /\ UNCHANGED <<on, petersonVars, mutexVars>>
InPeterson(A) == on = "peterson" /\ A /\ UNCHANGED <<on, vars, mutexVars>>
InMutex(A) == on = "mutex" /\ A /\ UNCHANGED <<on, vars, petersonVars>>

\* The fairness of RWLock, of PetersonLock and of MutexDemo.
AllFairSpec ==
  /\ AllSpec
  /\ \A t \in Thread : WF_allVars(InRWLock(Step(t)))
  /\ \A t \in P!Id : WF_allVars(InPeterson(P!Step(t)))
  /\ WF_allVars(InMutex(Demo!SchedStep))
  /\ SF_allVars(InMutex(Demo!Spawn))
  /\ \A t \in Thread \cup {idle} : SF_allVars(InMutex(Demo!ThreadStep(t)))
  /\ SF_allVars(InMutex(preempt_count = 0 /\ Demo!TimerTick))

\* One thread at most has Peterson's lock, although flags_clear takes its time:
\* of those that came to a lock_one, the last stays behind.
PetersonExclusion == P!PetersonExclusion /\ P!IInv

\* Whoever waits for a lock of the lecture gets it.
EveryLockServed == Served /\ P!Served

\* The scheduler's queues and the mutex's list of waiters are as every step relies
\* on (threads.c, mutex.c).
WellFormed == Demo!WellFormed

\* The mutex has one owner at most, and mutex->owner names it.
MutualExclusion == Demo!MutualExclusion

\* A thread sleeps in the mutex only where somebody will wake it.
NoLostWakeup == Demo!NoLostWakeup

\* The mutex is handed over in the order of arrival.
ImplementsLock == Demo!ImplementsLock

\* Whoever wants the mutex gets it.
NoStarvation == Demo!NoStarvation
=============================================================================
