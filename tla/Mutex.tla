-------------------------------- MODULE Mutex --------------------------------
(***************************************************************************)
(* src/mutex.c: mutex_lock and mutex_unlock of one mutex, on the scheduler *)
(* of module Scheduler.  Every statement on shared state is a step of its  *)
(* own; interrupts stay enabled, so the timer may fire between any two of  *)
(* them.  The steps that begin and end a call take the label the caller    *)
(* comes from, or continues at: the callers are other modules.             *)
(***************************************************************************)
EXTENDS Scheduler

CONSTANT NoThread   \* the null pointer of mutex->owner

ASSUME NoThreadAssumption == NoThread \notin Thread

VARIABLES
  owner,   \* mutex->owner
  queue    \* mutex->wait: the threads of its struct mutex_wait entries

mutexVars == <<owner, queue>>

\* Where a thread is inside mutex_lock, but for the call of schedule().
LockLabel == {"lock_test", "lock_queue", "lock_block", "lock_unlock",
              "lock_schedule", "lock_relock", "lock_unlink", "lock_retest",
              "lock_done"}

UnlockLabel == {"unlock_pass", "unlock_wake", "unlock_done"}

MutexSetup == owner = NoThread /\ queue = <<>>

At(t, label) == Running(t) /\ pc[t] = label

\* A step of t from one label to the next that takes no part in scheduling.
Step(t, from, to) == /\ At(t, from)
                     /\ Goto(t, to)
                     /\ UNCHANGED <<cpu, current, context, remained_time,
                                    int_enabled, wait>>

-----------------------------------------------------------------------------
(* mutex_lock                                                              *)

LockEnter(t, from) ==
  /\ Step(t, from, "lock_test")
  /\ SpinLock
  /\ UNCHANGED <<ready, state, mutexVars>>

\* Mutant: an owner that is set is overwritten.
LockStealFree(t) ==
  /\ Step(t, "lock_test", "lock_done")
  /\ owner' = t
  /\ UNCHANGED <<ready, state, preempt_count, queue>>

LockTakeFree(t) ==
  /\ owner = NoThread
  /\ Step(t, "lock_test", "lock_done")
  /\ owner' = t
  /\ UNCHANGED <<ready, state, preempt_count, queue>>

LockTest(t) ==
  /\ owner # NoThread
  /\ Step(t, "lock_test", IF owner = t THEN "lock_done" ELSE "lock_queue")
  /\ UNCHANGED <<ready, state, preempt_count, mutexVars>>

\* Mutant: list_add for list_add_tail, the newest waiter comes first.
LockQueueFirst(t) ==
  /\ Step(t, "lock_queue", "lock_block")
  /\ queue' = <<t>> \o queue
  /\ UNCHANGED <<ready, state, preempt_count, owner>>

LockQueue(t) ==
  /\ Step(t, "lock_queue", "lock_block")
  /\ queue' = Append(queue, t)
  /\ UNCHANGED <<ready, state, preempt_count, owner>>

LockBlock(t) ==
  /\ Step(t, "lock_block", "lock_unlock")
  /\ ThreadBlock
  /\ UNCHANGED <<ready, preempt_count, mutexVars>>

LockUnlock(t) ==
  /\ Step(t, "lock_unlock", "lock_schedule")
  /\ SpinUnlock
  /\ UNCHANGED <<ready, state, mutexVars>>

LockSchedule(t) ==
  /\ At(t, "lock_schedule")
  /\ CallSchedule(t, "lock_relock")
  /\ UNCHANGED mutexVars

LockRelock(t) ==
  /\ Step(t, "lock_relock", "lock_unlink")
  /\ SpinLock
  /\ UNCHANGED <<ready, state, mutexVars>>

\* Mutant: the entry of the woken thread stays in the list.
LockUnlinkNothing(t) ==
  /\ Step(t, "lock_unlink", "lock_retest")
  /\ UNCHANGED <<ready, state, preempt_count, mutexVars>>

\* list_del of the thread's own entry, wherever it is in the list.
LockUnlink(t) ==
  /\ Step(t, "lock_unlink", "lock_retest")
  /\ \E i \in DOMAIN queue : queue[i] = t /\ queue' = RemoveAt(queue, i)
  /\ UNCHANGED <<ready, state, preempt_count, owner>>

LockRetest(t) ==
  /\ Step(t, "lock_retest", IF owner = t THEN "lock_done" ELSE "lock_queue")
  /\ UNCHANGED <<ready, state, preempt_count, mutexVars>>

LockDone(t, to) ==
  /\ Step(t, "lock_done", to)
  /\ SpinUnlock
  /\ UNCHANGED <<ready, state, mutexVars>>

-----------------------------------------------------------------------------
(* mutex_unlock                                                            *)

UnlockEnter(t, from) ==
  /\ Step(t, from, "unlock_pass")
  /\ SpinLock
  /\ UNCHANGED <<ready, state, mutexVars>>

\* The entry of the next owner stays in the list: that thread removes it.
UnlockPass(t) ==
  /\ queue # <<>>
  /\ Step(t, "unlock_pass", "unlock_wake")
  /\ owner' = Head(queue)
  /\ UNCHANGED <<ready, state, preempt_count, queue>>

\* Mutant: the owner is cleared without a look at the list.
UnlockFreeBlind(t) ==
  /\ Step(t, "unlock_pass", "unlock_done")
  /\ owner' = NoThread
  /\ UNCHANGED <<ready, state, preempt_count, queue>>

UnlockFree(t) ==
  /\ queue = <<>>
  /\ Step(t, "unlock_pass", "unlock_done")
  /\ owner' = NoThread
  /\ UNCHANGED <<ready, state, preempt_count, queue>>

\* Mutant: the mutex is handed over but the new owner is not woken.
UnlockWakeNobody(t) ==
  /\ Step(t, "unlock_wake", "unlock_done")
  /\ UNCHANGED <<ready, state, preempt_count, mutexVars>>

UnlockWake(t) ==
  /\ Step(t, "unlock_wake", "unlock_done")
  /\ ThreadStart(Head(queue))
  /\ UNCHANGED <<preempt_count, mutexVars>>

UnlockDone(t, to) ==
  /\ Step(t, "unlock_done", to)
  /\ SpinUnlock
  /\ UNCHANGED <<ready, state, mutexVars>>

-----------------------------------------------------------------------------
\* What a thread that waits for the mutex, or releases it, has left to do
\* between the first and the last statement of the call.
LockBody(t) == \/ LockTakeFree(t) \/ LockTest(t) \/ LockQueue(t)
               \/ LockBlock(t) \/ LockUnlock(t) \/ LockSchedule(t)
               \/ LockRelock(t) \/ LockUnlink(t) \/ LockRetest(t)

UnlockBody(t) == UnlockPass(t) \/ UnlockFree(t) \/ UnlockWake(t)

\* The threads still waiting for the mutex: an owner that has not unlinked its
\* entry yet is not one of them.
Line == IF queue # <<>> /\ Head(queue) = owner THEN Tail(queue) ELSE queue
=============================================================================
