------------------------------ MODULE Condition ------------------------------
(***************************************************************************)
(* src/condition.c: condition_wait, notify_one and notify_all of one       *)
(* condition used with one mutex (module Mutex), under the preemptive      *)
(* scheduler.  The clients are any threads that wait with the mutex held   *)
(* and notify with or without it; init starts them.                        *)
(***************************************************************************)
EXTENDS Mutex

CONSTANTS
  init,   \* the thread that starts the others
  cv      \* the condition

ASSUME InitAssumption == init \in Thread \ {idle}
ASSUME CvAssumption == cv \in Cond \ Thread

VARIABLES
  ret,    \* where the mutex_unlock or notify_all a thread is in returns to
  list    \* the local list of notify_all, the threads it has yet to wake

condVars == <<mutexVars, ret, list>>
vars == <<schedVars, pc, condVars>>

Worker == Thread \ {idle, init}

WaitLabel == {"wait_link", "wait_block", "wait_release", "wait_unlock",
              "wait_schedule", "wait_lock"}

Label == LockLabel \cup UnlockLabel \cup WaitLabel \cup
         {"boot", "idle", "halt", "hlt", "new", "outside", "inside",
          "notify_all"}

Init ==
  /\ SchedInit(init)
  /\ pc = [t \in Thread |-> CASE t = idle -> "boot"
                              [] t = init -> "outside"
                              [] OTHER -> "new"]
  /\ MutexSetup
  /\ ret = [t \in Thread |-> "outside"]
  /\ list = [t \in Thread |-> <<>>]

SpawnWorker(t) ==
  /\ At(init, "outside") /\ pc[t] = "new"
  /\ ThreadStart(t)
  /\ Goto(t, "outside")
  /\ UNCHANGED <<cpu, current, context, remained_time, preempt_count,
                 int_enabled, wait, condVars>>

-----------------------------------------------------------------------------
(* The mutex as the clients use it.                                        *)

Lock(t) == /\ LockEnter(t, "outside") \/ LockEnter(t, "wait_lock")
           /\ UNCHANGED <<ret, list>>

Unlock(t) == /\ UnlockEnter(t, "inside")
             /\ ret' = [ret EXCEPT ![t] = "outside"]
             /\ UNCHANGED list

MutexStep(t) == /\ \/ LockBody(t) \/ LockDone(t, "inside")
                   \/ UnlockBody(t) \/ UnlockDone(t, ret[t])
                /\ UNCHANGED <<ret, list>>

-----------------------------------------------------------------------------
(* condition_wait                                                          *)

WaitEnter(t) == /\ Step(t, "inside", "wait_link")
                /\ SpinLock
                /\ UNCHANGED <<ready, state, condVars>>

\* Mutant: list_add for list_add_tail.
WaitLinkFirst(t) == /\ At(t, "wait_link")
                    /\ Goto(t, "wait_block")
                    /\ wait' = [wait EXCEPT ![cv] = <<t>> \o @]
                    /\ UNCHANGED <<cpu, current, ready, state, context,
                                   remained_time, preempt_count, int_enabled,
                                   condVars>>

WaitLink(t) == /\ At(t, "wait_link")
               /\ Goto(t, "wait_block")
               /\ wait' = [wait EXCEPT ![cv] = Append(@, t)]
               /\ UNCHANGED <<cpu, current, ready, state, context,
                              remained_time, preempt_count, int_enabled,
                              condVars>>

WaitBlock(t) == /\ Step(t, "wait_block", "wait_release")
                /\ ThreadBlock
                /\ UNCHANGED <<ready, preempt_count, condVars>>

\* lock->unlock(lock), with the spinlock of the condition still held.
WaitRelease(t) == /\ UnlockEnter(t, "wait_release")
                  /\ ret' = [ret EXCEPT ![t] = "wait_unlock"]
                  /\ UNCHANGED list

WaitUnlock(t) == /\ Step(t, "wait_unlock", "wait_schedule")
                 /\ SpinUnlock
                 /\ UNCHANGED <<ready, state, condVars>>

WaitSchedule(t) == /\ At(t, "wait_schedule")
                   /\ CallSchedule(t, "wait_lock")
                   /\ UNCHANGED condVars

-----------------------------------------------------------------------------
(* notify_one masks interrupts from its first statement to its last;       *)
(* notify_all only while it moves the waiters to a list of its own.        *)

NotifyOneCall(t) == /\ At(t, "inside") \/ At(t, "outside")
                    /\ NotifyOne(cv, state)
                    /\ UNCHANGED <<cpu, current, context, remained_time,
                                   preempt_count, int_enabled, pc, condVars>>

\* Mutants: the waiters are copied, not moved; they are dropped.
NotifyAllCopy(t) ==
  /\ At(t, "inside") \/ At(t, "outside")
  /\ list' = [list EXCEPT ![t] = wait[cv]]
  /\ ret' = [ret EXCEPT ![t] = pc[t]]
  /\ Goto(t, "notify_all")
  /\ UNCHANGED <<cpu, current, ready, state, context, remained_time,
                 preempt_count, int_enabled, wait, mutexVars>>

NotifyAllDrop(t) ==
  /\ At(t, "inside") \/ At(t, "outside")
  /\ wait' = [wait EXCEPT ![cv] = <<>>]
  /\ ret' = [ret EXCEPT ![t] = pc[t]]
  /\ Goto(t, "notify_all")
  /\ UNCHANGED <<cpu, current, ready, state, context, remained_time,
                 preempt_count, int_enabled, list, mutexVars>>

NotifyAllCall(t) ==
  /\ At(t, "inside") \/ At(t, "outside")
  /\ list' = [list EXCEPT ![t] = wait[cv]]
  /\ wait' = [wait EXCEPT ![cv] = <<>>]
  /\ ret' = [ret EXCEPT ![t] = pc[t]]
  /\ Goto(t, "notify_all")
  /\ UNCHANGED <<cpu, current, ready, state, context, remained_time,
                 preempt_count, int_enabled, mutexVars>>

NotifyAllWake(t) ==
  /\ At(t, "notify_all")
  /\ list[t] # <<>>
  /\ ThreadStart(Head(list[t]))
  /\ list' = [list EXCEPT ![t] = Tail(@)]
  /\ UNCHANGED <<cpu, current, context, remained_time, preempt_count,
                 int_enabled, wait, pc, mutexVars, ret>>

\* Mutant: notify_all returns although its list is not exhausted.
NotifyAllEarly(t) ==
  /\ Step(t, "notify_all", ret[t])
  /\ list' = [list EXCEPT ![t] = <<>>]
  /\ UNCHANGED <<ready, state, preempt_count, mutexVars, ret>>

NotifyAllDone(t) ==
  /\ list[t] = <<>>
  /\ Step(t, "notify_all", ret[t])
  /\ UNCHANGED <<ready, state, preempt_count, condVars>>

-----------------------------------------------------------------------------
\* The calls a client has begun, and gets on with.
CallStep(t) == \/ MutexStep(t) \/ WaitLink(t) \/ WaitBlock(t)
               \/ WaitRelease(t) \/ WaitUnlock(t) \/ WaitSchedule(t)
               \/ NotifyAllWake(t) \/ NotifyAllDone(t)

\* The calls a client may make.
ClientStep(t) == \/ Lock(t) \/ Unlock(t) \/ WaitEnter(t)
                 \/ NotifyOneCall(t) \/ NotifyAllCall(t)

SchedStep == \/ Idle /\ UNCHANGED condVars
             \/ \E t \in Thread : Resume(t) /\ UNCHANGED condVars

TimerTick == Tick /\ UNCHANGED condVars

Spawn == \E t \in Worker : SpawnWorker(t)

Next == \/ TimerTick \/ SchedStep \/ Spawn
        \/ \E t \in Thread : CallStep(t) \/ ClientStep(t)

Spec == Init /\ [][Next]_vars

\* Scheduling as in module Threads.  A client need not wait, notify or ask for
\* the mutex, but it does not keep the mutex for ever, and condition_wait goes
\* on to take it back.
FairSpec == /\ Spec
            /\ WF_vars(SchedStep)
            /\ \A t \in Thread : /\ SF_vars(CallStep(t))
                                 /\ SF_vars(Unlock(t))
                                 /\ SF_vars(pc[t] = "wait_lock" /\ Lock(t))
            /\ SF_vars(preempt_count = 0 /\ TimerTick)

-----------------------------------------------------------------------------
TypeOK ==
  /\ {cpu, current} \subseteq Thread
  /\ ready \in Seq(Thread)
  /\ state \in [Thread -> ThreadState]
  /\ context \in [Thread -> {"live", "int_on", "int_off"}]
  /\ remained_time \in 0..TIMESLICE
  /\ preempt_count \in 0..2
  /\ int_enabled \in BOOLEAN
  /\ wait \in [Cond -> Seq(Thread)]
  /\ pc \in [Thread -> Label]
  /\ owner \in Thread \cup {NoThread}
  /\ queue \in Seq(Thread)
  /\ ret \in [Thread -> {"inside", "outside", "wait_unlock"}]
  /\ list \in [Thread -> Seq(Thread)]

\* The thread has the mutex: mutex_lock let it in, and it has neither released
\* it nor, in condition_wait, had it released.
Holds(t) == \/ pc[t] \in {"lock_done", "inside", "wait_link", "wait_block",
                          "wait_release"}
            \/ pc[t] = "notify_all" /\ ret[t] = "inside"

\* The thread is in condition_wait, before schedule() returned.
InWait(t) == \/ pc[t] \in {"wait_block", "wait_release", "wait_unlock",
                           "wait_schedule"}
             \/ pc[t] = "wait_lock" /\ ~Running(t)
             \/ pc[t] \in UnlockLabel /\ ret[t] = "wait_unlock"

\* condition_wait and the clients keep the mutex exclusive, and condition_wait
\* returns with it (inc/condition.h).
MonitorExclusion ==
  /\ \A t, u \in Thread : Holds(t) /\ Holds(u) => t = u
  /\ \A t \in Thread : Holds(t) => owner = t

\* The lists that refer to a thread by an entry on the stack of its
\* condition_wait: that of the condition and those notify_all took it to.
Listed(t) == \/ t \in ToSet(wait[cv])
             \/ \E u \in Thread : t \in ToSet(list[u])

\* Every entry belongs to a thread still in condition_wait, so no list holds
\* the entry of a frame that is gone, and it is linked into one list only.
EntriesLive ==
  /\ IsInjective(wait[cv])
  /\ \A u \in Thread :
       /\ IsInjective(list[u])
       /\ ToSet(list[u]) \cap ToSet(wait[cv]) = {}
       /\ \A v \in Thread \ {u} : ToSet(list[u]) \cap ToSet(list[v]) = {}
  /\ \A t \in Thread : Listed(t) => InWait(t)

\* A thread sleeps only where somebody will find it: in the list of the
\* condition or of a notify_all under way, or in the mutex while its owner is
\* still to pass the mutex on.
MonitorNoLostWakeup ==
  \A t \in Thread :
    state[t] = "BLOCKED" =>
      \/ InWait(t) /\ Listed(t)
      \/ /\ pc[t] \in LockLabel
         /\ t \in ToSet(queue)
         /\ \/ owner \notin {t, NoThread}
            \/ owner = t /\ \E u \in Thread : u # t /\ pc[u] = "unlock_wake"

\* No thread is put in the ready queue twice, or while it has the CPU, whoever
\* wakes it: notifiers, mutex_unlock or both.
ReadyOnce ==
  /\ IsInjective(ready)
  /\ \A t \in ToSet(ready) : state[t] = "ACTIVE" /\ t # cpu

\* The thread is in condition_wait and holds the spinlock of the condition.
Entering(t) == \/ pc[t] \in {"wait_block", "wait_release", "wait_unlock"}
               \/ pc[t] \in UnlockLabel /\ ret[t] = "wait_unlock"

\* Who is in a list of the condition sleeps, or is about to; who is entering
\* is the last of the waiters, and only then may one of them own the mutex.
WaitersOK ==
  \A t \in Thread :
    /\ Listed(t) => state[t] = "BLOCKED" \/ pc[t] = "wait_block"
    /\ Entering(t) => wait[cv] # <<>> /\ Last(wait[cv]) = t
    /\ t = owner /\ t \in ToSet(wait[cv]) =>
         pc[t] \in {"wait_block", "wait_release", "unlock_pass"}

\* The calls that keep something in ret and list.
CallOK ==
  \A t \in Thread :
    /\ pc[t] \in UnlockLabel => ret[t] # "inside"
    /\ pc[t] = "notify_all" => ret[t] # "wait_unlock"
    /\ pc[t] # "notify_all" => list[t] = <<>>

\* The mutex: QueueOK, HandOver and SpinOK as in module MutexDemo.
LinkLabel == {"lock_block", "lock_unlock", "lock_schedule", "lock_relock",
              "lock_unlink"}

QueueOK ==
  /\ IsInjective(queue)
  /\ \A t \in Thread : t \in ToSet(queue) <=> pc[t] \in LinkLabel
  /\ owner \in ToSet(queue) => owner = Head(queue)

HandOver ==
  /\ \A t \in ToSet(queue) :
       state[t] = "BLOCKED" \/ pc[t] = "lock_block" \/ owner = t
  /\ \A t \in Thread :
       /\ pc[t] \in {"lock_queue", "lock_block"} => owner \notin {t, NoThread}
       /\ pc[t] \in {"lock_retest", "unlock_pass"} => owner = t
       /\ pc[t] = "unlock_wake" => /\ queue # <<>>
                                   /\ owner = Head(queue)
                                   /\ state[owner] = "BLOCKED"

\* Where a thread holds the spinlock of the mutex, that of the condition or,
\* while condition_wait releases the mutex, both.
SpinSection == UnlockLabel \cup
               {"lock_test", "lock_queue", "lock_block", "lock_unlock",
                "lock_unlink", "lock_retest", "lock_done", "wait_link",
                "wait_block", "wait_release", "wait_unlock"}

Spins(t) == IF pc[t] \notin SpinSection THEN 0
            ELSE IF pc[t] \in UnlockLabel /\ ret[t] = "wait_unlock" THEN 2 ELSE 1

\* A thread that holds one is the one executing, and preempt_count says so.
SpinOK == \A t \in Thread : /\ pc[t] \in SpinSection => Running(t)
                            /\ t = cpu => preempt_count = Spins(t)

\* One thread is switched in, current names it, and it was started; interrupts
\* are masked during a switch, and the thread being switched in is runnable.
SwitchOK ==
  /\ \A t \in Thread : context[t] = "live" => t = cpu
  /\ context[cpu] = "live" => current = cpu
  /\ context[cpu] # "live" => ~int_enabled /\ state[cpu] = "ACTIVE"
  /\ state[cpu] # "DEAD" /\ state[idle] = "ACTIVE"

\* Where a thread may be in its program when it is in each state.
StateOK ==
  \A t \in Thread :
    /\ pc[t] \in {"boot", "idle", "halt", "hlt"} <=> t = idle
    /\ state[t] # "FINISHED"
    /\ state[t] = "DEAD" <=> pc[t] = "new"
    /\ state[t] = "BLOCKED" =>
         \/ pc[t] \in {"lock_unlock", "lock_schedule", "wait_schedule"}
         \/ pc[t] \in {"lock_relock", "wait_lock"} /\ ~Running(t)
         \/ Entering(t) /\ pc[t] # "wait_block"

\* What every step relies on: values of the right kind, entries that exist and
\* are in one list each, a ready queue without duplicates, and threads that are
\* where their state says.
WellFormed == /\ TypeOK /\ EntriesLive /\ ReadyOnce /\ WaitersOK /\ CallOK
              /\ QueueOK /\ HandOver /\ SpinOK /\ SwitchOK /\ StateOK

\* Inductive: what the steps rely on, and what mutex and condition promise.
IInv == WellFormed /\ MonitorExclusion /\ MonitorNoLostWakeup

\* Code and promise: a thread counts as waiting from the step that releases
\* the mutex, although it is linked into the list of the condition before.
Waiting == IF wait[cv] # <<>> /\ Last(wait[cv]) = owner THEN Front(wait[cv])
                                                         ELSE wait[cv]

Abstract == INSTANCE AbstractMonitor WITH line <- Line, waiting <- Waiting

ImplementsMonitor == Abstract!Spec

\* A waiter that was notified comes back from condition_wait with the mutex,
\* whatever the timer does and whoever else wants the mutex.
NotifiedReturns ==
  \A t \in Thread :
    pc[t] \in {"wait_schedule", "wait_lock"} /\ t \notin ToSet(wait[cv])
      ~> pc[t] = "inside"
=============================================================================
