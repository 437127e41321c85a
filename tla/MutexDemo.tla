------------------------------ MODULE MutexDemo ------------------------------
(***************************************************************************)
(* The program of week4/sync/mutexes/src/main.c: init sets the mutex up,   *)
(* starts the other threads, and then each of them locks and unlocks the   *)
(* mutex for ever, under the preemptive scheduler.                         *)
(***************************************************************************)
EXTENDS Mutex

CONSTANT init

\* What an instance has to give the constants.
Assumption == {idle, init} \subseteq Thread /\ init # idle /\ NoThread \notin Thread

vars == <<schedVars, pc, mutexVars>>

Worker == Thread \ {idle, init}

Label == LockLabel \cup UnlockLabel \cup
         {"boot", "idle", "halt", "hlt", "new", "spawn", "outside", "inside"}

Init ==
  /\ SchedInit(init)
  /\ pc = [t \in Thread |-> CASE t = idle -> "boot"
                              [] t = init -> "spawn"
                              [] OTHER -> "new"]
  /\ MutexSetup

-----------------------------------------------------------------------------
(* The program.                                                            *)

\* init creates and starts the other threads.
SpawnWorker(t) ==
  /\ At(init, "spawn") /\ pc[t] = "new"
  /\ ThreadStart(t)
  /\ Goto(t, "outside")
  /\ UNCHANGED <<cpu, current, context, remained_time, preempt_count,
                 int_enabled, wait, mutexVars>>

SpawnDone ==
  /\ \A t \in Worker : pc[t] # "new"
  /\ Step(init, "spawn", "outside")
  /\ UNCHANGED <<ready, state, preempt_count, mutexVars>>

-----------------------------------------------------------------------------
ThreadStep(t) == \/ LockEnter(t, "outside") \/ LockBody(t)
                 \/ LockDone(t, "inside")
                 \/ UnlockEnter(t, "inside") \/ UnlockBody(t)
                 \/ UnlockDone(t, "outside")

Spawn == SpawnDone \/ \E t \in Worker : SpawnWorker(t)

SchedStep == \/ Idle /\ UNCHANGED mutexVars
             \/ \E t \in Thread : Resume(t) /\ UNCHANGED mutexVars

TimerTick == Tick /\ UNCHANGED mutexVars

Next == \/ TimerTick \/ SchedStep \/ Spawn
        \/ \E t \in Thread : ThreadStep(t)

Spec == Init /\ [][Next]_vars

(***************************************************************************)
(* As in module Threads, and the program is the one above: a thread that   *)
(* is given the CPU again and again gets on with it.                       *)
(***************************************************************************)
FairSpec == /\ Spec
            /\ WF_vars(SchedStep)
            /\ SF_vars(Spawn)
            /\ \A t \in Thread : SF_vars(ThreadStep(t))
            /\ SF_vars(preempt_count = 0 /\ TimerTick)

-----------------------------------------------------------------------------
TypeOK ==
  /\ {cpu, current} \subseteq Thread
  /\ ready \in Seq(Thread)
  /\ state \in [Thread -> ThreadState]
  /\ context \in [Thread -> {"live", "int_on", "int_off"}]
  /\ remained_time \in 0..TIMESLICE
  /\ preempt_count \in 0..1
  /\ int_enabled \in BOOLEAN
  /\ wait \in [Cond -> Seq(Thread)]
  /\ pc \in [Thread -> Label]
  /\ owner \in Thread \cup {NoThread}
  /\ queue \in Seq(Thread)

\* Threads that mutex_lock has let in and mutex_unlock has not yet released.
Holds(t) == pc[t] \in {"lock_done", "inside"}

\* inc/mutex.h: mutual exclusion, and the owner field names the holder.
MutualExclusion ==
  /\ \A t, u \in Thread : Holds(t) /\ Holds(u) => t = u
  /\ \A t \in Thread : Holds(t) => owner = t

\* A thread sleeps in the mutex only while its entry is in the list and there
\* is an owner still to pass the mutex on, or about to wake it: no wake-up is
\* lost between the test of owner and the switch.
NoLostWakeup ==
  \A t \in Thread :
    state[t] = "BLOCKED" =>
      /\ t \in ToSet(queue)
      /\ \/ owner \notin {t, NoThread}
         \/ owner = t /\ \E u \in Thread : u # t /\ pc[u] = "unlock_wake"

\* The entries live on their threads' stacks: a thread's is linked, once, from
\* the list_add_tail of its mutex_lock to its list_del and no longer, and only
\* the first, which its thread has yet to unlink, may be the owner's.
QueueOK ==
  /\ IsInjective(queue)
  /\ \A t \in Thread :
       t \in ToSet(queue) <=>
         pc[t] \in {"lock_block", "lock_unlock", "lock_schedule",
                    "lock_relock", "lock_unlink"}
  /\ owner \in ToSet(queue) => owner = Head(queue)

\* Who is in the list sleeps, unless it is on its way to, or was handed the
\* mutex; the thread mutex_unlock is about to wake is asleep.
HandOver ==
  /\ \A t \in ToSet(queue) :
       state[t] = "BLOCKED" \/ pc[t] = "lock_block" \/ owner = t
  /\ \A t \in Thread :
       /\ pc[t] \in {"lock_queue", "lock_block"} => owner \notin {t, NoThread}
       /\ pc[t] \in {"lock_retest", "unlock_pass"} => owner = t
       /\ pc[t] = "unlock_wake" => /\ queue # <<>>
                                   /\ owner = Head(queue)
                                   /\ state[owner] = "BLOCKED"

\* thread_wake and schedule never put a thread in the ready queue twice, nor
\* while it has the CPU.
ReadyOnce ==
  /\ IsInjective(ready)
  /\ \A t \in ToSet(ready) : state[t] = "ACTIVE" /\ t # cpu

\* The spinlock of the mutex is held in these places.
SpinSection == UnlockLabel \cup
               {"lock_test", "lock_queue", "lock_block", "lock_unlock",
                "lock_unlink", "lock_retest", "lock_done"}

\* A thread that holds it is the one executing, and preempt_count says so.
SpinOK ==
  /\ \A t \in Thread : pc[t] \in SpinSection => Running(t)
  /\ preempt_count = IF pc[cpu] \in SpinSection THEN 1 ELSE 0

\* One thread is switched in, current names it, and it was started; interrupts
\* are masked during a switch, and the thread being switched in is runnable.
SwitchOK ==
  /\ \A t \in Thread : context[t] = "live" => t = cpu
  /\ context[cpu] = "live" => current = cpu
  /\ context[cpu] # "live" => ~int_enabled /\ state[cpu] = "ACTIVE"
  /\ state[cpu] # "DEAD" /\ state[idle] = "ACTIVE"

\* Where a thread may be in its program when it is in each state.
StateOK ==
  \A t \in Thread :
    /\ pc[t] \in {"boot", "idle", "halt", "hlt"} <=> t = idle
    /\ state[t] # "FINISHED"
    /\ state[t] = "DEAD" <=> pc[t] = "new"
    /\ state[t] = "BLOCKED" =>
         pc[t] \in {"lock_unlock", "lock_schedule", "lock_relock"}
    /\ state[t] = "BLOCKED" /\ pc[t] = "lock_relock" => ~Running(t)

\* What every step relies on: values of the right kind, a wait list of entries
\* that exist, a ready queue without duplicates, and threads that are where
\* their state says.
WellFormed == /\ TypeOK /\ QueueOK /\ HandOver /\ ReadyOnce
              /\ SpinOK /\ SwitchOK /\ StateOK

\* Inductive: what the steps rely on, and what the mutex promises.
IInv == WellFormed /\ MutualExclusion /\ NoLostWakeup

\* The code hands the mutex over in the order of arrival: it implements a lock
\* with a FIFO line, in which the owner that has not unlinked itself yet no
\* longer waits.
Abstract == INSTANCE AbstractLock WITH line <- Line

ImplementsLock == Abstract!Spec

\* Every thread that wants the mutex gets it, whatever the timer does, as long
\* as holders release it.
NoStarvation ==
  \A t \in Thread : pc[t] \in {"lock_test", "lock_schedule"} ~> pc[t] = "inside"
=============================================================================
