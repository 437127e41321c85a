------------------------------- MODULE Threads -------------------------------
(***************************************************************************)
(* The life of a kernel thread: thread_create, thread_start, schedule,     *)
(* thread_exit, thread_join and thread_destroy (src/threads.c), under the  *)
(* preemptive scheduler of module Scheduler.  A thread's function is any   *)
(* program made of those calls, of sections under a spinlock and of code   *)
(* that touches nothing of the kernel's.                                   *)
(***************************************************************************)
EXTENDS Scheduler

CONSTANTS
  init,       \* the thread main() creates and starts
  ExitValue   \* what a thread function may return

ASSUME InitAssumption == init \in Thread \ {idle}
ASSUME ExitValueAssumption == 0 \in ExitValue

VARIABLES
  life,     \* thread object: "free" slab object, "created" or "started"
  parent,   \* who created the thread: it alone starts, joins, destroys it
  target,   \* the argument of a thread's thread_join
  result,   \* what the thread's function returned
  rax,      \* the argument thread_exit gets
  retval    \* thread->retval

threadVars == <<life, parent, target, result, rax, retval>>
vars == <<schedVars, pc, threadVars>>

Life == {"free", "created", "started"}
Label == {"boot", "idle", "halt", "hlt", "run", "held", "held_int", "join",
          "join_unlock", "join_schedule", "joined", "exit",
          "exit_schedule", "gone"}

Init ==
  /\ SchedInit(init)
  /\ pc = [t \in Thread |-> IF t = idle THEN "boot" ELSE "run"]
  /\ life = [t \in Thread |-> IF t \in {idle, init} THEN "started" ELSE "free"]
  /\ parent = [t \in Thread |-> idle]
  /\ target = [t \in Thread |-> idle]
  /\ result = [t \in Thread |-> 0]
  /\ rax = [t \in Thread |-> 0]
  /\ retval = [t \in Thread |-> 0]

At(t, label) == Running(t) /\ pc[t] = label

-----------------------------------------------------------------------------
(* What a thread function may do.                                          *)

Yield(t) == /\ At(t, "run")
            /\ CallSchedule(t, "run")
            /\ UNCHANGED threadVars

\* A section under spin_lock: preemption is off, interrupts are not.
LockSpin(t) == /\ At(t, "run")
               /\ SpinLock
               /\ Goto(t, "held")
               /\ UNCHANGED <<cpu, current, ready, state, context,
                              remained_time, wait, threadVars>>

UnlockSpin(t) == /\ At(t, "held")
                 /\ SpinUnlock
                 /\ Goto(t, "run")
                 /\ UNCHANGED <<cpu, current, ready, state, context,
                                remained_time, wait, threadVars>>

\* A section under spin_lock_int_save.
LockSpinInt(t) == /\ At(t, "run")
                  /\ SpinLockInt
                  /\ Goto(t, "held_int")
                  /\ UNCHANGED <<cpu, current, ready, state, context,
                                 remained_time, wait, threadVars>>

UnlockSpinInt(t) == /\ At(t, "held_int")
                    /\ SpinUnlockInt(TRUE)
                    /\ Goto(t, "run")
                    /\ UNCHANGED <<cpu, current, ready, state, context,
                                   remained_time, wait, threadVars>>

\* __thread_create: only the new object changes.  Its state field keeps what
\* the slab object held; the first context is one thread_entry will unmask.
\* The threads an earlier owner of the object left behind are nobody's.
Create(t, u) == /\ At(t, "run")
                /\ life[u] = "free"
                /\ life' = [life EXCEPT ![u] = "created"]
                /\ parent' = [v \in Thread |-> IF v = u THEN t ELSE
                                IF parent[v] = u THEN idle ELSE parent[v]]
                /\ context' = [context EXCEPT ![u] = "int_on"]
                /\ wait' = [wait EXCEPT ![u] = <<>>]
                /\ Goto(u, "run")
                /\ UNCHANGED <<cpu, current, ready, state, remained_time,
                               preempt_count, int_enabled, target, result,
                               rax, retval>>

Start(t, u) == /\ At(t, "run")
               /\ life[u] = "created"
               /\ parent[u] = t
               /\ ThreadStart(u)
               /\ life' = [life EXCEPT ![u] = "started"]
               /\ UNCHANGED <<cpu, current, context, remained_time,
                              preempt_count, int_enabled, wait, pc, parent,
                              target, result, rax, retval>>

-----------------------------------------------------------------------------
(* thread_join: condition_wait_spin_int on the cv of the target.           *)

Join(t, u) == /\ At(t, "run")
              /\ life[u] = "started"
              /\ parent[u] = t
              /\ u # idle
              /\ target' = [target EXCEPT ![t] = u]
              /\ Goto(t, "join")
              /\ UNCHANGED <<schedVars, life, parent, result, rax, retval>>

\* Mutant: thread_join does not look at the state of its target.
JoinBlind(t) == /\ At(t, "join")
                /\ Goto(t, "joined")
                /\ UNCHANGED <<schedVars, threadVars>>

\* The lock of the target is taken, its state is tested, the lock is dropped.
JoinDead(t) == /\ At(t, "join")
               /\ state[target[t]] = "DEAD"
               /\ Goto(t, "joined")
               /\ UNCHANGED <<schedVars, threadVars>>

\* Otherwise, still masked, __wait queues the thread, blocks it and drops the
\* target's lock, which unmasks interrupts; the lock of the cv is still held.
JoinWait(t) == /\ At(t, "join")
               /\ state[target[t]] # "DEAD"
               /\ wait' = [wait EXCEPT ![target[t]] = Append(@, current)]
               /\ ThreadBlock
               /\ preempt_count' = preempt_count + 1
               /\ int_enabled' = TRUE
               /\ Goto(t, "join_unlock")
               /\ UNCHANGED <<cpu, current, ready, context, remained_time,
                              threadVars>>

JoinUnlock(t) == /\ At(t, "join_unlock")
                 /\ SpinUnlock
                 /\ Goto(t, "join_schedule")
                 /\ UNCHANGED <<cpu, current, ready, state, context,
                                remained_time, wait, threadVars>>

JoinSchedule(t) == /\ At(t, "join_schedule")
                   /\ CallSchedule(t, "join")
                   /\ UNCHANGED threadVars

\* thread_destroy: the stack, the address space and the object are freed.
Destroy(t) == /\ At(t, "joined")
              /\ life' = [life EXCEPT ![target[t]] = "free"]
              /\ Goto(t, "run")
              /\ UNCHANGED <<schedVars, parent, target, result, rax, retval>>

-----------------------------------------------------------------------------
(* The end of a thread.                                                    *)

\* The function returns r to thread_entry, which returns to __thread_entry.
\* jump_back then loads every register from the zeroed struct frame: rax is
\* lost and rflags = 0 masks interrupts.
Return(t, r) == /\ At(t, "run")
                /\ result' = [result EXCEPT ![t] = r]
                /\ rax' = [rax EXCEPT ![t] = 0]
                /\ int_enabled' = FALSE
                /\ Goto(t, "exit")
                /\ UNCHANGED <<cpu, current, ready, state, context,
                               remained_time, preempt_count, wait, life,
                               parent, target, retval>>

\* Or the function calls thread_exit(r) itself.
CallExit(t, r) == /\ At(t, "run")
                  /\ result' = [result EXCEPT ![t] = r]
                  /\ rax' = [rax EXCEPT ![t] = r]
                  /\ Goto(t, "exit")
                  /\ UNCHANGED <<schedVars, life, parent, target, retval>>

ThreadExit(t) == /\ At(t, "exit")
                 /\ retval' = [retval EXCEPT ![t] = rax[t]]
                 /\ state' = [state EXCEPT ![current] = "FINISHED"]
                 /\ Goto(t, "exit_schedule")
                 /\ UNCHANGED <<cpu, current, ready, context, remained_time,
                                preempt_count, int_enabled, wait, life,
                                parent, target, result, rax>>

ExitSchedule(t) == /\ At(t, "exit_schedule")
                   /\ CallSchedule(t, "gone")
                   /\ UNCHANGED threadVars

-----------------------------------------------------------------------------
\* What a thread cannot put off once it has begun it.
KernelStep(t) == \/ UnlockSpin(t) \/ UnlockSpinInt(t)
                 \/ JoinDead(t) \/ JoinWait(t) \/ JoinUnlock(t)
                 \/ JoinSchedule(t) \/ Destroy(t)
                 \/ ThreadExit(t) \/ ExitSchedule(t)

\* What its function chooses to do, or never does.
BodyStep(t) == \/ Yield(t) \/ LockSpin(t) \/ LockSpinInt(t)
               \/ \E u \in Thread : Create(t, u) \/ Start(t, u) \/ Join(t, u)
               \/ \E r \in ExitValue : Return(t, r) \/ CallExit(t, r)

SchedStep == \/ Idle /\ UNCHANGED threadVars
             \/ \E t \in Thread : Resume(t) /\ UNCHANGED threadVars

TimerTick == Tick /\ UNCHANGED threadVars

Next == \/ TimerTick
        \/ SchedStep
        \/ \E t \in Thread : KernelStep(t) \/ BodyStep(t)

(***************************************************************************)
(* The CPU goes on executing: a switch under way is completed, and a       *)
(* thread that is given the CPU again and again gets its kernel calls done *)
(* (a tick period is many instructions).  The periodic timer goes off for  *)
(* ever: an interrupt that comes while IF is clear stays pending, and the  *)
(* sections under a spinlock are short against the period, so ticks keep   *)
(* arriving outside them.  Nothing is assumed of thread functions.         *)
(***************************************************************************)
Fairness == /\ WF_vars(SchedStep)
            /\ \A t \in Thread : SF_vars(KernelStep(t))
            /\ SF_vars(preempt_count = 0 /\ TimerTick)

Spec == Init /\ [][Next]_vars
FairSpec == Spec /\ Fairness

-----------------------------------------------------------------------------
TypeOK ==
  /\ cpu \in Thread
  /\ current \in Thread
  /\ ready \in Seq(Thread)
  /\ state \in [Thread -> ThreadState]
  /\ context \in [Thread -> {"live", "int_on", "int_off"}]
  /\ remained_time \in 0..TIMESLICE
  /\ preempt_count \in Nat
  /\ int_enabled \in BOOLEAN
  /\ wait \in [Cond -> Seq(Thread)]
  /\ pc \in [Thread -> Label]
  /\ life \in [Thread -> Life]
  /\ parent \in [Thread -> Thread]
  /\ target \in [Thread -> Thread]
  /\ result \in [Thread -> ExitValue]
  /\ rax \in [Thread -> ExitValue]
  /\ retval \in [Thread -> ExitValue]

LockSection == {"held", "held_int", "join_unlock"}

\* The comment of spin_lock (src/lock.c:12): a thread that holds a spinlock is
\* the one executing, no other gets the CPU until it unlocks.  So no two
\* threads are ever inside sections under a spinlock.
SpinExclusion ==
  \A t \in Thread : pc[t] \in LockSection => Running(t)

\* preempt_count is the number of spinlocks the executing thread holds, and 0
\* across a switch: a thread never inherits another's.
PreemptCountIsLocks ==
  preempt_count = IF \E t \in Thread : Running(t) /\ pc[t] \in LockSection
                  THEN 1 ELSE 0

\* schedule, thread_block and thread_exit act on `current': whenever a thread
\* executes, current is that thread, and it is neither dead nor freed.
CurrentRuns ==
  /\ context[cpu] = "live" => current = cpu
  /\ state[cpu] # "DEAD" /\ state[current] # "DEAD"
  /\ life[cpu] = "started"

IsQueued(t) == t \in ToSet(ready)

\* The ready queue never holds a thread twice, the thread that has the CPU,
\* idle, or one that is not runnable: list_add_tail of a linked node would
\* corrupt the list, and switching to oneself would load a stale context.
ReadyQueueOK ==
  /\ IsInjective(ready)
  /\ \A t \in ToSet(ready) : /\ state[t] = "ACTIVE"
                             /\ t \notin {cpu, idle}
                             /\ life[t] = "started"

\* A runnable thread is never forgotten: it has the CPU or is in the queue.
NoLostThread ==
  \A t \in Thread \ {idle} :
    state[t] = "ACTIVE" /\ life[t] = "started" => t = cpu \/ IsQueued(t)

\* A joiner sleeps only while the thread it waits for has still to wake it:
\* no wake-up is lost between the test of state and the switch.
NoLostJoin ==
  \A t \in Thread :
    state[t] = "BLOCKED" => /\ t \in ToSet(wait[target[t]])
                            /\ state[target[t]] # "DEAD"

\* Where a thread is in thread_join.
JoinLabel == {"join", "join_unlock", "join_schedule", "joined"}

\* thread_destroy frees nothing in use: no queue holds a freed thread or a
\* wait entry on its cv, and no thread in thread_join has it as its target.
DestroyedIsUnused ==
  \A u \in Thread :
    life[u] = "free" =>
      /\ u \notin ToSet(ready) \cup {cpu, current}
      /\ wait[u] = <<>>
      /\ \A c \in Cond : u \notin ToSet(wait[c])
      /\ \A t \in Thread : pc[t] \in JoinLabel => target[t] # u

\* A thread is declared DEAD, so that it may be freed, only after the CPU has
\* left its stack (thread_place, src/threads.c:54).
DeadOffStack ==
  [][\A t \in Thread : state[t] = "FINISHED" /\ state'[t] = "DEAD" =>
       cpu # t /\ cpu' # t]_vars

\* Join hands over the value the thread's function returned.
JoinReturnsExitValue ==
  \A t \in Thread : pc[t] = "joined" => retval[target[t]] = result[target[t]]

\* A queued thread gets the CPU, whatever the other threads do.
ReadyRuns == \A t \in Thread : IsQueued(t) ~> cpu = t

\* thread_join returns once its target has finished.
JoinReturns ==
  \A t \in Thread :
    /\ pc[t] \in {"join", "join_unlock", "join_schedule"}
    /\ state[target[t]] \in {"FINISHED", "DEAD"}
    ~> pc[t] = "joined"
-----------------------------------------------------------------------------
(* The parts that make the invariants above inductive.                      *)

\* Every thread but the one on the CPU is switched off.  Interrupts are masked
\* during a switch, and the thread being switched in is runnable.
SwitchOK ==
  /\ \A t \in Thread : context[t] = "live" => t = cpu
  /\ context[cpu] # "live" => ~int_enabled /\ state[cpu] = "ACTIVE"

\* idle runs its loop and nothing else, and is never blocked.
IdleOK == /\ state[idle] = "ACTIVE"
          /\ life[idle] = "started"
          /\ \A t \in Thread :
               pc[t] \in {"boot", "idle", "halt", "hlt"} <=> t = idle

\* A thread object outside its life is DEAD.
LifeOK == \A t \in Thread : life[t] # "started" => state[t] = "DEAD"

\* Where a thread may be in its program when it is in each state.
StateOK ==
  \A t \in Thread :
    /\ state[t] = "BLOCKED" =>
         pc[t] \in {"join_unlock", "join_schedule", "join"}
    /\ state[t] = "BLOCKED" /\ pc[t] = "join" => ~Running(t)
    /\ state[t] = "FINISHED" => pc[t] \in {"exit_schedule", "gone"}
    /\ state[t] = "FINISHED" => t = current
    /\ state[t] = "DEAD" => pc[t] \in {"run", "exit_schedule", "gone"}
    /\ pc[t] \in {"join_unlock", "join_schedule"} /\ Running(t) =>
         state[t] # "DEAD"

\* A thread in thread_join waits for a thread of its own.
JoinOK ==
  \A t \in Thread :
    pc[t] \in JoinLabel =>
      /\ parent[target[t]] = t
      /\ life[target[t]] = "started"
      /\ target[t] # idle
      /\ pc[t] = "joined" => state[target[t]] = "DEAD"

\* Only the thread that joins c waits on the cv of c, and it is blocked.
WaitOK ==
  \A c \in Cond :
    /\ IsInjective(wait[c])
    /\ \A w \in ToSet(wait[c]) : /\ state[w] = "BLOCKED"
                                 /\ target[w] = c

IInv == /\ TypeOK /\ SpinExclusion /\ PreemptCountIsLocks /\ CurrentRuns
        /\ ReadyQueueOK /\ NoLostThread /\ NoLostJoin
        /\ SwitchOK /\ IdleOK /\ LifeOK /\ StateOK /\ JoinOK /\ WaitOK
=============================================================================
