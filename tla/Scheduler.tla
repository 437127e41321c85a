------------------------------ MODULE Scheduler ------------------------------
(***************************************************************************)
(* The single-CPU round-robin scheduler of week5/syscall (src/threads.c,   *)
(* src/lock.c, notify_one of src/condition.c).  The module holds the state *)
(* every kernel thread shares and the operations the other modules build   *)
(* threads from; it has no threads' programs of its own, hence no Init or  *)
(* Next.                                                                   *)
(*                                                                         *)
(* Atomicity is derived, not assumed.  One action is one stretch of code   *)
(* that runs with interrupts masked, or one statement on shared state when *)
(* they are not; between any two actions the timer may fire, and it is     *)
(* preempt_count and int_enabled that decide what the interrupt may do.    *)
(***************************************************************************)
EXTENDS Naturals, Sequences, SequencesExt

CONSTANTS
  Thread,     \* struct thread objects, the static main thread included
  Cond,       \* struct condition objects; the cv of thread t is t itself
  idle,       \* the thread main() runs on, which scheduler_setup makes idle
  TIMESLICE   \* timer ticks a thread may run before it is preempted

ASSUME IdleAssumption == idle \in Thread
ASSUME CondAssumption == Thread \subseteq Cond
ASSUME TimesliceAssumption == TIMESLICE \in Nat \ {0}

VARIABLES
  cpu,            \* the thread whose stack and registers the CPU is using
  current,        \* the kernel's variable of that name
  ready,          \* the ready queue, a sequence of threads
  state,          \* thread->state
  context,        \* thread->context: "live" when the thread is not switched
                  \* off, else the IF its schedule() call will restore
  remained_time,  \* ticks left of the current time slice
  preempt_count,  \* spinlocks held, as the kernel counts them
  int_enabled,    \* RFLAGS.IF
  wait,           \* cv->wait of every condition, a sequence of threads
  pc              \* where each thread is in its program

schedVars == <<cpu, current, ready, state, context, remained_time,
               preempt_count, int_enabled, wait>>

ThreadState == {"ACTIVE", "BLOCKED", "FINISHED", "DEAD"}

SavedFlag(enabled) == IF enabled THEN "int_on" ELSE "int_off"

\* t executes its own code: it is on the CPU and no switch is under way.
Running(t) == cpu = t /\ context[t] = "live"

Goto(t, label) == pc' = [pc EXCEPT ![t] = label]

(***************************************************************************)
(* lock.c.  The lock itself stores nothing: holding it is having           *)
(* incremented preempt_count.                                              *)
(***************************************************************************)
SpinLock == /\ preempt_count' = preempt_count + 1
            /\ UNCHANGED int_enabled

SpinUnlock == /\ preempt_count' = preempt_count - 1
              /\ UNCHANGED int_enabled

SpinLockInt == /\ preempt_count' = preempt_count + 1
               /\ int_enabled' = FALSE

SpinUnlockInt(enabled) == /\ preempt_count' = preempt_count - 1
                          /\ int_enabled' = (enabled \/ int_enabled)

(***************************************************************************)
(* thread_start, thread_wake and thread_block mask interrupts from their   *)
(* first statement to their last, so each is one step.                     *)
(***************************************************************************)
ThreadStart(t) == /\ state' = [state EXCEPT ![t] = "ACTIVE"]
                  /\ ready' = Append(ready, t)

ThreadBlock == state' = [state EXCEPT ![current] = "BLOCKED"]

\* notify_one, with the thread states st it finds.  The waiter is woken
\* whatever state it is in.
NotifyOne(cv, st) ==
  \/ /\ wait[cv] = <<>>
     /\ state' = st
     /\ UNCHANGED <<wait, ready>>
  \/ /\ wait[cv] # <<>>
     /\ wait' = [wait EXCEPT ![cv] = Tail(@)]
     /\ state' = [st EXCEPT ![Head(wait[cv])] = "ACTIVE"]
     /\ ready' = Append(ready, Head(wait[cv]))

\* Mutant: the finished thread is marked DEAD but nobody is notified.
ThreadPlaceSilent(me) ==
  /\ state' = IF state[current] = "FINISHED"
              THEN [state EXCEPT ![current] = "DEAD"] ELSE state
  /\ current' = me
  /\ remained_time' = TIMESLICE
  /\ UNCHANGED <<wait, ready>>

(***************************************************************************)
(* The bookkeeping of the thread that got the CPU.  current is still the   *)
(* thread that gave it up, and if that one has finished only now is it     *)
(* marked DEAD: nothing uses its stack any more.                           *)
(***************************************************************************)
ThreadPlace(me) ==
  /\ \/ /\ state[current] = "FINISHED"
        /\ NotifyOne(current, [state EXCEPT ![current] = "DEAD"])
     \/ /\ state[current] # "FINISHED"
        /\ UNCHANGED <<state, wait, ready>>
  /\ current' = me
  /\ remained_time' = TIMESLICE

\* The thread that switch_threads resumed, or thread_entry on a thread's
\* first run: still masked, it runs thread_place and restores IF.
Resume(t) ==
  /\ cpu = t
  /\ context[t] # "live"
  /\ ThreadPlace(t)
  /\ context' = [context EXCEPT ![t] = "live"]
  /\ int_enabled' = (context[t] = "int_on")
  /\ UNCHANGED <<cpu, preempt_count, pc>>

\* Mutant: the finished thread is marked DEAD before the CPU leaves it.
SwitchThreadsReaping(me, next) ==
  /\ context' = [context EXCEPT ![me] = SavedFlag(int_enabled)]
  /\ cpu' = next
  /\ int_enabled' = FALSE
  /\ state' = IF state[me] = "FINISHED" THEN [state EXCEPT ![me] = "DEAD"]
                                        ELSE state
  /\ UNCHANGED <<current, wait, preempt_count>>

\* Mutant: the switch is made with interrupts as the caller had them.
SwitchThreadsUnmasked(me, next) ==
  /\ context' = [context EXCEPT ![me] = SavedFlag(int_enabled)]
  /\ cpu' = next
  /\ UNCHANGED <<current, state, wait, preempt_count, int_enabled>>

\* switch_threads: save me, load next.  IF stays masked until next resumes.
SwitchThreads(me, next) ==
  /\ context' = [context EXCEPT ![me] = SavedFlag(int_enabled)]
  /\ cpu' = next
  /\ int_enabled' = FALSE
  /\ UNCHANGED <<current, state, wait, preempt_count>>

\* Mutants: idle is queued like any other thread; a preempted thread is not.
RequeueIdle(me, queue) ==
  IF state[me] = "ACTIVE" THEN Append(queue, me) ELSE queue

RequeueNobody(me, queue) == queue

Requeue(me, queue) ==
  IF state[me] = "ACTIVE" /\ me # idle THEN Append(queue, me) ELSE queue

\* Mutant: schedule() without its test of preempt_count.
ScheduleUnchecked(left) ==
  \/ /\ ready # <<>>
     /\ ready' = Requeue(current, Tail(ready))
     /\ remained_time' = left
     /\ SwitchThreads(current, Head(ready))
  \/ /\ ready = <<>>
     /\ state[current] # "ACTIVE"
     /\ ready' = ready
     /\ remained_time' = left
     /\ SwitchThreads(current, idle)
  \/ /\ ready = <<>>
     /\ state[current] = "ACTIVE"
     /\ ThreadPlace(current)
     /\ UNCHANGED <<cpu, context, preempt_count, int_enabled>>

(***************************************************************************)
(* schedule(), called with `left' ticks remaining.  The interrupt mask     *)
(* makes everything from the preempt_count test to the switch one step.    *)
(***************************************************************************)
Schedule(left) ==
  \/ /\ preempt_count # 0
     /\ remained_time' = left
     /\ UNCHANGED <<cpu, current, ready, state, context, preempt_count,
                    int_enabled, wait>>
  \/ /\ preempt_count = 0
     /\ ready # <<>>
     /\ ready' = Requeue(current, Tail(ready))
     /\ remained_time' = left
     /\ SwitchThreads(current, Head(ready))
  \/ /\ preempt_count = 0
     /\ ready = <<>>
     /\ state[current] # "ACTIVE"
     /\ ready' = ready
     /\ remained_time' = left
     /\ SwitchThreads(current, idle)
  \/ /\ preempt_count = 0
     /\ ready = <<>>
     /\ state[current] = "ACTIVE"
     /\ ThreadPlace(current)
     /\ UNCHANGED <<cpu, context, preempt_count, int_enabled>>

\* Thread t calls schedule() and will continue at ret when it returns.
CallSchedule(t, ret) == Schedule(remained_time) /\ Goto(t, ret)

\* Mutant: the slice never ends.
TickCooperative ==
  /\ int_enabled
  /\ pc' = [pc EXCEPT ![cpu] = IF @ = "hlt" THEN "idle" ELSE @]
  /\ remained_time' = IF remained_time > 0 THEN remained_time - 1 ELSE 0
  /\ UNCHANGED <<cpu, current, ready, state, context, preempt_count,
                 int_enabled, wait>>

(***************************************************************************)
(* scheduler_tick: the periodic timer interrupt, taken between any two     *)
(* steps of a thread when IF is set.  It also ends a hlt.                  *)
(***************************************************************************)
Tick ==
  /\ int_enabled
  /\ pc' = [pc EXCEPT ![cpu] = IF @ = "hlt" THEN "idle" ELSE @]
  /\ \/ /\ remained_time > 1
        /\ remained_time' = remained_time - 1
        /\ UNCHANGED <<cpu, current, ready, state, context, preempt_count,
                       int_enabled, wait>>
     \/ /\ remained_time <= 1
        /\ Schedule(0)

\* scheduler_idle: enable interrupts, then schedule and halt for ever.
IdleStart == /\ Running(idle) /\ pc[idle] = "boot"
             /\ Goto(idle, "idle")
             /\ int_enabled' = TRUE
             /\ UNCHANGED <<cpu, current, ready, state, context,
                            remained_time, preempt_count, wait>>

IdleSchedule == /\ Running(idle) /\ pc[idle] = "idle"
                /\ CallSchedule(idle, "halt")

IdleHalt == /\ Running(idle) /\ pc[idle] = "halt"
            /\ Goto(idle, "hlt")
            /\ UNCHANGED schedVars

Idle == IdleStart \/ IdleSchedule \/ IdleHalt

\* scheduler_setup, and main() up to scheduler_idle with `first' started.
SchedInit(first) ==
  /\ cpu = idle
  /\ current = idle
  /\ ready = <<first>>
  /\ state = [t \in Thread |-> IF t \in {idle, first} THEN "ACTIVE"
                                                      ELSE "DEAD"]
  /\ context = [t \in Thread |-> IF t = idle THEN "live" ELSE "int_on"]
  /\ remained_time = 0
  /\ preempt_count = 0
  /\ int_enabled = FALSE
  /\ wait = [c \in Cond |-> <<>>]
=============================================================================
