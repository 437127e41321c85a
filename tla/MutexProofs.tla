------------------------------ MODULE MutexProofs ------------------------------
(***************************************************************************)
(* Safety of the kernel's mutex under its demonstration program, for any   *)
(* number of threads and any time slice: IInv of module MutexDemo is       *)
(* inductive, and mutex.c implements a lock handed over in the order of    *)
(* arrival.                                                                *)
(***************************************************************************)
EXTENDS MutexDemo, SeqLemmas

\* Where schedule() returns to, for each place it is called from.
MayReturn(from, to) ==
  \/ from = to
  \/ from = "hlt" /\ to = "idle"
  \/ from = "idle" /\ to = "halt"
  \/ from = "lock_schedule" /\ to = "lock_relock"

\* Where a thread's entry is linked.
Linked == {"lock_block", "lock_unlock", "lock_schedule", "lock_relock",
           "lock_unlink"}

\* The state main() leaves to scheduler_idle satisfies the invariant.
LEMMA InitIInv == ASSUME Assumption, Init PROVE IInv
<1> USE IdleAssumption, CondAssumption, TimesliceAssumption
    DEF Assumption, Init, SchedInit, MutexSetup
<1>1. ready = <<init>> /\ ready \in Seq(Thread) /\ ToSet(ready) = {init}
      /\ IsInjective(ready)
  BY DEF ToSet, IsInjective
<1>2. TypeOK
  <2>1. wait \in [Cond -> Seq(Thread)] /\ queue \in Seq(Thread)
    BY EmptyQueue
  <2>2. remained_time \in 0..TIMESLICE /\ preempt_count \in 0..1
    OBVIOUS
  <2>3. state \in [Thread -> ThreadState] /\ pc \in [Thread -> Label]
    BY DEF ThreadState, Label
  <2>4. context \in [Thread -> {"live", "int_on", "int_off"}]
    OBVIOUS
  <2> QED BY <1>1, <2>1, <2>2, <2>3, <2>4 DEF TypeOK
<1>3. QueueOK /\ HandOver
  BY EmptyQueue DEF QueueOK, HandOver
<1>4. ReadyOnce /\ SwitchOK /\ StateOK
  BY <1>1 DEF ReadyOnce, SwitchOK, StateOK
<1>5. SpinOK
  BY DEF SpinOK, SpinSection, UnlockLabel
<1>6. MutualExclusion /\ NoLostWakeup
  BY DEF MutualExclusion, Holds, NoLostWakeup
<1> QED BY <1>2, <1>3, <1>4, <1>5, <1>6 DEF IInv, WellFormed

\* switch_threads to a runnable thread that is taken from the queue, or idle.
LEMMA SwitchStep ==
  ASSUME IInv, context[cpu] = "live", preempt_count = 0,
         NEW next \in Thread, next # cpu, state[next] = "ACTIVE",
         SwitchThreads(cpu, next),
         remained_time' \in 0..TIMESLICE,
         ready' \in Seq(Thread), IsInjective(ready'),
         ToSet(ready') = (ToSet(ready) \ {next}) \cup
              (IF state[cpu] = "ACTIVE" /\ cpu # idle THEN {cpu} ELSE {}),
         NEW label \in Label, pc' = [pc EXCEPT ![cpu] = label],
         MayReturn(pc[cpu], label),
         UNCHANGED mutexVars
  PROVE  IInv'
<1> USE IdleAssumption
<1>1. /\ TypeOK /\ QueueOK /\ HandOver /\ ReadyOnce /\ SpinOK /\ SwitchOK
      /\ StateOK /\ MutualExclusion /\ NoLostWakeup
  BY DEF IInv, WellFormed
<1>2. /\ UNCHANGED <<current, state, wait, preempt_count, owner, queue>>
      /\ cpu' = next /\ ~int_enabled' /\ int_enabled' \in BOOLEAN
      /\ context' = [context EXCEPT ![cpu] = SavedFlag(int_enabled)]
  BY DEF mutexVars, SwitchThreads
<1>3. TypeOK'
  BY <1>1, <1>2 DEF TypeOK, SavedFlag
<1>4. /\ \A t \in Thread : ~Running(t)' /\ context'[t] # "live"
      /\ \A t \in Thread : pc[t] \notin SpinSection /\ pc'[t] \notin SpinSection
      /\ \A t \in Thread : t # cpu => pc'[t] = pc[t]
      /\ pc'[cpu] = label /\ cpu \in Thread
  <2>1. \A t \in Thread : context'[t] # "live"
    BY <1>1, <1>2 DEF TypeOK, SavedFlag, SwitchOK
  <2>2. pc[cpu] \notin SpinSection /\ label \notin SpinSection
    BY <1>1 DEF SpinOK, SpinSection, UnlockLabel, MayReturn
  <2> QED BY <1>1, <2>1, <2>2 DEF TypeOK, Running, SpinOK
<1>5. SpinOK'
  BY <1>1, <1>2, <1>4 DEF SpinOK
<1>6. (SwitchOK /\ ReadyOnce)'
  BY <1>1, <1>2, <1>4 DEF SwitchOK, ReadyOnce
<1>7. (StateOK /\ QueueOK)'
  BY <1>1, <1>2, <1>4 DEF StateOK, QueueOK, MayReturn
<1>8. (HandOver /\ MutualExclusion)'
  <2>1. ToSet(queue) \subseteq Thread
    BY <1>1, QueueElements DEF TypeOK
  <2> QED
    BY <1>1, <1>2, <1>4, <2>1 DEF HandOver, MutualExclusion, Holds, MayReturn
<1>9. NoLostWakeup'
  BY <1>1, <1>2, <1>4 DEF NoLostWakeup, MayReturn
<1> QED
  BY <1>3, <1>5, <1>6, <1>7, <1>8, <1>9 DEF IInv, WellFormed

\* Whoever calls schedule(), from whichever place, the invariant survives.
LEMMA ScheduleStep ==
  ASSUME IInv, context[cpu] = "live",
         NEW left \in 0..TIMESLICE, Schedule(left),
         NEW label \in Label, pc' = [pc EXCEPT ![cpu] = label],
         MayReturn(pc[cpu], label),
         UNCHANGED mutexVars
  PROVE  IInv'
<1> USE IdleAssumption, TimesliceAssumption
<1>0. /\ TypeOK /\ QueueOK /\ HandOver /\ ReadyOnce /\ SpinOK /\ SwitchOK
      /\ StateOK /\ MutualExclusion /\ NoLostWakeup /\ current = cpu
      /\ UNCHANGED <<owner, queue>>
  BY DEF IInv, WellFormed, SwitchOK, mutexVars
<1>a. cpu \in Thread /\ Running(cpu)
  BY <1>0 DEF TypeOK, Running
<1>1. CASE preempt_count # 0
  <2>1. /\ pc[cpu] \in SpinSection /\ pc' = pc
        /\ remained_time' = left
        /\ UNCHANGED <<cpu, current, ready, state, context, preempt_count,
                       int_enabled, wait>>
    BY <1>0, <1>1
    DEF SpinOK, SpinSection, UnlockLabel, MayReturn, Schedule, TypeOK
  <2> QED
    BY <2>1, <1>0
    DEF IInv, WellFormed, TypeOK, QueueOK, HandOver, ReadyOnce, SpinOK,
        SwitchOK, StateOK, MutualExclusion, Holds, NoLostWakeup, Running
<1>2. CASE preempt_count = 0 /\ ready # <<>>
  <2>1. /\ ready' = Requeue(cpu, Tail(ready)) /\ remained_time' = left
        /\ SwitchThreads(cpu, Head(ready))
    BY <1>0, <1>2 DEF Schedule
  <2>2. /\ ready \in Seq(Thread)
        /\ Head(ready) \in Thread /\ Tail(ready) \in Seq(Thread)
        /\ Head(ready) \in ToSet(ready)
        /\ ToSet(ready) = ToSet(Tail(ready)) \cup {Head(ready)}
        /\ IsInjective(Tail(ready)) /\ Head(ready) \notin ToSet(Tail(ready))
    BY <1>0, <1>2, TailQueue DEF TypeOK, ReadyOnce
  <2>3. /\ Head(ready) # cpu /\ cpu \notin ToSet(Tail(ready))
        /\ state[Head(ready)] = "ACTIVE"
    BY <1>0, <2>2 DEF ReadyOnce
  <2>4. /\ ready' \in Seq(Thread) /\ IsInjective(ready')
        /\ ToSet(ready') = (ToSet(ready) \ {Head(ready)}) \cup
              (IF state[cpu] = "ACTIVE" /\ cpu # idle THEN {cpu} ELSE {})
    <3>1. CASE state[cpu] = "ACTIVE" /\ cpu # idle
      <4> DEFINE tail == Tail(ready)
      <4>1. ready' = Append(tail, cpu)
        BY <2>1, <3>1 DEF Requeue
      <4>2. /\ tail \in Seq(Thread) /\ IsInjective(tail)
            /\ cpu \notin ToSet(tail)
            /\ ToSet(ready) \ {Head(ready)} = ToSet(tail)
        BY <2>2, <2>3
      <4> HIDE DEF tail
      <4>3. /\ Append(tail, cpu) \in Seq(Thread)
            /\ ToSet(Append(tail, cpu)) = ToSet(tail) \cup {cpu}
            /\ IsInjective(Append(tail, cpu))
        BY <1>a, <4>2, AppendQueue
      <4> QED BY <3>1, <4>1, <4>2, <4>3
    <3>2. CASE ~(state[cpu] = "ACTIVE" /\ cpu # idle)
      <4>1. ready' = Tail(ready)
        BY <2>1, <3>2 DEF Requeue
      <4> QED BY <2>2, <3>2, <4>1
    <3> QED BY <3>1, <3>2
  <2> QED BY <2>1, <2>2, <2>3, <2>4, <1>2, SwitchStep
<1>3. CASE preempt_count = 0 /\ ready = <<>> /\ state[cpu] # "ACTIVE"
  <2>1. /\ ready' = ready /\ remained_time' = left /\ SwitchThreads(cpu, idle)
    BY <1>0, <1>3 DEF Schedule
  <2>2. /\ ready' \in Seq(Thread) /\ ToSet(ready) = {} /\ IsInjective(ready')
    BY <1>3, <2>1, EmptyQueue
  <2>3. idle # cpu /\ state[idle] = "ACTIVE"
    BY <1>0, <1>3 DEF SwitchOK
  <2>4. ToSet(ready') = (ToSet(ready) \ {idle}) \cup
              (IF state[cpu] = "ACTIVE" /\ cpu # idle THEN {cpu} ELSE {})
    BY <1>3, <2>1, <2>2
  <2> QED BY <2>1, <2>2, <2>3, <2>4, <1>3, SwitchStep
<1>4. CASE preempt_count = 0 /\ ready = <<>> /\ state[cpu] = "ACTIVE"
  <2>1. /\ remained_time' = TIMESLICE
        /\ UNCHANGED <<cpu, current, ready, state, context, preempt_count,
                       int_enabled, wait>>
    BY <1>0, <1>4 DEF Schedule, ThreadPlace
  <2>2. /\ \A t \in Thread : Running(t)' <=> Running(t)
        /\ pc[cpu] \notin SpinSection
        /\ \A t \in Thread : t # cpu => pc'[t] = pc[t]
        /\ pc'[cpu] = label
    BY <1>0, <1>4, <2>1 DEF SpinOK, TypeOK, Running
  <2>3. TypeOK'
    BY <1>0, <2>1 DEF TypeOK
  <2>4. (SpinOK /\ SwitchOK /\ ReadyOnce)'
    BY <1>0, <1>a, <2>1, <2>2
    DEF SpinOK, SpinSection, UnlockLabel, SwitchOK, ReadyOnce, MayReturn
  <2>5. (StateOK /\ QueueOK)'
    BY <1>0, <1>4, <2>1, <2>2 DEF StateOK, QueueOK, MayReturn
  <2>6. (HandOver /\ MutualExclusion)'
    <3>1. ToSet(queue) \subseteq Thread
      BY <1>0, QueueElements DEF TypeOK
    <3> QED
      BY <1>0, <2>1, <2>2, <3>1 DEF HandOver, MutualExclusion, Holds, MayReturn
  <2>7. NoLostWakeup'
    BY <1>0, <2>1, <2>2 DEF NoLostWakeup, MayReturn
  <2> QED BY <2>3, <2>4, <2>5, <2>6, <2>7 DEF IInv, WellFormed
<1> QED BY <1>1, <1>2, <1>3, <1>4, <1>0 DEF TypeOK

\* The thread that gets the CPU finds no finished predecessor: the threads of
\* this program do not end.
LEMMA ResumeStep ==
  ASSUME IInv, NEW t \in Thread, Resume(t), UNCHANGED mutexVars
  PROVE  IInv'
<1>1. /\ TypeOK /\ QueueOK /\ HandOver /\ ReadyOnce /\ SpinOK /\ SwitchOK
      /\ StateOK /\ MutualExclusion /\ NoLostWakeup
      /\ cpu = t /\ context[t] # "live" /\ state[t] = "ACTIVE"
  BY DEF IInv, WellFormed, SwitchOK, Resume
<1>2. state[current] # "FINISHED"
  BY <1>1 DEF TypeOK, StateOK
<1>3. /\ UNCHANGED <<cpu, ready, state, preempt_count, wait, pc, owner, queue>>
      /\ current' = t /\ remained_time' = TIMESLICE
      /\ context' = [context EXCEPT ![t] = "live"]
      /\ int_enabled' \in BOOLEAN
  BY <1>2 DEF Resume, ThreadPlace, mutexVars
<1>4. /\ \A u \in Thread : ~Running(u) /\ pc[u] \notin SpinSection
      /\ \A u \in Thread : Running(u)' => u = t
  BY <1>1, <1>3 DEF Running, SpinOK
<1>5. TypeOK'
  BY <1>1, <1>3, TimesliceAssumption DEF TypeOK
<1>6. (SpinOK /\ ReadyOnce /\ QueueOK /\ HandOver)'
  BY <1>1, <1>3, <1>4 DEF SpinOK, ReadyOnce, QueueOK, HandOver
<1>7. (SwitchOK /\ StateOK)'
  BY <1>1, <1>3, <1>4 DEF SwitchOK, StateOK, TypeOK
<1>8. (MutualExclusion /\ NoLostWakeup)'
  BY <1>1, <1>3 DEF MutualExclusion, Holds, NoLostWakeup
<1> QED BY <1>5, <1>6, <1>7, <1>8 DEF IInv, WellFormed

\* What the running thread is, at the label it executes.
LEMMA RunningThread ==
  ASSUME IInv, NEW t \in Thread, Running(t)
  PROVE  /\ cpu = t /\ current = t /\ context[t] = "live"
         /\ preempt_count = IF pc[t] \in SpinSection THEN 1 ELSE 0
         /\ state[t] \in {"ACTIVE", "BLOCKED"}
         /\ state[t] = "BLOCKED" => pc[t] \in {"lock_unlock", "lock_schedule"}
         /\ \A u \in Thread : Running(u) <=> u = t
         /\ \A u \in Thread \ {t} : pc[u] \notin SpinSection
         /\ t \notin ToSet(ready)
<1>1. cpu = t /\ current = t /\ context[t] = "live"
  BY DEF Running, IInv, WellFormed, SwitchOK
<1>2. /\ preempt_count = IF pc[t] \in SpinSection THEN 1 ELSE 0
      /\ \A u \in Thread : Running(u) <=> u = t
      /\ \A u \in Thread \ {t} : pc[u] \notin SpinSection
  BY <1>1 DEF Running, IInv, WellFormed, SpinOK
<1>3. /\ state[t] \in {"ACTIVE", "BLOCKED"}
      /\ state[t] = "BLOCKED" => pc[t] \in {"lock_unlock", "lock_schedule"}
      /\ t \notin ToSet(ready)
  BY <1>1
  DEF IInv, WellFormed, SwitchOK, StateOK, ReadyOnce, TypeOK, ThreadState
<1> QED BY <1>1, <1>2, <1>3

\* The steps that move the running thread and at most its preempt_count.
LEMMA QuietStep ==
  ASSUME IInv, NEW t \in Thread, Running(t), NEW label \in Label,
         pc' = [pc EXCEPT ![t] = label],
         preempt_count' = IF label \in SpinSection THEN 1 ELSE 0,
         int_enabled' \in BOOLEAN,
         UNCHANGED <<cpu, current, ready, state, context, remained_time, wait,
                     owner, queue>>,
         pc[t] \in Linked <=> label \in Linked,
         pc[t] \notin {"lock_block", "unlock_wake", "new"},
         label \notin {"lock_block", "unlock_wake", "new"},
         pc[t] \in {"boot", "idle", "halt", "hlt"} <=>
           label \in {"boot", "idle", "halt", "hlt"},
         state[t] = "BLOCKED" => label = "lock_schedule",
         label = "lock_queue" => owner \notin {t, NoThread},
         label \in {"lock_retest", "unlock_pass", "lock_done", "inside"} =>
           owner = t
  PROVE  IInv'
<1>1. /\ TypeOK /\ QueueOK /\ HandOver /\ ReadyOnce /\ SpinOK /\ SwitchOK
      /\ StateOK /\ MutualExclusion /\ NoLostWakeup
      /\ cpu = t /\ current = t /\ context[t] = "live"
      /\ \A u \in Thread : Running(u) <=> u = t
      /\ \A u \in Thread \ {t} : pc[u] \notin SpinSection
  BY RunningThread DEF IInv, WellFormed
<1>2. /\ pc'[t] = label /\ \A u \in Thread \ {t} : pc'[u] = pc[u]
      /\ \A u \in Thread : Running(u)' <=> u = t
      /\ ToSet(queue) \subseteq Thread
  BY <1>1, QueueElements DEF TypeOK, Running
<1>3. TypeOK'
  BY <1>1 DEF TypeOK
<1>4. (SpinOK /\ SwitchOK /\ ReadyOnce)'
  BY <1>1, <1>2 DEF SpinOK, SwitchOK, ReadyOnce
<1>5. StateOK'
  BY <1>1, <1>2 DEF StateOK
<1>6. QueueOK'
  BY <1>1, <1>2 DEF QueueOK, Linked
<1>7. (HandOver /\ MutualExclusion)'
  BY <1>1, <1>2 DEF HandOver, MutualExclusion, Holds
<1>8. NoLostWakeup'
  BY <1>1, <1>2 DEF NoLostWakeup
<1> QED BY <1>3, <1>4, <1>5, <1>6, <1>7, <1>8 DEF IInv, WellFormed

\* The timer interrupt, wherever it comes.
LEMMA TickStep ==
  ASSUME IInv, TimerTick
  PROVE  IInv'
<1>1. /\ int_enabled /\ context[cpu] = "live" /\ cpu \in Thread
      /\ pc \in [Thread -> Label] /\ remained_time \in 0..TIMESLICE
      /\ TIMESLICE \in Nat /\ UNCHANGED mutexVars
  BY TimesliceAssumption
  DEF IInv, WellFormed, TypeOK, SwitchOK, TimerTick, Tick
<1> DEFINE label == IF pc[cpu] = "hlt" THEN "idle" ELSE pc[cpu]
<1>2. /\ label \in Label /\ pc' = [pc EXCEPT ![cpu] = label]
      /\ MayReturn(pc[cpu], label)
  BY <1>1 DEF Label, TimerTick, Tick, MayReturn
<1>3. CASE remained_time <= 1 /\ Schedule(0)
  <2>1. 0 \in 0..TIMESLICE
    BY <1>1
  <2> QED BY <1>1, <1>2, <1>3, <2>1, ScheduleStep
<1>4. CASE remained_time > 1 /\ remained_time' = remained_time - 1
           /\ UNCHANGED <<cpu, current, ready, state, context, preempt_count,
                          int_enabled, wait>>
  <2> HIDE DEF label
  <2>1. /\ TypeOK /\ QueueOK /\ HandOver /\ ReadyOnce /\ SpinOK /\ SwitchOK
        /\ StateOK /\ MutualExclusion /\ NoLostWakeup
        /\ UNCHANGED <<owner, queue>> /\ ToSet(queue) \subseteq Thread
    BY <1>1, QueueElements DEF IInv, WellFormed, mutexVars, TypeOK
  <2>2. /\ pc'[cpu] = label /\ \A t \in Thread \ {cpu} : pc'[t] = pc[t]
        /\ label = pc[cpu] \/ (pc[cpu] = "hlt" /\ label = "idle")
        /\ \A t \in Thread : Running(t)' <=> Running(t)
    BY <1>1, <1>2, <1>4 DEF label, Running
  <2>3. TypeOK'
    <3>1. remained_time' \in 0..TIMESLICE
      BY <1>1, <1>4
    <3> QED BY <1>2, <1>4, <2>1, <3>1 DEF TypeOK
  <2>4. (SpinOK /\ SwitchOK /\ ReadyOnce)'
    BY <1>1, <1>4, <2>1, <2>2
    DEF SpinOK, SpinSection, UnlockLabel, SwitchOK, ReadyOnce
  <2>5. (StateOK /\ QueueOK)'
    BY <1>1, <1>4, <2>1, <2>2 DEF StateOK, QueueOK
  <2>6. (HandOver /\ MutualExclusion)'
    BY <1>1, <1>4, <2>1, <2>2 DEF HandOver, MutualExclusion, Holds
  <2>7. NoLostWakeup'
    BY <1>1, <1>4, <2>1, <2>2 DEF NoLostWakeup
  <2> QED BY <2>3, <2>4, <2>5, <2>6, <2>7 DEF IInv, WellFormed
<1> QED BY <1>3, <1>4 DEF TimerTick, Tick

\* The idle loop.
LEMMA IdleStep ==
  ASSUME IInv, Idle, UNCHANGED mutexVars
  PROVE  IInv'
<1>1. Running(idle) /\ idle \in Thread
  BY IdleAssumption DEF Idle, IdleStart, IdleSchedule, IdleHalt
<1>2. /\ TypeOK /\ context[cpu] = "live" /\ cpu = idle
      /\ state[idle] = "ACTIVE"
      /\ preempt_count = IF pc[idle] \in SpinSection THEN 1 ELSE 0
      /\ remained_time \in 0..TIMESLICE
  BY <1>1, RunningThread DEF IInv, WellFormed, SwitchOK, TypeOK
<1>3. CASE IdleSchedule
  <2>1. /\ pc[cpu] = "idle" /\ Schedule(remained_time)
        /\ pc' = [pc EXCEPT ![cpu] = "halt"]
    BY <1>2, <1>3 DEF IdleSchedule, CallSchedule, Goto
  <2>2. "halt" \in Label /\ MayReturn(pc[cpu], "halt")
    BY <2>1 DEF Label, MayReturn
  <2> QED BY <1>2, <2>1, <2>2, ScheduleStep
<1>4. CASE IdleStart \/ IdleHalt
  <2>1. PICK label \in {"idle", "hlt"} :
          /\ pc' = [pc EXCEPT ![idle] = label]
          /\ int_enabled' \in BOOLEAN
          /\ UNCHANGED <<cpu, current, ready, state, context, remained_time,
                         wait, preempt_count>>
          /\ pc[idle] \in {"boot", "halt"}
    BY <1>2, <1>4 DEF IdleStart, IdleHalt, Goto, schedVars, TypeOK
  <2>2. /\ label \in Label /\ label \notin SpinSection \cup Linked
        /\ pc[idle] \notin SpinSection \cup Linked
    BY <2>1 DEF Label, SpinSection, UnlockLabel, Linked
  <2> QED
    BY <1>1, <1>2, <2>1, <2>2, QuietStep DEF mutexVars
<1> QED BY <1>3, <1>4 DEF Idle

\* The steps of mutex_lock and mutex_unlock that only test, or take or release
\* the spinlock.
LEMMA SpinStep ==
  ASSUME IInv, NEW t \in Thread,
         \/ LockEnter(t, "outside") \/ LockTest(t) \/ LockUnlock(t)
         \/ LockRelock(t) \/ LockRetest(t) \/ LockDone(t, "inside")
         \/ UnlockEnter(t, "inside") \/ UnlockDone(t, "outside")
  PROVE  IInv'
<1> DEFINE Quiet(from, label) ==
      /\ pc[t] = from /\ pc' = [pc EXCEPT ![t] = label]
      /\ preempt_count' = IF label \in SpinSection THEN 1 ELSE 0
<1>1. /\ Running(t) /\ UNCHANGED <<ready, state, owner, queue>>
      /\ UNCHANGED <<cpu, current, context, remained_time, int_enabled, wait>>
  BY DEF LockEnter, LockTest, LockUnlock, LockRelock, LockRetest, LockDone,
         UnlockEnter, UnlockDone, Step, At, mutexVars
<1>2. /\ TypeOK /\ HandOver /\ StateOK /\ MutualExclusion
      /\ preempt_count = IF pc[t] \in SpinSection THEN 1 ELSE 0
      /\ state[t] \in {"ACTIVE", "BLOCKED"}
      /\ state[t] = "BLOCKED" => pc[t] \in {"lock_unlock", "lock_schedule"}
  BY <1>1, RunningThread DEF IInv, WellFormed
<1> USE DEF Step, At, Goto, SpinLock, SpinUnlock, SpinSection, UnlockLabel
<1>3. \/ Quiet("outside", "lock_test")
      \/ Quiet("lock_test", "lock_done") /\ owner = t
      \/ Quiet("lock_test", "lock_queue") /\ owner \notin {t, NoThread}
      \/ Quiet("lock_unlock", "lock_schedule")
      \/ Quiet("lock_relock", "lock_unlink")
      \/ Quiet("lock_retest", "lock_done") /\ owner = t
      \/ Quiet("lock_done", "inside") /\ owner = t
      \/ Quiet("inside", "unlock_pass") /\ owner = t
      \/ Quiet("unlock_done", "outside")
  <2>1. CASE LockEnter(t, "outside")
    BY <1>2, <2>1 DEF LockEnter
  <2>2. CASE LockTest(t)
    BY <1>2, <2>2 DEF LockTest
  <2>3. CASE LockUnlock(t)
    BY <1>2, <2>3 DEF LockUnlock
  <2>4. CASE LockRelock(t)
    BY <1>2, <2>4 DEF LockRelock
  <2>5. CASE LockRetest(t)
    <3>1. pc[t] = "lock_retest" /\ owner = t
      BY <1>2, <2>5 DEF LockRetest, HandOver
    <3> QED BY <1>2, <2>5, <3>1 DEF LockRetest
  <2>6. CASE LockDone(t, "inside") \/ UnlockEnter(t, "inside")
    <3>1. owner = t
      BY <1>2, <2>6 DEF LockDone, UnlockEnter, MutualExclusion, Holds
    <3> QED BY <1>2, <2>6, <3>1 DEF LockDone, UnlockEnter
  <2>7. CASE UnlockDone(t, "outside")
    BY <1>2, <2>7 DEF UnlockDone
  <2> QED BY <2>1, <2>2, <2>3, <2>4, <2>5, <2>6, <2>7
<1>4. int_enabled' \in BOOLEAN
  BY <1>1, <1>2 DEF TypeOK
<1>5. ASSUME NEW from, NEW label, Quiet(from, label),
             \/ from = "outside" /\ label = "lock_test"
             \/ from = "lock_test" /\ label = "lock_done" /\ owner = t
             \/ from = "lock_test" /\ label = "lock_queue"
                /\ owner \notin {t, NoThread}
             \/ from = "lock_unlock" /\ label = "lock_schedule"
             \/ from = "lock_relock" /\ label = "lock_unlink"
             \/ from \in {"lock_retest", "lock_done", "inside"} /\ owner = t
                /\ label \in {"lock_done", "inside", "unlock_pass"}
             \/ from = "unlock_done" /\ label = "outside"
      PROVE  IInv'
  <2>1. label \in Label
    BY <1>5 DEF Label, LockLabel
  <2>2. pc[t] \in Linked <=> label \in Linked
    BY <1>5 DEF Linked
  <2>3. state[t] = "BLOCKED" => label = "lock_schedule"
    BY <1>2, <1>5
  <2> QED BY <1>1, <1>4, <1>5, <2>1, <2>2, <2>3, QuietStep
<1> QED BY <1>3, <1>5

\* What a step of mutex_lock or mutex_unlock starts from, and leaves alone.
LEMMA StepBegins ==
  ASSUME IInv, NEW t \in Thread, NEW from, NEW label \in Label,
         Step(t, from, label)
  PROVE  /\ TypeOK /\ QueueOK /\ HandOver /\ ReadyOnce /\ SpinOK /\ SwitchOK
         /\ StateOK /\ MutualExclusion /\ NoLostWakeup
         /\ Running(t) /\ cpu = t /\ current = t /\ context[t] = "live"
         /\ preempt_count = IF from \in SpinSection THEN 1 ELSE 0
         /\ state[t] \in {"ACTIVE", "BLOCKED"}
         /\ from \notin {"lock_unlock", "lock_schedule"} => state[t] = "ACTIVE"
         /\ \A u \in Thread \ {t} : pc[u] \notin SpinSection
         /\ t \notin ToSet(ready)
         /\ ToSet(queue) \subseteq Thread /\ ToSet(ready) \subseteq Thread
         /\ pc[t] = from /\ pc' \in [Thread -> Label]
         /\ pc'[t] = label /\ \A u \in Thread \ {t} : pc'[u] = pc[u]
         /\ \A u \in Thread : /\ Running(u) <=> u = t
                              /\ Running(u)' <=> u = t
         /\ UNCHANGED <<cpu, current, context, remained_time, int_enabled, wait>>
<1>1. /\ Running(t) /\ pc[t] = from /\ pc' = [pc EXCEPT ![t] = label]
      /\ UNCHANGED <<cpu, current, context, remained_time, int_enabled, wait>>
  BY DEF Step, At, Goto
<1>2. /\ TypeOK /\ QueueOK /\ HandOver /\ ReadyOnce /\ SpinOK /\ SwitchOK
      /\ StateOK /\ MutualExclusion /\ NoLostWakeup
  BY DEF IInv, WellFormed
<1>3. ToSet(queue) \subseteq Thread /\ ToSet(ready) \subseteq Thread
  BY <1>2, QueueElements DEF TypeOK
<1>4. /\ pc' \in [Thread -> Label]
      /\ pc'[t] = label /\ \A u \in Thread \ {t} : pc'[u] = pc[u]
  BY <1>1, <1>2 DEF TypeOK
<1>5. /\ cpu = t /\ current = t /\ context[t] = "live"
      /\ preempt_count = IF from \in SpinSection THEN 1 ELSE 0
      /\ state[t] \in {"ACTIVE", "BLOCKED"}
      /\ from \notin {"lock_unlock", "lock_schedule"} => state[t] = "ACTIVE"
      /\ \A u \in Thread : Running(u) <=> u = t
      /\ \A u \in Thread \ {t} : pc[u] \notin SpinSection
      /\ t \notin ToSet(ready)
  BY <1>1, RunningThread
<1>6. \A u \in Thread : Running(u)' <=> u = t
  BY <1>1, <1>5 DEF Running
<1> QED BY <1>1, <1>2, <1>3, <1>4, <1>5, <1>6

\* A free mutex is taken.
LEMMA TakeStep ==
  ASSUME IInv, NEW t \in Thread, LockTakeFree(t)
  PROVE  IInv'
<1>1. /\ Step(t, "lock_test", "lock_done") /\ owner = NoThread /\ owner' = t
      /\ UNCHANGED <<ready, state, preempt_count, queue>>
      /\ "lock_done" \in Label
  BY DEF LockTakeFree, Label, LockLabel
<1>2. /\ TypeOK /\ QueueOK /\ HandOver /\ ReadyOnce /\ SpinOK /\ SwitchOK
      /\ StateOK /\ MutualExclusion /\ NoLostWakeup
      /\ cpu = t /\ ToSet(queue) \subseteq Thread
      /\ pc[t] = "lock_test" /\ pc' \in [Thread -> Label]
      /\ pc'[t] = "lock_done" /\ \A u \in Thread \ {t} : pc'[u] = pc[u]
      /\ \A u \in Thread : Running(u) <=> u = t
      /\ \A u \in Thread : Running(u)' <=> u = t
      /\ \A u \in Thread \ {t} : pc[u] \notin SpinSection
      /\ UNCHANGED <<cpu, current, context, remained_time, int_enabled, wait>>
  BY <1>1, StepBegins
<1>3. /\ \A u \in Thread : ~Holds(u)
      /\ \A u \in Thread : state[u] # "BLOCKED"
  BY <1>1, <1>2, NoThreadAssumption
  DEF MutualExclusion, NoLostWakeup, SpinSection, UnlockLabel
<1>4. TypeOK'
  BY <1>1, <1>2 DEF TypeOK
<1>5. (SpinOK /\ SwitchOK /\ ReadyOnce /\ StateOK)'
  BY <1>1, <1>2
  DEF SpinOK, SpinSection, UnlockLabel, SwitchOK, ReadyOnce, StateOK
<1>6. QueueOK'
  BY <1>1, <1>2 DEF QueueOK
<1>7. HandOver'
  BY <1>1, <1>2, <1>3, NoThreadAssumption
  DEF HandOver, SpinSection, UnlockLabel, QueueOK
<1>8. (MutualExclusion /\ NoLostWakeup)'
  BY <1>1, <1>2, <1>3 DEF MutualExclusion, NoLostWakeup, Holds
<1> QED BY <1>4, <1>5, <1>6, <1>7, <1>8 DEF IInv, WellFormed

\* A thread links its entry to the end of the list.
LEMMA QueueStep ==
  ASSUME IInv, NEW t \in Thread, LockQueue(t)
  PROVE  IInv'
<1>1. /\ Step(t, "lock_queue", "lock_block") /\ queue' = Append(queue, t)
      /\ UNCHANGED <<ready, state, preempt_count, owner>>
      /\ "lock_block" \in Label
  BY DEF LockQueue, Label, LockLabel
<1>2. /\ TypeOK /\ QueueOK /\ HandOver /\ ReadyOnce /\ SpinOK /\ SwitchOK
      /\ StateOK /\ MutualExclusion /\ NoLostWakeup
      /\ cpu = t /\ ToSet(queue) \subseteq Thread /\ state[t] = "ACTIVE"
      /\ pc[t] = "lock_queue" /\ pc' \in [Thread -> Label]
      /\ pc'[t] = "lock_block" /\ \A u \in Thread \ {t} : pc'[u] = pc[u]
      /\ \A u \in Thread : Running(u) <=> u = t
      /\ \A u \in Thread : Running(u)' <=> u = t
      /\ \A u \in Thread \ {t} : pc[u] \notin SpinSection
      /\ UNCHANGED <<cpu, current, context, remained_time, int_enabled, wait>>
  BY <1>1, StepBegins
<1>3. t \notin ToSet(queue) /\ owner \notin {t, NoThread}
  BY <1>2 DEF QueueOK, HandOver
<1>4. /\ queue' \in Seq(Thread) /\ queue' # <<>>
      /\ ToSet(queue') = ToSet(queue) \cup {t}
      /\ IsInjective(queue')
      /\ queue # <<>> => Head(queue') = Head(queue)
  BY <1>1, <1>2, <1>3, AppendQueue, AppendTail DEF TypeOK, QueueOK
<1>5. owner \in ToSet(queue) => queue # <<>>
  BY EmptyQueue
<1>6. TypeOK'
  BY <1>1, <1>2, <1>4 DEF TypeOK
<1>7. (SpinOK /\ SwitchOK /\ ReadyOnce /\ StateOK)'
  BY <1>1, <1>2
  DEF SpinOK, SpinSection, UnlockLabel, SwitchOK, ReadyOnce, StateOK
<1>8. QueueOK'
  BY <1>1, <1>2, <1>3, <1>4, <1>5 DEF QueueOK
<1>9. HandOver'
  BY <1>1, <1>2, <1>3, <1>4 DEF HandOver, SpinSection, UnlockLabel
<1>10. (MutualExclusion /\ NoLostWakeup)'
  BY <1>1, <1>2, <1>4 DEF MutualExclusion, NoLostWakeup, Holds
<1> QED BY <1>6, <1>7, <1>8, <1>9, <1>10 DEF IInv, WellFormed

\* Its entry is linked: the thread goes to sleep.
LEMMA BlockStep ==
  ASSUME IInv, NEW t \in Thread, LockBlock(t)
  PROVE  IInv'
<1>1. /\ Step(t, "lock_block", "lock_unlock")
      /\ state' = [state EXCEPT ![current] = "BLOCKED"]
      /\ UNCHANGED <<ready, preempt_count, owner, queue>>
      /\ "lock_unlock" \in Label
  BY DEF LockBlock, ThreadBlock, mutexVars, Label, LockLabel
<1>2. /\ TypeOK /\ QueueOK /\ HandOver /\ ReadyOnce /\ SpinOK /\ SwitchOK
      /\ StateOK /\ MutualExclusion /\ NoLostWakeup
      /\ cpu = t /\ current = t /\ ToSet(queue) \subseteq Thread
      /\ state[t] = "ACTIVE" /\ context[t] = "live"
      /\ t \notin ToSet(ready) /\ ToSet(ready) \subseteq Thread
      /\ pc[t] = "lock_block" /\ pc' \in [Thread -> Label]
      /\ pc'[t] = "lock_unlock" /\ \A u \in Thread \ {t} : pc'[u] = pc[u]
      /\ \A u \in Thread : Running(u) <=> u = t
      /\ \A u \in Thread : Running(u)' <=> u = t
      /\ \A u \in Thread \ {t} : pc[u] \notin SpinSection
      /\ UNCHANGED <<cpu, current, context, remained_time, int_enabled, wait>>
  BY <1>1, StepBegins
<1>3. /\ state' \in [Thread -> ThreadState] /\ state'[t] = "BLOCKED"
      /\ \A u \in Thread \ {t} : state'[u] = state[u]
      /\ t # idle /\ owner \notin {t, NoThread} /\ t \in ToSet(queue)
  BY <1>1, <1>2 DEF TypeOK, ThreadState, StateOK, HandOver, QueueOK
<1>4. TypeOK'
  BY <1>1, <1>2, <1>3 DEF TypeOK
<1>5. (SpinOK /\ SwitchOK /\ ReadyOnce /\ StateOK)'
  BY <1>1, <1>2, <1>3, IdleAssumption
  DEF SpinOK, SpinSection, UnlockLabel, SwitchOK, ReadyOnce, StateOK
<1>6. QueueOK'
  BY <1>1, <1>2 DEF QueueOK
<1>7. HandOver'
  BY <1>1, <1>2, <1>3 DEF HandOver, SpinSection, UnlockLabel
<1>8. (MutualExclusion /\ NoLostWakeup)'
  BY <1>1, <1>2, <1>3 DEF MutualExclusion, NoLostWakeup, Holds
<1> QED BY <1>4, <1>5, <1>6, <1>7, <1>8 DEF IInv, WellFormed

\* The woken thread takes its entry out of the list: it is the first.
LEMMA UnlinkStep ==
  ASSUME IInv, NEW t \in Thread, LockUnlink(t)
  PROVE  /\ IInv'
         /\ owner = t /\ queue # <<>> /\ Head(queue) = t
         /\ queue' = Tail(queue)
<1>1. /\ Step(t, "lock_unlink", "lock_retest")
      /\ UNCHANGED <<ready, state, preempt_count, owner>>
      /\ "lock_retest" \in Label
  BY DEF LockUnlink, Label, LockLabel
<1>2. /\ TypeOK /\ QueueOK /\ HandOver /\ ReadyOnce /\ SpinOK /\ SwitchOK
      /\ StateOK /\ MutualExclusion /\ NoLostWakeup
      /\ cpu = t /\ ToSet(queue) \subseteq Thread /\ state[t] = "ACTIVE"
      /\ pc[t] = "lock_unlink" /\ pc' \in [Thread -> Label]
      /\ pc'[t] = "lock_retest" /\ \A u \in Thread \ {t} : pc'[u] = pc[u]
      /\ \A u \in Thread : Running(u) <=> u = t
      /\ \A u \in Thread : Running(u)' <=> u = t
      /\ \A u \in Thread \ {t} : pc[u] \notin SpinSection
      /\ UNCHANGED <<cpu, current, context, remained_time, int_enabled, wait>>
  BY <1>1, StepBegins
<1>3. t \in ToSet(queue) /\ owner = t /\ Head(queue) = t
  BY <1>2 DEF QueueOK, HandOver
<1>4. queue # <<>> /\ queue' = Tail(queue)
  <2>1. PICK i \in DOMAIN queue : queue[i] = t /\ queue' = RemoveAt(queue, i)
    BY DEF LockUnlink
  <2> QED BY <1>2, <1>3, <2>1, RemoveHead DEF TypeOK, QueueOK
<1>5. /\ queue' \in Seq(Thread) /\ IsInjective(queue')
      /\ ToSet(queue) = ToSet(queue') \cup {t} /\ t \notin ToSet(queue')
  BY <1>2, <1>3, <1>4, TailQueue DEF TypeOK, QueueOK
<1>6. TypeOK'
  BY <1>1, <1>2, <1>5 DEF TypeOK
<1>7. (SpinOK /\ SwitchOK /\ ReadyOnce /\ StateOK)'
  BY <1>1, <1>2
  DEF SpinOK, SpinSection, UnlockLabel, SwitchOK, ReadyOnce, StateOK
<1>8. QueueOK'
  BY <1>1, <1>2, <1>3, <1>5 DEF QueueOK
<1>9. HandOver'
  BY <1>1, <1>2, <1>3, <1>5 DEF HandOver, SpinSection, UnlockLabel
<1>10. (MutualExclusion /\ NoLostWakeup)'
  BY <1>1, <1>2, <1>3, <1>5 DEF MutualExclusion, NoLostWakeup, Holds
<1> QED BY <1>3, <1>4, <1>6, <1>7, <1>8, <1>9, <1>10 DEF IInv, WellFormed

\* mutex_unlock names the next owner, the first of the list, which sleeps, or
\* nobody when the list is empty, and then nobody sleeps.
LEMMA PassStep ==
  ASSUME IInv, NEW t \in Thread, UnlockPass(t) \/ UnlockFree(t)
  PROVE  /\ IInv'
         /\ owner = t /\ t \notin ToSet(queue)
<1>1. PICK label \in {"unlock_wake", "unlock_done"} :
        /\ Step(t, "unlock_pass", label)
        /\ UNCHANGED <<ready, state, preempt_count, queue>>
        /\ label = "unlock_wake" => queue # <<>> /\ owner' = Head(queue)
        /\ label = "unlock_done" => queue = <<>> /\ owner' = NoThread
  BY DEF UnlockPass, UnlockFree
<1>2. label \in Label
  BY DEF Label, UnlockLabel
<1>3. /\ TypeOK /\ QueueOK /\ HandOver /\ ReadyOnce /\ SpinOK /\ SwitchOK
      /\ StateOK /\ MutualExclusion /\ NoLostWakeup
      /\ cpu = t /\ ToSet(queue) \subseteq Thread /\ state[t] = "ACTIVE"
      /\ pc[t] = "unlock_pass" /\ pc' \in [Thread -> Label]
      /\ pc'[t] = label /\ \A u \in Thread \ {t} : pc'[u] = pc[u]
      /\ \A u \in Thread : Running(u) <=> u = t
      /\ \A u \in Thread : Running(u)' <=> u = t
      /\ \A u \in Thread \ {t} : pc[u] \notin SpinSection
      /\ UNCHANGED <<cpu, current, context, remained_time, int_enabled, wait>>
  BY <1>1, <1>2, StepBegins
<1>4. /\ owner = t /\ t \notin ToSet(queue)
      /\ \A u \in ToSet(queue) : state[u] = "BLOCKED"
  BY <1>3 DEF HandOver, QueueOK, SpinSection
<1>5. \A u \in Thread : state[u] = "BLOCKED" => u \in ToSet(queue)
  BY <1>3 DEF NoLostWakeup
<1>6. queue # <<>> => Head(queue) \in ToSet(queue) /\ Head(queue) \in Thread
  BY <1>3, TailQueue DEF TypeOK
<1>7. TypeOK'
  BY <1>1, <1>3, <1>6 DEF TypeOK
<1>8. (SpinOK /\ SwitchOK /\ ReadyOnce /\ StateOK)'
  BY <1>1, <1>3
  DEF SpinOK, SpinSection, UnlockLabel, SwitchOK, ReadyOnce, StateOK
<1>9. QueueOK'
  BY <1>1, <1>3, <1>6, NoThreadAssumption DEF QueueOK
<1>10. HandOver'
  BY <1>1, <1>3, <1>4, <1>6 DEF HandOver, SpinSection, UnlockLabel
<1>11. MutualExclusion'
  BY <1>1, <1>3, <1>4 DEF MutualExclusion, Holds
<1>12. NoLostWakeup'
  <2>1. CASE label = "unlock_wake"
    BY <1>1, <1>3, <1>4, <1>5, <1>6, <2>1, NoThreadAssumption DEF NoLostWakeup
  <2>2. CASE label = "unlock_done"
    BY <1>1, <1>3, <1>5, <2>2, EmptyQueue DEF NoLostWakeup
  <2> QED BY <2>1, <2>2
<1> QED
  BY <1>4, <1>7, <1>8, <1>9, <1>10, <1>11, <1>12, EmptyQueue
  DEF IInv, WellFormed

\* mutex_unlock wakes the new owner, which is asleep and in no queue.
LEMMA WakeStep ==
  ASSUME IInv, NEW t \in Thread, UnlockWake(t)
  PROVE  IInv'
<1> DEFINE w == Head(queue)
<1>1. /\ Step(t, "unlock_wake", "unlock_done")
      /\ state' = [state EXCEPT ![w] = "ACTIVE"] /\ ready' = Append(ready, w)
      /\ UNCHANGED <<preempt_count, owner, queue>>
      /\ "unlock_done" \in Label
  BY DEF UnlockWake, ThreadStart, mutexVars, Label, UnlockLabel
<1>2. /\ TypeOK /\ QueueOK /\ HandOver /\ ReadyOnce /\ SpinOK /\ SwitchOK
      /\ StateOK /\ MutualExclusion /\ NoLostWakeup
      /\ cpu = t /\ current = t /\ ToSet(queue) \subseteq Thread
      /\ state[t] = "ACTIVE" /\ context[t] = "live"
      /\ pc[t] = "unlock_wake" /\ pc' \in [Thread -> Label]
      /\ pc'[t] = "unlock_done" /\ \A u \in Thread \ {t} : pc'[u] = pc[u]
      /\ \A u \in Thread : Running(u) <=> u = t
      /\ \A u \in Thread : Running(u)' <=> u = t
      /\ \A u \in Thread \ {t} : pc[u] \notin SpinSection
      /\ UNCHANGED <<cpu, current, context, remained_time, int_enabled, wait>>
  BY <1>1, StepBegins
<1>3. /\ w \in Thread /\ w \in ToSet(queue) /\ owner = w
      /\ state[w] = "BLOCKED" /\ w # t /\ w \notin ToSet(ready)
  BY <1>2, TailQueue DEF TypeOK, HandOver, ReadyOnce
<1>4. /\ ready' \in Seq(Thread) /\ IsInjective(ready')
      /\ ToSet(ready') = ToSet(ready) \cup {w}
  BY <1>1, <1>2, <1>3, AppendQueue DEF TypeOK, ReadyOnce
<1>5. /\ state' \in [Thread -> ThreadState] /\ state'[w] = "ACTIVE"
      /\ \A u \in Thread \ {w} : state'[u] = state[u]
  BY <1>1, <1>2, <1>3 DEF TypeOK, ThreadState
<1>a. ToSet(ready) \subseteq Thread
  BY <1>2, QueueElements DEF TypeOK
<1> HIDE DEF w
<1>6. TypeOK'
  BY <1>1, <1>2, <1>4, <1>5 DEF TypeOK
<1>7. (SpinOK /\ SwitchOK /\ ReadyOnce)'
  BY <1>1, <1>2, <1>3, <1>4, <1>5, <1>a, IdleAssumption
  DEF SpinOK, SpinSection, UnlockLabel, SwitchOK, ReadyOnce
<1>8. StateOK'
  BY <1>1, <1>2, <1>3, <1>5 DEF StateOK
<1>9. QueueOK'
  BY <1>1, <1>2 DEF QueueOK
<1>10. HandOver'
  BY <1>1, <1>2, <1>3, <1>5 DEF HandOver, SpinSection, UnlockLabel
<1>11. MutualExclusion'
  BY <1>1, <1>2 DEF MutualExclusion, Holds
<1>12. NoLostWakeup'
  BY <1>1, <1>2, <1>3, <1>5 DEF NoLostWakeup
<1> QED
  BY <1>6, <1>7, <1>8, <1>9, <1>10, <1>11, <1>12 DEF IInv, WellFormed

\* init starts a thread.
LEMMA SpawnStep ==
  ASSUME Assumption, IInv, NEW t \in Worker, SpawnWorker(t)
  PROVE  IInv'
<1>1. /\ Running(init) /\ pc[init] = "spawn" /\ pc[t] = "new"
      /\ state' = [state EXCEPT ![t] = "ACTIVE"] /\ ready' = Append(ready, t)
      /\ pc' = [pc EXCEPT ![t] = "outside"]
      /\ UNCHANGED <<cpu, current, context, remained_time, preempt_count,
                     int_enabled, wait, owner, queue>>
      /\ t \in Thread /\ init \in Thread
  BY DEF SpawnWorker, At, ThreadStart, Goto, mutexVars, Worker, Assumption
<1>2. /\ TypeOK /\ QueueOK /\ HandOver /\ ReadyOnce /\ SpinOK /\ SwitchOK
      /\ StateOK /\ MutualExclusion /\ NoLostWakeup
  BY DEF IInv, WellFormed
<1>3. /\ ToSet(queue) \subseteq Thread /\ ToSet(ready) \subseteq Thread
      /\ cpu = init /\ t # init /\ t # idle /\ state[t] = "DEAD"
      /\ t \notin ToSet(ready) /\ t \notin ToSet(queue)
  BY <1>1, <1>2, QueueElements
  DEF TypeOK, StateOK, ReadyOnce, Running, QueueOK
<1>4. /\ ready' \in Seq(Thread) /\ IsInjective(ready')
      /\ ToSet(ready') = ToSet(ready) \cup {t}
  BY <1>1, <1>2, <1>3, AppendQueue DEF TypeOK, ReadyOnce
<1>5. /\ state' \in [Thread -> ThreadState] /\ state'[t] = "ACTIVE"
      /\ \A u \in Thread \ {t} : state'[u] = state[u]
      /\ pc' \in [Thread -> Label] /\ pc'[t] = "outside"
      /\ \A u \in Thread \ {t} : pc'[u] = pc[u]
      /\ \A u \in Thread : Running(u)' <=> Running(u)
  BY <1>1, <1>2, <1>3 DEF TypeOK, ThreadState, Label, Running
<1>6. TypeOK'
  BY <1>1, <1>2, <1>4, <1>5 DEF TypeOK
<1>7. (SpinOK /\ SwitchOK /\ ReadyOnce)'
  BY <1>1, <1>2, <1>3, <1>4, <1>5, IdleAssumption
  DEF SpinOK, SpinSection, UnlockLabel, SwitchOK, ReadyOnce
<1>8. StateOK'
  BY <1>1, <1>2, <1>3, <1>5 DEF StateOK
<1>9. QueueOK'
  BY <1>1, <1>2, <1>3, <1>5 DEF QueueOK
<1>10. HandOver'
  BY <1>1, <1>2, <1>3, <1>5 DEF HandOver
<1>11. (MutualExclusion /\ NoLostWakeup)'
  BY <1>1, <1>2, <1>3, <1>5 DEF MutualExclusion, Holds, NoLostWakeup
<1> QED
  BY <1>6, <1>7, <1>8, <1>9, <1>10, <1>11 DEF IInv, WellFormed

\* Every step keeps the invariant.
LEMMA NextStep == ASSUME Assumption, IInv, [Next]_vars PROVE IInv'
<1>1. CASE TimerTick
  BY <1>1, TickStep
<1>2. CASE SchedStep
  BY <1>2, IdleStep, ResumeStep DEF SchedStep
<1>3. CASE Spawn
  <2>1. CASE SpawnDone
    <3>1. /\ Running(init) /\ init \in Thread /\ pc[init] = "spawn"
          /\ pc' = [pc EXCEPT ![init] = "outside"]
          /\ UNCHANGED <<cpu, current, ready, state, context, remained_time,
                         int_enabled, wait, preempt_count, owner, queue>>
      BY <2>1 DEF SpawnDone, Step, At, Goto, mutexVars, Assumption
    <3>2. /\ preempt_count = 0 /\ state[init] = "ACTIVE"
          /\ int_enabled \in BOOLEAN
      BY <3>1, RunningThread
      DEF SpinSection, UnlockLabel, IInv, WellFormed, TypeOK
    <3>3. /\ "outside" \in Label /\ "outside" \notin SpinSection
          /\ "outside" \notin Linked /\ "spawn" \notin Linked
      BY DEF Label, SpinSection, UnlockLabel, Linked
    <3> QED BY <3>1, <3>2, <3>3, QuietStep
  <2> QED BY <1>3, <2>1, SpawnStep DEF Spawn
<1>4. ASSUME NEW t \in Thread, ThreadStep(t) PROVE IInv'
  <2>1. CASE LockSchedule(t)
    <3>1. /\ Running(t) /\ pc[t] = "lock_schedule"
          /\ Schedule(remained_time)
          /\ pc' = [pc EXCEPT ![t] = "lock_relock"]
          /\ UNCHANGED mutexVars
      BY <2>1 DEF LockSchedule, At, CallSchedule, Goto
    <3>2. /\ cpu = t /\ context[cpu] = "live" /\ "lock_relock" \in Label
          /\ remained_time \in 0..TIMESLICE
          /\ MayReturn(pc[cpu], "lock_relock")
      BY <3>1, RunningThread
      DEF Label, LockLabel, IInv, WellFormed, TypeOK, MayReturn
    <3> QED BY <3>1, <3>2, ScheduleStep
  <2> QED
    BY <1>4, <2>1, SpinStep, TakeStep, QueueStep, BlockStep, UnlinkStep,
       PassStep, WakeStep
    DEF ThreadStep, LockBody, UnlockBody
<1>5. CASE UNCHANGED vars
  BY <1>5
  DEF vars, schedVars, mutexVars, IInv, WellFormed, TypeOK, QueueOK, HandOver,
      ReadyOnce, SpinOK, SwitchOK, StateOK, MutualExclusion, Holds,
      NoLostWakeup, Running
<1> QED BY <1>1, <1>2, <1>3, <1>4, <1>5 DEF Next

-----------------------------------------------------------------------------
\* The invariant holds in every reachable state.
THEOREM Invariance == ASSUME Assumption PROVE Spec => []IInv
BY InitIInv, NextStep, PTL DEF Spec

\* The scheduler's queues and the mutex's list of waiters are what every step
\* relies on: no thread is queued twice, no entry outlives its mutex_lock.
THEOREM WellFormedCorrect == ASSUME Assumption PROVE Spec => []WellFormed
<1>1. IInv => WellFormed
  BY DEF IInv
<1> QED BY <1>1, Invariance, PTL

\* The mutex has one owner at most, and mutex->owner names it (inc/mutex.h).
THEOREM MutexCorrect == ASSUME Assumption PROVE Spec => []MutualExclusion
<1>1. IInv => MutualExclusion
  BY DEF IInv
<1> QED BY <1>1, Invariance, PTL

\* A thread sleeps in the mutex only where somebody will wake it, although the
\* list is unlocked before schedule() is called (src/mutex.c:36).
THEOREM WakeupCorrect == ASSUME Assumption PROVE Spec => []NoLostWakeup
<1>1. IInv => NoLostWakeup
  BY DEF IInv
<1> QED BY <1>1, Invariance, PTL

-----------------------------------------------------------------------------
(* The mutex implements AbstractLock, in which the line is the list without *)
(* the owner that has not unlinked itself yet.                             *)

\* A step that touches neither the owner nor the list is none of the lock's.
LEMMA OtherSteps ==
  ASSUME NEW t \in Thread,
         \/ TimerTick \/ SchedStep \/ Spawn
         \/ LockEnter(t, "outside") \/ LockDone(t, "inside")
         \/ UnlockEnter(t, "inside") \/ UnlockDone(t, "outside")
         \/ LockTest(t) \/ LockBlock(t) \/ LockUnlock(t) \/ LockSchedule(t)
         \/ LockRelock(t) \/ LockRetest(t) \/ UnlockWake(t)
  PROVE  UNCHANGED <<owner, queue>>
BY DEF TimerTick, SchedStep, Spawn, SpawnDone, SpawnWorker, LockEnter, LockDone,
       UnlockEnter, UnlockDone, LockTest, LockBlock, LockUnlock, LockSchedule,
       LockRelock, LockRetest, UnlockWake, mutexVars

\* The steps that do, and what they are to the lock.
LEMMA LockSteps ==
  ASSUME IInv, NEW t \in Thread,
         \/ LockTakeFree(t) \/ LockQueue(t) \/ LockUnlink(t)
         \/ UnlockPass(t) \/ UnlockFree(t)
  PROVE  [Abstract!Next]_(Abstract!vars)
<1> USE DEF Abstract!vars, Abstract!Next
<1>1. /\ queue \in Seq(Thread) /\ QueueOK /\ HandOver
      /\ owner \in Thread \cup {NoThread}
  BY DEF IInv, WellFormed, TypeOK
<1>a. owner \notin ToSet(queue) => Line = queue
  BY <1>1, TailQueue DEF Line
<1>2. CASE LockTakeFree(t)
  <2>1. /\ owner = NoThread /\ owner' = t /\ queue' = queue
        /\ pc[t] = "lock_test"
    BY <1>2 DEF LockTakeFree, Step, At
  <2>2. t \notin ToSet(queue) /\ owner \notin ToSet(queue)
    BY <1>1, <2>1, QueueElements, NoThreadAssumption DEF QueueOK
  <2>3. Line' = queue
    BY <1>1, <2>1, <2>2, TailQueue DEF Line
  <2> QED BY <1>a, <2>1, <2>2, <2>3 DEF Abstract!Take
<1>3. CASE LockQueue(t)
  <2>1. queue' = Append(queue, t) /\ owner' = owner /\ pc[t] = "lock_queue"
    BY <1>3 DEF LockQueue, Step, At
  <2>2. owner \notin {t, NoThread} /\ t \notin ToSet(queue)
    BY <1>1, <2>1 DEF HandOver, QueueOK
  <2>3. /\ queue' # <<>>
        /\ queue # <<>> => /\ Head(queue') = Head(queue)
                           /\ Tail(queue') = Append(Tail(queue), t)
    BY <1>1, <2>1, AppendQueue, AppendTail
  <2>4. Line' = Append(Line, t)
    <3>1. CASE queue = <<>>
      BY <2>1, <2>2, <3>1 DEF Line
    <3>2. CASE queue # <<>>
      BY <2>1, <2>3, <3>2 DEF Line
    <3> QED BY <3>1, <3>2
  <2>5. \A i \in DOMAIN Line : Line[i] # t
    <3>1. ToSet(Line) \subseteq ToSet(queue)
      BY <1>1, TailQueue DEF Line
    <3> QED BY <2>2, <3>1 DEF ToSet
  <2> QED BY <2>1, <2>2, <2>4, <2>5 DEF Abstract!Queue
<1>4. CASE LockUnlink(t)
  <2>1. /\ owner = t /\ queue # <<>> /\ Head(queue) = t
        /\ queue' = Tail(queue) /\ owner' = owner
    BY <1>4, UnlinkStep DEF LockUnlink
  <2>2. Line = Tail(queue)
    BY <2>1 DEF Line
  <2>3. /\ Tail(queue) \in Seq(Thread) /\ t \notin ToSet(Tail(queue))
    BY <1>1, <2>1, TailQueue DEF QueueOK
  <2>4. queue' # <<>> => Head(queue') # t
    BY <2>1, <2>3, TailQueue
  <2>5. Line' = Tail(queue)
    BY <2>1, <2>4 DEF Line
  <2> QED BY <2>1, <2>2, <2>5
<1>5. CASE UnlockPass(t) \/ UnlockFree(t)
  <2>1. owner = t /\ t \notin ToSet(queue) /\ queue' = queue
    BY <1>5, PassStep DEF UnlockPass, UnlockFree
  <2>2. owner # NoThread /\ Line = queue
    BY <1>a, <2>1, NoThreadAssumption
  <2>3. CASE UnlockPass(t)
    <3>1. queue # <<>> /\ owner' = Head(queue)
      BY <2>3 DEF UnlockPass
    <3>2. Line' = Tail(queue)
      BY <2>1, <3>1 DEF Line
    <3> QED BY <2>2, <3>1, <3>2 DEF Abstract!Release
  <2>4. CASE UnlockFree(t)
    <3>1. queue = <<>> /\ owner' = NoThread
      BY <2>4 DEF UnlockFree
    <3>2. Line' = queue
      BY <2>1, <3>1 DEF Line
    <3> QED BY <2>2, <3>1, <3>2 DEF Abstract!Release
  <2> QED BY <1>5, <2>3, <2>4
<1> QED BY <1>2, <1>3, <1>4, <1>5

\* mutex.c implements a lock that is handed over in the order of arrival.
THEOREM Refinement == ASSUME Assumption PROVE Spec => ImplementsLock
<1>1. Init => Abstract!Init
  BY DEF Init, MutexSetup, Abstract!Init, Line
<1>2. ASSUME IInv, [Next]_vars PROVE [Abstract!Next]_(Abstract!vars)
  <2>1. ASSUME UNCHANGED <<owner, queue>>
        PROVE  UNCHANGED Abstract!vars
    BY <2>1 DEF Abstract!vars, Line
  <2>2. CASE UNCHANGED vars
    BY <2>1, <2>2 DEF vars, mutexVars
  <2>3. CASE TimerTick \/ SchedStep \/ Spawn
    BY <2>1, <2>3, OtherSteps, IdleAssumption
  <2>4. ASSUME NEW t \in Thread, ThreadStep(t)
        PROVE  [Abstract!Next]_(Abstract!vars)
    BY <1>2, <2>1, <2>4, OtherSteps, LockSteps DEF ThreadStep, LockBody, UnlockBody
  <2> QED BY <1>2, <2>2, <2>3, <2>4 DEF Next
<1> QED
  BY <1>1, <1>2, Invariance, PTL DEF Spec, ImplementsLock, Abstract!Spec
=============================================================================
