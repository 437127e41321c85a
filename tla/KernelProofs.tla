----------------------------- MODULE KernelProofs -----------------------------
(***************************************************************************)
(* Safety of the scheduler and of the thread life cycle for any number of  *)
(* threads and any time slice: IInv of module Threads is inductive.  And   *)
(* what the proofs about the condition give for MCKernel, where it is      *)
(* beside them.                                                            *)
(***************************************************************************)
EXTENDS MCKernel, SeqLemmas

\* Where schedule() returns to, for each place it is called from.
MayReturn(from, to) ==
  \/ from = to
  \/ from = "hlt" /\ to = "idle"
  \/ from = "idle" /\ to = "halt"
  \/ from = "join_schedule" /\ to = "join"
  \/ from = "exit_schedule" /\ to = "gone"

\* The state main() leaves to scheduler_idle satisfies the invariant.
LEMMA InitIInv == Init => IInv
<1> SUFFICES ASSUME Init PROVE IInv
  OBVIOUS
<1> USE IdleAssumption, CondAssumption, TimesliceAssumption, InitAssumption,
        ExitValueAssumption
    DEF Init, SchedInit
<1>1. ready = <<init>> /\ ready \in Seq(Thread) /\ ToSet(ready) = {init}
      /\ IsInjective(ready)
  BY DEF ToSet, IsInjective
<1>2. TypeOK
  <2>1. wait \in [Cond -> Seq(Thread)]
    BY EmptyQueue
  <2>2. remained_time \in 0..TIMESLICE
    OBVIOUS
  <2>3. state \in [Thread -> ThreadState] /\ pc \in [Thread -> Label]
    BY DEF ThreadState, Label
  <2>4. /\ life \in [Thread -> Life] /\ preempt_count \in Nat
        /\ context \in [Thread -> {"live", "int_on", "int_off"}]
    BY DEF Life
  <2> QED BY <1>1, <2>1, <2>2, <2>3, <2>4 DEF TypeOK
<1>3. SpinExclusion /\ PreemptCountIsLocks
  BY DEF SpinExclusion, PreemptCountIsLocks, LockSection
<1>4. CurrentRuns /\ ReadyQueueOK
  BY <1>1 DEF CurrentRuns, ReadyQueueOK
<1>5. NoLostThread /\ NoLostJoin
  BY <1>1 DEF NoLostThread, NoLostJoin, IsQueued
<1>6. SwitchOK /\ IdleOK /\ LifeOK /\ StateOK /\ JoinOK
  BY DEF SwitchOK, IdleOK, LifeOK, StateOK, JoinOK, JoinLabel
<1>7. WaitOK
  BY EmptyQueue DEF WaitOK
<1> QED BY <1>2, <1>3, <1>4, <1>5, <1>6, <1>7 DEF IInv

\* switch_threads to a runnable thread that is taken from the queue, or idle.
LEMMA SwitchStep ==
  ASSUME IInv, context[cpu] = "live", preempt_count = 0,
         NEW next \in Thread, next # cpu,
         state[next] = "ACTIVE", life[next] = "started",
         SwitchThreads(cpu, next),
         remained_time' \in 0..TIMESLICE,
         ready' \in Seq(Thread), IsInjective(ready'),
         ToSet(ready') = (ToSet(ready) \ {next}) \cup
              (IF state[cpu] = "ACTIVE" /\ cpu # idle THEN {cpu} ELSE {}),
         NEW label \in Label, pc' = [pc EXCEPT ![cpu] = label],
         MayReturn(pc[cpu], label),
         UNCHANGED threadVars
  PROVE  IInv'
<1> USE IdleAssumption, CondAssumption
<1>1. /\ TypeOK /\ SpinExclusion /\ PreemptCountIsLocks /\ CurrentRuns
      /\ ReadyQueueOK /\ NoLostThread /\ NoLostJoin
      /\ SwitchOK /\ IdleOK /\ LifeOK /\ StateOK /\ JoinOK /\ WaitOK
      /\ current = cpu
  BY DEF IInv, CurrentRuns
<1>2. /\ UNCHANGED <<life, parent, target, result, rax, retval>>
      /\ UNCHANGED <<current, state, wait, preempt_count>>
      /\ cpu' = next /\ ~int_enabled' /\ int_enabled' \in BOOLEAN
      /\ context' = [context EXCEPT ![cpu] = SavedFlag(int_enabled)]
  BY DEF threadVars, SwitchThreads
<1>3. TypeOK'
  BY <1>1, <1>2 DEF TypeOK, SavedFlag
<1>4. /\ \A t \in Thread : ~Running(t)' /\ context'[t] # "live"
      /\ pc[cpu] \notin LockSection /\ Running(cpu)
      /\ \A t \in Thread : t # cpu => ~Running(t) /\ pc'[t] = pc[t]
      /\ pc'[cpu] = label /\ cpu \in Thread
  <2>1. \A t \in Thread : context'[t] # "live"
    BY <1>1, <1>2 DEF TypeOK, SavedFlag, SwitchOK
  <2>2. Running(cpu)
    BY DEF Running
  <2>3. pc[cpu] \notin LockSection
    BY <1>1, <2>2 DEF PreemptCountIsLocks, TypeOK
  <2> QED BY <1>1, <2>1, <2>2, <2>3 DEF TypeOK, Running
<1>5. (SpinExclusion /\ PreemptCountIsLocks)'
  BY <1>1, <1>2, <1>4
  DEF SpinExclusion, PreemptCountIsLocks, LockSection, MayReturn
<1>6. CurrentRuns'
  BY <1>1, <1>2, <1>4 DEF CurrentRuns
<1>7. (ReadyQueueOK /\ NoLostThread)'
  BY <1>1, <1>2 DEF ReadyQueueOK, NoLostThread, IsQueued, CurrentRuns
<1>8. (NoLostJoin /\ WaitOK /\ LifeOK)'
  BY <1>1, <1>2 DEF NoLostJoin, WaitOK, LifeOK
<1>9. SwitchOK'
  BY <1>2, <1>4 DEF SwitchOK
<1>10. IdleOK'
  BY <1>1, <1>2, <1>4 DEF IdleOK, MayReturn
<1>11. StateOK'
  BY <1>1, <1>2, <1>4 DEF StateOK, MayReturn
<1>12. JoinOK'
  BY <1>1, <1>2, <1>4 DEF JoinOK, JoinLabel, MayReturn
<1> QED
  BY <1>3, <1>5, <1>6, <1>7, <1>8, <1>9, <1>10, <1>11, <1>12 DEF IInv

\* Whoever calls schedule(), from whichever place, the invariant survives.
LEMMA ScheduleStep ==
  ASSUME IInv, context[cpu] = "live",
         NEW left \in 0..TIMESLICE, Schedule(left),
         NEW label \in Label, pc' = [pc EXCEPT ![cpu] = label],
         MayReturn(pc[cpu], label),
         UNCHANGED threadVars
  PROVE  IInv'
<1> USE IdleAssumption, CondAssumption, TimesliceAssumption
<1>0. /\ TypeOK /\ SpinExclusion /\ PreemptCountIsLocks /\ CurrentRuns
      /\ ReadyQueueOK /\ NoLostThread /\ NoLostJoin
      /\ SwitchOK /\ IdleOK /\ LifeOK /\ StateOK /\ JoinOK /\ WaitOK
      /\ current = cpu
  BY DEF IInv, CurrentRuns
<1>c. UNCHANGED <<life, parent, target, result, rax, retval>>
  BY DEF threadVars
<1>1. CASE preempt_count # 0
  <2>1. /\ pc[cpu] \in LockSection /\ pc' = pc
        /\ remained_time' = left
        /\ UNCHANGED <<cpu, current, ready, state, context, preempt_count,
                       int_enabled, wait>>
    BY <1>0, <1>1 DEF PreemptCountIsLocks, Running, LockSection, MayReturn,
                      Schedule, TypeOK
  <2> QED
    BY <2>1, <1>0, <1>c
    DEF IInv, TypeOK, SpinExclusion, PreemptCountIsLocks, CurrentRuns,
        ReadyQueueOK, NoLostThread, NoLostJoin, SwitchOK, IdleOK, LifeOK,
        StateOK, JoinOK, WaitOK, Running, IsQueued
<1>2. CASE preempt_count = 0 /\ ready # <<>>
  <2>1. /\ ready' = Requeue(cpu, Tail(ready)) /\ remained_time' = left
        /\ SwitchThreads(cpu, Head(ready))
    BY <1>0, <1>2 DEF Schedule
  <2>2. /\ ready \in Seq(Thread) /\ cpu \in Thread
        /\ Head(ready) \in Thread /\ Tail(ready) \in Seq(Thread)
        /\ Head(ready) \in ToSet(ready)
        /\ ToSet(ready) = ToSet(Tail(ready)) \cup {Head(ready)}
        /\ IsInjective(Tail(ready)) /\ Head(ready) \notin ToSet(Tail(ready))
    BY <1>0, <1>2, TailQueue DEF TypeOK, ReadyQueueOK
  <2>3. /\ Head(ready) # cpu /\ cpu \notin ToSet(Tail(ready))
        /\ state[Head(ready)] = "ACTIVE" /\ life[Head(ready)] = "started"
    BY <1>0, <2>2 DEF ReadyQueueOK
  <2>4. /\ ready' \in Seq(Thread) /\ IsInjective(ready')
        /\ ToSet(ready') = (ToSet(ready) \ {Head(ready)}) \cup
              (IF state[cpu] = "ACTIVE" /\ cpu # idle THEN {cpu} ELSE {})
    <3>1. CASE state[cpu] = "ACTIVE" /\ cpu # idle
      <4> DEFINE line == Tail(ready)
      <4>1. ready' = Append(line, cpu)
        BY <2>1, <3>1 DEF Requeue
      <4>2. /\ line \in Seq(Thread) /\ IsInjective(line)
            /\ cpu \notin ToSet(line)
            /\ ToSet(ready) \ {Head(ready)} = ToSet(line)
        BY <2>2, <2>3
      <4> HIDE DEF line
      <4>3. /\ Append(line, cpu) \in Seq(Thread)
            /\ ToSet(Append(line, cpu)) = ToSet(line) \cup {cpu}
            /\ IsInjective(Append(line, cpu))
        BY <2>2, <4>2, AppendQueue
      <4> QED BY <3>1, <4>1, <4>2, <4>3
    <3>2. CASE ~(state[cpu] = "ACTIVE" /\ cpu # idle)
      <4>1. ready' = Tail(ready)
        BY <2>1, <3>2 DEF Requeue
      <4> QED BY <2>2, <3>2, <4>1
    <3> QED BY <3>1, <3>2
  <2> QED BY <2>1, <2>2, <2>3, <2>4, <1>2, SwitchStep
<1>3. CASE preempt_count = 0 /\ ready = <<>> /\ state[cpu] # "ACTIVE"
  <2>1. /\ ready' = ready /\ remained_time' = left /\ SwitchThreads(cpu, idle)
    BY <1>0, <1>3 DEF Schedule
  <2>2. /\ ready \in Seq(Thread) /\ ToSet(ready) = {} /\ IsInjective(ready)
    BY <1>3, EmptyQueue
  <2>3. idle # cpu /\ state[idle] = "ACTIVE" /\ life[idle] = "started"
    BY <1>0, <1>3 DEF IdleOK
  <2>4. ToSet(ready') = (ToSet(ready) \ {idle}) \cup
              (IF state[cpu] = "ACTIVE" /\ cpu # idle THEN {cpu} ELSE {})
    BY <1>3, <2>1, <2>2
  <2>5. ready' \in Seq(Thread) /\ IsInjective(ready')
    BY <2>1, <2>2
  <2> QED BY <2>1, <2>3, <2>4, <2>5, <1>3, SwitchStep
<1>4. CASE preempt_count = 0 /\ ready = <<>> /\ state[cpu] = "ACTIVE"
  <2>1. /\ remained_time' = TIMESLICE
        /\ UNCHANGED <<cpu, current, ready, state, context, preempt_count,
                       int_enabled, wait>>
    BY <1>0, <1>4 DEF Schedule, ThreadPlace
  <2>2. /\ \A t \in Thread : Running(t)' <=> Running(t)
        /\ Running(cpu) /\ pc[cpu] \notin LockSection
        /\ \A t \in Thread : t # cpu => pc'[t] = pc[t]
        /\ pc'[cpu] = label /\ cpu \in Thread
    BY <1>0, <1>4, <2>1 DEF PreemptCountIsLocks, TypeOK, Running
  <2>3. TypeOK'
    BY <1>0, <1>c, <2>1 DEF TypeOK
  <2>4. (SpinExclusion /\ PreemptCountIsLocks)'
    BY <1>0, <2>1, <2>2
    DEF SpinExclusion, PreemptCountIsLocks, LockSection, MayReturn
  <2>5. (CurrentRuns /\ ReadyQueueOK /\ NoLostThread /\ NoLostJoin)'
    BY <1>0, <1>c, <2>1
    DEF CurrentRuns, ReadyQueueOK, NoLostThread, NoLostJoin, IsQueued
  <2>6. (SwitchOK /\ LifeOK /\ WaitOK)'
    BY <1>0, <1>c, <2>1 DEF SwitchOK, LifeOK, WaitOK
  <2>7. (IdleOK /\ StateOK /\ JoinOK)'
    BY <1>0, <1>c, <1>4, <2>1, <2>2
    DEF IdleOK, StateOK, JoinOK, JoinLabel, MayReturn
  <2> QED BY <2>3, <2>4, <2>5, <2>6, <2>7 DEF IInv
<1> QED BY <1>1, <1>2, <1>3, <1>4, <1>0 DEF TypeOK

\* The thread that gets the CPU marks a finished predecessor DEAD and wakes the
\* thread that joins it.
LEMMA ResumeStep ==
  ASSUME IInv, NEW t \in Thread, Resume(t), UNCHANGED threadVars
  PROVE  IInv'
<1> USE IdleAssumption, CondAssumption, TimesliceAssumption
<1>1. /\ TypeOK /\ SpinExclusion /\ PreemptCountIsLocks /\ CurrentRuns
      /\ ReadyQueueOK /\ NoLostThread /\ NoLostJoin
      /\ SwitchOK /\ IdleOK /\ LifeOK /\ StateOK /\ JoinOK /\ WaitOK
      /\ cpu = t /\ context[t] # "live" /\ state[t] = "ACTIVE"
  BY DEF IInv, Resume, SwitchOK
<1>2. /\ UNCHANGED <<life, parent, target, result, rax, retval>>
      /\ UNCHANGED <<cpu, preempt_count, pc>>
      /\ current' = t /\ remained_time' = TIMESLICE
      /\ context' = [context EXCEPT ![t] = "live"]
      /\ int_enabled' \in BOOLEAN
      /\ ThreadPlace(t)
  BY DEF threadVars, Resume, ThreadPlace
<1>3. /\ \A u \in Thread : ~Running(u) /\ pc[u] \notin LockSection
      /\ \A u \in Thread : Running(u)' <=> u = t
      /\ preempt_count = 0
  BY <1>1, <1>2 DEF Running, SpinExclusion, PreemptCountIsLocks, TypeOK
<1>4. (SpinExclusion /\ PreemptCountIsLocks)'
  BY <1>2, <1>3 DEF SpinExclusion, PreemptCountIsLocks
<1>5. SwitchOK'
  BY <1>1, <1>2 DEF SwitchOK, TypeOK
<1>6. JoinOK /\ life[t] = "started"
  BY <1>1 DEF CurrentRuns
<1>7. CASE state[current] # "FINISHED"
  <2>1. UNCHANGED <<state, wait, ready>>
    BY <1>2, <1>7 DEF ThreadPlace
  <2>2. TypeOK'
    BY <1>1, <1>2, <2>1 DEF TypeOK
  <2>3. (CurrentRuns /\ ReadyQueueOK /\ NoLostThread /\ NoLostJoin)'
    BY <1>1, <1>2, <2>1
    DEF CurrentRuns, ReadyQueueOK, NoLostThread, NoLostJoin, IsQueued
  <2>4. (IdleOK /\ LifeOK /\ JoinOK /\ WaitOK)'
    BY <1>1, <1>2, <2>1 DEF IdleOK, LifeOK, JoinOK, WaitOK
  <2>5. StateOK'
    BY <1>1, <1>2, <1>3, <1>7, <2>1 DEF StateOK
  <2> QED BY <1>4, <1>5, <2>2, <2>3, <2>4, <2>5 DEF IInv
<1>8. CASE state[current] = "FINISHED"
  <2>1. /\ current \in Thread /\ current # t /\ current # idle
        /\ current \in Cond /\ wait[current] \in Seq(Thread)
    BY <1>1, <1>8 DEF TypeOK, IdleOK
  <2>2. NotifyOne(current, [state EXCEPT ![current] = "DEAD"])
    BY <1>2, <1>8 DEF ThreadPlace
  <2>3. CASE wait[current] = <<>>
    <3>1. /\ state' = [state EXCEPT ![current] = "DEAD"]
          /\ UNCHANGED <<wait, ready>>
      BY <2>2, <2>3 DEF NotifyOne
    <3>2. TypeOK'
      BY <1>1, <1>2, <3>1 DEF TypeOK, ThreadState
    <3>3. (CurrentRuns /\ ReadyQueueOK /\ NoLostThread)'
      BY <1>1, <1>2, <1>6, <1>8, <2>1, <3>1
      DEF CurrentRuns, ReadyQueueOK, NoLostThread, IsQueued, TypeOK
    <3>4. NoLostJoin'
      BY <1>1, <1>2, <2>1, <2>3, <3>1, EmptyQueue DEF NoLostJoin, TypeOK
    <3>5. (IdleOK /\ LifeOK /\ JoinOK)'
      BY <1>1, <1>2, <2>1, <3>1 DEF IdleOK, LifeOK, JoinOK, TypeOK
    <3>6. WaitOK'
      BY <1>1, <1>2, <1>8, <2>1, <3>1 DEF WaitOK, TypeOK
    <3>7. StateOK'
      BY <1>1, <1>2, <1>3, <1>8, <2>1, <3>1 DEF StateOK, TypeOK
    <3> QED
      BY <1>4, <1>5, <3>2, <3>3, <3>4, <3>5, <3>6, <3>7 DEF IInv
  <2>4. CASE wait[current] # <<>>
    <3> DEFINE w == Head(wait[current])
    <3>1. /\ state' = [state EXCEPT ![current] = "DEAD", ![w] = "ACTIVE"]
          /\ wait' = [wait EXCEPT ![current] = Tail(@)]
          /\ ready' = Append(ready, w)
      BY <2>2, <2>4 DEF NotifyOne
    <3>2. /\ w \in Thread /\ Tail(wait[current]) \in Seq(Thread)
          /\ w \in ToSet(wait[current])
          /\ ToSet(wait[current]) = ToSet(Tail(wait[current])) \cup {w}
          /\ IsInjective(Tail(wait[current]))
          /\ w \notin ToSet(Tail(wait[current]))
      BY <1>1, <2>1, <2>4, TailQueue DEF WaitOK
    <3>3. state[w] = "BLOCKED" /\ target[w] = current
      BY <1>1, <2>1, <3>2 DEF WaitOK
    <3>4. /\ w # current /\ w # t /\ w # idle /\ w \notin ToSet(ready)
          /\ life[w] = "started"
      BY <1>1, <1>8, <3>2, <3>3 DEF ReadyQueueOK, IdleOK, LifeOK
    <3>5. /\ ready' \in Seq(Thread) /\ IsInjective(ready')
          /\ ToSet(ready') = ToSet(ready) \cup {w}
      BY <1>1, <3>1, <3>2, <3>4, AppendQueue DEF TypeOK, ReadyQueueOK
    <3> HIDE DEF w
    <3>6. /\ state' \in [Thread -> ThreadState]
          /\ state'[current] = "DEAD" /\ state'[w] = "ACTIVE"
          /\ \A u \in Thread \ {current, w} : state'[u] = state[u]
      BY <1>1, <2>1, <3>1, <3>2, <3>4 DEF TypeOK, ThreadState
    <3>7. /\ wait' \in [Cond -> Seq(Thread)]
          /\ wait'[current] = Tail(wait[current])
          /\ \A c \in Cond \ {current} : wait'[c] = wait[c]
      BY <1>1, <2>1, <3>1, <3>2 DEF TypeOK
    <3>8. TypeOK'
      <4>1. /\ context' \in [Thread -> {"live", "int_on", "int_off"}]
            /\ remained_time' \in 0..TIMESLICE
        BY <1>1, <1>2 DEF TypeOK
      <4> QED BY <1>1, <1>2, <3>5, <3>6, <3>7, <4>1 DEF TypeOK
    <3>9. (CurrentRuns /\ ReadyQueueOK)'
      <4>1. CurrentRuns'
        BY <1>1, <1>2, <1>6, <2>1, <3>4, <3>6 DEF CurrentRuns
      <4>2. ASSUME NEW u \in ToSet(ready')
            PROVE  /\ state'[u] = "ACTIVE" /\ u \notin {cpu', idle}
                   /\ life'[u] = "started"
        <5>1. CASE u = w
          BY <1>1, <1>2, <3>4, <3>6, <5>1
        <5>2. CASE u # w
          <6>1. u \in ToSet(ready) /\ u \in Thread
            BY <1>1, <3>5, <4>2, <5>2, QueueElements DEF TypeOK
          <6> QED BY <1>1, <1>2, <1>8, <3>6, <5>2, <6>1 DEF ReadyQueueOK
        <5> QED BY <5>1, <5>2
      <4> QED BY <3>5, <4>1, <4>2 DEF ReadyQueueOK
    <3>16. NoLostThread'
      BY <1>1, <1>2, <2>1, <3>4, <3>5, <3>6 DEF NoLostThread, IsQueued
    <3>10. \A u \in Thread : state[u] = "BLOCKED" /\ target[u] = current
                              => u = w
      BY <1>1, <3>2, <3>3 DEF StateOK, JoinOK, JoinLabel
    <3>11. NoLostJoin'
      BY <1>1, <1>2, <2>1, <3>2, <3>4, <3>6, <3>7, <3>10
      DEF NoLostJoin, TypeOK
    <3>12. WaitOK'
      <4>1. ASSUME NEW c \in Cond \ {current}
            PROVE  /\ IsInjective(wait'[c])
                   /\ \A v \in ToSet(wait'[c]) : /\ state'[v] = "BLOCKED"
                                                /\ target'[v] = c
        <5>1. wait'[c] = wait[c] /\ ToSet(wait[c]) \subseteq Thread
          BY <1>1, <3>7 DEF TypeOK, ToSet
        <5> QED BY <1>1, <1>2, <1>8, <3>3, <3>6, <5>1 DEF WaitOK
      <4>2. /\ IsInjective(wait'[current])
            /\ \A v \in ToSet(wait'[current]) : /\ state'[v] = "BLOCKED"
                                               /\ target'[v] = current
        <5>1. ToSet(wait[current]) \subseteq Thread
          BY <1>1, <2>1 DEF TypeOK, ToSet
        <5>2. ASSUME NEW v \in ToSet(Tail(wait[current]))
              PROVE  state'[v] = "BLOCKED" /\ target'[v] = current
          <6>1. v \in Thread /\ state[v] = "BLOCKED" /\ target[v] = current
            BY <1>1, <2>1, <3>2, <5>1 DEF WaitOK
          <6>2. v # w /\ v # current
            BY <1>8, <3>2, <6>1
          <6> QED BY <1>2, <3>6, <6>1, <6>2
        <5> QED BY <3>2, <3>7, <5>2
      <4> QED BY <4>1, <4>2 DEF WaitOK
    <3>13. (IdleOK /\ LifeOK)'
      BY <1>1, <1>2, <2>1, <3>2, <3>4, <3>6 DEF IdleOK, LifeOK
    <3>14. JoinOK'
      <4>1. \A u \in Thread : state[u] = "DEAD" => state'[u] = "DEAD"
        BY <1>8, <3>3, <3>6
      <4>2. \A u \in Thread : target[u] \in Thread
        BY <1>1 DEF TypeOK
      <4> QED BY <1>1, <1>2, <4>1, <4>2 DEF JoinOK
    <3>15. StateOK'
      BY <1>1, <1>2, <1>3, <1>8, <2>1, <3>4, <3>6 DEF StateOK
    <3> QED
      BY <1>4, <1>5, <3>8, <3>9, <3>11, <3>12, <3>13, <3>14, <3>15,
         <3>16 DEF IInv
  <2> QED BY <2>3, <2>4
<1> QED BY <1>7, <1>8

\* The timer interrupt, wherever it comes.
LEMMA TickStep ==
  ASSUME IInv, TimerTick
  PROVE  IInv'
<1>1. /\ int_enabled /\ context[cpu] = "live" /\ cpu \in Thread
      /\ pc \in [Thread -> Label] /\ remained_time \in 0..TIMESLICE
      /\ TIMESLICE \in Nat /\ UNCHANGED threadVars
  BY TimesliceAssumption DEF IInv, TypeOK, SwitchOK, TimerTick, Tick
<1> DEFINE label == IF pc[cpu] = "hlt" THEN "idle" ELSE pc[cpu]
<1>2. /\ label \in Label /\ pc' = [pc EXCEPT ![cpu] = label]
      /\ MayReturn(pc[cpu], label)
  BY <1>1 DEF Label, TimerTick, Tick, MayReturn
<1>3. CASE remained_time <= 1 /\ Schedule(0)
  <2>1. 0 \in 0..TIMESLICE
    BY <1>1
  <2> QED BY <1>1, <1>2, <1>3, <2>1, ScheduleStep
<1>4. CASE remained_time > 1 /\ remained_time' = remained_time - 1
           /\ UNCHANGED <<cpu, current, ready, state, context, preempt_count,
                          int_enabled, wait>>
  <2> HIDE DEF label
  <2>1. /\ TypeOK /\ SpinExclusion /\ PreemptCountIsLocks /\ CurrentRuns
        /\ ReadyQueueOK /\ NoLostThread /\ NoLostJoin
        /\ SwitchOK /\ IdleOK /\ LifeOK /\ StateOK /\ JoinOK /\ WaitOK
        /\ UNCHANGED <<life, parent, target, result, rax, retval>>
    BY <1>1 DEF IInv, threadVars
  <2>2. /\ pc'[cpu] = label /\ \A t \in Thread \ {cpu} : pc'[t] = pc[t]
        /\ label = pc[cpu] \/ (pc[cpu] = "hlt" /\ label = "idle")
    BY <1>1, <1>2 DEF label
  <2>3. TypeOK'
    <3>1. remained_time' \in 0..TIMESLICE
      BY <1>1, <1>4
    <3> QED BY <1>2, <1>4, <2>1, <3>1 DEF TypeOK
  <2>4. (SpinExclusion /\ PreemptCountIsLocks)'
    BY <1>4, <2>1, <2>2
    DEF SpinExclusion, PreemptCountIsLocks, LockSection, Running
  <2>5. (CurrentRuns /\ ReadyQueueOK /\ NoLostThread /\ NoLostJoin)'
    BY <1>4, <2>1
    DEF CurrentRuns, ReadyQueueOK, NoLostThread, NoLostJoin, IsQueued
  <2>6. (SwitchOK /\ LifeOK /\ WaitOK)'
    BY <1>4, <2>1 DEF SwitchOK, LifeOK, WaitOK
  <2>7. (IdleOK /\ JoinOK)'
    BY <1>4, <2>1, <2>2 DEF IdleOK, JoinOK, JoinLabel
  <2>8. StateOK'
    BY <1>4, <2>1, <2>2 DEF StateOK, Running
  <2> QED BY <2>3, <2>4, <2>5, <2>6, <2>7, <2>8 DEF IInv
<1> QED BY <1>3, <1>4 DEF TimerTick, Tick

\* The steps that move only the program counter of the running thread and the
\* state of its processor: preempt_count and the interrupt flag.
LEMMA LocalStep ==
  ASSUME IInv, NEW t \in Thread, Running(t), NEW label \in Label,
         pc' = [pc EXCEPT ![t] = label],
         preempt_count' = IF label \in LockSection THEN 1 ELSE 0,
         int_enabled' \in BOOLEAN,
         UNCHANGED <<cpu, current, ready, state, context, remained_time, wait,
                     life, parent>>,
         target' \in [Thread -> Thread],
         \A u \in Thread \ {t} : target'[u] = target[u],
         <<result', rax', retval'>> \in [Thread -> ExitValue] \X
                   [Thread -> ExitValue] \X [Thread -> ExitValue],
         state[t] \in {"ACTIVE", "BLOCKED"},
         state[t] = "BLOCKED" => /\ label = "join_schedule"
                                 /\ target'[t] = target[t],
         label \notin {"exit_schedule", "gone"},
         t = idle <=> label \in {"boot", "idle", "halt", "hlt"},
         label \in JoinLabel => /\ parent[target'[t]] = t
                               /\ life[target'[t]] = "started"
                               /\ target'[t] # idle,
         label = "joined" => state[target'[t]] = "DEAD"
  PROVE  IInv'
<1> USE IdleAssumption, CondAssumption
<1>1. /\ TypeOK /\ SpinExclusion /\ PreemptCountIsLocks /\ CurrentRuns
      /\ ReadyQueueOK /\ NoLostThread /\ NoLostJoin
      /\ SwitchOK /\ IdleOK /\ LifeOK /\ StateOK /\ JoinOK /\ WaitOK
      /\ cpu = t /\ current = t /\ context[t] = "live"
  BY DEF IInv, CurrentRuns, Running
<1>2. /\ pc'[t] = label /\ \A u \in Thread \ {t} : pc'[u] = pc[u]
      /\ \A u \in Thread : Running(u)' <=> u = t
      /\ \A u \in Thread : Running(u) <=> u = t
  BY <1>1 DEF TypeOK, Running
<1>3. TypeOK'
  BY <1>1 DEF TypeOK
<1>4. (SpinExclusion /\ PreemptCountIsLocks)'
  BY <1>1, <1>2 DEF SpinExclusion, PreemptCountIsLocks
<1>5. (CurrentRuns /\ ReadyQueueOK /\ NoLostThread /\ LifeOK)'
  BY <1>1 DEF CurrentRuns, ReadyQueueOK, NoLostThread, IsQueued, LifeOK
<1>6. (NoLostJoin /\ SwitchOK /\ IdleOK)'
  BY <1>1, <1>2 DEF NoLostJoin, SwitchOK, IdleOK
<1>7. (StateOK /\ JoinOK)'
  BY <1>1, <1>2 DEF StateOK, JoinOK
<1>8. WaitOK'
  <2>1. \A c \in Cond : ToSet(wait[c]) \subseteq Thread
    BY <1>1, QueueElements DEF TypeOK
  <2> QED BY <1>1, <2>1 DEF WaitOK
<1> QED BY <1>3, <1>4, <1>5, <1>6, <1>7, <1>8 DEF IInv

\* What the running thread is, at the label it executes.
LEMMA RunningThread ==
  ASSUME IInv, NEW t \in Thread, Running(t)
  PROVE  /\ cpu = t /\ current = t /\ context[t] = "live"
         /\ state[t] # "DEAD" /\ life[t] = "started" /\ pc[t] \in Label
         /\ preempt_count = IF pc[t] \in LockSection THEN 1 ELSE 0
         /\ pc[t] \notin {"join_unlock", "join_schedule", "exit_schedule",
                         "gone"} => state[t] = "ACTIVE"
         /\ pc[t] \in {"join_unlock", "join_schedule"} =>
              state[t] \in {"ACTIVE", "BLOCKED"}
         /\ int_enabled \in BOOLEAN
         /\ t \notin ToSet(ready)
<1>1. /\ cpu = t /\ current = t /\ context[t] = "live"
      /\ state[t] # "DEAD" /\ life[t] = "started" /\ pc[t] \in Label
      /\ int_enabled \in BOOLEAN /\ state[t] \in ThreadState
      /\ t \notin ToSet(ready)
  BY DEF IInv, CurrentRuns, Running, TypeOK, ReadyQueueOK
<1>2. preempt_count = IF pc[t] \in LockSection THEN 1 ELSE 0
  BY <1>1 DEF IInv, PreemptCountIsLocks, Running
<1>3. /\ pc[t] \notin {"join_unlock", "join_schedule", "exit_schedule",
                      "gone"} => state[t] = "ACTIVE"
      /\ pc[t] \in {"join_unlock", "join_schedule"} =>
           state[t] \in {"ACTIVE", "BLOCKED"}
  BY <1>1 DEF IInv, StateOK, ThreadState
<1> QED BY <1>1, <1>2, <1>3

\* The idle loop.
LEMMA IdleStep ==
  ASSUME IInv, Idle, UNCHANGED threadVars
  PROVE  IInv'
<1> USE IdleAssumption
<1>1. Running(idle)
  BY DEF Idle, IdleStart, IdleSchedule, IdleHalt
<1>2. /\ TypeOK /\ context[cpu] = "live" /\ cpu = idle /\ state[idle] = "ACTIVE"
      /\ UNCHANGED <<life, parent, target, result, rax, retval>>
      /\ preempt_count = IF pc[idle] \in LockSection THEN 1 ELSE 0
      /\ remained_time \in 0..TIMESLICE
  BY <1>1, RunningThread DEF IInv, IdleOK, threadVars, TypeOK
<1>3. CASE IdleSchedule
  <2>1. /\ pc[cpu] = "idle" /\ Schedule(remained_time)
        /\ pc' = [pc EXCEPT ![cpu] = "halt"]
    BY <1>2, <1>3 DEF IdleSchedule, CallSchedule, Goto
  <2>2. "halt" \in Label /\ MayReturn(pc[cpu], "halt")
    BY <2>1 DEF Label, MayReturn
  <2> QED BY <1>2, <2>1, <2>2, ScheduleStep
<1>4. CASE IdleStart \/ IdleHalt
  <2>1. PICK label \in {"idle", "hlt"} :
          /\ pc' = [pc EXCEPT ![idle] = label]
          /\ int_enabled' \in BOOLEAN
          /\ UNCHANGED <<cpu, current, ready, state, context, remained_time,
                         wait, preempt_count>>
          /\ pc[idle] \in {"boot", "halt"}
    BY <1>2, <1>4 DEF IdleStart, IdleHalt, Goto, schedVars, TypeOK
  <2>2. /\ label \in Label /\ label \notin LockSection \cup JoinLabel
        /\ label \notin {"joined", "exit_schedule", "gone"}
        /\ pc[idle] \notin LockSection
    BY <2>1 DEF Label, LockSection, JoinLabel
  <2>3. <<result', rax', retval'>> \in [Thread -> ExitValue] \X
                   [Thread -> ExitValue] \X [Thread -> ExitValue]
        /\ target' \in [Thread -> Thread]
    BY <1>2 DEF TypeOK
  <2> QED BY <1>1, <1>2, <2>1, <2>2, <2>3, LocalStep
<1> QED BY <1>3, <1>4 DEF Idle

\* The four places where a thread calls schedule().
LEMMA CallScheduleStep ==
  ASSUME IInv, NEW t \in Thread,
         Yield(t) \/ JoinSchedule(t) \/ ExitSchedule(t)
  PROVE  IInv'
<1>1. PICK label \in {"run", "join", "gone"} :
        /\ Running(t) /\ Schedule(remained_time)
        /\ pc' = [pc EXCEPT ![t] = label]
        /\ MayReturn(pc[t], label)
        /\ UNCHANGED threadVars
  BY DEF Yield, JoinSchedule, ExitSchedule, At, CallSchedule, Goto, MayReturn
<1>2. /\ cpu = t /\ context[cpu] = "live" /\ label \in Label
      /\ remained_time \in 0..TIMESLICE
  BY <1>1, RunningThread DEF Label, IInv, TypeOK
<1> QED BY <1>1, <1>2, ScheduleStep

\* Spinlock sections and the unlock in __wait.
LEMMA SpinStep ==
  ASSUME IInv, NEW t \in Thread,
         \/ LockSpin(t) \/ UnlockSpin(t) \/ LockSpinInt(t)
         \/ UnlockSpinInt(t) \/ JoinUnlock(t)
  PROVE  IInv'
<1>1. Running(t) /\ UNCHANGED <<life, parent, target, result, rax, retval>>
  BY DEF LockSpin, UnlockSpin, LockSpinInt, UnlockSpinInt, JoinUnlock, At,
         threadVars
<1>2. /\ t # idle /\ TypeOK /\ JoinOK
      /\ preempt_count = IF pc[t] \in LockSection THEN 1 ELSE 0
      /\ pc[t] # "join_unlock" => state[t] = "ACTIVE"
      /\ state[t] \in {"ACTIVE", "BLOCKED"} /\ int_enabled \in BOOLEAN
  BY <1>1, RunningThread
  DEF IInv, IdleOK, LockSpin, UnlockSpin, LockSpinInt, UnlockSpinInt,
      JoinUnlock, At
<1>3. PICK label \in {"run", "held", "held_int", "join_schedule"} :
        /\ pc' = [pc EXCEPT ![t] = label]
        /\ preempt_count' = IF label \in LockSection THEN 1 ELSE 0
        /\ int_enabled' \in BOOLEAN
        /\ UNCHANGED <<cpu, current, ready, state, context, remained_time,
                       wait>>
        /\ label = "join_schedule" <=> pc[t] = "join_unlock"
  <2>1. CASE LockSpin(t) \/ UnlockSpin(t)
    <3>1. /\ int_enabled' = int_enabled
          /\ UNCHANGED <<cpu, current, ready, state, context, remained_time,
                         wait>>
          /\ pc[t] # "join_unlock"
      BY <2>1 DEF LockSpin, UnlockSpin, At, SpinLock, SpinUnlock
    <3>2. CASE LockSpin(t)
      <4>1. pc' = [pc EXCEPT ![t] = "held"] /\ preempt_count' = 1
        BY <1>2, <3>2 DEF LockSpin, At, Goto, SpinLock, LockSection
      <4> QED BY <1>2, <3>1, <4>1 DEF LockSection
    <3>3. CASE UnlockSpin(t)
      <4>1. pc' = [pc EXCEPT ![t] = "run"] /\ preempt_count' = 0
        BY <1>2, <3>3 DEF UnlockSpin, At, Goto, SpinUnlock, LockSection
      <4> QED BY <1>2, <3>1, <4>1 DEF LockSection
    <3> QED BY <2>1, <3>2, <3>3
  <2>2. CASE LockSpinInt(t) \/ UnlockSpinInt(t)
    <3>1. /\ UNCHANGED <<cpu, current, ready, state, context, remained_time,
                         wait>>
          /\ pc[t] # "join_unlock"
      BY <2>2 DEF LockSpinInt, UnlockSpinInt, At
    <3>2. CASE LockSpinInt(t)
      <4>1. /\ pc' = [pc EXCEPT ![t] = "held_int"] /\ preempt_count' = 1
            /\ int_enabled' = FALSE
        BY <1>2, <3>2 DEF LockSpinInt, At, Goto, SpinLockInt, LockSection
      <4> QED BY <3>1, <4>1 DEF LockSection
    <3>3. CASE UnlockSpinInt(t)
      <4>1. pc' = [pc EXCEPT ![t] = "run"] /\ preempt_count' = 0
        BY <1>2, <3>3 DEF UnlockSpinInt, At, Goto, SpinUnlockInt, LockSection
      <4>2. int_enabled' = (TRUE \/ int_enabled)
        BY <3>3 DEF UnlockSpinInt, SpinUnlockInt
      <4>3. int_enabled' \in BOOLEAN
        BY <4>2
      <4> QED BY <3>1, <4>1, <4>3 DEF LockSection
    <3> QED BY <2>2, <3>2, <3>3
  <2>3. CASE JoinUnlock(t)
    <3>1. /\ int_enabled' = int_enabled
          /\ UNCHANGED <<cpu, current, ready, state, context, remained_time,
                         wait>>
          /\ pc[t] = "join_unlock"
      BY <2>3 DEF JoinUnlock, At, SpinUnlock
    <3>2. pc' = [pc EXCEPT ![t] = "join_schedule"] /\ preempt_count' = 0
      BY <1>2, <2>3 DEF JoinUnlock, At, Goto, SpinUnlock, LockSection
    <3> QED BY <1>2, <3>1, <3>2 DEF LockSection
  <2> QED BY <2>1, <2>2, <2>3
<1>4. /\ label \in JoinLabel => /\ parent[target'[t]] = t
                               /\ life[target'[t]] = "started"
                               /\ target'[t] # idle
      /\ label \in Label
      /\ state[t] = "BLOCKED" => label = "join_schedule" /\ target'[t] = target[t]
      /\ label \notin {"boot", "idle", "halt", "hlt", "exit_schedule", "gone",
                      "joined"}
  BY <1>1, <1>2, <1>3 DEF JoinOK, JoinLabel, Label
<1>5. <<result', rax', retval'>> \in [Thread -> ExitValue] \X
                   [Thread -> ExitValue] \X [Thread -> ExitValue]
        /\ target' \in [Thread -> Thread]
    BY <1>1, <1>2 DEF TypeOK
<1> QED BY <1>1, <1>2, <1>3, <1>4, <1>5, LocalStep

\* thread_join up to its first test, and its return once the target is DEAD.
LEMMA JoinEndsStep ==
  ASSUME IInv, NEW t \in Thread,
         (\E u \in Thread : Join(t, u)) \/ JoinDead(t)
  PROVE  IInv'
<1>1. /\ Running(t) /\ UNCHANGED <<schedVars, life, parent, result, rax, retval>>
      /\ pc[t] \in {"run", "join"}
  BY DEF Join, JoinDead, At, threadVars
<1>2. /\ t # idle /\ TypeOK /\ JoinOK /\ preempt_count = 0
      /\ state[t] = "ACTIVE" /\ int_enabled \in BOOLEAN
  BY <1>1, RunningThread DEF IInv, IdleOK, LockSection
<1>3. PICK label \in {"join", "joined"} :
        /\ pc' = [pc EXCEPT ![t] = label]
        /\ target' \in [Thread -> Thread]
        /\ \A u \in Thread \ {t} : target'[u] = target[u]
        /\ parent[target'[t]] = t /\ life[target'[t]] = "started"
        /\ target'[t] # idle
        /\ label = "joined" => state[target'[t]] = "DEAD"
  <2>1. CASE JoinDead(t)
    BY <1>2, <2>1 DEF JoinDead, At, Goto, JoinOK, JoinLabel, threadVars, TypeOK
  <2>2. ASSUME NEW u \in Thread, Join(t, u)
        PROVE  /\ pc' = [pc EXCEPT ![t] = "join"]
               /\ target' \in [Thread -> Thread]
               /\ \A v \in Thread \ {t} : target'[v] = target[v]
               /\ parent[target'[t]] = t /\ life[target'[t]] = "started"
               /\ target'[t] # idle
    BY <1>2, <2>2 DEF Join, Goto, TypeOK
  <2> QED BY <2>1, <2>2
<1>4. /\ <<result', rax', retval'>> \in [Thread -> ExitValue] \X
                   [Thread -> ExitValue] \X [Thread -> ExitValue]
      /\ UNCHANGED <<cpu, current, ready, state, context, remained_time, wait,
                     life, parent, preempt_count, int_enabled>>
  BY <1>1, <1>2 DEF TypeOK, schedVars
<1>5. label \in Label /\ label \notin LockSection
  BY DEF Label, LockSection
<1> QED BY <1>1, <1>2, <1>3, <1>4, <1>5, LocalStep

\* The two ways a thread function ends.
LEMMA BodyEndsStep ==
  ASSUME IInv, NEW t \in Thread, NEW r \in ExitValue,
         Return(t, r) \/ CallExit(t, r)
  PROVE  IInv'
<1>1. /\ Running(t) /\ pc[t] = "run" /\ pc' = [pc EXCEPT ![t] = "exit"]
      /\ UNCHANGED <<cpu, current, ready, state, context, remained_time,
                     wait, life, parent, target, preempt_count>>
  BY DEF Return, CallExit, At, Goto, schedVars
<1>2. /\ t # idle /\ TypeOK /\ preempt_count = 0
      /\ state[t] = "ACTIVE" /\ int_enabled \in BOOLEAN
  BY <1>1, RunningThread DEF IInv, IdleOK, LockSection
<1>3. /\ <<result', rax', retval'>> \in [Thread -> ExitValue] \X
                   [Thread -> ExitValue] \X [Thread -> ExitValue]
      /\ int_enabled' \in BOOLEAN
  <2>1. CASE Return(t, r)
    <3>1. int_enabled' = FALSE
      BY <2>1 DEF Return
    <3>2. /\ result' = [result EXCEPT ![t] = r]
          /\ rax' = [rax EXCEPT ![t] = 0] /\ retval' = retval
      BY <2>1 DEF Return
    <3> QED BY <1>2, <3>1, <3>2, ExitValueAssumption DEF TypeOK
  <2>2. CASE CallExit(t, r)
    <3>1. int_enabled' = int_enabled
      BY <2>2 DEF CallExit, schedVars
    <3>2. /\ result' = [result EXCEPT ![t] = r]
          /\ rax' = [rax EXCEPT ![t] = r] /\ retval' = retval
      BY <2>2 DEF CallExit
    <3> QED BY <1>2, <3>1, <3>2 DEF TypeOK
  <2> QED BY <2>1, <2>2
<1>4. /\ "exit" \in Label /\ "exit" \notin LockSection /\ "exit" \notin JoinLabel
      /\ target' \in [Thread -> Thread]
  BY <1>1, <1>2 DEF Label, LockSection, JoinLabel, TypeOK
<1> QED BY <1>1, <1>2, <1>3, <1>4, LocalStep

\* __wait of thread_join queues the thread on the cv and blocks it.
LEMMA JoinWaitStep ==
  ASSUME IInv, NEW t \in Thread, JoinWait(t)
  PROVE  IInv'
<1> USE IdleAssumption, CondAssumption
<1>1. /\ TypeOK /\ SpinExclusion /\ PreemptCountIsLocks /\ CurrentRuns
      /\ ReadyQueueOK /\ NoLostThread /\ NoLostJoin
      /\ SwitchOK /\ IdleOK /\ LifeOK /\ StateOK /\ JoinOK /\ WaitOK
  BY DEF IInv
<1>2. /\ Running(t) /\ pc[t] = "join" /\ state[target[t]] # "DEAD"
      /\ cpu = t /\ current = t /\ state[t] = "ACTIVE" /\ preempt_count = 0
      /\ t # idle /\ context[t] = "live"
  BY RunningThread DEF JoinWait, At, LockSection, IInv, IdleOK
<1> DEFINE c == target[t]
<1>3. /\ c \in Thread /\ c \in Cond /\ wait[c] \in Seq(Thread)
      /\ parent[c] = t /\ life[c] = "started" /\ c # idle
      /\ \A d \in Cond : ToSet(wait[d]) \subseteq Thread
      /\ t \notin ToSet(wait[c])
  BY <1>1, <1>2, QueueElements DEF TypeOK, JoinOK, JoinLabel, WaitOK
<1> DEFINE line == Append(wait[c], t)
<1>4. /\ line \in Seq(Thread) /\ ToSet(line) = ToSet(wait[c]) \cup {t}
      /\ IsInjective(line)
  BY <1>1, <1>3, AppendQueue DEF WaitOK
<1>5. /\ wait' = [wait EXCEPT ![c] = line]
      /\ state' = [state EXCEPT ![t] = "BLOCKED"]
      /\ preempt_count' = 1 /\ int_enabled' = TRUE
      /\ pc' = [pc EXCEPT ![t] = "join_unlock"]
      /\ UNCHANGED <<cpu, current, ready, context, remained_time, life, parent,
                     target, result, rax, retval>>
  BY <1>1, <1>2, <1>3 DEF JoinWait, ThreadBlock, Goto, threadVars, TypeOK
<1> HIDE DEF c, line
<1>6. /\ state' \in [Thread -> ThreadState] /\ pc' \in [Thread -> Label]
      /\ wait' \in [Cond -> Seq(Thread)]
      /\ state'[t] = "BLOCKED" /\ pc'[t] = "join_unlock" /\ wait'[c] = line
      /\ \A u \in Thread \ {t} : state'[u] = state[u] /\ pc'[u] = pc[u]
      /\ \A d \in Cond \ {c} : wait'[d] = wait[d]
      /\ \A u \in Thread : Running(u)' <=> u = t
      /\ \A u \in Thread : Running(u) => u = t
  BY <1>1, <1>2, <1>3, <1>4, <1>5 DEF TypeOK, ThreadState, Label, Running
<1>7. TypeOK'
  BY <1>1, <1>5, <1>6 DEF TypeOK
<1>8. (SpinExclusion /\ PreemptCountIsLocks)'
  BY <1>1, <1>5, <1>6 DEF SpinExclusion, PreemptCountIsLocks, LockSection
<1>9. (CurrentRuns /\ NoLostThread)'
  BY <1>1, <1>2, <1>5, <1>6 DEF CurrentRuns, NoLostThread, IsQueued
<1>10. ReadyQueueOK'
  <2>1. ToSet(ready) \subseteq Thread
    BY <1>1, QueueElements DEF TypeOK
  <2> QED BY <1>1, <1>2, <1>5, <1>6, <2>1 DEF ReadyQueueOK
<1>11. NoLostJoin'
  <2>1. ASSUME NEW u \in Thread, state'[u] = "BLOCKED"
        PROVE  u \in ToSet(wait'[target[u]]) /\ state'[target[u]] # "DEAD"
    <3>1. target[u] \in Thread
      BY <1>1 DEF TypeOK
    <3>2. CASE u = t
      BY <1>2, <1>4, <1>6, <3>1, <3>2 DEF c
    <3>3. CASE u # t
      <4>1. u \in ToSet(wait[target[u]]) /\ state[target[u]] # "DEAD"
        BY <1>1, <1>6, <2>1, <3>3 DEF NoLostJoin
      <4>2. target[u] = c => wait'[target[u]] = line
        BY <1>6
      <4>3. target[u] # c => wait'[target[u]] = wait[target[u]]
        BY <1>6, <3>1
      <4>4. state'[target[u]] # "DEAD"
        BY <1>6, <3>1, <4>1
      <4> QED BY <1>4, <4>1, <4>2, <4>3, <4>4
    <3> QED BY <3>2, <3>3
  <2> QED BY <1>5, <2>1 DEF NoLostJoin
<1>12. WaitOK'
  <2>1. ASSUME NEW d \in Cond
        PROVE  /\ IsInjective(wait'[d])
               /\ \A w \in ToSet(wait'[d]) : /\ state'[w] = "BLOCKED"
                                            /\ target'[w] = d
    <3>1. \A w \in ToSet(wait[d]) : /\ w \in Thread /\ state[w] = "BLOCKED"
                                    /\ target[w] = d /\ w # t
      BY <1>1, <1>2, <1>3 DEF WaitOK
    <3>2. \A w \in ToSet(wait[d]) : state'[w] = "BLOCKED" /\ target'[w] = d
      BY <1>5, <1>6, <3>1
    <3>3. CASE d = c
      <4>1. target'[t] = c /\ state'[t] = "BLOCKED"
        BY <1>5, <1>6 DEF c
      <4> QED BY <1>4, <1>6, <3>2, <3>3, <4>1
    <3>4. CASE d # c
      BY <1>1, <1>6, <3>2, <3>4 DEF WaitOK
    <3> QED BY <3>3, <3>4
  <2> QED BY <2>1 DEF WaitOK
<1>13. (SwitchOK /\ IdleOK /\ LifeOK)'
  BY <1>1, <1>2, <1>5, <1>6 DEF SwitchOK, IdleOK, LifeOK
<1>14. StateOK'
  BY <1>1, <1>5, <1>6 DEF StateOK
<1>15. JoinOK'
  <2>1. \A u \in Thread : target[u] \in Thread
    BY <1>1 DEF TypeOK
  <2> QED BY <1>1, <1>2, <1>5, <1>6, <2>1 DEF JoinOK, JoinLabel
<1> QED
  BY <1>7, <1>8, <1>9, <1>10, <1>11, <1>12, <1>13, <1>14, <1>15 DEF IInv

\* thread_exit marks the running thread FINISHED; it still has the CPU.
LEMMA ThreadExitStep ==
  ASSUME IInv, NEW t \in Thread, ThreadExit(t)
  PROVE  IInv'
<1> USE IdleAssumption, CondAssumption
<1>1. /\ TypeOK /\ SpinExclusion /\ PreemptCountIsLocks /\ CurrentRuns
      /\ ReadyQueueOK /\ NoLostThread /\ NoLostJoin
      /\ SwitchOK /\ IdleOK /\ LifeOK /\ StateOK /\ JoinOK /\ WaitOK
  BY DEF IInv
<1>2. /\ Running(t) /\ pc[t] = "exit" /\ cpu = t /\ current = t
      /\ state[t] = "ACTIVE" /\ preempt_count = 0 /\ t # idle
      /\ context[t] = "live" /\ life[t] = "started"
  BY RunningThread DEF ThreadExit, At, LockSection, IInv, IdleOK
<1>3. /\ state' = [state EXCEPT ![t] = "FINISHED"]
      /\ pc' = [pc EXCEPT ![t] = "exit_schedule"]
      /\ retval' \in [Thread -> ExitValue]
      /\ UNCHANGED <<cpu, current, ready, context, remained_time,
                     preempt_count, int_enabled, wait, life, parent, target,
                     result, rax>>
  BY <1>1, <1>2 DEF ThreadExit, Goto, TypeOK
<1>4. /\ state' \in [Thread -> ThreadState] /\ pc' \in [Thread -> Label]
      /\ state'[t] = "FINISHED" /\ pc'[t] = "exit_schedule"
      /\ \A u \in Thread \ {t} : state'[u] = state[u] /\ pc'[u] = pc[u]
      /\ \A u \in Thread : Running(u)' <=> u = t
      /\ \A u \in Thread : Running(u) => u = t
      /\ \A u \in Thread : target[u] \in Thread
  BY <1>1, <1>2, <1>3 DEF TypeOK, ThreadState, Label, Running
<1>5. TypeOK'
  BY <1>1, <1>3, <1>4 DEF TypeOK
<1>6. (SpinExclusion /\ PreemptCountIsLocks)'
  BY <1>1, <1>2, <1>3, <1>4 DEF SpinExclusion, PreemptCountIsLocks, LockSection
<1>7. (CurrentRuns /\ NoLostThread)'
  BY <1>1, <1>2, <1>3, <1>4 DEF CurrentRuns, NoLostThread, IsQueued
<1>8. ReadyQueueOK'
  <2>1. ToSet(ready) \subseteq Thread
    BY <1>1, QueueElements DEF TypeOK
  <2> QED BY <1>1, <1>2, <1>3, <1>4, <2>1 DEF ReadyQueueOK
<1>9. (NoLostJoin /\ SwitchOK /\ IdleOK /\ LifeOK)'
  BY <1>1, <1>2, <1>3, <1>4 DEF NoLostJoin, SwitchOK, IdleOK, LifeOK
<1>10. WaitOK'
  <2>1. \A d \in Cond : ToSet(wait[d]) \subseteq Thread
    BY <1>1, QueueElements DEF TypeOK
  <2> QED BY <1>1, <1>2, <1>3, <1>4, <2>1 DEF WaitOK
<1>11. (StateOK /\ JoinOK)'
  BY <1>1, <1>2, <1>3, <1>4 DEF StateOK, JoinOK, JoinLabel
<1> QED
  BY <1>5, <1>6, <1>7, <1>8, <1>9, <1>10, <1>11 DEF IInv

\* __thread_create and thread_destroy touch an object nothing refers to.
LEMMA CreateStep ==
  ASSUME IInv, NEW t \in Thread, NEW u \in Thread, Create(t, u)
  PROVE  IInv'
<1> USE IdleAssumption, CondAssumption
<1>1. /\ TypeOK /\ SpinExclusion /\ PreemptCountIsLocks /\ CurrentRuns
      /\ ReadyQueueOK /\ NoLostThread /\ NoLostJoin
      /\ SwitchOK /\ IdleOK /\ LifeOK /\ StateOK /\ JoinOK /\ WaitOK
  BY DEF IInv
<1>2. /\ Running(t) /\ pc[t] = "run" /\ cpu = t /\ current = t
      /\ preempt_count = 0 /\ t # idle /\ context[t] = "live"
      /\ life[t] = "started"
  BY RunningThread DEF Create, At, LockSection, IInv, IdleOK
<1>3. /\ life[u] = "free" /\ u # t /\ u # idle /\ state[u] = "DEAD"
      /\ u \in Cond
  BY <1>1, <1>2 DEF Create, IdleOK, LifeOK
<1>4. /\ life' = [life EXCEPT ![u] = "created"]
      /\ parent' = [v \in Thread |-> IF v = u THEN t ELSE
                                     IF parent[v] = u THEN idle ELSE parent[v]]
      /\ context' = [context EXCEPT ![u] = "int_on"]
      /\ wait' = [wait EXCEPT ![u] = <<>>]
      /\ pc' = [pc EXCEPT ![u] = "run"]
      /\ UNCHANGED <<cpu, current, ready, state, remained_time,
                     preempt_count, int_enabled, target, result, rax, retval>>
  BY DEF Create, Goto
<1>5. /\ life' \in [Thread -> Life] /\ parent' \in [Thread -> Thread]
      /\ context' \in [Thread -> {"live", "int_on", "int_off"}]
      /\ pc' \in [Thread -> Label] /\ wait' \in [Cond -> Seq(Thread)]
      /\ \A v \in Thread \ {u} : /\ life'[v] = life[v] /\ pc'[v] = pc[v]
                                 /\ context'[v] = context[v]
      /\ life'[u] = "created" /\ pc'[u] = "run" /\ context'[u] = "int_on"
      /\ wait'[u] = <<>> /\ \A c \in Cond \ {u} : wait'[c] = wait[c]
      /\ \A v \in Thread : target[v] \in Thread
      /\ \A v \in Thread : Running(v)' <=> v = t
      /\ \A v \in Thread : Running(v) <=> v = t
  BY <1>1, <1>2, <1>3, <1>4, EmptyQueue DEF TypeOK, Life, Label, Running
<1>6. TypeOK'
  BY <1>1, <1>4, <1>5 DEF TypeOK
<1>7. (SpinExclusion /\ PreemptCountIsLocks)'
  BY <1>1, <1>2, <1>4, <1>5 DEF SpinExclusion, PreemptCountIsLocks, LockSection
<1>8. (CurrentRuns /\ NoLostThread)'
  BY <1>1, <1>2, <1>3, <1>4, <1>5 DEF CurrentRuns, NoLostThread, IsQueued
<1>9. ReadyQueueOK'
  <2>1. ToSet(ready) \subseteq Thread
    BY <1>1, QueueElements DEF TypeOK
  <2> QED BY <1>1, <1>2, <1>3, <1>4, <1>5, <2>1 DEF ReadyQueueOK
<1>10. \A v \in Thread : pc[v] \in JoinLabel =>
         /\ v # u /\ target[v] # u
         /\ parent'[target[v]] = parent[target[v]]
  <2>1. pc[u] \notin JoinLabel
    BY <1>1, <1>3 DEF StateOK, JoinLabel
  <2>2. ASSUME NEW v \in Thread, pc[v] \in JoinLabel
        PROVE  v # u /\ target[v] # u /\ parent[target[v]] = v
    BY <1>1, <1>3, <2>1, <2>2 DEF JoinOK
  <2>3. \A v \in Thread : v # u /\ parent[v] # u => parent'[v] = parent[v]
    BY <1>4
  <2> QED BY <1>5, <2>2, <2>3
<1>11. NoLostJoin'
  <2>1. \A v \in Thread : state[v] = "BLOCKED" => pc[v] \in JoinLabel
    BY <1>1 DEF StateOK, JoinLabel
  <2> QED BY <1>1, <1>4, <1>5, <1>10, <2>1, CondAssumption DEF NoLostJoin
<1>12. WaitOK'
  <2>1. \A c \in Cond : ToSet(wait[c]) \subseteq Thread
    BY <1>1, QueueElements DEF TypeOK
  <2>2. ToSet(wait'[u]) = {} /\ IsInjective(wait'[u])
    BY <1>5, EmptyQueue
  <2> QED BY <1>1, <1>4, <1>5, <2>1, <2>2 DEF WaitOK
<1>13. (SwitchOK /\ IdleOK /\ LifeOK)'
  BY <1>1, <1>2, <1>3, <1>4, <1>5 DEF SwitchOK, IdleOK, LifeOK
<1>14. StateOK'
  BY <1>1, <1>2, <1>3, <1>4, <1>5 DEF StateOK
<1>15. JoinOK'
  <2>1. pc'[u] \notin JoinLabel
    BY <1>5 DEF JoinLabel
  <2> QED BY <1>1, <1>4, <1>5, <1>10, <2>1 DEF JoinOK
<1> QED
  BY <1>6, <1>7, <1>8, <1>9, <1>11, <1>12, <1>13, <1>14, <1>15 DEF IInv

\* thread_start makes a thread runnable that no queue and no joiner knows yet.
LEMMA StartStep ==
  ASSUME IInv, NEW t \in Thread, NEW u \in Thread, Start(t, u)
  PROVE  IInv'
<1> USE IdleAssumption, CondAssumption
<1>1. /\ TypeOK /\ SpinExclusion /\ PreemptCountIsLocks /\ CurrentRuns
      /\ ReadyQueueOK /\ NoLostThread /\ NoLostJoin
      /\ SwitchOK /\ IdleOK /\ LifeOK /\ StateOK /\ JoinOK /\ WaitOK
  BY DEF IInv
<1>2. /\ Running(t) /\ pc[t] = "run" /\ cpu = t /\ current = t
      /\ t # idle /\ context[t] = "live" /\ life[t] = "started"
  BY RunningThread DEF Start, At, IInv, IdleOK
<1>3. life[u] = "created" /\ u # t /\ u # idle /\ state[u] = "DEAD"
  BY <1>1, <1>2 DEF Start, IdleOK, LifeOK
<1>4. u \notin ToSet(ready) /\ ToSet(ready) \subseteq Thread
  BY <1>1, <1>3, QueueElements DEF ReadyQueueOK, TypeOK
<1>5. /\ state' = [state EXCEPT ![u] = "ACTIVE"]
      /\ life' = [life EXCEPT ![u] = "started"]
      /\ UNCHANGED <<cpu, current, context, remained_time, preempt_count,
                     int_enabled, wait, pc, parent, target, result, rax,
                     retval>>
  BY DEF Start, ThreadStart
<1>6. /\ ready' \in Seq(Thread) /\ IsInjective(ready')
      /\ ToSet(ready') = ToSet(ready) \cup {u}
  BY <1>1, <1>4, AppendQueue DEF Start, ThreadStart, TypeOK, ReadyQueueOK
<1>7. /\ state' \in [Thread -> ThreadState] /\ life' \in [Thread -> Life]
      /\ state'[u] = "ACTIVE" /\ life'[u] = "started"
      /\ \A v \in Thread \ {u} : state'[v] = state[v] /\ life'[v] = life[v]
      /\ \A v \in Thread : target[v] \in Thread
      /\ \A v \in Thread : Running(v)' <=> Running(v)
  BY <1>1, <1>5 DEF TypeOK, ThreadState, Life, Running
<1>8. TypeOK'
  BY <1>1, <1>5, <1>6, <1>7 DEF TypeOK
<1>9. (SpinExclusion /\ PreemptCountIsLocks)'
  BY <1>1, <1>5, <1>7 DEF SpinExclusion, PreemptCountIsLocks
<1>10. (CurrentRuns /\ NoLostThread)'
  BY <1>1, <1>2, <1>3, <1>5, <1>6, <1>7 DEF CurrentRuns, NoLostThread, IsQueued
<1>11. ReadyQueueOK'
  BY <1>1, <1>2, <1>3, <1>4, <1>5, <1>6, <1>7 DEF ReadyQueueOK
<1>12. NoLostJoin'
  BY <1>1, <1>3, <1>5, <1>7 DEF NoLostJoin
<1>13. WaitOK'
  <2>1. \A d \in Cond : ToSet(wait[d]) \subseteq Thread
    BY <1>1, QueueElements DEF TypeOK
  <2> QED BY <1>1, <1>3, <1>5, <1>7, <2>1 DEF WaitOK
<1>14. (SwitchOK /\ IdleOK /\ LifeOK)'
  BY <1>1, <1>2, <1>3, <1>5, <1>7 DEF SwitchOK, IdleOK, LifeOK
<1>15. (StateOK /\ JoinOK)'
  BY <1>1, <1>3, <1>5, <1>7 DEF StateOK, JoinOK
<1> QED
  BY <1>8, <1>9, <1>10, <1>11, <1>12, <1>13, <1>14, <1>15 DEF IInv

\* thread_destroy frees a thread that is DEAD.
LEMMA DestroyStep ==
  ASSUME IInv, NEW t \in Thread, Destroy(t)
  PROVE  IInv'
<1> USE IdleAssumption, CondAssumption
<1>1. /\ TypeOK /\ SpinExclusion /\ PreemptCountIsLocks /\ CurrentRuns
      /\ ReadyQueueOK /\ NoLostThread /\ NoLostJoin
      /\ SwitchOK /\ IdleOK /\ LifeOK /\ StateOK /\ JoinOK /\ WaitOK
  BY DEF IInv
<1>2. /\ Running(t) /\ pc[t] = "joined" /\ cpu = t /\ current = t
      /\ t # idle /\ context[t] = "live" /\ life[t] = "started"
      /\ state[t] = "ACTIVE" /\ preempt_count = 0
  BY RunningThread DEF Destroy, At, LockSection, IInv, IdleOK
<1> DEFINE u == target[t]
<1>3. /\ u \in Thread /\ u # idle /\ u # t /\ state[u] = "DEAD"
      /\ parent[u] = t
  BY <1>1, <1>2 DEF TypeOK, JoinOK, JoinLabel
<1>4. /\ life' = [life EXCEPT ![u] = "free"]
      /\ pc' = [pc EXCEPT ![t] = "run"]
      /\ UNCHANGED <<cpu, current, ready, state, context, remained_time,
                     preempt_count, int_enabled, wait, parent, target, result,
                     rax, retval>>
  BY DEF Destroy, Goto, schedVars
<1>5. \A v \in Thread \ {t} : pc[v] \in JoinLabel => target[v] # u
  BY <1>1, <1>3 DEF JoinOK
<1> HIDE DEF u
<1>6. /\ life' \in [Thread -> Life] /\ pc' \in [Thread -> Label]
      /\ life'[u] = "free" /\ pc'[t] = "run"
      /\ \A v \in Thread \ {u} : life'[v] = life[v]
      /\ \A v \in Thread \ {t} : pc'[v] = pc[v]
      /\ \A v \in Thread : target[v] \in Thread
      /\ \A v \in Thread : Running(v)' <=> Running(v)
  BY <1>1, <1>3, <1>4 DEF TypeOK, Life, Label, Running
<1>7. TypeOK'
  BY <1>1, <1>4, <1>6 DEF TypeOK
<1>8. (SpinExclusion /\ PreemptCountIsLocks)'
  BY <1>1, <1>2, <1>4, <1>6 DEF SpinExclusion, PreemptCountIsLocks, LockSection
<1>9. (CurrentRuns /\ NoLostThread)'
  BY <1>1, <1>2, <1>3, <1>4, <1>6 DEF CurrentRuns, NoLostThread, IsQueued
<1>10. ReadyQueueOK'
  <2>1. ToSet(ready) \subseteq Thread
    BY <1>1, QueueElements DEF TypeOK
  <2> QED BY <1>1, <1>3, <1>4, <1>6, <2>1 DEF ReadyQueueOK
<1>11. (NoLostJoin /\ WaitOK)'
  BY <1>1, <1>4 DEF NoLostJoin, WaitOK
<1>12. (SwitchOK /\ IdleOK /\ LifeOK)'
  BY <1>1, <1>2, <1>3, <1>4, <1>6 DEF SwitchOK, IdleOK, LifeOK
<1>13. StateOK'
  BY <1>1, <1>2, <1>4, <1>6 DEF StateOK
<1>14. JoinOK'
  BY <1>1, <1>4, <1>5, <1>6 DEF JoinOK, JoinLabel
<1> QED
  BY <1>7, <1>8, <1>9, <1>10, <1>11, <1>12, <1>13, <1>14 DEF IInv

\* Every step of the system preserves the invariant.
LEMMA NextStep == IInv /\ [Next]_vars => IInv'
<1> SUFFICES ASSUME IInv, [Next]_vars PROVE IInv'
  OBVIOUS
<1>1. CASE TimerTick
  BY <1>1, TickStep
<1>2. CASE SchedStep
  BY <1>2, IdleStep, ResumeStep DEF SchedStep
<1>3. ASSUME NEW t \in Thread, KernelStep(t) PROVE IInv'
  BY <1>3, SpinStep, JoinEndsStep, JoinWaitStep, CallScheduleStep,
     DestroyStep, ThreadExitStep DEF KernelStep
<1>4. ASSUME NEW t \in Thread, BodyStep(t) PROVE IInv'
  BY <1>4, SpinStep, CallScheduleStep, CreateStep, StartStep, JoinEndsStep,
     BodyEndsStep DEF BodyStep
<1>5. CASE UNCHANGED vars
  BY <1>5
  DEF vars, schedVars, threadVars, IInv, TypeOK, SpinExclusion,
      PreemptCountIsLocks, CurrentRuns, ReadyQueueOK, NoLostThread,
      NoLostJoin, SwitchOK, IdleOK, LifeOK, StateOK, JoinOK, WaitOK, Running,
      IsQueued
<1> QED BY <1>1, <1>2, <1>3, <1>4, <1>5 DEF Next

\* The invariant holds in every reachable state.
THEOREM Invariance == Spec => []IInv
BY InitIInv, NextStep, PTL DEF Spec

\* Type correctness of the scheduler and of the life of its threads.
THEOREM TypeCorrect == Spec => []TypeOK
<1>1. IInv => TypeOK
  BY DEF IInv
<1> QED BY <1>1, Invariance, PTL

\* A thread that holds a spinlock is the one executing (src/lock.c:12): for
\* any number of threads, no two are inside sections under a spinlock.
THEOREM SpinMutex ==
  Spec => [](SpinExclusion /\ PreemptCountIsLocks)
<1>1. IInv => SpinExclusion /\ PreemptCountIsLocks
  BY DEF IInv
<1> QED BY <1>1, Invariance, PTL

\* The ready queue holds runnable threads, each once, and not the one that has
\* the CPU; the thread that runs is current, alive and started.
THEOREM QueueCorrect ==
  Spec => [](ReadyQueueOK /\ CurrentRuns)
<1>1. IInv => ReadyQueueOK /\ CurrentRuns
  BY DEF IInv
<1> QED BY <1>1, Invariance, PTL

\* schedule() and thread_wake never forget a runnable thread: it has the CPU or
\* is in the ready queue.
THEOREM NoLostThreadCorrect == Spec => []NoLostThread
<1>1. IInv => NoLostThread
  BY DEF IInv
<1> QED BY <1>1, Invariance, PTL

\* A joiner never sleeps through the death of its target.
THEOREM JoinCorrect == Spec => []NoLostJoin
<1>1. IInv => NoLostJoin
  BY DEF IInv
<1> QED BY <1>1, Invariance, PTL

\* Nothing thread_destroy frees is still referred to by the kernel.
THEOREM DestroyCorrect == Spec => []DestroyedIsUnused
<1>1. ASSUME IInv PROVE DestroyedIsUnused
  <2>1. /\ TypeOK /\ CurrentRuns /\ ReadyQueueOK /\ LifeOK /\ StateOK /\ JoinOK
        /\ WaitOK
    BY <1>1 DEF IInv
  <2>2. ASSUME NEW u \in Thread, life[u] = "free"
        PROVE  /\ u \notin ToSet(ready) \cup {cpu, current}
               /\ wait[u] = <<>>
               /\ \A c \in Cond : u \notin ToSet(wait[c])
               /\ \A t \in Thread : pc[t] \in JoinLabel => target[t] # u
    <3>1. state[u] = "DEAD" /\ u \in Cond /\ wait[u] \in Seq(Thread)
      BY <2>1, <2>2, CondAssumption DEF LifeOK, TypeOK
    <3>2. u \notin ToSet(ready) \cup {cpu, current}
      BY <2>1, <3>1 DEF ReadyQueueOK, CurrentRuns
    <3>3. \A c \in Cond : u \notin ToSet(wait[c])
      BY <2>1, <3>1 DEF WaitOK
    <3>4. ASSUME wait[u] # <<>> PROVE FALSE
      <4>1. PICK w \in Thread : state[w] = "BLOCKED" /\ target[w] = u
        BY <2>1, <3>1, <3>4, TailQueue DEF WaitOK
      <4> QED BY <2>1, <2>2, <4>1 DEF StateOK, JoinOK, JoinLabel
    <3>5. \A t \in Thread : pc[t] \in JoinLabel => target[t] # u
      BY <2>1, <2>2 DEF JoinOK
    <3> QED BY <3>2, <3>3, <3>4, <3>5
  <2> QED BY <2>2 DEF DestroyedIsUnused
<1> QED BY <1>1, Invariance, PTL

\* A FINISHED thread is declared DEAD only by a thread that already has the
\* CPU, on a stack of its own.
THEOREM DeadOffStackCorrect == Spec => DeadOffStack
<1> DEFINE Step == \A t \in Thread :
             state[t] = "FINISHED" /\ state'[t] = "DEAD" => cpu # t /\ cpu' # t
<1>1. ASSUME IInv, [Next]_vars PROVE [Step]_vars
  <2>1. SUFFICES ASSUME NEW t \in Thread,
                        state[t] = "FINISHED", state'[t] = "DEAD"
                 PROVE  cpu # t /\ cpu' # t
    OBVIOUS
  <2>2. \A left : Schedule(left) => state' = state
    BY DEF Schedule, SwitchThreads, ThreadPlace
  <2>3. TypeOK /\ SwitchOK
    BY <1>1 DEF IInv
  <2>4. CASE TimerTick
    BY <2>1, <2>2, <2>4 DEF TimerTick, Tick
  <2>5. CASE SchedStep
    <3>1. CASE Idle
      BY <2>1, <2>2, <3>1
      DEF Idle, IdleStart, IdleSchedule, IdleHalt, CallSchedule, schedVars
    <3>2. ASSUME NEW u \in Thread, Resume(u) PROVE cpu # t /\ cpu' # t
      BY <2>1, <2>3, <3>2 DEF Resume, SwitchOK
    <3> QED BY <2>5, <3>1, <3>2 DEF SchedStep
  <2>6. ASSUME NEW u \in Thread, KernelStep(u) PROVE cpu # t /\ cpu' # t
    <3>1. CASE UnlockSpin(u) \/ UnlockSpinInt(u) \/ JoinDead(u)
               \/ JoinUnlock(u) \/ JoinSchedule(u) \/ Destroy(u)
               \/ ExitSchedule(u)
      BY <2>1, <2>2, <3>1
      DEF UnlockSpin, UnlockSpinInt, JoinDead, JoinUnlock, JoinSchedule,
          Destroy, ExitSchedule, CallSchedule, schedVars
    <3>2. CASE JoinWait(u) \/ ThreadExit(u)
      BY <2>1, <2>3, <3>2 DEF JoinWait, ThreadBlock, ThreadExit, TypeOK
    <3> QED BY <2>6, <3>1, <3>2 DEF KernelStep
  <2>7. ASSUME NEW u \in Thread, BodyStep(u) PROVE cpu # t /\ cpu' # t
    <3>1. CASE Yield(u) \/ LockSpin(u) \/ LockSpinInt(u)
      BY <2>1, <2>2, <3>1 DEF Yield, LockSpin, LockSpinInt, CallSchedule
    <3>2. ASSUME NEW v \in Thread, Create(u, v) \/ Start(u, v) \/ Join(u, v)
          PROVE  FALSE
      BY <2>1, <2>3, <3>2
      DEF Create, Start, ThreadStart, Join, schedVars, TypeOK
    <3>3. ASSUME NEW r \in ExitValue, Return(u, r) \/ CallExit(u, r)
          PROVE  FALSE
      BY <2>1, <3>3 DEF Return, CallExit, schedVars
    <3> QED BY <2>7, <3>1, <3>2, <3>3 DEF BodyStep
  <2>8. CASE UNCHANGED vars
    BY <2>1, <2>8 DEF vars, schedVars
  <2> QED BY <1>1, <2>4, <2>5, <2>6, <2>7, <2>8 DEF Next
<1> QED BY <1>1, Invariance, PTL DEF Spec, DeadOffStack

-----------------------------------------------------------------------------
(* Threads and a condition side by side, as in MCKernel.                   *)

\* Each of them does what its own specification says, whoever moves.
LEMMA Beside == AllSpec => Spec /\ Monitor!Spec
<1>1. AllInit => Init /\ Monitor!Init
  BY DEF AllInit
<1>2. [AllNext]_<<on, vars, conditionVars>> =>
        [Next]_vars /\ [Monitor!Next]_(Monitor!vars)
  BY DEF AllNext, conditionVars, vars, Monitor!vars, Monitor!schedVars,
         Monitor!condVars, Monitor!mutexVars
<1> QED BY <1>1, <1>2, PTL DEF AllSpec, Spec, Monitor!Spec

\* What the proofs about the condition assume of its constants.
LEMMA MonitorAssumptions ==
  /\ idle \in Thread /\ init \in Thread \ {idle}
  /\ Thread \subseteq Cond \cup {cv} /\ cv \in (Cond \cup {cv}) \ Thread
  /\ TIMESLICE \in Nat \ {0}
  /\ NoThread \notin Thread
BY IdleAssumption, InitAssumption, CondAssumption, TimesliceAssumption,
   InstanceAssumption

\* The mutex stays exclusive whoever waits and notifies, and no list keeps the
\* entry of a frame that is gone (src/condition.c).
THEOREM MonitorExclusive == AllSpec => []MonitorExclusion
<1>1. Monitor!Spec => [](Monitor!WellFormed /\ Monitor!MonitorExclusion)
  BY MonitorAssumptions, Monitor!MonitorCorrect
<1>2. Monitor!WellFormed /\ Monitor!MonitorExclusion => MonitorExclusion
  BY DEF MonitorExclusion
<1> QED BY <1>1, <1>2, Beside, PTL

\* A thread sleeps only where somebody will find it (src/condition.c).
THEOREM MonitorWakes == AllSpec => []MonitorNoLostWakeup
<1>1. Monitor!Spec => []Monitor!MonitorNoLostWakeup
  BY MonitorAssumptions, Monitor!WakeupCorrect
<1>2. Monitor!MonitorNoLostWakeup => MonitorNoLostWakeup
  BY DEF MonitorNoLostWakeup
<1> QED BY <1>1, <1>2, Beside, PTL

\* condition.c with mutex.c implements a monitor whose wait releases the mutex
\* and starts to wait in one step.
THEOREM MonitorImplements == AllSpec => ImplementsMonitor
<1>1. Monitor!Spec => Monitor!ImplementsMonitor
  BY MonitorAssumptions, Monitor!Refinement
<1> QED BY <1>1, Beside, PTL DEF ImplementsMonitor
=============================================================================
