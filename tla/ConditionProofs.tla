---------------------------- MODULE ConditionProofs ----------------------------
(***************************************************************************)
(* Safety of the condition with its mutex, for any number of threads, any  *)
(* time slice and any clients: IInv of module Condition is inductive, and  *)
(* condition.c with mutex.c implements a monitor in which releasing the    *)
(* mutex and starting to wait are one step.                                *)
(***************************************************************************)
EXTENDS Condition, SeqLemmas

\* Where schedule() returns to, for each place it is called from.
MayReturn(from, to) ==
  \/ from = to
  \/ from = "hlt" /\ to = "idle"
  \/ from = "idle" /\ to = "halt"
  \/ from = "lock_schedule" /\ to = "lock_relock"
  \/ from = "wait_schedule" /\ to = "wait_lock"

\* The state main() leaves to scheduler_idle satisfies the invariant.
LEMMA InitIInv == Init => IInv
<1> SUFFICES ASSUME Init PROVE IInv
  OBVIOUS
<1> USE IdleAssumption, CondAssumption, TimesliceAssumption, InitAssumption,
        CvAssumption
    DEF Init, SchedInit, MutexSetup
<1>1. /\ ready = <<init>> /\ ready \in Seq(Thread) /\ ToSet(ready) = {init}
      /\ IsInjective(ready)
  BY DEF ToSet, IsInjective
<1>2. TypeOK
  <2>1. /\ wait \in [Cond -> Seq(Thread)] /\ queue \in Seq(Thread)
        /\ list \in [Thread -> Seq(Thread)]
    BY EmptyQueue
  <2>2. remained_time \in 0..TIMESLICE /\ preempt_count \in 0..2
    OBVIOUS
  <2>3. state \in [Thread -> ThreadState] /\ pc \in [Thread -> Label]
    BY DEF ThreadState, Label
  <2>4. /\ context \in [Thread -> {"live", "int_on", "int_off"}]
        /\ ret \in [Thread -> {"inside", "outside", "wait_unlock"}]
    OBVIOUS
  <2> QED BY <1>1, <2>1, <2>2, <2>3, <2>4 DEF TypeOK
<1>3. wait[cv] = <<>> /\ \A t \in Thread : ~Listed(t) /\ list[t] = <<>>
  BY EmptyQueue DEF Listed
<1>4. \A t \in Thread : pc[t] \in {"boot", "outside", "new"}
  OBVIOUS
<1>5. EntriesLive /\ WaitersOK
  BY <1>3, <1>4, EmptyQueue DEF EntriesLive, WaitersOK, Entering, UnlockLabel
<1>6. QueueOK /\ HandOver /\ CallOK
  BY <1>3, <1>4, EmptyQueue DEF QueueOK, HandOver, CallOK, UnlockLabel, LinkLabel
<1>7. ReadyOnce /\ SwitchOK /\ StateOK
  BY <1>1 DEF ReadyOnce, SwitchOK, StateOK
<1>8. SpinOK
  BY <1>4 DEF SpinOK, Spins, SpinSection, UnlockLabel
<1>9. MonitorExclusion /\ MonitorNoLostWakeup
  BY <1>4 DEF MonitorExclusion, Holds, MonitorNoLostWakeup
<1> QED BY <1>2, <1>5, <1>6, <1>7, <1>8, <1>9 DEF IInv, WellFormed

\* What is said of a thread depends on its pc and ret, and on whether it runs.
LEMMA Others ==
  ASSUME NEW u \in Thread, pc'[u] = pc[u], ret'[u] = ret[u]
  PROVE  /\ Spins(u)' = Spins(u)
         /\ Entering(u)' <=> Entering(u)
         /\ Holds(u)' <=> Holds(u)
         /\ (Running(u)' <=> Running(u)) => (InWait(u)' <=> InWait(u))
BY DEF Spins, Entering, Holds, InWait

\* The queues refer to threads.
LEMMA Queues ==
  ASSUME TypeOK
  PROVE  /\ ToSet(queue) \subseteq Thread /\ ToSet(ready) \subseteq Thread
         /\ wait[cv] \in Seq(Thread) /\ ToSet(wait[cv]) \subseteq Thread
         /\ \A t \in Thread : list[t] \in Seq(Thread)
                              /\ ToSet(list[t]) \subseteq Thread
BY QueueElements, CvAssumption DEF TypeOK

\* switch_threads to a runnable thread that is taken from the queue, or idle.
LEMMA SwitchStep ==
  ASSUME IInv, context[cpu] = "live", preempt_count = 0,
         NEW next \in Thread, next # cpu, state[next] = "ACTIVE",
         SwitchThreads(cpu, next),
         remained_time' \in 0..TIMESLICE,
         ready' \in Seq(Thread), IsInjective(ready'),
         ToSet(ready') = (ToSet(ready) \ {next}) \cup
              (IF state[cpu] = "ACTIVE" /\ cpu # idle THEN {cpu} ELSE {}),
         NEW label \in Label, pc' = [pc EXCEPT ![cpu] = label],
         MayReturn(pc[cpu], label),
         UNCHANGED condVars
  PROVE  IInv'
<1> USE IdleAssumption
<1>1. /\ TypeOK /\ EntriesLive /\ ReadyOnce /\ WaitersOK /\ CallOK /\ QueueOK
      /\ HandOver /\ SpinOK /\ SwitchOK /\ StateOK
      /\ MonitorExclusion /\ MonitorNoLostWakeup
  BY DEF IInv, WellFormed
<1>2. /\ UNCHANGED <<current, state, wait, preempt_count, owner, queue, ret, list>>
      /\ cpu' = next /\ ~int_enabled' /\ int_enabled' \in BOOLEAN
      /\ context' = [context EXCEPT ![cpu] = SavedFlag(int_enabled)]
  BY DEF condVars, mutexVars, SwitchThreads
<1>3. TypeOK'
  BY <1>1, <1>2 DEF TypeOK, SavedFlag
<1>4. PICK c \in Thread : cpu = c
  BY <1>1 DEF TypeOK
<1>5. /\ \A t \in Thread : ~Running(t)' /\ context'[t] # "live"
      /\ \A t \in Thread : Running(t) <=> t = c
      /\ \A t \in Thread \ {c} : pc'[t] = pc[t]
      /\ pc'[c] = label
  <2>1. \A t \in Thread : context'[t] # "live"
    BY <1>1, <1>2 DEF TypeOK, SavedFlag, SwitchOK
  <2> QED BY <1>1, <1>4, <2>1 DEF TypeOK, Running
<1>6. /\ pc[c] \notin SpinSection /\ label \notin SpinSection
      /\ \A t \in Thread : pc[t] \notin SpinSection /\ pc'[t] \notin SpinSection
      /\ \A t \in Thread : Spins(t)' = 0
  <2>1. pc[c] \notin SpinSection
    BY <1>1, <1>4 DEF SpinOK, Spins
  <2>2. label \notin SpinSection
    BY <2>1, <1>4 DEF SpinSection, UnlockLabel, MayReturn
  <2> QED BY <1>1, <1>5, <2>1, <2>2 DEF SpinOK, Spins
<1>7. \A t \in Thread : /\ ~Entering(t) /\ ~Entering(t)'
                        /\ Holds(t)' <=> Holds(t)
                        /\ InWait(t) => InWait(t)'
                        /\ Listed(t)' <=> Listed(t)
  <2>1. ASSUME NEW t \in Thread PROVE ~Entering(t) /\ ~Entering(t)'
    BY <1>6 DEF Entering, SpinSection
  <2>2. ASSUME NEW t \in Thread, t # c
        PROVE  (Holds(t)' <=> Holds(t)) /\ (InWait(t)' <=> InWait(t))
    BY <1>2, <1>5, <2>2, Others
  <2>3. Holds(c)' <=> Holds(c)
    BY <1>2, <1>4, <1>5 DEF Holds, MayReturn
  <2>4. InWait(c) => InWait(c)'
    BY <1>2, <1>4, <1>5 DEF InWait, UnlockLabel, MayReturn
  <2> QED BY <1>2, <2>1, <2>2, <2>3, <2>4 DEF Listed
<1>8. SpinOK'
  BY <1>1, <1>2, <1>4, <1>5, <1>6 DEF SpinOK, Spins
<1>9. (SwitchOK /\ ReadyOnce)'
  BY <1>1, <1>2, <1>5 DEF SwitchOK, ReadyOnce
<1>10. (EntriesLive /\ WaitersOK)'
  BY <1>1, <1>2, <1>6, <1>7 DEF EntriesLive, WaitersOK, SpinSection, UnlockLabel
<1>11. (StateOK /\ QueueOK /\ CallOK)'
  <2>1. StateOK'
    BY <1>1, <1>2, <1>4, <1>5, <1>7 DEF StateOK, MayReturn
  <2>2. QueueOK'
    BY <1>1, <1>2, <1>4, <1>5 DEF QueueOK, LinkLabel, MayReturn
  <2>3. CallOK'
    BY <1>1, <1>2, <1>4, <1>5, <1>6 DEF CallOK, MayReturn, SpinSection
  <2> QED BY <2>1, <2>2, <2>3
<1>12. (HandOver /\ MonitorExclusion)'
  BY <1>1, <1>2, <1>4, <1>5, <1>7, Queues DEF HandOver, MonitorExclusion, MayReturn
<1>13. MonitorNoLostWakeup'
  BY <1>1, <1>2, <1>4, <1>5, <1>7 DEF MonitorNoLostWakeup, MayReturn, LockLabel
<1> QED
  BY <1>3, <1>8, <1>9, <1>10, <1>11, <1>12, <1>13 DEF IInv, WellFormed

\* Whoever calls schedule(), from whichever place, the invariant survives.
LEMMA ScheduleStep ==
  ASSUME IInv, context[cpu] = "live",
         NEW left \in 0..TIMESLICE, Schedule(left),
         NEW label \in Label, pc' = [pc EXCEPT ![cpu] = label],
         MayReturn(pc[cpu], label),
         UNCHANGED condVars
  PROVE  IInv'
<1> USE IdleAssumption, TimesliceAssumption
<1>0. /\ TypeOK /\ EntriesLive /\ ReadyOnce /\ WaitersOK /\ CallOK /\ QueueOK
      /\ HandOver /\ SpinOK /\ SwitchOK /\ StateOK
      /\ MonitorExclusion /\ MonitorNoLostWakeup
      /\ current = cpu /\ UNCHANGED <<owner, queue, ret, list>>
  BY DEF IInv, WellFormed, SwitchOK, condVars, mutexVars
<1>c. PICK c \in Thread : cpu = c /\ Running(c)
  BY <1>0 DEF TypeOK, Running
<1>1. CASE preempt_count # 0
  <2>1. /\ pc' = pc /\ remained_time' = left
        /\ UNCHANGED <<cpu, current, ready, state, context, preempt_count,
                       int_enabled, wait>>
    <3>1. pc[c] \in SpinSection
      BY <1>0, <1>c, <1>1 DEF SpinOK, Spins
    <3>2. label = pc[c]
      BY <3>1, <1>c DEF SpinSection, UnlockLabel, MayReturn
    <3> QED BY <1>0, <1>c, <1>1, <3>2 DEF Schedule, TypeOK
  <2>2. TypeOK'
    BY <1>0, <2>1 DEF TypeOK
  <2>3. \A t \in Thread : /\ Running(t)' <=> Running(t)
                          /\ Listed(t)' <=> Listed(t)
    BY <1>0, <2>1 DEF Running, Listed
  <2>4. \A t \in Thread : /\ Spins(t)' = Spins(t)
                          /\ Entering(t)' <=> Entering(t)
                          /\ Holds(t)' <=> Holds(t)
                          /\ InWait(t)' <=> InWait(t)
    BY <1>0, <2>1, <2>3, Others
  <2>5. (EntriesLive /\ WaitersOK /\ CallOK)'
    BY <1>0, <2>1, <2>3, <2>4 DEF EntriesLive, WaitersOK, CallOK
  <2>6. (QueueOK /\ HandOver /\ MonitorExclusion)'
    BY <1>0, <2>1, <2>4 DEF QueueOK, HandOver, MonitorExclusion
  <2>7. (ReadyOnce /\ SpinOK /\ SwitchOK)'
    BY <1>0, <2>1, <2>3, <2>4 DEF ReadyOnce, SpinOK, SwitchOK
  <2>8. (StateOK /\ MonitorNoLostWakeup)'
    BY <1>0, <2>1, <2>3, <2>4 DEF StateOK, MonitorNoLostWakeup
  <2> QED BY <2>2, <2>5, <2>6, <2>7, <2>8 DEF IInv, WellFormed
<1>2. CASE preempt_count = 0 /\ ready # <<>>
  <2>1. /\ ready' = Requeue(cpu, Tail(ready)) /\ remained_time' = left
        /\ SwitchThreads(cpu, Head(ready))
    BY <1>0, <1>2 DEF Schedule
  <2>2. /\ ready \in Seq(Thread)
        /\ Head(ready) \in Thread /\ Tail(ready) \in Seq(Thread)
        /\ Head(ready) \in ToSet(ready)
        /\ ToSet(ready) = ToSet(Tail(ready)) \cup {Head(ready)}
        /\ IsInjective(Tail(ready)) /\ Head(ready) \notin ToSet(Tail(ready))
    BY <1>0, <1>2, TailQueue DEF TypeOK, ReadyOnce
  <2>3. /\ Head(ready) # cpu /\ cpu \notin ToSet(Tail(ready))
        /\ state[Head(ready)] = "ACTIVE"
    BY <1>0, <2>2 DEF ReadyOnce
  <2>4. /\ ready' \in Seq(Thread) /\ IsInjective(ready')
        /\ ToSet(ready') = (ToSet(ready) \ {Head(ready)}) \cup
              (IF state[cpu] = "ACTIVE" /\ cpu # idle THEN {cpu} ELSE {})
    <3>1. CASE state[cpu] = "ACTIVE" /\ cpu # idle
      <4> DEFINE tail == Tail(ready)
      <4>1. ready' = Append(tail, cpu)
        BY <2>1, <3>1 DEF Requeue
      <4>2. /\ tail \in Seq(Thread) /\ IsInjective(tail)
            /\ cpu \notin ToSet(tail)
            /\ ToSet(ready) \ {Head(ready)} = ToSet(tail)
        BY <2>2, <2>3
      <4> HIDE DEF tail
      <4>3. /\ Append(tail, cpu) \in Seq(Thread)
            /\ ToSet(Append(tail, cpu)) = ToSet(tail) \cup {cpu}
            /\ IsInjective(Append(tail, cpu))
        BY <1>c, <4>2, AppendQueue
      <4> QED BY <3>1, <4>1, <4>2, <4>3
    <3>2. CASE ~(state[cpu] = "ACTIVE" /\ cpu # idle)
      <4>1. ready' = Tail(ready)
        BY <2>1, <3>2 DEF Requeue
      <4> QED BY <2>2, <3>2, <4>1
    <3> QED BY <3>1, <3>2
  <2> QED BY <2>1, <2>2, <2>3, <2>4, <1>2, SwitchStep
<1>3. CASE preempt_count = 0 /\ ready = <<>> /\ state[cpu] # "ACTIVE"
  <2>1. /\ ready' = ready /\ remained_time' = left /\ SwitchThreads(cpu, idle)
    BY <1>0, <1>3 DEF Schedule
  <2>2. /\ ready' \in Seq(Thread) /\ ToSet(ready) = {} /\ IsInjective(ready')
    BY <1>3, <2>1, EmptyQueue
  <2>3. idle # cpu /\ state[idle] = "ACTIVE"
    BY <1>0, <1>3 DEF SwitchOK
  <2>4. ToSet(ready') = (ToSet(ready) \ {idle}) \cup
              (IF state[cpu] = "ACTIVE" /\ cpu # idle THEN {cpu} ELSE {})
    BY <1>3, <2>1, <2>2
  <2> QED BY <2>1, <2>2, <2>3, <2>4, <1>3, SwitchStep
<1>4. CASE preempt_count = 0 /\ ready = <<>> /\ state[cpu] = "ACTIVE"
  <2>1. /\ remained_time' = TIMESLICE
        /\ UNCHANGED <<cpu, current, ready, state, context, preempt_count,
                       int_enabled, wait>>
    BY <1>0, <1>4 DEF Schedule, ThreadPlace
  <2>2. /\ \A t \in Thread : /\ Running(t)' <=> Running(t)
                             /\ Listed(t)' <=> Listed(t)
        /\ \A t \in Thread \ {c} : pc'[t] = pc[t]
        /\ pc'[c] = label
    BY <1>0, <1>c, <2>1 DEF TypeOK, Running, Listed
  <2>3. pc[c] \notin SpinSection /\ label \notin SpinSection
    <3>1. pc[c] \notin SpinSection
      BY <1>0, <1>c, <1>4 DEF SpinOK, Spins
    <3> QED BY <3>1, <1>c DEF SpinSection, UnlockLabel, MayReturn
  <2>4. /\ ~Entering(c) /\ ~Entering(c)' /\ Spins(c) = 0 /\ Spins(c)' = 0
        /\ Holds(c)' <=> Holds(c)
        /\ ~Listed(c) /\ state[c] = "ACTIVE"
    BY <1>0, <1>c, <1>4, <2>2, <2>3
    DEF Entering, Spins, Holds, SpinSection, WaitersOK, MayReturn
  <2>5. \A t \in Thread \ {c} : /\ Entering(t)' <=> Entering(t)
                                /\ Spins(t)' = Spins(t)
                                /\ Holds(t)' <=> Holds(t)
                                /\ InWait(t)' <=> InWait(t)
    BY <1>0, <2>2, Others
  <2>6. TypeOK'
    BY <1>0, <2>1 DEF TypeOK
  <2>7. (SpinOK /\ SwitchOK /\ ReadyOnce)'
    BY <1>0, <1>c, <2>1, <2>2, <2>3, <2>4, <2>5 DEF SpinOK, SwitchOK, ReadyOnce
  <2>8. (EntriesLive /\ WaitersOK)'
    BY <1>0, <1>c, <2>1, <2>2, <2>3, <2>4, <2>5
    DEF EntriesLive, WaitersOK, SpinSection, UnlockLabel
  <2>9. StateOK'
    BY <1>0, <1>c, <2>1, <2>2, <2>4, <2>5 DEF StateOK, MayReturn
  <2>10. (QueueOK /\ CallOK)'
    BY <1>0, <1>c, <2>2, <2>3 DEF QueueOK, LinkLabel, CallOK, SpinSection, MayReturn
  <2>11. (HandOver /\ MonitorExclusion)'
    BY <1>0, <1>c, <2>1, <2>2, <2>4, <2>5, Queues
    DEF HandOver, MonitorExclusion, MayReturn
  <2>12. MonitorNoLostWakeup'
    BY <1>0, <1>c, <2>1, <2>2, <2>4, <2>5 DEF MonitorNoLostWakeup, MayReturn
  <2> QED
    BY <2>6, <2>7, <2>8, <2>9, <2>10, <2>11, <2>12 DEF IInv, WellFormed
<1> QED BY <1>1, <1>2, <1>3, <1>4, <1>0 DEF TypeOK

\* The thread that gets the CPU finds no finished predecessor: the clients do
\* not end.
LEMMA ResumeStep ==
  ASSUME IInv, NEW t \in Thread, Resume(t), UNCHANGED condVars
  PROVE  IInv'
<1>1. /\ TypeOK /\ EntriesLive /\ ReadyOnce /\ WaitersOK /\ CallOK /\ QueueOK
      /\ HandOver /\ SpinOK /\ SwitchOK /\ StateOK
      /\ MonitorExclusion /\ MonitorNoLostWakeup
      /\ cpu = t /\ context[t] # "live" /\ state[t] = "ACTIVE"
  BY DEF IInv, WellFormed, SwitchOK, Resume
<1>2. state[current] # "FINISHED"
  BY <1>1 DEF TypeOK, StateOK
<1>3. /\ UNCHANGED <<cpu, ready, state, preempt_count, wait, pc, owner, queue,
                     ret, list>>
      /\ current' = t /\ remained_time' = TIMESLICE
      /\ context' = [context EXCEPT ![t] = "live"]
      /\ int_enabled' \in BOOLEAN
  BY <1>2 DEF Resume, ThreadPlace, condVars, mutexVars
<1>4. /\ \A u \in Thread : ~Running(u) /\ pc[u] \notin SpinSection
      /\ \A u \in Thread : Running(u)' => u = t
      /\ \A u \in Thread : Listed(u)' <=> Listed(u)
  BY <1>1, <1>3 DEF Running, SpinOK, Listed
<1>5. /\ \A u \in Thread : /\ Spins(u)' = Spins(u)
                           /\ Entering(u)' <=> Entering(u)
                           /\ Holds(u)' <=> Holds(u)
      /\ \A u \in Thread \ {t} : InWait(u)' <=> InWait(u)
      /\ ~Listed(t)
  BY <1>1, <1>3, <1>4, Others DEF WaitersOK, SpinSection
<1>6. TypeOK'
  BY <1>1, <1>3, TimesliceAssumption DEF TypeOK
<1>7. (SpinOK /\ ReadyOnce /\ QueueOK /\ HandOver /\ CallOK)'
  BY <1>1, <1>3, <1>4, <1>5 DEF SpinOK, ReadyOnce, QueueOK, HandOver, CallOK
<1>8. (EntriesLive /\ WaitersOK)'
  BY <1>1, <1>3, <1>4, <1>5 DEF EntriesLive, WaitersOK
<1>9. (SwitchOK /\ StateOK)'
  BY <1>1, <1>3, <1>4, <1>5 DEF SwitchOK, StateOK, TypeOK
<1>10. (MonitorExclusion /\ MonitorNoLostWakeup)'
  BY <1>1, <1>3, <1>4, <1>5 DEF MonitorExclusion, MonitorNoLostWakeup
<1> QED BY <1>6, <1>7, <1>8, <1>9, <1>10 DEF IInv, WellFormed

\* What the running thread is, at the label it executes.
LEMMA RunningThread ==
  ASSUME IInv, NEW t \in Thread, Running(t)
  PROVE  /\ cpu = t /\ current = t /\ context[t] = "live"
         /\ preempt_count = Spins(t)
         /\ state[t] \in {"ACTIVE", "BLOCKED"}
         /\ state[t] = "BLOCKED" =>
              \/ pc[t] \in {"lock_unlock", "lock_schedule", "wait_schedule"}
              \/ Entering(t) /\ pc[t] # "wait_block"
         /\ \A u \in Thread : Running(u) <=> u = t
         /\ \A u \in Thread \ {t} : pc[u] \notin SpinSection /\ ~Entering(u)
         /\ t \notin ToSet(ready)
<1>1. cpu = t /\ current = t /\ context[t] = "live"
  BY DEF Running, IInv, WellFormed, SwitchOK
<1>2. /\ preempt_count = Spins(t)
      /\ \A u \in Thread : Running(u) <=> u = t
      /\ \A u \in Thread \ {t} : pc[u] \notin SpinSection
  BY <1>1 DEF Running, IInv, WellFormed, SpinOK
<1>3. /\ state[t] \in {"ACTIVE", "BLOCKED"}
      /\ state[t] = "BLOCKED" =>
              \/ pc[t] \in {"lock_unlock", "lock_schedule", "wait_schedule"}
              \/ Entering(t) /\ pc[t] # "wait_block"
      /\ t \notin ToSet(ready)
  BY <1>1
  DEF IInv, WellFormed, SwitchOK, StateOK, ReadyOnce, TypeOK, ThreadState
<1>4. \A u \in Thread \ {t} : ~Entering(u)
  BY <1>2 DEF Entering, SpinSection
<1> QED BY <1>1, <1>2, <1>3, <1>4

\* What a step of the running thread from one label to another starts from, and
\* what it leaves alone of the others.
LEMMA RunningStep ==
  ASSUME IInv, NEW t \in Thread, Running(t), NEW label \in Label,
         pc' = [pc EXCEPT ![t] = label], UNCHANGED <<cpu, context>>,
         \A u \in Thread \ {t} : ret'[u] = ret[u]
  PROVE  /\ TypeOK /\ EntriesLive /\ ReadyOnce /\ WaitersOK /\ CallOK /\ QueueOK
         /\ HandOver /\ SpinOK /\ SwitchOK /\ StateOK
         /\ MonitorExclusion /\ MonitorNoLostWakeup
         /\ ToSet(queue) \subseteq Thread /\ ToSet(ready) \subseteq Thread
         /\ pc' \in [Thread -> Label] /\ pc'[t] = label
         /\ \A u \in Thread : Running(u)' <=> u = t
         /\ \A u \in Thread \ {t} :
              /\ pc'[u] = pc[u] /\ pc[u] \notin SpinSection
              /\ Spins(u)' = Spins(u)
              /\ ~Entering(u) /\ ~Entering(u)'
              /\ Holds(u)' <=> Holds(u)
              /\ InWait(u)' <=> InWait(u)
<1>1. /\ TypeOK /\ EntriesLive /\ ReadyOnce /\ WaitersOK /\ CallOK /\ QueueOK
      /\ HandOver /\ SpinOK /\ SwitchOK /\ StateOK
      /\ MonitorExclusion /\ MonitorNoLostWakeup
  BY DEF IInv, WellFormed
<1>2. /\ pc' \in [Thread -> Label] /\ pc'[t] = label
      /\ \A u \in Thread \ {t} : pc'[u] = pc[u]
  BY <1>1 DEF TypeOK
<1>3. /\ \A u \in Thread : (Running(u) <=> u = t) /\ (Running(u)' <=> u = t)
      /\ \A u \in Thread \ {t} : pc[u] \notin SpinSection /\ ~Entering(u)
  BY RunningThread DEF Running
<1> QED BY <1>1, <1>2, <1>3, Others, Queues

\* The steps that move the running thread, and at most the spinlocks it holds
\* and where its mutex_unlock is to return to.
LEMMA QuietStep ==
  ASSUME IInv, NEW t \in Thread, Running(t), NEW label \in Label,
         pc' = [pc EXCEPT ![t] = label],
         ret' \in [Thread -> {"inside", "outside", "wait_unlock"}],
         \A u \in Thread \ {t} : ret'[u] = ret[u],
         preempt_count' = Spins(t)', int_enabled' \in BOOLEAN,
         UNCHANGED <<cpu, current, ready, state, context, remained_time, wait,
                     owner, queue, list>>,
         pc[t] \in LinkLabel <=> label \in LinkLabel,
         pc[t] \notin {"lock_block", "wait_block", "unlock_wake", "new"},
         label \notin {"lock_block", "wait_block", "unlock_wake", "new",
                      "notify_all"},
         list[t] = <<>>,
         pc[t] \in {"boot", "idle", "halt", "hlt"} <=>
           label \in {"boot", "idle", "halt", "hlt"},
         state[t] = "BLOCKED" =>
           \/ label = "lock_schedule" /\ pc[t] \in LockLabel
           \/ (Entering(t)' \/ label = "wait_schedule") /\ pc[t] \notin LockLabel,
         Entering(t)' => Entering(t),
         owner = t /\ pc[t] \in {"wait_block", "wait_release", "unlock_pass"} =>
           label = "unlock_pass",
         label \in UnlockLabel => ret'[t] # "inside",
         label = "lock_queue" => owner \notin {t, NoThread},
         label \in {"lock_retest", "unlock_pass"} \/ Holds(t)' => owner = t
  PROVE  IInv'
<1>1. /\ TypeOK /\ EntriesLive /\ ReadyOnce /\ WaitersOK /\ CallOK /\ QueueOK
      /\ HandOver /\ SpinOK /\ SwitchOK /\ StateOK
      /\ MonitorExclusion /\ MonitorNoLostWakeup
      /\ ToSet(queue) \subseteq Thread /\ ToSet(ready) \subseteq Thread
      /\ pc' \in [Thread -> Label] /\ pc'[t] = label
      /\ \A u \in Thread : Running(u)' <=> u = t
      /\ \A u \in Thread \ {t} : /\ pc'[u] = pc[u] /\ pc[u] \notin SpinSection
                                 /\ Spins(u)' = Spins(u)
                                 /\ ~Entering(u) /\ ~Entering(u)'
                                 /\ Holds(u)' <=> Holds(u)
                                 /\ InWait(u)' <=> InWait(u)
  BY RunningStep
<1>2. /\ cpu = t /\ current = t /\ context[t] = "live"
      /\ \A u \in Thread : Running(u) <=> u = t
  BY RunningThread
<1>3. /\ \A u \in Thread : Listed(u)' <=> Listed(u)
      /\ state[t] = "BLOCKED" => (InWait(t)' <=> label # "lock_schedule")
      /\ Listed(t) => state[t] = "BLOCKED"
      /\ Listed(t) => InWait(t)'
  <2>1. \A u \in Thread : Listed(u)' <=> Listed(u)
    BY DEF Listed
  <2>2. state[t] = "BLOCKED" => (InWait(t)' <=> label # "lock_schedule")
    BY <1>1 DEF InWait, Entering, UnlockLabel
  <2>3. Listed(t) => state[t] = "BLOCKED" /\ pc[t] \notin LockLabel
    BY <1>1, <1>2 DEF WaitersOK, EntriesLive, InWait, LockLabel, UnlockLabel
  <2>4. Listed(t) => state[t] = "BLOCKED" /\ label # "lock_schedule"
    BY <1>1, <2>3 DEF Entering, UnlockLabel
  <2>5. Listed(t) => InWait(t)'
    BY <2>2, <2>4
  <2> QED BY <2>1, <2>2, <2>3, <2>5
<1>4. TypeOK'
  <2>1. Spins(t)' \in 0..2
    BY DEF Spins
  <2> QED BY <1>1, <2>1 DEF TypeOK
<1>5. (SpinOK /\ SwitchOK /\ ReadyOnce)'
  BY <1>1, <1>2 DEF SpinOK, SwitchOK, ReadyOnce
<1>6. (EntriesLive /\ WaitersOK)'
  BY <1>1, <1>2, <1>3 DEF EntriesLive, WaitersOK
<1>7. (QueueOK /\ CallOK)'
  BY <1>1, <1>2 DEF QueueOK, CallOK
<1>8. StateOK'
  BY <1>1, <1>2, <1>3 DEF StateOK
<1>9. (HandOver /\ MonitorExclusion)'
  BY <1>1, <1>2 DEF HandOver, MonitorExclusion
<1>10. MonitorNoLostWakeup'
  BY <1>1, <1>2, <1>3 DEF MonitorNoLostWakeup, LockLabel
<1> QED BY <1>4, <1>5, <1>6, <1>7, <1>8, <1>9, <1>10 DEF IInv, WellFormed

\* The timer interrupt, wherever it comes.
LEMMA TickStep ==
  ASSUME IInv, TimerTick
  PROVE  IInv'
<1>1. /\ int_enabled /\ context[cpu] = "live" /\ cpu \in Thread
      /\ pc \in [Thread -> Label] /\ remained_time \in 0..TIMESLICE
      /\ TIMESLICE \in Nat /\ UNCHANGED condVars
  BY TimesliceAssumption
  DEF IInv, WellFormed, TypeOK, SwitchOK, TimerTick, Tick
<1>c. PICK c \in Thread : cpu = c /\ Running(c)
  BY <1>1 DEF Running
<1> DEFINE label == IF pc[cpu] = "hlt" THEN "idle" ELSE pc[cpu]
<1>2. /\ label \in Label /\ pc' = [pc EXCEPT ![cpu] = label]
      /\ MayReturn(pc[cpu], label)
  BY <1>1 DEF Label, TimerTick, Tick, MayReturn
<1>3. CASE remained_time <= 1 /\ Schedule(0)
  <2>1. 0 \in 0..TIMESLICE
    BY <1>1
  <2> QED BY <1>1, <1>2, <1>3, <2>1, ScheduleStep
<1>4. CASE remained_time > 1 /\ remained_time' = remained_time - 1
           /\ UNCHANGED <<cpu, current, ready, state, context, preempt_count,
                          int_enabled, wait>>
  <2>1. /\ UNCHANGED <<owner, queue, ret, list>>
        /\ remained_time' \in 0..TIMESLICE
    BY <1>1, <1>4 DEF condVars, mutexVars
  <2>2. /\ TypeOK /\ EntriesLive /\ ReadyOnce /\ WaitersOK /\ CallOK /\ QueueOK
        /\ HandOver /\ SpinOK /\ SwitchOK /\ StateOK
        /\ MonitorExclusion /\ MonitorNoLostWakeup
        /\ ToSet(queue) \subseteq Thread
    BY Queues DEF IInv, WellFormed
  <2>3. TypeOK'
    BY <1>2, <1>4, <2>1, <2>2 DEF TypeOK
  <2>4. \A u \in Thread : /\ Running(u)' <=> Running(u)
                          /\ Listed(u)' <=> Listed(u)
    BY <1>4, <2>1 DEF Running, Listed
  <2>5. \A u \in Thread : \/ pc'[u] = pc[u]
                          \/ pc[u] = "hlt" /\ pc'[u] = "idle"
    BY <1>1, <1>2
  <2>6. \A u \in Thread : /\ Spins(u)' = Spins(u)
                          /\ Entering(u)' <=> Entering(u)
                          /\ Holds(u)' <=> Holds(u)
                          /\ InWait(u)' <=> InWait(u)
                          /\ pc'[u] \in SpinSection <=> pc[u] \in SpinSection
    <3>1. ASSUME NEW u \in Thread, pc[u] = "hlt", pc'[u] = "idle"
          PROVE  /\ Spins(u)' = Spins(u)
                 /\ ~Entering(u)' /\ ~Entering(u) /\ ~Holds(u)' /\ ~Holds(u)
                 /\ ~InWait(u)' /\ ~InWait(u)
                 /\ pc'[u] \notin SpinSection /\ pc[u] \notin SpinSection
      BY <3>1 DEF Spins, Entering, Holds, InWait, SpinSection, UnlockLabel
    <3> QED BY <2>1, <2>4, <2>5, <3>1, Others
  <2>7. (SpinOK /\ SwitchOK /\ ReadyOnce)'
    BY <1>4, <2>2, <2>4, <2>6 DEF SpinOK, SwitchOK, ReadyOnce
  <2>8. (EntriesLive /\ WaitersOK)'
    BY <1>4, <2>1, <2>2, <2>4, <2>5, <2>6 DEF EntriesLive, WaitersOK
  <2>9. (QueueOK /\ CallOK)'
    BY <2>1, <2>2, <2>5 DEF QueueOK, LinkLabel, CallOK, UnlockLabel
  <2>10. StateOK'
    BY <1>4, <2>2, <2>4, <2>5, <2>6 DEF StateOK
  <2>11. (HandOver /\ MonitorExclusion)'
    BY <1>4, <2>1, <2>2, <2>5, <2>6 DEF HandOver, MonitorExclusion
  <2>12. MonitorNoLostWakeup'
    BY <1>4, <2>1, <2>2, <2>4, <2>5, <2>6 DEF MonitorNoLostWakeup, LockLabel
  <2> QED
    BY <2>3, <2>7, <2>8, <2>9, <2>10, <2>11, <2>12 DEF IInv, WellFormed
<1> QED BY <1>3, <1>4 DEF TimerTick, Tick

\* The idle loop.
LEMMA IdleStep ==
  ASSUME IInv, Idle, UNCHANGED condVars
  PROVE  IInv'
<1>1. Running(idle) /\ idle \in Thread
  BY IdleAssumption DEF Idle, IdleStart, IdleSchedule, IdleHalt
<1>2. /\ TypeOK /\ CallOK /\ context[cpu] = "live" /\ cpu = idle
      /\ state[idle] = "ACTIVE" /\ preempt_count = Spins(idle)
      /\ remained_time \in 0..TIMESLICE
      /\ UNCHANGED <<owner, queue, ret, list>>
  BY <1>1, RunningThread DEF IInv, WellFormed, SwitchOK, TypeOK, condVars, mutexVars
<1>3. CASE IdleSchedule
  <2>1. /\ pc[cpu] = "idle" /\ Schedule(remained_time)
        /\ pc' = [pc EXCEPT ![cpu] = "halt"]
    BY <1>2, <1>3 DEF IdleSchedule, CallSchedule, Goto
  <2>2. "halt" \in Label /\ MayReturn(pc[cpu], "halt")
    BY <2>1 DEF Label, MayReturn
  <2> QED BY <1>2, <2>1, <2>2, ScheduleStep
<1>4. CASE IdleStart \/ IdleHalt
  <2>1. PICK label \in {"idle", "hlt"} :
          /\ pc' = [pc EXCEPT ![idle] = label]
          /\ int_enabled' \in BOOLEAN
          /\ UNCHANGED <<cpu, current, ready, state, context, remained_time,
                         wait, preempt_count>>
          /\ pc[idle] \in {"boot", "halt"}
    BY <1>2, <1>4 DEF IdleStart, IdleHalt, Goto, schedVars, TypeOK
  <2>2. /\ label \in Label /\ pc'[idle] = label
        /\ label \notin LinkLabel /\ pc[idle] \notin LinkLabel
        /\ Spins(idle) = 0 /\ Spins(idle)' = 0 /\ label \notin UnlockLabel
        /\ ~Entering(idle) /\ ~Entering(idle)' /\ ~Holds(idle)'
        /\ list[idle] = <<>>
    BY <1>1, <1>2, <2>1
    DEF Label, LinkLabel, Spins, SpinSection, UnlockLabel, Entering, Holds,
        TypeOK, CallOK
  <2> QED BY <1>1, <1>2, <2>1, <2>2, QuietStep DEF TypeOK
<1> QED BY <1>3, <1>4 DEF Idle

\* The steps of mutex_lock, mutex_unlock and condition_wait that only test, or
\* take or release a spinlock, and the end of notify_all.
LEMMA SpinStep ==
  ASSUME IInv, NEW t \in Thread,
         \/ Lock(t) \/ Unlock(t) \/ WaitEnter(t) \/ WaitRelease(t)
         \/ WaitUnlock(t) \/ NotifyAllDone(t)
         \/ /\ \/ LockTest(t) \/ LockUnlock(t) \/ LockRelock(t) \/ LockRetest(t)
               \/ LockDone(t, "inside") \/ UnlockDone(t, ret[t])
            /\ UNCHANGED <<ret, list>>
  PROVE  IInv'
<1> DEFINE Quiet(from, label, spins) ==
      /\ pc[t] = from /\ pc' = [pc EXCEPT ![t] = label]
      /\ preempt_count' = preempt_count + spins
<1>1. /\ Running(t) /\ UNCHANGED <<ready, state, owner, queue, list>>
      /\ UNCHANGED <<cpu, current, context, remained_time, int_enabled, wait>>
  BY DEF Lock, Unlock, WaitEnter, WaitRelease, WaitUnlock, NotifyAllDone,
         LockEnter, LockTest, LockUnlock, LockRelock, LockRetest, LockDone,
         UnlockEnter, UnlockDone, Step, At, mutexVars, condVars
<1>2. /\ TypeOK /\ WaitersOK /\ CallOK /\ HandOver /\ StateOK /\ MonitorExclusion
      /\ preempt_count = Spins(t)
      /\ state[t] \in {"ACTIVE", "BLOCKED"}
      /\ state[t] = "BLOCKED" =>
              \/ pc[t] \in {"lock_unlock", "lock_schedule", "wait_schedule"}
              \/ Entering(t) /\ pc[t] # "wait_block"
  BY <1>1, RunningThread DEF IInv, WellFormed
<1> USE DEF Step, At, Goto, SpinLock, SpinUnlock
<1>3. \/ /\ ret' = ret
         /\ \/ Quiet("outside", "lock_test", 1)
            \/ Quiet("wait_lock", "lock_test", 1)
            \/ Quiet("lock_test", "lock_done", 0) /\ owner = t
            \/ Quiet("lock_test", "lock_queue", 0) /\ owner \notin {t, NoThread}
            \/ Quiet("lock_unlock", "lock_schedule", -1)
            \/ Quiet("lock_relock", "lock_unlink", 1)
            \/ Quiet("lock_retest", "lock_done", 0) /\ owner = t
            \/ Quiet("lock_done", "inside", -1) /\ owner = t
            \/ Quiet("inside", "wait_link", 1) /\ owner = t
            \/ Quiet("wait_unlock", "wait_schedule", -1)
            \/ Quiet("unlock_done", ret[t], -1) /\ ret[t] # "inside"
            \/ Quiet("notify_all", ret[t], 0) /\ list[t] = <<>>
               /\ ret[t] # "wait_unlock" /\ (ret[t] = "inside" => owner = t)
      \/ /\ Quiet("inside", "unlock_pass", 1) /\ owner = t
         /\ ret' = [ret EXCEPT ![t] = "outside"]
      \/ /\ Quiet("wait_release", "unlock_pass", 1) /\ owner = t
         /\ ret' = [ret EXCEPT ![t] = "wait_unlock"]
  <2>1. preempt_count \in Nat /\ preempt_count + 0 = preempt_count
        /\ preempt_count - 1 = preempt_count + (-1)
    BY <1>2 DEF TypeOK
  <2>2. CASE Lock(t)
    BY <2>2 DEF Lock, LockEnter
  <2>3. CASE Unlock(t) \/ WaitEnter(t) \/ WaitRelease(t)
    <3>1. owner = t
      BY <1>2, <2>3
      DEF Unlock, WaitEnter, WaitRelease, UnlockEnter, MonitorExclusion, Holds
    <3> QED
      BY <2>3, <3>1 DEF Unlock, WaitEnter, WaitRelease, UnlockEnter, condVars
  <2>4. CASE WaitUnlock(t)
    BY <2>1, <2>4 DEF WaitUnlock, condVars
  <2>5. CASE NotifyAllDone(t)
    BY <1>2, <2>1, <2>5
    DEF NotifyAllDone, condVars, CallOK, MonitorExclusion, Holds
  <2>6. CASE LockTest(t) /\ UNCHANGED <<ret, list>>
    BY <2>1, <2>6 DEF LockTest
  <2>7. CASE (LockUnlock(t) \/ LockRelock(t)) /\ UNCHANGED <<ret, list>>
    BY <2>1, <2>7 DEF LockUnlock, LockRelock
  <2>8. CASE LockRetest(t) /\ UNCHANGED <<ret, list>>
    <3>1. pc[t] = "lock_retest" /\ owner = t
      BY <1>2, <2>8 DEF LockRetest, HandOver
    <3> QED BY <2>1, <2>8, <3>1 DEF LockRetest
  <2>9. CASE LockDone(t, "inside") /\ UNCHANGED <<ret, list>>
    <3>1. owner = t
      BY <1>2, <2>9 DEF LockDone, MonitorExclusion, Holds
    <3> QED BY <2>1, <2>9, <3>1 DEF LockDone
  <2>10. CASE UnlockDone(t, ret[t]) /\ UNCHANGED <<ret, list>>
    BY <1>2, <2>1, <2>10 DEF UnlockDone, CallOK, UnlockLabel
  <2> QED
    BY <2>2, <2>3, <2>4, <2>5, <2>6, <2>7, <2>8, <2>9, <2>10
<1>4. ASSUME NEW from, NEW label, NEW spins \in {-1, 0, 1}, Quiet(from, label, spins),
             ret' \in [Thread -> {"inside", "outside", "wait_unlock"}],
             \A u \in Thread \ {t} : ret'[u] = ret[u],
             \/ /\ ret'[t] = ret[t]
                /\ \/ from \in {"outside", "wait_lock"} /\ label = "lock_test"
                      /\ spins = 1
                   \/ from \in {"lock_test", "lock_retest"} /\ owner = t
                      /\ label = "lock_done" /\ spins = 0
                   \/ from = "lock_test" /\ owner \notin {t, NoThread}
                      /\ label = "lock_queue" /\ spins = 0
                   \/ from = "lock_unlock" /\ label = "lock_schedule"
                      /\ spins = -1
                   \/ from = "lock_relock" /\ label = "lock_unlink" /\ spins = 1
                   \/ from = "lock_done" /\ owner = t /\ label = "inside"
                      /\ spins = -1
                   \/ from = "inside" /\ owner = t /\ label = "wait_link"
                      /\ spins = 1
                   \/ from = "wait_unlock" /\ label = "wait_schedule"
                      /\ spins = -1
                   \/ from = "unlock_done" /\ label = ret[t] /\ spins = -1
                      /\ ret[t] \in {"outside", "wait_unlock"}
                   \/ from = "notify_all" /\ label = ret[t] /\ spins = 0
                      /\ list[t] = <<>> /\ ret[t] \in {"inside", "outside"}
                      /\ (ret[t] = "inside" => owner = t)
             \/ from = "inside" /\ owner = t /\ label = "unlock_pass"
                /\ spins = 1 /\ ret'[t] = "outside"
             \/ from = "wait_release" /\ owner = t /\ label = "unlock_pass"
                /\ spins = 1 /\ ret'[t] = "wait_unlock"
      PROVE  IInv'
  <2>1. label \in Label
    BY <1>4 DEF Label, LockLabel, UnlockLabel, WaitLabel
  <2>2. pc'[t] = label /\ pc[t] = from
    BY <1>2, <1>4 DEF TypeOK
  <2>3. preempt_count' = Spins(t)'
    <3>1. Spins(t)' = Spins(t) + spins
      BY <1>4, <2>2 DEF Spins, SpinSection, UnlockLabel
    <3> QED BY <1>2, <1>4, <3>1
  <2>4. pc[t] \in LinkLabel <=> label \in LinkLabel
    BY <1>4, <2>2 DEF LinkLabel
  <2>5. list[t] = <<>>
    BY <1>2, <1>4, <2>2 DEF CallOK
  <2>6. Entering(t)' => Entering(t)
    BY <1>4, <2>2 DEF Entering, UnlockLabel
  <2>7. state[t] = "BLOCKED" =>
           \/ label = "lock_schedule" /\ pc[t] \in LockLabel
           \/ (Entering(t)' \/ label = "wait_schedule") /\ pc[t] \notin LockLabel
    BY <1>2, <1>4, <2>2 DEF Entering, UnlockLabel, LockLabel
  <2>8. label \in {"lock_retest", "unlock_pass"} \/ Holds(t)' => owner = t
    BY <1>4, <2>2 DEF Holds
  <2> HIDE DEF Quiet
  <2>9. pc' = [pc EXCEPT ![t] = label]
    BY <1>4 DEF Quiet
  <2>10. /\ pc[t] \notin {"lock_block", "wait_block", "unlock_wake", "new"}
         /\ label \notin {"lock_block", "wait_block", "unlock_wake", "new",
                         "notify_all"}
         /\ pc[t] \in {"boot", "idle", "halt", "hlt"} <=>
              label \in {"boot", "idle", "halt", "hlt"}
         /\ owner = t /\ pc[t] \in {"wait_block", "wait_release", "unlock_pass"} =>
              label = "unlock_pass"
         /\ label \in UnlockLabel => ret'[t] # "inside"
         /\ label = "lock_queue" => owner \notin {t, NoThread}
    BY <1>4, <2>2 DEF UnlockLabel
  <2>11. int_enabled' \in BOOLEAN
    BY <1>1, <1>2 DEF TypeOK
  <2> QED
    BY <1>1, <1>4, <2>1, <2>3, <2>4, <2>5, <2>6, <2>7, <2>8, <2>9, <2>10, <2>11,
       QuietStep
<1>5. ret \in [Thread -> {"inside", "outside", "wait_unlock"}]
  BY <1>2 DEF TypeOK
<1>6. CASE ret' = ret
  BY <1>3, <1>4, <1>5, <1>6
<1>7. CASE ret' # ret
  <2>1. \/ ret' = [ret EXCEPT ![t] = "outside"]
        \/ ret' = [ret EXCEPT ![t] = "wait_unlock"]
    BY <1>3, <1>7
  <2>2. /\ ret' \in [Thread -> {"inside", "outside", "wait_unlock"}]
        /\ \A u \in Thread \ {t} : ret'[u] = ret[u]
    BY <1>5, <2>1
  <2>3. \/ /\ Quiet("inside", "unlock_pass", 1) /\ owner = t
           /\ ret'[t] = "outside"
        \/ /\ Quiet("wait_release", "unlock_pass", 1) /\ owner = t
           /\ ret'[t] = "wait_unlock"
    BY <1>3, <1>5, <1>7
  <2> HIDE DEF Quiet
  <2> QED BY <1>4, <2>2, <2>3
<1> QED BY <1>6, <1>7

\* What a step of a call starts from, and leaves alone.
LEMMA StepBegins ==
  ASSUME IInv, NEW t \in Thread, NEW from, NEW label \in Label,
         At(t, from), Goto(t, label), UNCHANGED <<cpu, context, ret>>
  PROVE  /\ TypeOK /\ EntriesLive /\ ReadyOnce /\ WaitersOK /\ CallOK /\ QueueOK
         /\ HandOver /\ SpinOK /\ SwitchOK /\ StateOK
         /\ MonitorExclusion /\ MonitorNoLostWakeup
         /\ cpu = t /\ current = t /\ context[t] = "live" /\ t \notin ToSet(ready)
         /\ preempt_count = Spins(t)
         /\ state[t] \in {"ACTIVE", "BLOCKED"}
         /\ from \notin UnlockLabel \cup {"lock_unlock", "lock_schedule",
              "wait_schedule", "wait_release", "wait_unlock"} => state[t] = "ACTIVE"
         /\ ToSet(queue) \subseteq Thread /\ ToSet(ready) \subseteq Thread
         /\ pc[t] = from /\ pc' \in [Thread -> Label] /\ pc'[t] = label
         /\ \A u \in Thread : (Running(u) <=> u = t) /\ (Running(u)' <=> u = t)
         /\ \A u \in Thread \ {t} :
              /\ pc'[u] = pc[u] /\ pc[u] \notin SpinSection
              /\ Spins(u)' = Spins(u)
              /\ ~Entering(u) /\ ~Entering(u)'
              /\ Holds(u)' <=> Holds(u)
              /\ InWait(u)' <=> InWait(u)
<1>1. Running(t) /\ pc[t] = from /\ pc' = [pc EXCEPT ![t] = label]
  BY DEF At, Goto
<1>2. from \notin UnlockLabel \cup {"lock_unlock", "lock_schedule",
              "wait_schedule", "wait_release", "wait_unlock"} => state[t] = "ACTIVE"
  BY <1>1, RunningThread DEF Entering
<1>3. \A u \in Thread \ {t} : ret'[u] = ret[u]
  OBVIOUS
<1> QED BY <1>1, <1>2, <1>3, RunningThread, RunningStep

\* A free mutex is taken.
LEMMA TakeStep ==
  ASSUME IInv, NEW t \in Thread, LockTakeFree(t), UNCHANGED <<ret, list>>
  PROVE  /\ IInv'
         /\ owner = NoThread /\ t \notin ToSet(queue) /\ ~Listed(t)
<1>1. /\ At(t, "lock_test") /\ Goto(t, "lock_done")
      /\ owner = NoThread /\ owner' = t
      /\ UNCHANGED <<cpu, current, ready, state, context, remained_time,
                     int_enabled, wait, preempt_count, queue>>
      /\ "lock_done" \in Label
  BY DEF LockTakeFree, Step, Label, LockLabel
<1>2. /\ TypeOK /\ EntriesLive /\ ReadyOnce /\ WaitersOK /\ CallOK /\ QueueOK
      /\ HandOver /\ SpinOK /\ SwitchOK /\ StateOK
      /\ MonitorExclusion /\ MonitorNoLostWakeup
      /\ cpu = t /\ state[t] = "ACTIVE" /\ ToSet(queue) \subseteq Thread
      /\ pc[t] = "lock_test" /\ pc' \in [Thread -> Label] /\ pc'[t] = "lock_done"
      /\ \A u \in Thread : (Running(u) <=> u = t) /\ (Running(u)' <=> u = t)
      /\ \A u \in Thread \ {t} :
           /\ pc'[u] = pc[u] /\ pc[u] \notin SpinSection
           /\ Spins(u)' = Spins(u) /\ ~Entering(u) /\ ~Entering(u)'
           /\ Holds(u)' <=> Holds(u)
           /\ InWait(u)' <=> InWait(u)
  BY <1>1, StepBegins DEF UnlockLabel
<1>3. /\ \A u \in Thread : ~Holds(u) /\ u # owner
      /\ t \notin ToSet(queue)
      /\ \A u \in Thread : state[u] = "BLOCKED" => InWait(u) /\ Listed(u)
  BY <1>1, <1>2, NoThreadAssumption
  DEF MonitorExclusion, MonitorNoLostWakeup, QueueOK, LinkLabel, SpinSection,
      UnlockLabel
<1>4. /\ \A u \in Thread : Listed(u)' <=> Listed(u)
      /\ ~Listed(t) /\ t \notin ToSet(wait[cv])
      /\ ~Entering(t)' /\ Spins(t)' = Spins(t) /\ ~InWait(t)
  BY <1>1, <1>2
  DEF Listed, WaitersOK, Entering, Spins, SpinSection, UnlockLabel, InWait
<1>5. TypeOK'
  BY <1>1, <1>2 DEF TypeOK
<1>6. (SpinOK /\ SwitchOK /\ ReadyOnce /\ StateOK /\ CallOK)'
  BY <1>1, <1>2, <1>3, <1>4
  DEF SpinOK, SpinSection, UnlockLabel, SwitchOK, ReadyOnce, StateOK, CallOK
<1>7. (EntriesLive /\ WaitersOK)'
  BY <1>1, <1>2, <1>4 DEF EntriesLive, WaitersOK
<1>8. (QueueOK /\ HandOver)'
  BY <1>1, <1>2, <1>3, NoThreadAssumption
  DEF QueueOK, LinkLabel, HandOver, SpinSection, UnlockLabel
<1>9. (MonitorExclusion /\ MonitorNoLostWakeup)'
  BY <1>1, <1>2, <1>3, <1>4 DEF MonitorExclusion, MonitorNoLostWakeup
<1> QED BY <1>1, <1>3, <1>4, <1>5, <1>6, <1>7, <1>8, <1>9 DEF IInv, WellFormed

\* A thread links its entry to the end of the list of the mutex.
LEMMA QueueStep ==
  ASSUME IInv, NEW t \in Thread, LockQueue(t), UNCHANGED <<ret, list>>
  PROVE  IInv'
<1>1. /\ At(t, "lock_queue") /\ Goto(t, "lock_block")
      /\ queue' = Append(queue, t)
      /\ UNCHANGED <<cpu, current, ready, state, context, remained_time,
                     int_enabled, wait, preempt_count, owner>>
      /\ "lock_block" \in Label
  BY DEF LockQueue, Step, Label, LockLabel
<1>2. /\ TypeOK /\ EntriesLive /\ ReadyOnce /\ WaitersOK /\ CallOK /\ QueueOK
      /\ HandOver /\ SpinOK /\ SwitchOK /\ StateOK
      /\ MonitorExclusion /\ MonitorNoLostWakeup
      /\ cpu = t /\ state[t] = "ACTIVE" /\ ToSet(queue) \subseteq Thread
      /\ pc[t] = "lock_queue" /\ pc' \in [Thread -> Label] /\ pc'[t] = "lock_block"
      /\ \A u \in Thread : (Running(u) <=> u = t) /\ (Running(u)' <=> u = t)
      /\ \A u \in Thread \ {t} :
           /\ pc'[u] = pc[u] /\ pc[u] \notin SpinSection
           /\ Spins(u)' = Spins(u) /\ ~Entering(u) /\ ~Entering(u)'
           /\ Holds(u)' <=> Holds(u)
           /\ InWait(u)' <=> InWait(u)
  BY <1>1, StepBegins DEF UnlockLabel
<1>3. /\ t \notin ToSet(queue) /\ owner \notin {t, NoThread}
      /\ \A u \in Thread : Listed(u)' <=> Listed(u)
      /\ ~Listed(t) /\ ~Entering(t)' /\ Spins(t)' = Spins(t)
      /\ ~Holds(t)'
  BY <1>1, <1>2
  DEF QueueOK, LinkLabel, HandOver, Listed, WaitersOK, Entering, Spins,
      SpinSection, UnlockLabel, Holds
<1>4. /\ queue' \in Seq(Thread) /\ queue' # <<>>
      /\ ToSet(queue') = ToSet(queue) \cup {t}
      /\ IsInjective(queue')
      /\ queue # <<>> => Head(queue') = Head(queue)
  BY <1>1, <1>2, <1>3, AppendQueue, AppendTail DEF TypeOK, QueueOK
<1>5. owner \in ToSet(queue) => queue # <<>>
  BY EmptyQueue
<1>6. TypeOK'
  BY <1>1, <1>2, <1>4 DEF TypeOK
<1>7. (SpinOK /\ SwitchOK /\ ReadyOnce /\ StateOK /\ CallOK)'
  BY <1>1, <1>2, <1>3
  DEF SpinOK, SpinSection, UnlockLabel, SwitchOK, ReadyOnce, StateOK, CallOK
<1>8. (EntriesLive /\ WaitersOK)'
  BY <1>1, <1>2, <1>3 DEF EntriesLive, WaitersOK
<1>9. QueueOK'
  BY <1>1, <1>2, <1>3, <1>4, <1>5 DEF QueueOK, LinkLabel
<1>10. HandOver'
  BY <1>1, <1>2, <1>3, <1>4 DEF HandOver, SpinSection, UnlockLabel
<1>11. (MonitorExclusion /\ MonitorNoLostWakeup)'
  BY <1>1, <1>2, <1>3, <1>4 DEF MonitorExclusion, MonitorNoLostWakeup
<1> QED
  BY <1>6, <1>7, <1>8, <1>9, <1>10, <1>11 DEF IInv, WellFormed

\* Its entry is linked: the thread goes to sleep.
LEMMA BlockStep ==
  ASSUME IInv, NEW t \in Thread, LockBlock(t), UNCHANGED <<ret, list>>
  PROVE  IInv'
<1>1. /\ At(t, "lock_block") /\ Goto(t, "lock_unlock")
      /\ state' = [state EXCEPT ![current] = "BLOCKED"]
      /\ UNCHANGED <<cpu, current, ready, context, remained_time,
                     int_enabled, wait, preempt_count, owner, queue>>
      /\ "lock_unlock" \in Label
  BY DEF LockBlock, Step, ThreadBlock, mutexVars, Label, LockLabel
<1>2. /\ TypeOK /\ EntriesLive /\ ReadyOnce /\ WaitersOK /\ CallOK /\ QueueOK
      /\ HandOver /\ SpinOK /\ SwitchOK /\ StateOK
      /\ MonitorExclusion /\ MonitorNoLostWakeup
      /\ cpu = t /\ current = t /\ context[t] = "live"
      /\ state[t] = "ACTIVE" /\ ToSet(queue) \subseteq Thread
      /\ t \notin ToSet(ready) /\ ToSet(ready) \subseteq Thread
      /\ pc[t] = "lock_block" /\ pc' \in [Thread -> Label] /\ pc'[t] = "lock_unlock"
      /\ \A u \in Thread : (Running(u) <=> u = t) /\ (Running(u)' <=> u = t)
      /\ \A u \in Thread \ {t} :
           /\ pc'[u] = pc[u] /\ pc[u] \notin SpinSection
           /\ Spins(u)' = Spins(u) /\ ~Entering(u) /\ ~Entering(u)'
           /\ Holds(u)' <=> Holds(u)
           /\ InWait(u)' <=> InWait(u)
  BY <1>1, StepBegins DEF UnlockLabel
<1>a. /\ state' \in [Thread -> ThreadState] /\ state'[t] = "BLOCKED"
      /\ \A u \in Thread \ {t} : state'[u] = state[u]
  BY <1>1, <1>2 DEF TypeOK, ThreadState
<1>b. /\ t # idle /\ owner \notin {t, NoThread} /\ t \in ToSet(queue)
      /\ \A u \in Thread : Listed(u)' <=> Listed(u)
      /\ ~Listed(t)
  BY <1>1, <1>2 DEF StateOK, QueueOK, LinkLabel, HandOver, Listed, WaitersOK
<1>c. ~Entering(t)' /\ Spins(t)' = Spins(t) /\ ~Holds(t)'
  BY <1>1, <1>2 DEF Entering, Spins, SpinSection, UnlockLabel, Holds
<1>3. /\ state' \in [Thread -> ThreadState] /\ state'[t] = "BLOCKED"
      /\ \A u \in Thread \ {t} : state'[u] = state[u]
      /\ t # idle /\ owner \notin {t, NoThread} /\ t \in ToSet(queue)
      /\ \A u \in Thread : Listed(u)' <=> Listed(u)
      /\ ~Listed(t) /\ ~Entering(t)' /\ Spins(t)' = Spins(t)
      /\ ~Holds(t)'
  BY <1>a, <1>b, <1>c
<1>4. TypeOK'
  BY <1>1, <1>2, <1>3 DEF TypeOK
<1>5. (SpinOK /\ SwitchOK /\ ReadyOnce /\ StateOK /\ CallOK)'
  BY <1>1, <1>2, <1>3, IdleAssumption
  DEF SpinOK, SpinSection, UnlockLabel, SwitchOK, ReadyOnce, StateOK, CallOK
<1>6. (EntriesLive /\ WaitersOK)'
  BY <1>1, <1>2, <1>3 DEF EntriesLive, WaitersOK
<1>7. (QueueOK /\ HandOver)'
  BY <1>1, <1>2, <1>3 DEF QueueOK, LinkLabel, HandOver, SpinSection, UnlockLabel
<1>8. (MonitorExclusion /\ MonitorNoLostWakeup)'
  BY <1>1, <1>2, <1>3 DEF MonitorExclusion, MonitorNoLostWakeup, LockLabel
<1> QED BY <1>4, <1>5, <1>6, <1>7, <1>8 DEF IInv, WellFormed

\* The woken thread takes its entry out of the list: it is the first.
LEMMA UnlinkStep ==
  ASSUME IInv, NEW t \in Thread, LockUnlink(t), UNCHANGED <<ret, list>>
  PROVE  /\ IInv'
         /\ owner = t /\ queue # <<>> /\ Head(queue) = t
         /\ queue' = Tail(queue)
<1>1. /\ At(t, "lock_unlink") /\ Goto(t, "lock_retest")
      /\ \E i \in DOMAIN queue : queue[i] = t /\ queue' = RemoveAt(queue, i)
      /\ UNCHANGED <<cpu, current, ready, state, context, remained_time,
                     int_enabled, wait, preempt_count, owner>>
      /\ "lock_retest" \in Label
  BY DEF LockUnlink, Step, Label, LockLabel
<1>2. /\ TypeOK /\ EntriesLive /\ ReadyOnce /\ WaitersOK /\ CallOK /\ QueueOK
      /\ HandOver /\ SpinOK /\ SwitchOK /\ StateOK
      /\ MonitorExclusion /\ MonitorNoLostWakeup
      /\ cpu = t /\ state[t] = "ACTIVE" /\ ToSet(queue) \subseteq Thread
      /\ pc[t] = "lock_unlink" /\ pc' \in [Thread -> Label] /\ pc'[t] = "lock_retest"
      /\ \A u \in Thread : (Running(u) <=> u = t) /\ (Running(u)' <=> u = t)
      /\ \A u \in Thread \ {t} :
           /\ pc'[u] = pc[u] /\ pc[u] \notin SpinSection
           /\ Spins(u)' = Spins(u) /\ ~Entering(u) /\ ~Entering(u)'
           /\ Holds(u)' <=> Holds(u)
           /\ InWait(u)' <=> InWait(u)
  BY <1>1, StepBegins DEF UnlockLabel
<1>3. /\ t \in ToSet(queue) /\ owner = t /\ owner = Head(queue)
      /\ \A u \in Thread : Listed(u)' <=> Listed(u)
      /\ ~Listed(t) /\ ~Entering(t)' /\ Spins(t)' = Spins(t)
      /\ ~Holds(t)'
  BY <1>1, <1>2
  DEF QueueOK, LinkLabel, HandOver, Listed, WaitersOK, Entering, Spins,
      SpinSection, UnlockLabel, Holds
<1>4. queue # <<>> /\ queue' = Tail(queue)
  BY <1>1, <1>2, <1>3, RemoveHead DEF TypeOK, QueueOK
<1>5. /\ queue' \in Seq(Thread) /\ IsInjective(queue')
      /\ ToSet(queue) = ToSet(queue') \cup {t} /\ t \notin ToSet(queue')
  BY <1>2, <1>3, <1>4, TailQueue DEF TypeOK, QueueOK
<1>6. TypeOK'
  BY <1>1, <1>2, <1>5 DEF TypeOK
<1>7. (SpinOK /\ SwitchOK /\ ReadyOnce /\ StateOK /\ CallOK)'
  BY <1>1, <1>2, <1>3
  DEF SpinOK, SpinSection, UnlockLabel, SwitchOK, ReadyOnce, StateOK, CallOK
<1>8. (EntriesLive /\ WaitersOK)'
  BY <1>1, <1>2, <1>3 DEF EntriesLive, WaitersOK
<1>9. QueueOK'
  BY <1>1, <1>2, <1>3, <1>5 DEF QueueOK, LinkLabel
<1>10. HandOver'
  BY <1>1, <1>2, <1>3, <1>5 DEF HandOver, SpinSection, UnlockLabel
<1>11. (MonitorExclusion /\ MonitorNoLostWakeup)'
  BY <1>1, <1>2, <1>3, <1>5 DEF MonitorExclusion, MonitorNoLostWakeup
<1> QED
  BY <1>3, <1>4, <1>6, <1>7, <1>8, <1>9, <1>10, <1>11 DEF IInv, WellFormed

\* mutex_unlock names the next owner, the first of the list, which sleeps, or
\* nobody when the list is empty, and then nobody sleeps in the mutex.
LEMMA PassStep ==
  ASSUME IInv, NEW t \in Thread, UnlockPass(t) \/ UnlockFree(t),
         UNCHANGED <<ret, list>>
  PROVE  /\ IInv'
         /\ owner = t /\ t \notin ToSet(queue) /\ UNCHANGED <<queue, wait>>
         /\ Listed(t) <=> Entering(t)
         /\ Listed(t) => wait[cv] # <<>> /\ Last(wait[cv]) = t
         /\ owner' \in Thread => ~Listed(owner')
<1>1. PICK label \in {"unlock_wake", "unlock_done"} :
        /\ At(t, "unlock_pass") /\ Goto(t, label)
        /\ UNCHANGED <<cpu, current, ready, state, context, remained_time,
                       int_enabled, wait, preempt_count, queue>>
        /\ label = "unlock_wake" => queue # <<>> /\ owner' = Head(queue)
        /\ label = "unlock_done" => queue = <<>> /\ owner' = NoThread
  BY DEF UnlockPass, UnlockFree, Step
<1>2. label \in Label
  BY DEF Label, UnlockLabel
<1>3. /\ TypeOK /\ EntriesLive /\ ReadyOnce /\ WaitersOK /\ CallOK /\ QueueOK
      /\ HandOver /\ SpinOK /\ SwitchOK /\ StateOK
      /\ MonitorExclusion /\ MonitorNoLostWakeup
      /\ cpu = t /\ ToSet(queue) \subseteq Thread
      /\ pc[t] = "unlock_pass" /\ pc' \in [Thread -> Label] /\ pc'[t] = label
      /\ \A u \in Thread : (Running(u) <=> u = t) /\ (Running(u)' <=> u = t)
      /\ \A u \in Thread \ {t} :
           /\ pc'[u] = pc[u] /\ pc[u] \notin SpinSection
           /\ Spins(u)' = Spins(u) /\ ~Entering(u) /\ ~Entering(u)'
           /\ Holds(u)' <=> Holds(u)
           /\ InWait(u)' <=> InWait(u)
  BY <1>1, <1>2, StepBegins
<1>4. owner = t /\ t \notin ToSet(queue)
  BY <1>3 DEF HandOver, QueueOK, LinkLabel
<1>5. /\ \A u \in ToSet(queue) : /\ state[u] = "BLOCKED" /\ u # t
                                 /\ pc[u] \in LinkLabel
                                 /\ ~InWait(u) /\ ~Listed(u)
      /\ queue # <<>> => Head(queue) \in ToSet(queue) /\ Head(queue) \in Thread
  <2>1. ASSUME NEW u \in ToSet(queue)
        PROVE  /\ state[u] = "BLOCKED" /\ u # t /\ pc[u] \in LinkLabel
               /\ ~InWait(u) /\ ~Listed(u)
    <3>1. u \in Thread /\ u # t /\ pc[u] \in LinkLabel
      BY <1>3, <1>4 DEF QueueOK
    <3>2. state[u] = "BLOCKED"
      BY <1>3, <1>4, <3>1 DEF HandOver, SpinSection
    <3>3. ~InWait(u) /\ ~Listed(u)
      BY <1>3, <3>1 DEF InWait, LinkLabel, UnlockLabel, EntriesLive
    <3> QED BY <3>1, <3>2, <3>3
  <2> QED BY <2>1, <1>3, TailQueue DEF TypeOK
<1>6. /\ \A u \in Thread : Listed(u)' <=> Listed(u)
      /\ Entering(t)' <=> Entering(t)
      /\ Spins(t)' = Spins(t) /\ ~Holds(t)'
      /\ InWait(t)' <=> InWait(t)
      /\ Entering(t) <=> ret[t] = "wait_unlock"
      /\ InWait(t) <=> ret[t] = "wait_unlock"
  BY <1>1, <1>3
  DEF Listed, Entering, Spins, SpinSection, UnlockLabel, Holds, InWait
<1>7. /\ Listed(t) <=> Entering(t)
      /\ Listed(t) => wait[cv] # <<>> /\ Last(wait[cv]) = t
  <2>1. Entering(t) => /\ wait[cv] # <<>> /\ Last(wait[cv]) = t
                       /\ t \in ToSet(wait[cv])
    BY <1>3, Queues, LastQueue DEF WaitersOK
  <2>2. Listed(t) => Entering(t)
    BY <1>3, <1>6 DEF EntriesLive
  <2> QED BY <2>1, <2>2 DEF Listed
<1>8. owner' \in Thread => owner' \in ToSet(queue) /\ owner' = Head(queue)
                          /\ label = "unlock_wake"
  BY <1>1, <1>5, NoThreadAssumption
<1>9. TypeOK'
  BY <1>1, <1>3, <1>5 DEF TypeOK
<1>10. (SpinOK /\ SwitchOK /\ ReadyOnce /\ CallOK)'
  BY <1>1, <1>3, <1>6
  DEF SpinOK, SpinSection, UnlockLabel, SwitchOK, ReadyOnce, CallOK
<1>11. StateOK'
  BY <1>1, <1>3, <1>6 DEF StateOK
<1>12. (EntriesLive /\ WaitersOK)'
  BY <1>1, <1>3, <1>5, <1>6, <1>8, SMTT(30) DEF EntriesLive, WaitersOK, Listed
<1>13. QueueOK'
  BY <1>1, <1>3, <1>8, <1>5, NoThreadAssumption DEF QueueOK, LinkLabel
<1>14. HandOver'
  BY <1>1, <1>3, <1>4, <1>5 DEF HandOver, SpinSection, UnlockLabel
<1>15. MonitorExclusion'
  BY <1>1, <1>3, <1>4, <1>6 DEF MonitorExclusion
<1>16. MonitorNoLostWakeup'
  <2>1. CASE label = "unlock_wake"
    BY <1>1, <1>3, <1>4, <1>5, <1>6, <2>1, NoThreadAssumption
    DEF MonitorNoLostWakeup
  <2>2. CASE label = "unlock_done"
    BY <1>1, <1>3, <1>6, <2>2, EmptyQueue DEF MonitorNoLostWakeup, LockLabel
  <2> QED BY <2>1, <2>2
<1>17. IInv'
  BY <1>9, <1>10, <1>11, <1>12, <1>13, <1>14, <1>15, <1>16 DEF IInv, WellFormed
<1> QED BY <1>1, <1>4, <1>5, <1>7, <1>8, <1>17

\* mutex_unlock wakes the new owner, which is asleep and in no queue.
LEMMA WakeStep ==
  ASSUME IInv, NEW t \in Thread, UnlockWake(t), UNCHANGED <<ret, list>>
  PROVE  IInv'
<1> DEFINE w == Head(queue)
<1>1. /\ At(t, "unlock_wake") /\ Goto(t, "unlock_done")
      /\ state' = [state EXCEPT ![w] = "ACTIVE"] /\ ready' = Append(ready, w)
      /\ UNCHANGED <<cpu, current, context, remained_time, int_enabled, wait,
                     preempt_count, owner, queue>>
      /\ "unlock_done" \in Label
  BY DEF UnlockWake, Step, ThreadStart, mutexVars, Label, UnlockLabel
<1>2. /\ TypeOK /\ EntriesLive /\ ReadyOnce /\ WaitersOK /\ CallOK /\ QueueOK
      /\ HandOver /\ SpinOK /\ SwitchOK /\ StateOK
      /\ MonitorExclusion /\ MonitorNoLostWakeup
      /\ cpu = t /\ current = t /\ context[t] = "live"
      /\ ToSet(queue) \subseteq Thread /\ ToSet(ready) \subseteq Thread
      /\ pc[t] = "unlock_wake" /\ pc' \in [Thread -> Label] /\ pc'[t] = "unlock_done"
      /\ \A u \in Thread : (Running(u) <=> u = t) /\ (Running(u)' <=> u = t)
      /\ \A u \in Thread \ {t} :
           /\ pc'[u] = pc[u] /\ pc[u] \notin SpinSection
           /\ Spins(u)' = Spins(u) /\ ~Entering(u) /\ ~Entering(u)'
           /\ Holds(u)' <=> Holds(u)
           /\ InWait(u)' <=> InWait(u)
  BY <1>1, StepBegins
<1>3. /\ w \in Thread /\ w \in ToSet(queue) /\ owner = w
      /\ state[w] = "BLOCKED" /\ w # t /\ w \notin ToSet(ready)
      /\ pc[w] \in LinkLabel
  BY <1>2, TailQueue DEF TypeOK, HandOver, ReadyOnce, QueueOK, LinkLabel
<1>4. /\ ready' \in Seq(Thread) /\ IsInjective(ready')
      /\ ToSet(ready') = ToSet(ready) \cup {w}
  BY <1>1, <1>2, <1>3, AppendQueue DEF TypeOK, ReadyOnce
<1>5. /\ state' \in [Thread -> ThreadState] /\ state'[w] = "ACTIVE"
      /\ \A u \in Thread \ {w} : state'[u] = state[u]
  BY <1>1, <1>2, <1>3 DEF TypeOK, ThreadState
<1> HIDE DEF w
<1>6. /\ \A u \in Thread : Listed(u)' <=> Listed(u)
      /\ Entering(t)' <=> Entering(t)
      /\ Spins(t)' = Spins(t) /\ ~Holds(t)'
      /\ InWait(t)' <=> InWait(t)
  BY <1>1, <1>2
  DEF Listed, Entering, Spins, SpinSection, UnlockLabel, Holds, InWait
<1>7. ~InWait(w) /\ ~Listed(w)
  BY <1>2, <1>3 DEF InWait, LinkLabel, UnlockLabel, EntriesLive
<1>8. TypeOK'
  BY <1>1, <1>2, <1>4, <1>5 DEF TypeOK
<1>9. (SpinOK /\ SwitchOK /\ ReadyOnce /\ CallOK)'
  BY <1>1, <1>2, <1>3, <1>4, <1>5, <1>6, IdleAssumption
  DEF SpinOK, SpinSection, UnlockLabel, SwitchOK, ReadyOnce, CallOK
<1>10. StateOK'
  BY <1>1, <1>2, <1>3, <1>5, <1>6 DEF StateOK, LinkLabel
<1>11. (EntriesLive /\ WaitersOK)'
  <2>1. EntriesLive'
    BY <1>1, <1>2, <1>6 DEF EntriesLive
  <2>2. w \notin ToSet(wait[cv])
    BY <1>7 DEF Listed
  <2> QED BY <1>1, <1>2, <1>3, <1>5, <1>6, <1>7, <2>1, <2>2 DEF WaitersOK
<1>12. QueueOK'
  BY <1>1, <1>2 DEF QueueOK, LinkLabel
<1>13. HandOver'
  BY <1>1, <1>2, <1>3, <1>5 DEF HandOver, SpinSection, UnlockLabel
<1>14. MonitorExclusion'
  BY <1>1, <1>2, <1>6 DEF MonitorExclusion
<1>15. MonitorNoLostWakeup'
  BY <1>1, <1>2, <1>3, <1>5, <1>6 DEF MonitorNoLostWakeup, LockLabel
<1> QED
  BY <1>8, <1>9, <1>10, <1>11, <1>12, <1>13, <1>14, <1>15 DEF IInv, WellFormed

\* condition_wait links the thread to the end of the list of the condition.
LEMMA WaitLinkStep ==
  ASSUME IInv, NEW t \in Thread, WaitLink(t)
  PROVE  /\ IInv'
         /\ owner = t /\ ~Listed(t)
<1>1. /\ At(t, "wait_link") /\ Goto(t, "wait_block")
      /\ wait' = [wait EXCEPT ![cv] = Append(@, t)]
      /\ UNCHANGED <<cpu, current, ready, state, context, remained_time,
                     preempt_count, int_enabled, owner, queue, ret, list>>
      /\ "wait_block" \in Label
  BY DEF WaitLink, Label, WaitLabel, condVars, mutexVars
<1>2. /\ TypeOK /\ EntriesLive /\ ReadyOnce /\ WaitersOK /\ CallOK /\ QueueOK
      /\ HandOver /\ SpinOK /\ SwitchOK /\ StateOK
      /\ MonitorExclusion /\ MonitorNoLostWakeup
      /\ cpu = t /\ state[t] = "ACTIVE" /\ ToSet(queue) \subseteq Thread
      /\ pc[t] = "wait_link" /\ pc' \in [Thread -> Label] /\ pc'[t] = "wait_block"
      /\ \A u \in Thread : (Running(u) <=> u = t) /\ (Running(u)' <=> u = t)
      /\ \A u \in Thread \ {t} :
           /\ pc'[u] = pc[u] /\ pc[u] \notin SpinSection
           /\ Spins(u)' = Spins(u) /\ ~Entering(u) /\ ~Entering(u)'
           /\ Holds(u)' <=> Holds(u)
           /\ InWait(u)' <=> InWait(u)
  BY <1>1, StepBegins DEF UnlockLabel
<1>3. /\ wait[cv] \in Seq(Thread) /\ wait'[cv] = Append(wait[cv], t)
      /\ wait' \in [Cond -> Seq(Thread)]
  BY <1>1, <1>2, CvAssumption, AppendQueue DEF TypeOK
<1>4. /\ owner = t /\ Holds(t) /\ Holds(t)' /\ ~InWait(t) /\ InWait(t)'
      /\ Entering(t)' /\ Spins(t)' = Spins(t)
  BY <1>2
  DEF MonitorExclusion, Holds, InWait, Entering, Spins, SpinSection, UnlockLabel
<1>5. ~Listed(t) /\ t \notin ToSet(wait[cv])
      /\ \A u \in Thread : t \notin ToSet(list[u])
  BY <1>2, <1>4 DEF EntriesLive, Listed
<1>6. /\ IsInjective(wait'[cv]) /\ wait'[cv] # <<>> /\ Last(wait'[cv]) = t
      /\ ToSet(wait'[cv]) = ToSet(wait[cv]) \cup {t}
  BY <1>2, <1>3, <1>5, AppendQueue, LastQueue DEF EntriesLive
<1>7. \A u \in Thread : Listed(u)' <=> Listed(u) \/ u = t
  BY <1>1, <1>6 DEF Listed
<1>8. TypeOK'
  BY <1>1, <1>2, <1>3 DEF TypeOK
<1>9. (SpinOK /\ SwitchOK /\ ReadyOnce /\ StateOK /\ CallOK)'
  BY <1>1, <1>2, <1>4
  DEF SpinOK, SpinSection, UnlockLabel, SwitchOK, ReadyOnce, StateOK, CallOK
<1>10. EntriesLive'
  <2>1. \A u \in Thread : Listed(u)' => InWait(u)'
    BY <1>2, <1>4, <1>7 DEF EntriesLive
  <2>2. \A u \in Thread : ToSet(list[u]) \cap ToSet(wait'[cv]) = {}
    BY <1>2, <1>5, <1>6 DEF EntriesLive
  <2> QED BY <1>1, <1>2, <1>6, <2>1, <2>2 DEF EntriesLive
<1>11. WaitersOK'
  BY <1>1, <1>2, <1>4, <1>6, <1>7 DEF WaitersOK
<1>12. (QueueOK /\ HandOver)'
  BY <1>1, <1>2 DEF QueueOK, LinkLabel, HandOver
<1>13. (MonitorExclusion /\ MonitorNoLostWakeup)'
  BY <1>1, <1>2, <1>4, <1>7 DEF MonitorExclusion, MonitorNoLostWakeup
<1> QED
  BY <1>4, <1>5, <1>8, <1>9, <1>10, <1>11, <1>12, <1>13 DEF IInv, WellFormed

\* Its entry is linked: the thread goes to sleep, and still has to release the
\* mutex.
LEMMA WaitBlockStep ==
  ASSUME IInv, NEW t \in Thread, WaitBlock(t)
  PROVE  IInv'
<1>1. /\ At(t, "wait_block") /\ Goto(t, "wait_release")
      /\ state' = [state EXCEPT ![current] = "BLOCKED"]
      /\ UNCHANGED <<cpu, current, ready, context, remained_time, wait,
                     preempt_count, int_enabled, owner, queue, ret, list>>
      /\ "wait_release" \in Label
  BY DEF WaitBlock, Step, ThreadBlock, Label, WaitLabel, condVars, mutexVars
<1>2. /\ TypeOK /\ EntriesLive /\ ReadyOnce /\ WaitersOK /\ CallOK /\ QueueOK
      /\ HandOver /\ SpinOK /\ SwitchOK /\ StateOK
      /\ MonitorExclusion /\ MonitorNoLostWakeup
      /\ cpu = t /\ current = t /\ context[t] = "live"
      /\ state[t] = "ACTIVE" /\ ToSet(queue) \subseteq Thread
      /\ t \notin ToSet(ready) /\ ToSet(ready) \subseteq Thread
      /\ pc[t] = "wait_block" /\ pc' \in [Thread -> Label] /\ pc'[t] = "wait_release"
      /\ \A u \in Thread : (Running(u) <=> u = t) /\ (Running(u)' <=> u = t)
      /\ \A u \in Thread \ {t} :
           /\ pc'[u] = pc[u] /\ pc[u] \notin SpinSection
           /\ Spins(u)' = Spins(u) /\ ~Entering(u) /\ ~Entering(u)'
           /\ Holds(u)' <=> Holds(u)
           /\ InWait(u)' <=> InWait(u)
  BY <1>1, StepBegins DEF UnlockLabel
<1>3. /\ state' \in [Thread -> ThreadState] /\ state'[t] = "BLOCKED"
      /\ \A u \in Thread \ {t} : state'[u] = state[u]
  BY <1>1, <1>2 DEF TypeOK, ThreadState
<1>4. /\ Holds(t)' /\ Holds(t) /\ InWait(t)' /\ InWait(t)
      /\ Entering(t) /\ Entering(t)' /\ Spins(t)' = Spins(t)
  BY <1>2 DEF Holds, InWait, Entering, Spins, SpinSection, UnlockLabel
<1>5. /\ \A u \in Thread : Listed(u)' <=> Listed(u)
      /\ Listed(t) /\ t # idle
  BY <1>1, <1>2, <1>4, Queues, LastQueue DEF Listed, WaitersOK, StateOK
<1>6. TypeOK'
  BY <1>1, <1>2, <1>3 DEF TypeOK
<1>7. (SpinOK /\ SwitchOK /\ ReadyOnce /\ StateOK /\ CallOK)'
  BY <1>1, <1>2, <1>3, <1>4, <1>5, IdleAssumption
  DEF SpinOK, SpinSection, UnlockLabel, SwitchOK, ReadyOnce, StateOK, CallOK
<1>8. (EntriesLive /\ WaitersOK)'
  BY <1>1, <1>2, <1>3, <1>4, <1>5 DEF EntriesLive, WaitersOK
<1>9. (QueueOK /\ HandOver)'
  BY <1>1, <1>2, <1>3 DEF QueueOK, LinkLabel, HandOver
<1>10. (MonitorExclusion /\ MonitorNoLostWakeup)'
  BY <1>1, <1>2, <1>3, <1>4, <1>5 DEF MonitorExclusion, MonitorNoLostWakeup
<1> QED BY <1>6, <1>7, <1>8, <1>9, <1>10 DEF IInv, WellFormed

\* A notifier wakes a waiter that it takes out of its list.
LEMMA NotifiedStep ==
  ASSUME IInv, NEW t \in Thread, Running(t),
         pc[t] \in {"inside", "outside", "notify_all"},
         NEW w \in Thread, Listed(w),
         ThreadStart(w),
         UNCHANGED <<cpu, current, context, remained_time, preempt_count,
                     int_enabled, pc, owner, queue, ret>>,
         wait' \in [Cond -> Seq(Thread)], list' \in [Thread -> Seq(Thread)],
         \A u \in Thread : /\ Listed(u)' <=> Listed(u) /\ u # w
                           /\ IsInjective(list'[u])
                           /\ ToSet(list'[u]) \subseteq ToSet(list[u])
                           /\ list[u] = <<>> => list'[u] = <<>>,
         IsInjective(wait'[cv]), ToSet(wait'[cv]) \subseteq ToSet(wait[cv])
  PROVE  IInv'
<1>1. /\ TypeOK /\ EntriesLive /\ ReadyOnce /\ WaitersOK /\ CallOK /\ QueueOK
      /\ HandOver /\ SpinOK /\ SwitchOK /\ StateOK
      /\ MonitorExclusion /\ MonitorNoLostWakeup
      /\ ToSet(queue) \subseteq Thread /\ ToSet(ready) \subseteq Thread
  BY Queues DEF IInv, WellFormed
<1>2. /\ cpu = t /\ current = t /\ context[t] = "live"
      /\ \A u \in Thread : (Running(u) <=> u = t) /\ (Running(u)' <=> u = t)
      /\ \A u \in Thread \ {t} : pc[u] \notin SpinSection /\ ~Entering(u)
  BY RunningThread DEF Running
<1>3. ~Entering(t) /\ ~InWait(t) /\ w # t
  BY <1>1 DEF Entering, InWait, UnlockLabel, EntriesLive
<1>4. /\ \A u \in Thread : /\ Spins(u)' = Spins(u)
                           /\ ~Entering(u) /\ ~Entering(u)'
                           /\ Holds(u)' <=> Holds(u)
                           /\ InWait(u)' <=> InWait(u)
  BY <1>2, <1>3, Others
<1>5. /\ state[w] = "BLOCKED" /\ w \notin ToSet(ready) /\ InWait(w)
      /\ pc[w] \notin LockLabel
  <2>1. InWait(w) /\ pc[w] \notin LockLabel
    BY <1>1 DEF EntriesLive, InWait, LockLabel, UnlockLabel
  <2>2. pc[w] # "wait_block"
    BY <1>2, <1>3 DEF SpinSection
  <2> QED BY <1>1, <2>1, <2>2 DEF WaitersOK, ReadyOnce
<1>6. /\ ready' \in Seq(Thread) /\ IsInjective(ready')
      /\ ToSet(ready') = ToSet(ready) \cup {w}
  BY <1>1, <1>5, AppendQueue DEF TypeOK, ReadyOnce, ThreadStart
<1>7. /\ state' \in [Thread -> ThreadState] /\ state'[w] = "ACTIVE"
      /\ \A u \in Thread \ {w} : state'[u] = state[u]
  BY <1>1 DEF TypeOK, ThreadState, ThreadStart
<1>8. TypeOK'
  BY <1>1, <1>6, <1>7 DEF TypeOK
<1>9. (SpinOK /\ SwitchOK /\ ReadyOnce /\ CallOK)'
  BY <1>1, <1>2, <1>3, <1>4, <1>6, <1>7, IdleAssumption
  DEF SpinOK, SwitchOK, ReadyOnce, CallOK
<1>10. StateOK'
  BY <1>1, <1>2, <1>4, <1>5, <1>7 DEF StateOK
<1>11. EntriesLive'
  BY <1>1, <1>4 DEF EntriesLive
<1>12. WaitersOK'
  BY <1>1, <1>4, <1>7 DEF WaitersOK
<1>13. QueueOK'
  BY <1>1 DEF QueueOK
<1>14. HandOver'
  <2>1. w \notin ToSet(queue)
    BY <1>1, <1>5 DEF QueueOK, LinkLabel, LockLabel
  <2>2. \A u \in Thread : pc[u] # "unlock_wake"
    BY <1>2 DEF SpinSection, UnlockLabel
  <2> QED BY <1>1, <1>7, <2>1, <2>2 DEF HandOver
<1>15. (MonitorExclusion /\ MonitorNoLostWakeup)'
  BY <1>1, <1>4, <1>7 DEF MonitorExclusion, MonitorNoLostWakeup
<1> QED
  BY <1>8, <1>9, <1>10, <1>11, <1>12, <1>13, <1>14, <1>15 DEF IInv, WellFormed

\* notify_one wakes the first waiter, if there is one.
LEMMA NotifyOneStep ==
  ASSUME IInv, NEW t \in Thread, NotifyOneCall(t)
  PROVE  /\ IInv'
         /\ UNCHANGED <<owner, queue>>
         /\ \/ UNCHANGED wait
            \/ wait[cv] # <<>> /\ wait'[cv] = Tail(wait[cv])
         /\ \A u \in Thread : ~Entering(u)
<1>1. /\ Running(t) /\ pc[t] \in {"inside", "outside"}
      /\ NotifyOne(cv, state)
      /\ UNCHANGED <<cpu, current, context, remained_time, preempt_count,
                     int_enabled, pc, owner, queue, ret, list>>
  BY DEF NotifyOneCall, At, condVars, mutexVars
<1>2. TypeOK /\ EntriesLive /\ wait[cv] \in Seq(Thread)
  BY Queues DEF IInv, WellFormed
<1>3. \A u \in Thread : ~Entering(u)
  BY <1>1, RunningThread DEF Entering, UnlockLabel
<1>4. CASE wait[cv] = <<>>
  <2>1. UNCHANGED <<state, wait, ready>>
    BY <1>1, <1>4 DEF NotifyOne
  <2>2. IInv'
    BY <1>1, <2>1
    DEF IInv, WellFormed, TypeOK, EntriesLive, ReadyOnce, WaitersOK, CallOK,
        QueueOK, HandOver, SpinOK, SwitchOK, StateOK, MonitorExclusion,
        MonitorNoLostWakeup, Listed, InWait, Entering, Holds, Spins, Running
  <2> QED BY <1>1, <1>3, <2>1, <2>2
<1>5. CASE wait[cv] # <<>>
  <2> DEFINE w == Head(wait[cv])
  <2>1. /\ wait' = [wait EXCEPT ![cv] = Tail(@)] /\ ThreadStart(w)
    BY <1>1, <1>5 DEF NotifyOne, ThreadStart
  <2>2. /\ wait' \in [Cond -> Seq(Thread)] /\ wait'[cv] = Tail(wait[cv])
    BY <1>2, <1>5, <2>1, CvAssumption, TailQueue DEF TypeOK
  <2>3. /\ w \in Thread /\ w \in ToSet(wait[cv]) /\ w \notin ToSet(wait'[cv])
        /\ ToSet(wait[cv]) = ToSet(wait'[cv]) \cup {w}
        /\ IsInjective(wait'[cv])
    BY <1>2, <1>5, <2>2, TailQueue DEF EntriesLive
  <2> HIDE DEF w
  <2>4. \A u \in Thread : w \notin ToSet(list[u])
    BY <1>2, <2>3 DEF EntriesLive
  <2>5. \A u \in Thread : Listed(u)' <=> Listed(u) /\ u # w
    BY <1>1, <2>3, <2>4 DEF Listed
  <2>6. Listed(w) /\ \A u \in Thread : IsInjective(list[u])
    BY <1>2, <2>3 DEF Listed, EntriesLive
  <2>7. list' \in [Thread -> Seq(Thread)]
    BY <1>1, <1>2 DEF TypeOK
  <2>8. IInv'
    BY <1>1, <2>1, <2>2, <2>3, <2>5, <2>6, <2>7, NotifiedStep
  <2> QED BY <1>1, <1>3, <1>5, <2>2, <2>8
<1> QED BY <1>4, <1>5

\* notify_all goes on to wake the first of the waiters it took.
LEMMA NotifyWakeStep ==
  ASSUME IInv, NEW t \in Thread, NotifyAllWake(t)
  PROVE  IInv'
<1> DEFINE w == Head(list[t])
<1>1. /\ Running(t) /\ pc[t] = "notify_all" /\ list[t] # <<>>
      /\ ThreadStart(w)
      /\ list' = [list EXCEPT ![t] = Tail(@)]
      /\ UNCHANGED <<cpu, current, context, remained_time, preempt_count,
                     int_enabled, wait, pc, owner, queue, ret>>
  BY DEF NotifyAllWake, At, mutexVars
<1>2. TypeOK /\ EntriesLive /\ list[t] \in Seq(Thread)
  BY Queues DEF IInv, WellFormed
<1>3. /\ w \in Thread /\ w \in ToSet(list[t]) /\ w \notin ToSet(Tail(list[t]))
      /\ ToSet(list[t]) = ToSet(Tail(list[t])) \cup {w}
      /\ IsInjective(Tail(list[t])) /\ Tail(list[t]) \in Seq(Thread)
  BY <1>1, <1>2, TailQueue DEF EntriesLive
<1> HIDE DEF w
<1>4. /\ list' \in [Thread -> Seq(Thread)] /\ wait' \in [Cond -> Seq(Thread)]
      /\ list'[t] = Tail(list[t])
      /\ \A u \in Thread \ {t} : list'[u] = list[u]
  BY <1>1, <1>2, <1>3 DEF TypeOK
<1>5. /\ w \notin ToSet(wait[cv])
      /\ \A u \in Thread \ {t} : w \notin ToSet(list[u])
  BY <1>2, <1>3 DEF EntriesLive
<1>6. \A u \in Thread : Listed(u)' <=> Listed(u) /\ u # w
  BY <1>1, <1>3, <1>4, <1>5 DEF Listed
<1>7. Listed(w)
  BY <1>3 DEF Listed
<1>8. \A u \in Thread : /\ IsInjective(list'[u])
                        /\ ToSet(list'[u]) \subseteq ToSet(list[u])
                        /\ list[u] = <<>> => list'[u] = <<>>
  BY <1>1, <1>2, <1>3, <1>4 DEF EntriesLive
<1>9. IsInjective(wait'[cv]) /\ ToSet(wait'[cv]) \subseteq ToSet(wait[cv])
  BY <1>1, <1>2 DEF EntriesLive
<1> QED BY <1>1, <1>3, <1>4, <1>6, <1>7, <1>8, <1>9, NotifiedStep

\* notify_all moves the waiters to a list of its own.
LEMMA NotifyAllStep ==
  ASSUME IInv, NEW t \in Thread, NotifyAllCall(t)
  PROVE  /\ IInv'
         /\ UNCHANGED <<owner, queue>> /\ wait'[cv] = <<>>
<1>1. /\ Running(t) /\ pc[t] \in {"inside", "outside"}
      /\ list' = [list EXCEPT ![t] = wait[cv]]
      /\ wait' = [wait EXCEPT ![cv] = <<>>]
      /\ ret' = [ret EXCEPT ![t] = pc[t]]
      /\ pc' = [pc EXCEPT ![t] = "notify_all"]
      /\ UNCHANGED <<cpu, current, ready, state, context, remained_time,
                     preempt_count, int_enabled, owner, queue>>
      /\ "notify_all" \in Label
  BY DEF NotifyAllCall, At, Goto, mutexVars, Label
<1>2. TypeOK /\ wait[cv] \in Seq(Thread) /\ wait'[cv] = <<>>
      /\ wait' \in [Cond -> Seq(Thread)]
  BY <1>1, Queues, CvAssumption, EmptyQueue DEF IInv, WellFormed, TypeOK
<1>3. /\ list' \in [Thread -> Seq(Thread)] /\ list'[t] = wait[cv]
      /\ \A u \in Thread \ {t} : list'[u] = list[u]
      /\ ret' \in [Thread -> {"inside", "outside", "wait_unlock"}]
      /\ ret'[t] = pc[t] /\ \A u \in Thread \ {t} : ret'[u] = ret[u]
  BY <1>1, <1>2 DEF TypeOK
<1>4. /\ EntriesLive /\ ReadyOnce /\ WaitersOK /\ CallOK /\ QueueOK
      /\ HandOver /\ SpinOK /\ SwitchOK /\ StateOK
      /\ MonitorExclusion /\ MonitorNoLostWakeup
      /\ ToSet(queue) \subseteq Thread
      /\ pc' \in [Thread -> Label] /\ pc'[t] = "notify_all"
      /\ \A u \in Thread : Running(u)' <=> u = t
      /\ \A u \in Thread \ {t} :
           /\ pc'[u] = pc[u] /\ pc[u] \notin SpinSection
           /\ Spins(u)' = Spins(u) /\ ~Entering(u) /\ ~Entering(u)'
           /\ Holds(u)' <=> Holds(u)
           /\ InWait(u)' <=> InWait(u)
  BY <1>1, <1>3, RunningStep
<1>5. /\ cpu = t /\ state[t] = "ACTIVE"
      /\ \A u \in Thread : Running(u) <=> u = t
  BY <1>1, RunningThread DEF Entering, UnlockLabel
<1>6. /\ Holds(t)' <=> Holds(t)
      /\ ~InWait(t) /\ ~Entering(t)' /\ Spins(t)' = Spins(t)
  BY <1>1, <1>3, <1>4
  DEF Holds, InWait, Entering, Spins, SpinSection, UnlockLabel
<1>7. ToSet(wait'[cv]) = {} /\ IsInjective(wait'[cv])
      /\ list[t] = <<>> /\ ToSet(list[t]) = {}
  BY <1>1, <1>2, <1>4, EmptyQueue DEF CallOK
<1>8. \A u \in Thread : Listed(u)' <=> Listed(u)
  BY <1>1, <1>3, <1>7 DEF Listed
<1>9. TypeOK'
  BY <1>1, <1>2, <1>3, <1>4 DEF TypeOK
<1>10. (SpinOK /\ SwitchOK /\ ReadyOnce /\ StateOK /\ CallOK)'
  BY <1>1, <1>3, <1>4, <1>5, <1>6
  DEF SpinOK, SpinSection, UnlockLabel, SwitchOK, ReadyOnce, StateOK, CallOK
<1>11. EntriesLive'
  <2>1. \A u \in Thread : Listed(u)' => InWait(u)'
    BY <1>4, <1>6, <1>8 DEF EntriesLive
  <2>2. \A u \in Thread : /\ IsInjective(list'[u])
                          /\ ToSet(list'[u]) \cap ToSet(wait'[cv]) = {}
    BY <1>3, <1>4, <1>7 DEF EntriesLive
  <2>3. \A u \in Thread : \A v \in Thread \ {u} :
          ToSet(list'[u]) \cap ToSet(list'[v]) = {}
    BY <1>3, <1>4 DEF EntriesLive
  <2> QED BY <1>7, <2>1, <2>2, <2>3 DEF EntriesLive
<1>12. WaitersOK'
  BY <1>1, <1>4, <1>6, <1>7, <1>8 DEF WaitersOK
<1>13. (QueueOK /\ HandOver)'
  BY <1>1, <1>4 DEF QueueOK, LinkLabel, HandOver
<1>14. (MonitorExclusion /\ MonitorNoLostWakeup)'
  BY <1>1, <1>4, <1>5, <1>6, <1>8 DEF MonitorExclusion, MonitorNoLostWakeup
<1> QED
  BY <1>1, <1>2, <1>9, <1>10, <1>11, <1>12, <1>13, <1>14 DEF IInv, WellFormed

\* init starts a thread.
LEMMA SpawnStep ==
  ASSUME IInv, NEW t \in Worker, SpawnWorker(t)
  PROVE  IInv'
<1>1. /\ Running(init) /\ pc[init] = "outside" /\ pc[t] = "new"
      /\ state' = [state EXCEPT ![t] = "ACTIVE"] /\ ready' = Append(ready, t)
      /\ pc' = [pc EXCEPT ![t] = "outside"]
      /\ UNCHANGED <<cpu, current, context, remained_time, preempt_count,
                     int_enabled, wait, owner, queue, ret, list>>
      /\ t \in Thread /\ init \in Thread /\ t # init
  BY InitAssumption
  DEF SpawnWorker, At, ThreadStart, Goto, condVars, mutexVars, Worker
<1>2. /\ TypeOK /\ EntriesLive /\ ReadyOnce /\ WaitersOK /\ CallOK /\ QueueOK
      /\ HandOver /\ SpinOK /\ SwitchOK /\ StateOK
      /\ MonitorExclusion /\ MonitorNoLostWakeup
      /\ ToSet(queue) \subseteq Thread /\ ToSet(ready) \subseteq Thread
  BY Queues DEF IInv, WellFormed
<1>3. /\ cpu = init /\ t # idle /\ state[t] = "DEAD"
      /\ t \notin ToSet(ready) /\ t \notin ToSet(queue)
      /\ ~InWait(t) /\ ~Listed(t) /\ ~Entering(t) /\ ~Holds(t) /\ Spins(t) = 0
  BY <1>1, <1>2
  DEF StateOK, ReadyOnce, Running, QueueOK, LinkLabel, InWait, EntriesLive,
      Entering, Holds, Spins, SpinSection, UnlockLabel
<1>4. /\ ready' \in Seq(Thread) /\ IsInjective(ready')
      /\ ToSet(ready') = ToSet(ready) \cup {t}
  BY <1>1, <1>2, <1>3, AppendQueue DEF TypeOK, ReadyOnce
<1>5. /\ state' \in [Thread -> ThreadState] /\ state'[t] = "ACTIVE"
      /\ \A u \in Thread \ {t} : state'[u] = state[u]
      /\ pc' \in [Thread -> Label] /\ pc'[t] = "outside"
      /\ \A u \in Thread \ {t} : pc'[u] = pc[u]
  BY <1>1, <1>2 DEF TypeOK, ThreadState, Label
<1>6. /\ \A u \in Thread : /\ Running(u)' <=> Running(u)
                           /\ Listed(u)' <=> Listed(u)
      /\ \A u \in Thread \ {t} : /\ Spins(u)' = Spins(u)
                                 /\ Entering(u)' <=> Entering(u)
                                 /\ Holds(u)' <=> Holds(u)
                                 /\ InWait(u)' <=> InWait(u)
      /\ ~Entering(t)' /\ ~Holds(t)' /\ Spins(t)' = 0
  <2>1. \A u \in Thread : (Running(u)' <=> Running(u)) /\ (Listed(u)' <=> Listed(u))
    BY <1>1 DEF Running, Listed
  <2>2. ~Entering(t)' /\ ~Holds(t)' /\ Spins(t)' = 0
    BY <1>5 DEF Entering, Holds, Spins, SpinSection, UnlockLabel
  <2> QED BY <1>1, <1>5, <2>1, <2>2, Others
<1>7. TypeOK'
  BY <1>1, <1>2, <1>4, <1>5 DEF TypeOK
<1>8. (SpinOK /\ SwitchOK /\ ReadyOnce /\ CallOK)'
  BY <1>1, <1>2, <1>3, <1>4, <1>5, <1>6, IdleAssumption
  DEF SpinOK, SpinSection, UnlockLabel, SwitchOK, ReadyOnce, CallOK
<1>9. StateOK'
  BY <1>1, <1>2, <1>3, <1>5, <1>6 DEF StateOK
<1>10. (EntriesLive /\ WaitersOK)'
  BY <1>1, <1>2, <1>3, <1>5, <1>6 DEF EntriesLive, WaitersOK, Listed
<1>11. (QueueOK /\ HandOver)'
  BY <1>1, <1>2, <1>3, <1>5 DEF QueueOK, LinkLabel, HandOver
<1>12. (MonitorExclusion /\ MonitorNoLostWakeup)'
  BY <1>1, <1>2, <1>3, <1>5, <1>6 DEF MonitorExclusion, MonitorNoLostWakeup
<1> QED BY <1>7, <1>8, <1>9, <1>10, <1>11, <1>12 DEF IInv, WellFormed

\* Every step keeps the invariant.
LEMMA NextStep == ASSUME IInv, [Next]_vars PROVE IInv'
<1>1. CASE TimerTick
  BY <1>1, TickStep
<1>2. CASE SchedStep
  BY <1>2, IdleStep, ResumeStep DEF SchedStep
<1>3. CASE Spawn
  BY <1>3, SpawnStep DEF Spawn
<1>4. ASSUME NEW t \in Thread, CallStep(t) \/ ClientStep(t) PROVE IInv'
  <2>1. ASSUME NEW from, NEW label \in Label, At(t, from),
               CallSchedule(t, label), UNCHANGED condVars,
               MayReturn(from, label)
        PROVE  IInv'
    <3>1. /\ Running(t) /\ pc[t] = from /\ Schedule(remained_time)
          /\ pc' = [pc EXCEPT ![t] = label]
      BY <2>1 DEF At, CallSchedule, Goto
    <3>2. /\ cpu = t /\ context[cpu] = "live"
          /\ remained_time \in 0..TIMESLICE
      BY <3>1, RunningThread DEF IInv, WellFormed, TypeOK
    <3> QED BY <2>1, <3>1, <3>2, ScheduleStep
  <2>2. CASE LockSchedule(t) /\ UNCHANGED <<ret, list>>
    BY <2>1, <2>2
    DEF LockSchedule, MayReturn, Label, LockLabel, condVars, mutexVars
  <2>3. CASE WaitSchedule(t)
    BY <2>1, <2>3 DEF WaitSchedule, MayReturn, Label, WaitLabel
  <2>4. CASE MutexStep(t)
    BY <2>2, <2>4, SpinStep, TakeStep, QueueStep, BlockStep, UnlinkStep,
       PassStep, WakeStep
    DEF MutexStep, LockBody, UnlockBody
  <2>5. CASE CallStep(t)
    BY <2>3, <2>4, <2>5, SpinStep, WaitLinkStep, WaitBlockStep, NotifyWakeStep
    DEF CallStep
  <2>6. CASE ClientStep(t)
    BY <2>6, SpinStep, NotifyOneStep, NotifyAllStep DEF ClientStep
  <2> QED BY <1>4, <2>5, <2>6
<1>5. CASE UNCHANGED vars
  <2>1. UNCHANGED <<cpu, current, ready, state, context, remained_time,
                    preempt_count, int_enabled, wait, pc, owner, queue, ret,
                    list>>
    BY <1>5 DEF vars, schedVars, condVars, mutexVars
  <2>2. \A t \in Thread : /\ Spins(t)' = Spins(t) /\ Entering(t)' = Entering(t)
                          /\ Running(t)' = Running(t) /\ Holds(t)' = Holds(t)
                          /\ InWait(t)' = InWait(t) /\ Listed(t)' = Listed(t)
    BY <2>1 DEF Spins, Entering, Running, Holds, InWait, Listed
  <2>3. (TypeOK /\ EntriesLive /\ ReadyOnce /\ WaitersOK /\ CallOK)'
    BY <2>1, <2>2
    DEF IInv, WellFormed, TypeOK, EntriesLive, ReadyOnce, WaitersOK, CallOK
  <2>4. (QueueOK /\ HandOver /\ SpinOK /\ SwitchOK /\ StateOK)'
    BY <2>1, <2>2
    DEF IInv, WellFormed, QueueOK, HandOver, SpinOK, SwitchOK, StateOK
  <2>5. (MonitorExclusion /\ MonitorNoLostWakeup)'
    BY <2>1, <2>2 DEF IInv, MonitorExclusion, MonitorNoLostWakeup
  <2> QED BY <2>3, <2>4, <2>5 DEF IInv, WellFormed
<1> QED BY <1>1, <1>2, <1>3, <1>4, <1>5 DEF Next

-----------------------------------------------------------------------------
\* The invariant holds in every reachable state.
THEOREM Invariance == Spec => []IInv
BY InitIInv, NextStep, PTL DEF Spec

\* The mutex stays exclusive whoever waits and notifies, condition_wait returns
\* with it (inc/condition.h), and no list keeps the entry of a frame that is
\* gone.
THEOREM MonitorCorrect == Spec => [](WellFormed /\ MonitorExclusion)
<1>1. IInv => WellFormed /\ MonitorExclusion
  BY DEF IInv
<1> QED BY <1>1, Invariance, PTL

\* A thread sleeps only where a notifier or the owner of the mutex finds it,
\* although it is blocked before it releases the mutex (src/condition.c:90).
THEOREM WakeupCorrect == Spec => []MonitorNoLostWakeup
<1>1. IInv => MonitorNoLostWakeup
  BY DEF IInv
<1> QED BY <1>1, Invariance, PTL

-----------------------------------------------------------------------------
(* The condition and its mutex implement AbstractMonitor.  The waiters are  *)
(* those in the list of the condition, but for one that still owns the      *)
(* mutex: it is the last, and starts to wait when it releases the mutex.    *)

\* Steps that touch neither the owner nor a list are none of the monitor's.
LEMMA OtherSteps ==
  ASSUME IInv, NEW t \in Thread,
         \/ TimerTick \/ SchedStep \/ Spawn
         \/ Lock(t) \/ Unlock(t) \/ WaitEnter(t) \/ WaitBlock(t)
         \/ WaitRelease(t) \/ WaitUnlock(t) \/ WaitSchedule(t)
         \/ NotifyAllWake(t) \/ NotifyAllDone(t)
         \/ /\ \/ LockDone(t, "inside") \/ UnlockDone(t, ret[t])
               \/ LockTest(t) \/ LockBlock(t) \/ LockUnlock(t)
               \/ LockSchedule(t) \/ LockRelock(t) \/ LockRetest(t)
               \/ UnlockWake(t)
            /\ UNCHANGED <<ret, list>>
  PROVE  UNCHANGED <<owner, queue, wait>>
<1> USE DEF condVars, mutexVars
<1>0. state[current] # "FINISHED"
  BY DEF IInv, WellFormed, TypeOK, StateOK
<1>1. ASSUME NEW left, Schedule(left) PROVE UNCHANGED wait
  BY <1>0, <1>1 DEF Schedule, SwitchThreads, ThreadPlace
<1>2. CASE TimerTick \/ SchedStep \/ Spawn
  BY <1>0, <1>1, <1>2
  DEF TimerTick, Tick, SchedStep, Idle, IdleStart, IdleSchedule, CallSchedule,
      IdleHalt, schedVars, Resume, ThreadPlace, Spawn, SpawnWorker
<1>3. CASE \/ Lock(t) \/ Unlock(t) \/ WaitEnter(t) \/ WaitBlock(t)
           \/ WaitRelease(t) \/ WaitUnlock(t) \/ WaitSchedule(t)
           \/ NotifyAllWake(t) \/ NotifyAllDone(t)
  BY <1>1, <1>3
  DEF Lock, Unlock, LockEnter, UnlockEnter, Step, WaitEnter, WaitBlock,
      WaitRelease, WaitUnlock, WaitSchedule, CallSchedule, NotifyAllWake,
      NotifyAllDone
<1>4. CASE \/ LockDone(t, "inside") \/ UnlockDone(t, ret[t])
           \/ LockTest(t) \/ LockBlock(t) \/ LockUnlock(t)
           \/ LockSchedule(t) \/ LockRelock(t) \/ LockRetest(t)
           \/ UnlockWake(t)
  BY <1>1, <1>4
  DEF LockDone, UnlockDone, Step, LockTest, LockBlock, LockUnlock, LockSchedule,
      CallSchedule, LockRelock, LockRetest, UnlockWake
<1> QED BY <1>2, <1>3, <1>4

\* The steps of the mutex that change its owner or its list.
LEMMA LockSteps ==
  ASSUME IInv, NEW t \in Thread, UNCHANGED <<ret, list>>,
         \/ LockTakeFree(t) \/ LockQueue(t) \/ LockUnlink(t)
         \/ UnlockPass(t) \/ UnlockFree(t)
  PROVE  [Abstract!Next]_(Abstract!vars)
<1> USE DEF Abstract!vars, Abstract!Next, Abstract!Enter
<1>1. /\ queue \in Seq(Thread) /\ QueueOK /\ HandOver /\ WaitersOK
      /\ owner \in Thread \cup {NoThread}
  BY DEF IInv, WellFormed, TypeOK
<1>a. owner \notin ToSet(queue) => Line = queue
  BY <1>1, TailQueue DEF Line
<1>b. wait[cv] \in Seq(Thread) /\ ToSet(wait[cv]) \subseteq Thread
  BY Queues DEF IInv, WellFormed
<1>2. CASE LockTakeFree(t)
  <2>1. /\ owner = NoThread /\ owner' = t /\ queue' = queue /\ wait' = wait
        /\ pc[t] = "lock_test"
    BY <1>2 DEF LockTakeFree, Step, At
  <2>2. t \notin ToSet(queue) /\ owner \notin ToSet(queue)
    BY <1>1, <2>1, QueueElements, NoThreadAssumption
    DEF QueueOK, LinkLabel
  <2>3. Line' = queue
    BY <1>1, <2>1, <2>2, TailQueue DEF Line
  <2>4. IInv' /\ ~Listed(t)
    BY <1>2, TakeStep
  <2>5. Waiting = wait[cv] /\ Waiting' = wait[cv]
    BY <1>b, <2>1, <2>4, LastQueue, NoThreadAssumption DEF Listed, Waiting
  <2> QED BY <1>a, <2>1, <2>2, <2>3, <2>5 DEF Abstract!Lock!Take
<1>3. CASE LockQueue(t)
  <2>1. /\ queue' = Append(queue, t) /\ owner' = owner /\ pc[t] = "lock_queue"
        /\ wait' = wait
    BY <1>3 DEF LockQueue, Step, At
  <2>2. owner \notin {t, NoThread} /\ t \notin ToSet(queue)
    BY <1>1, <2>1 DEF HandOver, QueueOK, LinkLabel
  <2>3. /\ queue' # <<>>
        /\ queue # <<>> => /\ Head(queue') = Head(queue)
                           /\ Tail(queue') = Append(Tail(queue), t)
    BY <1>1, <2>1, AppendQueue, AppendTail
  <2>4. Line' = Append(Line, t)
    <3>1. CASE queue = <<>>
      BY <2>1, <2>2, <3>1 DEF Line
    <3>2. CASE queue # <<>>
      BY <2>1, <2>3, <3>2 DEF Line
    <3> QED BY <3>1, <3>2
  <2>5. \A i \in DOMAIN Line : Line[i] # t
    <3>1. ToSet(Line) \subseteq ToSet(queue)
      BY <1>1, TailQueue DEF Line
    <3> QED BY <2>2, <3>1 DEF ToSet
  <2>6. Waiting' = Waiting
    BY <2>1 DEF Waiting
  <2> QED BY <2>1, <2>2, <2>4, <2>5, <2>6 DEF Abstract!Lock!Queue
<1>4. CASE LockUnlink(t)
  <2>1. /\ owner = t /\ queue # <<>> /\ Head(queue) = t
        /\ queue' = Tail(queue) /\ owner' = owner /\ wait' = wait
    BY <1>4, UnlinkStep DEF LockUnlink, Step
  <2>2. Line = Tail(queue) /\ Waiting' = Waiting
    BY <2>1 DEF Line, Waiting
  <2>3. /\ Tail(queue) \in Seq(Thread) /\ t \notin ToSet(Tail(queue))
    BY <1>1, <2>1, TailQueue DEF QueueOK
  <2>4. queue' # <<>> => Head(queue') # t
    BY <2>1, <2>3, TailQueue
  <2>5. Line' = Tail(queue)
    BY <2>1, <2>4 DEF Line
  <2> QED BY <2>1, <2>2, <2>5
<1>5. CASE UnlockPass(t) \/ UnlockFree(t)
  <2>1. /\ owner = t /\ t \notin ToSet(queue) /\ queue' = queue /\ wait' = wait
        /\ Listed(t) <=> Entering(t)
        /\ Listed(t) => wait[cv] # <<>> /\ Last(wait[cv]) = t
        /\ owner' \in Thread => ~Listed(owner')
    BY <1>5, PassStep
  <2>2. owner # NoThread /\ Line = queue
    BY <1>a, <2>1, NoThreadAssumption
  <2>3. owner' \in Thread \cup {NoThread} /\ Abstract!Lock!Release
    <3>1. CASE UnlockPass(t)
      <4>1. queue # <<>> /\ owner' = Head(queue) /\ Head(queue) \in Thread
        BY <1>1, <3>1, TailQueue DEF UnlockPass
      <4>2. Line' = Tail(queue)
        BY <2>1, <4>1 DEF Line
      <4> QED BY <2>2, <4>1, <4>2 DEF Abstract!Lock!Release
    <3>2. CASE UnlockFree(t)
      <4>1. queue = <<>> /\ owner' = NoThread
        BY <3>2 DEF UnlockFree
      <4>2. Line' = queue
        BY <2>1, <4>1 DEF Line
      <4> QED BY <2>2, <4>1, <4>2 DEF Abstract!Lock!Release
    <3> QED BY <1>5, <3>1, <3>2
  <2>4. Waiting' = wait[cv]
    <3>1. wait[cv] # <<>> => Last(wait[cv]) # owner'
      BY <1>b, <2>1, <2>3, LastQueue, NoThreadAssumption DEF Listed
    <3> QED BY <2>1, <3>1 DEF Waiting
  <2>5. CASE Entering(t)
    \* condition_wait releases the mutex: t starts to wait.
    <3>1. wait[cv] = Append(Front(wait[cv]), t) /\ Waiting = Front(wait[cv])
      BY <1>b, <2>1, <2>5, LastQueue DEF Waiting
    <3> QED BY <2>2, <2>3, <2>4, <2>1, <3>1 DEF Abstract!Wait
  <2>6. CASE ~Entering(t)
    <3>1. Waiting = wait[cv]
      BY <1>b, <2>1, <2>6, LastQueue DEF Waiting, Listed
    <3> QED BY <2>2, <2>3, <2>4, <3>1 DEF Abstract!Leave
  <2> QED BY <2>5, <2>6
<1> QED BY <1>2, <1>3, <1>4, <1>5

\* The steps that change the list of the condition.
LEMMA ListSteps ==
  ASSUME IInv, NEW t \in Thread,
         WaitLink(t) \/ NotifyOneCall(t) \/ NotifyAllCall(t)
  PROVE  [Abstract!Next]_(Abstract!vars)
<1> USE DEF Abstract!vars, Abstract!Next
<1>1. wait[cv] \in Seq(Thread) /\ ToSet(wait[cv]) \subseteq Thread
  BY Queues DEF IInv, WellFormed
<1>2. ASSUME UNCHANGED <<owner, queue>> PROVE UNCHANGED <<owner, Line>>
  BY <1>2 DEF Line
<1>3. CASE WaitLink(t)
  \* Not yet: t still owns the mutex.
  <2>1. /\ owner = t /\ ~Listed(t) /\ UNCHANGED <<owner, queue>>
        /\ wait'[cv] = Append(wait[cv], t)
    BY <1>3, WaitLinkStep, CvAssumption
    DEF WaitLink, condVars, mutexVars, IInv, WellFormed, TypeOK
  <2>2. Waiting = wait[cv]
    BY <1>1, <2>1, LastQueue DEF Waiting, Listed
  <2>3. /\ wait'[cv] # <<>> /\ Last(wait'[cv]) = t
        /\ Front(wait'[cv]) = wait[cv]
    BY <1>1, <2>1, LastQueue, AppendQueue
  <2>4. Waiting' = wait[cv]
    BY <2>1, <2>3 DEF Waiting
  <2> QED BY <1>2, <2>1, <2>2, <2>4
<1>4. CASE NotifyOneCall(t)
  <2>1. /\ UNCHANGED <<owner, queue>> /\ IInv'
        /\ \/ UNCHANGED wait
           \/ wait[cv] # <<>> /\ wait'[cv] = Tail(wait[cv])
        /\ \A u \in Thread : ~Entering(u)
    BY <1>4, NotifyOneStep
  <2>2. \A u \in ToSet(wait[cv]) : u # owner
    BY <1>1, <2>1
    DEF IInv, WellFormed, WaitersOK, EntriesLive, Listed, InWait, Entering,
        UnlockLabel
  <2>3. Waiting = wait[cv]
    BY <1>1, <2>2, LastQueue DEF Waiting
  <2>4. CASE UNCHANGED wait
    BY <1>2, <2>1, <2>4 DEF Waiting
  <2>5. CASE wait[cv] # <<>> /\ wait'[cv] = Tail(wait[cv])
    <3>1. /\ wait'[cv] \in Seq(Thread)
          /\ ToSet(wait'[cv]) \subseteq ToSet(wait[cv])
      BY <1>1, <2>5, TailQueue
    <3>2. Waiting' = wait'[cv]
      BY <2>1, <2>2, <3>1, LastQueue DEF Waiting
    <3> QED BY <1>2, <2>1, <2>3, <2>5, <3>2 DEF Abstract!NotifyOne
  <2> QED BY <2>1, <2>4, <2>5
<1>5. CASE NotifyAllCall(t)
  <2>1. UNCHANGED <<owner, queue>> /\ Waiting' = <<>>
    BY <1>5, NotifyAllStep DEF Waiting
  <2> QED BY <1>2, <2>1 DEF Abstract!NotifyAll
<1> QED BY <1>3, <1>4, <1>5

\* condition.c and mutex.c implement the monitor: no notification is lost
\* between the release of the mutex and the start of the wait.
THEOREM Refinement == Spec => ImplementsMonitor
<1>1. Init => Abstract!Init
  BY CvAssumption
  DEF Init, SchedInit, MutexSetup, Abstract!Init, Abstract!Lock!Init, Line,
      Waiting
<1>2. ASSUME IInv, [Next]_vars PROVE [Abstract!Next]_(Abstract!vars)
  <2>1. ASSUME UNCHANGED <<owner, queue, wait>>
        PROVE  UNCHANGED Abstract!vars
    BY <2>1 DEF Abstract!vars, Line, Waiting
  <2>2. CASE UNCHANGED vars
    BY <2>1, <2>2 DEF vars, schedVars, condVars, mutexVars
  <2>3. CASE TimerTick \/ SchedStep \/ Spawn
    BY <1>2, <2>1, <2>3, OtherSteps, IdleAssumption
  <2>4. ASSUME NEW t \in Thread, CallStep(t) \/ ClientStep(t)
        PROVE  [Abstract!Next]_(Abstract!vars)
    BY <1>2, <2>1, <2>4, OtherSteps, LockSteps, ListSteps
    DEF CallStep, ClientStep, MutexStep, LockBody, UnlockBody
  <2> QED BY <1>2, <2>2, <2>3, <2>4 DEF Next
<1> QED
  BY <1>1, <1>2, Invariance, PTL DEF Spec, ImplementsMonitor, Abstract!Spec
=============================================================================
