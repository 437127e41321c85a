------------------------------- MODULE MCKernel -------------------------------
(***************************************************************************)
(* The safety of the scheduler and the life cycle of threads (Threads),    *)
(* and of a condition with its mutex (Condition).  Both have the scheduler *)
(* in them, each with its own variables, and are checked side by side as   *)
(* in MCFiles: a behaviour is one of either, with the other at rest.       *)
(***************************************************************************)
EXTENDS MCThreads

CONSTANTS NoThread, cv

VARIABLES
  on,                                                    \* "threads" or "condition"
  c_cpu, c_current, c_ready, c_state, c_context, c_remained_time,   \* Condition
  c_preempt_count, c_int_enabled, c_wait, at, owner, queue, ret, list

conditionVars == <<c_cpu, c_current, c_ready, c_state, c_context, c_remained_time,
                   c_preempt_count, c_int_enabled, c_wait, at, owner, queue, ret, list>>

\* The condition comes with its theorems.
Monitor == INSTANCE ConditionProofs WITH
  Cond <- Cond \cup {cv}, pc <- at, cpu <- c_cpu, current <- c_current,
  ready <- c_ready, state <- c_state, context <- c_context,
  remained_time <- c_remained_time, preempt_count <- c_preempt_count,
  int_enabled <- c_int_enabled, wait <- c_wait

ASSUME InstanceAssumption == cv \notin Thread /\ NoThread \notin Thread

AllInit == on \in {"threads", "condition"} /\ Init /\ Monitor!Init

AllNext == /\ UNCHANGED on
           /\ \/ on = "threads" /\ Next /\ UNCHANGED conditionVars
              \/ on = "condition" /\ Monitor!Next /\ UNCHANGED vars

AllSpec == AllInit /\ [][AllNext]_<<on, vars, conditionVars>>

\* condition_wait and the clients keep the mutex exclusive, entries are in one
\* list each and do not outlive their frames, and nobody is woken twice.
MonitorExclusion == on = "condition" => Monitor!WellFormed /\ Monitor!MonitorExclusion

\* A thread sleeps only where somebody will find it.
MonitorNoLostWakeup == on = "condition" => Monitor!MonitorNoLostWakeup

\* condition.c with mutex.c is a monitor with an atomic release-and-wait.
ImplementsMonitor == Monitor!ImplementsMonitor
=============================================================================
