------------------------------- MODULE MCWaiting -------------------------------
(***************************************************************************)
(* What must eventually happen to threads, with main, init and one more: to *)
(* those that wait on the kernel's condition (Condition), to those that are *)
(* ready or join another (Threads), and, with a condition of the C++       *)
(* library, to the two of the ProducerConsumer example.  Side by side as   *)
(* in MCFiles; Condition and Threads have the scheduler's variables in     *)
(* common.                                                                 *)
(***************************************************************************)
EXTENDS Condition

VARIABLES
  on,                                                    \* the component that moves
  life, parent, target, returned, rax, retval,           \* Threads
  mtx, waiting, value, valid_value, done, at, x, result, produced, consumed

threadVars == <<life, parent, target, returned, rax, retval>>
exampleVars == <<mtx, waiting, value, valid_value, done, at, x, result, produced, consumed>>
allVars == <<on, vars, threadVars, exampleVars>>

\* The five items of the source.
Example == INSTANCE ProducerConsumer WITH
  Item <- {1, 2}, Items <- 5, pc <- at, ret <- result

ASSUME InstanceAssumption == Example!Assumption

Threads == INSTANCE Threads WITH TIMESLICE <- 2, ExitValue <- {0}, result <- returned

AllInit ==
  /\ on \in {"condition", "threads", "example"}
  /\ IF on = "threads"
     THEN /\ Threads!Init
          /\ MutexSetup /\ ret = <<>> /\ list = <<>>
     ELSE /\ Init
          /\ life = <<>> /\ parent = <<>> /\ target = <<>>
          /\ returned = <<>> /\ rax = <<>> /\ retval = <<>>
  /\ Example!Init

AllNext ==
  /\ UNCHANGED on
  /\ \/ on = "condition" /\ Next /\ UNCHANGED <<threadVars, exampleVars>>
     \/ on = "threads" /\ Threads!Next /\ UNCHANGED <<condVars, exampleVars>>
     \/ on = "example" /\ Example!Next /\ UNCHANGED <<vars, threadVars>>

InCondition(A) == on = "condition" /\ A /\ UNCHANGED <<on, threadVars, exampleVars>>
InThreads(A) == on = "threads" /\ A /\ UNCHANGED <<on, condVars, exampleVars>>
InExample(A) == on = "example" /\ A /\ UNCHANGED <<on, vars, threadVars>>

\* The fairness of Condition, of Threads and of ProducerConsumer.
AllFairSpec ==
  /\ AllInit /\ [][AllNext]_allVars
  /\ WF_allVars(InCondition(SchedStep) \/ InThreads(Threads!SchedStep))
  /\ \A t \in Thread : /\ SF_allVars(InCondition(CallStep(t)) \/ InThreads(Threads!KernelStep(t)))
                       /\ SF_allVars(InCondition(Unlock(t)))
                       /\ SF_allVars(InCondition(pc[t] = "wait_lock" /\ Lock(t)))
  /\ SF_allVars(\/ InCondition(preempt_count = 0 /\ TimerTick)
                \/ InThreads(preempt_count = 0 /\ Threads!TimerTick))
  /\ SF_allVars(InExample(Example!Producer))
  /\ SF_allVars(InExample(Example!Consumer))

\* A queued thread gets the CPU, and thread_join of a finished thread returns
\* (threads.c).
ReadyRuns == on = "threads" => Threads!ReadyRuns
JoinReturns == on = "threads" => Threads!JoinReturns

\* Producer and consumer end.
ExampleTerminates == on = "example" => Example!Termination
=============================================================================
