--------------------------- MODULE AbstractMonitor ---------------------------
(***************************************************************************)
(* What a mutex and a condition promise together (inc/condition.h): a      *)
(* FIFO lock, and waits that give the lock up and start waiting in one     *)
(* step, so that a notification made after the lock was given up finds     *)
(* the waiter.  Waiters are notified in the order they came.               *)
(***************************************************************************)
EXTENDS Sequences

CONSTANTS Thread, NoThread

VARIABLES owner, line,
          waiting   \* the threads in wait, not yet notified

Lock == INSTANCE AbstractLock

vars == <<owner, line, waiting>>

Init == Lock!Init /\ waiting = <<>>

Enter == /\ \E t \in Thread : Lock!Take(t) \/ Lock!Queue(t)
         /\ UNCHANGED waiting

Leave == /\ owner # NoThread
         /\ Lock!Release
         /\ UNCHANGED waiting

Wait == /\ owner # NoThread
        /\ Lock!Release
        /\ waiting' = Append(waiting, owner)

NotifyOne == /\ waiting # <<>>
             /\ waiting' = Tail(waiting)
             /\ UNCHANGED <<owner, line>>

NotifyAll == /\ waiting' = <<>>
             /\ UNCHANGED <<owner, line>>

Next == Enter \/ Leave \/ Wait \/ NotifyOne \/ NotifyAll

Spec == Init /\ [][Next]_vars
=============================================================================
