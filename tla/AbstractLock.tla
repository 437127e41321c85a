---------------------------- MODULE AbstractLock ----------------------------
(***************************************************************************)
(* What struct mutex promises (inc/mutex.h): mutual exclusion, and a       *)
(* thread that finds the mutex taken waits its turn.  The lock passes      *)
(* from its owner to the thread that has waited longest.                   *)
(***************************************************************************)
EXTENDS Sequences

CONSTANTS Thread, NoThread

VARIABLES owner,  \* the thread that holds the lock, or NoThread
          line    \* the threads that wait for it, in order of arrival

vars == <<owner, line>>

Init == owner = NoThread /\ line = <<>>

Take(t) == /\ owner = NoThread
           /\ owner' = t
           /\ UNCHANGED line

Queue(t) == /\ owner \notin {NoThread, t}
            /\ \A i \in DOMAIN line : line[i] # t
            /\ line' = Append(line, t)
            /\ UNCHANGED owner

Release == \/ /\ line = <<>>
              /\ owner' = NoThread
              /\ UNCHANGED line
           \/ /\ line # <<>>
              /\ owner' = Head(line)
              /\ line' = Tail(line)

Next == \/ \E t \in Thread : Take(t) \/ Queue(t)
        \/ owner # NoThread /\ Release

Spec == Init /\ [][Next]_vars

\* A holder always gives the lock back.
FairSpec == Spec /\ WF_vars(owner # NoThread /\ Release)
=============================================================================
