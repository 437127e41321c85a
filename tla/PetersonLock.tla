----------------------------- MODULE PetersonLock -----------------------------
(***************************************************************************)
(* Peterson's lock for N threads of the lecture, week4/sync/rwreg.tex: N-1 *)
(* locks one after the other, each of which holds back one thread.  Every  *)
(* access to an atomic register is a step; flags_clear looks at one flag   *)
(* at a time, while the flags behind it and ahead of it change.            *)
(***************************************************************************)
EXTENDS Integers, FiniteSets

CONSTANT N

\* What an instance has to give the constant: with one thread there is no lock.
Assumption == N \in Nat \ {0, 1}

Id == 0..N - 1   \* what threadId() gives
Level == 0..N - 2

VARIABLES
  flag, last,   \* of each lock_one
  pc, level,    \* the variable i of lock and unlock
  other         \* the variable i of flags_clear

vars == <<flag, last, pc, level, other>>

Init == /\ flag = [l \in Level |-> [t \in Id |-> FALSE]]
        /\ last = [l \in Level |-> 0]
        /\ pc = [t \in Id |-> "out"]
        /\ level = [t \in Id |-> 0]
        /\ other = [t \in Id |-> 0]

Goto(me, from, to) == pc[me] = from /\ pc' = [pc EXCEPT ![me] = to]

Lock(me) == /\ Goto(me, "out", "flag")
            /\ level' = [level EXCEPT ![me] = 0]
            /\ UNCHANGED <<flag, last, other>>

SetFlag(me) == /\ Goto(me, "flag", "last")
               /\ flag' = [flag EXCEPT ![level[me]][me] = TRUE]
               /\ UNCHANGED <<last, level, other>>

SetLast(me) == /\ Goto(me, "last", "scan")
               /\ last' = [last EXCEPT ![level[me]] = me]
               /\ other' = [other EXCEPT ![me] = 0]
               /\ UNCHANGED <<flag, level>>

\* lock_one returned.
Passed(me) == /\ level' = [level EXCEPT ![me] = IF level[me] + 1 \in Level
                                                THEN level[me] + 1 ELSE @]
              /\ pc' = [pc EXCEPT ![me] = IF level[me] + 1 \in Level
                                          THEN "flag" ELSE "inside"]
              /\ UNCHANGED <<flag, last>>

\* Mutant: the loop ends at the thread's own flag.
InTheWayBelow(me) == other[me] < me /\ flag[level[me]][other[me]]

InTheWay(me) == other[me] # me /\ flag[level[me]][other[me]]

\* A turn of the loop of flags_clear.
Scan(me) == /\ pc[me] = "scan" /\ other[me] \in Id /\ ~InTheWay(me)
            /\ other' = [other EXCEPT ![me] = @ + 1]
            /\ UNCHANGED <<flag, last, pc, level>>

ScanFinds(me) == /\ Goto(me, "scan", "test") /\ other[me] \in Id /\ InTheWay(me)
                 /\ UNCHANGED <<flag, last, level, other>>

ScanClear(me) == /\ pc[me] = "scan" /\ other[me] = N
                 /\ Passed(me)
                 /\ UNCHANGED other

\* The second half of the condition of the loop in lock_one.
TestAgain(me) == /\ Goto(me, "test", "scan") /\ last[level[me]] = me
                 /\ other' = [other EXCEPT ![me] = 0]
                 /\ UNCHANGED <<flag, last, level>>

TestPasses(me) == /\ pc[me] = "test" /\ last[level[me]] # me
                  /\ Passed(me)
                  /\ UNCHANGED other

\* Mutant: only the inmost lock is released.
UnlockInmost(me) == /\ Goto(me, "inside", "out")
                    /\ flag' = [flag EXCEPT ![level[me]][me] = FALSE]
                    /\ UNCHANGED <<last, level, other>>

\* unlock, from the inmost lock to the outmost.
Unlock(me) == /\ pc[me] \in {"inside", "unlock"}
              /\ flag' = [flag EXCEPT ![level[me]][me] = FALSE]
              /\ pc' = [pc EXCEPT ![me] = IF level[me] = 0 THEN "out" ELSE "unlock"]
              /\ level' = [level EXCEPT ![me] = IF @ = 0 THEN 0 ELSE @ - 1]
              /\ UNCHANGED <<last, other>>

Step(me) == \/ SetFlag(me) \/ SetLast(me) \/ Scan(me) \/ ScanFinds(me) \/ ScanClear(me)
            \/ TestAgain(me) \/ TestPasses(me) \/ Unlock(me)

Next == \E me \in Id : Lock(me) \/ Step(me)

Spec == Init /\ [][Next]_vars

\* A thread may stay outside for ever, but nowhere else.
FairSpec == Spec /\ \A me \in Id : WF_vars(Step(me))

-----------------------------------------------------------------------------
\* One thread at most is inside, however the scans of the flags are interleaved
\* with their changes.
PetersonExclusion ==
  \A t, u \in Id : pc[t] = "inside" /\ pc[u] = "inside" => t = u

\* A thread that wants the lock gets it.
Served == \A t \in Id : pc[t] = "flag" ~> pc[t] = "inside"

-----------------------------------------------------------------------------
(* Why the lock is exclusive.                                              *)

TypeOK ==
  /\ flag \in [Level -> [Id -> BOOLEAN]]
  /\ last \in [Level -> Id]
  /\ pc \in [Id -> {"out", "flag", "last", "scan", "test", "inside", "unlock"}]
  /\ level \in [Id -> Level]
  /\ other \in [Id -> 0..N]

\* The threads that have set their flag and then last in lock l, and those of
\* them that lock l let through.  Neither has released l yet.
Engaged(l) == {t \in Id : \/ level[t] > l
                          \/ level[t] = l /\ pc[t] \in {"scan", "test", "inside",
                                                        "unlock"}}
Through(l) == {t \in Id : \/ level[t] > l
                          \/ level[t] = l /\ pc[t] \in {"inside", "unlock"}}

\* Outside a thread has no flag set; inside it has all of them.
PlaceOK == \A t \in Id : /\ pc[t] = "out" => level[t] = 0
                         /\ pc[t] = "inside" => level[t] = N - 2

FlagOK == \A l \in Level, t \in Id :
            flag[l][t] <=> \/ t \in Engaged(l)
                           \/ pc[t] = "last" /\ level[t] = l

\* A thread that came last to lock l has nobody with it among those whose flags
\* it has found clear: whoever came since has overwritten last.
ScanOK ==
  \A l \in Level : \A u \in Id \ {last[l]} :
    (\/ last[l] \in Through(l)
     \/ level[last[l]] = l /\ pc[last[l]] = "scan" /\ u < other[last[l]])
      => u \notin Engaged(l)

\* The last to come is still there, unless all have gone.
LastOK == \A l \in Level : Engaged(l) # {} => last[l] \in Engaged(l)

\* Each lock holds one thread back.
Thinned == \A l \in Level : Cardinality(Engaged(l)) <= N - l

\* Inductive, and PetersonExclusion follows from it.
IInv == TypeOK /\ PlaceOK /\ FlagOK /\ ScanOK /\ LastOK /\ Thinned
=============================================================================
