--------------------------- MODULE ProducerConsumer ---------------------------
(***************************************************************************)
(* week4/sync/producer-consumer/example.cpp: a producer and a consumer     *)
(* share a slot under a lock and one condition.  The lock and the          *)
(* condition are std::mutex and std::condition_variable: the threads are   *)
(* truly concurrent, and a wait may end spuriously.                        *)
(***************************************************************************)
EXTENDS Naturals, Sequences

CONSTANTS
  Item,     \* what rand() may return
  Items     \* how many items producer() makes (5 in the source)

Assumption == Items \in Nat

Process == {"producer", "consumer"}
Nobody == "nobody"

VARIABLES
  mtx,          \* who holds mtx, or Nobody
  waiting,      \* who is blocked in wait(&cv, &mtx)
  value, valid_value, done,
  pc,
  x,            \* the x of producer() and that of consumer()
  ret,          \* the local of consume()
  produced,     \* the items producer() has made, in order
  consumed      \* the items consumer() has printed, in order

shared == <<value, valid_value, done>>
vars == <<mtx, waiting, shared, pc, x, ret, produced, consumed>>

Init == /\ mtx = Nobody /\ waiting = {}
        /\ value = 0 /\ valid_value = FALSE /\ done = FALSE
        /\ pc = [p \in Process |-> "loop"]
        /\ x = [p \in Process |-> 0]
        /\ ret = FALSE
        /\ produced = <<>> /\ consumed = <<>>

Move(p, from, to) == pc[p] = from /\ pc' = [pc EXCEPT ![p] = to]

-----------------------------------------------------------------------------
(* std::mutex and std::condition_variable.                                 *)

Lock(p, from, to) == /\ Move(p, from, to)
                     /\ mtx = Nobody /\ mtx' = p
                     /\ UNCHANGED <<waiting, shared, x, ret, produced,
                                    consumed>>

Unlock(p, from, to) == /\ Move(p, from, to)
                       /\ mtx' = Nobody
                       /\ UNCHANGED <<waiting, shared, x, ret, produced,
                                      consumed>>

\* wait: the lock is released and p starts to wait in one step.
Wait(p, from, to) == /\ Move(p, from, to)
                     /\ mtx' = Nobody
                     /\ waiting' = waiting \cup {p}
                     /\ UNCHANGED <<shared, x, ret, produced, consumed>>

\* wait returns once p is notified and has the lock again.
WaitEnd(p, from, to) == p \notin waiting /\ Lock(p, from, to)

Spurious(p) == /\ p \in waiting
               /\ waiting' = waiting \ {p}
               /\ UNCHANGED <<mtx, shared, pc, x, ret, produced, consumed>>

NotifyOne == \/ waiting = {} /\ UNCHANGED waiting
             \/ \E q \in waiting : waiting' = waiting \ {q}

NotifyAll == waiting' = {}

-----------------------------------------------------------------------------
(* producer, produce, finish                                               *)

MakeItem == /\ Len(produced) < Items
            /\ Move("producer", "loop", "lock")
            /\ \E i \in Item : /\ x' = [x EXCEPT !["producer"] = i]
                               /\ produced' = Append(produced, i)
            /\ UNCHANGED <<mtx, waiting, shared, ret, consumed>>

Put == /\ ~valid_value
       /\ Move("producer", "test", "unlock")
       /\ value' = x["producer"]
       /\ valid_value' = TRUE
       /\ NotifyOne
       /\ UNCHANGED <<mtx, done, x, ret, produced, consumed>>

LastItem == /\ Len(produced) = Items
            /\ Move("producer", "loop", "finish")
            /\ UNCHANGED <<mtx, waiting, shared, x, ret, produced, consumed>>

\* Mutant: finish sets done and notifies nobody.
FinishSilent == /\ Move("producer", "set_done", "finish_unlock")
                /\ done' = TRUE
                /\ UNCHANGED <<mtx, waiting, value, valid_value, x, ret,
                               produced, consumed>>

Finish == /\ Move("producer", "set_done", "finish_unlock")
          /\ done' = TRUE
          /\ NotifyAll
          /\ UNCHANGED <<mtx, value, valid_value, x, ret, produced, consumed>>

Producer == \/ MakeItem
            \/ Lock("producer", "lock", "test")
            \/ valid_value /\ Wait("producer", "test", "wait")
            \/ WaitEnd("producer", "wait", "test")
            \/ Put
            \/ Unlock("producer", "unlock", "loop")
            \/ LastItem
            \/ Lock("producer", "finish", "set_done")
            \/ Finish
            \/ Unlock("producer", "finish_unlock", "end")

-----------------------------------------------------------------------------
(* consumer, consume                                                       *)

Get == /\ valid_value
       /\ Move("consumer", "test", "unlock")
       /\ x' = [x EXCEPT !["consumer"] = value]
       /\ valid_value' = FALSE
       /\ NotifyOne
       /\ ret' = TRUE
       /\ UNCHANGED <<mtx, value, done, produced, consumed>>

\* Mutant: done is looked at before valid_value.
GetNothingEager == /\ done
                   /\ Move("consumer", "test", "unlock")
                   /\ ret' = FALSE
                   /\ UNCHANGED <<mtx, waiting, shared, x, produced, consumed>>

GetNothing == /\ done /\ ~valid_value
              /\ Move("consumer", "test", "unlock")
              /\ ret' = FALSE
              /\ UNCHANGED <<mtx, waiting, shared, x, produced, consumed>>

PrintItem == /\ ret
             /\ Move("consumer", "return", "loop")
             /\ consumed' = Append(consumed, x["consumer"])
             /\ UNCHANGED <<mtx, waiting, shared, x, ret, produced>>

Stop == /\ ~ret
        /\ Move("consumer", "return", "end")
        /\ UNCHANGED <<mtx, waiting, shared, x, ret, produced, consumed>>

Consumer == \/ Lock("consumer", "loop", "test")
            \/ ~valid_value /\ ~done /\ Wait("consumer", "test", "wait")
            \/ WaitEnd("consumer", "wait", "test")
            \/ Get
            \/ GetNothing
            \/ Unlock("consumer", "unlock", "return")
            \/ PrintItem
            \/ Stop

-----------------------------------------------------------------------------
\* main returns from both joins.
Joined == (\A p \in Process : pc[p] = "end") /\ UNCHANGED vars

Next == Producer \/ Consumer \/ Joined \/ \E p \in Process : Spurious(p)

Spec == Init /\ [][Next]_vars

\* Both threads go on executing, and std::mutex lets a thread that asks again
\* and again have its turn.  Spurious wake-ups are never relied on.
FairSpec == Spec /\ SF_vars(Producer) /\ SF_vars(Consumer)

-----------------------------------------------------------------------------
\* The item consume() is handing over, the one in the slot, and the one
\* produce() has still to put there.
InHand == IF ret /\ pc["consumer"] \in {"unlock", "return"}
          THEN <<x["consumer"]>> ELSE <<>>
InSlot == IF valid_value THEN <<value>> ELSE <<>>
ToPut == IF pc["producer"] \in {"lock", "test", "wait"}
         THEN <<x["producer"]>> ELSE <<>>

TypeOK ==
  /\ mtx \in Process \cup {Nobody}
  /\ waiting \subseteq Process
  /\ value \in Item \cup {0}
  /\ valid_value \in BOOLEAN /\ done \in BOOLEAN /\ ret \in BOOLEAN
  /\ pc \in [Process -> {"loop", "lock", "test", "wait", "unlock", "return",
                         "finish", "set_done", "finish_unlock", "end"}]
  /\ x \in [Process -> Item \cup {0}]
  /\ produced \in Seq(Item) /\ Len(produced) <= Items
  /\ consumed \in Seq(Item)
  /\ {InHand, InSlot, ToPut} \subseteq Seq(Item)

\* No item is lost, duplicated or overtaken: what was produced is what was
\* printed, and then what is on its way.
Conservation == produced = consumed \o InHand \o InSlot \o ToPut

\* One condition serves both directions: whoever waits on it still has to, so
\* no notification went to the wrong thread or came too early.
WaitsForSomething ==
  /\ "producer" \in waiting => valid_value
  /\ "consumer" \in waiting => ~valid_value /\ ~done

\* Values of the right kind, and waits that have a reason.
WellFormed == TypeOK /\ WaitsForSomething

\* The consumer stops only when everything was produced and printed, although
\* done is set while the last item may still be in the slot.
StopsAfterLast ==
  pc["consumer"] = "end" => done /\ Len(consumed) = Items

ExampleConserves == WellFormed /\ Conservation /\ StopsAfterLast

\* Where each thread may be; where it has the lock; and only in wait is it a
\* waiter of the condition.
PlaceOK ==
  /\ pc["producer"] \in {"loop", "lock", "test", "wait", "unlock", "finish",
                         "set_done", "finish_unlock", "end"}
  /\ pc["consumer"] \in {"loop", "test", "wait", "unlock", "return", "end"}
  /\ \A p \in Process :
       /\ mtx = p <=> pc[p] \in {"test", "unlock", "set_done", "finish_unlock"}
       /\ p \in waiting => pc[p] = "wait"

\* done is set when everything was produced, and consume() returns false only
\* when it is set and the slot is empty.
DoneOK ==
  /\ done <=> pc["producer"] \in {"finish_unlock", "end"}
  /\ pc["producer"] \in {"finish", "set_done", "finish_unlock", "end"} =>
       Len(produced) = Items
  /\ \/ pc["consumer"] = "end"
     \/ pc["consumer"] \in {"unlock", "return"} /\ ~ret
     => done /\ ~valid_value /\ ~ret

\* Inductive; StopsAfterLast follows.
IInv == WellFormed /\ Conservation /\ PlaceOK /\ DoneOK

\* Both threads end, so main returns.
Termination == <>(\A p \in Process : pc[p] = "end")
=============================================================================
