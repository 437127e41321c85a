-------------------------------- MODULE RWLock --------------------------------
(***************************************************************************)
(* The fair lock for readers and writers of the lecture,                   *)
(* week4/sync/rwlock.tex.  Each access to an atomic register is a step.  A *)
(* register is modelled by the number it would hold if unsigned integers   *)
(* did not wrap around, and is compared as the code compares it, by what   *)
(* is left of that number in an unsigned integer.                          *)
(***************************************************************************)
EXTENDS Integers, FiniteSets

CONSTANTS
  Thread,
  UINT,      \* how many values an unsigned integer has, 2^32 in the code
  TICKETS    \* bound: how many tickets are drawn

\* A program with as many threads as there are tickets would confuse the tickets.
Assumption == /\ UINT \in Nat \ {0} /\ TICKETS \in Nat
              /\ IsFiniteSet(Thread) /\ Cardinality(Thread) <= UINT

ASSUME LockAssumption == Assumption

VARIABLES
  ticket, write, read,   \* the registers of the lock
  pc,
  mine                   \* the variable ticket of read_lock and write_lock

vars == <<ticket, write, read, pc, mine>>

Init == /\ ticket = 0 /\ write = 0 /\ read = 0
        /\ pc = [t \in Thread |-> "out"]
        /\ mine = [t \in Thread |-> 0]

Goto(t, from, to) == pc[t] = from /\ pc' = [pc EXCEPT ![t] = to]

\* atomic_fetch_add(&lock->ticket, 1)
DrawTicket(t, from, to) == /\ Goto(t, from, to)
                           /\ ticket < TICKETS
                           /\ mine' = [mine EXCEPT ![t] = ticket]
                           /\ ticket' = ticket + 1
                           /\ UNCHANGED <<write, read>>

\* The loops end when a register has the thread's own ticket.
IsMine(t, register) == register % UINT = mine[t] % UINT

-----------------------------------------------------------------------------
ReadDraw(t) == DrawTicket(t, "out", "read_wait")

ReadWait(t) == /\ Goto(t, "read_wait", "read_store") /\ IsMine(t, read)
               /\ UNCHANGED <<ticket, write, read, mine>>

ReadStore(t) == /\ Goto(t, "read_store", "reading")
                /\ read' = mine[t] + 1
                /\ UNCHANGED <<ticket, write, mine>>

ReadUnlock(t) == /\ Goto(t, "reading", "out")
                 /\ write' = write + 1
                 /\ UNCHANGED <<ticket, read, mine>>

WriteDraw(t) == DrawTicket(t, "out", "write_wait")

\* Mutant: the writer waits as a reader does.
WriteWaitRead(t) == /\ Goto(t, "write_wait", "writing") /\ IsMine(t, read)
                    /\ UNCHANGED <<ticket, write, read, mine>>

WriteWait(t) == /\ Goto(t, "write_wait", "writing") /\ IsMine(t, write)
                /\ UNCHANGED <<ticket, write, read, mine>>

\* write_unlock lets readers in before it lets a writer in.
WriteUnlock(t) == /\ Goto(t, "writing", "write_unlock")
                  /\ read' = read + 1
                  /\ UNCHANGED <<ticket, write, mine>>

WriteDone(t) == /\ Goto(t, "write_unlock", "out")
                /\ write' = write + 1
                /\ UNCHANGED <<ticket, read, mine>>

Draw(t) == ReadDraw(t) \/ WriteDraw(t)

Step(t) == \/ ReadWait(t) \/ ReadStore(t) \/ ReadUnlock(t)
           \/ WriteWait(t) \/ WriteUnlock(t) \/ WriteDone(t)

\* All tickets of the bound are drawn and given back.
Ended == ticket = TICKETS /\ (\A t \in Thread : pc[t] = "out") /\ UNCHANGED vars

Next == Ended \/ \E t \in Thread : Draw(t) \/ Step(t)

Spec == Init /\ [][Next]_vars

\* Every thread goes on: it spins, and leaves the lock it got.
FairSpec == Spec /\ \A t \in Thread : WF_vars(Step(t))

-----------------------------------------------------------------------------
Label == {"out", "read_wait", "read_store", "reading",
          "write_wait", "writing", "write_unlock"}

TypeOK == /\ ticket \in Nat /\ write \in Nat /\ read \in Nat
          /\ pc \in [Thread -> Label]
          /\ mine \in [Thread -> Nat]

\* A writer is alone; readers are among themselves.
Exclusion ==
  \A t, u \in Thread : pc[t] = "writing" /\ u # t => pc[u] \notin {"reading", "writing"}

\* Whoever drew a ticket gets the lock, readers and writers alike.
Served == \A t \in Thread : pc[t] \in {"read_wait", "write_wait"}
                              ~> pc[t] \in {"reading", "writing"}

-----------------------------------------------------------------------------
(* Why a writer is alone: the tickets from read on are all held, so a       *)
(* writer whose ticket is write, the number of those given back, has the    *)
(* lowest ticket of all that are held.                                      *)

Holder == {t \in Thread : pc[t] # "out"}
Waiting == {"read_wait", "read_store", "write_wait", "writing"}

TicketsApart ==
  \A t, u \in Holder : mine[t] < ticket /\ (t # u => mine[t] # mine[u])

\* write counts the tickets given back.
WriteCounts == write + Cardinality(Holder) = ticket

\* read is the first ticket nobody was let in with.
ReadFirst ==
  /\ read <= ticket
  /\ \A t \in Holder : pc[t] \in Waiting <=> read <= mine[t]
  /\ \A t \in Holder : pc[t] = "read_store" => mine[t] = read
  /\ \A n \in read .. ticket - 1 : \E t \in Holder : mine[t] = n

WriterFirst == \A t \in Thread : pc[t] = "writing" => mine[t] = write

IInv == TypeOK /\ TicketsApart /\ WriteCounts /\ ReadFirst /\ WriterFirst
=============================================================================
