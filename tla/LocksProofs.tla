------------------------------ MODULE LocksProofs ------------------------------
(***************************************************************************)
(* A writer is alone in the lock of RWLock, for any number of threads      *)
(* below the number of tickets, and any number of tickets drawn; Peterson's*)
(* lock is exclusive for any number of threads; and what the proofs about  *)
(* the mutex give for MCLocks, where the three move side by side.          *)
(***************************************************************************)
EXTENDS MCLocks, FunctionTheorems, FiniteSetTheorems, TLAPS

-----------------------------------------------------------------------------
(* Unsigned integers that wrap around.                                     *)

\* A number is a multiple of u and a rest.
LEMMA Rest ==
  ASSUME NEW u \in Nat \ {0}, NEW a \in Nat
  PROVE  /\ a = u * (a \div u) + (a % u)
         /\ a % u \in 0 .. u - 1 /\ a \div u \in Nat
  OBVIOUS

\* Multiples less than u apart are the same.
LEMMA Multiples ==
  ASSUME NEW u \in Nat \ {0}, NEW p \in Int, NEW q \in Int,
         u * p <= u * q, u * q - u * p < u
  PROVE  p = q
<1>1. CASE q > p
  <2>1. u * (q - p) >= u  BY <1>1
  <2>2. u * (q - p) = u * q - u * p  OBVIOUS
  <2> QED  BY <2>1, <2>2
<1>2. CASE q < p
  <2>1. u * (p - q) >= u  BY <1>2
  <2>2. u * (p - q) = u * p - u * q  OBVIOUS
  <2> QED  BY <2>1, <2>2
<1> QED  BY <1>1, <1>2

\* Numbers less than u apart differ in an unsigned integer with u values.
LEMMA SameRest ==
  ASSUME NEW u \in Nat \ {0}, NEW a \in Nat, NEW b \in Nat,
         a <= b, b - a < u, a % u = b % u
  PROVE  a = b
<1>1. a = u * (a \div u) + (a % u) /\ b = u * (b \div u) + (b % u)  BY Rest
<1>2. /\ a \div u \in Nat /\ a % u \in Nat
      /\ b \div u \in Nat /\ b % u \in Nat
  <2>1. a \div u \in Nat /\ a % u \in 0 .. u - 1  BY Rest
  <2>2. b \div u \in Nat /\ b % u \in 0 .. u - 1  BY Rest
  <2> QED  BY <2>1, <2>2
<1>3. u * (a \div u) \in Int /\ u * (b \div u) \in Int  BY <1>2
<1>4. a \div u = b \div u  BY <1>1, <1>2, <1>3, Multiples
<1> QED  BY <1>1, <1>2, <1>4

-----------------------------------------------------------------------------
(* Counting the tickets that are held.                                     *)

\* The tickets from n on, when all of them are held, are as many as their holders.
LEMMA Counting ==
  ASSUME TypeOK, TicketsApart, ReadFirst, NEW n \in read .. ticket
  PROVE  LET S == {t \in Holder : n <= mine[t]}
         IN IsFiniteSet(S) /\ Cardinality(S) = ticket - n
<1> DEFINE S == {t \in Holder : n <= mine[t]}
           T == n .. ticket - 1
           f == [t \in S |-> mine[t]]
<1>1. n \in Nat /\ ticket \in Nat /\ read \in Nat /\ n <= ticket /\ read <= n
  BY DEF TypeOK
<1>2. IsFiniteSet(S)
  BY LockAssumption, FS_Subset DEF Assumption, Holder
<1>3. \A t \in S : mine[t] \in T
  BY <1>1 DEF TypeOK, TicketsApart, Holder
<1>4. f \in [S -> T]  BY <1>3
<1>5. \A t, u \in S : f[t] = f[u] => t = u
  BY DEF TicketsApart
<1>6. \A m \in T : \E t \in S : f[t] = m
  <2> SUFFICES ASSUME NEW m \in T PROVE \E t \in S : f[t] = m
    OBVIOUS
  <2>1. m \in read .. ticket - 1 /\ n <= m  BY <1>1
  <2>2. PICK t \in Holder : mine[t] = m  BY <2>1 DEF ReadFirst
  <2>3. t \in S  BY <2>1, <2>2
  <2> QED  BY <2>2, <2>3
<1>7. f \in Bijection(S, T)
  BY <1>4, <1>5, <1>6 DEF Bijection, Injection, Surjection, IsInjective
<1>8. Cardinality(T) = Cardinality(S)
  BY <1>2, <1>7, FS_Bijection DEF ExistsBijection
<1>9. Cardinality(T) = ticket - n
  <2>1. n \in Int /\ ticket - 1 \in Int  BY <1>1
  <2>2. Cardinality(T) = IF n > ticket - 1 THEN 0 ELSE (ticket - 1) - n + 1
    BY <2>1, FS_Interval
  <2> QED  BY <1>1, <2>2
<1> QED  BY <1>2, <1>8, <1>9

\* No more tickets are held than an unsigned integer can tell apart.
LEMMA Held ==
  ASSUME TypeOK
  PROVE  /\ IsFiniteSet(Holder) /\ Cardinality(Holder) \in Nat
         /\ Cardinality(Holder) <= UINT
<1>1. IsFiniteSet(Thread) /\ Cardinality(Thread) <= UINT /\ UINT \in Nat
  BY LockAssumption DEF Assumption
<1>2. Holder \subseteq Thread  BY DEF Holder
<1>3. /\ IsFiniteSet(Holder) /\ Cardinality(Holder) <= Cardinality(Thread)
  BY <1>1, <1>2, FS_Subset
<1>4. Cardinality(Holder) \in Nat /\ Cardinality(Thread) \in Nat
  BY <1>1, <1>3, FS_CardinalityType
<1> QED  BY <1>1, <1>3, <1>4

\* The tickets from n on are not more than those not given back.
LEMMA NotGivenBack ==
  ASSUME IInv, NEW n \in read .. ticket
  PROVE  /\ write <= n /\ n - write <= UINT /\ ticket - n <= UINT
         /\ n < ticket => n - write < UINT
         /\ n = write => \A t \in Holder : n <= mine[t]
<1> DEFINE S == {t \in Holder : n <= mine[t]}
<1>1. IsFiniteSet(S) /\ Cardinality(S) = ticket - n
  BY Counting DEF IInv
<1>2. /\ IsFiniteSet(Holder) /\ Cardinality(Holder) \in Nat
      /\ Cardinality(Holder) <= UINT
  BY Held DEF IInv
<1>3. /\ Cardinality(S) <= Cardinality(Holder)
      /\ Cardinality(S) = Cardinality(Holder) => S = Holder
  BY <1>2, FS_Subset
<1>4. write + Cardinality(Holder) = ticket  BY DEF IInv, WriteCounts
<1>5. write \in Nat /\ read \in Nat /\ ticket \in Nat /\ UINT \in Nat
  BY LockAssumption DEF IInv, TypeOK, Assumption
<1>6. n \in Nat /\ n <= ticket  BY <1>5
<1>7. write <= n /\ n - write <= UINT /\ ticket - n <= UINT
  BY <1>1, <1>2, <1>3, <1>4, <1>5, <1>6
<1>8. n < ticket => n - write < UINT
  BY <1>2, <1>4, <1>5, <1>6
<1>9. ASSUME n = write PROVE \A t \in Holder : n <= mine[t]
  <2>1. Cardinality(S) = Cardinality(Holder)
    BY <1>1, <1>2, <1>4, <1>5, <1>6, <1>9
  <2> QED  BY <1>3, <2>1
<1> QED  BY <1>7, <1>8, <1>9

\* A thread that waits and has the ticket write holds the lowest ticket, and nobody
\* was let in.
LEMMA Alone ==
  ASSUME IInv, NEW t \in Holder, read <= mine[t], mine[t] = write
  PROVE  mine[t] = read /\ \A u \in Holder : mine[t] <= mine[u]
<1>1. /\ read \in Nat /\ ticket \in Nat /\ mine[t] \in Nat /\ mine[t] < ticket
  BY DEF IInv, TypeOK, TicketsApart, Holder
<1>2. mine[t] \in read .. ticket  BY <1>1
<1>3. \A u \in Holder : mine[t] <= mine[u]  BY <1>2, NotGivenBack
<1>4. PICK u \in Holder : mine[u] = read
  <2>1. read \in read .. ticket - 1  BY <1>1
  <2> QED  BY <2>1 DEF IInv, ReadFirst
<1> QED  BY <1>1, <1>3, <1>4

-----------------------------------------------------------------------------
(* The inductive invariant.                                                *)

LEMMA InitIInv == Init => IInv
<1> SUFFICES ASSUME Init PROVE IInv
  OBVIOUS
<1>1. TypeOK  BY DEF Init, TypeOK, Label
<1>2. Holder = {}  BY DEF Init, Holder
<1>3. TicketsApart  BY <1>2 DEF TicketsApart
<1>4. WriteCounts
  <2>1. Cardinality(Holder) = 0  BY <1>2, FS_EmptySet
  <2> QED  BY <2>1 DEF Init, WriteCounts
<1>5. ReadFirst  BY <1>2 DEF Init, ReadFirst
<1>6. WriterFirst  BY DEF Init, WriterFirst
<1> QED  BY <1>1, <1>3, <1>4, <1>5, <1>6 DEF IInv

\* A new ticket is the highest and is held.
LEMMA DrawKeeps ==
  ASSUME IInv, NEW t \in Thread, Draw(t)
  PROVE  IInv'
<1> USE DEF IInv
<1>1. PICK to \in {"read_wait", "write_wait"} :
        /\ pc[t] = "out" /\ pc' = [pc EXCEPT ![t] = to]
        /\ mine' = [mine EXCEPT ![t] = ticket]
        /\ ticket' = ticket + 1 /\ write' = write /\ read' = read
  BY DEF Draw, ReadDraw, WriteDraw, DrawTicket, Goto
<1>2. TypeOK'  BY <1>1 DEF TypeOK, Label
<1>3. /\ Holder' = Holder \cup {t} /\ t \notin Holder
      /\ \A u \in Holder : pc'[u] = pc[u] /\ mine'[u] = mine[u]
      /\ pc'[t] = to /\ mine'[t] = ticket
  BY <1>1 DEF TypeOK, Holder
<1>4. ticket \in Nat /\ write \in Nat /\ read \in Nat /\ mine \in [Thread -> Nat]
  BY DEF TypeOK
<1>5. TicketsApart'
  BY <1>1, <1>3, <1>4 DEF TicketsApart, Holder
<1>6. WriteCounts'
  <2>1. IsFiniteSet(Holder) /\ Cardinality(Holder) \in Nat  BY Held
  <2>2. Cardinality(Holder') = Cardinality(Holder) + 1
    BY <1>3, <2>1, FS_AddElement
  <2> QED  BY <1>1, <1>4, <2>1, <2>2 DEF WriteCounts
<1>7. ReadFirst'
  <2>1. (read <= ticket)'  BY <1>1, <1>4 DEF ReadFirst
  <2>2. (\A u \in Holder : pc[u] \in Waiting <=> read <= mine[u])'
    BY <1>1, <1>3, <1>4 DEF ReadFirst, Waiting
  <2>3. (\A u \in Holder : pc[u] = "read_store" => mine[u] = read)'
    BY <1>1, <1>3 DEF ReadFirst
  <2>4. (\A n \in read .. ticket - 1 : \E u \in Holder : mine[u] = n)'
    <3> SUFFICES ASSUME NEW n \in read .. ticket
                 PROVE \E u \in Holder' : mine'[u] = n
      BY <1>1, <1>4
    <3>1. CASE n = ticket  BY <1>3, <3>1
    <3>2. CASE n \in read .. ticket - 1
      <4>1. PICK u \in Holder : mine[u] = n  BY <3>2 DEF ReadFirst
      <4> QED  BY <1>3, <4>1
    <3> QED  BY <1>4, <3>1, <3>2
  <2> QED  BY <2>1, <2>2, <2>3, <2>4 DEF ReadFirst
<1>8. WriterFirst'
  <2> SUFFICES ASSUME NEW u \in Thread, pc'[u] = "writing"
               PROVE mine'[u] = write
    BY <1>1 DEF WriterFirst
  <2>1. u # t /\ pc[u] = "writing"  BY <1>1, <1>3 DEF TypeOK
  <2>2. mine'[u] = mine[u]  BY <1>3, <2>1 DEF Holder
  <2> QED  BY <2>1, <2>2 DEF WriterFirst
<1> QED  BY <1>2, <1>5, <1>6, <1>7, <1>8

\* The reader whose ticket is read is about to let the next thread in.
LEMMA ReadWaitKeeps ==
  ASSUME IInv, NEW t \in Thread, ReadWait(t)
  PROVE  IInv'
<1> USE DEF IInv
<1>1. /\ pc[t] = "read_wait" /\ pc' = [pc EXCEPT ![t] = "read_store"]
      /\ UNCHANGED <<ticket, write, read, mine>>
      /\ read % UINT = mine[t] % UINT
  BY DEF ReadWait, Goto, IsMine
<1>2. TypeOK'  BY <1>1 DEF TypeOK, Label
<1>3. t \in Holder /\ Holder' = Holder  BY <1>1 DEF TypeOK, Holder
<1>4. TicketsApart'  BY <1>1, <1>3 DEF TicketsApart
<1>5. WriteCounts'  BY <1>1, <1>3 DEF WriteCounts
<1>6. mine[t] = read
  <2>1. /\ read \in Nat /\ ticket \in Nat /\ mine[t] \in Nat
        /\ mine[t] < ticket /\ read <= mine[t]
    BY <1>1, <1>3 DEF TypeOK, TicketsApart, ReadFirst, Waiting
  <2>2. UINT \in Nat \ {0}  BY LockAssumption DEF Assumption
  <2>3. ticket - read <= UINT
    <3>1. read \in read .. ticket  BY <2>1
    <3> QED  BY <3>1, NotGivenBack
  <2>4. mine[t] - read < UINT  BY <2>1, <2>2, <2>3
  <2> QED  BY <1>1, <2>1, <2>2, <2>4, SameRest
<1>7. ReadFirst'
  BY <1>1, <1>3, <1>6 DEF TypeOK, ReadFirst, Waiting, Holder
<1>8. WriterFirst'  BY <1>1 DEF TypeOK, WriterFirst
<1> QED  BY <1>2, <1>4, <1>5, <1>7, <1>8

\* read goes on by one, past the ticket of the reader.
LEMMA ReadStoreKeeps ==
  ASSUME IInv, NEW t \in Thread, ReadStore(t)
  PROVE  IInv'
<1> USE DEF IInv
<1>1. /\ pc[t] = "read_store" /\ pc' = [pc EXCEPT ![t] = "reading"]
      /\ read' = mine[t] + 1 /\ UNCHANGED <<ticket, write, mine>>
  BY DEF ReadStore, Goto
<1>2. TypeOK'  BY <1>1 DEF TypeOK, Label
<1>3. t \in Holder /\ Holder' = Holder  BY <1>1 DEF TypeOK, Holder
<1>4. TicketsApart'  BY <1>1, <1>3 DEF TicketsApart
<1>5. WriteCounts'  BY <1>1, <1>3 DEF WriteCounts
<1>6. /\ read \in Nat /\ ticket \in Nat /\ mine[t] = read /\ read < ticket
      /\ \A u \in Holder : mine[u] \in Nat /\ (u # t => mine[u] # read)
  BY <1>1, <1>3 DEF TypeOK, TicketsApart, ReadFirst, Holder
<1>7. ReadFirst'
  <2>1. (read <= ticket)'  BY <1>1, <1>6
  <2>2. (\A u \in Holder : pc[u] \in Waiting <=> read <= mine[u])'
    BY <1>1, <1>3, <1>6 DEF TypeOK, ReadFirst, Waiting, Holder
  <2>3. (\A u \in Holder : pc[u] = "read_store" => mine[u] = read)'
    BY <1>1, <1>3, <1>6 DEF TypeOK, ReadFirst, Holder
  <2>4. (\A n \in read .. ticket - 1 : \E u \in Holder : mine[u] = n)'
    BY <1>1, <1>3, <1>6 DEF ReadFirst
  <2> QED  BY <2>1, <2>2, <2>3, <2>4 DEF ReadFirst
<1>8. WriterFirst'  BY <1>1 DEF TypeOK, WriterFirst
<1> QED  BY <1>2, <1>4, <1>5, <1>7, <1>8

\* The writer whose ticket is write holds the lowest ticket.
LEMMA WriteWaitKeeps ==
  ASSUME IInv, NEW t \in Thread, WriteWait(t)
  PROVE  IInv'
<1> USE DEF IInv
<1>1. /\ pc[t] = "write_wait" /\ pc' = [pc EXCEPT ![t] = "writing"]
      /\ UNCHANGED <<ticket, write, read, mine>>
      /\ write % UINT = mine[t] % UINT
  BY DEF WriteWait, Goto, IsMine
<1>2. TypeOK'  BY <1>1 DEF TypeOK, Label
<1>3. t \in Holder /\ Holder' = Holder  BY <1>1 DEF TypeOK, Holder
<1>4. TicketsApart'  BY <1>1, <1>3 DEF TicketsApart
<1>5. WriteCounts'  BY <1>1, <1>3 DEF WriteCounts
<1>6. mine[t] = write
  <2>1. /\ read \in Nat /\ ticket \in Nat /\ write \in Nat /\ mine[t] \in Nat
        /\ mine[t] < ticket /\ read <= mine[t]
    BY <1>1, <1>3 DEF TypeOK, TicketsApart, ReadFirst, Waiting
  <2>2. UINT \in Nat \ {0}  BY LockAssumption DEF Assumption
  <2>3. mine[t] \in read .. ticket  BY <2>1
  <2>4. write <= mine[t] /\ mine[t] - write < UINT
    BY <2>1, <2>3, NotGivenBack
  <2> QED  BY <1>1, <2>1, <2>2, <2>4, SameRest
<1>7. ReadFirst'
  BY <1>1, <1>3 DEF TypeOK, ReadFirst, Waiting, Holder
<1>8. WriterFirst'  BY <1>1, <1>6 DEF TypeOK, WriterFirst
<1> QED  BY <1>2, <1>4, <1>5, <1>7, <1>8

\* write_unlock lets in the thread behind the writer, which was the first.
LEMMA WriteUnlockKeeps ==
  ASSUME IInv, NEW t \in Thread, WriteUnlock(t)
  PROVE  IInv'
<1> USE DEF IInv
<1>1. /\ pc[t] = "writing" /\ pc' = [pc EXCEPT ![t] = "write_unlock"]
      /\ read' = read + 1 /\ UNCHANGED <<ticket, write, mine>>
  BY DEF WriteUnlock, Goto
<1>2. TypeOK'  BY <1>1 DEF TypeOK, Label
<1>3. t \in Holder /\ Holder' = Holder  BY <1>1 DEF TypeOK, Holder
<1>4. TicketsApart'  BY <1>1, <1>3 DEF TicketsApart
<1>5. WriteCounts'  BY <1>1, <1>3 DEF WriteCounts
<1>6. mine[t] = read
  <2>1. read <= mine[t]  BY <1>1, <1>3 DEF ReadFirst, Waiting
  <2>2. mine[t] = write  BY <1>1 DEF WriterFirst
  <2> QED  BY <1>3, <2>1, <2>2, Alone
<1>7. /\ read \in Nat /\ ticket \in Nat /\ read < ticket
      /\ \A u \in Holder : mine[u] \in Nat /\ (u # t => mine[u] # read)
  BY <1>3, <1>6 DEF TypeOK, TicketsApart, Holder
<1>8. ReadFirst'
  <2>1. (read <= ticket)'  BY <1>1, <1>7
  <2>2. (\A u \in Holder : pc[u] \in Waiting <=> read <= mine[u])'
    BY <1>1, <1>3, <1>6, <1>7 DEF TypeOK, ReadFirst, Waiting, Holder
  <2>3. (\A u \in Holder : pc[u] = "read_store" => mine[u] = read)'
    BY <1>1, <1>3, <1>6, <1>7 DEF TypeOK, ReadFirst, Holder
  <2>4. (\A n \in read .. ticket - 1 : \E u \in Holder : mine[u] = n)'
    BY <1>1, <1>3, <1>7 DEF ReadFirst
  <2> QED  BY <2>1, <2>2, <2>3, <2>4 DEF ReadFirst
<1>9. WriterFirst'  BY <1>1 DEF TypeOK, WriterFirst
<1> QED  BY <1>2, <1>4, <1>5, <1>8, <1>9

\* A ticket that is given back is not one of a thread that waits, so no writer has
\* the lock.
LEMMA LeaveKeeps ==
  ASSUME IInv, NEW t \in Thread, ReadUnlock(t) \/ WriteDone(t)
  PROVE  IInv'
<1> USE DEF IInv
<1>1. /\ pc[t] \in {"reading", "write_unlock"} /\ pc' = [pc EXCEPT ![t] = "out"]
      /\ write' = write + 1 /\ UNCHANGED <<ticket, read, mine>>
  BY DEF ReadUnlock, WriteDone, Goto
<1>2. TypeOK'  BY <1>1 DEF TypeOK, Label
<1>3. /\ t \in Holder /\ Holder' = Holder \ {t}
      /\ \A u \in Holder' : pc'[u] = pc[u]
  BY <1>1 DEF TypeOK, Holder
<1>4. TicketsApart'  BY <1>1, <1>3 DEF TicketsApart
<1>5. WriteCounts'
  <2>1. IsFiniteSet(Holder) /\ Cardinality(Holder) \in Nat  BY Held
  <2>2. Cardinality(Holder') = Cardinality(Holder) - 1
    BY <1>3, <2>1, FS_RemoveElement
  <2>3. write \in Nat /\ ticket \in Nat  BY DEF TypeOK
  <2> QED  BY <1>1, <2>1, <2>2, <2>3 DEF WriteCounts
<1>6. ~(read <= mine[t])  BY <1>1, <1>3 DEF ReadFirst, Waiting
<1>7. ReadFirst'
  <2>1. (\A n \in read .. ticket - 1 : \E u \in Holder : mine[u] = n)'
    <3> SUFFICES ASSUME NEW n \in read .. ticket - 1
                 PROVE \E u \in Holder' : mine[u] = n
      BY <1>1
    <3>1. PICK u \in Holder : mine[u] = n  BY DEF ReadFirst
    <3>2. read <= n  BY DEF TypeOK
    <3>3. u # t  BY <1>6, <3>1, <3>2
    <3> QED  BY <1>3, <3>1, <3>3
  <2> QED  BY <1>1, <1>3, <2>1 DEF ReadFirst
<1>8. WriterFirst'
  <2> SUFFICES ASSUME NEW u \in Thread, pc'[u] = "writing"
               PROVE FALSE
    BY DEF WriterFirst
  <2>1. u # t /\ pc[u] = "writing" /\ u \in Holder
    BY <1>1 DEF TypeOK, Holder
  <2>2. read <= mine[u] /\ mine[u] = write
    BY <2>1 DEF ReadFirst, WriterFirst, Waiting
  <2>3. mine[u] = read /\ mine[u] <= mine[t]  BY <1>3, <2>1, <2>2, Alone
  <2> QED  BY <1>6, <2>3
<1> QED  BY <1>2, <1>4, <1>5, <1>7, <1>8

LEMMA NextKeeps == IInv /\ [Next]_vars => IInv'
<1> SUFFICES ASSUME IInv, [Next]_vars PROVE IInv'
  OBVIOUS
<1>1. CASE UNCHANGED vars
  BY <1>1 DEF vars, IInv, TypeOK, TicketsApart, WriteCounts, ReadFirst, WriterFirst,
              Holder
<1>2. CASE Ended  BY <1>1, <1>2 DEF Ended
<1>3. ASSUME NEW t \in Thread, Draw(t) PROVE IInv'  BY <1>3, DrawKeeps
<1>4. ASSUME NEW t \in Thread, Step(t) PROVE IInv'
  BY <1>4, ReadWaitKeeps, ReadStoreKeeps, WriteWaitKeeps, WriteUnlockKeeps, LeaveKeeps
     DEF Step
<1> QED  BY <1>1, <1>2, <1>3, <1>4 DEF Next

\* The tickets held, those given back and those let in are in order at any time.
THEOREM Invariance == Spec => []IInv
<1>1. Init => IInv  BY InitIInv
<1>2. IInv /\ [Next]_vars => IInv'  BY NextKeeps
<1> QED  BY <1>1, <1>2, PTL DEF Spec

LEMMA IInvExclusion == IInv => Exclusion
<1> SUFFICES ASSUME IInv, NEW t \in Thread, NEW u \in Thread,
                    pc[t] = "writing", u # t
             PROVE pc[u] \notin {"reading", "writing"}
  BY DEF Exclusion
<1> USE DEF IInv
<1>1. t \in Holder /\ read <= mine[t] /\ mine[t] = write
  BY DEF Holder, ReadFirst, WriterFirst, Waiting
<1>2. mine[t] = read /\ \A v \in Holder : mine[t] <= mine[v]
  BY <1>1, Alone
<1>3. pc[u] # "reading"
  BY <1>2 DEF Holder, ReadFirst, Waiting
<1>4. pc[u] # "writing"
  BY <1>1, <1>2 DEF Holder, WriterFirst, TicketsApart
<1> QED  BY <1>3, <1>4

\* A writer is alone in the lock (week4/sync/rwlock.tex).
THEOREM ExclusionCorrect == Spec => []Exclusion
  BY Invariance, IInvExclusion, PTL

-----------------------------------------------------------------------------
(* Peterson's lock: lock l holds back the thread that came last to it, so   *)
(* that at most N - l threads have come to lock l.                         *)

\* What Thinned counts (PetersonLock, an instance, has a Cardinality of its own).
LEMMA ThinnedIs ==
  P!Thinned <=> \A l \in P!Level : Cardinality(P!Engaged(l)) <= N - l
<1>1. \A S : P!Cardinality(S) = Cardinality(S)
  BY DEF P!Cardinality, Cardinality
<1> QED BY <1>1 DEF P!Thinned

\* The threads and the locks, as numbers.
LEMMA PetersonNumbers ==
  ASSUME P!Assumption
  PROVE  /\ 0 \in P!Id /\ 0 \in P!Level /\ N - 2 \in P!Level /\ N \in Nat
         /\ \A l \in P!Level : l \in Nat /\ l <= N - 2
         /\ \A t \in P!Id : t \in Nat /\ t < N
BY DEF P!Assumption, P!Id, P!Level

\* The sets of threads a lock counts are finite.
LEMMA PetersonCounted ==
  ASSUME P!Assumption, NEW S \in SUBSET P!Id
  PROVE  /\ IsFiniteSet(S) /\ Cardinality(S) \in Nat
         /\ Cardinality(S) <= N
         /\ \A T \in SUBSET S : /\ IsFiniteSet(T) /\ Cardinality(T) \in Nat
                                /\ Cardinality(T) <= Cardinality(S)
<1>1. IsFiniteSet(P!Id) /\ Cardinality(P!Id) = N
  BY FS_Interval DEF P!Assumption, P!Id
<1>2. IsFiniteSet(S) /\ Cardinality(S) <= N
  BY <1>1, FS_Subset
<1> QED BY <1>2, FS_Subset, FS_CardinalityType

\* At the start nobody has come to any lock.
LEMMA PetersonInit == ASSUME P!Assumption, P!Init PROVE P!IInv
<1> USE PetersonNumbers DEF P!Init
<1>1. P!TypeOK
  BY DEF P!TypeOK
<1>2. \A l \in P!Level : P!Engaged(l) = {}
  BY DEF P!Engaged
<1>3. P!PlaceOK /\ P!FlagOK /\ P!ScanOK /\ P!LastOK
  BY <1>2 DEF P!PlaceOK, P!FlagOK, P!ScanOK, P!LastOK
<1>4. P!Thinned
  <2>1. Cardinality({}) = 0
    BY FS_EmptySet
  <2>2. \A l \in P!Level : 0 <= N - l
    OBVIOUS
  <2> QED BY <1>2, <2>1, <2>2, ThinnedIs
<1> QED BY <1>1, <1>3, <1>4 DEF P!IInv

\* A lock that more than one thread has come to holds one of them back, the
\* last.
LEMMA OneStaysBehind ==
  ASSUME P!Assumption, P!IInv, NEW l \in P!Level
  PROVE  /\ P!Through(l) \in SUBSET P!Engaged(l)
         /\ Cardinality(P!Through(l)) <= N - l - 1
         /\ \A t, u \in P!Through(l) : t # u =>
              last[l] \in P!Engaged(l) \ P!Through(l)
<1> USE PetersonNumbers
<1>1. P!TypeOK /\ P!ScanOK /\ P!LastOK /\ P!Thinned
  BY DEF P!IInv
<1>2. P!Through(l) \subseteq P!Engaged(l) /\ P!Engaged(l) \in SUBSET P!Id
  BY <1>1 DEF P!Through, P!Engaged
<1>3. ASSUME NEW t \in P!Through(l), NEW u \in P!Through(l), t # u
      PROVE  last[l] \in P!Engaged(l) \ P!Through(l)
  BY <1>1, <1>2, <1>3 DEF P!ScanOK, P!LastOK
<1>4. Cardinality(P!Through(l)) <= N - l - 1
  <2>1. CASE \E t, u \in P!Through(l) : t # u
    <3> DEFINE S == P!Through(l)
               T == P!Through(l) \cup {last[l]}
    <3>1. last[l] \in P!Engaged(l) \ P!Through(l)
      BY <2>1, <1>3
    <3>2. IsFiniteSet(S) /\ Cardinality(S) \in Nat
      BY <1>2, PetersonCounted
    <3>3. Cardinality(T) = Cardinality(S) + 1
      BY <3>1, <3>2, FS_AddElement
    <3>4. T \in SUBSET P!Engaged(l)
      BY <1>2, <3>1
    <3>5. Cardinality(T) <= Cardinality(P!Engaged(l))
      BY <1>2, <3>4, PetersonCounted
    <3>6. Cardinality(P!Engaged(l)) <= N - l /\ Cardinality(P!Engaged(l)) \in Nat
      BY <1>1, <1>2, PetersonCounted, ThinnedIs
    <3> HIDE DEF S, T
    <3>7. Cardinality(S) <= N - l - 1
      BY <3>2, <3>3, <3>5, <3>6
    <3> QED BY <3>7 DEF S
  <2>2. CASE \A t, u \in P!Through(l) : t = u
    <3>1. \E t : P!Through(l) \subseteq {t}
      BY <2>2
    <3>2. PICK t : P!Through(l) \subseteq {t}
      BY <3>1
    <3>3. IsFiniteSet({t}) /\ Cardinality({t}) = 1
      BY FS_Singleton
    <3>4. Cardinality(P!Through(l)) <= 1
      BY <3>2, <3>3, FS_Subset
    <3>5. Cardinality(P!Through(l)) \in Nat
      BY <1>2, PetersonCounted
    <3> QED BY <3>4, <3>5
  <2> QED BY <2>1, <2>2
<1> QED BY <1>2, <1>3, <1>4

\* So at most one thread is inside.
LEMMA InsideAlone ==
  ASSUME P!Assumption, P!IInv
  PROVE  P!PetersonExclusion
<1> USE PetersonNumbers
<1> SUFFICES ASSUME NEW t \in P!Id, NEW u \in P!Id,
                    label[t] = "inside", label[u] = "inside", t # u
             PROVE  FALSE
  BY DEF P!PetersonExclusion
<1> DEFINE S == P!Through(N - 2)
<1>1. t \in S /\ u \in S
  BY DEF P!IInv, P!PlaceOK, P!Through
<1>2. S \in SUBSET P!Id
  BY DEF P!Through
<1>3. Cardinality(S) <= N - (N - 2) - 1 /\ Cardinality(S) \in Nat
  BY <1>2, OneStaysBehind, PetersonCounted
<1>4. Cardinality({t, u}) = 2
  <2>1. Cardinality({t} \cup {u}) = 2
    <3>1. IsFiniteSet({t}) /\ Cardinality({t}) = 1 /\ u \notin {t}
      BY FS_Singleton
    <3>2. Cardinality({t} \cup {u}) = Cardinality({t}) + 1
      BY <3>1, FS_AddElement
    <3> QED BY <3>1, <3>2
  <2>2. {t} \cup {u} = {t, u}
    OBVIOUS
  <2> QED BY <2>1, <2>2
<1>5. {t, u} \in SUBSET S
  BY <1>1
<1>6. Cardinality({t, u}) <= Cardinality(S)
  BY <1>2, <1>5, PetersonCounted
<1> QED BY <1>3, <1>4, <1>6

\* The steps that bring nobody to a lock, through it or out of it: the flag, and
\* the looks at the flags of the others.
LEMMA PetersonQuiet ==
  ASSUME P!Assumption, P!IInv, NEW t \in P!Id,
         P!Lock(t) \/ P!SetFlag(t) \/ P!Scan(t) \/ P!ScanFinds(t) \/ P!TestAgain(t)
  PROVE  P!IInv'
<1> USE PetersonNumbers
<1>1. P!TypeOK /\ P!PlaceOK /\ P!FlagOK /\ P!ScanOK /\ P!LastOK /\ P!Thinned
  BY DEF P!IInv
<1>2. level' = level /\ last' = last
  <2>1. CASE P!Lock(t)
    <3>1. level[t] = 0 /\ level' = [level EXCEPT ![t] = 0]
      BY <1>1, <2>1 DEF P!Lock, P!Goto, P!PlaceOK
    <3> QED BY <1>1, <2>1, <3>1 DEF P!Lock, P!TypeOK
  <2> QED BY <2>1 DEF P!SetFlag, P!Scan, P!ScanFinds, P!TestAgain
<1>3. /\ label' \in [P!Id -> {"out", "flag", "last", "scan", "test", "inside", "unlock"}]
      /\ \A u \in P!Id \ {t} : label'[u] = label[u]
      /\ \/ label[t] = "out" /\ label'[t] = "flag"
         \/ label[t] = "flag" /\ label'[t] = "last"
         \/ label[t] \in {"scan", "test"} /\ label'[t] \in {"scan", "test"}
  <2>1. label \in [P!Id -> {"out", "flag", "last", "scan", "test", "inside", "unlock"}]
    BY <1>1 DEF P!TypeOK
  <2>2. CASE P!Scan(t)
    <3>1. label' = label /\ label[t] = "scan"
      BY <2>2 DEF P!Scan
    <3> QED BY <2>1, <3>1
  <2>3. CASE ~P!Scan(t)
    <3>1. \/ P!Goto(t, "out", "flag") \/ P!Goto(t, "flag", "last")
          \/ P!Goto(t, "scan", "test") \/ P!Goto(t, "test", "scan")
      BY <2>3 DEF P!Lock, P!SetFlag, P!ScanFinds, P!TestAgain
    <3>2. PICK to \in {"flag", "last", "scan", "test"} : label' = [label EXCEPT ![t] = to]
      BY <3>1 DEF P!Goto
    <3>3. /\ label' \in [P!Id -> {"out", "flag", "last", "scan", "test", "inside", "unlock"}]
          /\ \A u \in P!Id \ {t} : label'[u] = label[u]
      BY <2>1, <3>2
    <3>4. \/ label[t] = "out" /\ label'[t] = "flag"
          \/ label[t] = "flag" /\ label'[t] = "last"
          \/ label[t] \in {"scan", "test"} /\ label'[t] \in {"scan", "test"}
      BY <2>1, <3>1 DEF P!Goto
    <3> QED BY <3>3, <3>4
  <2> QED BY <2>2, <2>3
<1>4. \A l \in P!Level : /\ P!Engaged(l)' = P!Engaged(l)
                         /\ P!Through(l)' = P!Through(l)
  BY <1>1, <1>2, <1>3 DEF P!Engaged, P!Through
<1>5. /\ flag' \in [P!Level -> [P!Id -> BOOLEAN]]
      /\ label'[t] = "last" => flag' = [flag EXCEPT ![level[t]][t] = TRUE]
      /\ label'[t] # "last" => flag' = flag
  <2>1. CASE P!SetFlag(t)
    BY <1>1, <1>3, <2>1 DEF P!TypeOK, P!SetFlag, P!Goto
  <2>2. CASE ~P!SetFlag(t)
    BY <1>1, <1>3, <2>2 DEF P!TypeOK, P!Lock, P!Scan, P!ScanFinds, P!TestAgain, P!Goto
  <2> QED BY <2>1, <2>2
<1>6. other' \in [P!Id -> 0..N] /\ \A u \in P!Id \ {t} : other'[u] = other[u]
  <2>1. CASE P!Scan(t)
    <3>1. other[t] + 1 \in 0..N /\ other' = [other EXCEPT ![t] = other[t] + 1]
      BY <2>1 DEF P!Scan
    <3> QED BY <1>1, <3>1 DEF P!TypeOK
  <2>2. CASE P!TestAgain(t)
    <3>1. 0 \in 0..N /\ other' = [other EXCEPT ![t] = 0]
      BY <2>2 DEF P!TestAgain
    <3> QED BY <1>1, <3>1 DEF P!TypeOK
  <2>3. CASE P!Lock(t) \/ P!SetFlag(t) \/ P!ScanFinds(t)
    BY <1>1, <2>3 DEF P!TypeOK, P!Lock, P!SetFlag, P!ScanFinds
  <2> QED BY <2>1, <2>2, <2>3
<1>7. P!TypeOK'
  BY <1>1, <1>2, <1>3, <1>5, <1>6 DEF P!TypeOK
<1>8. (P!PlaceOK /\ P!LastOK /\ P!Thinned)'
  BY <1>1, <1>2, <1>3, <1>4 DEF P!PlaceOK, P!LastOK, P!Thinned
<1>9. P!FlagOK'
  <2>1. CASE P!SetFlag(t)
    <3>1. /\ label[t] = "flag" /\ label'[t] = "last"
          /\ flag' = [flag EXCEPT ![level[t]][t] = TRUE]
      BY <1>1, <2>1 DEF P!SetFlag, P!Goto, P!TypeOK
    <3>2. ASSUME NEW l \in P!Level, NEW u \in P!Id
          PROVE  flag'[l][u] <=> \/ u \in P!Engaged(l)'
                                 \/ label'[u] = "last" /\ level'[u] = l
      <4>1. flag[l][u] <=> \/ u \in P!Engaged(l)
                           \/ label[u] = "last" /\ level[u] = l
        BY <1>1 DEF P!FlagOK
      <4>2. flag'[l][u] = IF l = level[t] /\ u = t THEN TRUE ELSE flag[l][u]
        BY <1>1, <3>1 DEF P!TypeOK
      <4> QED BY <1>2, <1>3, <1>4, <3>1, <4>1, <4>2
    <3> QED BY <3>2 DEF P!FlagOK
  <2>2. CASE ~P!SetFlag(t)
    <3>1. flag' = flag /\ label[t] # "last" /\ label'[t] # "last"
      BY <1>1, <2>2 DEF P!Lock, P!Scan, P!ScanFinds, P!TestAgain, P!Goto, P!TypeOK
    <3> QED BY <1>1, <1>2, <1>3, <1>4, <3>1 DEF P!FlagOK
  <2> QED BY <2>1, <2>2
<1>10. P!ScanOK'
  <2> SUFFICES ASSUME NEW l \in P!Level, NEW u \in P!Id \ {last[l]},
                      \/ last[l] \in P!Through(l)
                      \/ level[last[l]] = l /\ label'[last[l]] = "scan"
                         /\ u < other'[last[l]]
               PROVE  u \notin P!Engaged(l)
    BY <1>2, <1>4 DEF P!ScanOK
  <2>1. last[l] \in P!Id
    BY <1>1 DEF P!TypeOK
  <2>2. CASE last[l] # t \/ last[l] \in P!Through(l)
    BY <1>1, <1>3, <1>6, <2>1, <2>2 DEF P!ScanOK
  <2>3. CASE last[l] = t /\ last[l] \notin P!Through(l)
    <3>1. level[t] = l /\ label'[t] = "scan" /\ u < other'[t]
      BY <2>3
    <3>2. P!Scan(t) \/ P!TestAgain(t)
      BY <1>1, <3>1 DEF P!TypeOK, P!Lock, P!SetFlag, P!ScanFinds, P!Goto
    <3>3. ~P!TestAgain(t)
      BY <1>1, <3>1 DEF P!TestAgain, P!TypeOK
    <3>4. /\ label[t] = "scan" /\ other[t] \in P!Id /\ other'[t] = other[t] + 1
          /\ other[t] = t \/ ~flag[l][other[t]]
      BY <1>1, <3>1, <3>2, <3>3 DEF P!Scan, P!InTheWay, P!TypeOK
    <3>5. CASE u < other[t]
      BY <1>1, <2>3, <3>1, <3>4, <3>5 DEF P!ScanOK
    <3>6. CASE u = other[t]
      BY <1>1, <2>3, <3>4, <3>6 DEF P!FlagOK
    <3> QED BY <3>1, <3>4, <3>5, <3>6
  <2> QED BY <2>2, <2>3
<1> QED BY <1>7, <1>8, <1>9, <1>10 DEF P!IInv

\* A thread comes to a lock: it is now the last.
LEMMA PetersonSetLast ==
  ASSUME P!Assumption, P!IInv, NEW t \in P!Id, P!SetLast(t)
  PROVE  P!IInv'
<1> USE PetersonNumbers
<1>1. P!TypeOK /\ P!PlaceOK /\ P!FlagOK /\ P!ScanOK /\ P!LastOK /\ P!Thinned
  BY DEF P!IInv
<1>k. PICK k \in P!Level : level[t] = k
  BY <1>1 DEF P!TypeOK
<1>2. /\ label[t] = "last" /\ UNCHANGED <<flag, level>>
      /\ label' \in [P!Id -> {"out", "flag", "last", "scan", "test", "inside", "unlock"}]
      /\ label'[t] = "scan" /\ \A u \in P!Id \ {t} : label'[u] = label[u]
      /\ last' \in [P!Level -> P!Id]
      /\ last'[k] = t /\ \A l \in P!Level \ {k} : last'[l] = last[l]
      /\ other' \in [P!Id -> 0..N]
      /\ other'[t] = 0 /\ \A u \in P!Id \ {t} : other'[u] = other[u]
  BY <1>1, <1>k DEF P!TypeOK, P!SetLast, P!Goto
<1>3. /\ P!Engaged(k)' = P!Engaged(k) \cup {t} /\ t \notin P!Through(k)
      /\ \A l \in P!Level \ {k} : P!Engaged(l)' = P!Engaged(l)
      /\ \A l \in P!Level : P!Through(l)' = P!Through(l)
  BY <1>1, <1>k, <1>2 DEF P!Engaged, P!Through, P!TypeOK
<1>4. P!TypeOK' /\ P!PlaceOK'
  BY <1>1, <1>k, <1>2 DEF P!TypeOK, P!PlaceOK
<1>5. P!FlagOK'
  BY <1>1, <1>k, <1>2, <1>3 DEF P!FlagOK
<1>6. P!ScanOK'
  <2> SUFFICES ASSUME NEW l \in P!Level, NEW u \in P!Id \ {last'[l]},
                      \/ last'[l] \in P!Through(l)'
                      \/ level[last'[l]] = l /\ label'[last'[l]] = "scan"
                         /\ u < other'[last'[l]]
               PROVE  u \notin P!Engaged(l)'
    BY <1>2 DEF P!ScanOK
  <2>1. last'[l] \in P!Id /\ u \in Nat /\ ~(u < 0)
    BY <1>2
  <2>2. CASE l = k
    BY <1>2, <1>3, <2>1, <2>2
  <2>3. CASE l # k
    <3>1. last'[l] = last[l] /\ P!Engaged(l)' = P!Engaged(l)
          /\ P!Through(l)' = P!Through(l)
      BY <1>2, <1>3, <2>3
    <3>2. CASE last[l] \in P!Through(l)
      BY <1>1, <3>1, <3>2 DEF P!ScanOK
    <3>3. CASE last[l] \notin P!Through(l)
      <4>1. level[last[l]] = l /\ label'[last[l]] = "scan" /\ u < other'[last[l]]
        BY <3>1, <3>3
      <4>2. last[l] # t
        BY <1>k, <2>3, <4>1
      <4>3. label[last[l]] = "scan" /\ u < other[last[l]]
        BY <1>2, <2>1, <3>1, <4>1, <4>2
      <4> QED BY <1>1, <3>1, <4>1, <4>3 DEF P!ScanOK
    <3> QED BY <3>2, <3>3
  <2> QED BY <2>2, <2>3
<1>7. P!LastOK'
  BY <1>1, <1>k, <1>2, <1>3 DEF P!LastOK
<1>8. P!Thinned'
  <2>1. Cardinality(P!Engaged(k)') <= N - k
    <3>1. P!Engaged(k)' \in SUBSET P!Id
      BY DEF P!Engaged
    <3>2. CASE k = 0
      BY <3>1, <3>2, PetersonCounted
    <3>3. CASE k # 0
      <4>1. k - 1 \in P!Level
        BY <1>2, <3>3 DEF P!Level
      <4>2. P!Engaged(k)' \in SUBSET P!Through(k - 1) /\ P!Through(k - 1) \in SUBSET P!Id
        BY <1>1, <1>k, <1>2, <1>3, <3>3 DEF P!Engaged, P!Through, P!TypeOK
      <4>3. Cardinality(P!Through(k - 1)) <= N - (k - 1) - 1
        BY <4>1, OneStaysBehind
      <4>4. /\ Cardinality(P!Engaged(k)') <= Cardinality(P!Through(k - 1))
            /\ Cardinality(P!Engaged(k)') \in Nat
            /\ Cardinality(P!Through(k - 1)) \in Nat
        BY <3>1, <4>2, PetersonCounted
      <4> QED BY <1>2, <4>3, <4>4
    <3> QED BY <3>2, <3>3
  <2> QED BY <1>1, <1>3, <2>1 DEF P!Thinned, P!Cardinality, Cardinality
<1> QED BY <1>4, <1>5, <1>6, <1>7, <1>8 DEF P!IInv

\* A lock lets a thread through that found all flags clear, or that is no longer
\* the last.
LEMMA PetersonPassed ==
  ASSUME P!Assumption, P!IInv, NEW t \in P!Id, P!ScanClear(t) \/ P!TestPasses(t)
  PROVE  P!IInv'
<1> USE PetersonNumbers
<1>1. P!TypeOK /\ P!PlaceOK /\ P!FlagOK /\ P!ScanOK /\ P!LastOK /\ P!Thinned
  BY DEF P!IInv
<1>k. PICK k \in P!Level : level[t] = k
  BY <1>1 DEF P!TypeOK
<1>2. /\ label[t] \in {"scan", "test"}
      /\ label[t] = "scan" => other[t] = N
      /\ label[t] = "test" => last[k] # t
      /\ UNCHANGED <<flag, last, other>>
      /\ \/ /\ k + 1 \in P!Level
            /\ level' = [level EXCEPT ![t] = k + 1]
            /\ label' = [label EXCEPT ![t] = "flag"]
         \/ /\ k + 1 \notin P!Level
            /\ level' = [level EXCEPT ![t] = k]
            /\ label' = [label EXCEPT ![t] = "inside"]
  <2>1. P!Passed(t) /\ other' = other
    BY DEF P!ScanClear, P!TestPasses
  <2>2. /\ label[t] \in {"scan", "test"}
        /\ label[t] = "scan" => other[t] = N
        /\ label[t] = "test" => last[k] # t
    BY <1>k DEF P!ScanClear, P!TestPasses
  <2>3. CASE k + 1 \in P!Level
    BY <1>k, <2>1, <2>2, <2>3 DEF P!Passed
  <2>4. CASE k + 1 \notin P!Level
    BY <1>k, <2>1, <2>2, <2>4 DEF P!Passed
  <2> QED BY <2>3, <2>4
<1>a. /\ level' \in [P!Id -> P!Level]
      /\ label' \in [P!Id -> {"out", "flag", "last", "scan", "test", "inside", "unlock"}]
      /\ \/ k + 1 \in P!Level /\ level'[t] = k + 1 /\ label'[t] = "flag"
         \/ k = N - 2 /\ level'[t] = k /\ label'[t] = "inside"
      /\ \A u \in P!Id \ {t} : level'[u] = level[u] /\ label'[u] = label[u]
  <2>1. k + 1 \notin P!Level => k = N - 2
    BY DEF P!Level
  <2>2. CASE k + 1 \in P!Level
    <3>1. level' = [level EXCEPT ![t] = k + 1] /\ label' = [label EXCEPT ![t] = "flag"]
      BY <1>2, <2>2
    <3> QED BY <1>1, <2>2, <3>1 DEF P!TypeOK
  <2>3. CASE k + 1 \notin P!Level
    <3>1. level' = [level EXCEPT ![t] = k] /\ label' = [label EXCEPT ![t] = "inside"]
      BY <1>2, <2>3
    <3> QED BY <1>1, <2>1, <2>3, <3>1 DEF P!TypeOK
  <2> QED BY <2>2, <2>3
<1>3. P!TypeOK' /\ P!PlaceOK'
  BY <1>1, <1>k, <1>2, <1>a DEF P!TypeOK, P!PlaceOK
<1>4. /\ \A l \in P!Level : P!Engaged(l)' = P!Engaged(l)
      /\ P!Through(k)' = P!Through(k) \cup {t}
      /\ \A l \in P!Level \ {k} : P!Through(l)' = P!Through(l)
  <2>1. ASSUME NEW l \in P!Level, NEW u \in P!Id
        PROVE  /\ u \in P!Engaged(l)' <=> u \in P!Engaged(l)
               /\ u \in P!Through(l)' <=> u \in P!Through(l) \/ (l = k /\ u = t)
    <3>1. level[u] \in Nat /\ level'[u] \in Nat /\ l \in Nat /\ k \in Nat
      BY <1>1, <1>a DEF P!TypeOK
    <3>2. CASE u # t
      BY <1>a, <3>2 DEF P!Engaged, P!Through
    <3>3. CASE u = t
      <4>1. level[t] = k /\ label[t] \in {"scan", "test"}
        BY <1>k, <1>2
      <4>2. CASE k + 1 \in P!Level /\ level'[t] = k + 1 /\ label'[t] = "flag"
        <5>1. level'[t] > l <=> k > l \/ k = l
          BY <3>1, <4>2
        <5>2. /\ u \in P!Engaged(l) <=> k > l \/ k = l
              /\ u \in P!Through(l) <=> k > l
          BY <3>3, <4>1 DEF P!Engaged, P!Through
        <5>3. /\ u \in P!Engaged(l)' <=> level'[t] > l
              /\ u \in P!Through(l)' <=> level'[t] > l
          BY <3>3, <4>2 DEF P!Engaged, P!Through
        <5> QED BY <3>1, <3>3, <5>1, <5>2, <5>3
      <4>3. CASE level'[t] = k /\ label'[t] = "inside"
        <5>1. /\ u \in P!Engaged(l) <=> k > l \/ k = l
              /\ u \in P!Through(l) <=> k > l
          BY <3>3, <4>1 DEF P!Engaged, P!Through
        <5>2. /\ u \in P!Engaged(l)' <=> k > l \/ k = l
              /\ u \in P!Through(l)' <=> k > l \/ k = l
          BY <3>3, <4>3 DEF P!Engaged, P!Through
        <5> QED BY <3>1, <3>3, <5>1, <5>2
      <4> QED BY <1>a, <4>2, <4>3
    <3> QED BY <3>2, <3>3
  <2>2. \A l \in P!Level : /\ P!Engaged(l) \subseteq P!Id /\ P!Engaged(l)' \subseteq P!Id
                           /\ P!Through(l) \subseteq P!Id /\ P!Through(l)' \subseteq P!Id
    BY DEF P!Engaged, P!Through
  <2>3. \A l \in P!Level : P!Engaged(l)' = P!Engaged(l)
    BY <2>1, <2>2
  <2>4. P!Through(k)' = P!Through(k) \cup {t}
    BY <2>1, <2>2
  <2>5. \A l \in P!Level \ {k} : P!Through(l)' = P!Through(l)
    BY <2>1, <2>2
  <2> QED BY <2>3, <2>4, <2>5
<1>5. P!FlagOK'
  <2>1. \A u \in P!Id : \A l \in P!Level :
          label'[u] = "last" /\ level'[u] = l <=> label[u] = "last" /\ level[u] = l
    BY <1>1, <1>k, <1>2, <1>a DEF P!TypeOK
  <2> QED BY <1>1, <1>k, <1>2, <1>a, <1>4, <2>1 DEF P!FlagOK
<1>6. P!ScanOK'
  <2> SUFFICES ASSUME NEW l \in P!Level, NEW u \in P!Id \ {last[l]},
                      \/ last[l] \in P!Through(l)'
                      \/ level'[last[l]] = l /\ label'[last[l]] = "scan"
                         /\ u < other[last[l]]
               PROVE  u \notin P!Engaged(l)
    BY <1>2, <1>4 DEF P!ScanOK
  <2>1. last[l] \in P!Id
    BY <1>1 DEF P!TypeOK
  <2>2. CASE last[l] # t
    BY <1>1, <1>k, <1>2, <1>a, <1>4, <2>1, <2>2 DEF P!ScanOK, P!TypeOK
  <2>3. CASE last[l] = t
    <3>1. label'[t] # "scan"
      BY <1>1, <1>k, <1>2, <1>a DEF P!TypeOK
    <3>2. CASE last[l] \in P!Through(l)
      BY <1>1, <3>2 DEF P!ScanOK
    <3>3. CASE last[l] \notin P!Through(l)
      <4>1. l = k
        BY <1>4, <2>3, <3>1, <3>3
      <4>2. label[t] = "scan" /\ other[t] = N /\ level[t] = l
        BY <1>k, <1>2, <2>3, <4>1
      <4> QED BY <1>1, <2>3, <4>2 DEF P!ScanOK
    <3> QED BY <3>2, <3>3
  <2> QED BY <2>2, <2>3
<1>7. (P!LastOK /\ P!Thinned)'
  BY <1>1, <1>k, <1>2, <1>a, <1>4 DEF P!LastOK, P!Thinned
<1> QED BY <1>3, <1>5, <1>6, <1>7 DEF P!IInv

\* A thread releases a lock: if it was the last to come, it was the only one.
LEMMA PetersonUnlock ==
  ASSUME P!Assumption, P!IInv, NEW t \in P!Id, P!Unlock(t)
  PROVE  P!IInv'
<1> USE PetersonNumbers
<1>1. P!TypeOK /\ P!PlaceOK /\ P!FlagOK /\ P!ScanOK /\ P!LastOK /\ P!Thinned
  BY DEF P!IInv
<1>k. PICK k \in P!Level : level[t] = k
  BY <1>1 DEF P!TypeOK
<1>2. /\ label[t] \in {"inside", "unlock"}
      /\ UNCHANGED <<last, other>>
      /\ flag' = [flag EXCEPT ![k][t] = FALSE]
      /\ \/ /\ k = 0
            /\ level' = [level EXCEPT ![t] = 0]
            /\ label' = [label EXCEPT ![t] = "out"]
         \/ /\ k # 0 /\ k - 1 \in P!Level
            /\ level' = [level EXCEPT ![t] = k - 1]
            /\ label' = [label EXCEPT ![t] = "unlock"]
  <2>1. k # 0 => k - 1 \in P!Level
    BY <1>k DEF P!Level
  <2>2. CASE k = 0
    BY <1>k, <2>2 DEF P!Unlock
  <2>3. CASE k # 0
    BY <1>k, <2>1, <2>3 DEF P!Unlock
  <2> QED BY <2>2, <2>3
<1>a. /\ level' \in [P!Id -> P!Level]
      /\ label' \in [P!Id -> {"out", "flag", "last", "scan", "test", "inside", "unlock"}]
      /\ \/ k = 0 /\ level'[t] = 0 /\ label'[t] = "out"
         \/ k # 0 /\ level'[t] = k - 1 /\ label'[t] = "unlock"
      /\ \A u \in P!Id \ {t} : level'[u] = level[u] /\ label'[u] = label[u]
  <2>1. CASE k = 0
    BY <1>1, <1>2, <2>1 DEF P!TypeOK
  <2>2. CASE k # 0
    <3>1. /\ level \in [P!Id -> P!Level] /\ k - 1 \in P!Level
          /\ label \in [P!Id -> {"out", "flag", "last", "scan", "test", "inside", "unlock"}]
      BY <1>1, <1>2, <2>2 DEF P!TypeOK
    <3>2. level' = [level EXCEPT ![t] = k - 1] /\ label' = [label EXCEPT ![t] = "unlock"]
      BY <1>2, <2>2
    <3> QED BY <2>2, <3>1, <3>2
  <2> QED BY <2>1, <2>2
<1>3. P!TypeOK' /\ P!PlaceOK'
  BY <1>1, <1>k, <1>2, <1>a DEF P!TypeOK, P!PlaceOK
<1>4. /\ P!Engaged(k)' = P!Engaged(k) \ {t} /\ t \in P!Through(k)
      /\ P!Through(k)' = P!Through(k) \ {t}
      /\ \A l \in P!Level \ {k} : /\ P!Engaged(l)' = P!Engaged(l)
                                  /\ P!Through(l)' = P!Through(l)
  <2>1. ASSUME NEW l \in P!Level, NEW u \in P!Id
        PROVE  /\ u \in P!Engaged(l)' <=> u \in P!Engaged(l) /\ ~(l = k /\ u = t)
               /\ u \in P!Through(l)' <=> u \in P!Through(l) /\ ~(l = k /\ u = t)
    <3>1. level[u] \in Nat /\ level'[u] \in Nat /\ l \in Nat /\ k \in Nat
      BY <1>1, <1>a DEF P!TypeOK
    <3>2. CASE u # t
      BY <1>a, <3>2 DEF P!Engaged, P!Through
    <3>3. CASE u = t
      BY <1>k, <1>2, <1>a, <3>1, <3>3 DEF P!Engaged, P!Through
    <3> QED BY <3>2, <3>3
  <2>2. \A l \in P!Level : /\ P!Engaged(l) \subseteq P!Id /\ P!Engaged(l)' \subseteq P!Id
                           /\ P!Through(l) \subseteq P!Id /\ P!Through(l)' \subseteq P!Id
    BY DEF P!Engaged, P!Through
  <2>3. t \in P!Through(k)
    BY <1>k, <1>2 DEF P!Through
  <2> QED BY <2>1, <2>2, <2>3
<1>5. P!FlagOK'
  <2>1. \A u \in P!Id : \A l \in P!Level :
          label'[u] = "last" /\ level'[u] = l <=> label[u] = "last" /\ level[u] = l
    BY <1>1, <1>k, <1>2, <1>a DEF P!TypeOK
  <2>2. ASSUME NEW l \in P!Level, NEW u \in P!Id
        PROVE  flag'[l][u] <=> \/ u \in P!Engaged(l)'
                               \/ label'[u] = "last" /\ level'[u] = l
    <3>1. flag[l][u] <=> \/ u \in P!Engaged(l)
                         \/ label[u] = "last" /\ level[u] = l
      BY <1>1 DEF P!FlagOK
    <3>2. flag'[l][u] = IF l = k /\ u = t THEN FALSE ELSE flag[l][u]
      BY <1>1, <1>k, <1>2, <1>a DEF P!TypeOK
    <3>3. label[t] # "last" /\ label'[t] # "last"
      BY <1>2, <1>a
    <3>4. CASE l = k /\ u = t
      BY <1>4, <3>2, <3>3, <3>4
    <3>5. CASE ~(l = k /\ u = t)
      <4>1. u \in P!Engaged(l)' <=> u \in P!Engaged(l)
        BY <1>4, <3>5
      <4> QED BY <2>1, <3>1, <3>2, <3>5, <4>1
    <3> QED BY <3>4, <3>5
  <2> QED BY <2>2 DEF P!FlagOK
<1>6. last[k] = t => P!Engaged(k) \subseteq {t}
  BY <1>1, <1>k, <1>2, <1>a, <1>4 DEF P!ScanOK, P!Engaged
<1>7. P!ScanOK'
  <2> SUFFICES ASSUME NEW l \in P!Level, NEW u \in P!Id \ {last[l]},
                      \/ last[l] \in P!Through(l)'
                      \/ level'[last[l]] = l /\ label'[last[l]] = "scan"
                         /\ u < other[last[l]]
               PROVE  u \notin P!Engaged(l)'
    BY <1>2 DEF P!ScanOK
  <2>1. last[l] \in P!Id
    BY <1>1 DEF P!TypeOK
  <2>2. last[l] = t => label'[last[l]] # "scan"
    BY <1>1, <1>k, <1>2, <1>a DEF P!TypeOK
  <2>3. CASE l = k
    BY <1>1, <1>k, <1>2, <1>a, <1>4, <1>6, <2>1, <2>2, <2>3 DEF P!ScanOK, P!TypeOK
  <2>4. CASE l # k
    BY <1>1, <1>k, <1>2, <1>a, <1>4, <2>1, <2>2, <2>4 DEF P!ScanOK, P!TypeOK
  <2> QED BY <2>3, <2>4
<1>8. P!LastOK'
  BY <1>1, <1>k, <1>2, <1>a, <1>4, <1>6 DEF P!LastOK
<1>9. P!Thinned'
  <2>1. /\ P!Engaged(k) \in SUBSET P!Id /\ P!Engaged(k)' \in SUBSET P!Engaged(k)
        /\ Cardinality(P!Engaged(k)) <= N - k
    BY <1>1, <1>k, <1>2, <1>a, <1>4, ThinnedIs DEF P!Engaged
  <2>2. /\ Cardinality(P!Engaged(k)') <= Cardinality(P!Engaged(k))
        /\ Cardinality(P!Engaged(k)') \in Nat /\ Cardinality(P!Engaged(k)) \in Nat
    BY <2>1, PetersonCounted
  <2>3. Cardinality(P!Engaged(k)') <= N - k
    BY <1>2, <2>1, <2>2
  <2> QED BY <1>1, <1>4, <2>3 DEF P!Thinned, P!Cardinality, Cardinality
<1> QED BY <1>3, <1>5, <1>7, <1>8, <1>9 DEF P!IInv

\* Every step keeps the invariant.
LEMMA PetersonNext == ASSUME P!Assumption, P!IInv, [P!Next]_(P!vars) PROVE P!IInv'
<1>1. ASSUME NEW t \in P!Id, P!Lock(t) \/ P!Step(t) PROVE P!IInv'
  BY <1>1, PetersonQuiet, PetersonSetLast, PetersonPassed, PetersonUnlock DEF P!Step
<1>2. CASE UNCHANGED P!vars
  BY <1>2 DEF P!vars, P!IInv, P!TypeOK, P!PlaceOK, P!FlagOK, P!ScanOK, P!LastOK,
              P!Thinned, P!Engaged, P!Through
<1> QED BY <1>1, <1>2 DEF P!Next

\* The invariant holds in every reachable state: of the threads that have come
\* to a lock of the array, the last is still there, and at most N - l have come
\* to lock l.
THEOREM PetersonInvariance == ASSUME P!Assumption PROVE P!Spec => []P!IInv
BY PetersonInit, PetersonNext, PTL DEF P!Spec

\* Peterson's lock is exclusive for any number of threads, although a thread
\* reads the flags of the others one at a time (rwreg.tex:256) while they change.
THEOREM PetersonAlone == ASSUME P!Assumption PROVE P!Spec => []P!PetersonExclusion
BY InsideAlone, PetersonInvariance, PTL

-----------------------------------------------------------------------------
(* The three locks of MCLocks.                                             *)

\* Each of them does what its own specification says, whoever moves.
LEMMA Beside == AllSpec => Spec /\ P!Spec /\ Demo!Spec
<1>1. AllInit => Init /\ P!Init /\ Demo!Init
  BY DEF AllInit
<1>2. [AllNext]_allVars =>
        /\ [Next]_vars /\ [P!Next]_(P!vars)
        /\ [Demo!Next]_(Demo!vars)
  BY DEF AllNext, allVars, petersonVars, mutexVars, vars, P!vars,
         Demo!vars, Demo!schedVars, Demo!mutexVars
<1> QED BY <1>1, <1>2, PTL DEF AllSpec, Spec, P!Spec, Demo!Spec

\* Peterson's lock is exclusive for any number of threads (rwreg.tex).
THEOREM PetersonCorrect == AllSpec => []PetersonExclusion
<1>1. P!Assumption
  BY InstanceAssumption
<1>2. P!Spec => []P!PetersonExclusion
  BY <1>1, PetersonAlone
<1>3. P!Spec => []P!IInv
  BY <1>1, PetersonInvariance
<1>4. P!PetersonExclusion /\ P!IInv => PetersonExclusion
  BY DEF PetersonExclusion
<1> QED BY <1>2, <1>3, <1>4, Beside, PTL

\* What the proofs about the mutex assume of its constants.
LEMMA DemoAssumptions ==
  /\ Demo!Assumption
  /\ idle \in Thread \cup {idle}
  /\ Thread \cup {idle} \subseteq Thread \cup {idle}
  /\ TIMESLICE \in Nat \ {0}
  /\ NoThread \notin Thread \cup {idle}
BY InstanceAssumption DEF Demo!Assumption

\* The scheduler's queues and the mutex's list of waiters are what every step
\* relies on (src/threads.c, src/mutex.c).
THEOREM MutexWellFormed == AllSpec => []WellFormed
<1>1. Demo!Spec => []Demo!WellFormed
  BY DemoAssumptions, Demo!WellFormedCorrect
<1>2. Demo!WellFormed => WellFormed
  BY DEF WellFormed
<1> QED BY <1>1, <1>2, Beside, PTL

\* The mutex has one owner at most, and mutex->owner names it (src/mutex.c).
THEOREM MutexExclusive == AllSpec => []MutualExclusion
<1>1. Demo!Spec => []Demo!MutualExclusion
  BY DemoAssumptions, Demo!MutexCorrect
<1>2. Demo!MutualExclusion => MutualExclusion
  BY DEF MutualExclusion
<1> QED BY <1>1, <1>2, Beside, PTL

\* A thread sleeps in the mutex only where somebody will wake it.
THEOREM MutexWakes == AllSpec => []NoLostWakeup
<1>1. Demo!Spec => []Demo!NoLostWakeup
  BY DemoAssumptions, Demo!WakeupCorrect
<1>2. Demo!NoLostWakeup => NoLostWakeup
  BY DEF NoLostWakeup
<1> QED BY <1>1, <1>2, Beside, PTL

\* mutex.c implements a lock handed over in the order of arrival.
THEOREM MutexImplements == AllSpec => ImplementsLock
<1>1. Demo!Spec => Demo!ImplementsLock
  BY DemoAssumptions, Demo!Refinement
<1> QED BY <1>1, Beside, PTL DEF ImplementsLock
=============================================================================
