----------------------------- MODULE PartsProofs -----------------------------
(***************************************************************************)
(* Safety of the components of Parts: of the producer-consumer example,    *)
(* for any number of items; of the slab allocator, for any sizes, number   *)
(* of blocks and callers; of memory at boot, for any memory map.           *)
(***************************************************************************)
EXTENDS Parts, SeqLemmas

-----------------------------------------------------------------------------
(* The producer-consumer example.                                          *)

LEMMA ExampleInit == ASSUME Example!Assumption, Example!Init PROVE Example!IInv
<1> USE DEF Example!Init, Example!Process, Example!Nobody
<1>1. Example!TypeOK
  <2>1. /\ produced \in Seq(Item) /\ consumed \in Seq(Item)
        /\ Len(produced) <= ITEMS
    BY EmptyQueue DEF Example!Assumption
  <2>2. valid_value \in BOOLEAN /\ ended \in BOOLEAN /\ got \in BOOLEAN
    OBVIOUS
  <2>3. /\ Example!InHand = << >> /\ Example!InSlot = << >>
        /\ Example!ToPut = << >>
    BY DEF Example!InHand, Example!InSlot, Example!ToPut
  <2> QED BY <2>1, <2>2, <2>3, EmptyQueue DEF Example!TypeOK
<1>2. Example!Conservation
  BY DEF Example!Conservation, Example!InHand, Example!InSlot, Example!ToPut
<1>3. Example!WaitsForSomething /\ Example!PlaceOK /\ Example!DoneOK
  BY DEF Example!WaitsForSomething, Example!PlaceOK, Example!DoneOK
<1> QED BY <1>1, <1>2, <1>3 DEF Example!IInv, Example!WellFormed

\* A thread takes or gives back the lock, waits, or is done with its items:
\* nothing moves that is on its way.
LEMMA ExampleMove ==
  ASSUME Example!IInv,
         \/ Example!Lock("producer", "lock", "test")
         \/ valid_value /\ Example!Wait("producer", "test", "wait")
         \/ Example!WaitEnd("producer", "wait", "test")
         \/ Example!Unlock("producer", "unlock", "loop")
         \/ Example!LastItem
         \/ Example!Lock("producer", "finish", "set_done")
         \/ Example!Unlock("producer", "finish_unlock", "end")
         \/ Example!Lock("consumer", "loop", "test")
         \/ ~valid_value /\ ~ended /\ Example!Wait("consumer", "test", "wait")
         \/ Example!WaitEnd("consumer", "wait", "test")
         \/ Example!GetNothing
         \/ Example!Unlock("consumer", "unlock", "return")
         \/ Example!Stop
         \/ \E p \in Example!Process : Example!Spurious(p)
  PROVE  Example!IInv'
<1> USE DEF Example!Process, Example!Nobody, Example!IInv, Example!WellFormed,
            Example!Lock, Example!WaitEnd, Example!Unlock, Example!Wait,
            Example!LastItem, Example!Stop, Example!GetNothing,
            Example!Spurious, Example!Move, Example!shared, Example!TypeOK
<1>1. /\ UNCHANGED <<value, valid_value, ended, taken, produced, consumed>>
      /\ waiting' \subseteq Example!Process
      /\ mtx' \in Example!Process \cup {Example!Nobody}
      /\ got' \in BOOLEAN
  OBVIOUS
<1>2. where' \in [Example!Process -> {"loop", "lock", "test", "wait", "unlock",
              "return", "finish", "set_done", "finish_unlock", "end"}]
  OBVIOUS
<1>3. UNCHANGED <<Example!InHand, Example!InSlot, Example!ToPut>>
  BY DEF Example!InHand, Example!InSlot, Example!ToPut
<1>4. Example!TypeOK'
  BY <1>1, <1>2, <1>3
<1>5. Example!Conservation'
  BY <1>1, <1>3 DEF Example!Conservation
<1>6. Example!WaitsForSomething'
  BY DEF Example!WaitsForSomething
<1>7. Example!PlaceOK'
  BY DEF Example!PlaceOK
<1>8. Example!DoneOK'
  BY DEF Example!DoneOK, Example!PlaceOK
<1> QED BY <1>4, <1>5, <1>6, <1>7, <1>8

\* The steps in which an item moves on, or the last has.
LEMMA ExampleItem ==
  ASSUME Example!Assumption, Example!IInv,
         \/ Example!MakeItem \/ Example!Put \/ Example!Finish
         \/ Example!Get \/ Example!PrintItem
  PROVE  Example!IInv'
<1> USE DEF Example!Process, Example!Nobody, Example!IInv, Example!WellFormed,
            Example!Move, Example!shared, Example!TypeOK, Example!InHand,
            Example!InSlot, Example!ToPut, Example!NotifyOne,
            Example!NotifyAll
<1> DEFINE Printed == consumed \o Example!InHand
           Got == Printed \o Example!InSlot
<1>a. /\ \A s \in Seq(Item) : s \o << >> = s
      /\ \A s \in Seq(Item), i \in Item : /\ s \o <<i>> = Append(s, i)
                                          /\ Append(s, i) \in Seq(Item)
                                          /\ Len(Append(s, i)) = Len(s) + 1
  BY ConcatEmptySeq, AppendIsConcat, AppendProperties
<1>b. \A i : <<i>> \in Seq(Item) <=> i \in Item
  OBVIOUS
<1>c. Printed \in Seq(Item) /\ Got \in Seq(Item) /\ produced = Got \o Example!ToPut
  BY ConcatProperties DEF Example!Conservation
<1>1. CASE Example!MakeItem
  <2> USE <1>1 DEF Example!MakeItem
  <2>1. PICK i \in Item : /\ taken' = [taken EXCEPT !["producer"] = i]
                          /\ produced' = Append(produced, i)
    OBVIOUS
  <2>2. Example!TypeOK'
    BY <1>a, <2>1 DEF Example!Assumption
  <2>3. Example!Conservation'
    <3>1. produced = Got /\ Example!ToPut' = <<i>> /\ Got' = Got
      BY <1>a, <1>c, <2>1
    <3> HIDE DEF Got, Example!ToPut
    <3>2. produced' = Got' \o Example!ToPut'
      BY <1>a, <1>c, <2>1, <3>1
    <3> QED BY <3>2 DEF Example!Conservation, Got
  <2>4. Example!WaitsForSomething' /\ Example!PlaceOK' /\ Example!DoneOK'
    BY DEF Example!WaitsForSomething, Example!PlaceOK, Example!DoneOK
  <2> QED BY <2>2, <2>3, <2>4
<1>2. CASE Example!Put
  <2> USE <1>2 DEF Example!Put
  <2>1. Example!TypeOK'
    BY <1>a, <1>b
  <2>2. Example!Conservation'
    <3>1. /\ Example!InSlot = << >> /\ Example!ToPut' = << >>
          /\ Example!InSlot' = Example!ToPut /\ Printed' = Printed
          /\ produced' = produced
      OBVIOUS
    <3>2. Example!ToPut \in Seq(Item)
      OBVIOUS
    <3> HIDE DEF Printed, Example!InSlot, Example!ToPut
    <3>3. produced = Printed \o Example!ToPut
      BY <1>a, <1>c, <3>1
    <3>4. Printed \o Example!ToPut \in Seq(Item)
      BY <1>c, <3>2, ConcatProperties
    <3> QED BY <1>a, <3>1, <3>3, <3>4 DEF Example!Conservation, Printed
  <2>3. Example!WaitsForSomething' /\ Example!PlaceOK' /\ Example!DoneOK'
    BY DEF Example!WaitsForSomething, Example!PlaceOK, Example!DoneOK
  <2> QED BY <2>1, <2>2, <2>3
<1>3. CASE Example!Finish
  <2> USE <1>3 DEF Example!Finish
  <2>1. Example!TypeOK'
    BY <1>a, <1>b
  <2>2. Example!Conservation'
    BY <1>a, <1>b DEF Example!Conservation
  <2>3. Example!WaitsForSomething' /\ Example!PlaceOK' /\ Example!DoneOK'
    BY DEF Example!WaitsForSomething, Example!PlaceOK, Example!DoneOK
  <2> QED BY <2>1, <2>2, <2>3
<1>4. CASE Example!Get
  <2> USE <1>4 DEF Example!Get
  <2>1. Example!TypeOK'
    BY <1>a, <1>b
  <2>2. Example!Conservation'
    <3>1. /\ Example!InHand = << >> /\ Example!InSlot' = << >>
          /\ Example!InHand' = Example!InSlot
          /\ UNCHANGED <<produced, consumed, Example!ToPut>>
      OBVIOUS
    <3> HIDE DEF Example!InHand, Example!InSlot, Example!ToPut
    <3>2. Printed = consumed /\ Got' = Got
      BY <1>a, <1>c, <3>1
    <3> QED BY <1>c, <3>1, <3>2 DEF Example!Conservation
  <2>3. Example!WaitsForSomething' /\ Example!PlaceOK' /\ Example!DoneOK'
    BY DEF Example!WaitsForSomething, Example!PlaceOK, Example!DoneOK
  <2> QED BY <2>1, <2>2, <2>3
<1>5. CASE Example!PrintItem
  <2> USE <1>5 DEF Example!PrintItem
  <2>1. Example!TypeOK'
    BY <1>a, <1>b
  <2>2. Example!Conservation'
    <3>1. /\ Example!InHand = <<taken["consumer"]>> /\ Example!InHand' = << >>
          /\ taken["consumer"] \in Item /\ consumed' = Append(consumed, taken["consumer"])
          /\ consumed \in Seq(Item)
          /\ UNCHANGED <<produced, Example!InSlot, Example!ToPut>>
      BY <1>b
    <3> HIDE DEF Example!InHand, Example!InSlot, Example!ToPut
    <3>2. Printed' = Printed
      <4>1. Printed = Append(consumed, taken["consumer"])
        BY <1>a, <3>1
      <4>2. consumed' \in Seq(Item)
        BY <1>a, <3>1
      <4> QED BY <1>a, <3>1, <4>1, <4>2
    <3> QED BY <1>c, <3>1, <3>2 DEF Example!Conservation
  <2>3. Example!WaitsForSomething' /\ Example!PlaceOK' /\ Example!DoneOK'
    BY DEF Example!WaitsForSomething, Example!PlaceOK, Example!DoneOK
  <2> QED BY <2>1, <2>2, <2>3
<1> QED BY <1>1, <1>2, <1>3, <1>4, <1>5

\* When the consumer stops, nothing is on its way any more.
LEMMA ExampleStops == ASSUME Example!IInv PROVE Example!ExampleConserves
<1> USE DEF Example!IInv, Example!WellFormed
<1>1. ASSUME where["consumer"] = "end"
      PROVE  /\ Example!InHand = << >> /\ Example!InSlot = << >>
             /\ Example!ToPut = << >> /\ ended /\ Len(produced) = ITEMS
  BY <1>1 DEF Example!DoneOK, Example!InHand, Example!InSlot, Example!ToPut
<1>2. consumed \in Seq(Item)
  BY DEF Example!TypeOK
<1>3. ASSUME where["consumer"] = "end"
      PROVE  produced = consumed
  BY <1>1, <1>2, <1>3, ConcatEmptySeq DEF Example!Conservation
<1> QED BY <1>1, <1>3 DEF Example!ExampleConserves, Example!StopsAfterLast

\* However the two threads interleave, and though a wait may end spuriously and
\* one condition serves both, no item of the example is lost, duplicated or
\* overtaken, and the consumer stops only after the last
\* (week4/sync/producer-consumer/example.cpp).
THEOREM ExampleCorrect == Example!Spec => []ExampleConserves
<1>0. Example!Assumption
  BY PartsAssumption
<1>1. ASSUME Example!IInv, [Example!Next]_(Example!vars) PROVE Example!IInv'
  <2>1. CASE UNCHANGED Example!vars
    <3> USE <1>1, <2>1 DEF Example!vars, Example!shared, Example!IInv,
                           Example!WellFormed
    <3>1. /\ Example!InHand' = Example!InHand /\ Example!InSlot' = Example!InSlot
          /\ Example!ToPut' = Example!ToPut
      BY DEF Example!InHand, Example!InSlot, Example!ToPut
    <3>2. Example!TypeOK'
      BY <3>1 DEF Example!TypeOK
    <3>3. Example!Conservation'
      BY <3>1 DEF Example!Conservation
    <3>4. Example!WaitsForSomething' /\ Example!PlaceOK' /\ Example!DoneOK'
      BY DEF Example!WaitsForSomething, Example!PlaceOK, Example!DoneOK
    <3> QED BY <3>2, <3>3, <3>4
  <2>2. CASE Example!Next
    BY <1>0, <1>1, <2>1, <2>2, ExampleMove, ExampleItem
    DEF Example!Next, Example!Producer, Example!Consumer, Example!Joined
  <2> QED BY <1>1, <2>1, <2>2
<1>2. Example!Init => Example!IInv
  BY <1>0, ExampleInit
<1>3. Example!IInv => ExampleConserves
  BY <1>0, ExampleStops DEF ExampleConserves
<1> QED BY <1>1, <1>2, <1>3, PTL DEF Example!Spec

-----------------------------------------------------------------------------
(* A cache of the slab allocator.                                          *)

\* The operators of the library are the same in the instance.
LEMMA SlabQueue ==
  \A s : /\ Slab!ToSet(s) = ToSet(s)
         /\ Slab!IsInjective(s) <=> IsInjective(s)
         /\ \A i : Slab!RemoveAt(s, i) = RemoveAt(s, i)
BY DEF Slab!ToSet, ToSet, Slab!IsInjective, IsInjective, Slab!RemoveAt, RemoveAt

\* A block of any order is more than the descriptor of a slab.
LEMMA SlabBytes ==
  ASSUME Slab!Assumption, NEW o \in 0..MAX_ORDER
  PROVE  SLAB_PAGE * 2^o \in Nat /\ SLAB_PAGE * 2^o - META \in Nat \ {0}
<1>1. /\ SLAB_PAGE \in Nat /\ META \in Nat /\ META < SLAB_PAGE
      /\ MAX_ORDER \in Nat /\ 2^o > 0
  BY DEF Slab!Assumption
<1>2. 2^o \in Int
  BY <1>1
<1> DEFINE n == 2^o
<1>3. n \in Nat \ {0}
  BY <1>1, <1>2
<1> HIDE DEF n
<1>4. SLAB_PAGE * n >= SLAB_PAGE /\ SLAB_PAGE * n \in Nat
  BY <1>1, <1>3
<1> QED BY <1>1, <1>4 DEF n

\* slab_align_up does not make anything smaller.
LEMMA SlabAlign ==
  ASSUME NEW x \in Nat \ {0}, NEW a \in Nat \ {0}
  PROVE  Slab!AlignUp(x, a) \in Nat \ {0} /\ Slab!AlignUp(x, a) >= x
<1> DEFINE y == x + a - 1
<1>1. y \in Nat /\ y % a \in 0..a - 1
  OBVIOUS
<1>2. y - (y % a) >= x
  BY <1>1
<1> HIDE DEF y
<1>3. y - (y % a) \in Int
  BY <1>1
<1> QED BY <1>2, <1>3 DEF Slab!AlignUp, y

\* __slab_cache_setup: the objects are in front of the descriptor.
LEMMA SlabSetup ==
  ASSUME Slab!Assumption, NEW size \in Sizes, NEW align \in Aligns,
         cache = Slab!Setup(size, align)
  PROVE  /\ cache \in [order : 0..MAX_ORDER + 1, size : Nat, obj : Nat \ {0}]
         /\ cache.order <= MAX_ORDER =>
              cache.size # 0 /\ cache.size * cache.obj + META <= Slab!Bytes
<1> DEFINE obj == Slab!AlignUp(IF size < LINK THEN LINK ELSE size, align)
           good == {o \in 0..MAX_ORDER :
                      Slab!BytesFor(o) \div obj >= MAX_ORDER}
           order == IF good = {} THEN MAX_ORDER + 1
                    ELSE CHOOSE o \in good : \A p \in good : o <= p
           last == IF good = {} THEN MAX_ORDER ELSE order
           n == Slab!BytesFor(last)
<1>1. cache = [order |-> order, size |-> n \div obj, obj |-> obj]
  BY DEF Slab!Setup
<1>2. MAX_ORDER \in Nat \ {0} /\ META \in Nat
  BY DEF Slab!Assumption
<1>3. obj \in Nat \ {0}
  <2>1. size \in Nat \ {0} /\ align \in Nat \ {0} /\ LINK \in Nat \ {0}
    BY DEF Slab!Assumption
  <2> QED BY <2>1, SlabAlign
<1>4. good # {} => order \in good
  <2>1. good \in SUBSET Nat
    BY <1>2
  <2> HIDE DEF good
  <2>2. good # {} => \E o \in good : \A p \in good : o <= p
    BY <2>1, Least
  <2> QED BY <2>2
<1>5. last \in 0..MAX_ORDER /\ order \in 0..MAX_ORDER + 1
  BY <1>2, <1>4
<1>6. order <= MAX_ORDER => last = order /\ order \in good
  BY <1>2, <1>4
<1>7. \A o \in 0..MAX_ORDER : Slab!BytesFor(o) \in Nat \ {0}
  BY SlabBytes DEF Slab!BytesFor
<1>8. n \in Nat \ {0}
  BY <1>5, <1>7
<1>9. order <= MAX_ORDER => n \div obj >= MAX_ORDER
  BY <1>6
<1> HIDE DEF obj, good, order, last, n
<1>10. n \div obj \in Nat /\ (n \div obj) * obj <= n
  BY <1>3, <1>8
<1>11. /\ cache \in [order : 0..MAX_ORDER + 1, size : Nat, obj : Nat \ {0}]
       /\ cache.order = order /\ cache.size = n \div obj /\ cache.obj = obj
  BY <1>1, <1>3, <1>5, <1>10
<1>12. ASSUME order <= MAX_ORDER
       PROVE  n = Slab!Bytes - META /\ Slab!Bytes \in Nat
  <2>1. n = Slab!BytesFor(order)
    BY <1>6, <1>12 DEF n
  <2>2. order \in 0..MAX_ORDER
    BY <1>5, <1>12, <1>2
  <2> QED BY <2>1, <2>2, <1>11, SlabBytes DEF Slab!BytesFor, Slab!Bytes
<1>13. ASSUME order <= MAX_ORDER
       PROVE  (n \div obj) * obj + META <= Slab!Bytes
  <2> DEFINE m == (n \div obj) * obj
  <2>1. m \in Int /\ m <= n
    BY <1>3, <1>10
  <2> HIDE DEF m
  <2>2. m + META <= Slab!Bytes
    BY <2>1, <1>2, <1>8, <1>12, <1>13
  <2> QED BY <2>2 DEF m
<1>14. order <= MAX_ORDER => n \div obj # 0
  BY <1>2, <1>9, <1>10
<1> QED BY <1>11, <1>13, <1>14

\* Objects are in their slab, and one behind the other.
LEMMA SlabObjects ==
  ASSUME Slab!Assumption, Slab!TypeOK, Slab!CacheOK,
         cache.order <= MAX_ORDER, NEW b \in Slab!Block
  PROVE  /\ \A x \in Slab!Objects(b) :
              /\ x \in Nat /\ Slab!SlabOf(x) = b
              /\ x >= Slab!Base(b)
              /\ x + cache.obj <= Slab!Base(b) + Slab!Bytes - META
              /\ \A y \in Slab!Objects(b) : x < y => x + cache.obj <= y
         /\ \A i, j \in 0..cache.size - 1 :
              Slab!Base(b) + i * cache.obj = Slab!Base(b) + j * cache.obj
                => i = j
<1> DEFINE B == Slab!Bytes
           o == cache.obj
           n == cache.size
<1>1. /\ n \in Nat \ {0} /\ o \in Nat \ {0}
      /\ n * o + META <= B /\ META \in Nat \ {0}
      /\ b \in Nat \ {0}
  BY DEF Slab!Assumption, Slab!TypeOK, Slab!CacheOK, Slab!Block
<1>2. B \in Nat \ {0}
  <2>1. cache.order \in 0..MAX_ORDER
    BY DEF Slab!Assumption, Slab!TypeOK
  <2>2. SLAB_PAGE * 2^cache.order \in Nat
        /\ SLAB_PAGE * 2^cache.order - META \in Nat \ {0}
    BY <2>1, SlabBytes
  <2> QED BY <2>2, <1>1 DEF Slab!Bytes
<1> DEFINE Z == b * B
<1>3. Slab!Base(b) = Z /\ Z \in Nat
  BY <1>1, <1>2 DEF Slab!Base
<1>4. Slab!Objects(b) = {Z + k * o : k \in 0..n - 1}
  BY <1>3 DEF Slab!Objects
<1> HIDE DEF B, o, n
<1>5. ASSUME NEW k \in 0..n - 1
      PROVE  /\ k * o \in Nat
             /\ k * o + o + META <= B
             /\ (Z + k * o) \div B = b
  <2> DEFINE r == k * o
  <2>1. r \in Nat /\ r + o <= n * o
    BY <1>1
  <2>2. n * o \in Nat
    BY <1>1
  <2> HIDE DEF r
  <2>3. r + o + META <= B /\ r < B
    BY <2>1, <2>2, <1>1, <1>2
  <2>4. (b * B + r) \div B = b
    BY <2>1, <2>3, <1>1, <1>2
  <2> QED BY <2>1, <2>3, <2>4 DEF r
<1>6. \A k, l \in 0..n - 1 : k < l => k * o + o <= l * o
  BY <1>1
<1> HIDE DEF Z
<1>7. \A k \in 0..n - 1 : /\ Z + k * o \in Nat /\ (Z + k * o) \div B = b
                          /\ Z + k * o >= Z
                          /\ (Z + k * o) + o <= Z + B - META
  <2> TAKE k \in 0..n - 1
  <2> DEFINE r == k * o
  <2>1. r \in Nat /\ r + o + META <= B
    BY <1>5
  <2>2. (Z + r) \div B = b
    BY <1>5
  <2> HIDE DEF r
  <2>3. Z + r \in Nat /\ Z + r >= Z /\ (Z + r) + o <= Z + B - META
    BY <2>1, <1>1, <1>2, <1>3
  <2> QED BY <2>2, <2>3 DEF r
<1>8. ASSUME NEW k \in 0..n - 1, NEW l \in 0..n - 1
      PROVE  /\ Z + k * o < Z + l * o => (Z + k * o) + o <= Z + l * o
             /\ Z + k * o = Z + l * o => k = l
  <2> DEFINE r == k * o
             s == l * o
  <2>1. /\ r \in Nat /\ s \in Nat
        /\ k < l => r + o <= s
        /\ l < k => s + o <= r
        /\ k = l => r = s
    BY <1>5, <1>6
  <2> HIDE DEF r, s
  <2>2. /\ Z + r < Z + s => (Z + r) + o <= Z + s
        /\ Z + r = Z + s => k = l
    BY <2>1, <1>1, <1>3
  <2> QED BY <2>2 DEF r, s
<1>9. \A x : Slab!SlabOf(x) = x \div B
  BY DEF Slab!SlabOf, B
<1> QED BY <1>3, <1>4, <1>7, <1>8, <1>9 DEF B, o, n

\* slab_create: the free list of a new slab has all of its objects, each once.
LEMMA SlabNewList ==
  ASSUME Slab!Assumption, Slab!TypeOK, Slab!CacheOK,
         cache.order <= MAX_ORDER, NEW b \in Slab!Block
  PROVE  /\ Slab!NewList(b) \in Seq(Nat)
         /\ Len(Slab!NewList(b)) = cache.size
         /\ ToSet(Slab!NewList(b)) = Slab!Objects(b)
         /\ IsInjective(Slab!NewList(b))
<1> DEFINE q == Slab!NewList(b)
           n == cache.size
           At(k) == Slab!Base(b) + k * cache.obj
<1>1. n \in Nat
  BY DEF Slab!TypeOK
<1>2. /\ Slab!Objects(b) = {At(k) : k \in 0..n - 1}
      /\ q = [k \in 1..n |-> At(n - k)]
  BY DEF Slab!Objects, Slab!NewList
<1>3. /\ \A k \in 0..n - 1 : At(k) \in Nat
      /\ \A i, j \in 0..n - 1 : At(i) = At(j) => i = j
  <2>1. \A k \in 0..n - 1 : At(k) \in Slab!Objects(b)
    BY <1>2
  <2> QED BY <2>1, SlabObjects
<1> HIDE DEF q, n, At
<1>4. \A k \in 1..n : n - k \in 0..n - 1 /\ q[k] = At(n - k)
  BY <1>1, <1>2
<1>5. q \in [1..n -> Nat]
  BY <1>2, <1>3, <1>4
<1>6. q \in Seq(Nat) /\ Len(q) = n /\ DOMAIN q = 1..n
  BY <1>1, <1>5
<1>7. ToSet(q) = Slab!Objects(b)
  <2>1. \A k \in 0..n - 1 : n - k \in 1..n /\ n - (n - k) = k
    BY <1>1
  <2>2. ASSUME NEW x \in ToSet(q) PROVE x \in Slab!Objects(b)
    BY <2>2, <1>2, <1>4, <1>6 DEF ToSet
  <2>3. ASSUME NEW k \in 0..n - 1 PROVE At(k) \in ToSet(q)
    <3>1. n - k \in DOMAIN q /\ q[n - k] = At(k)
      BY <2>1, <1>4, <1>6
    <3> QED BY <3>1 DEF ToSet
  <2> QED BY <2>2, <2>3, <1>2
<1>8. IsInjective(q)
  <2> SUFFICES ASSUME NEW i \in 1..n, NEW j \in 1..n, q[i] = q[j]
               PROVE  i = j
    BY <1>6 DEF IsInjective
  <2>1. n - i = n - j
    BY <1>3, <1>4
  <2> QED BY <2>1, <1>1
<1> QED BY <1>6, <1>7, <1>8 DEF q, n

\* What the invariant says of the lists, each for itself.
LEMMA SlabLists ==
  ASSUME Slab!Assumption, Slab!IInv
  PROVE  /\ ToSet(Slab!Listed)
              = ToSet(full) \cup ToSet(partial) \cup ToSet(empty)
         /\ IsInjective(full) /\ IsInjective(partial) /\ IsInjective(empty)
         /\ ToSet(full) \cap ToSet(partial) = {}
         /\ ToSet(full) \cap ToSet(empty) = {}
         /\ ToSet(partial) \cap ToSet(empty) = {}
         /\ ToSet(Slab!Listed) \subseteq Slab!Block
         /\ Slab!Detached \subseteq Slab!Block
         /\ Slab!Listed = << >> <=> full = << >> /\ partial = << >>
                                    /\ empty = << >>
<1>1. /\ full \in Seq(Slab!Block) /\ partial \in Seq(Slab!Block)
      /\ empty \in Seq(Slab!Block)
  BY DEF Slab!IInv, Slab!WellFormed, Slab!TypeOK
<1>2. IsInjective(full \o partial \o empty)
  BY SlabQueue DEF Slab!IInv, Slab!WellFormed, Slab!ListsOK, Slab!Listed
<1>3. Slab!Detached \subseteq Slab!Block /\ ToSet(Slab!Listed) \subseteq Slab!Block
  BY SlabQueue DEF Slab!IInv, Slab!NoLeak
<1> QED BY <1>1, <1>2, <1>3, ThreeQueues DEF Slab!Listed

LEMMA SlabInit == ASSUME Slab!Assumption, Slab!Init PROVE Slab!IInv
<1> USE DEF Slab!Init
<1>1. /\ cache \in [order : 0..MAX_ORDER + 1, size : Nat, obj : Nat \ {0}]
      /\ cache.order <= MAX_ORDER =>
           cache.size # 0 /\ cache.size * cache.obj + META <= Slab!Bytes
  BY SlabSetup
<1>2. Slab!Listed = << >> /\ ToSet(Slab!Listed) = {} /\ IsInjective(Slab!Listed)
  <2>1. /\ full = << >> /\ partial = << >> /\ empty = << >>
        /\ << >> \in Seq(Slab!Block)
        /\ ToSet(<< >>) = {} /\ IsInjective(<< >>)
    BY EmptyQueue
  <2> QED BY <2>1, ThreeQueues DEF Slab!Listed
<1>3. Slab!Detached = {}
  BY SlabQueue, EmptyQueue DEF Slab!Detached
<1>4. Slab!TypeOK
  <2>1. {full, partial, empty} \subseteq Seq(Slab!Block)
    BY EmptyQueue
  <2>2. list \in [Slab!Block -> Seq(Nat)]
    BY EmptyQueue
  <2>3. detached \in [Proc -> Seq(Slab!Block)]
    BY EmptyQueue
  <2>4. count \in [Slab!Block -> 0..cache.size]
    BY <1>1
  <2> QED BY <1>1, <2>1, <2>2, <2>3, <2>4 DEF Slab!TypeOK
<1>5. Slab!ListsOK
  BY SlabQueue, <1>2, <1>3, EmptyQueue DEF Slab!ListsOK
<1>6. Slab!ObjectsOK
  BY SlabQueue, <1>2, <1>3 DEF Slab!ObjectsOK
<1>7. Slab!NoLeak
  BY SlabQueue, <1>2, <1>3, EmptyQueue DEF Slab!NoLeak
<1>8. Slab!CacheOK
  BY <1>1, <1>2, <1>3 DEF Slab!CacheOK
<1>9. Slab!ShrinkOK
  BY SlabQueue, EmptyQueue DEF Slab!ShrinkOK
<1> QED BY <1>4, <1>5, <1>6, <1>7, <1>8, <1>9 DEF Slab!IInv, Slab!WellFormed

\* The lists after a step.
LEMMA SlabNewLists ==
  ASSUME full' \in Seq(Slab!Block), partial' \in Seq(Slab!Block),
         empty' \in Seq(Slab!Block),
         IsInjective(full'), IsInjective(partial'), IsInjective(empty'),
         ToSet(full') \cap ToSet(partial') = {},
         ToSet(full') \cap ToSet(empty') = {},
         ToSet(partial') \cap ToSet(empty') = {}
  PROVE  /\ ToSet(Slab!Listed')
              = ToSet(full') \cup ToSet(partial') \cup ToSet(empty')
         /\ IsInjective(Slab!Listed')
<1>1. Slab!Listed' = full' \o partial' \o empty'
  BY DEF Slab!Listed
<1>2. ToSet(full' \o partial' \o empty')
        = ToSet(full') \cup ToSet(partial') \cup ToSet(empty')
  BY ThreeQueues
<1>3. IsInjective(full' \o partial' \o empty')
  BY ThreeQueues
<1> QED BY <1>1, <1>2, <1>3

\* slab_alloc: an object leaves the free list of slab b, and the slab goes to
\* the list that fits.  The slab is taken from where it was: part and emp are
\* the lists without it.
LEMMA SlabTake ==
  ASSUME Slab!Assumption, Slab!IInv, cache.order <= MAX_ORDER,
         NEW b \in Slab!Block, NEW objects \in Seq(Nat),
         NEW part \in Seq(Slab!Block), NEW emp \in Seq(Slab!Block),
         objects # << >>, IsInjective(objects), Len(objects) <= cache.size,
         ToSet(objects) = Slab!Objects(b) \ busy,
         b \notin ToSet(full) \cup Slab!Detached,
         IsInjective(part), ToSet(part) = ToSet(partial) \ {b},
         IsInjective(emp), ToSet(emp) = ToSet(empty) \ {b},
         pool' = pool \ {b},
         Slab!Take(b, objects, part, emp), UNCHANGED <<cache, place, detached>>
  PROVE  Slab!IInv'
<1> DEFINE left == Len(objects) - 1
<1>1. /\ Tail(objects) \in Seq(Nat) /\ Len(Tail(objects)) = left
      /\ IsInjective(Tail(objects))
      /\ ToSet(Tail(objects)) = Slab!Objects(b) \ (busy \cup {Head(objects)})
      /\ Head(objects) \in Slab!Objects(b)
      /\ left \in 0..cache.size - 1
  <2>1. /\ Len(objects) \in Nat \ {0} /\ cache.size \in Nat
        /\ Len(Tail(objects)) = left
    BY EmptySeq DEF Slab!IInv, Slab!WellFormed, Slab!TypeOK
  <2>2. left \in 0..cache.size - 1
    BY <2>1
  <2> QED BY <2>1, <2>2, TailQueue
<1>2. /\ full \in Seq(Slab!Block) /\ partial \in Seq(Slab!Block)
      /\ empty \in Seq(Slab!Block) /\ list \in [Slab!Block -> Seq(Nat)]
      /\ count \in [Slab!Block -> 0..cache.size] /\ cache.size \in Nat
  BY DEF Slab!IInv, Slab!WellFormed, Slab!TypeOK
<1>3. /\ busy' = busy \cup {Head(objects)}
      /\ list' = [list EXCEPT ![b] = Tail(objects)]
      /\ count' = [count EXCEPT ![b] = left]
      /\ empty' = emp
      /\ left # 0 => partial' = <<b>> \o part /\ full' = full
      /\ left = 0 => partial' = part /\ full' = <<b>> \o full
  BY DEF Slab!Take
<1> HIDE DEF left
<1>4. /\ full' \in Seq(Slab!Block) /\ IsInjective(full')
      /\ ToSet(full') = IF left = 0 THEN ToSet(full) \cup {b} ELSE ToSet(full)
      /\ partial' \in Seq(Slab!Block) /\ IsInjective(partial')
      /\ ToSet(partial') = IF left = 0 THEN ToSet(part) ELSE ToSet(part) \cup {b}
      /\ empty' \in Seq(Slab!Block) /\ IsInjective(empty')
      /\ ToSet(empty') = ToSet(emp)
  <2>1. IsInjective(full) /\ IsInjective(partial)
    BY SlabLists
  <2>2. CASE left = 0
    <3>1. /\ <<b>> \o full \in Seq(Slab!Block)
          /\ ToSet(<<b>> \o full) = ToSet(full) \cup {b}
          /\ IsInjective(<<b>> \o full)
      BY <1>2, <2>1, PrependQueue
    <3> QED BY <1>3, <2>2, <3>1
  <2>3. CASE left # 0
    <3>1. /\ <<b>> \o part \in Seq(Slab!Block)
          /\ ToSet(<<b>> \o part) = ToSet(part) \cup {b}
          /\ IsInjective(<<b>> \o part)
      BY PrependQueue
    <3> QED BY <1>2, <1>3, <2>1, <2>3, <3>1
  <2> QED BY <2>2, <2>3
<1>5. /\ ToSet(Slab!Listed') = ToSet(Slab!Listed) \cup {b}
      /\ IsInjective(Slab!Listed')
  <2>1. /\ ToSet(full') \cap ToSet(partial') = {}
        /\ ToSet(full') \cap ToSet(empty') = {}
        /\ ToSet(partial') \cap ToSet(empty') = {}
    BY <1>4, SlabLists
  <2>2. /\ ToSet(Slab!Listed')
             = ToSet(full') \cup ToSet(partial') \cup ToSet(empty')
        /\ IsInjective(Slab!Listed')
    BY <1>4, <2>1, SlabNewLists
  <2> QED BY <1>4, <2>2, SlabLists
<1>6. /\ Slab!Detached' = Slab!Detached
      /\ \A s : Slab!Objects(s)' = Slab!Objects(s)
  BY DEF Slab!Detached, Slab!Objects, Slab!Base, Slab!Bytes
<1>7. Slab!TypeOK'
  <2>1. list' \in [Slab!Block -> Seq(Nat)]
    BY <1>1, <1>2, <1>3
  <2>2. left \in 0..cache.size
    BY <1>1, <1>2
  <2>3. count' \in [Slab!Block -> 0..cache'.size]
    BY <1>2, <1>3, <2>2
  <2> QED BY <1>4, <2>1, <2>3 DEF Slab!TypeOK, Slab!IInv, Slab!WellFormed,
                                  Slab!Block
<1>8. Slab!ListsOK'
  <2>1. /\ \A s \in ToSet(full) : count[s] = 0
        /\ \A s \in ToSet(partial) : count[s] \in 1..cache.size - 1
        /\ \A s \in ToSet(empty) \cup Slab!Detached : count[s] = cache.size
    BY SlabQueue DEF Slab!IInv, Slab!WellFormed, Slab!ListsOK
  <2>2. count'[b] = left /\ \A s \in Slab!Block \ {b} : count'[s] = count[s]
    BY <1>2, <1>3
  <2>3. ToSet(full) \cup ToSet(partial) \cup ToSet(empty) \cup Slab!Detached
          \subseteq Slab!Block
    BY SlabLists
  <2>4. \A s \in ToSet(full') : count'[s] = 0
    BY <1>4, <2>1, <2>2, <2>3
  <2>5. \A s \in ToSet(partial') : count'[s] \in 1..cache'.size - 1
    <3>1. left # 0 => left \in 1..cache.size - 1
      BY <1>1, <1>2
    <3> QED BY <1>4, <2>1, <2>2, <2>3, <3>1
  <2>6. \A s \in ToSet(empty') \cup Slab!Detached' : count'[s] = cache'.size
    BY <1>4, <1>6, <2>1, <2>2, <2>3
  <2> QED BY <1>5, <2>4, <2>5, <2>6, SlabQueue DEF Slab!ListsOK
<1>9. Slab!ObjectsOK'
  <2>1. ASSUME NEW s \in ToSet(Slab!Listed') \cup Slab!Detached'
        PROVE  /\ count'[s] = Len(list'[s]) /\ IsInjective(list'[s])
               /\ ToSet(list'[s]) = Slab!Objects(s)' \ busy'
    <3>1. CASE s = b
      BY <1>1, <1>2, <1>3, <1>6, <3>1
    <3>2. CASE s # b
      <4>1. s \in ToSet(Slab!Listed) \cup Slab!Detached /\ s \in Slab!Block
        BY <1>5, <1>6, <2>1, <3>2, SlabLists
      <4>2. /\ count[s] = Len(list[s]) /\ IsInjective(list[s])
            /\ ToSet(list[s]) = Slab!Objects(s) \ busy
        BY <4>1, SlabQueue DEF Slab!IInv, Slab!ObjectsOK
      <4>3. Head(objects) \notin Slab!Objects(s)
        BY <1>1, <3>2, <4>1, SlabObjects DEF Slab!IInv, Slab!WellFormed
      <4>4. list'[s] = list[s] /\ count'[s] = count[s]
        BY <1>2, <1>3, <3>2, <4>1
      <4> QED BY <1>3, <1>6, <4>2, <4>3, <4>4
    <3> QED BY <3>1, <3>2
  <2>2. busy' \subseteq UNION {Slab!Objects(s)' :
                                 s \in ToSet(full') \cup ToSet(partial')}
    <3>1. busy \subseteq UNION {Slab!Objects(s) :
                                  s \in ToSet(full) \cup ToSet(partial)}
      BY SlabQueue DEF Slab!IInv, Slab!ObjectsOK
    <3>2. ToSet(full) \cup ToSet(partial) \cup {b}
            = ToSet(full') \cup ToSet(partial')
      BY <1>4
    <3> QED BY <1>1, <1>3, <1>6, <3>1, <3>2
  <2> QED BY <2>1, <2>2, SlabQueue DEF Slab!ObjectsOK
<1>10. Slab!NoLeak'
  <2>1. /\ pool \cup ToSet(Slab!Listed) \cup Slab!Detached = Slab!Block
        /\ pool \cap (ToSet(Slab!Listed) \cup Slab!Detached) = {}
        /\ ToSet(Slab!Listed) \cap Slab!Detached = {}
        /\ \A c, d \in Proc :
             c # d => ToSet(detached[c]) \cap ToSet(detached[d]) = {}
    BY SlabQueue DEF Slab!IInv, Slab!NoLeak
  <2>2. /\ pool' = pool \ {b} /\ b \notin Slab!Detached
        /\ detached' = detached /\ Slab!Block' = Slab!Block
    BY DEF Slab!Block
  <2>3. /\ ToSet(Slab!Listed') = ToSet(Slab!Listed) \cup {b}
        /\ Slab!Detached' = Slab!Detached
    BY <1>5, <1>6
  <2>4. /\ pool' \cup ToSet(Slab!Listed') \cup Slab!Detached' = Slab!Block'
        /\ pool' \cap (ToSet(Slab!Listed') \cup Slab!Detached') = {}
        /\ ToSet(Slab!Listed') \cap Slab!Detached' = {}
    BY <2>1, <2>2, <2>3
  <2>5. \A c, d \in Proc :
          c # d => ToSet(detached'[c]) \cap ToSet(detached'[d]) = {}
    BY <2>1, <2>2
  <2> QED BY <2>4, <2>5, SlabQueue DEF Slab!NoLeak
<1>11. Slab!CacheOK'
  BY DEF Slab!IInv, Slab!CacheOK, Slab!Bytes
<1>12. Slab!ShrinkOK'
  BY SlabQueue DEF Slab!IInv, Slab!ShrinkOK
<1> QED BY <1>7, <1>8, <1>9, <1>10, <1>11, <1>12 DEF Slab!IInv, Slab!WellFormed

\* An object of a slab in use is of that slab alone, and only a cache whose
\* slabs have an order of the buddy allocator has any.
LEMMA SlabOwn ==
  ASSUME Slab!Assumption, Slab!IInv
  PROVE  /\ Slab!Listed # << >> \/ Slab!Detached # {}
              => cache.order <= MAX_ORDER /\ cache.size # 0
         /\ \A addr \in busy :
              /\ cache.order <= MAX_ORDER
              /\ Slab!SlabOf(addr) \in ToSet(full) \cup ToSet(partial)
              /\ addr \in Slab!Objects(Slab!SlabOf(addr))
<1>1. Slab!Listed # << >> \/ Slab!Detached # {}
        => cache.order <= MAX_ORDER /\ cache.size # 0
  BY DEF Slab!IInv, Slab!CacheOK
<1>2. ASSUME NEW addr \in busy
      PROVE  /\ cache.order <= MAX_ORDER
             /\ Slab!SlabOf(addr) \in ToSet(full) \cup ToSet(partial)
             /\ addr \in Slab!Objects(Slab!SlabOf(addr))
  <2>1. PICK b \in ToSet(full) \cup ToSet(partial) : addr \in Slab!Objects(b)
    BY <1>2, SlabQueue DEF Slab!IInv, Slab!ObjectsOK
  <2>2. Slab!Listed # << >> /\ b \in Slab!Block
    BY <2>1, SlabLists, EmptyQueue
  <2>3. Slab!SlabOf(addr) = b
    BY <1>1, <2>1, <2>2, SlabObjects DEF Slab!IInv, Slab!WellFormed
  <2> QED BY <1>1, <2>1, <2>2, <2>3
<1> QED BY <1>1, <1>2

LEMMA SlabAllocPartial ==
  ASSUME Slab!Assumption, Slab!IInv, Slab!AllocPartial
  PROVE  Slab!IInv'
<1> DEFINE b == Head(partial)
<1>1. /\ partial \in Seq(Slab!Block) /\ partial # << >>
      /\ empty \in Seq(Slab!Block) /\ list \in [Slab!Block -> Seq(Nat)]
      /\ cache.size \in Nat
  BY DEF Slab!IInv, Slab!WellFormed, Slab!TypeOK, Slab!AllocPartial
<1>2. /\ b \in Slab!Block /\ b \in ToSet(partial)
      /\ Tail(partial) \in Seq(Slab!Block) /\ IsInjective(Tail(partial))
      /\ ToSet(Tail(partial)) = ToSet(partial) \ {b}
  <2>1. IsInjective(partial)
    BY SlabLists
  <2> QED BY <1>1, <2>1, TailQueue
<1>3. /\ UNCHANGED <<cache, pool, place, detached>>
      /\ Slab!Take(b, list[b], Tail(partial), empty)
  BY DEF Slab!AllocPartial
<1> HIDE DEF b
<1>4. /\ b \in ToSet(Slab!Listed) /\ b \notin ToSet(full) /\ b \notin ToSet(empty)
      /\ IsInjective(empty)
  BY <1>2, SlabLists
<1>5. b \notin Slab!Detached /\ pool' = pool \ {b}
  BY <1>3, <1>4, SlabQueue DEF Slab!IInv, Slab!NoLeak
<1>6. /\ count[b] = Len(list[b]) /\ IsInjective(list[b])
      /\ ToSet(list[b]) = Slab!Objects(b) \ busy
  BY <1>4, SlabQueue DEF Slab!IInv, Slab!ObjectsOK
<1>7. count[b] \in 1..cache.size - 1
  BY <1>2, SlabQueue DEF Slab!IInv, Slab!WellFormed, Slab!ListsOK
<1>8. list[b] \in Seq(Nat) /\ list[b] # << >> /\ Len(list[b]) <= cache.size
  <2>1. list[b] \in Seq(Nat)
    BY <1>1, <1>2
  <2>2. Len(list[b]) \in 1..cache.size - 1
    BY <1>6, <1>7
  <2>3. Len(list[b]) # 0 /\ Len(list[b]) <= cache.size
    BY <1>1, <2>2
  <2>4. Len(<< >>) = 0
    OBVIOUS
  <2>5. list[b] # << >>
    BY <2>3, <2>4
  <2> QED BY <2>1, <2>3, <2>5
<1>9. cache.order <= MAX_ORDER
  BY <1>1, SlabLists, SlabOwn
<1>10. ToSet(empty) = ToSet(empty) \ {b} /\ b \notin ToSet(full) \cup Slab!Detached
  BY <1>4, <1>5
<1> QED BY <1>1, <1>2, <1>3, <1>4, <1>5, <1>6, <1>8, <1>9, <1>10, SlabTake

LEMMA SlabAllocEmpty ==
  ASSUME Slab!Assumption, Slab!IInv, Slab!AllocEmpty
  PROVE  Slab!IInv'
<1> DEFINE b == Head(empty)
<1>1. /\ empty \in Seq(Slab!Block) /\ empty # << >>
      /\ partial \in Seq(Slab!Block) /\ list \in [Slab!Block -> Seq(Nat)]
      /\ cache.size \in Nat
  BY DEF Slab!IInv, Slab!WellFormed, Slab!TypeOK, Slab!AllocEmpty
<1>2. /\ b \in Slab!Block /\ b \in ToSet(empty)
      /\ Tail(empty) \in Seq(Slab!Block) /\ IsInjective(Tail(empty))
      /\ ToSet(Tail(empty)) = ToSet(empty) \ {b}
  <2>1. IsInjective(empty)
    BY SlabLists
  <2> QED BY <1>1, <2>1, TailQueue
<1>3. /\ UNCHANGED <<cache, pool, place, detached>>
      /\ Slab!Take(b, list[b], partial, Tail(empty))
  BY DEF Slab!AllocEmpty
<1> HIDE DEF b
<1>4. /\ b \in ToSet(Slab!Listed) /\ b \notin ToSet(full)
      /\ b \notin ToSet(partial) /\ IsInjective(partial)
  BY <1>2, SlabLists
<1>5. b \notin Slab!Detached /\ pool' = pool \ {b}
  BY <1>3, <1>4, SlabQueue DEF Slab!IInv, Slab!NoLeak
<1>6. /\ count[b] = Len(list[b]) /\ IsInjective(list[b])
      /\ ToSet(list[b]) = Slab!Objects(b) \ busy
  BY <1>4, SlabQueue DEF Slab!IInv, Slab!ObjectsOK
<1>7. count[b] = cache.size
  BY <1>2, SlabQueue DEF Slab!IInv, Slab!WellFormed, Slab!ListsOK
<1>8. cache.order <= MAX_ORDER /\ cache.size # 0
  BY <1>1, SlabLists, SlabOwn
<1>9. list[b] \in Seq(Nat) /\ list[b] # << >> /\ Len(list[b]) <= cache.size
  <2>1. list[b] \in Seq(Nat)
    BY <1>1, <1>2
  <2>2. Len(list[b]) # 0 /\ Len(list[b]) <= cache.size
    BY <1>1, <1>6, <1>7, <1>8
  <2>3. Len(<< >>) = 0
    OBVIOUS
  <2>4. list[b] # << >>
    BY <2>2, <2>3
  <2> QED BY <2>1, <2>2, <2>4
<1>10. /\ ToSet(partial) = ToSet(partial) \ {b}
       /\ b \notin ToSet(full) \cup Slab!Detached
  BY <1>4, <1>5
<1> QED BY <1>1, <1>2, <1>3, <1>4, <1>5, <1>6, <1>8, <1>9, <1>10, SlabTake

LEMMA SlabAllocNew ==
  ASSUME Slab!Assumption, Slab!IInv, Slab!AllocNew
  PROVE  Slab!IInv'
<1>1. /\ partial \in Seq(Slab!Block) /\ empty \in Seq(Slab!Block)
      /\ cache.size \in Nat /\ cache.order <= MAX_ORDER
      /\ Slab!TypeOK /\ Slab!CacheOK
  BY DEF Slab!IInv, Slab!WellFormed, Slab!TypeOK, Slab!AllocNew
<1>2. PICK b \in pool :
        /\ pool' = pool \ {b}
        /\ Slab!Take(b, Slab!NewList(b), partial, empty)
        /\ UNCHANGED <<cache, place, detached>>
  BY DEF Slab!AllocNew
<1>3. b \in Slab!Block /\ b \notin ToSet(Slab!Listed) \cup Slab!Detached
  BY <1>2, SlabQueue DEF Slab!IInv, Slab!NoLeak, Slab!WellFormed, Slab!TypeOK
<1>4. /\ b \notin ToSet(full) \cup Slab!Detached
      /\ ToSet(partial) = ToSet(partial) \ {b}
      /\ ToSet(empty) = ToSet(empty) \ {b}
      /\ IsInjective(partial) /\ IsInjective(empty)
  BY <1>3, SlabLists
<1>5. /\ Slab!NewList(b) \in Seq(Nat)
      /\ Len(Slab!NewList(b)) = cache.size
      /\ ToSet(Slab!NewList(b)) = Slab!Objects(b)
      /\ IsInjective(Slab!NewList(b))
  BY <1>1, <1>3, SlabNewList
<1>6. Slab!NewList(b) # << >> /\ Len(Slab!NewList(b)) <= cache.size
  BY <1>1, <1>5 DEF Slab!CacheOK
<1>7. Slab!Objects(b) = Slab!Objects(b) \ busy
  <2>1. ASSUME NEW addr \in busy, addr \in Slab!Objects(b) PROVE FALSE
    <3>1. Slab!SlabOf(addr) = b
      BY <1>1, <1>3, <2>1, SlabObjects
    <3> QED BY <3>1, <1>3, SlabLists, SlabOwn
  <2> QED BY <2>1
<1> QED BY <1>1, <1>2, <1>3, <1>4, <1>5, <1>6, <1>7, SlabTake

\* list_del of slab b from a list it may be in.
LEMMA SlabWithout ==
  ASSUME NEW s \in Seq(Slab!Block), IsInjective(s), NEW b
  PROVE  /\ Slab!Without(s, b) \in Seq(Slab!Block)
         /\ IsInjective(Slab!Without(s, b))
         /\ ToSet(Slab!Without(s, b)) = ToSet(s) \ {b}
<1>1. CASE b \notin ToSet(s)
  BY <1>1, SlabQueue DEF Slab!Without
<1>2. CASE b \in ToSet(s)
  <2> DEFINE i == CHOOSE k \in DOMAIN s : s[k] = b
  <2>1. Slab!Without(s, b) = RemoveAt(s, i)
    BY <1>2, SlabQueue DEF Slab!Without
  <2>2. i \in DOMAIN s /\ s[i] = b
    BY <1>2 DEF ToSet
  <2> HIDE DEF i
  <2> QED BY <2>1, <2>2, RemoveQueue
<1> QED BY <1>1, <1>2

\* slab_free: the object goes back to the slab it is of, and the slab to the
\* list that fits.  If its free list is as long as that of a new slab, it has
\* all the objects, and nobody uses one.
LEMMA SlabFree ==
  ASSUME Slab!Assumption, Slab!IInv, NEW addr \in busy, Slab!Free(addr)
  PROVE  Slab!IInv'
<1> DEFINE b == Slab!SlabOf(addr)
           n == count[b] + 1
           objects == <<addr>> \o list[b]
<1>1. /\ full \in Seq(Slab!Block) /\ partial \in Seq(Slab!Block)
      /\ empty \in Seq(Slab!Block) /\ list \in [Slab!Block -> Seq(Nat)]
      /\ count \in [Slab!Block -> 0..cache.size] /\ cache.size \in Nat
      /\ Slab!TypeOK /\ Slab!CacheOK
  BY DEF Slab!IInv, Slab!WellFormed, Slab!TypeOK
<1>2. /\ busy' = busy \ {addr}
      /\ list' = [list EXCEPT ![b] = objects]
      /\ count' = [count EXCEPT ![b] = n]
      /\ full' = Slab!Without(full, b)
      /\ n = cache.size => /\ empty' = <<b>> \o Slab!Without(empty, b)
                           /\ partial' = Slab!Without(partial, b)
      /\ n # cache.size => /\ partial' = <<b>> \o Slab!Without(partial, b)
                           /\ empty' = Slab!Without(empty, b)
      /\ UNCHANGED <<cache, pool, place, detached>>
  BY DEF Slab!Free, Slab!Whole
<1>3. /\ cache.order <= MAX_ORDER
      /\ b \in ToSet(full) \cup ToSet(partial)
      /\ addr \in Slab!Objects(b)
  BY SlabOwn
<1> HIDE DEF b
<1>4. /\ b \in Slab!Block /\ b \in ToSet(Slab!Listed)
      /\ b \notin ToSet(empty) /\ b \notin Slab!Detached
  <2>1. b \in Slab!Block /\ b \in ToSet(Slab!Listed) /\ b \notin ToSet(empty)
    BY <1>3, SlabLists
  <2> QED BY <2>1, SlabQueue DEF Slab!IInv, Slab!NoLeak
<1>5. /\ list[b] \in Seq(Nat)
      /\ count[b] = Len(list[b]) /\ IsInjective(list[b])
      /\ ToSet(list[b]) = Slab!Objects(b) \ busy
  BY <1>1, <1>4, SlabQueue DEF Slab!IInv, Slab!ObjectsOK
<1>6. /\ objects \in Seq(Nat) /\ Len(objects) = n /\ IsInjective(objects)
      /\ ToSet(objects) = Slab!Objects(b) \ (busy \ {addr})
  <2>1. addr \in Nat
    BY <1>1, <1>3, <1>4, SlabObjects
  <2>2. addr \notin ToSet(list[b])
    BY <1>5
  <2>3. /\ objects \in Seq(Nat) /\ Len(objects) = Len(list[b]) + 1
        /\ ToSet(objects) = ToSet(list[b]) \cup {addr}
        /\ IsInjective(objects)
    BY <1>5, <2>1, <2>2, PrependQueue
  <2> QED BY <1>3, <1>5, <2>3
<1>7. n \in 1..cache.size /\ (n = cache.size => ToSet(objects) = Slab!Objects(b))
  <2> DEFINE new == Slab!NewList(b)
  <2>1. /\ new \in Seq(Nat) /\ Len(new) = cache.size /\ IsInjective(new)
        /\ ToSet(new) = Slab!Objects(b)
    BY <1>1, <1>3, <1>4, SlabNewList
  <2> HIDE DEF new, objects, n
  <2>2. ToSet(objects) \subseteq ToSet(new)
    BY <1>6, <2>1
  <2>3. Len(objects) <= Len(new)
    BY <1>6, <2>1, <2>2, FullQueue
  <2>4. Len(objects) = Len(new) => ToSet(objects) = ToSet(new)
    BY <1>6, <2>1, <2>2, FullQueue
  <2>5. n \in Nat \ {0}
    BY <1>1, <1>4 DEF n
  <2> QED BY <1>1, <1>6, <2>1, <2>3, <2>4, <2>5
<1> HIDE DEF n, objects
<1>8. /\ full' \in Seq(Slab!Block) /\ IsInjective(full')
      /\ ToSet(full') = ToSet(full) \ {b}
      /\ partial' \in Seq(Slab!Block) /\ IsInjective(partial')
      /\ ToSet(partial') = IF n = cache.size THEN ToSet(partial) \ {b}
                           ELSE ToSet(partial) \cup {b}
      /\ empty' \in Seq(Slab!Block) /\ IsInjective(empty')
      /\ ToSet(empty') = IF n = cache.size THEN ToSet(empty) \cup {b}
                         ELSE ToSet(empty)
  <2> DEFINE part == Slab!Without(partial, b)
             emp == Slab!Without(empty, b)
  <2>1. IsInjective(full) /\ IsInjective(partial) /\ IsInjective(empty)
    BY SlabLists
  <2>2. /\ full' \in Seq(Slab!Block) /\ IsInjective(full')
        /\ ToSet(full') = ToSet(full) \ {b}
    BY <1>1, <1>2, <2>1, SlabWithout
  <2>3. /\ part \in Seq(Slab!Block) /\ IsInjective(part)
        /\ ToSet(part) = ToSet(partial) \ {b}
    BY <1>1, <2>1, SlabWithout
  <2>4. /\ emp \in Seq(Slab!Block) /\ IsInjective(emp)
        /\ ToSet(emp) = ToSet(empty) \ {b}
    BY <1>1, <2>1, SlabWithout
  <2> HIDE DEF part, emp
  <2>5. CASE n = cache.size
    <3>1. empty' = <<b>> \o emp /\ partial' = part
      BY <1>2, <2>5 DEF part, emp
    <3>2. /\ <<b>> \o emp \in Seq(Slab!Block) /\ IsInjective(<<b>> \o emp)
          /\ ToSet(<<b>> \o emp) = ToSet(emp) \cup {b}
      BY <1>4, <2>4, PrependQueue
    <3> QED BY <2>2, <2>3, <2>4, <2>5, <3>1, <3>2
  <2>6. CASE n # cache.size
    <3>1. partial' = <<b>> \o part /\ empty' = emp
      BY <1>2, <2>6 DEF part, emp
    <3>2. /\ <<b>> \o part \in Seq(Slab!Block) /\ IsInjective(<<b>> \o part)
          /\ ToSet(<<b>> \o part) = ToSet(part) \cup {b}
      BY <1>4, <2>3, PrependQueue
    <3> QED BY <1>4, <2>2, <2>3, <2>4, <2>6, <3>1, <3>2
  <2> QED BY <2>5, <2>6
<1>9. /\ ToSet(Slab!Listed') = ToSet(Slab!Listed)
      /\ IsInjective(Slab!Listed')
  <2>1. /\ ToSet(full') \cap ToSet(partial') = {}
        /\ ToSet(full') \cap ToSet(empty') = {}
        /\ ToSet(partial') \cap ToSet(empty') = {}
    <3>1. CASE n = cache.size
      BY <1>4, <1>8, <3>1, SlabLists
    <3>2. CASE n # cache.size
      BY <1>4, <1>8, <3>2, SlabLists
    <3> QED BY <3>1, <3>2
  <2>2. /\ ToSet(Slab!Listed')
             = ToSet(full') \cup ToSet(partial') \cup ToSet(empty')
        /\ IsInjective(Slab!Listed')
    BY <1>8, <2>1, SlabNewLists
  <2> QED BY <1>3, <1>8, <2>2, SlabLists
<1>10. /\ Slab!Detached' = Slab!Detached
       /\ \A s : Slab!Objects(s)' = Slab!Objects(s)
  BY <1>2 DEF Slab!Detached, Slab!Objects, Slab!Base, Slab!Bytes
<1>11. Slab!TypeOK'
  <2>1. list' \in [Slab!Block -> Seq(Nat)]
    BY <1>1, <1>2, <1>6
  <2>2. n \in 0..cache.size
    BY <1>1, <1>7
  <2>3. count' \in [Slab!Block -> 0..cache'.size]
    BY <1>1, <1>2, <2>2
  <2> QED BY <1>2, <1>8, <2>1, <2>3 DEF Slab!TypeOK, Slab!IInv, Slab!WellFormed,
                                        Slab!Block
<1>12. Slab!ListsOK'
  <2>1. /\ \A s \in ToSet(full) : count[s] = 0
        /\ \A s \in ToSet(partial) : count[s] \in 1..cache.size - 1
        /\ \A s \in ToSet(empty) \cup Slab!Detached : count[s] = cache.size
    BY SlabQueue DEF Slab!IInv, Slab!WellFormed, Slab!ListsOK
  <2>2. count'[b] = n /\ \A s \in Slab!Block \ {b} : count'[s] = count[s]
    BY <1>1, <1>2, <1>4
  <2>3. ToSet(full) \cup ToSet(partial) \cup ToSet(empty) \cup Slab!Detached
          \subseteq Slab!Block
    BY SlabLists
  <2>4. \A s \in ToSet(full') : count'[s] = 0
    BY <1>8, <2>1, <2>2, <2>3
  <2>5. \A s \in ToSet(partial') : count'[s] \in 1..cache'.size - 1
    <3>1. n # cache.size => n \in 1..cache.size - 1
      BY <1>1, <1>7
    <3>2. CASE n = cache.size
      BY <1>2, <1>8, <2>1, <2>2, <2>3, <3>2
    <3>3. CASE n # cache.size
      BY <1>2, <1>8, <2>1, <2>2, <2>3, <3>1, <3>3
    <3> QED BY <3>2, <3>3
  <2>6. \A s \in ToSet(empty') \cup Slab!Detached' : count'[s] = cache'.size
    <3>1. CASE n = cache.size
      BY <1>2, <1>4, <1>8, <1>10, <2>1, <2>2, <2>3, <3>1
    <3>2. CASE n # cache.size
      BY <1>2, <1>4, <1>8, <1>10, <2>1, <2>2, <2>3, <3>2
    <3> QED BY <3>1, <3>2
  <2> QED BY <1>9, <2>4, <2>5, <2>6, SlabQueue DEF Slab!ListsOK
<1>13. Slab!ObjectsOK'
  <2>1. ASSUME NEW s \in ToSet(Slab!Listed') \cup Slab!Detached'
        PROVE  /\ count'[s] = Len(list'[s]) /\ IsInjective(list'[s])
               /\ ToSet(list'[s]) = Slab!Objects(s)' \ busy'
    <3>1. CASE s = b
      BY <1>1, <1>2, <1>4, <1>6, <1>10, <3>1
    <3>2. CASE s # b
      <4>1. s \in ToSet(Slab!Listed) \cup Slab!Detached /\ s \in Slab!Block
        BY <1>9, <1>10, <2>1, SlabLists
      <4>2. /\ count[s] = Len(list[s]) /\ IsInjective(list[s])
            /\ ToSet(list[s]) = Slab!Objects(s) \ busy
        BY <4>1, SlabQueue DEF Slab!IInv, Slab!ObjectsOK
      <4>3. addr \notin Slab!Objects(s)
        BY <1>1, <1>3, <1>4, <3>2, <4>1, SlabObjects
      <4>4. list'[s] = list[s] /\ count'[s] = count[s]
        BY <1>1, <1>2, <3>2, <4>1
      <4> QED BY <1>2, <1>10, <4>2, <4>3, <4>4
    <3> QED BY <3>1, <3>2
  <2>2. ASSUME NEW x \in busy'
        PROVE  \E s \in ToSet(full') \cup ToSet(partial') :
                  x \in Slab!Objects(s)'
    <3> DEFINE s == Slab!SlabOf(x)
    <3>1. x \in busy /\ x # addr
      BY <1>2, <2>2
    <3>2. s \in ToSet(full) \cup ToSet(partial) /\ x \in Slab!Objects(s)
      BY <3>1, SlabOwn
    <3> HIDE DEF s
    <3>3. n = cache.size => s # b
      BY <1>6, <1>7, <3>1, <3>2
    <3>4. s \in ToSet(full') \cup ToSet(partial')
      BY <1>8, <3>2, <3>3
    <3> QED BY <1>10, <3>2, <3>4
  <2> QED BY <2>1, <2>2, SlabQueue DEF Slab!ObjectsOK
<1>14. Slab!NoLeak'
  BY <1>2, <1>9, <1>10, SlabQueue DEF Slab!NoLeak, Slab!Block, Slab!IInv
<1>15. Slab!CacheOK'
  BY <1>2, <1>3 DEF Slab!IInv, Slab!CacheOK, Slab!Bytes
<1>16. Slab!ShrinkOK'
  BY <1>2, SlabQueue DEF Slab!IInv, Slab!ShrinkOK
<1> QED BY <1>11, <1>12, <1>13, <1>14, <1>15, <1>16
        DEF Slab!IInv, Slab!WellFormed

\* A caller enters slab_cache_shrink, or hangs in slab_cache_release.
LEMMA SlabEnter ==
  ASSUME Slab!Assumption, Slab!IInv,
         NEW c \in Proc, Slab!Shrink(c) \/ Slab!Release(c)
  PROVE  Slab!IInv'
<1>1. /\ UNCHANGED <<cache, pool, full, partial, empty, list, count, busy,
                    detached>>
      /\ place' \in [Proc -> {"out", "shrink", "destroy", "hang"}]
      /\ \A d \in Proc : place[d] = "destroy" => place'[d] = "destroy"
  BY DEF Slab!IInv, Slab!WellFormed, Slab!TypeOK, Slab!Shrink, Slab!Release,
         Slab!heap
<1>2. UNCHANGED <<Slab!Listed, Slab!Detached>>
  BY <1>1 DEF Slab!Listed, Slab!Detached
<1>3. Slab!WellFormed'
  BY <1>1, <1>2 DEF Slab!IInv, Slab!WellFormed, Slab!TypeOK, Slab!ListsOK,
                    Slab!Block
<1>4. Slab!ObjectsOK'
  <2>1. \A s : Slab!Objects(s)' = Slab!Objects(s)
    BY <1>1 DEF Slab!Objects, Slab!Base, Slab!Bytes
  <2> QED BY <1>1, <1>2, <2>1 DEF Slab!IInv, Slab!ObjectsOK
<1>5. Slab!NoLeak' /\ Slab!CacheOK'
  BY <1>1, <1>2 DEF Slab!IInv, Slab!NoLeak, Slab!CacheOK, Slab!Block, Slab!Bytes
<1>6. Slab!ShrinkOK'
  BY <1>1 DEF Slab!IInv, Slab!ShrinkOK
<1> QED BY <1>3, <1>4, <1>5, <1>6 DEF Slab!IInv

\* slab_cache_shrink takes the whole list of empty slabs: they move from one
\* list to another.
LEMMA SlabShrinkTake ==
  ASSUME Slab!Assumption, Slab!IInv, NEW c \in Proc, Slab!ShrinkTake(c)
  PROVE  Slab!IInv'
<1>1. /\ full \in Seq(Slab!Block) /\ partial \in Seq(Slab!Block)
      /\ empty \in Seq(Slab!Block) /\ detached \in [Proc -> Seq(Slab!Block)]
      /\ place \in [Proc -> {"out", "shrink", "destroy", "hang"}]
  BY DEF Slab!IInv, Slab!WellFormed, Slab!TypeOK
<1>2. /\ UNCHANGED <<cache, pool, full, partial, list, count, busy>>
      /\ empty' = << >>
      /\ detached' = [detached EXCEPT ![c] = empty]
      /\ place' = [place EXCEPT ![c] = "destroy"]
      /\ place[c] = "shrink"
  BY DEF Slab!ShrinkTake
<1>3. detached[c] = << >>
  BY <1>2 DEF Slab!IInv, Slab!ShrinkOK
<1>4. /\ empty' \in Seq(Slab!Block) /\ IsInjective(empty')
      /\ ToSet(empty') = {}
  BY <1>2, EmptyQueue
<1>5. /\ ToSet(Slab!Listed') = ToSet(full) \cup ToSet(partial)
      /\ IsInjective(Slab!Listed')
  BY <1>1, <1>2, <1>4, SlabLists, SlabNewLists
<1>6. Slab!Detached' = Slab!Detached \cup ToSet(empty)
  <2>1. /\ detached'[c] = empty
        /\ \A d \in Proc \ {c} : detached'[d] = detached[d]
    BY <1>1, <1>2
  <2>2. ToSet(detached[c]) = {}
    BY <1>3, EmptyQueue
  <2> QED BY <2>1, <2>2, SlabQueue DEF Slab!Detached
<1>7. ToSet(Slab!Listed') \cup Slab!Detached'
        = ToSet(Slab!Listed) \cup Slab!Detached
  BY <1>5, <1>6, SlabLists
<1>8. \A s : Slab!Objects(s)' = Slab!Objects(s)
  BY <1>2 DEF Slab!Objects, Slab!Base, Slab!Bytes
<1>9. Slab!TypeOK'
  <2>1. detached' \in [Proc -> Seq(Slab!Block)]
    BY <1>1, <1>2
  <2>2. place' \in [Proc -> {"out", "shrink", "destroy", "hang"}]
    BY <1>1, <1>2
  <2> QED BY <1>2, <1>4, <2>1, <2>2 DEF Slab!TypeOK, Slab!IInv, Slab!WellFormed,
                                        Slab!Block
<1>10. Slab!ListsOK'
  BY <1>2, <1>4, <1>5, <1>6, SlabQueue
  DEF Slab!IInv, Slab!WellFormed, Slab!ListsOK
<1>11. Slab!ObjectsOK'
  BY <1>2, <1>7, <1>8, SlabQueue DEF Slab!IInv, Slab!ObjectsOK
<1>12. Slab!NoLeak'
  <2>1. /\ pool \cup ToSet(Slab!Listed) \cup Slab!Detached = Slab!Block
        /\ pool \cap (ToSet(Slab!Listed) \cup Slab!Detached) = {}
        /\ ToSet(Slab!Listed) \cap Slab!Detached = {}
        /\ \A d, e \in Proc :
             d # e => ToSet(detached[d]) \cap ToSet(detached[e]) = {}
    BY SlabQueue DEF Slab!IInv, Slab!NoLeak
  <2>2. /\ pool' \cup ToSet(Slab!Listed') \cup Slab!Detached' = Slab!Block
        /\ pool' \cap (ToSet(Slab!Listed') \cup Slab!Detached') = {}
    BY <1>2, <1>7, <2>1
  <2>3. ToSet(Slab!Listed') \cap Slab!Detached' = {}
    BY <1>5, <1>6, <2>1, SlabLists
  <2>4. \A d \in Proc : ToSet(empty) \cap ToSet(detached[d]) = {}
    BY <2>1, SlabLists, SlabQueue DEF Slab!Detached
  <2>5. ASSUME NEW d \in Proc, NEW e \in Proc, d # e
        PROVE  ToSet(detached'[d]) \cap ToSet(detached'[e]) = {}
    BY <1>1, <1>2, <2>1, <2>4, <2>5
  <2> QED BY <2>2, <2>3, <2>5, SlabQueue DEF Slab!NoLeak, Slab!Block
<1>13. Slab!CacheOK'
  <2>1. CASE cache.order <= MAX_ORDER
    BY <1>2, <2>1 DEF Slab!IInv, Slab!CacheOK, Slab!Bytes
  <2>2. CASE ~(cache.order <= MAX_ORDER)
    <3>1. Slab!Listed = << >> /\ Slab!Detached = {}
      BY <2>2 DEF Slab!IInv, Slab!CacheOK
    <3>2. full' = << >> /\ partial' = << >> /\ empty = << >> /\ empty' = << >>
      BY <1>2, <3>1, SlabLists
    <3>3. Slab!Listed' = << >>
      BY <3>2 DEF Slab!Listed
    <3>4. Slab!Detached' = {}
      BY <1>6, <3>1, <3>2, EmptyQueue
    <3> QED BY <1>2, <2>2, <3>3, <3>4 DEF Slab!CacheOK
  <2> QED BY <2>1, <2>2
<1>14. Slab!ShrinkOK'
  BY <1>1, <1>2, SlabLists, SlabQueue DEF Slab!IInv, Slab!ShrinkOK
<1> QED BY <1>9, <1>10, <1>11, <1>12, <1>13, <1>14
        DEF Slab!IInv, Slab!WellFormed

\* One detached slab goes back to the buddy allocator, or all have gone.
LEMMA SlabShrinkDestroy ==
  ASSUME Slab!Assumption, Slab!IInv, NEW c \in Proc, Slab!ShrinkDestroy(c)
  PROVE  Slab!IInv'
<1>1. /\ full \in Seq(Slab!Block) /\ partial \in Seq(Slab!Block)
      /\ empty \in Seq(Slab!Block) /\ detached \in [Proc -> Seq(Slab!Block)]
      /\ place \in [Proc -> {"out", "shrink", "destroy", "hang"}]
      /\ list \in [Slab!Block -> Seq(Nat)] /\ cache.size \in Nat
      /\ count \in [Slab!Block -> 0..cache.size] /\ pool \subseteq Slab!Block
  BY DEF Slab!IInv, Slab!WellFormed, Slab!TypeOK
<1>2. UNCHANGED <<cache, full, partial, empty, busy>> /\ place[c] = "destroy"
  BY DEF Slab!ShrinkDestroy
<1>3. /\ Slab!Listed' = Slab!Listed
      /\ \A s : Slab!Objects(s)' = Slab!Objects(s)
  BY <1>2 DEF Slab!Listed, Slab!Objects, Slab!Base, Slab!Bytes
<1>4. CASE detached[c] = << >>
  <2>1. /\ UNCHANGED <<pool, detached, list, count>>
        /\ place' = [place EXCEPT ![c] = "out"]
    BY <1>4 DEF Slab!ShrinkDestroy
  <2>2. Slab!Detached' = Slab!Detached
    BY <2>1 DEF Slab!Detached
  <2>3. place' \in [Proc -> {"out", "shrink", "destroy", "hang"}]
    BY <1>1, <2>1
  <2>4. Slab!WellFormed'
    BY <1>2, <1>3, <2>1, <2>2, <2>3
    DEF Slab!IInv, Slab!WellFormed, Slab!TypeOK, Slab!ListsOK, Slab!Block
  <2>5. Slab!ObjectsOK'
    BY <1>2, <1>3, <2>1, <2>2 DEF Slab!IInv, Slab!ObjectsOK
  <2>6. Slab!NoLeak' /\ Slab!CacheOK'
    BY <1>2, <1>3, <2>1, <2>2
    DEF Slab!IInv, Slab!NoLeak, Slab!CacheOK, Slab!Block, Slab!Bytes
  <2>7. Slab!ShrinkOK'
    BY <1>1, <1>4, <2>1 DEF Slab!IInv, Slab!ShrinkOK
  <2> QED BY <2>4, <2>5, <2>6, <2>7 DEF Slab!IInv
<1>5. CASE detached[c] # << >>
  <2> DEFINE b == Head(detached[c])
  <2>1. /\ pool' = pool \cup {b}
        /\ detached' = [detached EXCEPT ![c] = Tail(detached[c])]
        /\ list' = [list EXCEPT ![b] = << >>]
        /\ count' = [count EXCEPT ![b] = 0]
        /\ place' = place
    BY <1>5 DEF Slab!ShrinkDestroy
  <2>2. /\ IsInjective(detached[c]) /\ detached[c] \in Seq(Slab!Block)
        /\ \A d \in Proc : IsInjective(detached[d])
    BY <1>1, SlabQueue DEF Slab!IInv, Slab!ShrinkOK
  <2>3. /\ b \in Slab!Block /\ b \in ToSet(detached[c])
        /\ Tail(detached[c]) \in Seq(Slab!Block)
        /\ ToSet(Tail(detached[c])) = ToSet(detached[c]) \ {b}
        /\ IsInjective(Tail(detached[c]))
    BY <1>5, <2>2, TailQueue
  <2> HIDE DEF b
  <2>4. /\ pool \cup ToSet(Slab!Listed) \cup Slab!Detached = Slab!Block
        /\ pool \cap (ToSet(Slab!Listed) \cup Slab!Detached) = {}
        /\ ToSet(Slab!Listed) \cap Slab!Detached = {}
        /\ \A d, e \in Proc :
             d # e => ToSet(detached[d]) \cap ToSet(detached[e]) = {}
    BY SlabQueue DEF Slab!IInv, Slab!NoLeak
  <2>5. /\ detached' \in [Proc -> Seq(Slab!Block)]
        /\ ToSet(detached'[c]) = ToSet(detached[c]) \ {b}
        /\ \A d \in Proc \ {c} : detached'[d] = detached[d]
    BY <1>1, <2>1, <2>3
  <2>6. /\ Slab!Detached' = Slab!Detached \ {b}
        /\ b \in Slab!Detached /\ b \notin ToSet(Slab!Listed)
    <3>1. \A d \in Proc \ {c} : b \notin ToSet(detached[d])
      BY <2>3, <2>4
    <3>2. b \in Slab!Detached
      BY <2>3, SlabQueue DEF Slab!Detached
    <3>3. Slab!Detached' = Slab!Detached \ {b}
      BY <2>5, <3>1, SlabQueue DEF Slab!Detached
    <3> QED BY <2>4, <3>2, <3>3
  <2>7. \A s \in Slab!Block \ {b} : list'[s] = list[s] /\ count'[s] = count[s]
    BY <1>1, <2>1
  <2>8. Slab!TypeOK'
    <3>1. list' \in [Slab!Block -> Seq(Nat)]
      BY <1>1, <2>1, EmptyQueue
    <3>2. count' \in [Slab!Block -> 0..cache'.size]
      <4>1. 0 \in 0..cache.size
        BY <1>1
      <4> QED BY <1>1, <1>2, <2>1, <4>1
    <3>3. pool' \subseteq Slab!Block
      BY <1>1, <2>1, <2>3
    <3> QED BY <1>2, <2>1, <2>5, <3>1, <3>2, <3>3
            DEF Slab!IInv, Slab!WellFormed, Slab!TypeOK, Slab!Block
  <2>9. Slab!ListsOK'
    <3>1. /\ IsInjective(Slab!Listed)
          /\ \A s \in ToSet(full) : count[s] = 0
          /\ \A s \in ToSet(partial) : count[s] \in 1..cache.size - 1
          /\ \A s \in ToSet(empty) \cup Slab!Detached : count[s] = cache.size
      BY SlabQueue DEF Slab!IInv, Slab!WellFormed, Slab!ListsOK
    <3>2. \A s \in ToSet(full) \cup ToSet(partial) \cup ToSet(empty)
                     \cup Slab!Detached' : s \in Slab!Block \ {b}
      BY <2>6, SlabLists
    <3>3. /\ \A s \in ToSet(full) : count'[s] = 0
          /\ \A s \in ToSet(partial) : count'[s] \in 1..cache.size - 1
          /\ \A s \in ToSet(empty) \cup Slab!Detached' : count'[s] = cache.size
      BY <2>6, <2>7, <3>1, <3>2
    <3> QED BY <1>2, <1>3, <3>1, <3>3, SlabQueue DEF Slab!ListsOK
  <2>10. Slab!ObjectsOK'
    <3>1. ASSUME NEW s \in ToSet(Slab!Listed') \cup Slab!Detached'
          PROVE  /\ count'[s] = Len(list'[s]) /\ IsInjective(list'[s])
                 /\ ToSet(list'[s]) = Slab!Objects(s)' \ busy'
      <4>1. /\ s \in ToSet(Slab!Listed) \cup Slab!Detached
            /\ s \in Slab!Block \ {b}
        BY <1>3, <2>6, <3>1, SlabLists
      <4>2. /\ count[s] = Len(list[s]) /\ IsInjective(list[s])
            /\ ToSet(list[s]) = Slab!Objects(s) \ busy
        BY <4>1, SlabQueue DEF Slab!IInv, Slab!ObjectsOK
      <4> QED BY <1>2, <1>3, <2>7, <4>1, <4>2
    <3>2. busy' \subseteq UNION {Slab!Objects(s)' :
                                   s \in ToSet(full') \cup ToSet(partial')}
      BY <1>2, <1>3, SlabQueue DEF Slab!IInv, Slab!ObjectsOK
    <3> QED BY <3>1, <3>2, SlabQueue DEF Slab!ObjectsOK
  <2>11. Slab!NoLeak'
    <3>1. /\ pool' \cup ToSet(Slab!Listed') \cup Slab!Detached' = Slab!Block
          /\ pool' \cap (ToSet(Slab!Listed') \cup Slab!Detached') = {}
          /\ ToSet(Slab!Listed') \cap Slab!Detached' = {}
      BY <1>3, <2>1, <2>4, <2>6
    <3>2. ASSUME NEW d \in Proc, NEW e \in Proc, d # e
          PROVE  ToSet(detached'[d]) \cap ToSet(detached'[e]) = {}
      <4>1. \A k \in Proc : ToSet(detached'[k]) \subseteq ToSet(detached[k])
        BY <2>5
      <4>2. ToSet(detached[d]) \cap ToSet(detached[e]) = {}
        BY <2>4, <3>2
      <4> QED BY <4>1, <4>2
    <3> QED BY <3>1, <3>2, SlabQueue DEF Slab!NoLeak, Slab!Block
  <2>12. Slab!CacheOK'
    BY <1>2, <1>3, <2>6 DEF Slab!IInv, Slab!CacheOK, Slab!Bytes
  <2>13. Slab!ShrinkOK'
    <3>1. ASSUME NEW d \in Proc
          PROVE  /\ IsInjective(detached'[d])
                 /\ detached'[d] # << >> => place'[d] = "destroy"
      <4>1. CASE d = c
        BY <1>1, <1>2, <2>1, <2>3, <4>1
      <4>2. CASE d # c
        BY <2>1, <2>2, <2>5, <4>2 DEF Slab!IInv, Slab!ShrinkOK
      <4> QED BY <4>1, <4>2
    <3> QED BY <3>1, SlabQueue DEF Slab!ShrinkOK
  <2> QED BY <2>8, <2>9, <2>10, <2>11, <2>12, <2>13
          DEF Slab!IInv, Slab!WellFormed
<1> QED BY <1>4, <1>5

\* What the invariant gives: the objects in use are apart.
LEMMA SlabApart == ASSUME Slab!Assumption, Slab!IInv PROVE Slab!SlabOK
<1>1. Slab!LayoutOK
  <2> SUFFICES ASSUME NEW b \in ToSet(Slab!Listed), NEW x \in Slab!Objects(b)
               PROVE  /\ x >= Slab!Base(b)
                      /\ x + cache.obj <= Slab!Base(b) + Slab!Bytes - META
                      /\ Slab!SlabOf(x) = b
                      /\ \A y \in Slab!Objects(b) : x < y => x + cache.obj <= y
    BY SlabQueue DEF Slab!LayoutOK
  <2>1. Slab!Listed # << >> /\ b \in Slab!Block
    BY SlabLists, EmptyQueue
  <2>2. cache.order <= MAX_ORDER
    BY <2>1, SlabOwn
  <2> QED BY <2>1, <2>2, SlabObjects DEF Slab!IInv, Slab!WellFormed
<1> QED BY <1>1 DEF Slab!SlabOK, Slab!ObjectsApart, Slab!IInv

\* Whatever the sizes and however callers interleave, an object is given out
\* once and shares no byte with another or with a descriptor, a slab is in the
\* list its free objects say, and no block is lost or owned twice while slabs
\* are given back (src/slab.c).
THEOREM SlabCorrect == Slab!Spec => []SlabOK
<1>0. Slab!Assumption
  BY PartsAssumption
<1>1. ASSUME Slab!IInv, [Slab!Next]_(Slab!vars) PROVE Slab!IInv'
  <2>1. CASE UNCHANGED Slab!vars
    <3>1. /\ UNCHANGED <<Slab!Listed, Slab!Detached, Slab!Bytes>>
          /\ \A s : Slab!Objects(s)' = Slab!Objects(s)
      BY <2>1 DEF Slab!vars, Slab!Listed, Slab!Detached, Slab!Objects,
                  Slab!Base, Slab!Bytes
    <3>2. Slab!WellFormed'
      BY <1>1, <2>1, <3>1 DEF Slab!vars, Slab!IInv, Slab!WellFormed,
         Slab!TypeOK, Slab!ListsOK, Slab!Block
    <3>3. Slab!ObjectsOK'
      BY <1>1, <2>1, <3>1 DEF Slab!vars, Slab!IInv, Slab!ObjectsOK
    <3>4. Slab!NoLeak' /\ Slab!CacheOK' /\ Slab!ShrinkOK'
      BY <1>1, <2>1, <3>1 DEF Slab!vars, Slab!IInv, Slab!NoLeak, Slab!CacheOK,
         Slab!ShrinkOK, Slab!Block
    <3> QED BY <3>2, <3>3, <3>4 DEF Slab!IInv
  <2>2. CASE Slab!Next
    <3>1. CASE Slab!AllocPartial \/ Slab!AllocEmpty \/ Slab!AllocNew
      BY <1>0, <1>1, <3>1, SlabAllocPartial, SlabAllocEmpty, SlabAllocNew
    <3>2. CASE \E addr \in busy : Slab!Free(addr)
      BY <1>0, <1>1, <3>2, SlabFree
    <3>3. CASE \E c \in Proc : \/ Slab!Shrink(c) \/ Slab!Release(c)
                                  \/ Slab!ShrinkTake(c) \/ Slab!ShrinkDestroy(c)
      BY <1>0, <1>1, <3>3, SlabEnter, SlabShrinkTake, SlabShrinkDestroy
    <3>4. CASE Slab!AllocFails
      BY <2>1, <3>4 DEF Slab!AllocFails
    <3> QED BY <2>2, <3>1, <3>2, <3>3, <3>4 DEF Slab!Next
  <2> QED BY <1>1, <2>1, <2>2
<1>2. Slab!IInv => SlabOK
  BY <1>0, SlabApart DEF SlabOK
<1>3. Slab!Init => Slab!IInv
  BY <1>0, SlabInit
<1> QED BY <1>1, <1>2, <1>3, PTL DEF Slab!Spec

-----------------------------------------------------------------------------
(* Memory at boot: the arrays of ranges, and what is made of them.         *)

\* What balloc.c keeps of an array of ranges: sorted, and no two touch.
Ranges == {rs \in Seq(Boot!Range) :
             \A j \in DOMAIN rs : /\ rs[j].begin < rs[j].end
                                  /\ j > 1 => rs[j - 1].end < rs[j].begin}

LEMMA RangesElements ==
  ASSUME Boot!Assumption, NEW rs \in Ranges
  PROVE  /\ Len(rs) \in Nat /\ DOMAIN rs = 1..Len(rs)
         /\ \A j \in 1..Len(rs) : /\ rs[j] \in Boot!Range
                                  /\ rs[j].begin \in Nat /\ rs[j].end \in Nat
                                  /\ rs[j].begin < rs[j].end
         /\ \A x : x \in Boot!Addresses(rs) <=>
              x \in Int /\ \E j \in 1..Len(rs) : rs[j].begin <= x /\ x < rs[j].end
<1>1. rs \in Seq(Boot!Range) /\ Len(rs) \in Nat /\ DOMAIN rs = 1..Len(rs)
  BY DEF Ranges
<1>2. \A j \in 1..Len(rs) : /\ rs[j] \in Boot!Range
                            /\ rs[j].begin \in Nat /\ rs[j].end \in Nat
                            /\ rs[j].begin < rs[j].end
  <2> SUFFICES ASSUME NEW j \in 1..Len(rs)
               PROVE  /\ rs[j] \in Boot!Range
                      /\ rs[j].begin \in Nat /\ rs[j].end \in Nat
                      /\ rs[j].begin < rs[j].end
    OBVIOUS
  <2>1. rs[j] \in Boot!Range
    BY <1>1
  <2>2. rs[j].begin \in 0..TOP /\ rs[j].end \in 0..TOP /\ TOP \in Nat
    BY <2>1 DEF Boot!Range, Boot!Assumption
  <2>3. rs[j].begin < rs[j].end
    BY <1>1 DEF Ranges
  <2> QED BY <2>1, <2>2, <2>3
<1>3. \A b, e \in Nat : \A x : x \in b..e - 1 <=> x \in Int /\ b <= x /\ x < e
  OBVIOUS
<1>4. \A x : x \in Boot!Addresses(rs) <=>
        \E j \in 1..Len(rs) : x \in rs[j].begin..rs[j].end - 1
  BY <1>1 DEF Boot!Addresses, Boot!Span
<1> QED BY <1>1, <1>2, <1>3, <1>4

\* Not only neighbours are apart.
LEMMA RangesApart ==
  ASSUME Boot!Assumption, NEW rs \in Ranges
  PROVE  \A j, k \in 1..Len(rs) : j < k => rs[j].end < rs[k].begin
<1> SUFFICES ASSUME NEW j \in 1..Len(rs), NEW l \in 1..Len(rs), j < l,
                    ~(rs[j].end < rs[l].begin)
             PROVE  FALSE
  OBVIOUS
<1> DEFINE T == {k \in 1..Len(rs) : j < k /\ ~(rs[j].end < rs[k].begin)}
<1>1. Len(rs) \in Nat
  BY RangesElements
<1>2. T \in SUBSET Nat /\ T # {}
  BY <1>1
<1>3. PICK k \in T : \A m \in T : k <= m
  <2> HIDE DEF T
  <2> QED BY <1>2, Least
<1>4. /\ k \in 1..Len(rs) /\ j < k /\ ~(rs[j].end < rs[k].begin)
      /\ k - 1 \in 1..Len(rs)
      /\ k - 1 = j \/ rs[j].end < rs[k - 1].begin
  BY <1>1, <1>3
<1>5. rs[k - 1].end < rs[k].begin
  BY <1>1, <1>4 DEF Ranges
<1>6. /\ rs[k].begin \in Nat /\ rs[j].end \in Nat
      /\ rs[k - 1].begin \in Nat /\ rs[k - 1].end \in Nat
      /\ rs[k - 1].begin < rs[k - 1].end
  BY <1>4, RangesElements
<1> QED BY <1>4, <1>5, <1>6

\* The loops that look for the ranges a new one touches.
LEMMA FromTo ==
  ASSUME Boot!Assumption, NEW rs \in Ranges,
         NEW begin \in Nat, NEW end \in Nat, begin <= end
  PROVE  LET from == Boot!From(rs, begin)
             to   == Boot!To(rs, begin, end)
         IN  /\ from \in 1..Len(rs) + 1 /\ to \in from..Len(rs) + 1
             /\ \A j \in 1..from - 1 : rs[j].end < begin
             /\ \A j \in from..to - 1 : begin <= rs[j].end /\ rs[j].begin <= end
             /\ \A j \in to..Len(rs) : end < rs[j].begin
<1> DEFINE n    == Len(rs)
           from == Boot!From(rs, begin)
           to   == Boot!To(rs, begin, end)
<1>1. n \in Nat /\ \A j \in 1..n : rs[j].begin \in Nat /\ rs[j].end \in Nat
                                   /\ rs[j].begin < rs[j].end
  BY RangesElements
<1>2. \A j, k \in 1..n : j < k => rs[j].end < rs[k].begin
  BY RangesApart
<1> HIDE DEF n
<1>3. \E f \in 1..n + 1 : /\ \A j \in 1..f - 1 : begin > rs[j].end
                          /\ f <= n => begin <= rs[f].end
  <2> DEFINE T == {f \in 1..n + 1 : f <= n => begin <= rs[f].end}
  <2>1. T \in SUBSET Nat /\ n + 1 \in T
    BY <1>1
  <2>2. PICK f \in T : \A m \in T : f <= m
    <3> HIDE DEF T
    <3> QED BY <2>1, Least
  <2>3. \A j \in 1..f - 1 : j \in 1..n /\ j \notin T
    BY <1>1, <2>2
  <2> QED BY <1>1, <2>2, <2>3
<1>4. /\ from \in 1..n + 1 /\ \A j \in 1..from - 1 : begin > rs[j].end
      /\ from <= n => begin <= rs[from].end
  BY <1>3 DEF Boot!From, n
<1> HIDE DEF from
<1>5. \E t \in from..n + 1 : /\ \A j \in from..t - 1 : end >= rs[j].begin
                             /\ t <= n => end < rs[t].begin
  <2> DEFINE T == {t \in from..n + 1 : t <= n => end < rs[t].begin}
  <2>1. T \in SUBSET Nat /\ n + 1 \in T
    BY <1>1, <1>4
  <2>2. PICK t \in T : \A m \in T : t <= m
    <3> HIDE DEF T
    <3> QED BY <2>1, Least
  <2>3. \A j \in from..t - 1 : j \in 1..n /\ j \notin T
    BY <1>1, <1>4, <2>2
  <2>4. \A j \in from..t - 1 : end >= rs[j].begin
    BY <1>1, <1>4, <2>2, <2>3
  <2> QED BY <2>2, <2>4
<1>6. /\ to \in from..n + 1 /\ \A j \in from..to - 1 : end >= rs[j].begin
      /\ to <= n => end < rs[to].begin
  BY <1>5 DEF Boot!To, n, from
<1> HIDE DEF to
<1>7. \A j \in from..to - 1 : begin <= rs[j].end
  <2> SUFFICES ASSUME NEW j \in from..to - 1 PROVE begin <= rs[j].end
    OBVIOUS
  <2>1. j \in 1..n /\ from \in 1..n
    BY <1>1, <1>4, <1>6
  <2>2. begin <= rs[from].end
    BY <1>1, <1>4, <2>1
  <2>3. CASE j = from
    BY <2>2, <2>3
  <2>4. CASE j # from
    <3>1. rs[from].end < rs[j].begin
      BY <1>2, <1>4, <2>1, <2>4
    <3> QED BY <1>1, <2>1, <2>2, <3>1
  <2> QED BY <2>3, <2>4
<1>8. \A j \in to..n : end < rs[j].begin
  <2> SUFFICES ASSUME NEW j \in to..n PROVE end < rs[j].begin
    OBVIOUS
  <2>1. j \in 1..n /\ to \in 1..n
    BY <1>1, <1>4, <1>6
  <2>2. end < rs[to].begin
    BY <1>1, <1>6, <2>1
  <2>3. CASE j = to
    BY <2>2, <2>3
  <2>4. CASE j # to
    <3>1. rs[to].end < rs[j].begin
      BY <1>2, <1>4, <1>6, <2>1, <2>4
    <3> QED BY <1>1, <2>1, <2>2, <3>1
  <2> QED BY <2>3, <2>4
<1>9. \A j \in 1..from - 1 : rs[j].end < begin
  BY <1>1, <1>4
<1> QED BY <1>4, <1>6, <1>7, <1>8, <1>9 DEF n, from, to

\* Addresses are those of the elements, in whatever order.
LEMMA RangesAddresses ==
  ASSUME Boot!Assumption, NEW rs \in Ranges
  PROVE  /\ ToSet(rs) \subseteq Boot!Range
         /\ \A r \in ToSet(rs) : r.begin \in Nat /\ r.end \in Nat /\ r.begin < r.end
         /\ \A x : x \in Boot!Addresses(rs) <=>
              x \in Int /\ \E r \in ToSet(rs) : r.begin <= x /\ x < r.end
<1>1. /\ DOMAIN rs = 1..Len(rs)
      /\ \A j \in 1..Len(rs) : /\ rs[j] \in Boot!Range
                               /\ rs[j].begin \in Nat /\ rs[j].end \in Nat
                               /\ rs[j].begin < rs[j].end
      /\ \A x : x \in Boot!Addresses(rs) <=>
           x \in Int /\ \E j \in 1..Len(rs) : rs[j].begin <= x /\ x < rs[j].end
  BY RangesElements
<1>2. ToSet(rs) = {rs[j] : j \in 1..Len(rs)}
  BY <1>1 DEF ToSet
<1> QED BY <1>1, <1>2, Zenon

LEMMA RangesEmpty ==
  ASSUME Boot!Assumption
  PROVE  << >> \in Ranges /\ Boot!Addresses(<< >>) = {}
BY DEF Ranges, Boot!Addresses

\* A part of an array.
LEMMA RangesPart ==
  ASSUME Boot!Assumption, NEW rs \in Ranges,
         NEW a \in 1..Len(rs) + 1, NEW b \in a - 1..Len(rs)
  PROVE  /\ SubSeq(rs, a, b) \in Ranges
         /\ ToSet(SubSeq(rs, a, b)) = {rs[j] : j \in a..b}
         /\ Len(SubSeq(rs, a, b)) = b - a + 1
<1> DEFINE t == SubSeq(rs, a, b)
           n == Len(rs)
<1>1. /\ n \in Nat /\ rs \in Seq(Boot!Range)
      /\ \A j \in 1..n : rs[j].begin < rs[j].end
      /\ \A j \in 1..n : rs[j] \in Boot!Range
      /\ \A j \in 1..n : j > 1 => rs[j - 1].end < rs[j].begin
  BY RangesElements DEF Ranges
<1>2. /\ t \in Seq(Boot!Range)
      /\ Len(t) = IF a <= b THEN b - a + 1 ELSE 0
      /\ \A k \in 1..b - a + 1 : t[k] = rs[a + k - 1]
  <2>1. a \in Int /\ b \in Int /\ \A k \in a..b : rs[k] \in Boot!Range
    BY <1>1
  <2> HIDE DEF t
  <2> QED BY <2>1, SubSeqProperties DEF t
<1> HIDE DEF t, n
<1>3. Len(t) = b - a + 1 /\ DOMAIN t = 1..b - a + 1
  BY <1>1, <1>2 DEF n
<1>4. \A k \in 1..b - a + 1 : a + k - 1 \in 1..n /\ a + k - 1 \in a..b
  BY <1>1 DEF n
<1>5. t \in Ranges
  <2> SUFFICES ASSUME NEW k \in 1..b - a + 1
               PROVE  /\ t[k].begin < t[k].end
                      /\ k > 1 => t[k - 1].end < t[k].begin
    BY <1>2, <1>3 DEF Ranges
  <2>1. t[k] = rs[a + k - 1] /\ a + k - 1 \in 1..n
    BY <1>2, <1>4
  <2>2. ASSUME k > 1 PROVE t[k - 1].end < t[k].begin
    <3>1. k - 1 \in 1..b - a + 1 /\ (a + k - 1) - 1 = a + (k - 1) - 1
          /\ a + k - 1 > 1
      BY <2>2, <1>1
    <3>2. t[k - 1] = rs[a + (k - 1) - 1]
      BY <3>1, <1>2
    <3>3. rs[(a + k - 1) - 1].end < rs[a + k - 1].begin
      BY <2>1, <3>1, <1>1
    <3> QED BY <2>1, <3>1, <3>2, <3>3
  <2> QED BY <2>1, <2>2, <1>1
<1>6. ToSet(t) = {rs[j] : j \in a..b}
  <2>1. ASSUME NEW r \in ToSet(t) PROVE r \in {rs[j] : j \in a..b}
    <3>1. PICK k \in 1..b - a + 1 : r = t[k]
      BY <2>1, <1>3 DEF ToSet
    <3> QED BY <3>1, <1>2, <1>4
  <2>2. ASSUME NEW j \in a..b PROVE rs[j] \in ToSet(t)
    <3>1. j - a + 1 \in 1..b - a + 1 /\ a + (j - a + 1) - 1 = j
      BY <1>1
    <3>2. t[j - a + 1] = rs[j]
      BY <3>1, <1>2
    <3> QED BY <3>1, <3>2, <1>3 DEF ToSet
  <2> QED BY <2>1, <2>2
<1> QED BY <1>3, <1>5, <1>6 DEF t

\* Arrays one behind the other.
LEMMA RangesConcat ==
  ASSUME Boot!Assumption, NEW s \in Ranges, NEW t \in Ranges,
         \A a \in ToSet(s), b \in ToSet(t) : a.end < b.begin
  PROVE  s \o t \in Ranges /\ ToSet(s \o t) = ToSet(s) \cup ToSet(t)
<1> DEFINE u == s \o t
           m == Len(s)
           n == Len(t)
<1>1. /\ m \in Nat /\ n \in Nat
      /\ s \in Seq(Boot!Range) /\ t \in Seq(Boot!Range)
      /\ \A j \in 1..m : /\ s[j].begin < s[j].end
                         /\ j > 1 => s[j - 1].end < s[j].begin
                         /\ s[j] \in ToSet(s)
      /\ \A j \in 1..n : /\ t[j].begin < t[j].end
                         /\ j > 1 => t[j - 1].end < t[j].begin
                         /\ t[j] \in ToSet(t)
  BY RangesElements DEF Ranges, ToSet
<1>2. /\ u \in Seq(Boot!Range) /\ Len(u) = m + n
      /\ \A j \in 1..m + n : u[j] = IF j <= m THEN s[j] ELSE t[j - m]
      /\ ToSet(u) = ToSet(s) \cup ToSet(t)
  BY <1>1, ConcatProperties, ConcatQueue
<1> HIDE DEF u, m, n
<1>3. DOMAIN u = 1..m + n
  BY <1>1, <1>2
<1>4. ASSUME NEW j \in 1..m + n
      PROVE  /\ u[j].begin < u[j].end
             /\ j > 1 => u[j - 1].end < u[j].begin
  <2>1. CASE j <= m
    <3>1. j \in 1..m /\ u[j] = s[j] /\ (j > 1 => u[j - 1] = s[j - 1])
      BY <2>1, <1>1, <1>2
    <3> QED BY <3>1, <1>1
  <2>2. CASE j > m + 1
    <3>1. /\ j - m \in 1..n /\ j - m > 1 /\ u[j] = t[j - m]
          /\ j - 1 \in 1..m + n /\ ~(j - 1 <= m)
          /\ (j - 1) - m = (j - m) - 1
      BY <2>2, <1>1, <1>2
    <3>2. u[j - 1] = t[(j - m) - 1]
      BY <3>1, <1>2
    <3> QED BY <3>1, <3>2, <1>1
  <2>3. CASE j = m + 1
    <3>1. /\ 1 \in 1..n /\ u[j] = t[1]
      BY <2>3, <1>1, <1>2
    <3>2. ASSUME j > 1 PROVE m \in 1..m /\ u[j - 1] = s[m]
      BY <2>3, <3>2, <1>1, <1>2
    <3> QED BY <3>1, <3>2, <1>1
  <2> QED BY <2>1, <2>2, <2>3, <1>1
<1> QED BY <1>2, <1>3, <1>4 DEF Ranges, u

LEMMA RangesOne ==
  ASSUME Boot!Assumption, NEW r \in Boot!Range, r.begin < r.end
  PROVE  <<r>> \in Ranges /\ ToSet(<<r>>) = {r}
<1>1. <<r>> \in Seq(Boot!Range) /\ DOMAIN <<r>> = {1} /\ <<r>>[1] = r
  OBVIOUS
<1> QED BY <1>1 DEF Ranges, ToSet

\* The ranges in front of [begin, end), those it touches, the first and the last
\* of these, and the ranges behind.
Before(rs, begin) == SubSeq(rs, 1, Boot!From(rs, begin) - 1)
After(rs, begin, end) == SubSeq(rs, Boot!To(rs, begin, end), Len(rs))
Touched(rs, begin, end) ==
  {rs[j] : j \in Boot!From(rs, begin)..Boot!To(rs, begin, end) - 1}
FirstOf(rs, begin) == rs[Boot!From(rs, begin)]
LastOf(rs, begin, end) == rs[Boot!To(rs, begin, end) - 1]

\* What the two loops find.
LEMMA RangesAround ==
  ASSUME Boot!Assumption, NEW rs \in Ranges,
         NEW begin \in Nat, NEW end \in Nat, begin <= end
  PROVE  /\ Before(rs, begin) \in Ranges /\ After(rs, begin, end) \in Ranges
         /\ Before(rs, begin) \o After(rs, begin, end) \in Ranges
         /\ ToSet(Before(rs, begin) \o After(rs, begin, end))
              = ToSet(Before(rs, begin)) \cup ToSet(After(rs, begin, end))
         /\ \A r \in ToSet(Before(rs, begin)) : r.end < begin
         /\ \A r \in ToSet(After(rs, begin, end)) : end < r.begin
         /\ ToSet(rs) = ToSet(Before(rs, begin)) \cup Touched(rs, begin, end)
                           \cup ToSet(After(rs, begin, end))
         /\ Boot!From(rs, begin) = Boot!To(rs, begin, end)
              => Touched(rs, begin, end) = {}
<1> DEFINE n      == Len(rs)
           from   == Boot!From(rs, begin)
           to     == Boot!To(rs, begin, end)
           before == Before(rs, begin)
           after  == After(rs, begin, end)
           M      == Touched(rs, begin, end)
<1>1. /\ n \in Nat /\ DOMAIN rs = 1..n
      /\ \A j \in 1..n : /\ rs[j] \in Boot!Range
                         /\ rs[j].begin \in Nat /\ rs[j].end \in Nat
                         /\ rs[j].begin < rs[j].end
  BY RangesElements
<1>2. \A j, k \in 1..n : j < k => rs[j].end < rs[k].begin
  BY RangesApart
<1>3. /\ from \in 1..n + 1 /\ to \in from..n + 1
      /\ \A j \in 1..from - 1 : rs[j].end < begin
      /\ \A j \in from..to - 1 : begin <= rs[j].end /\ rs[j].begin <= end
      /\ \A j \in to..n : end < rs[j].begin
  <2> HIDE DEF n, from, to
  <2> QED BY FromTo DEF n, from, to
<1>4. /\ before \in Ranges /\ after \in Ranges
      /\ ToSet(before) = {rs[j] : j \in 1..from - 1}
      /\ ToSet(after) = {rs[j] : j \in to..n}
  <2> HIDE DEF from, to
  <2>1. /\ 1 \in 1..n + 1 /\ from - 1 \in 1 - 1..n
        /\ to \in 1..n + 1 /\ n \in to - 1..n
    BY <1>1, <1>3
  <2> QED BY <2>1, RangesPart DEF Before, After, from, to
<1>5. ToSet(rs) = {rs[j] : j \in 1..n}
  BY <1>1 DEF ToSet
<1>6. M = {rs[j] : j \in from..to - 1}
  BY DEF Touched
<1> HIDE DEF before, after, n, from, to, M
<1>7. /\ \A r \in ToSet(before) : r.end < begin
      /\ \A r \in ToSet(after) : end < r.begin
  BY <1>3, <1>4
<1>8. \A a \in ToSet(before), b \in ToSet(after) : a.end < b.begin
  <2> SUFFICES ASSUME NEW j \in 1..from - 1, NEW k \in to..n
               PROVE  rs[j].end < rs[k].begin
    BY <1>4
  <2>1. j \in 1..n /\ k \in 1..n /\ j < k
    BY <1>1, <1>3
  <2> QED BY <2>1, <1>2
<1>9. /\ before \o after \in Ranges
      /\ ToSet(before \o after) = ToSet(before) \cup ToSet(after)
  BY <1>4, <1>8, RangesConcat
<1>10. ToSet(rs) = ToSet(before) \cup M \cup ToSet(after)
  <2>1. \A j \in 1..n : j \in 1..from - 1 \/ j \in from..to - 1 \/ j \in to..n
    BY <1>1, <1>3
  <2>2. /\ \A j \in 1..from - 1 : j \in 1..n
        /\ \A j \in from..to - 1 : j \in 1..n
        /\ \A j \in to..n : j \in 1..n
    BY <1>1, <1>3
  <2> QED BY <2>1, <2>2, <1>4, <1>5, <1>6
<1>11. from = to => M = {}
  BY <1>1, <1>3, <1>6
<1> QED BY <1>4, <1>7, <1>9, <1>10, <1>11 DEF before, after, from, to, M

\* What it touches, if anything.
LEMMA RangesTouched ==
  ASSUME Boot!Assumption, NEW rs \in Ranges,
         NEW begin \in Nat, NEW end \in Nat, begin <= end,
         Boot!From(rs, begin) # Boot!To(rs, begin, end)
  PROVE  /\ FirstOf(rs, begin) \in Touched(rs, begin, end)
         /\ LastOf(rs, begin, end) \in Touched(rs, begin, end)
         /\ FirstOf(rs, begin).begin <= LastOf(rs, begin, end).begin
         /\ FirstOf(rs, begin).end <= LastOf(rs, begin, end).end
         /\ \A r \in Touched(rs, begin, end) :
              /\ r \in Boot!Range
              /\ begin <= r.end /\ r.begin <= end
              /\ r = FirstOf(rs, begin) \/ FirstOf(rs, begin).end < r.begin
              /\ r = LastOf(rs, begin, end) \/ r.end < LastOf(rs, begin, end).begin
         /\ \A r \in ToSet(Before(rs, begin)) : r.end < FirstOf(rs, begin).begin
         /\ \A r \in ToSet(After(rs, begin, end)) :
              LastOf(rs, begin, end).end < r.begin
<1> DEFINE n      == Len(rs)
           from   == Boot!From(rs, begin)
           to     == Boot!To(rs, begin, end)
           before == Before(rs, begin)
           after  == After(rs, begin, end)
           M      == Touched(rs, begin, end)
<1>1. /\ n \in Nat /\ DOMAIN rs = 1..n
      /\ \A j \in 1..n : /\ rs[j] \in Boot!Range
                         /\ rs[j].begin \in Nat /\ rs[j].end \in Nat
                         /\ rs[j].begin < rs[j].end
  BY RangesElements
<1>2. \A j, k \in 1..n : j < k => rs[j].end < rs[k].begin
  BY RangesApart
<1>3. /\ from \in 1..n + 1 /\ to \in from..n + 1
      /\ \A j \in 1..from - 1 : rs[j].end < begin
      /\ \A j \in from..to - 1 : begin <= rs[j].end /\ rs[j].begin <= end
      /\ \A j \in to..n : end < rs[j].begin
  <2> HIDE DEF n, from, to
  <2> QED BY FromTo DEF n, from, to
<1>4. /\ before \in Ranges /\ after \in Ranges
      /\ ToSet(before) = {rs[j] : j \in 1..from - 1}
      /\ ToSet(after) = {rs[j] : j \in to..n}
  <2> HIDE DEF from, to
  <2>1. /\ 1 \in 1..n + 1 /\ from - 1 \in 1 - 1..n
        /\ to \in 1..n + 1 /\ n \in to - 1..n
    BY <1>1, <1>3
  <2> QED BY <2>1, RangesPart DEF Before, After, from, to
<1>5. M = {rs[j] : j \in from..to - 1}
  BY DEF Touched
<1>6. FirstOf(rs, begin) = rs[from] /\ LastOf(rs, begin, end) = rs[to - 1]
  BY DEF FirstOf, LastOf
<1>7. from # to
  OBVIOUS
<1> HIDE DEF before, after, n, from, to, M
<1>8. /\ from \in from..to - 1 /\ to - 1 \in from..to - 1
      /\ \A j \in from..to - 1 : j \in 1..n
  BY <1>1, <1>3, <1>7
<1>9. ASSUME NEW j \in from..to - 1
      PROVE  /\ rs[j] \in Boot!Range
             /\ begin <= rs[j].end /\ rs[j].begin <= end
             /\ rs[j] = rs[from] \/ rs[from].end < rs[j].begin
             /\ rs[j] = rs[to - 1] \/ rs[j].end < rs[to - 1].begin
  <2>1. /\ j \in 1..n /\ from \in 1..n /\ to - 1 \in 1..n
        /\ j = from \/ from < j
        /\ j = to - 1 \/ j < to - 1
    BY <1>1, <1>3, <1>8
  <2> QED BY <2>1, <1>1, <1>2, <1>3
<1>10. /\ rs[from] \in M /\ rs[to - 1] \in M
  BY <1>5, <1>8
<1>11. rs[from].begin <= rs[to - 1].begin /\ rs[from].end <= rs[to - 1].end
  <2>1. /\ from \in 1..n /\ to - 1 \in 1..n
        /\ from = to - 1 \/ from < to - 1
    BY <1>1, <1>3, <1>8
  <2> QED BY <2>1, <1>1, <1>2
<1>12. ASSUME NEW j \in 1..from - 1 PROVE rs[j].end < rs[from].begin
  <2>1. j \in 1..n /\ from \in 1..n /\ j < from
    BY <1>1, <1>3, <1>8
  <2> QED BY <2>1, <1>2
<1>13. ASSUME NEW k \in to..n PROVE rs[to - 1].end < rs[k].begin
  <2>1. k \in 1..n /\ to - 1 \in 1..n /\ to - 1 < k
    BY <1>1, <1>3, <1>8
  <2> QED BY <2>1, <1>2
<1>14. \A r \in M : /\ r \in Boot!Range
                    /\ begin <= r.end /\ r.begin <= end
                    /\ r = rs[from] \/ rs[from].end < r.begin
                    /\ r = rs[to - 1] \/ r.end < rs[to - 1].begin
  BY <1>5, <1>9
<1>15. /\ \A r \in ToSet(before) : r.end < rs[from].begin
       /\ \A r \in ToSet(after) : rs[to - 1].end < r.begin
  BY <1>4, <1>12, <1>13
<1> QED BY <1>6, <1>10, <1>11, <1>14, <1>15 DEF before, after, M

\* A range put between those in front and those behind.
LEMMA RangesPut ==
  ASSUME Boot!Assumption, NEW s \in Ranges, NEW t \in Ranges,
         NEW r \in Boot!Range, r.begin < r.end,
         \A a \in ToSet(s) : a.end < r.begin,
         \A b \in ToSet(t) : r.end < b.begin
  PROVE  /\ s \o <<r>> \o t \in Ranges
         /\ ToSet(s \o <<r>> \o t) = ToSet(s) \cup {r} \cup ToSet(t)
<1>1. <<r>> \in Ranges /\ ToSet(<<r>>) = {r}
  BY RangesOne
<1>2. s \o <<r>> \in Ranges /\ ToSet(s \o <<r>>) = ToSet(s) \cup {r}
  BY <1>1, RangesConcat
<1>3. /\ \A a \in ToSet(s) : a.begin \in Nat /\ a.end \in Nat /\ a.begin < a.end
      /\ \A b \in ToSet(t) : b.begin \in Nat /\ b.end \in Nat /\ b.begin < b.end
  BY RangesAddresses
<1>4. r.begin \in Nat /\ r.end \in Nat
  BY DEF Boot!Range, Boot!Assumption
<1>5. \A a \in ToSet(s \o <<r>>), b \in ToSet(t) : a.end < b.begin
  BY <1>2, <1>3, <1>4
<1>6. /\ (s \o <<r>>) \o t \in Ranges
      /\ ToSet((s \o <<r>>) \o t) = ToSet(s \o <<r>>) \cup ToSet(t)
  BY <1>2, <1>5, RangesConcat
<1> QED BY <1>2, <1>6

\* __balloc_add_range.
LEMMA AddRangeUnites ==
  ASSUME Boot!Assumption, NEW rs \in Ranges,
         NEW begin \in Nat, NEW end \in 0..TOP, begin < end
  PROVE  /\ Boot!AddRange(rs, begin, end) \in Ranges
         /\ Boot!AddRange(rs, begin, end) # << >>
         /\ Boot!Addresses(Boot!AddRange(rs, begin, end))
              = Boot!Addresses(rs) \cup begin..end - 1
<1> DEFINE from   == Boot!From(rs, begin)
           to     == Boot!To(rs, begin, end)
           before == Before(rs, begin)
           after  == After(rs, begin, end)
           a      == FirstOf(rs, begin)
           b      == LastOf(rs, begin, end)
           M      == Touched(rs, begin, end)
           r      == IF from = to THEN [begin |-> begin, end |-> end]
                     ELSE [begin |-> Boot!Smaller(begin, a.begin),
                           end   |-> Boot!Larger(end, b.end)]
           new    == before \o <<r>> \o after
<1>1. Boot!AddRange(rs, begin, end) = new
  BY DEF Boot!AddRange, Before, After, FirstOf, LastOf
<1>2. TOP \in Nat /\ end \in Nat /\ begin \in 0..TOP /\ begin <= end
  BY DEF Boot!Assumption
<1>3. /\ before \in Ranges /\ after \in Ranges
      /\ \A c \in ToSet(before) : c.end < begin
      /\ \A c \in ToSet(after) : end < c.begin
      /\ ToSet(rs) = ToSet(before) \cup M \cup ToSet(after)
      /\ from = to => M = {}
  BY <1>2, RangesAround
<1>4. from # to =>
        /\ a \in M /\ b \in M
        /\ a.begin <= b.begin /\ a.end <= b.end
        /\ \A c \in M : /\ c \in Boot!Range
                        /\ begin <= c.end /\ c.begin <= end
                        /\ c = a \/ a.end < c.begin
                        /\ c = b \/ c.end < b.begin
        /\ \A c \in ToSet(before) : c.end < a.begin
        /\ \A c \in ToSet(after) : b.end < c.begin
  BY <1>2, RangesTouched
<1>5. \A c \in ToSet(rs) : c.begin \in Nat /\ c.end \in Nat /\ c.begin < c.end
  BY RangesAddresses
<1> HIDE DEF before, after, from, to, a, b, M
<1>6. /\ r \in Boot!Range /\ r.begin < r.end
      /\ \A c \in ToSet(before) : c.end < r.begin
      /\ \A c \in ToSet(after) : r.end < c.begin
  <2>1. CASE from = to
    <3>1. r = [begin |-> begin, end |-> end]
      BY <2>1
    <3> QED BY <3>1, <1>2, <1>3 DEF Boot!Range
  <2>2. CASE from # to
    <3>1. /\ a.begin \in 0..TOP /\ a.end \in 0..TOP
          /\ b.begin \in 0..TOP /\ b.end \in 0..TOP
      BY <2>2, <1>4 DEF Boot!Range
    <3>2. r = [begin |-> Boot!Smaller(begin, a.begin),
               end   |-> Boot!Larger(end, b.end)]
      BY <2>2
    <3>3. /\ \A c \in ToSet(before) : c.end < begin /\ c.end < a.begin
          /\ \A c \in ToSet(after) : end < c.begin /\ b.end < c.begin
      BY <2>2, <1>3, <1>4
    <3> HIDE DEF r
    <3>4. /\ r.begin = begin \/ r.begin = a.begin
          /\ r.end = end \/ r.end = b.end
          /\ r.begin <= begin /\ end <= r.end
          /\ r.begin \in 0..TOP /\ r.end \in 0..TOP
          /\ r = [begin |-> r.begin, end |-> r.end]
      BY <3>1, <3>2, <1>2 DEF Boot!Smaller, Boot!Larger
    <3>5. r \in Boot!Range
      BY <3>4 DEF Boot!Range
    <3>6. r.begin < r.end
      BY <3>4, <1>2
    <3> QED BY <3>3, <3>4, <3>5, <3>6
  <2> QED BY <2>1, <2>2
<1>7. /\ new \in Ranges /\ ToSet(new) = ToSet(before) \cup {r} \cup ToSet(after)
  <2> HIDE DEF r
  <2> QED BY <1>3, <1>6, RangesPut
<1>8. /\ \A x : x \in Boot!Addresses(new) <=>
             x \in Int /\ \E c \in ToSet(new) : c.begin <= x /\ x < c.end
      /\ \A x : x \in Boot!Addresses(rs) <=>
             x \in Int /\ \E c \in ToSet(rs) : c.begin <= x /\ x < c.end
  <2> HIDE DEF new
  <2> QED BY <1>7, RangesAddresses
<1>9. ASSUME NEW x \in Int
      PROVE  (r.begin <= x /\ x < r.end) <=>
               \/ \E c \in M : c.begin <= x /\ x < c.end
               \/ begin <= x /\ x < end
  <2>1. CASE from = to
    <3>1. r.begin = begin /\ r.end = end
      BY <2>1
    <3> HIDE DEF r
    <3> QED BY <2>1, <3>1, <1>3
  <2>2. CASE from # to
    <3>1. /\ r.begin = Boot!Smaller(begin, a.begin)
          /\ r.end = Boot!Larger(end, b.end)
      BY <2>2
    <3>2. /\ a.begin <= end /\ begin <= a.end /\ a \in M
          /\ b.begin <= end /\ begin <= b.end /\ b \in M
          /\ \A c \in M : /\ c = a \/ a.end < c.begin
                          /\ c = b \/ c.end < b.begin
      BY <2>2, <1>4
    <3>3. \A c \in M : c.begin \in Nat /\ c.end \in Nat /\ c.begin < c.end
      BY <1>3, <1>5
    <3> HIDE DEF r
    <3>4. ASSUME r.begin <= x, x < r.end, ~(begin <= x /\ x < end)
          PROVE  \E c \in M : c.begin <= x /\ x < c.end
      <4>1. CASE x < begin
        <5>1. a.begin <= x /\ x < a.end
          BY <3>4, <4>1, <3>1, <3>2, <3>3, <1>2 DEF Boot!Smaller
        <5> QED BY <5>1, <3>2
      <4>2. CASE ~(x < begin)
        <5>1. b.begin <= x /\ x < b.end
          BY <3>4, <4>2, <3>1, <3>2, <3>3, <1>2 DEF Boot!Larger
        <5> QED BY <5>1, <3>2
      <4> QED BY <4>1, <4>2
    <3>5. ASSUME NEW c \in M, c.begin <= x, x < c.end
          PROVE  r.begin <= x /\ x < r.end
      <4>1. a.begin <= c.begin /\ c.end <= b.end
        BY <3>2, <3>3
      <4> QED BY <3>5, <4>1, <3>1, <3>2, <3>3, <1>2
              DEF Boot!Smaller, Boot!Larger
    <3>6. ASSUME begin <= x, x < end PROVE r.begin <= x /\ x < r.end
      BY <3>6, <3>1, <3>2, <3>3, <1>2 DEF Boot!Smaller, Boot!Larger
    <3> QED BY <3>4, <3>5, <3>6
  <2> QED BY <2>1, <2>2
<1>10. \A x : x \in begin..end - 1 <=> x \in Int /\ begin <= x /\ x < end
  BY <1>2
<1> HIDE DEF r
<1>11. Boot!Addresses(new) = Boot!Addresses(rs) \cup begin..end - 1
  <2>1. ASSUME NEW x \in Int
        PROVE  (\E c \in ToSet(new) : c.begin <= x /\ x < c.end) <=>
                 \/ \E c \in ToSet(rs) : c.begin <= x /\ x < c.end
                 \/ begin <= x /\ x < end
    BY <1>3, <1>7, <1>9
  <2> HIDE DEF new
  <2> QED BY <2>1, <1>8, <1>10
<1>12. new # << >>
  <2>1. begin \in Boot!Addresses(new)
    BY <1>10, <1>11, <1>2
  <2> HIDE DEF new
  <2> QED BY <2>1, RangesEmpty
<1> HIDE DEF new
<1> QED BY <1>1, <1>7, <1>11, <1>12

\* __balloc_remove_range: the ranges [begin, end) touches go, and what sticks out
\* of them comes back.
Rest(rs, begin, end) == Before(rs, begin) \o After(rs, begin, end)

LEMMA RemoveRangeTakesOut ==
  ASSUME Boot!Assumption, NEW rs \in Ranges,
         NEW begin \in Nat, NEW end \in 0..TOP, begin <= end
  PROVE  /\ Boot!RemoveRange(rs, begin, end) \in Ranges
         /\ Boot!Addresses(Boot!RemoveRange(rs, begin, end))
              = Boot!Addresses(rs) \ (begin..end - 1)
<1> DEFINE from == Boot!From(rs, begin)
           to   == Boot!To(rs, begin, end)
           a    == FirstOf(rs, begin)
           b    == LastOf(rs, begin, end)
           M    == Touched(rs, begin, end)
           rest == Rest(rs, begin, end)
           left == IF a.begin < begin THEN Boot!AddRange(rest, a.begin, begin)
                   ELSE rest
           new  == IF from = to THEN rs
                   ELSE IF b.end > end THEN Boot!AddRange(left, end, b.end)
                   ELSE left
<1>1. Boot!RemoveRange(rs, begin, end) = new
  BY DEF Boot!RemoveRange, Rest, Before, After, FirstOf, LastOf
<1>2. TOP \in Nat /\ end \in Nat /\ begin \in 0..TOP
  BY DEF Boot!Assumption
<1>3. /\ rest \in Ranges
      /\ \A c \in ToSet(rest) : c.end < begin \/ end < c.begin
      /\ ToSet(rs) = ToSet(rest) \cup M
      /\ from = to => M = {}
  BY <1>2, RangesAround DEF Rest
<1>4. from # to =>
        /\ a \in M /\ b \in M
        /\ a \in Boot!Range /\ b \in Boot!Range
        /\ \A c \in M : /\ begin <= c.end /\ c.begin <= end
                        /\ c = a \/ a.end < c.begin
                        /\ c = b \/ c.end < b.begin
  BY <1>2, RangesTouched
<1>5. /\ \A c \in ToSet(rs) : c.begin \in Nat /\ c.end \in Nat /\ c.begin < c.end
      /\ \A x : x \in Boot!Addresses(rs) <=>
           x \in Int /\ \E c \in ToSet(rs) : c.begin <= x /\ x < c.end
  BY RangesAddresses
<1> HIDE DEF rest
<1>6. \A x : x \in Boot!Addresses(rest) <=>
        x \in Int /\ \E c \in ToSet(rest) : c.begin <= x /\ x < c.end
  BY <1>3, RangesAddresses
<1> HIDE DEF from, to, a, b, M
<1>7. \A x : x \in begin..end - 1 <=> x \in Int /\ begin <= x /\ x < end
  BY <1>2
<1>8. CASE from = to
  <2>1. new = rs
    BY <1>8
  <2>2. \A x \in Int : (\E c \in ToSet(rs) : c.begin <= x /\ x < c.end)
                         => ~(begin <= x /\ x < end)
    BY <1>2, <1>3, <1>5, <1>8
  <2>3. Boot!Addresses(rs) = Boot!Addresses(rs) \ (begin..end - 1)
    BY <2>2, <1>5, <1>7
  <2> HIDE DEF new
  <2> QED BY <1>1, <2>1, <2>3
<1>9. CASE from # to
  <2>1. /\ a.begin \in 0..TOP /\ a.end \in 0..TOP
        /\ b.begin \in 0..TOP /\ b.end \in 0..TOP
        /\ a.begin < a.end /\ b.begin < b.end
        /\ begin <= a.end /\ a.begin <= end /\ begin <= b.end /\ b.begin <= end
    BY <1>3, <1>4, <1>5, <1>9 DEF Boot!Range
  <2>2. /\ left \in Ranges
        /\ Boot!Addresses(left) = Boot!Addresses(rest) \cup a.begin..begin - 1
    <3>1. CASE a.begin < begin
      <4>1. left = Boot!AddRange(rest, a.begin, begin)
        BY <3>1
      <4>2. a.begin \in Nat
        BY <2>1
      <4> HIDE DEF left
      <4> QED BY <3>1, <4>1, <4>2, <1>2, <1>3, AddRangeUnites
    <3>2. CASE ~(a.begin < begin)
      <4>1. left = rest /\ a.begin..begin - 1 = {}
        BY <3>2, <2>1, <1>2
      <4> HIDE DEF left
      <4> QED BY <4>1, <1>3
    <3> QED BY <3>1, <3>2
  <2> HIDE DEF left
  <2>3. /\ new \in Ranges
        /\ Boot!Addresses(new) = Boot!Addresses(left) \cup end..b.end - 1
    <3>1. CASE b.end > end
      <4>1. new = Boot!AddRange(left, end, b.end)
        BY <3>1, <1>9
      <4>2. end < b.end
        BY <3>1, <2>1, <1>2
      <4> HIDE DEF new
      <4> QED BY <4>1, <4>2, <2>1, <2>2, <1>2, AddRangeUnites
    <3>2. CASE ~(b.end > end)
      <4>1. new = left /\ end..b.end - 1 = {}
        BY <3>2, <2>1, <1>2, <1>9
      <4> HIDE DEF new
      <4> QED BY <4>1, <2>2
    <3> QED BY <3>1, <3>2
  <2> HIDE DEF new
  <2>4. \A x : /\ x \in a.begin..begin - 1 <=> x \in Int /\ a.begin <= x /\ x < begin
               /\ x \in end..b.end - 1 <=> x \in Int /\ end <= x /\ x < b.end
    BY <2>1, <1>2
  <2>5. ASSUME NEW x \in Int
        PROVE  (\/ \E c \in ToSet(rest) : c.begin <= x /\ x < c.end
                \/ a.begin <= x /\ x < begin
                \/ end <= x /\ x < b.end)
               <=> /\ \E c \in ToSet(rs) : c.begin <= x /\ x < c.end
                   /\ ~(begin <= x /\ x < end)
    <3>1. ASSUME NEW c \in ToSet(rest), c.begin <= x, x < c.end
          PROVE  c \in ToSet(rs) /\ ~(begin <= x /\ x < end)
      BY <3>1, <1>2, <1>3, <1>5
    <3>2. ASSUME a.begin <= x, x < begin
          PROVE  a \in ToSet(rs) /\ a.begin <= x /\ x < a.end /\ ~(begin <= x)
      BY <3>2, <2>1, <1>2, <1>3, <1>4, <1>9
    <3>3. ASSUME end <= x, x < b.end
          PROVE  b \in ToSet(rs) /\ b.begin <= x /\ x < b.end /\ ~(x < end)
      BY <3>3, <2>1, <1>2, <1>3, <1>4, <1>9
    <3>4. ASSUME NEW c \in M, c.begin <= x, x < c.end, x < begin
          PROVE  a.begin <= x
      BY <3>4, <2>1, <1>2, <1>3, <1>4, <1>5, <1>9
    <3>5. ASSUME NEW c \in M, c.begin <= x, x < c.end, end <= x
          PROVE  x < b.end
      BY <3>5, <2>1, <1>2, <1>3, <1>4, <1>5, <1>9
    <3>6. ASSUME NEW c \in ToSet(rs), c.begin <= x, x < c.end,
                 ~(begin <= x /\ x < end)
          PROVE  \/ \E d \in ToSet(rest) : d.begin <= x /\ x < d.end
                 \/ a.begin <= x /\ x < begin
                 \/ end <= x /\ x < b.end
      <4>1. CASE c \in ToSet(rest)
        BY <3>6, <4>1
      <4>2. CASE c \in M /\ x < begin
        BY <3>6, <4>2, <3>4
      <4>3. CASE c \in M /\ end <= x
        BY <3>6, <4>3, <3>5
      <4> QED BY <3>6, <4>1, <4>2, <4>3, <1>2, <1>3
    <3> QED BY <3>1, <3>2, <3>3, <3>6
  <2>6. Boot!Addresses(new) = Boot!Addresses(rs) \ (begin..end - 1)
    BY <2>2, <2>3, <2>4, <2>5, <1>5, <1>6, <1>7
  <2> QED BY <1>1, <2>3, <2>6
<1> QED BY <1>8, <1>9

\* A segment without a hole lies in one range.
LEMMA SegmentInOne ==
  ASSUME Boot!Assumption, NEW rs \in Ranges, NEW b \in Nat, NEW e \in Nat, b < e,
         b..e - 1 \subseteq Boot!Addresses(rs)
  PROVE  \E j \in 1..Len(rs) : rs[j].begin <= b /\ e <= rs[j].end
<1>1. /\ \A j \in 1..Len(rs) : /\ rs[j].begin \in Nat /\ rs[j].end \in Nat
                               /\ rs[j].begin < rs[j].end
      /\ \A x : x \in Boot!Addresses(rs) <=>
           x \in Int /\ \E j \in 1..Len(rs) : rs[j].begin <= x /\ x < rs[j].end
      /\ Len(rs) \in Nat
  BY RangesElements
<1>2. \A j, k \in 1..Len(rs) : j < k => rs[j].end < rs[k].begin
  BY RangesApart
<1>3. \A x \in Int : b <= x /\ x < e => x \in Boot!Addresses(rs)
  OBVIOUS
<1>4. PICK j \in 1..Len(rs) : rs[j].begin <= b /\ b < rs[j].end
  <2>1. b \in Boot!Addresses(rs)
    BY <1>3
  <2> QED BY <1>1, <2>1
<1>5. ASSUME rs[j].end < e PROVE FALSE
  <2>1. rs[j].end \in Boot!Addresses(rs)
    BY <1>1, <1>3, <1>4, <1>5
  <2>2. PICK k \in 1..Len(rs) : rs[k].begin <= rs[j].end /\ rs[j].end < rs[k].end
    BY <1>1, <2>1
  <2>3. CASE k = j
    BY <1>1, <2>2, <2>3
  <2>4. CASE j < k
    BY <1>1, <1>2, <2>2, <2>4
  <2>5. CASE k < j
    BY <1>1, <1>2, <1>4, <2>2, <2>5
  <2> QED BY <1>1, <2>3, <2>4, <2>5
<1> QED BY <1>1, <1>4, <1>5

\* What is aligned.
LEMMA Aligned ==
  ASSUME NEW x \in Nat, NEW a \in Nat \ {0}
  PROVE  /\ Boot!AlignDown(x, a) \in Nat
         /\ Boot!AlignDown(x, a) = a * (x \div a)
         /\ Boot!AlignDown(x, a) % a = 0
         /\ Boot!AlignDown(x, a) <= x /\ x < Boot!AlignDown(x, a) + a
         /\ \A y \in Nat : y % a = 0 /\ y <= x => y <= Boot!AlignDown(x, a)
<1> DEFINE d == Boot!AlignDown(x, a)
<1>1. /\ x \div a \in Nat /\ x % a \in 0..a - 1
      /\ x = a * (x \div a) + (x % a)
  BY Division
<1>2. d = a * (x \div a)
  BY Division DEF Boot!AlignDown
<1>3. d \in Nat /\ d % a = 0
  BY <1>1, <1>2, MultiplesAligned
<1>4. x = d + (x % a)
  BY <1>1, <1>2
<1> HIDE DEF d
<1>5. d <= x /\ x < d + a
  BY <1>1, <1>3, <1>4
<1>6. ASSUME NEW y \in Nat, y % a = 0, y <= x, d < y PROVE FALSE
  <2>1. y \div a \in Nat /\ y = a * (y \div a) + (y % a) /\ a * (y \div a) \in Nat
    BY Division
  <2>2. y = a * (y \div a)
    BY <2>1, <1>6
  <2>3. CASE x \div a < y \div a
    <3>1. a * (x \div a) + a <= a * (y \div a)
      BY <2>1, <2>3, <1>1, MultiplesApart
    <3> QED BY <3>1, <2>2, <1>2, <1>3, <1>5, <1>6
  <2>4. CASE y \div a < x \div a
    <3>1. a * (y \div a) + a <= a * (x \div a)
      BY <2>1, <2>4, <1>1, MultiplesApart
    <3> QED BY <3>1, <2>2, <1>2, <1>3, <1>6
  <2>5. CASE y \div a = x \div a
    BY <2>2, <2>5, <1>2, <1>3, <1>6
  <2> QED BY <2>1, <2>3, <2>4, <2>5, <1>1
<1> QED BY <1>2, <1>3, <1>5, <1>6 DEF d

LEMMA AlignedUp ==
  ASSUME NEW x \in Nat, NEW a \in Nat \ {0}
  PROVE  /\ Boot!AlignUp(x, a) \in Nat
         /\ Boot!AlignUp(x, a) % a = 0
         /\ x <= Boot!AlignUp(x, a)
         /\ \A y \in Nat : y % a = 0 /\ x <= y => Boot!AlignUp(x, a) <= y
<1> DEFINE z == x + a - 1
           u == Boot!AlignUp(x, a)
<1>1. z \in Nat /\ u = Boot!AlignDown(z, a)
  BY DEF Boot!AlignUp
<1>2. /\ u \in Nat /\ u % a = 0 /\ u <= z /\ z < u + a
      /\ u = a * (z \div a) /\ z \div a \in Nat
  <2> HIDE DEF z
  <2> QED BY <1>1, Aligned, Division
<1> HIDE DEF u
<1>3. ASSUME NEW y \in Nat, y % a = 0, x <= y, y < u PROVE FALSE
  <2>1. y \div a \in Nat /\ y = a * (y \div a) + (y % a) /\ a * (y \div a) \in Nat
    BY Division
  <2>2. y = a * (y \div a)
    BY <2>1, <1>3
  <2>3. CASE y \div a < z \div a
    <3>1. a * (y \div a) + a <= a * (z \div a)
      BY <2>1, <2>3, <1>2, MultiplesApart
    <3> HIDE DEF z
    <3>2. y + a <= u
      BY <3>1, <2>2, <1>2
    <3> QED BY <3>2, <1>2, <1>3 DEF z
  <2>4. CASE z \div a < y \div a
    <3>1. a * (z \div a) + a <= a * (y \div a)
      BY <2>1, <2>4, <1>2, MultiplesApart
    <3> HIDE DEF z
    <3> QED BY <3>1, <2>2, <1>2, <1>3
  <2>5. CASE y \div a = z \div a
    <3> HIDE DEF z
    <3> QED BY <2>2, <2>5, <1>2, <1>3
  <2> HIDE DEF z
  <2> QED BY <2>1, <2>3, <2>4, <2>5, <1>2
<1>4. x <= u
  BY <1>1, <1>2
<1>5. \A y \in Nat : y % a = 0 /\ x <= y => u <= y
  <2> HIDE DEF z
  <2> QED BY <1>2, <1>3
<1> HIDE DEF z
<1> QED BY <1>2, <1>4, <1>5 DEF u

LEMMA Spans == \A b, e : Boot!Span(b, e) = b..e - 1
BY DEF Boot!Span

\* balloc_find_range: it finds a free segment, and if it finds none there is none.
LEMMA FindRangeFinds ==
  ASSUME Boot!Assumption, NEW rs \in Ranges,
         NEW r, r.from \in Nat, r.to \in Nat, r.size \in Nat \ {0},
         r.align \in Nat \ {0},
         Boot!FindRange(rs, r) # r.to
  PROVE  /\ Boot!FindRange(rs, r) \in Nat
         /\ Boot!FindRange(rs, r) + r.size \in 0..TOP
         /\ Boot!Span(Boot!FindRange(rs, r), Boot!FindRange(rs, r) + r.size)
              \subseteq Boot!Addresses(rs)
<1> DEFINE seen == {j \in DOMAIN rs : /\ \A k \in 1..j : rs[k].begin < r.to
                                      /\ rs[j].end > r.from
                                      /\ Boot!Fits(rs[j], r)}
           least == CHOOSE j \in seen : \A k \in seen : j <= k
           addr == Boot!FindRange(rs, r)
<1>1. /\ Len(rs) \in Nat /\ DOMAIN rs = 1..Len(rs)
      /\ \A j \in 1..Len(rs) : /\ rs[j] \in Boot!Range
                               /\ rs[j].begin \in Nat /\ rs[j].end \in Nat
                               /\ rs[j].begin < rs[j].end
      /\ \A x : x \in Boot!Addresses(rs) <=>
           x \in Int /\ \E j \in 1..Len(rs) : rs[j].begin <= x /\ x < rs[j].end
  BY RangesElements
<1>2. addr = IF seen = {} THEN r.to ELSE Boot!AlignUp(rs[least].begin, r.align)
  BY DEF Boot!FindRange
<1>3. seen \in SUBSET Nat
  BY <1>1
<1>4. seen # {}
  BY <1>2
<1>5. least \in seen
  <2> HIDE DEF seen
  <2>1. \E j \in seen : \A k \in seen : j <= k
    BY <1>3, <1>4, Least
  <2> QED BY <2>1
<1>6. PICK j \in 1..Len(rs) : j = least /\ Boot!Fits(rs[j], r)
  BY <1>1, <1>5
<1> HIDE DEF seen, least
<1>7. addr = Boot!AlignUp(rs[j].begin, r.align)
  BY <1>2, <1>4, <1>6
<1>8. addr \in Nat /\ rs[j].begin <= addr
  <2> HIDE DEF addr
  <2>1. rs[j].begin \in Nat /\ r.align \in Nat \ {0}
    BY <1>1
  <2> QED BY <2>1, <1>7, AlignedUp
<1>9. addr + r.size <= rs[j].end
  BY <1>6, <1>7 DEF Boot!Fits
<1>10. rs[j].end \in 0..TOP /\ TOP \in Nat
  BY <1>1 DEF Boot!Range, Boot!Assumption
<1> HIDE DEF addr
<1>11. addr + r.size \in 0..TOP
  BY <1>8, <1>9, <1>10
<1>12. ASSUME NEW x \in Boot!Span(addr, addr + r.size)
       PROVE  x \in Boot!Addresses(rs)
  <2>0. Boot!Span(addr, addr + r.size) = addr..addr + r.size - 1
    BY <1>8, Spans
  <2>1. x \in addr..addr + r.size - 1
    BY <2>0
  <2>2. x \in Int /\ rs[j].begin <= x /\ x < rs[j].end
    BY <2>1, <1>1, <1>8, <1>9
  <2>3. \E l \in 1..Len(rs) : rs[l].begin <= x /\ x < rs[l].end
    BY <2>2
  <2> QED BY <2>2, <2>3, <1>1
<1> QED BY <1>8, <1>11, <1>12 DEF addr

LEMMA FindRangeMisses ==
  ASSUME Boot!Assumption, NEW rs \in Ranges,
         NEW r, r.from \in Nat, r.to \in Nat, r.size \in Nat \ {0},
         r.align \in Nat \ {0},
         Boot!FindRange(rs, r) = r.to,
         NEW a \in r.from .. r.to - r.size, a % r.align = 0,
         Boot!Span(a, a + r.size) \subseteq Boot!Addresses(rs)
  PROVE  FALSE
<1> DEFINE seen == {j \in DOMAIN rs : /\ \A k \in 1..j : rs[k].begin < r.to
                                      /\ rs[j].end > r.from
                                      /\ Boot!Fits(rs[j], r)}
           least == CHOOSE j \in seen : \A k \in seen : j <= k
<1>1. /\ Len(rs) \in Nat /\ DOMAIN rs = 1..Len(rs)
      /\ \A j \in 1..Len(rs) : /\ rs[j].begin \in Nat /\ rs[j].end \in Nat
                               /\ rs[j].begin < rs[j].end
  BY RangesElements
<1>2. /\ a \in Nat /\ a + r.size \in Nat /\ a < a + r.size
      /\ r.from <= a /\ a + r.size <= r.to
  OBVIOUS
<1>3. a..a + r.size - 1 \subseteq Boot!Addresses(rs)
  BY DEF Boot!Span
<1>4. PICK j \in 1..Len(rs) : rs[j].begin <= a /\ a + r.size <= rs[j].end
  <2> DEFINE e == a + r.size
  <2> HIDE DEF e
  <2>1. a..e - 1 \subseteq Boot!Addresses(rs) /\ e \in Nat /\ a < e
    BY <1>2, <1>3 DEF e
  <2>2. \E j \in 1..Len(rs) : rs[j].begin <= a /\ e <= rs[j].end
    BY <2>1, <1>2, SegmentInOne
  <2> QED BY <2>2 DEF e
<1>5. \A k \in 1..j : rs[k].begin < r.to
  <2> SUFFICES ASSUME NEW k \in 1..j PROVE rs[k].begin < r.to
    OBVIOUS
  <2>1. k \in 1..Len(rs) /\ (k = j \/ k < j)
    BY <1>1
  <2>2. k < j => rs[k].end < rs[j].begin
    BY <2>1, RangesApart
  <2> QED BY <1>1, <1>2, <1>4, <2>1, <2>2, SMTT(30)
<1>6. rs[j].end > r.from
  BY <1>1, <1>2, <1>4
<1>7. Boot!AlignUp(rs[j].begin, r.align) \in Nat
      /\ Boot!AlignUp(rs[j].begin, r.align) <= a
  BY <1>1, <1>2, <1>4, AlignedUp
<1>8. Boot!Fits(rs[j], r)
  BY <1>1, <1>2, <1>4, <1>7 DEF Boot!Fits
<1>9. j \in seen /\ seen \in SUBSET Nat
  BY <1>1, <1>5, <1>6, <1>8
<1>10. least \in seen /\ least <= j
  <2> HIDE DEF seen
  <2>1. \E l \in seen : \A k \in seen : l <= k
    BY <1>9, Least
  <2> QED BY <1>9, <2>1
<1>11. /\ Boot!FindRange(rs, r) = Boot!AlignUp(rs[least].begin, r.align)
       /\ least \in 1..Len(rs)
       /\ Boot!Fits(rs[least], r)
  BY <1>1, <1>9, <1>10 DEF Boot!FindRange
<1> HIDE DEF seen, least
<1>12. /\ least \in 1..Len(rs) /\ (least = j \/ least < j)
  BY <1>1, <1>10, <1>11
<1>13. r.to + r.size <= rs[least].end
  BY <1>11 DEF Boot!Fits
<1>14. r.to = Boot!AlignUp(rs[least].begin, r.align)
  BY <1>11
<1>15. CASE least = j
  BY <1>15, <1>2, <1>7, <1>14
<1>16. CASE least < j
  <2>1. rs[least].end < rs[j].begin
    BY <1>16, <1>12, RangesApart
  <2> QED BY <2>1, <1>1, <1>2, <1>4, <1>12, <1>13, SMTT(30)
<1> QED BY <1>12, <1>15, <1>16

\* The memory map, entry by entry.
LEMMA EntriesStep ==
  ASSUME NEW n \in Nat \ {0}, NEW kind
  PROVE  Boot!Entries(n, kind) =
           Boot!Entries(n - 1, kind)
             \cup (IF mmap[n].available \in kind
                   THEN mmap[n].from .. mmap[n].to - 1 ELSE {})
<1>1. 1..n = 1..n - 1 \cup {n}
  OBVIOUS
<1>2. \A m : Boot!Entries(m, kind) =
        UNION {mmap[j].from .. mmap[j].to - 1 :
                 j \in {j \in 1..m : mmap[j].available \in kind}}
  BY DEF Boot!Entries, Boot!Span
<1>3. \A m, x : x \in Boot!Entries(m, kind) <=>
        \E j \in 1..m : mmap[j].available \in kind
                        /\ x \in mmap[j].from .. mmap[j].to - 1
  BY <1>2
<1> QED BY <1>1, <1>3

LEMMA EntriesNone == ASSUME NEW kind PROVE Boot!Entries(0, kind) = {}
BY DEF Boot!Entries

\* The reserved ranges, one by one.
LEMMA ReservedIs ==
  ASSUME Boot!Assumption
  PROVE  /\ Boot!Reserved \in Seq(Boot!Range) /\ Len(Boot!Reserved) \in Nat \ {0}
         /\ \A j \in 1..Len(Boot!Reserved) :
              /\ Boot!Reserved[j].begin \in 0..TOP
              /\ Boot!Reserved[j].end \in 0..TOP
              /\ Boot!Reserved[j].begin <= Boot!Reserved[j].end
         /\ Boot!Reserved[Len(Boot!Reserved)] = [begin |-> 0, end |-> LOW]
<1> DEFINE low == <<[begin |-> 0, end |-> LOW]>>
           m == Len(Image)
<1>1. /\ TOP \in Nat /\ LOW \in 1..TOP /\ Image \in Seq(Boot!Range)
      /\ \A j \in DOMAIN Image : Image[j].begin <= Image[j].end
  BY DEF Boot!Assumption
<1>2. /\ low \in Seq(Boot!Range) /\ Len(low) = 1
      /\ low[1] = [begin |-> 0, end |-> LOW]
  BY <1>1 DEF Boot!Range
<1>3. m \in Nat /\ DOMAIN Image = 1..m
  BY <1>1
<1>4. Boot!Reserved = Image \o low
  BY DEF Boot!Reserved
<1> HIDE DEF low
<1>5. /\ Boot!Reserved \in Seq(Boot!Range) /\ Len(Boot!Reserved) = m + 1
      /\ \A j \in 1..m + 1 : Boot!Reserved[j] = IF j <= m THEN Image[j] ELSE low[j - m]
  <2>1. /\ Image \o low \in Seq(Boot!Range) /\ Len(Image \o low) = m + Len(low)
        /\ \A j \in 1..m + Len(low) :
             (Image \o low)[j] = IF j <= m THEN Image[j] ELSE low[j - m]
    BY <1>1, <1>2, ConcatProperties
  <2> HIDE DEF m
  <2> QED BY <2>1, <1>2, <1>4
<1>6. \A j \in 1..m + 1 : Boot!Reserved[j] \in Boot!Range
                          /\ Boot!Reserved[j].begin <= Boot!Reserved[j].end
  <2> SUFFICES ASSUME NEW j \in 1..m + 1
               PROVE  Boot!Reserved[j] \in Boot!Range
                      /\ Boot!Reserved[j].begin <= Boot!Reserved[j].end
    OBVIOUS
  <2>1. CASE j <= m
    <3>1. Boot!Reserved[j] = Image[j] /\ j \in 1..m
      BY <2>1, <1>3, <1>5
    <3> QED BY <3>1, <1>1, <1>3
  <2>2. CASE ~(j <= m)
    <3>1. Boot!Reserved[j] = [begin |-> 0, end |-> LOW]
      <4>1. j - m = 1
        BY <2>2, <1>3
      <4> QED BY <2>2, <4>1, <1>2, <1>5
    <3> QED BY <3>1, <1>1 DEF Boot!Range
  <2> QED BY <2>1, <2>2
<1> HIDE DEF m
<1>7. \A j \in 1..m + 1 : /\ Boot!Reserved[j].begin \in 0..TOP
                          /\ Boot!Reserved[j].end \in 0..TOP
  BY <1>6 DEF Boot!Range
<1>8. Boot!Reserved[m + 1] = [begin |-> 0, end |-> LOW]
  BY <1>2, <1>3, <1>5
<1> QED BY <1>3, <1>5, <1>6, <1>7, <1>8

Withheld(n) == Boot!Addresses(SubSeq(Boot!Reserved, 1, n))

LEMMA WithheldStep ==
  ASSUME Boot!Assumption
  PROVE  /\ Withheld(0) = {}
         /\ Withheld(Len(Boot!Reserved)) = Boot!Addresses(Boot!Reserved)
         /\ \A n \in 1..Len(Boot!Reserved) :
              Withheld(n) = Withheld(n - 1)
                \cup Boot!Reserved[n].begin .. Boot!Reserved[n].end - 1
<1> DEFINE R == Boot!Reserved
           m == Len(R)
<1>1. R \in Seq(Boot!Range) /\ m \in Nat
  BY ReservedIs
<1> HIDE DEF R, m
<1>2. ASSUME NEW n \in 0..m
      PROVE  \A x : x \in Boot!Addresses(SubSeq(R, 1, n)) <=>
               \E j \in 1..n : x \in R[j].begin .. R[j].end - 1
  <2> DEFINE t == SubSeq(R, 1, n)
  <2>1. /\ 1 \in 1..m + 1 /\ n \in Int
        /\ \A j \in 1..n : R[j] \in Boot!Range
    BY <1>1 DEF m
  <2>2. /\ t \in Seq(Boot!Range)
        /\ Len(t) = n
        /\ \A k \in 1..n : t[k] = R[k]
    <3>1. /\ t \in Seq(Boot!Range)
          /\ Len(t) = IF 1 <= n THEN n - 1 + 1 ELSE 0
          /\ \A k \in 1..n - 1 + 1 : t[k] = R[1 + k - 1]
      BY <2>1, SubSeqProperties
    <3>2. n - 1 + 1 = n /\ (n = 0 \/ 1 <= n) /\ \A k \in 1..n : 1 + k - 1 = k
      BY <1>1
    <3> HIDE DEF t
    <3> QED BY <3>1, <3>2
  <2>3. DOMAIN t = 1..n
    <3> HIDE DEF t
    <3> QED BY <2>2
  <2> HIDE DEF t
  <2>4. \A x : x \in Boot!Addresses(t) <=>
          \E j \in 1..n : x \in t[j].begin .. t[j].end - 1
    BY <2>3 DEF Boot!Addresses, Boot!Span
  <2> QED BY <2>2, <2>4 DEF t
<1>3. \A x : x \in Boot!Addresses(R) <=>
        \E j \in 1..m : x \in R[j].begin .. R[j].end - 1
  <2>1. DOMAIN R = 1..m
    BY <1>1 DEF m
  <2> QED BY <2>1 DEF Boot!Addresses, Boot!Span
<1>4. Boot!Addresses(SubSeq(R, 1, 0)) = {}
  BY <1>1, <1>2
<1>5. Boot!Addresses(SubSeq(R, 1, m)) = Boot!Addresses(R)
  <2>1. m \in 0..m
    BY <1>1
  <2>2. \A x : x \in Boot!Addresses(SubSeq(R, 1, m)) <=>
               \E j \in 1..m : x \in R[j].begin .. R[j].end - 1
    BY <2>1, <1>2
  <2> QED BY <2>2, <1>3
<1>6. ASSUME NEW n \in 1..m
      PROVE  Boot!Addresses(SubSeq(R, 1, n)) =
               Boot!Addresses(SubSeq(R, 1, n - 1)) \cup R[n].begin .. R[n].end - 1
  <2>1. n \in 0..m /\ n - 1 \in 0..m /\ 1..n = 1..n - 1 \cup {n}
    BY <1>1
  <2>2. \A x : x \in Boot!Addresses(SubSeq(R, 1, n - 1)) <=>
               \E j \in 1..n - 1 : x \in R[j].begin .. R[j].end - 1
    BY <2>1, <1>2
  <2>3. \A x : x \in Boot!Addresses(SubSeq(R, 1, n)) <=>
               \E j \in 1..n : x \in R[j].begin .. R[j].end - 1
    BY <2>1, <1>2
  <2> QED BY <2>1, <2>2, <2>3
<1> QED BY <1>4, <1>5, <1>6 DEF Withheld, R, m

\* The whole pages of a range.
LEMMA Pages ==
  ASSUME Boot!Assumption, NEW r \in Boot!Range, r.begin < r.end
  PROVE  LET p == Boot!PagesOf(r)
         IN  /\ p.begin \in Nat /\ p.end \in 0..TOP
             /\ p = Boot!InPages(Boot!WholePages(r))
             /\ p = [begin |-> p.begin, end |-> p.end]
             /\ r.begin <= BOOT_PAGE * p.begin /\ BOOT_PAGE * p.end <= r.end
             /\ \A q \in Nat : r.begin <= BOOT_PAGE * q => p.begin <= q
             /\ \A q \in Nat : BOOT_PAGE * q <= r.end => q <= p.end
             /\ Boot!WholePages(r).begin = BOOT_PAGE * p.begin
             /\ Boot!WholePages(r).end = BOOT_PAGE * p.end
<1> DEFINE a == BOOT_PAGE
           u == Boot!AlignUp(r.begin, a)
           d == Boot!AlignDown(r.end, a)
           ub == u \div a
           db == d \div a
<1>1. a \in Nat \ {0} /\ TOP \in Nat /\ r.begin \in Nat /\ r.end \in Nat /\ r.end \in 0..TOP
  BY DEF Boot!Assumption, Boot!Range
<1>2. /\ Boot!WholePages(r) = [begin |-> u, end |-> d]
      /\ Boot!PagesOf(r) = [begin |-> ub, end |-> db]
      /\ Boot!PagesOf(r) = Boot!InPages(Boot!WholePages(r))
  BY DEF Boot!PagesOf, Boot!InPages, Boot!WholePages
<1>3. /\ u \in Nat /\ u % a = 0 /\ r.begin <= u
      /\ \A y \in Nat : y % a = 0 /\ r.begin <= y => u <= y
  BY <1>1, AlignedUp
<1>4. /\ d \in Nat /\ d % a = 0 /\ d <= r.end
      /\ \A y \in Nat : y % a = 0 /\ y <= r.end => y <= d
  BY <1>1, Aligned
<1> HIDE DEF a, u, d
<1>5. /\ ub \in Nat /\ u = a * ub /\ db \in Nat /\ d = a * db
  <2>1. /\ ub \in Nat /\ u = a * ub + (u % a) /\ u - (u % a) = a * ub
        /\ db \in Nat /\ d = a * db + (d % a) /\ d - (d % a) = a * db
    BY <1>1, <1>3, <1>4, Division
  <2>2. a * ub = u /\ a * db = d
    BY <2>1, <1>3, <1>4
  <2> QED BY <2>1, <2>2
<1> HIDE DEF ub, db
<1>6. ASSUME NEW q \in Nat, NEW p \in Nat, a * p <= a * q PROVE p <= q
  <2>1. ASSUME q < p PROVE FALSE
    <3>1. a * q + a <= a * p
      BY <2>1, <1>1, MultiplesApart
    <3>2. a * q \in Nat /\ a * p \in Nat
      BY <1>1, MultiplesAligned
    <3> QED BY <3>1, <3>2, <1>1, <1>6
  <2> QED BY <2>1
<1>7. ASSUME NEW q \in Nat, r.begin <= a * q PROVE ub <= q
  <2>1. a * q \in Nat /\ (a * q) % a = 0
    BY <1>1, MultiplesAligned
  <2>2. a * ub <= a * q
    BY <2>1, <1>3, <1>5, <1>7
  <2> QED BY <2>2, <1>5, <1>6
<1>8. ASSUME NEW q \in Nat, a * q <= r.end PROVE q <= db
  <2>1. a * q \in Nat /\ (a * q) % a = 0
    BY <1>1, MultiplesAligned
  <2>2. a * q <= a * db
    BY <2>1, <1>4, <1>5, <1>8
  <2> QED BY <2>2, <1>5, <1>6
<1>9. db \in 0..TOP
  <2>1. db <= a * db
    <3>1. CASE db = 0
      BY <3>1, <1>1, <1>5
    <3>2. CASE db # 0
      <4>1. PICK c \in Nat : a = 1 + c
        <5>1. a - 1 \in Nat /\ a = 1 + (a - 1)
          BY <1>1
        <5> QED BY <5>1
      <4>2. PICK e \in Nat : e = c * db
        BY <4>1, <1>5
      <4>3. a * db = db + e
        BY <4>1, <4>2, <1>5
      <4> QED BY <4>2, <4>3, <1>5
    <3> QED BY <3>1, <3>2
  <2> QED BY <2>1, <1>1, <1>4, <1>5
<1>10. /\ r.begin <= a * ub /\ a * db <= r.end
  BY <1>3, <1>4, <1>5
<1> QED BY <1>2, <1>5, <1>7, <1>8, <1>9, <1>10 DEF a, u, d, ub, db

\* What the invariant says of the two arrays and of the loops.
LEMMA BootState ==
  ASSUME Boot!Assumption, Boot!IInv
  PROVE  /\ all \in Ranges /\ free \in Ranges
         /\ Len(all) <= MAX_RANGES /\ Len(free) <= MAX_RANGES
         /\ range \in Nat
         /\ Boot!Addresses(free) \subseteq Boot!Addresses(all)
         /\ Len(mmap) \in Nat \ {0} /\ DOMAIN mmap = 1..Len(mmap)
         /\ \A j \in 1..Len(mmap) :
              /\ mmap[j].from \in Nat /\ mmap[j].to \in 0..TOP
              /\ mmap[j].from < mmap[j].to /\ mmap[j].available \in BOOLEAN
<1>1. /\ mmap \in Maps /\ TOP \in Nat
      /\ \A m \in Maps :
           /\ m # <<>> /\ m \in Seq([from : Nat, to : Nat, available : BOOLEAN])
           /\ \A j \in DOMAIN m : m[j].from < m[j].to /\ m[j].to < TOP
  BY DEF Boot!Assumption, Boot!IInv, Boot!IndexOK
<1>2. /\ Len(mmap) \in Nat \ {0} /\ DOMAIN mmap = 1..Len(mmap)
      /\ \A j \in 1..Len(mmap) :
           /\ mmap[j] \in [from : Nat, to : Nat, available : BOOLEAN]
           /\ mmap[j].from < mmap[j].to /\ mmap[j].to < TOP
  <2>1. /\ mmap # << >> /\ mmap \in Seq([from : Nat, to : Nat, available : BOOLEAN])
        /\ \A j \in DOMAIN mmap : mmap[j].from < mmap[j].to /\ mmap[j].to < TOP
    BY <1>1
  <2>2. Len(mmap) \in Nat /\ DOMAIN mmap = 1..Len(mmap)
    BY <2>1
  <2>3. Len(mmap) # 0
    BY <2>1
  <2>4. \A j \in 1..Len(mmap) : mmap[j] \in [from : Nat, to : Nat, available : BOOLEAN]
    BY <2>1, ElementOfSeq
  <2> QED BY <2>1, <2>2, <2>3, <2>4
<1>3. \A j \in 1..Len(mmap) :
        /\ mmap[j].from \in Nat /\ mmap[j].to \in 0..TOP
        /\ mmap[j].from < mmap[j].to /\ mmap[j].available \in BOOLEAN
  BY <1>1, <1>2
<1>4. /\ all \in Ranges /\ free \in Ranges
      /\ Len(all) <= MAX_RANGES /\ Len(free) <= MAX_RANGES
      /\ range \in Nat
  BY DEF Boot!IInv, Boot!WellFormed, Boot!TypeOK, Boot!Sorted, Ranges
<1>5. Boot!Addresses(free) \subseteq Boot!Addresses(all)
  BY DEF Boot!IInv, Boot!FreeKnown
<1> QED BY <1>2, <1>3, <1>4, <1>5

\* A step that leaves the map alone leaves what should remain of it alone.
LEMMA RemainingKept ==
  ASSUME mmap' = mmap
  PROVE  /\ \A n, kind : Boot!Entries(n, kind)' = Boot!Entries(n, kind)
         /\ \A a, r, w : Boot!Remaining(a, r, w)' = Boot!Remaining(a, r, w)
<1>1. \A n, kind : Boot!Entries(n, kind)' = Boot!Entries(n, kind)
  BY DEF Boot!Entries
<1> QED BY <1>1 DEF Boot!Remaining

LEMMA StopKeeps ==
  ASSUME Boot!Assumption, Boot!IInv, NEW why \in {"full", "no_memory"},
         Boot!Stop(why)
  PROVE  Boot!IInv'
<1> USE DEF Boot!Stop, Boot!IInv
<1>1. Boot!WellFormed'
  BY DEF Boot!WellFormed, Boot!TypeOK, Boot!Sorted
<1>2. Boot!FreeExact'
  BY DEF Boot!FreeExact
<1>3. Boot!GivenOK'
  BY DEF Boot!GivenOK, Boot!GivenBytes, Boot!Entries
<1>4. Boot!BuddyGetsAll'
  BY DEF Boot!BuddyGetsAll
<1>5. Boot!IndexOK'
  BY DEF Boot!IndexOK
<1>6. Boot!FreeKnown' /\ Boot!KnownExact'
  BY DEF Boot!FreeKnown, Boot!KnownExact
<1>7. Boot!ZonesOK' /\ Boot!FreedOK'
  BY DEF Boot!ZonesOK, Boot!FreedOK
<1> QED BY <1>1, <1>2, <1>3, <1>4, <1>5, <1>6, <1>7

\* Before the arrays are ready nothing is given out, and there is no zone.
LEMMA NothingYet ==
  ASSUME Boot!Assumption, Boot!IInv,
         phase \in {"add", "remove", "reserve", "ready"}
  PROVE  zones = << >>
<1>1. /\ zones \in Seq([begin : Nat, end : Nat])
      /\ \A z \in DOMAIN zones : \E j \in {} : zones[z] = Boot!PagesOf(all[j])
  BY DEF Boot!IInv, Boot!ZonesOK, Boot!SeenRanges
<1>2. DOMAIN zones = {}
  BY <1>1
<1>3. DOMAIN zones = 1..Len(zones) /\ Len(zones) \in Nat
  BY <1>1
<1> QED BY <1>1, <1>2, <1>3

\* A step of balloc_setup keeps the invariant if its arrays are good.
LEMMA SetupStep ==
  ASSUME Boot!Assumption, Boot!IInv,
         phase \in {"add", "remove", "reserve"},
         phase' \in {"add", "remove", "reserve", "ready"}, range' \in Nat,
         UNCHANGED <<mmap, given, zones, freed>>,
         all' \in Ranges, free' \in Ranges,
         Len(all') <= MAX_RANGES, Len(free') <= MAX_RANGES,
         Boot!Addresses(free') \subseteq Boot!Addresses(all'),
         Boot!FreeExact', Boot!KnownExact', Boot!IndexOK'
  PROVE  Boot!IInv'
<1>1. zones = << >> /\ given = {}
  BY NothingYet DEF Boot!IInv, Boot!FreeKnown
<1>2. Boot!WellFormed'
  BY DEF Boot!WellFormed, Boot!TypeOK, Boot!Sorted, Ranges
<1>3. Boot!GivenOK' /\ Boot!FreeKnown'
  BY <1>1 DEF Boot!GivenOK, Boot!GivenBytes, Boot!FreeKnown
<1>4. Boot!BuddyGetsAll'
  BY <1>1 DEF Boot!BuddyGetsAll
<1>5. Boot!ZonesOK'
  BY <1>1 DEF Boot!ZonesOK, Boot!SeenRanges
<1>6. Boot!FreedOK'
  BY DEF Boot!FreedOK, Boot!IInv
<1> QED BY <1>2, <1>3, <1>4, <1>5, <1>6 DEF Boot!IInv

LEMMA BootInit ==
  ASSUME Boot!Assumption, Boot!Init
  PROVE  Boot!IInv
<1> USE DEF Boot!Init
<1>1. << >> \in Ranges /\ Boot!Addresses(<< >>) = {}
  BY RangesEmpty
<1>2. Boot!WellFormed
  BY <1>1 DEF Boot!WellFormed, Boot!TypeOK, Boot!Sorted, Ranges, Boot!Assumption
<1>3. Boot!FreeExact
  <2>1. Boot!Entries(0, {TRUE}) = {}
    BY EntriesNone
  <2> QED BY <1>1, <2>1 DEF Boot!FreeExact, Boot!Remaining
<1>4. Boot!GivenOK /\ Boot!FreeKnown
  BY <1>1 DEF Boot!GivenOK, Boot!GivenBytes, Boot!FreeKnown
<1>5. Boot!BuddyGetsAll /\ Boot!KnownExact
  BY <1>1, EntriesNone DEF Boot!KnownExact, Boot!BuddyGetsAll
<1>6. Boot!IndexOK
  <2>1. mmap \in Maps /\ mmap # << >> /\ mmap \in Seq([from : Nat, to : Nat, available : BOOLEAN])
    BY DEF Boot!Assumption
  <2> QED BY <2>1 DEF Boot!IndexOK
<1>7. Boot!ZonesOK
  BY DEF Boot!ZonesOK, Boot!SeenRanges
<1>8. Boot!FreedOK
  BY <1>1 DEF Boot!FreedOK
<1> QED BY <1>2, <1>3, <1>4, <1>5, <1>6, <1>7, <1>8 DEF Boot!IInv

LEMMA EntriesKnown ==
  ASSUME Boot!Assumption, Boot!IInv, NEW n \in 1..Len(mmap)
  PROVE  Boot!Entries(n, BOOLEAN) =
           Boot!Entries(n - 1, BOOLEAN) \cup mmap[n].from .. mmap[n].to - 1
<1>1. n \in Nat \ {0} /\ mmap[n].available \in BOOLEAN
  BY BootState
<1>2. Boot!Entries(n, BOOLEAN) = Boot!Entries(n - 1, BOOLEAN)
        \cup (IF mmap[n].available \in BOOLEAN
              THEN mmap[n].from .. mmap[n].to - 1 ELSE {})
  BY <1>1, EntriesStep
<1> QED BY <1>1, <1>2

LEMMA AddEntryKeeps ==
  ASSUME Boot!Assumption, Boot!IInv, Boot!AddEntry
  PROVE  Boot!IInv'
<1> DEFINE e    == mmap[range]
           new  == Boot!AddRange(all, e.from, e.to)
           newf == IF e.available THEN Boot!AddRange(free, e.from, e.to) ELSE free
           n    == Len(mmap)
<1>1. /\ phase = "add"
      /\ range \in 1..n /\ n \in Nat \ {0}
      /\ e.from \in Nat /\ e.to \in 0..TOP /\ e.from < e.to /\ e.available \in BOOLEAN
      /\ all \in Ranges /\ free \in Ranges
      /\ Boot!Addresses(free) \subseteq Boot!Addresses(all)
  BY BootState DEF Boot!AddEntry, Boot!IInv, Boot!IndexOK
<1>2. CASE Boot!Stop("full")
  BY <1>2, StopKeeps
<1>3. CASE /\ Boot!AtMostMax(new, all) /\ (e.available => Boot!AtMostMax(newf, free))
           /\ all' = new /\ free' = newf
           /\ Boot!Advance(n, "remove")
           /\ UNCHANGED <<mmap, given, zones, freed>>
  <2>1. /\ new \in Ranges
        /\ Boot!Addresses(new) = Boot!Addresses(all) \cup e.from .. e.to - 1
    <3> HIDE DEF e
    <3> QED BY <1>1, AddRangeUnites
  <2>2. /\ newf \in Ranges
        /\ Boot!Addresses(newf) = Boot!Addresses(free)
             \cup (IF e.available THEN e.from .. e.to - 1 ELSE {})
    <3> HIDE DEF e
    <3>1. CASE e.available
      BY <3>1, <1>1, AddRangeUnites
    <3>2. CASE ~e.available
      BY <3>2, <1>1
    <3> QED BY <3>1, <3>2
  <2>3. Len(all') <= MAX_RANGES /\ Len(free') <= MAX_RANGES
    BY <1>3, BootState DEF Boot!AtMostMax
  <2>4. \/ range < n /\ phase' = "add" /\ range' = range + 1
        \/ range = n /\ phase' = "remove" /\ range' = 1
    BY <1>1, <1>3 DEF Boot!Advance
  <2>5. Boot!Addresses(free') = Boot!Remaining(range, 0, 0)
    <3>1. Boot!Addresses(free) = Boot!Remaining(range - 1, 0, 0)
      BY <1>1 DEF Boot!IInv, Boot!FreeExact
    <3>2. /\ Boot!Remaining(range, 0, 0) = Boot!Entries(range, {TRUE})
          /\ Boot!Remaining(range - 1, 0, 0) = Boot!Entries(range - 1, {TRUE})
      BY EntriesNone, WithheldStep DEF Boot!Remaining, Withheld
    <3>3. Boot!Entries(range, {TRUE}) = Boot!Entries(range - 1, {TRUE})
            \cup (IF e.available THEN e.from .. e.to - 1 ELSE {})
      <4>1. e.available \in {TRUE} <=> e.available
        BY <1>1
      <4>2. range \in Nat \ {0}
        BY <1>1
      <4>3. Boot!Entries(range, {TRUE}) = Boot!Entries(range - 1, {TRUE})
              \cup (IF mmap[range].available \in {TRUE}
                    THEN mmap[range].from .. mmap[range].to - 1 ELSE {})
        BY <4>2, EntriesStep
      <4> QED BY <4>1, <4>3
    <3> HIDE DEF newf, e
    <3> QED BY <1>3, <2>2, <3>1, <3>2, <3>3
  <2>6. Boot!FreeExact'
    <3>1. \A a, r, w : Boot!Remaining(a, r, w)' = Boot!Remaining(a, r, w)
      BY <1>3, RemainingKept
    <3>2. Boot!Addresses(free)' = Boot!Remaining(range, 0, 0)
      BY <2>5
    <3>3. (phase' = "add" => range' - 1 = range) /\ (phase' = "remove" => range = n /\ range' - 1 = 0)
      BY <2>4, <1>1
    <3> QED BY <1>3, <2>4, <3>1, <3>2, <3>3 DEF Boot!FreeExact
  <2>7. Boot!IndexOK'
    <3>1. mmap \in Maps /\ range' \in 1..n
      BY <1>1, <2>4 DEF Boot!IInv, Boot!IndexOK
    <3> QED BY <1>3, <2>4, <3>1 DEF Boot!IndexOK
  <2>8. all' \in Ranges /\ free' \in Ranges
        /\ Boot!Addresses(free') \subseteq Boot!Addresses(all')
    <3> HIDE DEF new, newf, e
    <3> QED BY <1>1, <1>3, <2>1, <2>2
  <2>9. /\ phase' \in {"add", "remove", "reserve", "ready"}
        /\ range' \in Nat
    BY <1>1, <2>4
  <2>10. Boot!Addresses(all') = Boot!Entries(range, BOOLEAN)
    <3>1. Boot!Addresses(all) = Boot!Entries(range - 1, BOOLEAN)
      BY <1>1 DEF Boot!IInv, Boot!KnownExact
    <3> HIDE DEF new
    <3> QED BY <1>1, <1>3, <2>1, <3>1, EntriesKnown
  <2>11. Boot!KnownExact'
    <3>1. \A a, k : Boot!Entries(a, k)' = Boot!Entries(a, k)
      BY <1>3, RemainingKept
    <3>2. Boot!Addresses(all)' = Boot!Entries(range, BOOLEAN)
      BY <2>10
    <3>3. (phase' = "add" => range' - 1 = range) /\ (phase' = "remove" => range = n)
      BY <2>4, <1>1
    <3> QED BY <1>3, <2>4, <3>1, <3>2, <3>3 DEF Boot!KnownExact
  <2> QED BY <1>1, <1>3, <2>3, <2>6, <2>7, <2>8, <2>9, <2>11, SetupStep
<1> QED BY <1>2, <1>3 DEF Boot!AddEntry

LEMMA RemoveEntryKeeps ==
  ASSUME Boot!Assumption, Boot!IInv, Boot!RemoveEntry
  PROVE  Boot!IInv'
<1> DEFINE e   == mmap[range]
           new == IF e.available THEN free ELSE Boot!RemoveRange(free, e.from, e.to)
           n   == Len(mmap)
<1>1. /\ phase = "remove"
      /\ range \in 1..n /\ n \in Nat \ {0}
      /\ e.from \in Nat /\ e.to \in 0..TOP /\ e.from < e.to /\ e.available \in BOOLEAN
      /\ all \in Ranges /\ free \in Ranges /\ Len(all) <= MAX_RANGES
      /\ Boot!Addresses(free) \subseteq Boot!Addresses(all)
  BY BootState DEF Boot!RemoveEntry, Boot!IInv, Boot!IndexOK
<1>2. CASE Boot!Stop("full")
  BY <1>2, StopKeeps
<1>3. CASE /\ Boot!AtMostMax(new, free)
           /\ free' = new
           /\ Boot!Advance(n, "reserve")
           /\ UNCHANGED <<mmap, all, given, zones, freed>>
  <2>1. /\ new \in Ranges
        /\ Boot!Addresses(new) = Boot!Addresses(free)
             \ (IF e.available THEN {} ELSE e.from .. e.to - 1)
    <3>1. e.from <= e.to
      BY <1>1
    <3> HIDE DEF e
    <3>2. CASE e.available
      BY <3>2, <1>1
    <3>3. CASE ~e.available
      BY <3>1, <3>3, <1>1, RemoveRangeTakesOut
    <3> QED BY <3>2, <3>3
  <2>2. Len(free') <= MAX_RANGES
    BY <1>3 DEF Boot!AtMostMax
  <2>3. \/ range < n /\ phase' = "remove" /\ range' = range + 1
        \/ range = n /\ phase' = "reserve" /\ range' = 1
    BY <1>1, <1>3 DEF Boot!Advance
  <2>4. Boot!Addresses(free') = Boot!Remaining(n, range, 0)
    <3>1. Boot!Addresses(free) = Boot!Remaining(n, range - 1, 0)
      BY <1>1 DEF Boot!IInv, Boot!FreeExact
    <3>2. \A r : Boot!Remaining(n, r, 0) =
                   Boot!Entries(n, {TRUE}) \ Boot!Entries(r, {FALSE})
      BY WithheldStep DEF Boot!Remaining, Withheld
    <3>3. Boot!Entries(range, {FALSE}) = Boot!Entries(range - 1, {FALSE})
            \cup (IF e.available THEN {} ELSE e.from .. e.to - 1)
      <4>1. e.available \in {FALSE} <=> ~e.available
        BY <1>1
      <4>2. range \in Nat \ {0}
        BY <1>1
      <4>3. Boot!Entries(range, {FALSE}) = Boot!Entries(range - 1, {FALSE})
              \cup (IF mmap[range].available \in {FALSE}
                    THEN mmap[range].from .. mmap[range].to - 1 ELSE {})
        BY <4>2, EntriesStep
      <4> QED BY <4>1, <4>3
    <3> HIDE DEF new, e
    <3> QED BY <1>3, <2>1, <3>1, <3>2, <3>3
  <2>5. Boot!FreeExact'
    <3>1. \A a, r, w : Boot!Remaining(a, r, w)' = Boot!Remaining(a, r, w)
      BY <1>3, RemainingKept
    <3>2. Boot!Addresses(free)' = Boot!Remaining(n, range, 0)
      BY <2>4
    <3>3. (phase' = "remove" => range' - 1 = range) /\ (phase' = "reserve" => range = n /\ range' - 1 = 0)
      BY <2>3, <1>1
    <3> QED BY <1>3, <2>3, <3>1, <3>2, <3>3 DEF Boot!FreeExact
  <2>6. Boot!IndexOK'
    <3>1. mmap \in Maps /\ range' \in 1..n
      BY <1>1, <2>3 DEF Boot!IInv, Boot!IndexOK
    <3>2. 1 \in 1..Len(Boot!Reserved)
      BY ReservedIs
    <3> QED BY <1>3, <2>3, <3>1, <3>2 DEF Boot!IndexOK
  <2>7. all' \in Ranges /\ free' \in Ranges
        /\ Boot!Addresses(free') \subseteq Boot!Addresses(all')
    <3> HIDE DEF new, e
    <3> QED BY <1>1, <1>3, <2>1
  <2>8. /\ phase' \in {"add", "remove", "reserve", "ready"}
        /\ range' \in Nat
    BY <1>1, <2>3
  <2>9. Boot!KnownExact'
    BY <1>1, <1>3, <2>3, RemainingKept DEF Boot!KnownExact, Boot!IInv
  <2> QED BY <1>1, <1>3, <2>2, <2>5, <2>6, <2>7, <2>8, <2>9, SetupStep
<1> QED BY <1>2, <1>3 DEF Boot!RemoveEntry

LEMMA ReserveKeeps ==
  ASSUME Boot!Assumption, Boot!IInv, Boot!Reserve
  PROVE  Boot!IInv'
<1> DEFINE r    == Boot!Reserved[range]
           new  == Boot!RemoveRange(free, r.begin, r.end)
           m    == Len(Boot!Reserved)
           newa == IF range = m THEN Boot!AddRange(all, r.begin, r.end) ELSE all
           n    == Len(mmap)
<1>1. /\ phase = "reserve"
      /\ range \in 1..m /\ m \in Nat \ {0}
      /\ r.begin \in Nat /\ r.end \in 0..TOP /\ r.begin <= r.end
      /\ range = m => r.begin < r.end
      /\ all \in Ranges /\ free \in Ranges
      /\ Boot!Addresses(free) \subseteq Boot!Addresses(all)
  <2>1. /\ phase = "reserve" /\ range \in 1..m
        /\ all \in Ranges /\ free \in Ranges
        /\ Boot!Addresses(free) \subseteq Boot!Addresses(all)
    BY BootState DEF Boot!Reserve, Boot!IInv, Boot!IndexOK
  <2>2. TOP \in Nat /\ LOW \in 1..TOP
    BY DEF Boot!Assumption
  <2>3. /\ m \in Nat \ {0}
        /\ r.begin \in 0..TOP /\ r.end \in 0..TOP /\ r.begin <= r.end
        /\ range = m => r = [begin |-> 0, end |-> LOW]
    BY <2>1, ReservedIs
  <2> HIDE DEF r, m
  <2> QED BY <2>1, <2>2, <2>3
<1> HIDE DEF m
<1>2. CASE Boot!Stop("full")
  BY <1>2, StopKeeps
<1>3. CASE /\ Boot!AtMostMax(new, free) /\ Boot!AtMostMax(newa, all)
           /\ free' = new /\ all' = newa
           /\ Boot!Advance(m, "ready")
           /\ UNCHANGED <<mmap, given, zones, freed>>
  <2>1. /\ new \in Ranges
        /\ Boot!Addresses(new) = Boot!Addresses(free) \ (r.begin .. r.end - 1)
    <3> HIDE DEF r
    <3> QED BY <1>1, RemoveRangeTakesOut
  <2>2. /\ newa \in Ranges
        /\ Boot!Addresses(all) \subseteq Boot!Addresses(newa)
        /\ range = m => newa # << >>
    <3> HIDE DEF r
    <3>1. CASE range = m
      BY <3>1, <1>1, AddRangeUnites
    <3>2. CASE range # m
      BY <3>2, <1>1
    <3> QED BY <3>1, <3>2
  <2>3. Len(free') <= MAX_RANGES /\ Len(all') <= MAX_RANGES
    BY <1>3 DEF Boot!AtMostMax
  <2>4. \/ range < m /\ phase' = "reserve" /\ range' = range + 1
        \/ range = m /\ phase' = "ready" /\ range' = 1
    BY <1>1, <1>3 DEF Boot!Advance
  <2>5. Boot!Addresses(free') = Boot!Remaining(n, n, range)
    <3>1. Boot!Addresses(free) = Boot!Remaining(n, n, range - 1)
      BY <1>1 DEF Boot!IInv, Boot!FreeExact
    <3>2. \A w : Boot!Remaining(n, n, w) =
                   Boot!Entries(n, {TRUE}) \ (Boot!Entries(n, {FALSE}) \cup Withheld(w))
      BY DEF Boot!Remaining, Withheld
    <3>3. Withheld(range) = Withheld(range - 1) \cup r.begin .. r.end - 1
      BY <1>1, WithheldStep DEF m
    <3> HIDE DEF new, r
    <3> QED BY <1>3, <2>1, <3>1, <3>2, <3>3
  <2>6. Boot!FreeExact'
    <3>1. \A a, b, w : Boot!Remaining(a, b, w)' = Boot!Remaining(a, b, w)
      BY <1>3, RemainingKept
    <3>2. Boot!Addresses(free)' = Boot!Remaining(n, n, range)
      BY <2>5
    <3>3. (phase' = "reserve" => range' - 1 = range) /\ (phase' = "ready" => range = m)
      BY <2>4, <1>1
    <3>4. Boot!GivenBytes' = {}
      BY <1>1, <1>3 DEF Boot!GivenBytes, Boot!IInv, Boot!FreeKnown
    <3> QED BY <1>3, <2>4, <3>1, <3>2, <3>3, <3>4 DEF Boot!FreeExact, m
  <2>7. Boot!IndexOK'
    <3>1. mmap \in Maps /\ range' \in 1..m
      BY <1>1, <2>4 DEF Boot!IInv, Boot!IndexOK
    <3>2. phase' = "ready" => all' # << >>
      BY <1>3, <2>2, <2>4
    <3> QED BY <1>3, <2>4, <3>1, <3>2 DEF Boot!IndexOK, m
  <2>8. all' \in Ranges /\ free' \in Ranges
        /\ Boot!Addresses(free') \subseteq Boot!Addresses(all')
    <3> HIDE DEF new, newa, r
    <3> QED BY <1>1, <1>3, <2>1, <2>2
  <2>9. /\ phase' \in {"add", "remove", "reserve", "ready"}
        /\ range' \in Nat
    BY <1>1, <2>4
  <2>10. Boot!KnownExact'
    <3>1. CASE range < m
      BY <1>1, <1>3, <2>4, <3>1, RemainingKept DEF Boot!KnownExact, Boot!IInv
    <3>2. CASE range = m
      BY <1>1, <2>4, <3>2 DEF Boot!KnownExact
    <3> QED BY <1>1, <3>1, <3>2
  <2> QED BY <1>1, <1>3, <2>3, <2>6, <2>7, <2>8, <2>9, <2>10, SetupStep
<1> QED BY <1>2, <1>3 DEF Boot!Reserve, m

\* __balloc_alloc when it succeeds.
LEMMA AllocStep ==
  ASSUME Boot!Assumption, Boot!IInv, phase \in {"ready", "zones"},
         NEW r, r.from \in Nat, r.to \in Nat, r.size \in Nat \ {0},
         r.align \in Nat \ {0},
         Boot!Alloc(r), UNCHANGED <<mmap, all>>,
         phase' \in {"ready", "zones", "free"}
  PROVE  /\ free' \in Ranges /\ Len(free') <= MAX_RANGES
         /\ Boot!FreeExact' /\ Boot!GivenOK' /\ Boot!FreeKnown'
<1> DEFINE addr == Boot!FindRange(free, r)
           n    == Len(mmap)
           g    == [addr |-> addr, size |-> r.size, from |-> r.from, to |-> r.to]
           span == Boot!Span(addr, addr + r.size)
<1>1. /\ free \in Ranges /\ TOP \in Nat
      /\ Boot!Addresses(free) \subseteq Boot!Addresses(all)
  BY BootState DEF Boot!Assumption
<1>2. /\ addr \in Nat /\ addr + r.size \in 0..TOP
      /\ span \subseteq Boot!Addresses(free)
  BY <1>1, FindRangeFinds DEF Boot!Alloc
<1>3. /\ free' = Boot!RemoveRange(free, addr, addr + r.size)
      /\ given' = given \cup {g}
      /\ Len(free') <= MAX_RANGES
  BY DEF Boot!Alloc, Boot!Without, Boot!AtMostMax
<1>4. g \in [addr : Nat, size : Nat \ {0}, from : Nat, to : Nat]
      /\ g.addr = addr /\ g.size = r.size
  BY <1>2
<1> HIDE DEF addr, g
<1>5. free' \in Ranges /\ Boot!Addresses(free') = Boot!Addresses(free) \ span
  <2> DEFINE e == addr + r.size
  <2>1. e \in 0..TOP /\ addr <= e
    BY <1>1, <1>2
  <2>2. span = addr .. e - 1
    BY Spans
  <2>3. free' = Boot!RemoveRange(free, addr, e)
    BY <1>3
  <2> HIDE DEF e, span
  <2> QED BY <1>1, <1>2, <2>1, <2>2, <2>3, RemoveRangeTakesOut
<1>6. Boot!GivenBytes' = Boot!GivenBytes \cup span
  BY <1>3, <1>4 DEF Boot!GivenBytes
<1>7. Boot!Addresses(free) =
        Boot!Remaining(n, n, Len(Boot!Reserved)) \ Boot!GivenBytes
  BY DEF Boot!IInv, Boot!FreeExact
<1>8. /\ \A a, b, w : Boot!Remaining(a, b, w)' = Boot!Remaining(a, b, w)
      /\ \A a, k : Boot!Entries(a, k)' = Boot!Entries(a, k)
  BY RemainingKept
<1>9. Boot!FreeExact'
  <2>1. Boot!Addresses(free)' =
          Boot!Remaining(n, n, Len(Boot!Reserved)) \ Boot!GivenBytes'
    BY <1>5, <1>6, <1>7
  <2> QED BY <1>8, <2>1 DEF Boot!FreeExact
<1>10. Boot!GivenOK'
  <2>1. /\ \A h, k \in given :
             h # k => Boot!Span(h.addr, h.addr + h.size)
                        \cap Boot!Span(k.addr, k.addr + k.size) = {}
        /\ Boot!GivenBytes \subseteq Boot!Entries(n, {TRUE}) \ Boot!Addresses(Boot!Reserved)
    BY DEF Boot!IInv, Boot!GivenOK
  <2>2. Boot!Remaining(n, n, Len(Boot!Reserved)) \subseteq
          Boot!Entries(n, {TRUE}) \ Boot!Addresses(Boot!Reserved)
    BY WithheldStep DEF Boot!Remaining, Withheld
  <2>3. \A h \in given : Boot!Span(h.addr, h.addr + h.size) \cap span = {}
    BY <1>2, <1>7 DEF Boot!GivenBytes
  <2>4. \A h, k \in given' :
           h # k => Boot!Span(h.addr, h.addr + h.size)
                      \cap Boot!Span(k.addr, k.addr + k.size) = {}
    BY <1>3, <1>4, <2>1, <2>3
  <2>5. Boot!GivenBytes' \subseteq
          Boot!Entries(n, {TRUE}) \ Boot!Addresses(Boot!Reserved)
    BY <1>2, <1>6, <1>7, <2>1, <2>2
  <2> QED BY <1>8, <2>4, <2>5 DEF Boot!GivenOK
<1>11. Boot!FreeKnown'
  BY <1>1, <1>3, <1>4, <1>5 DEF Boot!FreeKnown, Boot!IInv
<1> QED BY <1>3, <1>5, <1>9, <1>10, <1>11

LEMMA RequestIs ==
  ASSUME Boot!Assumption, NEW r \in Requests
  PROVE  /\ r.from \in Nat /\ r.to \in Nat
         /\ r.size \in Nat \ {0} /\ r.align \in Nat \ {0}
BY DEF Boot!Assumption

LEMMA AllocFailsKeeps ==
  ASSUME Boot!Assumption, Boot!IInv, NEW r, Boot!AllocFails(r)
  PROVE  Boot!IInv'
BY StopKeeps DEF Boot!AllocFails

LEMMA EarlyAllocKeeps ==
  ASSUME Boot!Assumption, Boot!IInv, NEW r \in Requests, Boot!EarlyAlloc(r)
  PROVE  Boot!IInv'
<1>1. CASE Boot!AllocFails(r)
  BY <1>1, AllocFailsKeeps
<1>2. CASE /\ Boot!Alloc(r) /\ range' = range + 1
           /\ UNCHANGED <<mmap, phase, all, zones, freed>>
  <2>1. phase = "ready" /\ phase' = "ready" /\ zones = << >>
    BY <1>2, NothingYet DEF Boot!EarlyAlloc
  <2>2. /\ free' \in Ranges /\ Len(free') <= MAX_RANGES
        /\ Boot!FreeExact' /\ Boot!GivenOK' /\ Boot!FreeKnown'
    BY <1>2, <2>1, RequestIs, AllocStep
  <2>3. Boot!WellFormed'
    BY <1>2, <2>1, <2>2, BootState
       DEF Boot!WellFormed, Boot!TypeOK, Boot!Sorted, Ranges
  <2>4. Boot!BuddyGetsAll'
    BY <1>2, <2>1 DEF Boot!BuddyGetsAll
  <2>5. Boot!IndexOK'
    BY <1>2, <2>1 DEF Boot!IndexOK, Boot!IInv
  <2>6. Boot!ZonesOK'
    BY <1>2, <2>1 DEF Boot!ZonesOK, Boot!SeenRanges
  <2>7. Boot!FreedOK'
    BY <1>2, <2>1 DEF Boot!FreedOK, Boot!IInv
  <2>8. Boot!KnownExact'
    BY <1>2, <2>1 DEF Boot!KnownExact
  <2> QED BY <2>2, <2>3, <2>4, <2>5, <2>6, <2>7, <2>8 DEF Boot!IInv
<1> QED BY <1>1, <1>2 DEF Boot!EarlyAlloc

LEMMA BuddySetupKeeps ==
  ASSUME Boot!Assumption, Boot!IInv, Boot!BuddySetup
  PROVE  Boot!IInv'
<1>1. /\ phase = "ready" /\ phase' = "zones" /\ range' = 1
      /\ UNCHANGED <<mmap, all, free, given, zones, freed>>
  BY DEF Boot!BuddySetup
<1>2. zones = << >>
  BY <1>1, NothingYet
<1>3. Boot!WellFormed'
  BY <1>1, BootState DEF Boot!WellFormed, Boot!TypeOK, Boot!Sorted, Ranges
<1>4. Boot!FreeExact'
  BY <1>1, RemainingKept DEF Boot!FreeExact, Boot!GivenBytes, Boot!IInv
<1>5. Boot!GivenOK' /\ Boot!FreeKnown'
  BY <1>1, RemainingKept
     DEF Boot!GivenOK, Boot!GivenBytes, Boot!FreeKnown, Boot!IInv
<1>6. Boot!BuddyGetsAll'
  BY <1>1, <1>2 DEF Boot!BuddyGetsAll
<1>7. Boot!IndexOK'
  <2>1. all # << >> /\ mmap \in Maps
    BY <1>1 DEF Boot!IInv, Boot!IndexOK
  <2>2. 1 \in 1..Len(all)
    <3>1. Len(all) \in Nat /\ DOMAIN all = 1..Len(all) /\ all \in Seq(Boot!Range)
      BY BootState, RangesElements DEF Ranges
    <3> QED BY <3>1, <2>1
  <2> QED BY <1>1, <2>1, <2>2 DEF Boot!IndexOK
<1>8. Boot!ZonesOK'
  BY <1>1, <1>2 DEF Boot!ZonesOK, Boot!SeenRanges
<1>9. Boot!FreedOK'
  BY <1>1 DEF Boot!FreedOK, Boot!IInv
<1>10. Boot!KnownExact'
  BY <1>1 DEF Boot!KnownExact
<1> QED BY <1>3, <1>4, <1>5, <1>6, <1>7, <1>8, <1>9, <1>10 DEF Boot!IInv

\* Whole pages of different ranges are apart, and there are some exactly if the
\* range that buddy_setup looks at is not empty.
LEMMA PagesApart ==
  ASSUME Boot!Assumption, NEW rs \in Ranges
  PROVE  /\ \A j \in 1..Len(rs) :
              /\ Boot!PagesOf(rs[j]).begin \in Nat
              /\ Boot!PagesOf(rs[j]).end \in 0..TOP
              /\ Boot!PagesOf(rs[j]) = Boot!InPages(Boot!WholePages(rs[j]))
              /\ Boot!PagesOf(rs[j]) \in [begin : Nat, end : Nat]
              /\ Boot!WholePages(rs[j]).begin >= Boot!WholePages(rs[j]).end
                   <=> ~(Boot!PagesOf(rs[j]).begin < Boot!PagesOf(rs[j]).end)
         /\ \A j, k \in 1..Len(rs) :
              j < k => Boot!PagesOf(rs[j]).end <= Boot!PagesOf(rs[k]).begin
<1>1. BOOT_PAGE \in Nat \ {0} /\ TOP \in Nat
  BY DEF Boot!Assumption
<1>2. \A j \in 1..Len(rs) : /\ rs[j] \in Boot!Range
                            /\ rs[j].begin \in Nat /\ rs[j].end \in Nat
                            /\ rs[j].begin < rs[j].end
  BY RangesElements
<1>3. ASSUME NEW j \in 1..Len(rs)
      PROVE  /\ Boot!PagesOf(rs[j]).begin \in Nat
             /\ Boot!PagesOf(rs[j]).end \in 0..TOP
             /\ Boot!PagesOf(rs[j]) = Boot!InPages(Boot!WholePages(rs[j]))
             /\ Boot!PagesOf(rs[j]) \in [begin : Nat, end : Nat]
             /\ Boot!WholePages(rs[j]).begin >= Boot!WholePages(rs[j]).end
                  <=> ~(Boot!PagesOf(rs[j]).begin < Boot!PagesOf(rs[j]).end)
  <2> DEFINE p == Boot!PagesOf(rs[j])
             w == Boot!WholePages(rs[j])
  <2>1. /\ p.begin \in Nat /\ p.end \in 0..TOP
        /\ p = Boot!InPages(w)
        /\ p = [begin |-> p.begin, end |-> p.end]
        /\ w.begin = BOOT_PAGE * p.begin /\ w.end = BOOT_PAGE * p.end
    BY <1>2, Pages
  <2> HIDE DEF p, w
  <2>2. p.end \in Nat /\ BOOT_PAGE * p.begin \in Nat /\ BOOT_PAGE * p.end \in Nat
    BY <1>1, <2>1, MultiplesAligned
  <2>3. w.begin < w.end <=> p.begin < p.end
    BY <1>1, <2>1, <2>2, MultiplesOrder
  <2>4. w.begin \in Nat /\ w.end \in Nat
    BY <2>1, <2>2
  <2>5. w.begin >= w.end <=> ~(p.begin < p.end)
    BY <2>3, <2>4
  <2>6. p \in [begin : Nat, end : Nat]
    BY <2>1, <2>2
  <2> QED BY <2>1, <2>5, <2>6 DEF p, w
<1>4. ASSUME NEW j \in 1..Len(rs), NEW k \in 1..Len(rs), j < k
      PROVE  Boot!PagesOf(rs[j]).end <= Boot!PagesOf(rs[k]).begin
  <2> DEFINE e == Boot!PagesOf(rs[j]).end
             b == Boot!PagesOf(rs[k]).begin
  <2>1. /\ e \in Nat /\ BOOT_PAGE * e <= rs[j].end
        /\ b \in Nat /\ rs[k].begin <= BOOT_PAGE * b
    <3>1. e \in 0..TOP /\ BOOT_PAGE * e <= rs[j].end
      BY <1>2, Pages
    <3>2. b \in Nat /\ rs[k].begin <= BOOT_PAGE * b
      BY <1>2, Pages
    <3> HIDE DEF e, b
    <3> QED BY <3>1, <3>2, <1>1
  <2>2. rs[j].end < rs[k].begin
    BY <1>4, RangesApart
  <2> HIDE DEF e, b
  <2>3. BOOT_PAGE * e \in Nat /\ BOOT_PAGE * b \in Nat
    BY <1>1, <2>1, MultiplesAligned
  <2>4. BOOT_PAGE * e < BOOT_PAGE * b
    BY <1>2, <2>1, <2>2, <2>3
  <2>5. e < b
    BY <1>1, <2>1, <2>4, MultiplesOrder
  <2> QED BY <2>1, <2>5 DEF e, b
<1> QED BY <1>3, <1>4

\* Zones in order share no page.
LEMMA InOrderApart ==
  ASSUME NEW zs \in Seq([begin : Nat, end : Nat]),
         \A z \in DOMAIN zs : \A y \in 1..z - 1 : zs[y].end <= zs[z].begin
  PROVE  \A y, z \in DOMAIN zs :
           y # z => Boot!Span(zs[y].begin, zs[y].end)
                      \cap Boot!Span(zs[z].begin, zs[z].end) = {}
<1>1. ASSUME NEW y \in DOMAIN zs, NEW z \in DOMAIN zs, y < z
      PROVE  Boot!Span(zs[y].begin, zs[y].end)
               \cap Boot!Span(zs[z].begin, zs[z].end) = {}
  <2>1. /\ zs[y].begin \in Nat /\ zs[y].end \in Nat
        /\ zs[z].begin \in Nat /\ zs[z].end \in Nat
        /\ y \in 1..z - 1
    <3>1. DOMAIN zs = 1..Len(zs) /\ Len(zs) \in Nat
      OBVIOUS
    <3>2. zs[y] \in [begin : Nat, end : Nat] /\ zs[z] \in [begin : Nat, end : Nat]
      BY <3>1, ElementOfSeq
    <3> QED BY <3>1, <3>2, <1>1
  <2>2. zs[y].end <= zs[z].begin
    BY <2>1
  <2>3. /\ Boot!Span(zs[y].begin, zs[y].end) = zs[y].begin .. zs[y].end - 1
        /\ Boot!Span(zs[z].begin, zs[z].end) = zs[z].begin .. zs[z].end - 1
    BY Spans
  <2> QED BY <2>1, <2>2, <2>3, SMTT(30)
<1>2. \A y, z \in DOMAIN zs : y # z => y < z \/ z < y
  <2>1. DOMAIN zs \subseteq Nat
    OBVIOUS
  <2>2. \A y, z \in Nat : y # z => y < z \/ z < y
    OBVIOUS
  <2> QED BY <2>1, <2>2
<1> QED BY <1>1, <1>2

\* A range whose whole pages are pages p to q - 1 holds page n whole exactly if n
\* is one of these.
LEMMA PageInRange ==
  ASSUME Boot!Assumption, NEW r \in Boot!Range, r.begin < r.end
  PROVE  {p \in 0..TOP : Boot!Span(p * BOOT_PAGE, (p + 1) * BOOT_PAGE)
                           \subseteq Boot!Span(r.begin, r.end)}
           = Boot!Span(Boot!PagesOf(r).begin, Boot!PagesOf(r).end)
<1> DEFINE b == Boot!PagesOf(r).begin
           e == Boot!PagesOf(r).end
           a == BOOT_PAGE
<1>1. /\ b \in Nat /\ e \in 0..TOP
      /\ r.begin <= a * b /\ a * e <= r.end
      /\ \A q \in Nat : r.begin <= a * q => b <= q
      /\ \A q \in Nat : a * q <= r.end => q <= e
  BY Pages
<1>2. a \in Nat \ {0} /\ TOP \in Nat /\ r.begin \in Nat /\ r.end \in Nat
  BY DEF Boot!Assumption, Boot!Range
<1> HIDE DEF a, b, e
<1>3. ASSUME NEW p \in 0..TOP
      PROVE  Boot!Span(p * a, (p + 1) * a) \subseteq Boot!Span(r.begin, r.end)
               <=> b <= p /\ p < e
  <2> DEFINE l == a * p
             h == a * (p + 1)
  <2>1. p \in Nat /\ p + 1 \in Nat
    BY <1>2
  <2>2. /\ l \in Nat /\ h = l + a /\ h \in Nat
        /\ p * a = l /\ (p + 1) * a = h
    BY <2>1, <1>2, MultiplesAligned
  <2> HIDE DEF l, h
  <2>3. Boot!Span(p * a, (p + 1) * a) = l .. h - 1
    BY <2>2, Spans
  <2>4. l .. h - 1 \subseteq r.begin .. r.end - 1 <=> r.begin <= l /\ h <= r.end
    <3>1. l \in l .. h - 1 /\ h - 1 \in l .. h - 1
      BY <2>2, <1>2
    <3> QED BY <3>1, <2>2, <1>2
  <2>5. r.begin <= l <=> b <= p
    <3>1. r.begin <= l => b <= p
      BY <1>1, <2>1 DEF l
    <3>2. ASSUME b <= p PROVE r.begin <= l
      <4>1. a * b <= l
        <5>1. CASE b = p
          BY <5>1, <2>2 DEF l
        <5>2. CASE b < p
          <6>1. a * b < a * p
            BY <5>2, <1>1, <1>2, <2>1, MultiplesOrder
          <6>2. a * b \in Nat
            BY <1>1, <1>2, MultiplesAligned
          <6> QED BY <6>1, <6>2, <2>2 DEF l
        <5> QED BY <5>1, <5>2, <3>2, <1>1, <2>1
      <4>2. a * b \in Nat
        BY <1>1, <1>2, MultiplesAligned
      <4> QED BY <4>1, <4>2, <1>1, <1>2, <2>2
    <3> QED BY <3>1, <3>2
  <2>6. h <= r.end <=> p < e
    <3>1. h <= r.end => p + 1 <= e
      BY <1>1, <2>1 DEF h
    <3>2. ASSUME p < e PROVE h <= r.end
      <4>1. a * e \in Nat /\ e \in Nat
        BY <1>1, <1>2, MultiplesAligned
      <4>2. h <= a * e
        <5>1. CASE p + 1 = e
          BY <5>1, <4>1 DEF h
        <5>2. CASE p + 1 < e
          <6>1. a * (p + 1) < a * e
            BY <5>2, <4>1, <1>2, <2>1, MultiplesOrder
          <6> QED BY <6>1, <2>2, <4>1 DEF h
        <5> QED BY <5>1, <5>2, <3>2, <4>1, <2>1
      <4> QED BY <4>1, <4>2, <1>1, <1>2, <2>2
    <3> QED BY <3>1, <3>2, <1>1, <2>1
  <2>7. Boot!Span(r.begin, r.end) = r.begin .. r.end - 1
    BY Spans
  <2> QED BY <2>3, <2>4, <2>5, <2>6, <2>7
<1>4. Boot!Span(b, e) = b .. e - 1
  BY Spans
<1>5. {p \in 0..TOP : Boot!Span(p * a, (p + 1) * a) \subseteq Boot!Span(r.begin, r.end)}
        = b .. e - 1
  <2>1. \A p \in b .. e - 1 : p \in 0..TOP
    BY <1>1, <1>2
  <2>2. \A p \in 0..TOP : p \in b .. e - 1 <=> b <= p /\ p < e
    BY <1>1, <1>2
  <2> QED BY <1>3, <2>1, <2>2
<1> QED BY <1>4, <1>5 DEF a, b, e

LEMMA ZoneCreateKeeps ==
  ASSUME Boot!Assumption, Boot!IInv, Boot!ZoneCreate
  PROVE  Boot!IInv'
<1> DEFINE w == Boot!WholePages(all[range])
           z == Boot!InPages(w)
           r == [from |-> 0, to |-> TOP,
                 size |-> Descriptors(z.end - z.begin), align |-> BOOT_PAGE]
           m == Len(all)
<1>1. /\ phase = "zones" /\ range \in 1..m /\ m \in Nat /\ DOMAIN all = 1..m
      /\ all \in Ranges
  BY BootState, RangesElements DEF Boot!ZoneCreate, Boot!IInv, Boot!IndexOK
<1>2. /\ z = Boot!PagesOf(all[range])
      /\ z \in [begin : Nat, end : Nat] /\ z.end \in 0..TOP
      /\ w.begin >= w.end <=> ~(z.begin < z.end)
      /\ \A j \in 1..range - 1 : Boot!PagesOf(all[j]).end <= z.begin
  <2>1. \A j \in 1..range - 1 : j \in 1..m /\ j < range
    BY <1>1
  <2> HIDE DEF m
  <2> QED BY <1>1, <2>1, PagesApart DEF m
<1> HIDE DEF w, z, m
<1>3. CASE Boot!AllocFails(r)
  BY <1>3, AllocFailsKeeps
<1>4. ASSUME /\ Boot!Advance(m, "free")
             /\ UNCHANGED <<mmap, all, freed>>
             /\ free' \in Ranges /\ Len(free') <= MAX_RANGES
             /\ Boot!FreeExact' /\ Boot!GivenOK' /\ Boot!FreeKnown',
             \/ w.begin >= w.end /\ zones' = zones
             \/ ~(w.begin >= w.end) /\ zones' = Append(zones, z)
      PROVE  Boot!IInv'
  <2>1. \/ range < m /\ phase' = "zones" /\ range' = range + 1
        \/ range = m /\ phase' = "free" /\ range' = 1
    BY <1>1, <1>4 DEF Boot!Advance
  <2>2. Boot!WellFormed'
    BY <1>1, <1>4, <2>1, BootState
       DEF Boot!WellFormed, Boot!TypeOK, Boot!Sorted, Ranges
  <2>3. /\ zones \in Seq([begin : Nat, end : Nat])
        /\ \A k \in DOMAIN zones :
             /\ \E j \in 1..range - 1 : zones[k] = Boot!PagesOf(all[j])
             /\ zones[k].begin < zones[k].end
             /\ \A y \in 1..k - 1 : zones[y].end <= zones[k].begin
        /\ \A j \in 1..range - 1 :
             Boot!PagesOf(all[j]).begin < Boot!PagesOf(all[j]).end =>
               \E k \in DOMAIN zones : zones[k] = Boot!PagesOf(all[j])
    BY <1>1 DEF Boot!IInv, Boot!ZonesOK, Boot!SeenRanges
  <2>4. /\ zones' \in Seq([begin : Nat, end : Nat])
        /\ \A k \in DOMAIN zones' :
             /\ \E j \in 1..range : zones'[k] = Boot!PagesOf(all[j])
             /\ zones'[k].begin < zones'[k].end
             /\ \A y \in 1..k - 1 : zones'[y].end <= zones'[k].begin
        /\ \A j \in 1..range :
             Boot!PagesOf(all[j]).begin < Boot!PagesOf(all[j]).end =>
               \E k \in DOMAIN zones' : zones'[k] = Boot!PagesOf(all[j])
    <3>1. 1..range = 1..range - 1 \cup {range}
      BY <1>1
    <3>2. CASE w.begin >= w.end /\ zones' = zones
      BY <1>2, <2>3, <3>1, <3>2
    <3>3. CASE ~(w.begin >= w.end) /\ zones' = Append(zones, z)
      <4> DEFINE l == Len(zones)
      <4>1. l \in Nat /\ DOMAIN zones = 1..l
        BY <2>3
      <4>2. /\ zones' \in Seq([begin : Nat, end : Nat])
            /\ DOMAIN zones' = 1..l + 1
            /\ \A k \in 1..l : zones'[k] = zones[k]
            /\ zones'[l + 1] = z
        BY <1>2, <2>3, <3>3
      <4> HIDE DEF l
      <4>3. z.begin < z.end
        BY <1>2, <3>3
      <4>4. \A k \in 1..l + 1 : k \in 1..l \/ k = l + 1
        BY <4>1
      <4>5. ASSUME NEW k \in 1..l + 1
            PROVE  /\ \E j \in 1..range : zones'[k] = Boot!PagesOf(all[j])
                   /\ zones'[k].begin < zones'[k].end
                   /\ \A y \in 1..k - 1 : zones'[y].end <= zones'[k].begin
        <5>1. CASE k \in 1..l
          <6>1. \A y \in 1..k - 1 : y \in 1..l
            BY <5>1, <4>1
          <6>2. zones'[k] = zones[k] /\ \A y \in 1..k - 1 : zones'[y] = zones[y]
            BY <5>1, <6>1, <4>2
          <6>3. /\ \E j \in 1..range - 1 : zones[k] = Boot!PagesOf(all[j])
                /\ zones[k].begin < zones[k].end
                /\ \A y \in 1..k - 1 : zones[y].end <= zones[k].begin
            BY <5>1, <2>3, <3>1, <4>1
          <6> QED BY <6>2, <6>3, <2>3, <3>1
        <5>2. CASE k = l + 1
          <6>1. \A y \in 1..k - 1 : y \in 1..l
            BY <5>2, <4>1
          <6>2. \A y \in 1..l : zones[y].end <= z.begin
            BY <1>2, <2>3, <4>1
          <6> QED BY <5>2, <6>1, <6>2, <1>2, <3>1, <4>2, <4>3
        <5> QED BY <4>4, <5>1, <5>2
      <4>6. ASSUME NEW j \in 1..range,
                   Boot!PagesOf(all[j]).begin < Boot!PagesOf(all[j]).end
            PROVE  \E k \in 1..l + 1 : zones'[k] = Boot!PagesOf(all[j])
        <5>1. CASE j \in 1..range - 1
          <6>1. PICK k \in 1..l : zones[k] = Boot!PagesOf(all[j])
            BY <5>1, <4>6, <2>3, <4>1
          <6>2. k \in 1..l + 1
            BY <4>1
          <6> QED BY <6>1, <6>2, <4>2
        <5>2. CASE j = range
          <6>1. l + 1 \in 1..l + 1
            BY <4>1
          <6> QED BY <5>2, <6>1, <1>2, <4>2
        <5> QED BY <3>1, <5>1, <5>2
      <4> QED BY <4>2, <4>5, <4>6
    <3> QED BY <1>4, <3>2, <3>3
  <2>5. /\ (IF phase' \in {"free", "done"} THEN DOMAIN all'
            ELSE IF phase' = "zones" THEN 1..range' - 1 ELSE {}) = 1..range
    BY <1>1, <1>4, <2>1
  <2>6. Boot!ZonesOK'
    BY <1>4, <2>4, <2>5 DEF Boot!ZonesOK, Boot!SeenRanges
  <2>7. Boot!BuddyGetsAll'
    <3>1. \A y, k \in DOMAIN zones' :
            y # k => Boot!Span(zones'[y].begin, zones'[y].end)
                       \cap Boot!Span(zones'[k].begin, zones'[k].end) = {}
      BY <2>4, InOrderApart
    <3> QED BY <2>1, <3>1 DEF Boot!BuddyGetsAll
  <2>8. Boot!IndexOK'
    <3>1. mmap \in Maps /\ all # << >>
      BY <1>1 DEF Boot!IInv, Boot!IndexOK
    <3>2. Len(free') \in Nat
      BY <1>4 DEF Ranges
    <3>3. /\ phase' = "zones" => range' \in 1..Len(all')
          /\ phase' = "free" => range' \in 1..Len(free') + 1
      <4> HIDE DEF m
      <4>1. phase' = "zones" => range' \in 1..m
        BY <1>1, <2>1
      <4> QED BY <1>4, <2>1, <3>2, <4>1 DEF m
    <3>4. mmap' = mmap /\ all' = all /\ phase' \in {"zones", "free"}
      BY <1>4, <2>1
    <3> QED BY <3>1, <3>3, <3>4 DEF Boot!IndexOK
  <2>9. Boot!FreedOK'
    <3>1. freed \in Seq([begin : Nat, end : Nat]) /\ Boot!Addresses(freed) = {}
      BY <1>1 DEF Boot!IInv, Boot!FreedOK
    <3> QED BY <1>4, <2>1, <3>1 DEF Boot!FreedOK
  <2>10. Boot!KnownExact'
    BY <2>1 DEF Boot!KnownExact
  <2> QED BY <1>4, <2>2, <2>6, <2>7, <2>8, <2>9, <2>10 DEF Boot!IInv
<1>5. CASE /\ w.begin >= w.end /\ Boot!Advance(m, "free")
           /\ UNCHANGED <<mmap, all, free, given, zones, freed>>
  <2>1. free' \in Ranges /\ Len(free') <= MAX_RANGES
    BY <1>5, BootState
  <2>2. Boot!FreeExact'
    <3>1. phase' \in {"zones", "free"}
      BY <1>1, <1>5 DEF Boot!Advance
    <3> QED BY <1>1, <1>5, <3>1, RemainingKept
            DEF Boot!FreeExact, Boot!GivenBytes, Boot!IInv
  <2>3. Boot!GivenOK' /\ Boot!FreeKnown'
    BY <1>1, <1>5, RemainingKept
       DEF Boot!GivenOK, Boot!GivenBytes, Boot!FreeKnown, Boot!IInv, Boot!Advance
  <2> QED BY <1>4, <1>5, <2>1, <2>2, <2>3
<1>6. CASE /\ ~(w.begin >= w.end) /\ Boot!Alloc(r)
           /\ zones' = Append(zones, z)
           /\ Boot!Advance(m, "free")
           /\ UNCHANGED <<mmap, all, freed>>
  <2>1. z.end - z.begin \in 1..TOP /\ TOP \in Nat
    <3>1. z.begin \in Nat /\ z.begin < z.end /\ TOP \in Nat
      BY <1>2, <1>6 DEF Boot!Assumption
    <3> QED BY <3>1, <1>2
  <2>2. /\ r.from \in Nat /\ r.to \in Nat
        /\ r.size \in Nat \ {0} /\ r.align \in Nat \ {0}
    BY <2>1 DEF Boot!Assumption
  <2>3. phase' \in {"ready", "zones", "free"}
    BY <1>1, <1>6 DEF Boot!Advance
  <2> HIDE DEF r
  <2>4. /\ free' \in Ranges /\ Len(free') <= MAX_RANGES
        /\ Boot!FreeExact' /\ Boot!GivenOK' /\ Boot!FreeKnown'
    BY <1>1, <1>6, <2>2, <2>3, AllocStep
  <2> QED BY <1>4, <1>6, <2>4
<1> QED BY <1>3, <1>5, <1>6 DEF Boot!ZoneCreate, w, z, m

LEMMA AddressesAppend ==
  ASSUME NEW s \in Seq([begin : Nat, end : Nat]), NEW r \in [begin : Nat, end : Nat]
  PROVE  /\ Append(s, r) \in Seq([begin : Nat, end : Nat])
         /\ Boot!Addresses(Append(s, r)) =
              Boot!Addresses(s) \cup Boot!Span(r.begin, r.end)
<1> DEFINE t == Append(s, r)
           l == Len(s)
<1>1. /\ l \in Nat /\ DOMAIN s = 1..l
      /\ t \in Seq([begin : Nat, end : Nat])
      /\ DOMAIN t = 1..l + 1 /\ 1..l + 1 = 1..l \cup {l + 1}
      /\ \A k \in 1..l : t[k] = s[k]
      /\ t[l + 1] = r
  OBVIOUS
<1> HIDE DEF t, l
<1>2. /\ \A x : x \in Boot!Addresses(t) <=>
           \E k \in 1..l + 1 : x \in Boot!Span(t[k].begin, t[k].end)
      /\ \A x : x \in Boot!Addresses(s) <=>
           \E k \in 1..l : x \in Boot!Span(s[k].begin, s[k].end)
  BY <1>1 DEF Boot!Addresses
<1>3. Boot!Addresses(t) = Boot!Addresses(s) \cup Boot!Span(r.begin, r.end)
  BY <1>1, <1>2
<1> QED BY <1>1, <1>3 DEF t

Whole(p, r) == Boot!Span(p * BOOT_PAGE, (p + 1) * BOOT_PAGE)
                 \subseteq Boot!Span(r.begin, r.end)

\* A page is free as a whole exactly if one free range holds it.
LEMMA WholeFree ==
  ASSUME Boot!Assumption, NEW rs \in Ranges, NEW p \in Nat
  PROVE  Boot!Span(p * BOOT_PAGE, (p + 1) * BOOT_PAGE) \subseteq Boot!Addresses(rs)
           <=> \E j \in 1..Len(rs) : Whole(p, rs[j])
<1> DEFINE l == p * BOOT_PAGE
           h == (p + 1) * BOOT_PAGE
<1>1. BOOT_PAGE \in Nat \ {0}
  BY DEF Boot!Assumption
<1>2. l \in Nat /\ h \in Nat /\ l < h
  <2>1. BOOT_PAGE * p \in Nat /\ BOOT_PAGE * (p + 1) = BOOT_PAGE * p + BOOT_PAGE
    BY <1>1, MultiplesAligned
  <2>2. l = BOOT_PAGE * p /\ h = BOOT_PAGE * (p + 1)
    BY <1>1
  <2> HIDE DEF l, h
  <2> QED BY <1>1, <2>1, <2>2
<1> HIDE DEF l, h
<1>3. /\ Boot!Span(l, h) = l .. h - 1
      /\ \A b, e : Boot!Span(b, e) = b .. e - 1
  BY Spans
<1>4. /\ \A j \in 1..Len(rs) : rs[j].begin \in Nat /\ rs[j].end \in Nat
      /\ \A x : x \in Boot!Addresses(rs) <=>
           x \in Int /\ \E j \in 1..Len(rs) : rs[j].begin <= x /\ x < rs[j].end
  BY RangesElements
<1>5. ASSUME Boot!Span(l, h) \subseteq Boot!Addresses(rs)
      PROVE  \E j \in 1..Len(rs) : Boot!Span(l, h) \subseteq Boot!Span(rs[j].begin, rs[j].end)
  <2>1. l .. h - 1 \subseteq Boot!Addresses(rs)
    BY <1>3, <1>5
  <2>2. PICK j \in 1..Len(rs) : rs[j].begin <= l /\ h <= rs[j].end
    BY <1>2, <2>1, SegmentInOne
  <2>3. l .. h - 1 \subseteq rs[j].begin .. rs[j].end - 1
    BY <1>2, <1>4, <2>2
  <2> QED BY <1>3, <2>3
<1>6. ASSUME NEW j \in 1..Len(rs),
             Boot!Span(l, h) \subseteq Boot!Span(rs[j].begin, rs[j].end)
      PROVE  Boot!Span(l, h) \subseteq Boot!Addresses(rs)
  <2>1. \A x \in rs[j].begin .. rs[j].end - 1 : x \in Boot!Addresses(rs)
    BY <1>4
  <2> QED BY <1>3, <1>6, <2>1
<1> QED BY <1>5, <1>6 DEF Whole, l, h

\* A step of buddy_setup that frees pages, or passes over a range without any.
LEMMA ZoneFreeKeeps ==
  ASSUME Boot!Assumption, Boot!IInv, Boot!ZoneFree
  PROVE  Boot!IInv'
<1> DEFINE n == Len(free)
           w == Boot!WholePages(free[range])
           r == Boot!InPages(w)
           home == {z \in DOMAIN zones : /\ zones[z].begin <= r.begin
                                         /\ zones[z].end > r.begin}
           Freed(k) == {p \in 0..TOP : \E j \in 1..k : Whole(p, free[j])}
<1>1. /\ phase = "free" /\ range \in 1..n + 1 /\ n \in Nat /\ DOMAIN free = 1..n
      /\ free \in Ranges /\ all \in Ranges /\ TOP \in Nat
      /\ Boot!Addresses(free) \subseteq Boot!Addresses(all)
      /\ UNCHANGED <<mmap, all, free, given, zones>>
  BY BootState, RangesElements
     DEF Boot!ZoneFree, Boot!IInv, Boot!IndexOK, Boot!Assumption
<1>2. /\ freed \in Seq([begin : Nat, end : Nat])
      /\ Boot!Addresses(freed) = Freed(range - 1)
  BY <1>1 DEF Boot!IInv, Boot!FreedOK, Whole
<1>3. /\ zones \in Seq([begin : Nat, end : Nat])
      /\ \A k \in DOMAIN zones :
           /\ \E j \in 1..Len(all) : zones[k] = Boot!PagesOf(all[j])
           /\ zones[k].begin < zones[k].end
           /\ \A y \in 1..k - 1 : zones[y].end <= zones[k].begin
      /\ \A j \in 1..Len(all) :
           Boot!PagesOf(all[j]).begin < Boot!PagesOf(all[j]).end =>
             \E k \in DOMAIN zones : zones[k] = Boot!PagesOf(all[j])
  <2>1. DOMAIN all = 1..Len(all)
    BY <1>1, RangesElements
  <2> QED BY <1>1, <2>1 DEF Boot!IInv, Boot!ZonesOK, Boot!SeenRanges
\* What does not depend on how the step ends.
<1>4. ASSUME phase' \in {"free", "done"}, range' \in 1..n + 1
      PROVE  /\ Boot!WellFormed' /\ Boot!FreeExact' /\ Boot!GivenOK'
             /\ Boot!IndexOK' /\ Boot!FreeKnown' /\ Boot!KnownExact'
             /\ Boot!ZonesOK'
  <2>1. Boot!WellFormed'
    BY <1>1, <1>4, BootState
       DEF Boot!WellFormed, Boot!TypeOK, Boot!Sorted, Ranges
  <2>2. Boot!FreeExact'
    BY <1>1, <1>4, RemainingKept DEF Boot!FreeExact, Boot!GivenBytes, Boot!IInv
  <2>3. Boot!GivenOK' /\ Boot!FreeKnown'
    BY <1>1, <1>4, RemainingKept
       DEF Boot!GivenOK, Boot!GivenBytes, Boot!FreeKnown, Boot!IInv
  <2>4. Boot!IndexOK'
    BY <1>1, <1>4 DEF Boot!IndexOK, Boot!IInv
  <2>5. Boot!ZonesOK'
    BY <1>1, <1>4 DEF Boot!ZonesOK, Boot!SeenRanges, Boot!IInv
  <2>6. Boot!KnownExact'
    BY <1>4 DEF Boot!KnownExact
  <2> QED BY <2>1, <2>2, <2>3, <2>4, <2>5, <2>6
<1>5. \A y, z \in DOMAIN zones :
        y # z => Boot!Span(zones[y].begin, zones[y].end)
                   \cap Boot!Span(zones[z].begin, zones[z].end) = {}
  BY <1>3, InOrderApart
<1>6. CASE range > n /\ phase' = "done" /\ UNCHANGED <<range, freed>>
  <2>1. range - 1 = n
    BY <1>1, <1>6
  <2>2. Boot!Addresses(freed) =
          {p \in 0..TOP : Boot!Span(p * BOOT_PAGE, (p + 1) * BOOT_PAGE)
                            \subseteq Boot!Addresses(free)}
    <3>1. \A p \in 0..TOP :
            Boot!Span(p * BOOT_PAGE, (p + 1) * BOOT_PAGE) \subseteq Boot!Addresses(free)
              <=> \E j \in 1..n : Whole(p, free[j])
      <4>1. \A p \in 0..TOP : p \in Nat
        BY <1>1
      <4> QED BY <1>1, <4>1, WholeFree
    <3> QED BY <1>2, <2>1, <3>1
  <2>3. Boot!BuddyGetsAll'
    BY <1>1, <1>5, <1>6, <2>2 DEF Boot!BuddyGetsAll
  <2>4. Boot!FreedOK'
    BY <1>6 DEF Boot!FreedOK
  <2> QED BY <1>1, <1>4, <1>6, <2>3, <2>4 DEF Boot!IInv
<1>7. ASSUME ~(range > n), phase' = "free", range' = range + 1,
             freed' \in Seq([begin : Nat, end : Nat]),
             Boot!Addresses(freed') = Freed(range)
      PROVE  Boot!IInv'
  <2>1. Boot!BuddyGetsAll'
    BY <1>1, <1>5, <1>7 DEF Boot!BuddyGetsAll
  <2>2. Boot!FreedOK'
    <3>1. range' - 1 = range
      BY <1>1, <1>7
    <3> QED BY <1>1, <1>7, <3>1 DEF Boot!FreedOK, Whole
  <2>3. range' \in 1..n + 1
    BY <1>1, <1>7
  <2> QED BY <1>4, <1>7, <2>1, <2>2, <2>3 DEF Boot!IInv
\* The range it is at.
<1>8. ASSUME ~(range > n)
      PROVE  /\ range \in 1..n
             /\ r = Boot!PagesOf(free[range])
             /\ r \in [begin : Nat, end : Nat]
             /\ w.begin >= w.end <=> ~(r.begin < r.end)
             /\ Freed(range) = Freed(range - 1) \cup Boot!Span(r.begin, r.end)
  <2>1. range \in 1..n
    BY <1>1, <1>8
  <2>2. /\ r = Boot!PagesOf(free[range])
        /\ r \in [begin : Nat, end : Nat]
        /\ w.begin >= w.end <=> ~(r.begin < r.end)
    BY <1>1, <2>1, PagesApart
  <2>3. {p \in 0..TOP : Whole(p, free[range])} = Boot!Span(r.begin, r.end)
    <3>1. free[range] \in Boot!Range /\ free[range].begin < free[range].end
      BY <1>1, <2>1, RangesElements
    <3> HIDE DEF r
    <3> QED BY <3>1, <2>2, PageInRange DEF Whole
  <2>4. 1..range = 1..range - 1 \cup {range}
    BY <2>1
  <2> HIDE DEF r, w
  <2> QED BY <2>1, <2>2, <2>3, <2>4
\* Its pages are the pages of one zone.
<1>9. ASSUME ~(range > n), r.begin < r.end
      PROVE  \E z \in home : zones[z].end >= r.end /\ \A y \in home : z <= y
  <2>1. /\ range \in 1..n
        /\ free[range] \in Boot!Range /\ free[range].begin < free[range].end
        /\ free[range].begin \in Nat /\ free[range].end \in Nat
    BY <1>1, <1>8, <1>9, RangesElements
  <2>2. free[range].begin .. free[range].end - 1 \subseteq Boot!Addresses(all)
    <3>1. \A x \in free[range].begin .. free[range].end - 1 : x \in Boot!Addresses(free)
      <4>1. \A x : x \in Boot!Addresses(free) <=>
              x \in Int /\ \E j \in 1..n : free[j].begin <= x /\ x < free[j].end
        BY <1>1, RangesElements
      <4> QED BY <2>1, <4>1
    <3> QED BY <1>1, <3>1
  <2>3. PICK j \in 1..Len(all) : all[j].begin <= free[range].begin
                                 /\ free[range].end <= all[j].end
    BY <1>1, <2>1, <2>2, SegmentInOne
  <2> DEFINE q == Boot!PagesOf(all[j])
  <2>4. /\ all[j] \in Boot!Range /\ all[j].begin < all[j].end
        /\ all[j].begin \in Nat /\ all[j].end \in Nat
    BY <1>1, RangesElements
  <2>5. /\ q.begin \in Nat /\ q.end \in Nat
        /\ \A p \in Nat : all[j].begin <= BOOT_PAGE * p => q.begin <= p
        /\ \A p \in Nat : BOOT_PAGE * p <= all[j].end => p <= q.end
    <3>1. TOP \in Nat
      BY <1>1
    <3> QED BY <3>1, <2>4, Pages
  <2>6. /\ r.begin \in Nat /\ r.end \in Nat
        /\ free[range].begin <= BOOT_PAGE * r.begin
        /\ BOOT_PAGE * r.end <= free[range].end
    BY <2>1, <1>8, <1>9, Pages
  <2> HIDE DEF q, r
  <2>7. BOOT_PAGE * r.begin \in Nat /\ BOOT_PAGE * r.end \in Nat
    BY <2>6, MultiplesAligned DEF Boot!Assumption
  <2>8. q.begin <= r.begin /\ r.end <= q.end
    <3>1. all[j].begin <= BOOT_PAGE * r.begin /\ BOOT_PAGE * r.end <= all[j].end
      BY <2>1, <2>3, <2>4, <2>6, <2>7, SMTT(30)
    <3> QED BY <3>1, <2>5, <2>6
  <2>9. PICK z \in DOMAIN zones : zones[z] = q
    <3>1. q.begin < q.end
      BY <1>9, <2>5, <2>6, <2>8
    <3> QED BY <3>1, <1>3 DEF q
  <2>10. z \in home /\ zones[z].end >= r.end
    BY <1>9, <2>5, <2>6, <2>8, <2>9
  <2>11. ASSUME NEW y \in home, y < z PROVE FALSE
    <3>1. y \in DOMAIN zones /\ zones[y].end > r.begin
      OBVIOUS
    <3>2. y \in 1..z - 1 /\ zones[y].end \in Nat
      <4>1. DOMAIN zones = 1..Len(zones) /\ Len(zones) \in Nat
        BY <1>3
      <4>2. zones[y] \in [begin : Nat, end : Nat]
        BY <1>3, <3>1, <4>1, ElementOfSeq
      <4> QED BY <2>11, <3>1, <4>1, <4>2
    <3>3. zones[y].end <= zones[z].begin
      BY <1>3, <3>2
    <3> QED BY <2>5, <2>6, <2>8, <2>9, <3>1, <3>2, <3>3
  <2>12. \A y \in home : z <= y
    <3>1. \A y \in home : y \in Nat
      BY <1>3
    <3>2. z \in Nat
      BY <1>3
    <3> HIDE DEF home
    <3> QED BY <2>11, <3>1, <3>2
  <2> QED BY <2>10, <2>12
<1>10. CASE /\ ~(range > n) /\ w.begin >= w.end
            /\ range' = range + 1 /\ UNCHANGED <<phase, freed>>
  <2>1. Boot!Span(r.begin, r.end) = {}
    <3>1. r.begin \in Nat /\ r.end \in Nat /\ ~(r.begin < r.end)
      BY <1>8, <1>10
    <3>2. Boot!Span(r.begin, r.end) = r.begin .. r.end - 1
      BY Spans
    <3> QED BY <3>1, <3>2
  <2>2. Boot!Addresses(freed') = Freed(range)
    BY <1>2, <1>8, <1>10, <2>1
  <2> QED BY <1>1, <1>2, <1>7, <1>10, <2>2
<1>11. CASE /\ ~(range > n) /\ ~(w.begin >= w.end)
            /\ freed' = Append(freed, r)
            /\ range' = range + 1 /\ UNCHANGED phase
  <2>1. /\ freed' \in Seq([begin : Nat, end : Nat])
        /\ Boot!Addresses(freed') = Boot!Addresses(freed) \cup Boot!Span(r.begin, r.end)
    BY <1>2, <1>8, <1>11, AddressesAppend
  <2> QED BY <1>1, <1>2, <1>7, <1>8, <1>11, <2>1
<1>12. CASE /\ ~(range > n) /\ ~(w.begin >= w.end)
            /\ ~(\E z \in home : zones[z].end >= r.end /\ \A y \in home : z <= y)
  BY <1>8, <1>9, <1>12
<1> QED
  <2> HIDE DEF w, r, n
  <2> QED BY <1>6, <1>10, <1>11, <1>12 DEF Boot!ZoneFree, w, r, n

LEMMA BootNext ==
  ASSUME Boot!Assumption, Boot!IInv, [Boot!Next]_(Boot!vars)
  PROVE  Boot!IInv'
<1>1. CASE UNCHANGED Boot!vars
  <2> USE <1>1 DEF Boot!vars
  <2>1. Boot!WellFormed' /\ Boot!FreeExact' /\ Boot!GivenOK'
    BY RemainingKept
       DEF Boot!WellFormed, Boot!TypeOK, Boot!Sorted, Boot!FreeExact,
           Boot!GivenOK, Boot!GivenBytes, Boot!IInv
  <2>2. Boot!BuddyGetsAll' /\ Boot!IndexOK' /\ Boot!FreeKnown' /\ Boot!KnownExact'
    BY RemainingKept
       DEF Boot!BuddyGetsAll, Boot!IndexOK, Boot!FreeKnown, Boot!KnownExact, Boot!IInv
  <2>3. Boot!ZonesOK' /\ Boot!FreedOK'
    BY DEF Boot!ZonesOK, Boot!SeenRanges, Boot!FreedOK, Boot!IInv
  <2> QED BY <2>1, <2>2, <2>3 DEF Boot!IInv
<1>2. ASSUME NEW r \in Requests, Boot!EarlyAlloc(r) PROVE Boot!IInv'
  BY <1>2, EarlyAllocKeeps
<1>3. CASE Boot!Stopped
  BY <1>1, <1>3 DEF Boot!Stopped
<1> QED BY <1>1, <1>2, <1>3, AddEntryKeeps, RemoveEntryKeeps, ReserveKeeps,
           BuddySetupKeeps, ZoneCreateKeeps, ZoneFreeKeeps DEF Boot!Next

LEMMA BootImplies ==
  ASSUME Boot!Assumption, Boot!IInv
  PROVE  Boot!BootMemoryOK
<1>1. Boot!FailsOnlyWhenFull
  <2> SUFFICES ASSUME NEW r \in Requests, Boot!FindRange(free, r) = r.to,
                      NEW a \in r.from .. r.to - r.size, a % r.align = 0,
                      Boot!Span(a, a + r.size) \subseteq Boot!Addresses(free)
               PROVE  FALSE
    BY DEF Boot!FailsOnlyWhenFull
  <2>1. free \in Ranges
    BY BootState
  <2> QED BY <2>1, RequestIs, FindRangeMisses
<1> QED BY <1>1 DEF Boot!BootMemoryOK, Boot!RequestsOK, Boot!IInv

\* An array of ranges is the shortest way to write its addresses down.
LEMMA PiecesAre ==
  ASSUME Boot!Assumption, NEW rs \in Ranges
  PROVE  Boot!Pieces(Boot!Addresses(rs)) = Len(rs)
<1> DEFINE n == Len(rs)
           A == Boot!Addresses(rs)
           S == {a \in A : a - 1 \notin A}
           f == [j \in 1..n |-> rs[j].begin]
<1>1. /\ n \in Nat
      /\ \A j \in 1..n : /\ rs[j].begin \in Nat /\ rs[j].end \in Nat
                         /\ rs[j].begin < rs[j].end
      /\ \A x : x \in A <=>
           x \in Int /\ \E j \in 1..n : rs[j].begin <= x /\ x < rs[j].end
  BY RangesElements
<1>2. \A j, k \in 1..n : j < k => rs[j].end < rs[k].begin
  BY RangesApart
<1> HIDE DEF n, A
<1>3. ASSUME NEW j \in 1..n PROVE rs[j].begin \in S
  <2>1. rs[j].begin \in A
    BY <1>1
  <2>2. ASSUME NEW k \in 1..n, rs[k].begin <= rs[j].begin - 1,
               rs[j].begin - 1 < rs[k].end
        PROVE  FALSE
    <3>1. CASE k = j
      BY <1>1, <2>2, <3>1
    <3>2. CASE k < j
      BY <1>1, <1>2, <2>2, <3>2
    <3>3. CASE j < k
      BY <1>1, <1>2, <2>2, <3>3
    <3> QED BY <1>1, <3>1, <3>2, <3>3
  <2>3. rs[j].begin - 1 \notin A
    BY <1>1, <2>2
  <2> QED BY <2>1, <2>3
<1>4. ASSUME NEW a \in S PROVE \E j \in 1..n : a = rs[j].begin
  <2>1. PICK j \in 1..n : a \in Int /\ rs[j].begin <= a /\ a < rs[j].end
    BY <1>1
  <2>2. ASSUME rs[j].begin < a PROVE FALSE
    <3>1. a - 1 \in A
      BY <1>1, <2>1, <2>2
    <3> QED BY <3>1
  <2>3. a = rs[j].begin
    BY <1>1, <2>1, <2>2, SMTT(30)
  <2> QED BY <2>3
<1>5. \A j, k \in 1..n : rs[j].begin = rs[k].begin => j = k
  BY <1>1, <1>2
<1>6. f \in Bijection(1..n, S)
  <2>1. f \in [1..n -> S] /\ \A j \in 1..n : f[j] = rs[j].begin
    BY <1>3
  <2> HIDE DEF f, S
  <2>2. \A j, k \in 1..n : f[j] = f[k] => j = k
    BY <1>5, <2>1
  <2>3. \A a \in S : \E j \in 1..n : f[j] = a
    <3>1. \A a \in S : \E j \in 1..n : a = rs[j].begin
      BY <1>4 DEF S
    <3> QED BY <2>1, <3>1
  <2> QED BY <2>1, <2>2, <2>3, Zenon DEF Bijection, Injection, Surjection, IsInjective
<1>7. ExistsBijection(1..n, S)
  BY <1>6, Zenon DEF ExistsBijection
<1>8. Cardinality(S) = n
  <2> HIDE DEF S
  <2> QED BY <1>1, <1>7, FS_CountingElements
<1>9. Boot!Pieces(A) = Cardinality(S)
  <2>1. Boot!Pieces(A) = Boot!Cardinality(S)
    BY Zenon DEF Boot!Pieces
  <2> QED BY <2>1 DEF Boot!Cardinality, Cardinality
<1> QED BY <1>8, <1>9 DEF A, n

\* When a step of balloc_setup gives up, an array it made is too long.
LEMMA GivesUp ==
  ASSUME Boot!Assumption, Boot!IInv, Boot!Next,
         phase \in {"add", "remove", "reserve"}, phase' = "full"
  PROVE  \E rs \in Ranges : Boot!Addresses(rs) \in Boot!Needed /\ Len(rs) > MAX_RANGES
<1> DEFINE n == Len(mmap)
<1>1. /\ all \in Ranges /\ free \in Ranges /\ n \in Nat \ {0} /\ range \in Nat
      /\ Len(all) <= MAX_RANGES
      /\ \A j \in 1..n : /\ mmap[j].from \in Nat /\ mmap[j].to \in 0..TOP
                         /\ mmap[j].from < mmap[j].to /\ mmap[j].available \in BOOLEAN
  BY BootState
<1>2. \A rs \in Ranges : ~(Len(rs) <= MAX_RANGES) => Len(rs) > MAX_RANGES
  BY DEF Ranges, Boot!Assumption
<1>3. CASE phase = "add"
  <2> DEFINE e    == mmap[range]
             new  == Boot!AddRange(all, e.from, e.to)
             newf == IF e.available THEN Boot!AddRange(free, e.from, e.to) ELSE free
  <2>1. range \in 1..n /\ e.from \in Nat /\ e.to \in 0..TOP /\ e.from < e.to
        /\ e.available \in BOOLEAN
    BY <1>1, <1>3 DEF Boot!IInv, Boot!IndexOK
  <2>2. ~(Boot!AtMostMax(new, all) /\ (e.available => Boot!AtMostMax(newf, free)))
    BY <1>3 DEF Boot!Next, Boot!AddEntry, Boot!RemoveEntry, Boot!Reserve,
       Boot!EarlyAlloc, Boot!BuddySetup, Boot!ZoneCreate, Boot!ZoneFree,
       Boot!Stopped, Boot!vars, Boot!Advance
  <2>3. /\ new \in Ranges
        /\ Boot!Addresses(new) = Boot!Entries(range, BOOLEAN)
    <3>1. /\ new \in Ranges
          /\ Boot!Addresses(new) = Boot!Addresses(all) \cup e.from .. e.to - 1
      <4> HIDE DEF e
      <4> QED BY <1>1, <2>1, AddRangeUnites
    <3>2. Boot!Addresses(all) = Boot!Entries(range - 1, BOOLEAN)
      BY <1>3 DEF Boot!IInv, Boot!KnownExact
    <3> HIDE DEF new
    <3> QED BY <2>1, <3>1, <3>2, EntriesKnown
  <2>4. ASSUME e.available
        PROVE  /\ newf \in Ranges
               /\ Boot!Addresses(newf) = Boot!Remaining(range, 0, 0)
    <3>1. /\ newf \in Ranges
          /\ Boot!Addresses(newf) = Boot!Addresses(free) \cup e.from .. e.to - 1
      <4> HIDE DEF e
      <4> QED BY <1>1, <2>1, <2>4, AddRangeUnites
    <3>2. Boot!Addresses(free) = Boot!Remaining(range - 1, 0, 0)
      BY <1>3 DEF Boot!IInv, Boot!FreeExact
    <3>3. \A r : Boot!Remaining(r, 0, 0) = Boot!Entries(r, {TRUE})
      BY EntriesNone, WithheldStep DEF Boot!Remaining, Withheld
    <3>4. Boot!Entries(range, {TRUE}) = Boot!Entries(range - 1, {TRUE})
            \cup e.from .. e.to - 1
      <4>1. range \in Nat \ {0} /\ e.available \in {TRUE}
        BY <2>1, <2>4
      <4>2. Boot!Entries(range, {TRUE}) = Boot!Entries(range - 1, {TRUE})
              \cup (IF mmap[range].available \in {TRUE}
                    THEN mmap[range].from .. mmap[range].to - 1 ELSE {})
        BY <4>1, EntriesStep
      <4> QED BY <4>1, <4>2
    <3> HIDE DEF newf, e
    <3> QED BY <3>1, <3>2, <3>3, <3>4
  <2>5. /\ Boot!Entries(range, BOOLEAN) \in Boot!Needed
        /\ Boot!Remaining(range, 0, 0) \in Boot!Needed
    BY <1>3 DEF Boot!Needed
  <2> HIDE DEF new, newf, e
  <2> QED BY <1>2, <2>2, <2>3, <2>4, <2>5 DEF Boot!AtMostMax
<1>4. CASE phase = "remove"
  <2> DEFINE e   == mmap[range]
             new == IF e.available THEN free ELSE Boot!RemoveRange(free, e.from, e.to)
  <2>1. range \in 1..n /\ e.from \in Nat /\ e.to \in 0..TOP /\ e.from < e.to
        /\ e.available \in BOOLEAN
    BY <1>1, <1>4 DEF Boot!IInv, Boot!IndexOK
  <2>2. ~Boot!AtMostMax(new, free)
    BY <1>4 DEF Boot!Next, Boot!AddEntry, Boot!RemoveEntry, Boot!Reserve,
       Boot!EarlyAlloc, Boot!BuddySetup, Boot!ZoneCreate, Boot!ZoneFree,
       Boot!Stopped, Boot!vars, Boot!Advance
  <2>3. new \in Ranges /\ Boot!Addresses(new) = Boot!Remaining(n, range, 0)
    <3>1. CASE e.available
      <4>1. new = free
        BY <3>1
      <4>2. Len(free) <= MAX_RANGES
        BY BootState
      <4> HIDE DEF new
      <4> QED BY <2>2, <4>1, <4>2 DEF Boot!AtMostMax
    <3>2. CASE ~e.available
      <4>1. /\ new \in Ranges
            /\ Boot!Addresses(new) = Boot!Addresses(free) \ (e.from .. e.to - 1)
        <5>1. e.from <= e.to
          BY <2>1
        <5> HIDE DEF e
        <5> QED BY <1>1, <2>1, <3>2, <5>1, RemoveRangeTakesOut
      <4>2. Boot!Addresses(free) = Boot!Remaining(n, range - 1, 0)
        BY <1>4 DEF Boot!IInv, Boot!FreeExact
      <4>3. \A r : Boot!Remaining(n, r, 0) =
                     Boot!Entries(n, {TRUE}) \ Boot!Entries(r, {FALSE})
        BY WithheldStep DEF Boot!Remaining, Withheld
      <4>4. Boot!Entries(range, {FALSE}) = Boot!Entries(range - 1, {FALSE})
              \cup e.from .. e.to - 1
        <5>1. range \in Nat \ {0} /\ e.available \in {FALSE}
          <6>1. e.available \in {FALSE} <=> ~e.available
            BY <2>1
          <6>2. range \in Nat \ {0}
            BY <2>1
          <6> QED BY <3>2, <6>1, <6>2
        <5>2. Boot!Entries(range, {FALSE}) = Boot!Entries(range - 1, {FALSE})
                \cup (IF mmap[range].available \in {FALSE}
                      THEN mmap[range].from .. mmap[range].to - 1 ELSE {})
          BY <5>1, EntriesStep
        <5> QED BY <5>1, <5>2
      <4> HIDE DEF new, e
      <4> QED BY <4>1, <4>2, <4>3, <4>4
    <3> QED BY <3>1, <3>2
  <2>4. Boot!Remaining(n, range, 0) \in Boot!Needed
    BY <1>4 DEF Boot!Needed
  <2> HIDE DEF new
  <2> QED BY <1>2, <2>2, <2>3, <2>4 DEF Boot!AtMostMax
<1>5. CASE phase = "reserve"
  <2> DEFINE r    == Boot!Reserved[range]
             new  == Boot!RemoveRange(free, r.begin, r.end)
             m    == Len(Boot!Reserved)
             newa == IF range = m THEN Boot!AddRange(all, r.begin, r.end) ELSE all
  <2>1. /\ range \in 1..m
        /\ r.begin \in Nat /\ r.end \in 0..TOP /\ r.begin <= r.end
        /\ range = m => r = [begin |-> 0, end |-> LOW]
    <3>1. range \in 1..m
      BY <1>5 DEF Boot!IInv, Boot!IndexOK
    <3>2. /\ r.begin \in 0..TOP /\ r.end \in 0..TOP /\ r.begin <= r.end
          /\ range = m => r = [begin |-> 0, end |-> LOW]
      BY <3>1, ReservedIs
    <3>3. TOP \in Nat
      BY DEF Boot!Assumption
    <3> HIDE DEF r, m
    <3> QED BY <3>1, <3>2, <3>3
  <2> HIDE DEF m
  <2>2. ~(Boot!AtMostMax(new, free) /\ Boot!AtMostMax(newa, all))
    BY <1>5 DEF Boot!Next, Boot!AddEntry, Boot!RemoveEntry, Boot!Reserve,
       Boot!EarlyAlloc, Boot!BuddySetup, Boot!ZoneCreate, Boot!ZoneFree,
       Boot!Stopped, Boot!vars, Boot!Advance, m
  <2>3. new \in Ranges /\ Boot!Addresses(new) = Boot!Remaining(n, n, range)
    <3>1. /\ new \in Ranges
          /\ Boot!Addresses(new) = Boot!Addresses(free) \ (r.begin .. r.end - 1)
      <4> HIDE DEF r
      <4> QED BY <1>1, <2>1, RemoveRangeTakesOut
    <3>2. Boot!Addresses(free) = Boot!Remaining(n, n, range - 1)
      BY <1>5 DEF Boot!IInv, Boot!FreeExact
    <3>3. \A w : Boot!Remaining(n, n, w) =
                   Boot!Entries(n, {TRUE}) \ (Boot!Entries(n, {FALSE}) \cup Withheld(w))
      BY DEF Boot!Remaining, Withheld
    <3>4. Withheld(range) = Withheld(range - 1) \cup r.begin .. r.end - 1
      BY <2>1, WithheldStep DEF m
    <3> HIDE DEF new, r
    <3> QED BY <3>1, <3>2, <3>3, <3>4
  <2>4. ASSUME ~Boot!AtMostMax(newa, all)
        PROVE  /\ newa \in Ranges
               /\ Boot!Addresses(newa) = Boot!Entries(n, BOOLEAN) \cup Boot!Span(0, LOW)
    <3>1. range = m
      BY <1>1, <2>4 DEF Boot!AtMostMax
    <3>2. newa = Boot!AddRange(all, 0, LOW)
      BY <2>1, <3>1
    <3>3. LOW \in 0..TOP /\ 0 < LOW
      BY DEF Boot!Assumption
    <3>4. Boot!Addresses(all) = Boot!Entries(n, BOOLEAN)
      BY <1>5 DEF Boot!IInv, Boot!KnownExact
    <3>5. Boot!Span(0, LOW) = 0 .. LOW - 1
      BY Spans
    <3> HIDE DEF newa
    <3> QED BY <1>1, <3>2, <3>3, <3>4, <3>5, AddRangeUnites
  <2>5. /\ Boot!Remaining(n, n, range) \in Boot!Needed
        /\ Boot!Entries(n, BOOLEAN) \cup Boot!Span(0, LOW) \in Boot!Needed
    BY <1>5 DEF Boot!Needed
  <2> HIDE DEF new, newa
  <2> QED BY <1>2, <2>2, <2>3, <2>4, <2>5 DEF Boot!AtMostMax
<1> QED BY <1>3, <1>4, <1>5

LEMMA BootAlways == ASSUME Boot!Assumption PROVE Boot!Spec => []Boot!IInv
<1>1. Boot!Init => Boot!IInv
  BY BootInit
<1>2. Boot!IInv /\ [Boot!Next]_(Boot!vars) => Boot!IInv'
  BY BootNext
<1> QED BY <1>1, <1>2, PTL DEF Boot!Spec

\* Whatever the memory map says, the arrays of ranges stay sorted and apart and
\* stand for exactly the memory that is available, not busy, not reserved and
\* not given out; an allocation is aligned memory of nobody else, or there is
\* none; and the buddy allocator gets every whole free page in one zone
\* (src/balloc.c, src/buddy.c).
THEOREM BootMemoryCorrect == Boot!Spec => []BootMemoryOK
<1>1. Boot!Assumption
  BY PartsAssumption
<1>2. Boot!IInv => BootMemoryOK
  BY <1>1, BootImplies DEF BootMemoryOK
<1> QED BY <1>1, <1>2, BootAlways, PTL

\* balloc_setup gives up only when the memory it was told of takes more ranges
\* to write down than an array holds (src/balloc.c).
THEOREM BootMemoryGivesUp == Boot!Spec => BootGivesUpOnlyWhenFull
<1>0. Boot!Assumption
  BY PartsAssumption
<1> DEFINE A == phase' = "full" /\ phase \in {"add", "remove", "reserve"} =>
                  \E m \in Boot!Needed : Boot!Pieces(m) > MAX_RANGES
<1>1. ASSUME Boot!IInv, [Boot!Next]_(Boot!vars) PROVE [A]_(Boot!vars)
  <2>1. CASE UNCHANGED Boot!vars
    BY <2>1
  <2>2. CASE Boot!Next
    <3> SUFFICES ASSUME phase \in {"add", "remove", "reserve"}, phase' = "full"
                 PROVE  \E m \in Boot!Needed : Boot!Pieces(m) > MAX_RANGES
      OBVIOUS
    <3>1. PICK rs \in Ranges : Boot!Addresses(rs) \in Boot!Needed /\ Len(rs) > MAX_RANGES
      BY <1>0, <1>1, <2>2, GivesUp
    <3>2. Boot!Pieces(Boot!Addresses(rs)) = Len(rs)
      BY <1>0, PiecesAre
    <3> QED BY <3>1, <3>2
  <2> QED BY <1>1, <2>1, <2>2
<1> HIDE DEF A
<1>2. Boot!Spec => [][A]_(Boot!vars)
  BY <1>0, <1>1, BootAlways, PTL DEF Boot!Spec
<1> QED BY <1>2 DEF BootGivesUpOnlyWhenFull, Boot!GivesUpOnlyWhenFull, A
=============================================================================
