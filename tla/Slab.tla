--------------------------------- MODULE Slab ---------------------------------
(***************************************************************************)
(* src/slab.c: one cache of objects of one size, cut out of blocks of the  *)
(* buddy allocator.  Allocation and release of an object run with the      *)
(* spinlock of the cache held and interrupts masked, so each is a step;    *)
(* slab_cache_shrink detaches the empty slabs in one step and gives them   *)
(* back one by one, with interrupts on, while others use the cache.        *)
(* An address is a number: slab and object are found from each other by    *)
(* the same arithmetic as in the code.                                     *)
(***************************************************************************)
EXTENDS Integers, Sequences, FiniteSets, SequencesExt

CONSTANTS
  PAGE_SIZE, MAX_ORDER,  \* of the buddy allocator
  META,                  \* sizeof(struct slab), at the end of each slab
  LINK,                  \* sizeof(struct list), at the start of a free object
  Sizes, Aligns,         \* the arguments __slab_cache_setup may get
  BLOCKS,                \* how many blocks the buddy allocator has for us
  Caller                 \* threads that may be inside slab_cache_shrink

\* What an instance has to give the constants.  The last is so of any order.
Assumption ==
  /\ {BLOCKS, MAX_ORDER, META, LINK} \subseteq Nat \ {0}
  /\ PAGE_SIZE \in Nat /\ META < PAGE_SIZE
  /\ Sizes \subseteq Nat \ {0} /\ Aligns \subseteq Nat \ {0}
  /\ \A o \in 0..MAX_ORDER : 2^o > 0

VARIABLES
  cache,     \* what __slab_cache_setup computed: [order, size, obj]
  pool,      \* blocks the buddy allocator has free, by number
  full, partial, empty,  \* the cache's lists of slabs, by number
  list,      \* slab->free, for every block that is a slab
  count,     \* slab->size
  busy,      \* addresses of the objects given out
  pc,        \* where in slab_cache_shrink a caller is
  detached   \* its local list

vars == <<cache, pool, full, partial, empty, list, count, busy, pc, detached>>
heap == <<full, partial, empty, list, count, busy>>

Block == 1..BLOCKS

-----------------------------------------------------------------------------
(* __slab_cache_setup                                                      *)

AlignUp(x, align) == (x + align - 1) - ((x + align - 1) % align)

BytesFor(order) == PAGE_SIZE * 2^order - META

\* The smallest order whose slabs have MAX_ORDER objects; the loop of the code
\* ends one above the last order when there is none.
Setup(size, align) ==
  LET obj == AlignUp(IF size < LINK THEN LINK ELSE size, align)
      good == {o \in 0..MAX_ORDER : BytesFor(o) \div obj >= MAX_ORDER}
      order == IF good = {} THEN MAX_ORDER + 1
               ELSE CHOOSE o \in good : \A p \in good : o <= p
      last == IF good = {} THEN MAX_ORDER ELSE order
  IN [order |-> order, size |-> BytesFor(last) \div obj, obj |-> obj]

Bytes == PAGE_SIZE * 2^cache.order

Base(b) == b * Bytes
SlabOf(addr) == addr \div Bytes

Init == /\ \E size \in Sizes, align \in Aligns : cache = Setup(size, align)
        /\ pool = Block
        /\ full = <<>> /\ partial = <<>> /\ empty = <<>>
        /\ list = [b \in Block |-> <<>>]
        /\ count = [b \in Block |-> 0]
        /\ busy = {}
        /\ pc = [c \in Caller |-> "out"]
        /\ detached = [c \in Caller |-> <<>>]

-----------------------------------------------------------------------------
(* slab_cache_alloc                                                        *)

\* The free list slab_create builds: the last object first.
NewList(b) == [k \in 1..cache.size |-> Base(b) + (cache.size - k) * cache.obj]

\* slab_alloc on slab b, whose free list is objects, and the list it goes to;
\* part and emp are those lists without b.
Take(b, objects, part, emp) ==
  LET left == Len(objects) - 1
  IN /\ busy' = busy \cup {Head(objects)}
     /\ list' = [list EXCEPT ![b] = Tail(objects)]
     /\ count' = [count EXCEPT ![b] = left]
     /\ empty' = emp
     /\ IF left # 0 THEN partial' = <<b>> \o part /\ full' = full
                    ELSE partial' = part /\ full' = <<b>> \o full

AllocPartial == /\ partial # <<>>
                /\ LET b == Head(partial)
                   IN Take(b, list[b], Tail(partial), empty)
                /\ UNCHANGED <<cache, pool, pc, detached>>

AllocEmpty == /\ partial = <<>> /\ empty # <<>>
              /\ LET b == Head(empty)
                 IN Take(b, list[b], partial, Tail(empty))
              /\ UNCHANGED <<cache, pool, pc, detached>>

\* slab_create; the buddy allocator has no blocks above MAX_ORDER.
AllocNew == /\ partial = <<>> /\ empty = <<>>
            /\ cache.order <= MAX_ORDER
            /\ \E b \in pool : /\ pool' = pool \ {b}
                               /\ Take(b, NewList(b), partial, empty)
            /\ UNCHANGED <<cache, pc, detached>>

AllocFails == /\ partial = <<>> /\ empty = <<>>
              /\ pool = {} \/ cache.order > MAX_ORDER
              /\ UNCHANGED vars

-----------------------------------------------------------------------------
(* slab_cache_free                                                         *)

\* list_del(&slab->ll): b leaves the list it is in.
Without(slabs, b) ==
  IF b \in ToSet(slabs)
  THEN RemoveAt(slabs, CHOOSE i \in DOMAIN slabs : slabs[i] = b) ELSE slabs

Whole(n) == n = cache.size

Free(addr) ==
  /\ addr \in busy
  /\ LET b == SlabOf(addr)
         n == count[b] + 1
         part == Without(partial, b)
         emp == Without(empty, b)
     IN /\ busy' = busy \ {addr}
        /\ list' = [list EXCEPT ![b] = <<addr>> \o @]
        /\ count' = [count EXCEPT ![b] = n]
        /\ full' = Without(full, b)
        /\ IF Whole(n) THEN empty' = <<b>> \o emp /\ partial' = part
                       ELSE partial' = <<b>> \o part /\ empty' = emp
  /\ UNCHANGED <<cache, pool, pc, detached>>

-----------------------------------------------------------------------------
(* slab_cache_shrink and slab_cache_release                                *)

\* slab_cache_shrink is called.
Shrink(c) == /\ pc[c] = "out"
             /\ pc' = [pc EXCEPT ![c] = "shrink"]
             /\ UNCHANGED <<cache, pool, heap, detached>>

\* slab_cache_release: it stops the machine if objects are in use.
Release(c) == /\ pc[c] = "out"
              /\ pc' = [pc EXCEPT ![c] =
                          IF full = <<>> /\ partial = <<>> THEN "shrink"
                          ELSE "hang"]
              /\ UNCHANGED <<cache, pool, heap, detached>>

\* Mutant: list_splice leaves the cache's own list as it was.
ShrinkTakeCopy(c) == /\ pc[c] = "shrink"
                     /\ detached' = [detached EXCEPT ![c] = empty]
                     /\ pc' = [pc EXCEPT ![c] = "destroy"]
                     /\ UNCHANGED <<cache, pool, heap>>

ShrinkTake(c) == /\ pc[c] = "shrink"
                 /\ detached' = [detached EXCEPT ![c] = empty]
                 /\ empty' = <<>>
                 /\ pc' = [pc EXCEPT ![c] = "destroy"]
                 /\ UNCHANGED <<cache, pool, full, partial, list, count, busy>>

ShrinkDestroy(c) ==
  /\ pc[c] = "destroy"
  /\ IF detached[c] = <<>>
     THEN /\ pc' = [pc EXCEPT ![c] = "out"]
          /\ UNCHANGED <<pool, detached, list, count>>
     ELSE LET b == Head(detached[c])
          IN /\ pool' = pool \cup {b}
             /\ detached' = [detached EXCEPT ![c] = Tail(@)]
             /\ list' = [list EXCEPT ![b] = <<>>]
             /\ count' = [count EXCEPT ![b] = 0]
             /\ UNCHANGED pc
  /\ UNCHANGED <<cache, full, partial, empty, busy>>

-----------------------------------------------------------------------------
Next == \/ AllocPartial \/ AllocEmpty \/ AllocNew \/ AllocFails
        \/ \E addr \in busy : Free(addr)
        \/ \E c \in Caller : Shrink(c) \/ Release(c) \/ ShrinkTake(c)
                             \/ ShrinkDestroy(c)

Spec == Init /\ [][Next]_vars

-----------------------------------------------------------------------------
Listed == full \o partial \o empty
Detached == UNION {ToSet(detached[c]) : c \in Caller}
Objects(b) == {Base(b) + k * cache.obj : k \in 0..cache.size - 1}

TypeOK ==
  /\ cache \in [order : 0..MAX_ORDER + 1, size : Nat, obj : Nat \ {0}]
  /\ pool \subseteq Block
  /\ {full, partial, empty} \subseteq Seq(Block)
  /\ list \in [Block -> Seq(Nat)]
  /\ count \in [Block -> 0..cache.size]
  /\ pc \in [Caller -> {"out", "shrink", "destroy", "hang"}]
  /\ detached \in [Caller -> Seq(Block)]

\* A slab is in one list, the one its count of free objects says.  Allocation
\* takes slabs from the lists without looking at the count, so a slab in the
\* wrong list gives out a null pointer or is destroyed under its users.
ListsOK ==
  /\ IsInjective(Listed)
  /\ \A b \in ToSet(full) : count[b] = 0
  /\ \A b \in ToSet(partial) : count[b] \in 1..cache.size - 1
  /\ \A b \in ToSet(empty) \cup Detached : count[b] = cache.size

\* Values of the right kind, and slabs in the lists they belong to.
WellFormed == TypeOK /\ ListsOK

\* In every slab the free list holds as many objects as are counted, each once,
\* and the others are the ones given out: no object is given out twice.
ObjectsOK ==
  /\ \A b \in ToSet(Listed) \cup Detached :
       /\ count[b] = Len(list[b])
       /\ IsInjective(list[b])
       /\ ToSet(list[b]) = Objects(b) \ busy
  /\ busy \subseteq UNION {Objects(b) : b \in ToSet(full) \cup ToSet(partial)}

\* No two objects overlap, and none reaches into the descriptor of its slab or
\* out of its block.
LayoutOK ==
  \A b \in ToSet(Listed) : \A x \in Objects(b) :
    /\ x >= Base(b) /\ x + cache.obj <= Base(b) + Bytes - META
    /\ SlabOf(x) = b
    /\ \A y \in Objects(b) : x < y => x + cache.obj <= y

\* Both together: an object is its holder's alone, and so are all its bytes.
ObjectsApart == ObjectsOK /\ LayoutOK

\* Every block is the buddy allocator's, or a slab in a list, or one that is
\* being given back; so none leaks, however shrinking and the rest interleave.
NoLeak ==
  /\ pool \cup ToSet(Listed) \cup Detached = Block
  /\ pool \cap (ToSet(Listed) \cup Detached) = {}
  /\ ToSet(Listed) \cap Detached = {}
  /\ \A c, d \in Caller :
       c # d => ToSet(detached[c]) \cap ToSet(detached[d]) = {}

SlabOK == WellFormed /\ ObjectsApart /\ NoLeak

\* What __slab_cache_setup leaves: there is room for the objects in front of the
\* descriptor, or no slab is ever made.
CacheOK ==
  IF cache.order <= MAX_ORDER
  THEN cache.size # 0 /\ cache.size * cache.obj + META <= Bytes
  ELSE Listed = <<>> /\ Detached = {}

\* Only while its caller destroys slabs is there something in a local list.
ShrinkOK == \A c \in Caller : /\ IsInjective(detached[c])
                              /\ detached[c] # <<>> => pc[c] = "destroy"

\* Inductive; LayoutOK follows.
IInv == WellFormed /\ ObjectsOK /\ NoLeak /\ CacheOK /\ ShrinkOK
=============================================================================
