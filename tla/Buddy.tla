-------------------------------- MODULE Buddy --------------------------------
(***************************************************************************)
(* src/buddy.c: the physical page allocator.  Each zone is a buddy         *)
(* allocator over a range of pages.  buddy_setup feeds it the ranges       *)
(* balloc left free; then any number of callers allocate and free blocks.  *)
(* A zone is worked on with its spinlock held and interrupts masked, so    *)
(* one zone is one step; a caller of buddy_alloc goes from zone to zone    *)
(* and may be preempted in between.                                        *)
(***************************************************************************)
EXTENDS Integers, Sequences, FiniteSets, SequencesExt

CONSTANTS
  MAX_ORDER,   \* order of the largest block
  Zones,       \* the zones, in the order of the list buddy_zones
  FreeRanges,  \* the page ranges buddy_setup frees, in order
  Caller,      \* the threads that may be inside buddy_alloc at a time
  Stale        \* what the flags and order of a struct page may be before
               \* anything wrote them: balloc does not clear memory

\* Zones and ranges are what WholePages of BootMemory makes of balloc's arrays:
\* none is empty, and no two touch, as the ranges balloc keeps do not either.
PageRange == [begin : Nat, end : Nat]
Apart(ranges) ==
  /\ ranges \in Seq(PageRange)
  /\ \A i \in DOMAIN ranges : ranges[i].begin < ranges[i].end
  /\ \A i, j \in DOMAIN ranges :
       i # j => \/ ranges[i].end < ranges[j].begin
                \/ ranges[j].end < ranges[i].begin

\* What an instance has to give the constants; powers of two are what they are.
Assumption ==
  /\ MAX_ORDER \in Nat
  /\ 2^0 = 1 /\ \A k \in 0..MAX_ORDER : 2^k \in Nat \ {0} /\ 2^(k+1) = 2 * 2^k
  /\ Zones # <<>> /\ Apart(Zones)
  /\ Apart(FreeRanges)
  /\ \A i \in DOMAIN FreeRanges : \E z \in DOMAIN Zones :
       /\ Zones[z].begin <= FreeRanges[i].begin
       /\ FreeRanges[i].end <= Zones[z].end
  /\ Stale \subseteq BOOLEAN \X (0..MAX_ORDER)

VARIABLES
  isfree,   \* the PAGE_FREE_MASK bit of the flags of every page
  border,   \* page->order
  order,    \* zone->order: for every zone and order, a list of pages
  todo,     \* what buddy_setup has still to free, ranges [begin, end)
  call,     \* the buddy_alloc a caller is in: <<zone, order>>, or Idle
  held      \* the blocks given out and not freed: <<first page, order>>

vars == <<isfree, border, order, todo, call, held>>

Order == 0..MAX_ORDER
PagesOf(z) == Zones[z].begin .. Zones[z].end - 1
Page == UNION {PagesOf(z) : z \in DOMAIN Zones}
Idle == <<>>

\* buddy_find_zone
ZoneOf(p) == CHOOSE z \in DOMAIN Zones : p \in PagesOf(z)

\* idx ^ (1 << k)
Flip(idx, k) == IF (idx \div 2^k) % 2 = 0 THEN idx + 2^k ELSE idx - 2^k

\* What list_del makes of a list; a node that is in no list changes none.
Without(list, p) ==
  IF p \notin ToSet(list) THEN list
  ELSE RemoveAt(list, CHOOSE i \in DOMAIN list : list[i] = p)

Init == /\ \E page \in [Page -> Stale] :
             /\ isfree = [p \in Page |-> page[p][1]]
             /\ border = [p \in Page |-> page[p][2]]
        /\ order = [z \in DOMAIN Zones |-> [k \in Order |-> <<>>]]
        /\ todo = FreeRanges
        /\ call = [c \in Caller |-> Idle]
        /\ held = {}

-----------------------------------------------------------------------------
(* buddy_zone_free, one block at a time.                                   *)

\* The largest block that begins at the page, is aligned and fits.
FirstFit(begin, end) ==
  CHOOSE k \in Order :
    /\ \A j \in 0..k-1 : (begin \div 2^j) % 2 = 0 /\ begin + 2^(j+1) <= end
    /\ k < MAX_ORDER => \/ (begin \div 2^k) % 2 = 1
                        \/ begin + 2^(k+1) > end

ZoneFree ==
  /\ todo # <<>>
  /\ LET range == Head(todo)
         z     == ZoneOf(range.begin)
         k     == FirstFit(range.begin, range.end)
         next  == range.begin + 2^k
     IN /\ border' = [border EXCEPT ![range.begin] = k]
        /\ isfree' = [isfree EXCEPT ![range.begin] = TRUE]
        /\ order' = [order EXCEPT ![z][k] = Append(@, range.begin)]
        /\ todo' = IF next = range.end THEN Tail(todo)
                   ELSE <<[range EXCEPT !.begin = next]>> \o Tail(todo)
  /\ UNCHANGED <<call, held>>

-----------------------------------------------------------------------------
(* buddy_alloc                                                             *)

AllocBegin(c) == /\ todo = <<>>
                 /\ call[c] = Idle
                 /\ \E k \in Order : call' = [call EXCEPT ![c] = <<1, k>>]
                 /\ UNCHANGED <<isfree, border, order, todo, held>>

FreeAfterSplit(idx, halves) ==
  [p \in Page |-> p # idx /\ (p \in halves \/ isfree[p])]

\* The block at the head of the first list that is not empty is split: its
\* right halves go to the lists below, its first page to the caller.
AllocZone(c) ==
  /\ call[c] # Idle
  /\ LET z == call[c][1]
         k == call[c][2]
     IN \E current \in k..MAX_ORDER :
          /\ order[z][current] # <<>>
          /\ \A j \in k..current-1 : order[z][j] = <<>>
          /\ LET idx == Head(order[z][current])
                 half(j) == Flip(idx, j)
                 halves == {half(j) : j \in k..current-1}
             IN /\ isfree' = FreeAfterSplit(idx, halves)
                /\ border' = [p \in Page |->
                     IF p \in halves
                     THEN CHOOSE j \in k..current-1 : half(j) = p
                     ELSE border[p]]
                /\ order' = [order EXCEPT ![z] = [j \in Order |->
                     IF j = current THEN Tail(@[j])
                     ELSE IF j \in k..current-1 THEN <<half(j)>> \o @[j]
                     ELSE @[j]]]
                /\ held' = held \cup {<<idx, k>>}
          /\ call' = [call EXCEPT ![c] = Idle]
          /\ UNCHANGED todo

\* The zone has no block that large: the next one is tried, or 0 returned.
AllocNextZone(c) ==
  /\ call[c] # Idle
  /\ LET z == call[c][1]
         k == call[c][2]
     IN /\ \A j \in k..MAX_ORDER : order[z][j] = <<>>
        /\ call' = [call EXCEPT ![c] = IF z = Len(Zones) THEN Idle
                                       ELSE <<z + 1, k>>]
  /\ UNCHANGED <<isfree, border, order, todo, held>>

-----------------------------------------------------------------------------
(* buddy_free                                                              *)

\* Mutant: the right half stays the first page of the united block.
GrownNot(idx, k, j) == idx

\* The first page of the block of order j that idx, of order k, grows into:
\* while it merges, idx loses the bits k to j - 1.
Grown(idx, k, j) == idx - ((idx % 2^j) - (idx % 2^k))

\* Mutant: a smaller free block is taken for the buddy.
MayMergeAnyOrder(z, idx, j) == /\ Flip(idx, j) \in PagesOf(z)
                               /\ isfree[Flip(idx, j)]

\* The buddy exists, is free and is one block of order j.
MayMerge(z, idx, j) == /\ Flip(idx, j) \in PagesOf(z)
                       /\ isfree[Flip(idx, j)]
                       /\ border[Flip(idx, j)] = j

Free(block) ==
  /\ block \in held
  /\ LET idx == block[1]
         k   == block[2]
         z   == ZoneOf(idx)
         grown(j) == Grown(idx, k, j)
     IN \E top \in k..MAX_ORDER :
          /\ \A j \in k..top-1 : MayMerge(z, grown(j), j)
          /\ top < MAX_ORDER => ~MayMerge(z, grown(top), top)
          /\ border' = [border EXCEPT ![grown(top)] = top]
          /\ isfree' = [isfree EXCEPT ![grown(top)] = TRUE]
          /\ order' = [order EXCEPT ![z] = [j \in Order |->
               IF j = top THEN <<grown(top)>> \o @[j]
               ELSE IF j \in k..top-1 THEN Without(@[j], Flip(grown(j), j))
               ELSE @[j]]]
          /\ held' = held \ {block}
  /\ UNCHANGED <<todo, call>>

-----------------------------------------------------------------------------
Next == \/ ZoneFree
        \/ \E c \in Caller : AllocBegin(c) \/ AllocZone(c) \/ AllocNextZone(c)
        \/ \E block \in held : Free(block)

Spec == Init /\ [][Next]_vars

-----------------------------------------------------------------------------
TypeOK ==
  /\ isfree \in [Page -> BOOLEAN]
  /\ border \in [Page -> Order]
  /\ order \in [DOMAIN Zones -> [Order -> Seq(Page)]]
  /\ todo \in Seq(PageRange)
  /\ call \in [Caller -> {Idle} \cup ((DOMAIN Zones) \X Order)]
  /\ held \subseteq Page \X Order

Pages(block) == block[1] .. block[1] + 2^block[2] - 1

FreeBlocksOf(z) == UNION {{<<p, k>> : p \in ToSet(order[z][k])} : k \in Order}
FreeBlocks == UNION {FreeBlocksOf(z) : z \in DOMAIN Zones}
FreePages == UNION {Pages(b) : b \in FreeBlocks}

Available == UNION {r.begin .. r.end - 1 : r \in ToSet(FreeRanges)}
Unfreed == UNION {r.begin .. r.end - 1 : r \in ToSet(todo)}

\* The blocks given out and the free ones never overlap, no list holds a block
\* twice, and no page is lost or invented by splitting and uniting.
Partition ==
  /\ \A a, b \in FreeBlocks \cup held :
       a # b => Pages(a) \cap Pages(b) = {}
  /\ FreeBlocks \cap held = {}
  /\ \A z \in DOMAIN Zones, k \in Order : IsInjective(order[z][k])
  /\ UNION {Pages(b) : b \in FreeBlocks \cup held} = Available \ Unfreed

\* The descriptors agree with the lists where __buddy_free_zone reads them: at
\* the buddy of every block.  A page inside a larger block may keep the flags
\* of the time when it was a block of its own; nobody is misled by them.
DescriptorsOK ==
  \A b \in FreeBlocks \cup held, z \in DOMAIN Zones :
    LET buddy == Flip(b[1], b[2])
    IN b[1] \in PagesOf(z) /\ buddy \in PagesOf(z) =>
         (isfree[buddy] /\ border[buddy] = b[2]
            <=> <<buddy, b[2]>> \in FreeBlocksOf(z))

\* Blocks are united as soon as they can be: no free block has a free buddy.
Coalesced ==
  \A b \in FreeBlocks :
    b[2] < MAX_ORDER => <<Flip(b[1], b[2]), b[2]>> \notin FreeBlocks

\* What alloc and free rely on: values of the right kind, descriptors that tell
\* the truth about buddies, and no two free buddies left apart.
WellFormed == TypeOK /\ DescriptorsOK /\ Coalesced

\* So a zone that turns a request down has no aligned run of free pages that
\* would do: fragmentation inside a zone never hides memory.
NothingHidden ==
  \A z \in DOMAIN Zones, k \in Order :
    (\A j \in k..MAX_ORDER : order[z][j] = <<>>) =>
      \A p \in PagesOf(z) :
        p % 2^k = 0 => ~(Pages(<<p, k>>) \subseteq FreePages)

-----------------------------------------------------------------------------
(* Why the blocks partition memory.                                        *)

Aligned(block) == block[1] % 2^block[2] = 0

\* Blocks are aligned and within a zone, the free ones within that of their list.
Placed ==
  /\ \A b \in FreeBlocks \cup held : Aligned(b)
  /\ \A z \in DOMAIN Zones : \A b \in FreeBlocksOf(z) :
       Pages(b) \subseteq PagesOf(z)
  /\ \A b \in held : \E z \in DOMAIN Zones : Pages(b) \subseteq PagesOf(z)

\* A page that is marked free begins a free block of its order, or did so before
\* that block became part of a larger one.
FlagsOK ==
  /\ \A b \in FreeBlocks : isfree[b[1]] /\ border[b[1]] = b[2]
  /\ \A p \in Page : isfree[p] =>
       /\ Aligned(<<p, border[p]>>)
       /\ \/ <<p, border[p]>> \in FreeBlocks
          \/ \E b \in FreeBlocks \cup held : p \in Pages(b) /\ border[p] < b[2]

\* A block freed by buddy_setup could not have been larger.
Largest(block, end) == \/ block[2] = MAX_ORDER
                       \/ (block[1] \div 2^block[2]) % 2 = 1
                       \/ block[1] + 2^(block[2] + 1) > end

\* While buddy_setup is at range n, there are no callers yet.
SetupOK ==
  todo # <<>> =>
    /\ held = {} /\ \A c \in Caller : call[c] = Idle
    /\ \E n \in DOMAIN FreeRanges :
         /\ Len(todo) = Len(FreeRanges) - n + 1
         /\ \A i \in 2..Len(todo) : todo[i] = FreeRanges[n + i - 1]
         /\ todo[1].end = FreeRanges[n].end
         /\ todo[1].begin \in FreeRanges[n].begin .. FreeRanges[n].end - 1
    /\ \A b \in FreeBlocks :
         b[1] + 2^b[2] = todo[1].begin => Largest(b, todo[1].end)

\* Inductive; DescriptorsOK and NothingHidden follow.
IInv == TypeOK /\ Partition /\ Coalesced /\ Placed /\ FlagsOK /\ SetupOK

\* buddy.c:180: "All zones are initially empty (contains no free pages), so the
\* next step is to go over all free ranges and actually free them": no page is
\* given out, or free, that was in no free range.
OnlyFreed == UNION {Pages(b) : b \in FreeBlocks \cup held} \subseteq Available

Abstract == INSTANCE AbstractAllocator WITH free <- FreePages \cup Unfreed

ImplementsAllocator == Abstract!Spec
=============================================================================
