------------------------------ MODULE PageTable ------------------------------
(***************************************************************************)
(* src/paging.c: page tables of LEVELS levels with FAN entries each, in    *)
(* units of a page, and the walks over them.  A walk runs in one address   *)
(* space of one thread; what it shares with others, the page allocator,    *)
(* gives out pages nobody else has (Buddy), so a walk is a function of the *)
(* memory m, a record of                                                   *)
(*   table  for every frame, what is in it as a page table                 *)
(*   avail  the frames the buddy allocator has free                        *)
(*   out    how the walk ended: "ok", "fail" (it returned -1), or "hang"   *)
(***************************************************************************)
EXTENDS Integers, FiniteSets

CONSTANTS LEVELS,  \* 4 in the code, which makes large pages in levels 2 and 3
          FAN,     \* 512 in the code
          FRAMES   \* frames of memory are 1..FRAMES, 0 is no frame

Size(lvl) == FAN^(lvl - 1)

ASSUME PagingAssumption ==
  /\ LEVELS \in Nat \ {0} /\ FAN \in Nat \ {0, 1} /\ FRAMES \in Nat
  /\ Size(1) = 1
  /\ \A lvl \in 1..LEVELS : Size(lvl + 1) = Size(lvl) * FAN

Frame == 1..FRAMES
Slot == 0..FAN - 1

Index(virt, lvl) == (virt \div Size(lvl)) % FAN
CanBeLarge(lvl) == lvl > 1 /\ lvl < LEVELS

\* An entry that is not present, and one that is.
None == [phys |-> 0, large |-> FALSE, write |-> FALSE]
Entry(phys, large, write) == [phys |-> phys, large |-> large, write |-> write]
Present(entry) == entry.phys # 0
Inner(entry) == Present(entry) /\ ~entry.large

AnyEntry == [phys : 0..FRAMES, large : BOOLEAN, write : BOOLEAN]
Memory == [table : [Frame -> [Slot -> AnyEntry]], avail : SUBSET (0..FRAMES),
           out : {"ok", "fail", "hang"}]

Smaller(a, b) == IF a < b THEN a ELSE b

\* What n turns of a loop make of the state s.
Loop(turn, s, n) ==
  LET after[k \in 0..n] == IF k = 0 THEN s ELSE turn[after[k - 1]]
  IN after[n]

-----------------------------------------------------------------------------
(* The page allocator, as buddy_alloc and buddy_free promise it.           *)

Run(phys, pages) == phys .. phys + pages - 1
Blocks(m, pages) == {f \in m.avail : f % pages = 0 /\ Run(f, pages) \subseteq m.avail}
\* Which of the blocks that fit it is does not matter here: the lowest.
Block(m, pages) == CHOOSE f \in Blocks(m, pages) :
                     \A g \in Blocks(m, pages) : f <= g

Grab(m, phys, pages) == [m EXCEPT !.avail = @ \ Run(phys, pages)]
GiveBack(m, phys, pages) == [m EXCEPT !.avail = @ \cup Run(phys, pages)]

SetEntry(m, pt, i, entry) == [m EXCEPT !.table[pt][i] = entry]

-----------------------------------------------------------------------------
(* pt_addr: the frame a page is mapped to, 0 if it is not.                 *)

\* One level down, unless the walk has ended.
Deeper(table, virt) == [s \in [lvl : 1..LEVELS, entry : AnyEntry] |->
  IF s.lvl > 1 /\ Inner(s.entry)
  THEN [lvl |-> s.lvl - 1, entry |-> table[s.entry.phys][Index(virt, s.lvl - 1)]]
  ELSE s]

\* The last entry a walk down to level lvl reads.
Walk(table, pml4, virt, lvl) ==
  Loop(Deeper(table, virt),
       [lvl |-> LEVELS, entry |-> table[pml4][Index(virt, LEVELS)]], LEVELS - lvl)

pt_addr(table, pml4, virt) ==
  LET s == Walk(table, pml4, virt, 1)
  IN IF Present(s.entry) THEN s.entry.phys + (virt % Size(s.lvl)) ELSE 0

-----------------------------------------------------------------------------
(* pt_map: a fresh page, or a large one, for every page of [virt,          *)
(* virt + size) that is not mapped; inner tables as needed.                *)

\* Mutant: a large page is made although the range covers only part of it.
LeafLoose(lvl, virt, tomap) ==
  lvl = 1 \/ (CanBeLarge(lvl) /\ virt % Size(lvl) = 0)

Leaf(lvl, virt, tomap) ==
  lvl = 1 \/ (CanBeLarge(lvl) /\ tomap = Size(lvl) /\ virt % Size(lvl) = 0)

NewTable(m, pt, i) ==
  LET f == Block(m, 1)
  IN SetEntry([Grab(m, f, 1) EXCEPT !.table[f] = [s \in Slot |-> None]],
              pt, i, Entry(f, FALSE, TRUE))

NewLeaf(m, pt, i, lvl, write) ==
  LET f == Block(m, Size(lvl))
  IN SetEntry(Grab(m, f, Size(lvl)), pt, i, Entry(f, lvl > 1, write))

\* A turn looks at one entry, on the way down to the page virt.  The recursion of
\* __pt_map visits them in the order of their pages, as going down from the root
\* does; it passes the tables that are there on its way back and on its way down.
MapTurn(pml4, write) ==
  [s \in [m : Memory, pt : Frame, lvl : 1..LEVELS, virt : Nat, size : Nat] |->
     LET i       == Index(s.virt, s.lvl)
         entry   == s.m.table[s.pt][i]
         tomap   == Smaller(s.size, Size(s.lvl) - (s.virt % Size(s.lvl)))
         Past(n) == [m |-> n, pt |-> pml4, lvl |-> LEVELS,
                     virt |-> s.virt + tomap, size |-> s.size - tomap]
         Down(n) == [s EXCEPT !.m = n, !.pt = n.table[s.pt][i].phys, !.lvl = @ - 1]
     IN IF s.size = 0 \/ s.m.out # "ok" THEN s
        ELSE IF Present(entry) THEN IF s.lvl = 1 THEN Past(s.m) ELSE Down(s.m)
        ELSE IF Leaf(s.lvl, s.virt, tomap) /\ Blocks(s.m, Size(s.lvl)) # {}
        THEN Past(NewLeaf(s.m, s.pt, i, s.lvl, write))
        ELSE IF s.lvl = 1 THEN [s EXCEPT !.m.out = "fail"]
        ELSE IF Blocks(s.m, 1) = {} THEN [s EXCEPT !.m.out = "hang"]
        ELSE Down(NewTable(s.m, s.pt, i))]

\* It takes LEVELS turns at most to get past a page.
pt_map(m, pml4, virt, size, write) ==
  Loop(MapTurn(pml4, write),
       [m |-> m, pt |-> pml4, lvl |-> LEVELS, virt |-> virt, size |-> size],
       size * LEVELS).m

-----------------------------------------------------------------------------
(* pt_unmap.  The loop counts table entries; virt and size are advanced    *)
(* only past an entry that leads to an inner table.                        *)

\* Mutant: the inner table is not given back.
ReleaseNot(m, pt, i, tounmap, lvl) ==
  IF tounmap = Size(lvl) THEN SetEntry(m, pt, i, None) ELSE m

\* Inner tables that lie in the range as a whole are given back.
Release(m, pt, i, tounmap, lvl) ==
  IF tounmap = Size(lvl)
  THEN SetEntry(GiveBack(m, m.table[pt][i].phys, 1), pt, i, None)
  ELSE m

\* A turn of the loop on table pt of level lvl; below is __pt_unmap for the tables
\* of the next level.
UnmapTurn(pt, lvl, below) ==
  [s \in [m : Memory, i : Slot, virt : Nat, size : Nat] |->
     LET entry   == s.m.table[pt][s.i]
         tounmap == Smaller(s.size, Size(lvl) - (s.virt % Size(lvl)))
         Past(n, done) == [m |-> n, i |-> s.i + 1, virt |-> s.virt + done,
                           size |-> s.size - done]
     IN IF ~Present(entry) THEN Past(s.m, 0)
        ELSE IF lvl = 1 \/ entry.large
        THEN Past(SetEntry(GiveBack(s.m, entry.phys, Size(lvl)), pt, s.i, None), 0)
        ELSE LET n == below[[m |-> s.m, pt |-> entry.phys, virt |-> s.virt,
                             size |-> tounmap]]
             IN Past(Release(n, pt, s.i, tounmap, lvl), tounmap)]

\* __pt_unmap for the tables of level lvl, below which the lowest have none.
Unmap[lvl \in 0..LEVELS] ==
  [c \in [m : Memory, pt : Frame, virt : Nat, size : Nat] |->
     LET from == Index(c.virt, lvl)
         to   == Index(c.virt + c.size - 1, lvl) + 1
     IN IF lvl = 0 THEN c.m
        ELSE Loop(UnmapTurn(c.pt, lvl, Unmap[lvl - 1]),
                  [m |-> c.m, i |-> from, virt |-> c.virt, size |-> c.size],
                  to - from).m]

pt_unmap(m, pml4, virt, size) ==
  Unmap[LEVELS][[m |-> m, pt |-> pml4, virt |-> virt, size |-> size]]
=============================================================================
