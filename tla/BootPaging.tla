------------------------------ MODULE BootPaging ------------------------------
(***************************************************************************)
(* paging_setup of src/paging.c: the page tables the kernel runs on, made  *)
(* from pages of the bootstrap allocator while the tables of bootstrap.S   *)
(* are in use, and never changed again.  Addresses are in pages; logical   *)
(* ones wrap around, since the window at VIRTUAL_BASE ends with the        *)
(* address space.                                                          *)
(***************************************************************************)
EXTENDS Integers, FiniteSets

CONSTANTS
  LEVELS, FAN,    \* 4 and 512 in the code, which makes large pages in levels 2 and 3
  HIGHER_BASE,    \* where all of memory is mapped
  VIRTUAL_BASE,   \* where the lowest two gigabytes are mapped once more
  WINDOW,         \* these two gigabytes
  Memories        \* [end, free]: where memory ends, and its free pages below 4 GB

SPACE == FAN^LEVELS

Assumption ==
  /\ LEVELS \in Nat \ {0} /\ FAN \in Nat \ {0, 1}
  /\ 0 < HIGHER_BASE /\ HIGHER_BASE < VIRTUAL_BASE
  /\ VIRTUAL_BASE + WINDOW = SPACE
  /\ \A m \in Memories : /\ HIGHER_BASE + m.end <= VIRTUAL_BASE
                         /\ m.free \subseteq 0..m.end - 1

VARIABLES
  end,     \* balloc_phys_mem()
  memory,  \* [table, free, hung]: what pages hold as tables, and which are free
  cr3,     \* -1 while the tables of bootstrap.S are used
  pml4,    \* the new tables
  pc

vars == <<end, memory, cr3, pml4, pc>>

Size(lvl) == FAN^(lvl - 1)
Index(virt, lvl) == (virt \div Size(lvl)) % FAN
CanBeLarge(lvl) == lvl > 1 /\ lvl < LEVELS
Smaller(a, b) == IF a < b THEN a ELSE b

Entry == [i \in 0..FAN - 1 |-> [present |-> FALSE, large |-> FALSE, phys |-> 0]]
Page(phys, lvl) == [present |-> TRUE, large |-> CanBeLarge(lvl), phys |-> phys]
Table(phys) == [present |-> TRUE, large |-> FALSE, phys |-> phys]

-----------------------------------------------------------------------------
\* __balloc_alloc gives the lowest page, and with page 0 it says there is none.
Lowest(free) == CHOOSE p \in free : \A q \in free : p <= q

pt_early_alloc(m) ==
  IF m.free = {} \/ 0 \in m.free
  THEN [m EXCEPT !.hung = TRUE, !.free = @ \ {0}]
  ELSE [m EXCEPT !.free = @ \ {Lowest(m.free)}, !.table[Lowest(m.free)] = Entry]

\* Mutant: that the range ends inside a large page is not seen.
LeafLoose(lvl, virt, phys, tomap) ==
  lvl = 1 \/ (CanBeLarge(lvl) /\ virt % Size(lvl) = 0 /\ phys % Size(lvl) = 0)

Leaf(lvl, virt, phys, tomap) ==
  \/ lvl = 1
  \/ /\ CanBeLarge(lvl) /\ tomap = Size(lvl)
     /\ virt % Size(lvl) = 0 /\ phys % Size(lvl) = 0

\* __pt_map_to: entries i to last of the table pt.
RECURSIVE MapTo(_, _, _, _, _, _, _, _)
MapTo(m, pt, i, last, virt, size, phys, lvl) ==
  LET eend   == (((virt + Size(lvl)) \div Size(lvl)) * Size(lvl)) % SPACE
      tomap  == Smaller(size, (eend - virt) % SPACE)
      Set(n, entry) == [n EXCEPT !.table[pt][i] = entry]
      Rest(n) == MapTo(n, pt, i + 1, last, (virt + tomap) % SPACE, size - tomap,
                       phys + tomap, lvl)
      Down(n) == Rest(MapTo(n, n.table[pt][i].phys, Index(virt, lvl - 1),
                            Index(virt + tomap - 1, lvl - 1), virt, tomap, phys, lvl - 1))
  IN IF i > last \/ m.hung THEN m
     ELSE IF m.table[pt][i].present THEN Down(m)
     ELSE IF Leaf(lvl, virt, phys, tomap) THEN Rest(Set(m, Page(phys, lvl)))
     ELSE LET n == pt_early_alloc(m)
          IN IF n.hung THEN n ELSE Down(Set(n, Table(Lowest(m.free))))

pt_map_to(m, pt, virt, size, phys) ==
  MapTo(m, pt, Index(virt, LEVELS), Index(virt + size - 1, LEVELS),
        virt, size, phys, LEVELS)

-----------------------------------------------------------------------------
Init == \E m \in Memories :
          /\ end = m.end
          /\ memory = [table |-> [p \in 0..m.end - 1 |-> Entry], free |-> m.free,
                       hung |-> FALSE]
          /\ cr3 = -1 /\ pml4 = -1
          /\ pc = "root"

\* Each of the allocations may end in a loop.
To(label) == pc' = IF memory'.hung THEN "hang" ELSE label

Root == /\ pc = "root"
        /\ memory' = pt_early_alloc(memory)
        /\ pml4' = IF memory'.hung THEN pml4 ELSE Lowest(memory.free)
        /\ To("higher")
        /\ UNCHANGED <<end, cr3>>

MapHigher == /\ pc = "higher"
             /\ memory' = pt_map_to(memory, pml4, HIGHER_BASE, end, 0)
             /\ To("virtual")
             /\ UNCHANGED <<end, cr3, pml4>>

MapVirtual == /\ pc = "virtual"
              /\ memory' = pt_map_to(memory, pml4, VIRTUAL_BASE, WINDOW, 0)
              /\ To("switch")
              /\ UNCHANGED <<end, cr3, pml4>>

Switch == /\ pc = "switch"
          /\ cr3' = pml4
          /\ pc' = "done"
          /\ UNCHANGED <<end, memory, pml4>>

Ended == pc \in {"done", "hang"} /\ UNCHANGED vars

Next == Root \/ MapHigher \/ MapVirtual \/ Switch \/ Ended

Spec == Init /\ [][Next]_vars

-----------------------------------------------------------------------------
\* What the processor makes of a logical address: a page, or -1.
RECURSIVE Walk(_, _, _)
Walk(pt, virt, lvl) ==
  LET entry == memory.table[pt][Index(virt, lvl)]
  IN IF ~entry.present THEN -1
     ELSE IF lvl = 1 \/ entry.large THEN entry.phys + (virt % Size(lvl))
     ELSE Walk(entry.phys, virt, lvl - 1)

Mapping(virt) ==
  IF virt \in HIGHER_BASE .. HIGHER_BASE + end - 1 THEN virt - HIGHER_BASE
  ELSE IF virt >= VIRTUAL_BASE THEN virt - VIRTUAL_BASE
  ELSE -1

RECURSIVE Below(_, _)
Below(pt, lvl) ==
  UNION {LET entry == memory.table[pt][i]
         IN IF lvl = 1 \/ ~entry.present \/ entry.large THEN {}
            ELSE {<<<<pt, i>>, entry.phys>>} \cup Below(entry.phys, lvl - 1)
         : i \in 0..FAN - 1}

\* From the switch of cr3 on, all of memory is where va() looks for it, the lowest
\* part of it also where the kernel is linked, and nothing is anywhere else,
\* whatever mix of page sizes the end of memory asks for; every table serves one
\* entry, and its page is not free.
EarlyMap ==
  cr3 # -1 =>
    LET inner == Below(cr3, LEVELS)
        tables == {t[2] : t \in inner} \cup {cr3}
    IN /\ \A virt \in 0..SPACE - 1 : Walk(cr3, virt, LEVELS) = Mapping(virt)
       /\ Cardinality(tables) = Cardinality(inner) + 1
       /\ tables \cap memory.free = {}
=============================================================================
