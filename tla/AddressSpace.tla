----------------------------- MODULE AddressSpace -----------------------------
(***************************************************************************)
(* src/mm.c: the address spaces of processes, each a sorted list of areas  *)
(* and a tree of page tables (PageTable).  Addresses are in pages.  The    *)
(* kernel's half, which every table shares, is left out, and so are calls  *)
(* that reach into it: mmap lets them (mm.c:195), see Exec.  Every address *)
(* space belongs to one thread, and the threads share only allocators that *)
(* give out what nobody else has, so a call is a step.                     *)
(***************************************************************************)
EXTENDS PageTable, Sequences, SequencesExt

CONSTANTS
  Mm,       \* address spaces
  Active,   \* those whose owners map, unmap and fill; the others are copied into
  Value,    \* contents of a page
  Perm,     \* permissions mmap may be asked for, sets of "read", "write", "execute"
  AREAS,    \* how many areas an address space may have
  Excluded  \* calls that are left out: "munmap" and "mmap" stand for a munmap,
            \* and an mmap that runs out of memory, with another area above

ASSUME ValueAssumption == Value # {}
ASSUME PermAssumption == Perm \subseteq SUBSET {"read", "write", "execute"}
ASSUME ExcludedAssumption == Excluded \subseteq {"munmap", "mmap"}

VARIABLES
  memory,  \* frames and page tables, as PageTable takes them
  data,    \* contents of the frames that are mapped
  live,    \* the address spaces that exist
  root,    \* mm->cr3, a frame
  vmas     \* mm->vmas: areas [begin, end, perm]

vars == <<memory, data, live, root, vmas>>

\* HIGHER_BASE & USER_MASK
END == Size(LEVELS) * (FAN \div 2)
Page == 0..END - 1
Address == 0..END
Area == [begin : Address, end : Address, perm : Perm]

\* What a frame that is nobody's holds: any value will do.
Blank == CHOOSE v \in Value : TRUE

Init == /\ memory = [table |-> [f \in Frame |-> [s \in Slot |-> None]],
                     avail |-> Frame, out |-> "ok"]
        /\ data = [f \in Frame |-> Blank]
        /\ live = {}
        /\ root = [x \in Mm |-> 0]
        /\ vmas = [x \in Mm |-> <<>>]

Up == memory.out # "hang"

\* What is in a frame that is not a page table does not matter.
Clean(m) == [m EXCEPT !.table =
  [f \in Frame |-> IF f \in m.avail THEN [s \in Slot |-> None] ELSE @[f]]]

Blanked(contents, m) ==
  [f \in Frame |-> IF f \in m.avail THEN Blank ELSE contents[f]]

-----------------------------------------------------------------------------
(* mm_create, mm_release                                                   *)

\* With no frame left, mm_create gives its object back: nothing has changed.
Create(x) ==
  /\ Up /\ x \notin live
  /\ Blocks(memory, 1) # {}
  /\ LET f == Block(memory, 1)
     IN /\ memory' = [Grab(memory, f, 1) EXCEPT
                        !.table[f] = [s \in Slot |-> None]]
        /\ root' = [root EXCEPT ![x] = f]
  /\ live' = live \cup {x}
  /\ vmas' = [vmas EXCEPT ![x] = <<>>]
  /\ UNCHANGED data

-----------------------------------------------------------------------------
(* munmap                                                                  *)

\* How many areas lie wholly before [from, to), and the first one after it.
Before(areas, from) == Cardinality({k \in DOMAIN areas : areas[k].end <= from})
After(areas, to) ==
  Cardinality({k \in DOMAIN areas : areas[k].begin < to}) + 1

Straddles(areas, from, to) ==
  \E k \in DOMAIN areas : /\ areas[k].end > from /\ areas[k].begin < to
                          /\ areas[k].begin < from \/ areas[k].end > to

GapBegin(areas, prev) == IF prev = 0 THEN 0 ELSE areas[prev].end
GapEnd(areas, next) == IF next > Len(areas) THEN END ELSE areas[next].begin

\* The tables are unmapped from the area before to the area after, so that the
\* inner tables that served only this range are given back too.
UnmapGap(m, x, areas, from, to) ==
  LET begin == GapBegin(areas, Before(areas, from))
      end   == GapEnd(areas, After(areas, to))
  IN pt_unmap(m, root[x], begin, end - begin)

\* munmap on the memory m, when it succeeds.
Unmapped(m, x, areas, from, to) == Clean(UnmapGap(m, x, areas, from, to))
Kept(areas, from, to) == SubSeq(areas, 1, Before(areas, from))
                           \o SubSeq(areas, After(areas, to), Len(areas))

Munmap(x, from, to) ==
  /\ Up /\ x \in live
  /\ ~Straddles(vmas[x], from, to)
  /\ "munmap" \in Excluded => After(vmas[x], to) > Len(vmas[x])
  /\ memory' = Unmapped(memory, x, vmas[x], from, to)
  /\ vmas' = [vmas EXCEPT ![x] = Kept(@, from, to)]
  /\ data' = Blanked(data, memory')
  /\ UNCHANGED <<live, root>>

\* A range that cuts an area is refused.
MunmapFails(x, from, to) == /\ Up /\ x \in live
                            /\ Straddles(vmas[x], from, to)
                            /\ UNCHANGED vars

ReleaseMm(x) ==
  /\ Up /\ x \in live
  /\ LET m == pt_unmap(memory, root[x], 0, END)
     IN memory' = Clean(GiveBack(m, root[x], 1))
  /\ live' = live \ {x}
  /\ vmas' = [vmas EXCEPT ![x] = <<>>]
  /\ root' = [root EXCEPT ![x] = 0]
  /\ data' = Blanked(data, memory')

-----------------------------------------------------------------------------
(* mmap                                                                    *)

\* user_flags tests perm & VMA_ACCESS_WRITE, which is the bit VMA_PERM_READ.
user_flags(perm) == "read" \in perm

Overlaps(areas, from, to) ==
  \E k \in DOMAIN areas : areas[k].end > from /\ areas[k].begin < to

\* list_add_before
Place(areas, k, area) == InsertAt(areas, k, area)

\* The undo of a failed pt_map: with an area behind, begin is set to where that
\* area begins, and end stays at the end of user space.
UndoMap(m, x, areas, next) ==
  LET begin == IF next <= Len(areas) THEN areas[next].begin
               ELSE GapBegin(areas, next - 1)
  IN pt_unmap(m, root[x], begin, END - begin)

\* mmap on memory m and a list of areas: [memory, vmas, ok].
Mapped(m, x, areas, from, to, perm) ==
  LET next == After(areas, to)
      new  == pt_map(m, root[x], from, to - from, user_flags(perm))
  IN IF Overlaps(areas, from, to)
     THEN [memory |-> m, vmas |-> areas, ok |-> FALSE]
     ELSE CASE new.out = "ok" ->
            [memory |-> new, ok |-> TRUE,
             vmas |-> Place(areas, next,
                            [begin |-> from, end |-> to, perm |-> perm])]
       [] new.out = "fail" ->
            [memory |-> Clean([UndoMap(new, x, areas, next)
                                 EXCEPT !.out = "ok"]),
             vmas |-> areas, ok |-> FALSE]
       [] new.out = "hang" -> [memory |-> new, vmas |-> areas, ok |-> FALSE]

\* It runs out of memory, with another area above.
FailsBelow(m, x, areas, from, to, perm) ==
  /\ ~Overlaps(areas, from, to) /\ After(areas, to) <= Len(areas)
  /\ pt_map(m, root[x], from, to - from, user_flags(perm)).out = "fail"

Mmap(x, from, to, perm) ==
  /\ Up /\ x \in live
  /\ Len(vmas[x]) < AREAS
  /\ "mmap" \in Excluded => ~FailsBelow(memory, x, vmas[x], from, to, perm)
  /\ LET result == Mapped(memory, x, vmas[x], from, to, perm)
     IN /\ memory' = result.memory
        /\ vmas' = [vmas EXCEPT ![x] = result.vmas]
  /\ data' = Blanked(data, memory')
  /\ UNCHANGED <<live, root>>

-----------------------------------------------------------------------------
(* mset, and mm_copy with its mcopy.                                       *)

\* The frame of a page of x.
FrameOf(m, x, page) == pt_addr(m.table, root[x], page)

\* mset fills page after page, up to the first one that is not mapped.
Mset(x, from, to, value) ==
  /\ Up /\ x \in live
  /\ LET reach == {p \in from..to - 1 :
                     \A q \in from..p : FrameOf(memory, x, q) # 0}
         frames == {FrameOf(memory, x, p) : p \in reach}
     IN data' = [f \in Frame |-> IF f \in frames THEN value ELSE data[f]]
  /\ UNCHANGED <<memory, live, root, vmas>>

\* Mutant: the last page of an area is not copied.
CopiedButLast(area) == area.begin .. area.end - 2

\* mcopy: all pages of an area.
Copied(area) == area.begin .. area.end - 1

\* mm_copy maps and copies area after area; a turn of its loop takes the next one.
Copying == [next : Nat, memory : Memory, vmas : Seq(Area), ok : BOOLEAN,
            data : [Frame -> Value]]

CopyArea(dst, src) ==
  [s \in Copying |->
     LET area == vmas[src][s.next]
         new  == Mapped(s.memory, dst, s.vmas, area.begin, area.end, area.perm)
         pages(f) == {p \in Copied(area) : FrameOf(new.memory, dst, p) = f}
         source(f) == FrameOf(new.memory, src, CHOOSE p \in pages(f) : TRUE)
     IN IF ~s.ok THEN s
        ELSE [next |-> s.next + 1, memory |-> new.memory, vmas |-> new.vmas,
              ok |-> new.ok,
              data |-> [f \in Frame |->
                          IF new.ok /\ pages(f) # {} THEN s.data[source(f)]
                          ELSE s.data[f]]]]

\* If memory runs out, all the new address space has got so far is unmapped.
CopyUndo(dst, done) == [memory |-> Unmapped(done.memory, dst, done.vmas, 0, END),
                        vmas   |-> Kept(done.vmas, 0, END)]

\* Into an address space that has no areas yet.
Copy(dst, src) ==
  /\ Up /\ {dst, src} \subseteq live /\ dst # src
  /\ vmas[dst] = <<>>
  /\ LET start == [next |-> 1, memory |-> memory, vmas |-> <<>>, ok |-> TRUE,
                   data |-> data]
         done  == Loop(CopyArea(dst, src), start, Len(vmas[src]))
         end   == IF done.ok \/ done.memory.out = "hang" THEN done
                  ELSE CopyUndo(dst, done)
     IN /\ memory' = end.memory
        /\ vmas' = [vmas EXCEPT ![dst] = end.vmas]
        /\ data' = Blanked(done.data, end.memory)
  /\ UNCHANGED <<live, root>>

-----------------------------------------------------------------------------
\* pt_alloc loops for ever when no frame is left for a page table.  Its thread
\* never gets on; what the others may still do is not followed.
Hung == ~Up /\ UNCHANGED vars

Next == \/ \E x \in Mm :
             \/ Create(x) \/ ReleaseMm(x)
             \/ \E from, to \in Address :
                  /\ x \in Active /\ from < to
                  /\ \/ Munmap(x, from, to) \/ MunmapFails(x, from, to)
                     \/ \E perm \in Perm : Mmap(x, from, to, perm)
                     \/ \E value \in Value : Mset(x, from, to, value)
             \/ \E src \in Mm : Copy(x, src)
        \/ Hung

Spec == Init /\ [][Next]_vars

-----------------------------------------------------------------------------
TypeOK ==
  /\ memory.table \in [Frame -> [Slot -> [phys : 0..FRAMES, large : BOOLEAN,
                                          write : BOOLEAN]]]
  /\ memory.avail \subseteq Frame
  /\ memory.out \in {"ok", "hang"}
  /\ data \in [Frame -> Value]
  /\ root \in [Mm -> 0..FRAMES]
  /\ \A x \in Mm : vmas[x] \in Seq(Area)

\* Areas are sorted and apart, which the searches of mmap and munmap rely on.
AreasOK ==
  \A x \in Mm : \A k \in DOMAIN vmas[x] :
    /\ vmas[x][k].begin < vmas[x][k].end
    /\ k > 1 => vmas[x][k - 1].end <= vmas[x][k].begin

InArea(x, page) ==
  \E k \in DOMAIN vmas[x] : vmas[x][k].begin <= page /\ page < vmas[x][k].end

\* The tables map exactly the pages of the areas.
MapsAreas ==
  Up => \A x \in live, p \in Page : FrameOf(memory, x, p) # 0 <=> InArea(x, p)

\* What the tables of x are for.  A node <<lvl, n>> is the n-th table of level lvl, or
\* for level 0 the n-th page.
Node == {<<LEVELS, 0>>} \cup
         UNION {{lvl} \X {n \in Page : n * Size(lvl + 1) < END} : lvl \in 0..LEVELS - 1}

NodeFrame(x, lvl, n) ==
  LET s == Walk(memory.table, root[x], n * Size(lvl + 1), lvl + 1)
  IN CASE lvl = LEVELS -> root[x]
       [] lvl = 0      -> FrameOf(memory, x, n)
       [] OTHER        -> IF s.lvl = lvl + 1 /\ Inner(s.entry) THEN s.entry.phys ELSE 0

\* No inner page table without entries is kept: what the comment at mm.c:228 is
\* about, the reason why munmap unmaps up to the neighbours of its range.
NoIdleTable(f) == \E i \in Slot : Present(memory.table[f][i])

\* Every frame is free, or is a page table in one place of one tree, or is
\* mapped in one place of one address space.  So address spaces are isolated
\* from each other, no frame is given back while it is in use, and none leaks
\* or is kept for nothing.
FramesOK ==
  Up => LET at(u) == NodeFrame(u[1], u[2][1], u[2][2])
            used  == {u \in live \X Node : at(u) # 0}
        IN /\ \A u, w \in used : at(u) = at(w) => u = w
           /\ {at(u) : u \in used} = Frame \ memory.avail
           /\ \A u \in used : u[2][1] \in 1..LEVELS - 1 => NoIdleTable(at(u))

\* Values of the right kind, areas as the searches expect them, and a use for
\* every frame.
WellFormed == TypeOK /\ AreasOK /\ FramesOK

\* mm_copy makes an address space with the same areas and the same contents,
\* or none at all, and leaves the original as it was.
CopyFaithful ==
  [][\A dst, src \in Mm :
       Copy(dst, src) /\ memory'.out = "ok" =>
         /\ vmas'[dst] \in {vmas[src], <<>>}
         /\ \A p \in Page :
              InArea(src, p) =>
                LET old == FrameOf(memory, src, p)
                    new == pt_addr(memory'.table, root[dst], p)
                IN /\ data'[old] = data[old]
                   /\ vmas'[dst] # <<>> => data'[new] = data[old] /\ new # old
    ]_vars

\* mm.c:239: "look at the neighbours and extend the unmapped region boundaries
\* as wide as possible": unmapping reaches up to the areas next to it, and what
\* is in an area stays mapped.
AreasMapped ==
  Up => \A x \in live, p \in Page : InArea(x, p) => FrameOf(memory, x, p) # 0

\* inc/mm.h:46: "Create/delete mapping with given permissons": a page is mapped
\* for writing where its area may be written, and only there.
AreaPermissions ==
  Up => \A x \in live : \A k \in DOMAIN vmas[x] :
          \A p \in vmas[x][k].begin .. vmas[x][k].end - 1 :
            LET entry == Walk(memory.table, root[x], p, 1).entry
            IN Present(entry) => (entry.write <=> "write" \in vmas[x][k].perm)
=============================================================================
