------------------------------ MODULE BootMemory ------------------------------
(***************************************************************************)
(* src/balloc.c and the part of buddy_setup (src/buddy.c) that consumes    *)
(* it: the life of physical memory from the memory map of the boot loader  *)
(* to the page ranges the buddy allocator starts with.  One processor runs *)
(* this with interrupts off, one call after another; a step is one call.   *)
(***************************************************************************)
EXTENDS Integers, Sequences, FiniteSets

CONSTANTS
  MAX_RANGES,  \* BALLOC_MAX_RANGE_SIZE
  PAGE_SIZE,
  TOP,         \* UINTPTR_MAX; addresses in use are smaller
  LOW,         \* the first megabyte
  Maps,        \* memory maps: sequences of [from, to, available]
  Image,       \* ranges the kernel and the initrd take
  Requests,    \* calls of __balloc_alloc before buddy_setup: [from, to, size, align]
  Calls,       \* bound on the number of those calls
  Descriptors(_) \* bytes buddy_zone_create asks for, for so many pages

VARIABLES
  mmap,    \* the memory map that was found
  phase,   \* what the boot code is about
  i,       \* the entry or range it is at
  all,     \* balloc's array of known ranges, [begin, end)
  free,    \* and of free ranges
  given,   \* allocations made: [addr, size, from, to]
  zones,   \* buddy_zones, in pages
  freed    \* the ranges given to the buddy allocator, in pages

vars == <<mmap, phase, i, all, free, given, zones, freed>>

Range == [begin : 0..TOP, end : 0..TOP]

\* What an instance has to give the constants.
Assumption ==
  /\ {MAX_RANGES, PAGE_SIZE} \subseteq Nat \ {0} /\ {TOP, Calls} \subseteq Nat
  /\ LOW \in 1..TOP
  /\ \A m \in Maps :
       /\ m # <<>> /\ m \in Seq([from : Nat, to : Nat, available : BOOLEAN])
       /\ \A j \in DOMAIN m : m[j].from < m[j].to /\ m[j].to < TOP
  /\ Image \in Seq(Range) /\ \A j \in DOMAIN Image : Image[j].begin <= Image[j].end
  /\ \A r \in Requests : /\ r.from \in Nat /\ r.to \in 0..TOP
                         /\ {r.size, r.align} \subseteq Nat \ {0}
  /\ \A pages \in 1..TOP : Descriptors(pages) \in Nat \ {0}

Reserved == Image \o <<[begin |-> 0, end |-> LOW]>>

-----------------------------------------------------------------------------
(* The arrays of ranges.                                                   *)

\* The ranges from..to - 1 of rs touch [begin, end).
From(rs, begin) ==
  CHOOSE f \in 1..Len(rs) + 1 : /\ \A j \in 1..f - 1 : begin > rs[j].end
                                /\ f <= Len(rs) => begin <= rs[f].end

To(rs, begin, end) ==
  CHOOSE t \in From(rs, begin)..Len(rs) + 1 :
    /\ \A j \in From(rs, begin)..t - 1 : end >= rs[j].begin
    /\ t <= Len(rs) => end < rs[t].begin

Smaller(a, b) == IF a < b THEN a ELSE b
Larger(a, b) == IF a < b THEN b ELSE a

AddRange(rs, begin, end) ==
  LET from == From(rs, begin)
      to   == To(rs, begin, end)
      new  == IF from = to THEN [begin |-> begin, end |-> end]
              ELSE [begin |-> Smaller(begin, rs[from].begin),
                    end   |-> Larger(end, rs[to - 1].end)]
  IN SubSeq(rs, 1, from - 1) \o <<new>> \o SubSeq(rs, to, Len(rs))

\* Mutant: what is left behind the removed range is dropped with it.
RemoveRangeTail(rs, begin, end) ==
  LET from == From(rs, begin)
      to   == To(rs, begin, end)
      rest == SubSeq(rs, 1, from - 1) \o SubSeq(rs, to, Len(rs))
  IN IF from = to THEN rs
     ELSE IF rs[from].begin < begin THEN AddRange(rest, rs[from].begin, begin)
     ELSE rest

RemoveRange(rs, begin, end) ==
  LET from == From(rs, begin)
      to   == To(rs, begin, end)
      rest == SubSeq(rs, 1, from - 1) \o SubSeq(rs, to, Len(rs))
      left == IF rs[from].begin < begin
              THEN AddRange(rest, rs[from].begin, begin) ELSE rest
  IN IF from = to THEN rs
     ELSE IF rs[to - 1].end > end THEN AddRange(left, end, rs[to - 1].end)
     ELSE left

AlignDown(x, align) == x - (x % align)
AlignUp(x, align) == AlignDown(x + align - 1, align)

Fits(range, r) == AlignUp(range.begin, r.align) + r.size <= range.end

\* balloc_find_range; r.to stands for failure, also when it is the result.
FindRange(rs, r) ==
  LET seen == {j \in DOMAIN rs : /\ \A k \in 1..j : rs[k].begin < r.to
                                 /\ rs[j].end > r.from
                                 /\ Fits(rs[j], r)}
  IN IF seen = {} THEN r.to
     ELSE LET j == CHOOSE j \in seen : \A k \in seen : j <= k
          IN AlignUp(rs[j].begin, r.align)

-----------------------------------------------------------------------------
(* balloc_setup                                                            *)

Init == /\ mmap \in Maps
        /\ phase = "add"
        /\ i = 1
        /\ all = <<>> /\ free = <<>>
        /\ given = {}
        /\ zones = <<>> /\ freed = <<>>

\* The code prints a message and loops: an array is full, or no memory is left.
Stop(why) == /\ phase' = why
             /\ UNCHANGED <<mmap, i, all, free, given, zones, freed>>

\* Mutant: the size is tested before the ranges are united.
AtMostMaxEarly(new, old) == Len(old) < MAX_RANGES

\* The array old may become new.
AtMostMax(new, old) == Len(new) <= MAX_RANGES

\* The next entry of a list of n, or the next phase.
Advance(n, next) == IF i < n THEN phase' = phase /\ i' = i + 1
                             ELSE phase' = next /\ i' = 1

AddEntry ==
  /\ phase = "add"
  /\ LET e    == mmap[i]
         new  == AddRange(all, e.from, e.to)
         newf == IF e.available THEN AddRange(free, e.from, e.to) ELSE free
     IN IF AtMostMax(new, all) /\ (e.available => AtMostMax(newf, free))
        THEN /\ all' = new /\ free' = newf
             /\ Advance(Len(mmap), "remove")
             /\ UNCHANGED <<mmap, given, zones, freed>>
        ELSE Stop("full")

RemoveEntry ==
  /\ phase = "remove"
  /\ LET e   == mmap[i]
         new == IF e.available THEN free ELSE RemoveRange(free, e.from, e.to)
     IN IF AtMostMax(new, free)
        THEN /\ free' = new
             /\ Advance(Len(mmap), "reserve")
             /\ UNCHANGED <<mmap, all, given, zones, freed>>
        ELSE Stop("full")

\* The kernel, the initrd, and last the first megabyte, which is known memory
\* from then on.
Reserve ==
  /\ phase = "reserve"
  /\ LET r   == Reserved[i]
         new == RemoveRange(free, r.begin, r.end)
         newa == IF i = Len(Reserved) THEN AddRange(all, r.begin, r.end)
                                      ELSE all
     IN IF AtMostMax(new, free) /\ AtMostMax(newa, all)
        THEN /\ free' = new /\ all' = newa
             /\ Advance(Len(Reserved), "ready")
             /\ UNCHANGED <<mmap, given, zones, freed>>
        ELSE Stop("full")

-----------------------------------------------------------------------------
(* Allocation, and buddy_setup.                                            *)

\* __balloc_alloc, in the three ways it may end; every caller of it hangs when
\* it returns 0.
Without(r) == RemoveRange(free, FindRange(free, r), FindRange(free, r) + r.size)

Alloc(r) ==
  LET addr == FindRange(free, r)
  IN /\ addr # r.to
     /\ AtMostMax(Without(r), free)
     /\ free' = Without(r)
     /\ given' = given \cup {[addr |-> addr, size |-> r.size,
                              from |-> r.from, to |-> r.to]}

AllocFails(r) ==
  \/ FindRange(free, r) = r.to /\ Stop("no_memory")
  \/ FindRange(free, r) # r.to /\ ~AtMostMax(Without(r), free) /\ Stop("full")

\* pt_early_alloc, as often as the page tables need it.
EarlyAlloc(r) ==
  /\ phase = "ready" /\ i <= Calls
  /\ \/ /\ Alloc(r) /\ i' = i + 1
        /\ UNCHANGED <<mmap, phase, all, zones, freed>>
     \/ AllocFails(r)

BuddySetup == /\ phase = "ready"
              /\ phase' = "zones" /\ i' = 1
              /\ UNCHANGED <<mmap, all, free, given, zones, freed>>

WholePages(range) == [begin |-> AlignUp(range.begin, PAGE_SIZE),
                      end   |-> AlignDown(range.end, PAGE_SIZE)]

InPages(range) == [begin |-> range.begin \div PAGE_SIZE,
                   end   |-> range.end \div PAGE_SIZE]

\* buddy_zone_create takes its descriptors from balloc.
ZoneCreate ==
  /\ phase = "zones"
  /\ LET range == WholePages(all[i])
         z     == InPages(range)
         r     == [from |-> 0, to |-> TOP,
                   size |-> Descriptors(z.end - z.begin), align |-> PAGE_SIZE]
     IN IF range.begin >= range.end
        THEN /\ Advance(Len(all), "free")
             /\ UNCHANGED <<mmap, all, free, given, zones, freed>>
        ELSE \/ /\ Alloc(r)
                /\ zones' = Append(zones, z)
                /\ Advance(Len(all), "free")
                /\ UNCHANGED <<mmap, all, freed>>
             \/ AllocFails(r)

\* buddy_zone_free: its guards; Buddy models its loop.
ZoneFree ==
  /\ phase = "free"
  /\ IF i > Len(free)
     THEN phase' = "done" /\ UNCHANGED <<i, freed>>
     ELSE LET range == WholePages(free[i])
              r     == InPages(range)
              home  == {z \in DOMAIN zones : /\ zones[z].begin <= r.begin
                                             /\ zones[z].end > r.begin}
          IN IF range.begin >= range.end
             THEN i' = i + 1 /\ UNCHANGED <<phase, freed>>
             ELSE IF \E z \in home : zones[z].end >= r.end
                                     /\ \A y \in home : z <= y
             THEN freed' = Append(freed, r) /\ i' = i + 1 /\ UNCHANGED phase
             ELSE phase' = "no_zone" /\ UNCHANGED <<i, freed>>
  /\ UNCHANGED <<mmap, all, free, given, zones>>

Stopped == phase \in {"full", "no_memory", "no_zone", "done"} /\ UNCHANGED vars

Next == \/ AddEntry \/ RemoveEntry \/ Reserve
        \/ \E r \in Requests : EarlyAlloc(r)
        \/ BuddySetup \/ ZoneCreate \/ ZoneFree
        \/ Stopped

Spec == Init /\ [][Next]_vars

-----------------------------------------------------------------------------
TypeOK ==
  /\ phase \in {"add", "remove", "reserve", "ready", "zones", "free", "done",
                "full", "no_memory"}
  /\ all \in Seq(Range) /\ Len(all) <= MAX_RANGES
  /\ free \in Seq(Range) /\ Len(free) <= MAX_RANGES
  /\ i \in Nat

Span(begin, end) == begin .. end - 1
Addresses(rs) == UNION {Span(rs[j].begin, rs[j].end) : j \in DOMAIN rs}

Entries(n, kind) == UNION {Span(mmap[j].from, mmap[j].to) :
                             j \in {j \in 1..n : mmap[j].available \in kind}}

\* What should be free when so many entries were added, so many removed, and so
\* many reserved ranges taken out.
Remaining(added, removed, withheld) ==
  Entries(added, {TRUE}) \ (Entries(removed, {FALSE})
                              \cup Addresses(SubSeq(Reserved, 1, withheld)))

GivenBytes == UNION {Span(g.addr, g.addr + g.size) : g \in given}

\* Both arrays are sorted and no two ranges touch, so that the search for the
\* ranges a new one touches, which stops at the first that does not, is right.
Sorted ==
  \A rs \in {all, free} : \A j \in DOMAIN rs :
    /\ rs[j].begin < rs[j].end
    /\ j > 1 => rs[j - 1].end < rs[j].begin

\* What every search relies on: values of the right kind, at most MAX_RANGES
\* ranges in an array, sorted and apart.
WellFormed == TypeOK /\ Sorted

\* Whatever order and overlap the memory map has, the array of free ranges is
\* exactly what is available, is not also busy, is not reserved and was not
\* given out.
FreeExact ==
  LET n == Len(mmap)
  IN /\ phase = "add"     => Addresses(free) = Remaining(i - 1, 0, 0)
     /\ phase = "remove"  => Addresses(free) = Remaining(n, i - 1, 0)
     /\ phase = "reserve" => Addresses(free) = Remaining(n, n, i - 1)
     /\ phase \in {"ready", "zones", "free", "done"} =>
          Addresses(free) = Remaining(n, n, Len(Reserved)) \ GivenBytes

\* Allocations are aligned, apart from each other, and made of memory that is
\* available and neither the kernel's nor the initrd's.
GivenOK ==
  /\ \A g, h \in given :
       g # h => Span(g.addr, g.addr + g.size)
                  \cap Span(h.addr, h.addr + h.size) = {}
  /\ GivenBytes \subseteq Entries(Len(mmap), {TRUE}) \ Addresses(Reserved)

\* An allocation fails only if no free segment of the size, aligned, lies
\* between its bounds.
FailsOnlyWhenFull ==
  \A r \in Requests :
    FindRange(free, r) = r.to =>
      \A a \in r.from .. r.to - r.size :
        a % r.align = 0 => ~(Span(a, a + r.size) \subseteq Addresses(free))

\* Both together: a request is served well or there is no way to serve it.
RequestsOK == GivenOK /\ FailsOnlyWhenFull

\* The buddy allocator gets exactly the whole free pages, each range within
\* one zone, and no zone twice.
BuddyGetsAll ==
  /\ phase = "done" =>
       Addresses(freed) =
         {p \in 0..TOP : Span(p * PAGE_SIZE, (p + 1) * PAGE_SIZE)
                           \subseteq Addresses(free)}
  /\ \A y, z \in DOMAIN zones :
       y # z => Span(zones[y].begin, zones[y].end)
                  \cap Span(zones[z].begin, zones[z].end) = {}

BootMemoryOK == WellFormed /\ FreeExact /\ RequestsOK /\ BuddyGetsAll

\* Where the loops are.
IndexOK ==
  /\ mmap \in Maps
  /\ phase \in {"add", "remove"} => i \in 1..Len(mmap)
  /\ phase = "reserve" => i \in 1..Len(Reserved)
  /\ phase \in {"ready", "zones", "free", "done"} => all # <<>>
  /\ phase = "zones" => i \in 1..Len(all)
  /\ phase = "free" => i \in 1..Len(free) + 1

\* What is free is known, and nothing is given out before the arrays are ready.
FreeKnown == /\ Addresses(free) \subseteq Addresses(all)
             /\ given \subseteq [addr : Nat, size : Nat \ {0}, from : Nat, to : Nat]
             /\ phase \in {"add", "remove", "reserve"} => given = {}

\* What is known is what the map tells of, up to the entry balloc_setup is at.
KnownExact ==
  /\ phase = "add" => Addresses(all) = Entries(i - 1, BOOLEAN)
  /\ phase \in {"remove", "reserve"} =>
       Addresses(all) = Entries(Len(mmap), BOOLEAN)

\* The zones are the whole pages of the known ranges seen so far, in order.
SeenRanges == IF phase \in {"free", "done"} THEN DOMAIN all
              ELSE IF phase = "zones" THEN 1..i - 1 ELSE {}

PagesOf(range) == InPages(WholePages(range))

ZonesOK ==
  phase \in {"add", "remove", "reserve", "ready", "zones", "free", "done"} =>
    /\ zones \in Seq([begin : Nat, end : Nat])
    /\ \A z \in DOMAIN zones :
         /\ \E j \in SeenRanges : zones[z] = PagesOf(all[j])
         /\ zones[z].begin < zones[z].end
         /\ \A y \in 1..z - 1 : zones[y].end <= zones[z].begin
    /\ \A j \in SeenRanges : PagesOf(all[j]).begin < PagesOf(all[j]).end =>
         \E z \in DOMAIN zones : zones[z] = PagesOf(all[j])

\* The pages of the free ranges seen so far are freed.
FreedOK ==
  phase \in {"add", "remove", "reserve", "ready", "zones", "free"} =>
    /\ freed \in Seq([begin : Nat, end : Nat])
    /\ Addresses(freed) =
         {p \in 0..TOP : /\ phase = "free"
                         /\ \E j \in 1..i - 1 :
                              Span(p * PAGE_SIZE, (p + 1) * PAGE_SIZE)
                                \subseteq Span(free[j].begin, free[j].end)}

\* Inductive; that requests fail only when they must follows.
IInv == /\ WellFormed /\ FreeExact /\ GivenOK /\ BuddyGetsAll
        /\ IndexOK /\ FreeKnown /\ KnownExact /\ ZonesOK /\ FreedOK

\* The number of ranges it takes to write a set of addresses down.
Pieces(addresses) == Cardinality({a \in addresses : a - 1 \notin addresses})

\* What the arrays have to stand for after the entry or range the code is at.
Needed ==
  LET n == Len(mmap)
  IN IF phase = "add" THEN {Remaining(i, 0, 0), Entries(i, BOOLEAN)}
     ELSE IF phase = "remove" THEN {Remaining(n, i, 0)}
     ELSE {Remaining(n, n, i), Entries(n, BOOLEAN) \cup Span(0, LOW)}

\* balloc_setup gives up only when the memory it was told of, up to the entry it
\* is at, cannot be written down in an array of the size.
GivesUpOnlyWhenFull ==
  [][phase' = "full" /\ phase \in {"add", "remove", "reserve"} =>
       \E m \in Needed : Pieces(m) > MAX_RANGES]_vars
=============================================================================
