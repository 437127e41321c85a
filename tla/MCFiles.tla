-------------------------------- MODULE MCFiles --------------------------------
(***************************************************************************)
(* Lists on a small instance, and the two components that have an abstract *)
(* specification of their own, the page allocator and the file system.     *)
(* The models share no state, so they are checked side by side: a          *)
(* behaviour is one of a single component, with the others at rest.        *)
(***************************************************************************)
EXTENDS Lists, FiniteSets, SequencesExt

CONSTANTS Proc, NoProc, Name, MAX_ORDER, Zones, FreeRanges,
          PAGE_SIZE, LIMIT, WRITES, ToRead, ToWrite

VARIABLES
  on,                                         \* the component that moves
  isfree, border, order, todo, call, held,    \* Buddy
  files, mtx, access, objects, writes, image  \* Ramfs

buddyVars == <<isfree, border, order, todo, call, held>>
ramfsVars == <<files, mtx, access, objects, writes, image>>
allVars == <<on, vars, buddyVars, ramfsVars>>

\* Memory is all zeros when the descriptors are made.
Buddy == INSTANCE Buddy WITH Caller <- Proc, Stale <- {<<FALSE, 0>>}

\* Two zones.  Page 1 has its buddy outside the zone, page 3 next to a reserved
\* page, as the kernel's image is; pages 4 to 7 make a block of the largest
\* order.
TwoZones == <<[begin |-> 1, end |-> 8], [begin |-> 12, end |-> 14]>>
ThreeRanges == <<[begin |-> 1, end |-> 2], [begin |-> 3, end |-> 8],
                 [begin |-> 12, end |-> 13]>>

Ramfs == INSTANCE Ramfs WITH call <- access

\* Pages of two bytes: writes inside a page, over the ends of pages, of nothing,
\* and behind a gap; reads of all, and from the middle of a page to the end of one.
Written == {<<0, 1>>, <<1, 4>>, <<2, 2>>, <<3, 5>>}
Read == {<<0, 5>>, <<1, 4>>}

ASSUME InstanceAssumption == Buddy!Assumption /\ Ramfs!Assumption

AllInit == /\ on \in {"buddy", "ramfs", "lists"}
           /\ Buddy!Init /\ Ramfs!Init /\ Init

AllNext ==
  /\ UNCHANGED on
  /\ \/ on = "buddy" /\ Buddy!Next /\ UNCHANGED <<ramfsVars, vars>>
     \/ on = "ramfs" /\ Ramfs!Next /\ UNCHANGED <<buddyVars, vars>>
     \/ on = "lists" /\ Next /\ UNCHANGED <<buddyVars, ramfsVars>>

AllSpec == AllInit /\ [][AllNext]_allVars

\* The descriptors, lists and blocks of the page allocator partition the memory it
\* was given, and a zone that turns a request down has no run of free pages that
\* would do (buddy.c).
BuddyOK == on = "buddy" => Buddy!WellFormed /\ Buddy!Partition /\ Buddy!NothingHidden

\* buddy_alloc and buddy_free are an allocator of aligned exclusive blocks.
BuddyImplementsAllocator == Buddy!ImplementsAllocator

\* The pages of files are as the loops of ramfs.c expect them, and none leaks.
RamfsWellFormed == on = "ramfs" => Ramfs!WellFormed

\* Files behave as AbstractFiles says.
RamfsImplementsFiles == Ramfs!ImplementsFiles

Symmetric == Permutations(Proc) \cup Permutations(Name)
=============================================================================
