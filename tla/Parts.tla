--------------------------------- MODULE Parts ---------------------------------
(***************************************************************************)
(* Three components that are proved correct one by one, and checked beside *)
(* others in MCParts: the producer-consumer example, the slab allocator,   *)
(* and boot memory.  Each is an instance of its module, with variables and *)
(* parameters of its own.                                                  *)
(***************************************************************************)
EXTENDS Integers

VARIABLE on   \* the component that moves

-----------------------------------------------------------------------------
(* The producer-consumer example.                                          *)

CONSTANTS Item, ITEMS

VARIABLES mtx, waiting, value, valid_value, ended, where, taken, got, produced,
          consumed

exampleVars == <<mtx, waiting, value, valid_value, ended, where, taken, got,
                 produced, consumed>>

Example == INSTANCE ProducerConsumer WITH
  Items <- ITEMS, done <- ended, pc <- where, x <- taken, ret <- got

\* Waits on the shared condition have a reason, no item is lost, duplicated or
\* overtaken, and the consumer does not stop before it printed the last one
\* (week4/sync/producer-consumer/example.cpp).
ExampleConserves == on = "example" => Example!ExampleConserves

-----------------------------------------------------------------------------
(* A cache of the slab allocator.                                          *)

CONSTANTS SLAB_PAGE, MAX_ORDER, META, LINK, Sizes, Aligns, BLOCKS, Proc

VARIABLES cache, pool, full, partial, empty, list, count, busy, place, detached

slabVars == <<cache, pool, full, partial, empty, list, count, busy, place,
              detached>>

Slab == INSTANCE Slab WITH PAGE_SIZE <- SLAB_PAGE, Caller <- Proc, pc <- place

\* An object of a slab is given out once, its bytes are its own, and no block is
\* lost or owned twice while several threads shrink a cache (slab.c).
SlabOK == on = "slab" => Slab!SlabOK

-----------------------------------------------------------------------------
(* Memory at boot.                                                         *)

CONSTANTS MAX_RANGES, BOOT_PAGE, TOP, LOW, Maps, Image, Requests, CALLS,
          Descriptors(_)

VARIABLES mmap, phase, range, all, free, given, zones, freed

bootVars == <<mmap, phase, range, all, free, given, zones, freed>>

Boot == INSTANCE BootMemory WITH PAGE_SIZE <- BOOT_PAGE, Calls <- CALLS, i <- range

\* The arrays of ranges are sorted and stand for what is known and free, an
\* allocation of __balloc_alloc is good or there is none, and buddy_setup hands
\* over all that is left (balloc.c, buddy.c).
BootMemoryOK == on = "boot" => Boot!BootMemoryOK

\* balloc_setup stops only when an array is too small (balloc.c).
BootGivesUpOnlyWhenFull == Boot!GivesUpOnlyWhenFull

-----------------------------------------------------------------------------
ASSUME PartsAssumption ==
  Example!Assumption /\ Slab!Assumption /\ Boot!Assumption
=============================================================================
