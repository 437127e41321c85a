-------------------------- MODULE AbstractAllocator --------------------------
(***************************************************************************)
(* What the buddy allocator promises (inc/buddy.h): it gives out aligned   *)
(* runs of 2^order pages that nobody else has, and takes them back.        *)
(***************************************************************************)
EXTENDS Naturals

CONSTANTS Available,  \* the pages the allocator starts with
          MAX_ORDER

VARIABLES free,  \* the pages nobody has
          held   \* the blocks given out, <<first page, order>>

vars == <<free, held>>

Pages(block) == block[1] .. block[1] + 2^block[2] - 1

Init == free = Available /\ held = {}

Alloc(block) == /\ block[1] % 2^block[2] = 0
                /\ Pages(block) \subseteq free
                /\ free' = free \ Pages(block)
                /\ held' = held \cup {block}

Free(block) == /\ free' = free \cup Pages(block)
               /\ held' = held \ {block}

Next == \/ \E first \in free, order \in 0..MAX_ORDER : Alloc(<<first, order>>)
        \/ \E block \in held : Free(block)

Spec == Init /\ [][Next]_vars
=============================================================================
