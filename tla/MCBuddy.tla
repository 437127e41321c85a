-------------------------------- MODULE MCBuddy --------------------------------
(* Buddy on one zone of four pages, the third of which was in no free range. *)
EXTENDS Buddy

OneZone == <<[begin |-> 0, end |-> 4]>>
AllButOne == <<[begin |-> 0, end |-> 2], [begin |-> 3, end |-> 4]>>

\* balloc gives out memory with whatever it held.
Anything == BOOLEAN \X (0..MAX_ORDER)
=============================================================================
