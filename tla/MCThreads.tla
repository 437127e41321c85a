------------------------------ MODULE MCThreads ------------------------------
(***************************************************************************)
(* Threads on small instances: main, init and two more thread objects,     *)
(* which are interchangeable; and, in MCKernel, with Condition beside it.  *)
(***************************************************************************)
EXTENDS Threads

Objects == Permutations(Thread \ {idle, init})
=============================================================================
