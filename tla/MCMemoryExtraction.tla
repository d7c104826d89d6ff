------------------------- MODULE MCMemoryExtraction -------------------------
(* Memory extraction on a small instance: workers are interchangeable. *)
EXTENDS MemoryExtraction, TLC

Symmetry == Permutations(Worker)
=============================================================================
