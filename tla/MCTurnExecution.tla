--------------------------- MODULE MCTurnExecution ---------------------------
(* One thread on a small instance: requests are interchangeable, and so are *)
(* handlers.                                                                *)
EXTENDS TurnExecution, TLC

Symmetry == Permutations(Request) \cup Permutations(Handler)
===============================================================================
