-------------------------------- MODULE MCGoal --------------------------------
EXTENDS Goal
(* A chain of three steps: one that runs by itself, one that the user or a *)
(* trigger starts, one that recurs every week and needs an approval.       *)
Chain == [s \in Step |-> {t \in Step : t = s - 1}]
(* Steps that do not depend on each other. *)
Apart == [s \in Step |-> {}]
=============================================================================
