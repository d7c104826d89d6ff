------------------------------ MODULE MCEpoch ------------------------------
(* The instance of Epoch that TLC explores: two turns, one poll thread.  Two  *)
(* rollovers fit, the second of an epoch that opened after the first, and so  *)
(* does the segment each of them opens.                                       *)
EXTENDS Epoch, TLC
===============================================================================
