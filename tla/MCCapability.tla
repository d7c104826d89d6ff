---- MODULE MCCapability ----
EXTENDS Capability, TLC
Symmetry == Permutations(Request)
====
