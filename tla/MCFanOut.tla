------------------------------ MODULE MCFanOut ------------------------------
EXTENDS FanOut, TLC

Symmetry == Permutations(Rooms) \cup Permutations(Trees) \cup Permutations(Callers)
=============================================================================
