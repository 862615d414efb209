------------------------------ MODULE MCTyping ------------------------------
EXTENDS Typing, TLC

Symmetry == Permutations(Notifiers)
=============================================================================
