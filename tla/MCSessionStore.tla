--------------------------- MODULE MCSessionStore ---------------------------
EXTENDS SessionStore, TLC

CONSTANTS u1, u2, p1, p2, o1, o2, o3, o4

MCSymmetry == Permutations(Procs) \cup Permutations(Users) \cup Permutations(Objects)
=============================================================================
