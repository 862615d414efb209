------------------------------- MODULE MCHub -------------------------------
EXTENDS Hub

CONSTANTS c1, c2, u1

\* Two windows of one user.
MCUserOf == [c \in Clients |-> u1]
=============================================================================
