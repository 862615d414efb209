--------------------------- MODULE MCMessageTree ---------------------------
EXTENDS MessageTree
=============================================================================
