--------------------------- MODULE MCVerification ---------------------------
EXTENDS Verification
=============================================================================
