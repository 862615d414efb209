------------------------------ MODULE MCCache ------------------------------
(* The instance of Cache TLC checks: one key, since Get, Invalidate and the *)
(* group treat keys apart, with goroutines enough to lead, join and refresh *)
(* it at once.                                                              *)
EXTENDS Cache
=============================================================================
