------------------------------- MODULE MCFeed -------------------------------
(* Two placeholders next to each other, between two messages: what takes    *)
(* over one of them may belong beside it or elsewhere.                      *)
EXTENDS Feed
=============================================================================
