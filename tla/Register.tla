------------------------------ MODULE Register ------------------------------
(***************************************************************************)
(* What src/internal/cache/cache.go promises of each key: a register that   *)
(* may lag behind the homeserver and never goes back.  Cache implements it. *)
(***************************************************************************)
EXTENDS Naturals

CONSTANT Keys

VARIABLES
    value,   \* the version each key has
    read     \* the version of each key that was read last

Init ==
    /\ value = [k \in Keys |-> 1]
    /\ read = [k \in Keys |-> 0]

Write(k) ==
    /\ value' = [value EXCEPT ![k] = @ + 1]
    /\ UNCHANGED read

\* Any version between the one read last and the current one.
Read(k) ==
    /\ \E v \in read[k]..value[k] : read' = [read EXCEPT ![k] = v]
    /\ UNCHANGED value

Next == \E k \in Keys : Write(k) \/ Read(k)

Spec == Init /\ [][Next]_<<value, read>>
=============================================================================
