CONSTANTS
    Rooms = {r1, r2}
    Trees = {t1, t2}
    Callers = {c1, c2}
    Nobody = Nobody
    Cap = 1
    MaxEvents = 2
SPECIFICATION Spec
CHECK_DEADLOCK FALSE
SYMMETRY Symmetry
INVARIANTS TypeOK OneListenerPerRoom ShownIsListened EachInOrder NobodyHoldsUpSync
