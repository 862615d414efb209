CONSTANTS
    Keys = {k1}
    Callers = {c1, c2}
    Refreshers = {r1}
    NoProc = NoProc
    MaxVersion = 2
SPECIFICATION Spec
CHECK_DEADLOCK TRUE
INVARIANT ResultIsAnEntry
