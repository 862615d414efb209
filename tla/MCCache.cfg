CONSTANTS
    Keys = {k1}
    Callers = {c1, c2}
    Refreshers = {r1}
    NoProc = NoProc
    MaxVersion = 3
SPECIFICATION FairSpec
CHECK_DEADLOCK TRUE
INVARIANTS TypeOK OneFetchPerKey InvalidateIsAFence
PROPERTIES MonotonicReads GetReturns
