CONSTANTS
    N = 4
    Placeholders = {2, 3}
    Texts = {"plain", "redacted"}
    ChanCap = 2
    MaxWrites = 4
SPECIFICATION Spec
CHECK_DEADLOCK FALSE
INVARIANTS TypeOK PageCatchesUp
