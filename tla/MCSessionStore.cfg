CONSTANTS
    u1 = u1
    u2 = u2
    p1 = p1
    p2 = p2
    o1 = o1
    o2 = o2
    o3 = o3
    o4 = o4
    Users = {u1, u2}
    Procs = {p1, p2}
    Objects = {o1, o2, o3, o4}
    None = None
    MaxUpdates = 2
SPECIFICATION Spec
CHECK_DEADLOCK TRUE
SYMMETRY MCSymmetry
INVARIANTS TypeOK DeletedStaysDeleted SavedIsRestorable UpdatesKept
