CONSTANTS
    Users = {me, ann}
    Me = me
    Notifiers = {n1, n2}
    Request = Request
    ChanCap = 1
SPECIFICATION Spec
CHECK_DEADLOCK FALSE
SYMMETRY Symmetry
INVARIANTS TypeOK OnlyListedType PageShowsTypists
