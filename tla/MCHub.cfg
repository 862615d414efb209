CONSTANTS
    c1 = c1
    c2 = c2
    u1 = u1
    Clients = {c1, c2}
    Users = {u1}
    UserOf <- MCUserOf
    Rooms = {r1}
    NoRoom = NoRoom
    Pushers = {p1}
    SendCap = 1
    MaxPushes = 2
SPECIFICATION Spec
CHECK_DEADLOCK FALSE
INVARIANTS TypeOK HubKnowsConnected PushMissesNobody

