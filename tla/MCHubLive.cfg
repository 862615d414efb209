CONSTANTS
    c1 = c1
    c2 = c2
    u1 = u1
    Clients = {c1, c2}
    Users = {u1}
    UserOf <- MCUserOf
    Rooms = {}
    NoRoom = NoRoom
    Pushers = {}
    SendCap = 1
    MaxPushes = 2
SPECIFICATION FairSpec
CHECK_DEADLOCK FALSE

PROPERTIES PushReturns LostClientsLeave
