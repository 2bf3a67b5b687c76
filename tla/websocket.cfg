\* Two users, two rooms, two call requests; two connections of one process.
CONSTANTS
    ann = ann
    bob = bob
    r1 = r1
    r2 = r2
    Users = {ann, bob}
    Rooms = {r1, r2}
    NamedRooms = {}
    None = None
    MaxCalls = 2
    MaxQueue = 2
    c1 = c1
    c2 = c2
    Conns = {c1, c2}
SPECIFICATION SocketSpec
INVARIANTS SocketTypeOK OneRoomPerRing CutsOffOnlyTheDead
PROPERTIES RingingStops GoneIsOffline
CHECK_DEADLOCK FALSE
