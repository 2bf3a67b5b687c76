\* Two users, an ad-hoc and a named room, two operations, one failure.
CONSTANTS
    ann = ann
    bob = bob
    r1 = r1
    n1 = n1
    Users = {ann, bob}
    Rooms = {r1, n1}
    NamedRooms = {n1}
    None = None
    MaxOps = 2
    MaxFaults = 1
    MaxEvents = 3
    MaxInbox = 1
SPECIFICATION Spec
SYMMETRY Symmetry
INVARIANTS TypeOK MembersJustified
PROPERTIES SweepIsBounded
