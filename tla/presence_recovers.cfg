\* A named room, three operations and failures in all, at most two of a kind.
CONSTANTS
    ann = ann
    bob = bob
    n1 = n1
    Users = {ann, bob}
    Rooms = {n1}
    NamedRooms = {n1}
    None = None
    MaxOps = 2
    MaxFaults = 2
    MaxEvents = 3
    MaxInbox = 1
SPECIFICATION FairSpec
PROPERTIES PresenceConverges
