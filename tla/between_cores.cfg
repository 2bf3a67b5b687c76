SPECIFICATION BetweenSpec
CONSTANTS
    ann = ann
    bob = bob
    carl = carl
    None = None
    Core <- MCCore
    Latecomers <- MCLatecomers
    MaxWishes = 4
    MaxShares = 2
    MaxStrokes = 4
    MaxWire = 3
    MaxPresses = 5
    MaxDecisions = 2
    MaxInFlight = 2
    Sides <- MCSides
    NoSide = NoSide
    MaxTexts = 3
    MaxPackets = 2
    MaxRequests = 3
    MaxTurns = 2
    speaker = speaker
    listener = listener
    Peers <- MCPeers
    Speakers <- MCSpeakers
    RoomIds = {1, 2}
    Throttle = 2
    MaxCommands = 4
    MaxWaiting = 2
    MaxPost = 2
INVARIANTS BetweenTypeOK SharesAgree PictureArrives KeysFollowHands ClipboardIsWhole SaidIsHeard
CHECK_DEADLOCK FALSE
SYMMETRY MCSymmetry
