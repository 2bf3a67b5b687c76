SPECIFICATION RoomSpec
CONSTANTS
    a = a
    b = b
    Person <- MCPerson
    MicOnCall = FALSE
    MaxCalls = 2
    MaxMoves = 2
    Others <- MCPerson
    Local = Local
    Nobody = Nobody
    MaxInputs = 4
    m1 = m1
    m2 = m2
    Monitor <- MCMonitor
    NoMonitor = NoMonitor
    MaxChanges = 4
    Desktops <- MCDesktops
    Cursors <- MCCursors
    Layouts <- MCLayouts
    MaxScenes = 1
    hd = hd
    sd = sd
    tall = tall
    Shapes = {hd}
    NoShape = NoShape
    RestartGap = 0
    MaxPictures = 4
    MaxStreams = 2
    Dimensions <- MCDimensions
    NoDimensions = NoDimensions
    Aspect <- MCAspect
    FirstAspect = "wide"
    Widest <- MCWidest
    MaxReshapes = 3
    MaxResizes = 2
    g1 = g1
    g2 = g2
    g3 = g3
    Guests = {g1, g2, g3}
    FullName <- MCFullName
    Palette <- MCPalette
    Me = "local"
    MaxComings = 5
    MaxScreens = 2
    MaxRoomEvents = 2
    Pointing = {"sharer"}
    Interval = 2
    RestsAfter = 21
    HidesAfter = 4
    RippleTime = 3
    MaxAnimations = 1
    Lag = 1
    MaxLost = 1
    MaxSpots = 3
    MaxClicks = 2
CONSTRAINT InTime
INVARIANTS ParticipantExists
CHECK_DEADLOCK FALSE
