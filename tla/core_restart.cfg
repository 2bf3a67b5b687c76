SPECIFICATION ApplicationSpec
CONSTANTS
    c1 = c1
    c2 = c2
    on = on
    off = off
    None = None
    Cmd <- MCCmd
    Setting <- MCSetting
    Default = on
    MaxRequests = 3
    MaxFaults = 1
    t1 = t1
    t2 = t2
    jwt1 = jwt1
    jwt2 = jwt2
    SoundThread <- MCSoundThread
    MaxPlays = 3
    Token <- MCToken
    NoToken = NoToken
    MaxSaves = 4
    MaxUses = 4
    mic1 = mic1
    mic2 = mic2
    Mic <- MCMic
    NoMic = NoMic
    NoName = NoName
    Namings <- MCNamings
    MaxCaptures = 2
    MaxPlugs = 2
INVARIANTS EventsAreRead
CHECK_DEADLOCK FALSE
