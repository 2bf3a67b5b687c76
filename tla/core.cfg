\* Two calls and a request of the windows; two controllers of one shared screen.
\* A core that has panicked stops, and so does one whose user has done all.
CONSTANTS
    MaxCalls = 2
    MaxRequests = 1
    c1 = c1
    c2 = c2
    Controllers = {c1, c2}
    None = None
SPECIFICATION CoreSpec
INVARIANTS CoreTypeOK NoConnectionLost ControlIsExclusive DisabledBlocks
PROPERTIES HangUpEndsAll NoCallIsForgotten NoThreadIsStuck
CHECK_DEADLOCK FALSE
