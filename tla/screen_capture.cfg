SPECIFICATION Spec
CONSTANTS
    display = display
    window = window
    None = None
    Content <- MCContent
    MaxRequests = 2
    MaxNews = 2
    MaxFailures = 0
    MaxRetries = 1
INVARIANTS TypeOK CaptureIsAccountedFor
PROPERTIES StopIsHonoured ImplementsSession
CHECK_DEADLOCK FALSE
