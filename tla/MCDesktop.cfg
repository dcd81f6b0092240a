CONSTANTS
    Nothing = nothing
    Requests = {a, b}
    Failing = {b}
    Lanes = {1, 2}
    Steps = 1
    MaxRequests = 2
    MaxChannels = 3
    MaxByHand = 2
    MaxUnderWay = 2
    MaxCancels = 1
    MaxRevision = 1
    MaxFailures = 1
    MaxClicks = 2
SPECIFICATION DesktopSpec
INVARIANTS
    RetryRunsOnce
PROPERTIES
    InterfaceFollows
    CancelledEnd
\* The application may close, and nothing is left to do then.
CHECK_DEADLOCK FALSE
