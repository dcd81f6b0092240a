CONSTANTS
    None = None
    Actions <- SetupOnly
    Capacity = 1
    MaxRevision = 1
    Observations <- StoppedOrRunning
    Faults = FALSE
    MayUpdate = FALSE
SPECIFICATION FairSpec
PROPERTIES
    RequestsAreAnswered
    RecoveryIsRetried
