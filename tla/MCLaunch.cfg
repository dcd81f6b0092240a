CONSTANTS
    None = None
    MaxEdits = 1
    MaxRuns = 2
    Pids = {7}
    LaunchTimeout = 1
    MaxUnknown = 1
SPECIFICATION FairSpec
INVARIANTS
    ConfirmedByThisRun
    ReadyIsTrue
PROPERTIES
    LaunchRunsTheSaved
    GameIsFollowed
