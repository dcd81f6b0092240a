CONSTANTS
    None = None
    Actions <- MCActions
    Capacity = 1
    MaxRevision = 1
    Observations <- AnyObservation
    Faults = TRUE
    MayUpdate = TRUE
SPECIFICATION Spec
PROPERTIES
    FlagsAreTrue
    LaunchedSetupStays
