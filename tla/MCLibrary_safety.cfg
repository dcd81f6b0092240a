CONSTANTS
    m = m
    a1 = a1
    a2 = a2
    s = s
    r = r
    c = c
    None = None
    Builds <- MCBuilds
    Mods <- MCMods
    ModOf <- MCModOf
    Sources <- MCSources
    Slots <- MCSlots
    Collections <- MCCollections
SYMMETRY Symmetry
SPECIFICATION Spec
INVARIANTS
    RecordsAgree
PROPERTIES
    AcceptedViewIsCurrent
    CancelledNotCommitted
