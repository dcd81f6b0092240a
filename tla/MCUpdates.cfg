CONSTANTS
    App = App
    Remover = Remover
    None = None
    Builds = {1, 2, 3}
    Schema <- MCSchema
    Oldest = 19
    Previews = {2}
    MaxEdits = 1
    Interval = 1
    Feeds <- MCFeeds
    MaxBackoff = 0
    MaxRetry = 1
SPECIFICATION FairSpec
INVARIANTS
    RecordsOutliveGameFiles
    WorksOnItsVersion
    OffersAreCurrent
PROPERTIES
    DataIsKept
    HandOverIsSound
