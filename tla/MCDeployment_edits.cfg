CONSTANTS
    loader = loader
    activation = activation
    mod = mod
    a = a
    b = b
    Absent = Absent
    NoPath = NoPath
    Paths = {loader, activation, mod}
    Content = {a, b}
    Payloads <- MCPayloads
    Folders <- MCFolders
    Plugins = {mod}
    Editable = {loader, activation, mod}
    EditTo = {a, b, Absent}
    MayClose = TRUE
SPECIFICATION Spec
INVARIANTS
    FolderIsAccounted
    GameStartStopsWriting
PROPERTIES
    UnknownContentKept
