CONSTANTS
    loader = loader
    activation = activation
    mod = mod
    notes = notes
    a = a
    b = b
    Absent = Absent
    NoPath = NoPath
    Paths = {loader, activation, mod, notes}
    Content = {a, b}
    Payloads <- MCPayloads
    Folders <- MCFolders
    Plugins = {mod}
    Editable = {notes}
    EditTo = {a, Absent}
    MayClose = TRUE
SPECIFICATION RecoverySpec
PROPERTIES
    SwitchIsAtomic
    DeploymentsEnd
