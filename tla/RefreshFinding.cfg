SPECIFICATION Spec
CONSTANTS
    d = d
    x = x
    a = a
    b = b
    Paths = {d, x}
    Ancestors <- MCAncestors
    Contents = {a, b}
    Absent = Absent
    None = None
    Ignored = {x}
    Lag = 1
    Margin = 1
    MaxClock = 0
    MaxEdits = 0
    WorldTree <- MCWorldOne
    StackTrees <- MCBackAndForth
    OtherTrees = {}
    Supplied = {}
    MaxWorld = 1
    MaxHeads = 4
    MaxCrashes = 1
PROPERTIES CaptureNeverReverts
CHECK_DEADLOCK FALSE
