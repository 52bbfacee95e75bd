SPECIFICATION Spec
CONSTANTS
    d = d
    x = x
    a = a
    b = b
    Paths = {d, x}
    Ancestors <- MCAncestors
    Contents = {a, b}
    Absent = Absent
    None = None
    Ignored = {x}
    Lag = 1
    Margin = 1
    MaxClock = 2
    MaxEdits = 1
    WorldTree <- MCWorldTree
    StackTrees <- MCStackTrees
    OtherTrees <- MCOtherTrees
    Supplied = {}
    MaxWorld = 2
    MaxHeads = 3
    MaxCrashes = 1
INVARIANTS ScanExact DirectoryMatches RefreshConverges
PROPERTIES EditsKept CaptureKeepsStacked
CHECK_DEADLOCK FALSE
