SPECIFICATION Spec
CONSTANTS
    d = d
    x = x
    e = e
    c1 = c1
    c2 = c2
    Paths = {d, x, e}
    Ancestors <- MCAncestors
    Contents = {c1, c2}
    Absent = Absent
    None = None
    Layers = {l1, l2}
    Operations = {o1, o2}
    Handles = {h1, h2}
    Provenances = {}
    Attributions = {"human"}
    Resolutions = {}
    InputTrees = {}
    InputChanges <- MCChanges
    StackChanges = {}
    MaxVersion = 2
    MaxRevision = 1
SYMMETRY Symmetry
INVARIANTS TypeOK HistoryValid CheckpointsValid ReceiptsValid NoLostUpdate
    NeverWedged RadarPredicts
PROPERTIES AppendOnly TerminalLayers
