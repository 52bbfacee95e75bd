SPECIFICATION NodeSpec
CONSTANTS
    x = x
    c1 = c1
    Paths = {x}
    Ancestors <- MCAncestors
    Contents = {c1}
    Absent = Absent
    None = None
    Layers = {l1, l2}
    Operations = {o1, o2}
    Handles = {n}
    Provenances = {}
    Attributions = {"human", "untraced"}
    Resolutions = {}
    InputTrees = {}
    InputChanges <- MCReverts
    StackChanges = {}
    MaxVersion = 2
    MaxRevision = 2
SYMMETRY Symmetry
INVARIANTS RecordsAgree
PROPERTIES PublishReplays AppendReplays
