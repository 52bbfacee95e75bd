SPECIFICATION FairSpec
CONSTANTS
    d = d
    x = x
    e = e
    c1 = c1
    c2 = c2
    Paths = {d, x, e}
    Ancestors <- MCAncestors
    Contents = {c1, c2}
    Absent = Absent
    None = None
    Layers = {l1}
    Operations = {o1, o2}
    Handles = {h1}
    Provenances = {}
    Attributions = {"human", "untraced"}
    Resolutions = {}
    InputTrees <- MCTrees
    InputChanges <- MCEdits
    StackChanges <- MCMerges
    MaxVersion = 2
    MaxRevision = 2
INVARIANTS LayersValid RadarExact BlameExact AttemptsValid
PROPERTIES RetryReplays ImplementsWorldLog PublishReturns
