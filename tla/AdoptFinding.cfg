SPECIFICATION Spec
CONSTANTS
    f = f
    Files = {f}
    RemoteTree <- MCRemoteTree
    Processes = {p1, p2}
    AdoptOps = {a1, a2}
    MaxWorld = 2
    MaxCaptures = 1
    None = None
SYMMETRY Symmetry
INVARIANTS AdoptsWorldOne
