SPECIFICATION Spec
CONSTANTS
    f = f
    Files = {f}
    RemoteTree <- MCRemoteTree
    Processes = {p1, p2}
    AdoptOps = {a1, a2}
    MaxWorld = 3
    MaxCaptures = 2
    None = None
SYMMETRY Symmetry
PROPERTIES AttachSound AdoptionBound
