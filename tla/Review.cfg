SPECIFICATION Spec
CONSTANTS
    alice = alice
    rita = rita
    mona = mona
    c1 = c1
    c2 = c2
    build = build
    Principals = {alice, rita, mona}
    Requests = {r1}
    Operations = {o1, o2, o3, o4}
    Checkpoints = {c1, c2}
    SourceTree <- MCTree
    Pushes <- MCPushes
    CheckPolicies <- MCPolicies
    CheckNames = {build}
    CommentOn = {2}
    ReportOn = {c1}
    MaxResults = 2
    None = None
CONSTRAINT Bounded
SYMMETRY Symmetry
INVARIANTS Restorable PublishedIsLanded
PROPERTIES ExactApprovals ExactChecks LandedIsFinal
