SPECIFICATION Spec
CONSTANTS
    alice = alice
    rita = rita
    mona = mona
    c1 = c1
    c2 = c2
    build = build
    Principals = {alice, rita, mona}
    Requests = {r1}
    Operations = {o1, o2, o3}
    Checkpoints = {c1, c2}
    SourceTree <- MCTree
    Pushes <- MCPushes
    CheckPolicies = {}
    CheckNames = {}
    CommentOn = {2}
    ReportOn = {}
    MaxResults = 0
    None = None
SYMMETRY Symmetry
INVARIANTS LostRecordCompletes
