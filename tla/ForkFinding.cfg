SPECIFICATION Spec
CONSTANTS
    E = E
    A = A
    C = C
    T1 = T1
    T2 = T2
    b1 = b1
    b2 = b2
    t1 = t1
    s1 = s1
    s2 = s2
    R1 = R1
    R2 = R2
    R3 = R3
    admin = admin
    guest = guest
    None = None
    Stores = {R1, R2}
    Chunks = {E, A, C, T1, T2}
    Blobs = {b1, b2, t1}
    Refs <- MCRefs
    Empty = E
    Senders = {}
    Jobs <- MCJobs
    Fetchers = {}
    Prefixes <- MCPrefixes
    MaxBatch = 2
    MaxSessions = 2
    MaxFetches = 2
    Codes = {d1}
    Ceremonies = {e1}
    Passkeys = {k1}
    Browsers = {w1}
    CeremonyTTL = 1
    DeviceTTL = 1
    BrowserTTL = 1
    AccessTTL = 2
    RefreshTTL = 3
    MaxTime = 1
    Calls = {c1}
    Requests <- MCOneFork
    Traces = {t1}
    HostTrees <- MCHostTrees
    MaxHosted = 1
    MaxCalls = 2
SYMMETRY Symmetry
INVARIANTS ForkTakesEveryTrace
CHECK_DEADLOCK FALSE
