SPECIFICATION Spec
CONSTANTS
    E = E
    A = A
    C = C
    T1 = T1
    T2 = T2
    b1 = b1
    b2 = b2
    t1 = t1
    s1 = s1
    s2 = s2
    R1 = R1
    R2 = R2
    R3 = R3
    admin = admin
    guest = guest
    None = None
    Stores = {R1, R2, R3}
    Chunks = {E, A, C, T1, T2}
    Blobs = {b1, b2, t1}
    Refs <- MCRefs
    Empty = E
    Senders = {s1, s2}
    Jobs <- MCJobs
    Fetchers = {f1}
    Prefixes <- MCPrefixes
    MaxBatch = 2
    MaxSessions = 2
    MaxFetches = 2
    Codes = {d1, d2}
    Ceremonies = {e1}
    Passkeys = {k1}
    Browsers = {w1}
    CeremonyTTL = 1
    DeviceTTL = 1
    BrowserTTL = 1
    AccessTTL = 2
    RefreshTTL = 3
    MaxTime = 4
    Calls = {c1, c2}
    Requests <- MCRequests
    Traces = {t1}
    HostTrees <- MCHostTrees
    MaxHosted = 2
    MaxCalls = 3
SYMMETRY Symmetry
INVARIANTS PushNeverRefused PushedOnce FetchComplete AccessEnds  RepositoriesAgree
CHECK_DEADLOCK FALSE
