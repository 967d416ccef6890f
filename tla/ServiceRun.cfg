SPECIFICATION ServiceSpec
CONSTANTS
    Procs = {p1, p2}
    Jobs = {j1, j2}
    Conns = {c1, c2}
    Overflow = {}
    MaxWorkers = 2
    MaxHold = 2
    MaxFailures = 1
    MaxCrashes = 1
    States = {s1, s2}
    Handlers = {h1, h2}
    Providers = {t1, t2}
    Clients = {k1, k2}
    Openers = {u1, u2}
    Keys = {e1, e2}
    MaxDocs = 2
    MaxVersion = 3
SYMMETRY Symmetry
INVARIANTS JobsRunOnceAndTell SignInsAreKept OnlyAnOverlapLoses
CHECK_DEADLOCK FALSE
