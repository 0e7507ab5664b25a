\* Every kind of request, a directory registered again after its source was
\* revoked, and paths that casefold to one object: the store implements
\* SnapshotLedger, and its runs are settled although processes die.
CONSTANTS
    p1 = p1
    p2 = p2
    o1 = o1
    o2 = o2
    None = None
    Procs = {a, b}
    SourceIds = {s1, s2}
    RunIds = {r1, r2}
    Roots = {root}
    Paths = {p1, p2}
    Hashes = {h1}
    ObjectOf <- CaseTwins
    Requests = {"register", "sync", "resume", "pause", "delete-derived", "revoke"}
SPECIFICATION FairSpec
INVARIANTS
    OneSourcePerRoot
    RowsAreKeyed
    NothingOutlivesItsSource
PROPERTIES
    LedgerSpec
    RunsAreSettled
