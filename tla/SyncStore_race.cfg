\* Two processes and three synchronisations of one source that race each
\* other, recovery, deletion of derived data and revocation.
CONSTANTS
    p1 = p1
    p2 = p2
    o1 = o1
    o2 = o2
    None = None
    Procs = {a, b}
    SourceIds = {s1}
    RunIds = {r1, r2, r3}
    Roots = {root}
    Paths = {p1, p2}
    Hashes = {h1, h2}
    ObjectOf <- DistinctObjects
    Requests = {"register", "sync", "delete-derived", "revoke"}
SPECIFICATION Spec
SYMMETRY Symmetry
INVARIANTS
    CursorExplainsSnapshot
PROPERTIES
    EventsDescribeTheChange
