\* An aborted synchronisation that publishes.
CONSTANTS
    p1 = p1
    p2 = p2
    o1 = o1
    o2 = o2
    None = None
    Procs = {a, b}
    SourceIds = {s1}
    RunIds = {r1}
    Roots = {root}
    Paths = {p1, p2}
    Hashes = {h1}
    ObjectOf <- DistinctObjects
    Requests = {"register", "sync"}
SPECIFICATION Spec
PROPERTIES
    AbortedRunNeverPublishes
