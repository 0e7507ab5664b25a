\* Two processes, two operations on two sources that may be revoked.
CONSTANTS
    pause = pause
    delete = delete
    s1 = s1
    s2 = s2
    None = None
    Procs = {a, b}
    Workflows = {w1, w2, w3}
    Sources = {s1, s2}
    Operations = {pause, delete}
    SourceOf <- TwoSources
    Destructive = {delete}
    Ttl = 1
    MaxTime = 1
SPECIFICATION FairSpec
INVARIANTS
    CallsWinOnce
    DestructiveRunsOnlyConfirmed
PROPERTIES
    LedgerSpec
    SimulationsSettle
