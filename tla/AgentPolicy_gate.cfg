\* Decisions of two engines, evaluated, passed on also altered,
\* recorded and presented to prepare, around a restart, reads and revocations.
CONSTANTS
    search = search
    pause = pause
    revoke = revoke
    s1 = s1
    k1 = k1
    k2 = k2
    NoKey = NoKey
    None = None
    Procs = {a, b}
    Sources = {s1}
    Actions = {search, pause, revoke}
    RiskOf <- Risk
    Keys = {k1, k2}
    Operations <- Asked
    Claims <- Altered
    Authorities = {agent, policy}
    MaxRestarts = 1
    MaxEvidence = 1
SPECIFICATION Spec
SYMMETRY Symmetry
INVARIANTS
    
    ReadsLeaveEvidence
    NothingOutlivesItsSource
