\* Two imports of one export that is changed twice under them.
CONSTANTS
    None = None
    Procs = {a, b}
    Exports <- SomeExports
    Ids = {1, 2, 3, 4}
    Times = {0, 2, 4, 5, 8}
    WindowSize = 3
    WindowGap = 2
    MaxEdits = 2
    SourceIds = {s1, s2}
    RunIds = {r1, r2}
SPECIFICATION Spec
SYMMETRY Symmetry
CHECK_DEADLOCK FALSE
INVARIANTS
    ConversationsAreSound
    
PROPERTIES
    ImportsAreOneExport
    EarlierWindowsAreKept
