\* Two operations, the database in use and two other paths, one of which may
\* hold a file of any kind from the start.
CONSTANTS
    Procs = {a, b}
    Live = live
    Paths = {live, x, y}
    Inodes = {i1, i2, i3, i4}
    MaxCommits = 1
    None = None
SPECIFICATION Spec
SYMMETRY Symmetry
CHECK_DEADLOCK FALSE
INVARIANTS
    ReceiptsAreSound
    RestoresGiveBackTheBackup
    UnfinishedOutputsAreRemoved
PROPERTIES
    OthersFilesAreKept
