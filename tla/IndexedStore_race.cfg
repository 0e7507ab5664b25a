\* Two processes index a source while its document is published in several
\* versions, deleted and revoked.
CONSTANTS
    d1 = d1
    s1 = s1
    short = short
    long = long
    other = other
    ChunkLimit = 4
    Lengths = {1, 2, 3, 4, 5, 8, 9}
    All = All
    None = None
    Procs = {a, b}
    Sources = {s1}
    Documents = {d1}
    SourceOf <- OneSource
    Versions = {short, long, other}
    ChunksOf <- Chunks
    Providers = {bge, e5}
SPECIFICATION Spec
SYMMETRY Symmetry
INVARIANTS
    IndexIsTraceable
    DocumentsAreWhole
    ChunksPartitionTexts
PROPERTIES
    IndexSyncIsExact
    VectorsGoWithTheirChunks
