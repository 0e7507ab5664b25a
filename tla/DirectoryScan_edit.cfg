\* Every tree of three nodes, walked again and again beside two changes.
CONSTANTS
    note = note
    sub = sub
    page = page
    text = text
    book = book
    Root = Root
    None = None
    Nodes = {note, sub, page}
    Parent <- ParentOf
    Way <- WayTo
    Depth <- DepthOf
    Eligible = {note, page}
    Files = {text, book}
    FirstSize <- SizeOf
    Sizes = {1, 2}
    OtherSize <- SizeOfOther
    MaxFileSize = 1
    MaxDepth = 1
    Movable = {note, sub, page}
    MaxEdits = 2
SPECIFICATION FairSpec
INVARIANTS
    ScansAreComplete
    ReadsAreWhole
PROPERTIES
    ScansEnd
