CONSTANTS
    p1 = p1
    p2 = p2
    t1 = t1
    t2 = t2
    text = text
    Empty = Empty
    Missing = Missing
    NoPath = NoPath
    NoDoc = NoDoc
    NoFile = NoFile
    Live = Live
    Capacity = 1
    MaxActs = 3
    Paths <- MCPaths
    Contents <- MCContents
    Tabs <- MCTabs

SPECIFICATION Spec

INVARIANTS
    TypeOK
    EditsConverge
    MirrorsAgree

SYMMETRY MCSymmetry
CONSTRAINT Orderly
