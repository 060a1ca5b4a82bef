CONSTANTS
    p1 = p1
    p2 = p2
    text = text
    Empty = Empty
    Missing = Missing
    NoPath = NoPath
    NoRecovery = NoRecovery
    BadRecovery = BadRecovery
    NoSession = NoSession
    Paths <- MCPaths
    Contents <- MCContents

SPECIFICATION Spec

PROPERTY ClosedBufferIsKept
SYMMETRY MCSymmetry
