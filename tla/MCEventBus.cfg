CONSTANTS
    r1 = r1
    r2 = r2
    s1 = s1
    s2 = s2
    Requests <- MCRequests
    Streams <- MCStreams
    NoStream = NoStream
    Capacity = 1

SPECIFICATION Spec

INVARIANTS
    TypeOK
    NoSendOnClosed
    EveryEventAccountedFor

PROPERTIES
    ImplementsFanout
    PublishCompletes
    StreamsEnd
