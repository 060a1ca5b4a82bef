CONSTANTS
    r1 = r1
    r2 = r2
    Requests <- MCRequests
    Labels <- MCLabels
    Uris <- MCUris
    JqUri = "jq://"
    SchemeOf <- MCSchemeOf
    Words <- MCWords
    Hole = Hole
    Dotted = {}
    MetaCommands = {}
    Value = "x"
    Places <- MCPlaces
    Registries <- MCRegistries
    CacheTTL = 2
    ProbeTimeout = 1
    NoEntry = NoEntry

SPECIFICATION Spec

INVARIANTS
    TypeOK
    AnswersAreOfThePipeline
    AnswersAreRecent

PROPERTIES
    RequestsReturn
    GoroutinesEnd
