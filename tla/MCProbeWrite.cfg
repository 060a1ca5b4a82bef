CONSTANTS
    r1 = r1
    r2 = r2
    Requests <- MCOneRequest
    Labels <- MCLabels
    Uris <- MCUris
    JqUri = "jq://"
    SchemeOf <- MCSchemeOf
    Words <- MCWords
    Hole = Hole
    Dotted = {}
    MetaCommands = {}
    Value = "x"
    Places <- MCWritingPlaces
    Registries <- MCRegistries
    CacheTTL = 2
    ProbeTimeout = 1
    NoEntry = NoEntry

SPECIFICATION Spec

INVARIANT ProbesRead
