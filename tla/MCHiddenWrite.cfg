CONSTANTS
    r1 = r1
    r2 = r2
    Calls <- MCCalls
    Labels <- MCLabels
    Uris <- MCUris
    JqUri = "jq://"
    SchemeOf <- MCSchemeOf
    Words <- MCWords
    Hole = Hole
    Dotted <- MCDotted
    MetaCommands <- MCMetaCommands
    Value = "x"
    Buffers <- MCBuffers
    Registries <- MCRegistries
    OptsOf <- MCOptsOf
    Limits = {1, 20}
    BadValue = BadValue
    TableSize = 2

SPECIFICATION Spec

INVARIANT OnlyTheLastStageWrites
