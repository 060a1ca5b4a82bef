CONSTANTS
    Labels <- MCLabels
    Uris <- MCUris
    JqUri = "jq://"
    SchemeOf <- MCSchemeOf
    Words <- MCWords
    Hole = Hole
    Value = "raw"
    Dotted = {}
    MetaCommands = {}
    Parts <- MCParts
    Inside <- MCInside
    DbWords <- MCDbWords
    Begins <- MCBegins
    Catalog <- MCCatalog
    Servers <- MCServers
    Payloads <- MCPayloads
    ArraySample = 2
    SampleSize = 2
    Lines <- MCLines
    Frame <- MCFrame
    Registry <- MCRegistry
    MaxLines = 4
    FewLines = 3

SPECIFICATION Spec

INVARIANTS
    TypeOK
    StagesAreSegments
    ProbesWhatARunWouldRun
    ProbeStopsBeforeCursor
    ContextIsOfTheLastKeyword
    AliasesAreKept
    OffersAreOfTheStage
    ColumnsAreOfOneTable
    EveryCollectionIsOffered
    PathsAreOfTheStageBefore
