CONSTANTS
    c1 = c1
    c2 = c2
    a = a
    b = b
    sql = sql
    redis = redis
    Clients <- MCClients
    Mortal <- MCClients
    Labels <- MCLabels
    Uris <- MCUris
    RedisUris <- MCRedisUris
    RefreshInterval = 1
    MaxTime = 2
    Garbage = Garbage
    NoCache = NoCache
    NoLabel = NoLabel
    NoUri = NoUri

SPECIFICATION Spec

INVARIANTS
    TypeOK
    UniqueConnectionLabels
    RegistryComplete
    CacheBelongs
    RefreshSticks

PROPERTIES
    CacheNeverGoesBack

SYMMETRY MCSymmetry
