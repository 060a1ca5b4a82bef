CONSTANTS
    c1 = c1
    c2 = c2
    a = a
    b = b
    sql = sql
    redis = redis
    Clients <- MCClients
    Mortal <- MCNobody
    Labels <- MCLabels
    Uris <- MCUris
    RedisUris <- MCRedisUris
    RefreshInterval = 1
    MaxTime = 1
    Garbage = Garbage
    NoCache = NoCache
    NoLabel = NoLabel
    NoUri = NoUri

SPECIFICATION Spec

INVARIANT AddedIsRegistered

SYMMETRY MCSymmetry
CHECK_DEADLOCK FALSE
