CONSTANTS
    i1 = i1
    i2 = i2
    i3 = i3
    a1 = a1
    a2 = a2
    t1 = t1
    Ids = {i1, i2, i3}
    Bucket <- MCBucket
    Addrs = {a1, a2}
    Tokens = {t1}
    Goroutines = {ticker, w1, w2}
    Sweepers = {ticker}
    Workers = {w1, w2}
    First = None
    DbOutcomes = {TRUE, FALSE}
    None = None
    Buckets = 1
    KSize = 2
    KFew = 1
    Bootstrap <- MCBootstrap
    Responses <- MCResponses
    MaxSweeps = 1
    Queries <- MCQueries
    MaxQueries = 2
    InitTables <- MCInitTables
    MaxStops = 0
SPECIFICATION FairSpec
INVARIANTS
    TypeOK
    SingleReply
PROPERTIES
    BucketFloor
    TokenKept
    SweepEnds
    QueryEnds
\* The bounds on queries and sweeps stop the system.
CHECK_DEADLOCK FALSE
