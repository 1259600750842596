CONSTANTS
    a1 = a1
    t1 = t1
    IdBytes = 2
    ByteBits = 2
    SelfId <- MCSelfId
    Ids <- MCIds
    Bucket <- MCBucket
    Addrs = {a1}
    Tokens = {t1}
    Goroutines = {run, ticker, w1}
    Sweepers = {run, ticker}
    Workers = {w1}
    First = run
    DbOutcomes = {TRUE}
    None = None
    Buckets = 4
    KSize = 2
    KFew = 1
    Bootstrap <- MCBootstrap
    Responses <- MCResponses
    MaxSweeps = 2
    Queries <- MCQueries
    MaxQueries = 2
    InitTables <- MCInitTables
    MaxStops = 1
SPECIFICATION FairSpec
INVARIANTS
    ProbeTargets
    OnlySelfUnswept
PROPERTIES
    BucketFloor
    SweepEnds
\* The bounds on queries and sweeps stop the system.
CHECK_DEADLOCK FALSE
