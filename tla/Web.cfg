CONSTANTS
    u1 = u1
    u2 = u2
    h1 = h1
    h2 = h2
    h3 = h3
    c1 = c1
    c2 = c2
    Names = {u1, u2}
    Hashes = {h1, h2, h3}
    Clients = {c1, c2}
    Reader = Reader
    Sizes = {3}
    MaxSize = 2
    DefaultSize = 1
    Seconds = {1, 2}
    InitTables <- MCInitTables
    DbOutcomes = {TRUE, FALSE}
    MaxReq = 2
    MaxStarts = 2
    None = None
SPECIFICATION FairSpec
INVARIANTS
    TypeOK
    Acknowledged
    PagesComplete
    RequestsDrained
PROPERTIES
    StopEnds
\* The bounds on requests and starts stop the system.
CHECK_DEADLOCK FALSE
