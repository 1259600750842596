CONSTANTS
    Handlers = {p, q}
    Packets <- MCPackets
    MaxReq = 3
    None = None
    Rpcs = {r}
    DbOutcomes = {TRUE, FALSE}
    MaxStarts = 2
SPECIFICATION FairSpec
INVARIANTS
    TypeOK
    UniqueIds
    ReplyUsable
    TableComplete
    RpcServed
PROPERTIES
    HandlerEnds
    StopEnds
\* The bounds on datagrams and starts stop the system.
CHECK_DEADLOCK FALSE
