CONSTANTS
    Callers = {c1, c2}
    MaxReq = 2
    TxIds = {t1, t2}
    Addrs = {a1, a2}
    SendCap = 1
    None = None
SPECIFICATION FairSpec
INVARIANTS
    TypeOK
    ReceiverNeverBlocks
    ResponseFitsRequest
    WaiterRegistered
PROPERTIES
    ImplementsRequestReply
    DoSendReturns
\* The bound MaxReq stops the callers.
CHECK_DEADLOCK FALSE
