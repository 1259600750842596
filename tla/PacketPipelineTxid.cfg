CONSTANTS
    Workers = {w1}
    RecvCap = 1
    SendCap = 1
    Arriving <- MCArriving
    None = None
SPECIFICATION FairSpec
INVARIANT OriginalTxid
CHECK_DEADLOCK FALSE
