CONSTANTS
    Callers = {c1, c2}
    MaxReq = 2
    TxIds = {t1, t2}
    Addrs = {a1}
    SendCap = 1
    None = None
SPECIFICATION Spec
INVARIANT RemovedOnReturn
CHECK_DEADLOCK FALSE
