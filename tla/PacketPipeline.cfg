CONSTANTS
    Workers = {w1, w2}
    RecvCap = 1
    SendCap = 1
    Arriving <- MCArriving
    None = None
SPECIFICATION FairSpec
INVARIANTS
    TypeOK
    OneAnswer
    NeverOlder
PROPERTY Handled
\* The bound on datagrams stops the system.
CHECK_DEADLOCK FALSE
