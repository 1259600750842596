CONSTANTS
    ta = ta
    tb = tb
    tc = tc
    NFiles = 2
    Texts <- MCTexts
    Tables <- MCTables
    DbOutcomes = {TRUE, FALSE}
    MaxStarts = 3
SPECIFICATION FairSpec
INVARIANTS
    RecordedComplete
    UpComplete
    InOrderOnce
    SplitsWell
PROPERTY Ends
\* The bound on starts stops the system.
CHECK_DEADLOCK FALSE
