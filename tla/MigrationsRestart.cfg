CONSTANTS
    ta = ta
    tb = tb
    tc = tc
    NFiles = 1
    Texts <- MCDhtTexts
    Tables <- MCTables
    DbOutcomes = {TRUE}
    MaxStarts = 2
SPECIFICATION FairSpec
INVARIANT StartSucceeds
CHECK_DEADLOCK FALSE
