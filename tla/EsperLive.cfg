SPECIFICATION FairSpec
CONSTANTS
    NSlots = 3
    NCpus = 2
    MaxPid = 3
    Setups <- LiveSetups
PROPERTIES
    ReadyRuns
CHECK_DEADLOCK FALSE
