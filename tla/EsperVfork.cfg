SPECIFICATION Spec
CONSTANTS
    NSlots = 2
    NCpus = 2
    MaxPid = 2
    Setups <- VforkSetups
INVARIANTS
    VforkParentReleased
CHECK_DEADLOCK FALSE
