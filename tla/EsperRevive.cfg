SPECIFICATION Spec
CONSTANTS
    NSlots = 2
    NCpus = 2
    MaxPid = 2
    Setups <- ReviveSetups
PROPERTIES
    NoReviveEver
CHECK_DEADLOCK FALSE
