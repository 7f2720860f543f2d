SPECIFICATION Spec
CONSTANTS
    NSlots = 3
    NCpus = 2
    MaxPid = 4
    Setups <- SafetySetups
INVARIANTS
    TypeOK
    SingleClaim
    ClaimsAgree
    NoDoubleExecution
    SlotStable
    NoMissedReap
    ReapedOnce
PROPERTIES
    WaitpidExact
    NoRevive
CHECK_DEADLOCK FALSE
