CONSTANTS
    NSisters = 6
    NCpus = 2
    MaxWaiters = 2
    Capacity = 2
    MaxPermits = 2
    Modulus = 3
    Workloads <- DemoWorkloads
SPECIFICATION FairSpec
INVARIANTS
    TypeOK
    RunningIsCurrent
    MutualExclusion
    BlockedIsQueued
    BoostOnlyForOwner
    NoLostUpdate
PROPERTIES
    MailboxIsFIFO
    LockIsGranted
