CONSTANTS
    NSisters = 4
    NCpus = 1
    MaxWaiters = 2
    Capacity = 2
    MaxPermits = 2
    Modulus = 3
    Workloads <- WorkerWorkloads
SPECIFICATION FairSpec
PROPERTY EqualsShare
