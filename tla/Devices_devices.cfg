SPECIFICATION FairSpec
CONSTANTS
    Bits = 2
    Divisor = 3
    Depth = 2
    Workloads <- MCWorkloads
INVARIANT TypeOK
INVARIANT SlavesServe
INVARIANT LineIsHeard
PROPERTY KeepsDeviceContract
PROPERTY AccessAnswered
