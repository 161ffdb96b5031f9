SPECIFICATION FairSpec
CONSTANTS
    ZB_SCHEDULER_Q_SIZE = 3
    TimeSize = 9
    MaxDelay = 1
    UsPerMs = 2
    MsPerSec = 2
    BeaconTenths = 23
    DefaultTimeout = 1
    MaxLate = 1
    MaxRest = 3
    MaxStall = 2
    MaxCalls = 1
    ANY_PARAM = 255
    ALL_CB = 254
    f1 = f1
    f2 = f2
    Funcs <- MCFuncs
    Params <- MCParams
INVARIANTS
    TypeOK
    QueueSound
    RunsWhenDue
PROPERTIES
    AlarmRuns
CHECK_DEADLOCK TRUE
