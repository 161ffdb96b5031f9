SPECIFICATION Spec
CONSTANTS
    ZB_SCHEDULER_Q_SIZE = 2
    TimeSize = 15
    MaxDelay = 2
    UsPerMs = 2
    MsPerSec = 4
    BeaconTenths = 23
    DefaultTimeout = 1
    MaxLate = 0
    MaxRest = 8
    MaxStall = 4
    MaxCalls = 1
    ANY_PARAM = 255
    ALL_CB = 254
    f1 = f1
    f2 = f2
    Funcs <- MCFuncs
    Params <- MCParam
PROPERTIES
    TimerKeepsTime
CHECK_DEADLOCK TRUE
