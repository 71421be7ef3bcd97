SPECIFICATION Spec
CONSTANTS
    NModules = 2
    Devices <- MCDevices
    MaxStarts = 3
    MaxCalls = 2
    MaxFd = 4
INVARIANTS
    FdCheckPasses
    DenyListClean
    ForkedOnce
    ZygoteUntouched
    HooksRemoved
CHECK_DEADLOCK FALSE
