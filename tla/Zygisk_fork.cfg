SPECIFICATION Spec
CONSTANTS
    NModules = 1
    Devices <- MCDevices
    MaxStarts = 1
    MaxCalls = 1
    MaxFd = 2
INVARIANTS
    NoModuleInZygote
CHECK_DEADLOCK FALSE
