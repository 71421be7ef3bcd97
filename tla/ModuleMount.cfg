CONSTANTS
    NameOrder <- SomeNames
    Devices <- SomeDevices
    Modules <- SomeModules
    Environments <- SomeEnvironments
    PathEnv <- SomePath
    ModuleNames <- TwoNames
    MaxFailed = 1
SPECIFICATION Spec
INVARIANTS UntouchedStays MountsExact MagiskReachable
CHECK_DEADLOCK FALSE
