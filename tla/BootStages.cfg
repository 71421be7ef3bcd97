SPECIFICATION FairSpec
CONSTANTS
    LDR = "libzygisk.so"
    Libs <- SomeLibs
    Orig <- Houdini
    Modules <- SomeModules
    ZygiskModules <- ZModule
    Installed <- OneModule
    IsEmulator = FALSE
    MaxBoots = 4
    MaxEdits = 2
INVARIANTS BootloopRescue BridgeSound
PROPERTIES StaysOff 
CHECK_DEADLOCK FALSE
