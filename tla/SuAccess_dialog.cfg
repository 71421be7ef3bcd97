SPECIFICATION FairSpec
CONSTANTS
    MaxRequests = 1
    FreshFor = 1
    Uids <- MCUids
    Cfgs <- MCCfgs
    Rows <- MCRows
    MgrApp = 10005
    MaxEdits = 0
PROPERTIES DialogEnds
