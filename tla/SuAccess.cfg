SPECIFICATION FairSpec
CONSTANTS
    MaxRequests = 3
    FreshFor = 1
    Uids <- MCUids
    Cfgs <- MCCfgs
    Rows <- MCRows
    MgrApp = 10005
    MaxEdits = 1
INVARIANT GrantsSound
PROPERTIES DecisionStands OnlyOwnDialogBlocks
