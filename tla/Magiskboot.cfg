SPECIFICATION BootSpec
CONSTANTS
    Images <- MCImages
    RawLen <- MCRawLen
    NewFiles <- MCNewFiles
    Removable <- MCRemovable
    MaxEdits = 2
    Shapes <- MCShapes
    Payloads <- MCPayloads
    MaxRepacks = 3
INVARIANTS RepackSound UnmodifiedRoundTrip PayloadFound
PROPERTIES TablesFollow GotFollows
CHECK_DEADLOCK FALSE
