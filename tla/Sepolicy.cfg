CONSTANTS
    ClassPerms <- MCClassPerms
    Constrained <- MCConstrained
    Contexts <- MCContexts
    NDrv = 3
    NFun = 2
    Loaded <- MCLoaded
    Statements <- MCStatements
    MaxStatements = 3
    MaxFaults = 2
    Parts = {"rules", "loading"}
SPECIFICATION PolicySpec
INVARIANTS AttributesAgree StatementsHold PrintedRulesHold PatchedBeforeInit
PROPERTIES OnlyDenyForbids BothGoOn
CHECK_DEADLOCK FALSE
