CONSTANTS
    ClassPerms <- MCClassPerms
    Constrained <- MCConstrained
    Contexts <- MCContexts
    NDrv = 3
    NFun = 2
    Loaded <- MCLoaded
    Statements <- ComplementStatements
    MaxStatements = 1
    MaxFaults = 2
    Parts = {"rules"}
SPECIFICATION PolicySpec
INVARIANT ComplementExcludesListed
CHECK_DEADLOCK FALSE
