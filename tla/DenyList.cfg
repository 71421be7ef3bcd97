SPECIFICATION Spec
CONSTANTS
    Versions <- SomeVersions
    Policies = {"p"}
    DenyRows <- StoredRows
    MaxFaults = 1
    Apps <- OneApp
    AppIds <- OneOrTwoIds
    DottedNames <- OneApp
    LegalNames <- Legal
    LegalHeads <- Heads
    StartsWith <- Prefixes
    Threads = {t1, t2}
    Watchers = {w1, w2}
    PkgArgs = {"a.a"}
    ProcArgs = {"", "a.a:x"}
    FirstIds = {10001}
    MaxOps = 3
    MaxMoves = 1
    None = None
SYMMETRY Sym
INVARIANTS UpgradeSound ViewsExact DbFollowsMaps EnforcementFollows
PROPERTY PoliciesKept
CHECK_DEADLOCK FALSE
