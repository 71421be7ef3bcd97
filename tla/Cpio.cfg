SPECIFICATION CpioSpec
CONSTANTS
    Names <- FourNames
    Data = {"a", "b"}
    None = None
    MaxCmds = 2
    Metas = {"m"}
    Gaps = {0, 4}
    Cuts = {2, 20, 129}
    Archives = 2
INVARIANTS BackupSound MergeCorrect ArchiveReadsBack
PROPERTY LoopsEnd
CHECK_DEADLOCK FALSE
