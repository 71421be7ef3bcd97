------------------------------- MODULE MCCpio -------------------------------
(***************************************************************************)
(* boot/cpio.rs for TLC.  A behaviour is one of three:                     *)
(*   "commands": Cpio, on ramdisks of at most four entries, among them a   *)
(*      directory with a file, an fstab, files named *.xz that are and are *)
(*      not XZ streams, and an old backup;                                 *)
(*   "merge": CpioMerge, on every pair of ramdisks over four names with    *)
(*      two possible contents each;                                        *)
(*   "archive": CpioArchive, on two archives, whole or cut in the padding, *)
(*      the trailer, its header and the contents before it: with names and *)
(*      files of every length modulo 4, at most two entries in all; and    *)
(*      with fewer lengths, any entries, "." among them.                   *)
(***************************************************************************)
EXTENDS CpioMerge, FiniteSets, Sequences, TLC

CONSTANTS MaxCmds, Metas, Gaps, Cuts, Archives

VARIABLES part,
          disk, entries, status, cmds,
          maps, written, todo, hdrs, names, contents, flen, cut, pos, loaded, loading

-----------------------------------------------------------------------------
\* The operators on entries, which use no constant.
K == INSTANCE Cpio WITH Ramdisks <- {}, Origins <- {}, PathArgs <- {}, InFiles <- {}, Modes <- {}

FourNames == 1..4

File(tokens) == K!Entry("reg", 1, K!Text(tokens))
XzFile(tokens) == K!compress(File(tokens))
Dir == K!Entry("dir", 1, K!NoData)

init == <<"init">>
fstab == <<"fstab">>
key == <<"verity_key">>
lib == <<"lib">>
libXz == <<"lib", ".xz">>
sub == <<"lib", "f">>

Stock == init :> File({"stock"}) @@ fstab :> File({"avb", "forceencrypt", "ro"})
WithDir == init :> File({"stock"}) @@ lib :> Dir @@ sub :> File({"stock"})
WithXz == init :> File({"stock"}) @@ libXz :> XzFile({"stock"}) @@ key :> File({})
            @@ <<"raw", ".xz">> :> File({"stock"})
Patched == init :> File({"magisk"}) @@ K!BACKUP :> K!Entry("dir", 0, K!NoData)
             @@ K!MAGISK :> File({}) @@ (K!BACKUP \o init \o <<".xz">>) :> XzFile({"stock"})

SmallRamdisks == {K!Empty, Stock, WithDir, WithXz, Patched}
SmallOrigins == {Stock, WithDir, WithXz, Patched}
SmallPaths == {init, <<"", "lib">>, sub, libXz, K!MAGISK, <<"lib", "">>}
SmallInFiles == {[type |-> "reg", data |-> K!Text({"magisk"})],
                 [type |-> "reg", data |-> K!Text({"stock"})],
                 [type |-> "blk", data |-> K!NoData],
                 [type |-> "fifo", data |-> K!NoData]}
TwoModes == {1, 2}

LenOfName == "." :> 1 @@ "a" :> 1 @@ "bb" :> 2 @@ "ccc" :> 3 @@ "dddd" :> 4
RankOfName == "." :> 1 @@ "a" :> 2 @@ "bb" :> 3 @@ "ccc" :> 4 @@ "dddd" :> 5
LenOfData == "" :> 0 @@ "x" :> 1 @@ "yy" :> 2 @@ "7 bytes" :> 7 @@ "zzzzzzzz" :> 8
SomeNames == DOMAIN LenOfName
SomeData == DOMAIN LenOfData

MapsOver(N, D) == UNION {[S -> [meta : Metas, data : D]] : S \in SUBSET N}
Few == {m \in MapsOver(SomeNames \ {"."}, SomeData) : Cardinality(DOMAIN m) <= 2}
AllLengths ==
    {p \in Few \X Few : Cardinality(DOMAIN p[1]) + Cardinality(DOMAIN p[2]) <= 2}
AllEntries ==
    LET all == {m \in MapsOver({".", "a", "bb"}, {"", "x", "zzzzzzzz"}) :
                     "." \in DOMAIN m => m["."].data = ""}
    IN  all \X all
SomeInputs == AllLengths \cup AllEntries

C == INSTANCE Cpio WITH Ramdisks <- SmallRamdisks, Origins <- SmallOrigins,
                        PathArgs <- SmallPaths, InFiles <- SmallInFiles, Modes <- TwoModes
A == INSTANCE CpioArchive WITH Names <- SomeNames, NameLen <- LenOfName, Rank <- RankOfName,
                               Data <- SomeData, DataLen <- LenOfData, Inputs <- SomeInputs,
                               entries <- loaded, status <- loading

ASSUME ArchiveConstants == A!ArchiveAssumption

-----------------------------------------------------------------------------
(* The parts that a behaviour is not about stay where they are. *)
NoCommands == disk = C!Empty /\ entries = C!Empty /\ status = "none" /\ cmds = 0
NoMerge ==
    /\ odata = C!Empty /\ edata = C!Empty /\ left_iter = {} /\ right_iter = {}
    /\ lhs = None /\ rhs = None /\ backups = {} /\ rm_list = {} /\ done = FALSE
NoArchive ==
    /\ maps = <<>> /\ written = 0 /\ todo = {} /\ hdrs = C!Empty /\ names = C!Empty
    /\ contents = C!Empty /\ flen = 0 /\ cut = FALSE /\ pos = 0 /\ loaded = C!Empty
    /\ loading = "dump"

CpioInit ==
    \/ part = "commands" /\ C!Init /\ NoMerge /\ NoArchive
    \/ part = "merge" /\ MergeInit /\ NoCommands /\ NoArchive
    \/ part = "archive" /\ A!Init /\ NoCommands /\ NoMerge

commandVars == <<disk, entries, status, cmds>>
archiveVars == <<maps, written, todo, hdrs, names, contents, flen, cut, pos, loaded, loading>>
allVars == <<part, commandVars, mergeVars, archiveVars>>

CpioNext ==
    \/ part = "commands" /\ C!Next /\ UNCHANGED <<part, mergeVars, archiveVars>>
    \/ part = "merge" /\ MergeNext /\ UNCHANGED <<part, commandVars, archiveVars>>
    \/ part = "archive" /\ A!Next /\ UNCHANGED <<part, commandVars, mergeVars>>

\* The loops of one process run until they end.
CpioSpec == CpioInit /\ [][CpioNext]_allVars /\ WF_allVars(CpioNext)

-----------------------------------------------------------------------------
\* restore undoes backup, and a second backup from the same original changes
\* nothing, whatever edits came before (Cpio::backup and Cpio::restore; see Cpio).
BackupSound == part = "commands" => C!TypeOK /\ C!RestoreUndoesBackup /\ C!BackupIdempotent

\* load_from_data reads back what dump wrote, and from a file cut short it never gives
\* an entry no archive had (see LoadInvertsDump and CutNeverGarbles of CpioArchive).
ArchiveReadsBack == part = "archive" => A!LoadInvertsDump /\ A!CutNeverGarbles

\* The merge loop of backup and the reading loop of load_from_data end.
LoopsEnd == (part = "merge" => <>done) /\ (part = "archive" => <>(loading \in {"done", "failed"}))
=============================================================================
