-------------------------------- MODULE Cpio --------------------------------
(***************************************************************************)
(* magiskboot cpio <incpio> [commands...] (boot/cpio.rs): a ramdisk is     *)
(* loaded into a map from names to entries, the commands edit the map one  *)
(* after the other, and the map is written back when all have succeeded.   *)
(*                                                                         *)
(* A name is the sequence of its path components; a final ".xz" suffix is  *)
(* an element of its own, so "a/b.xz" is <<"a", "b", ".xz">>.  The         *)
(* contents of a file are a set of tokens (the mount flags of an fstab),   *)
(* the number of XZ layers around them and, for .rmlist, the names listed. *)
(* The field mode stands for mode bits, owner and device numbers.          *)
(***************************************************************************)
EXTENDS Integers, Sequences, SequencesExt, Functions

CONSTANTS Ramdisks,   \* maps that incpio may hold before the first invocation
          Origins,    \* maps that the file ORIG of backup may hold
          PathArgs,   \* ENTRY arguments: components as split at '/'
          InFiles,    \* contents and types of the INFILE of add
          Modes,
          MaxCmds     \* bound on the commands of all invocations together

VARIABLES disk,      \* the file incpio
          entries,   \* the map in memory
          status,    \* of the process: "none", "running", "ok", "failed"
          cmds       \* commands executed so far

vars == <<disk, entries, status, cmds>>

BACKUP == <<".backup">>
RMLIST == <<".backup", ".rmlist">>
MAGISK == <<".backup", ".magisk">>

VerityTokens == {"verify", "avb"}
EncryptTokens == {"forceencrypt"}

Text(tokens) == [xz |-> 0, tokens |-> tokens, names |-> {}]
NoData == Text({})
Entry(type, mode, data) == [type |-> type, mode |-> mode, data |-> data]

Empty == [n \in {} |-> n]
Put(E, n, e) == [m \in DOMAIN E \cup {n} |-> IF m = n THEN e ELSE E[m]]
Without(E, S) == Restrict(E, DOMAIN E \ S)

\* Empty components, from a leading, trailing or doubled '/', are dropped.
norm_path(path) == SelectSeq(path, LAMBDA c : c # "")

\* k.starts_with(path + "/")
Below(path, n) == IsStrictPrefix(path, n) /\ n[Len(path) + 1] # ".xz"

-----------------------------------------------------------------------------
(* The commands as functions on the map. *)

rm(E, path, recursive) ==
    Without(E, {n \in DOMAIN E : n = path \/ (recursive /\ Below(path, n))})

compress(e) == [e EXCEPT !.data.xz = @ + 1]
CanCompress(e) == e.type = "reg"
decompress(e) == [e EXCEPT !.data.xz = @ - 1]
CanDecompress(e) == e.type = "reg" /\ e.data.xz > 0

FstabFile(n, e) == e.type = "reg" /\ Len(n) = 1 /\ Head(n) \in {"fstab", "fstab.qcom"}

\* Compressed contents have no tokens to match.
DropTokens(e, tokens) ==
    IF e.data.xz = 0 THEN [e EXCEPT !.data.tokens = @ \ tokens] ELSE e

patch(E, keep_verity, keep_force_encrypt) ==
    LET kept == {n \in DOMAIN E : keep_verity \/ n # <<"verity_key">>}
        v == IF keep_verity THEN {} ELSE VerityTokens
        f == IF keep_force_encrypt THEN {} ELSE EncryptTokens
    IN  [n \in kept |-> IF FstabFile(n, E[n]) THEN DropTokens(E[n], v \cup f) ELSE E[n]]

UnsupportedFiles == {<<"sbin", "launch_daemonsu.sh">>, <<"sbin", "su">>, <<"init.xposed.rc">>,
                     <<"boot", "sbin", "launch_daemonsu.sh">>}
MagiskFiles == {MAGISK, <<"init.magisk.rc">>, <<"overlay", "init.magisk.rc">>}

test(E) == IF DOMAIN E \cap UnsupportedFiles # {} THEN 2
           ELSE IF DOMAIN E \cap MagiskFiles # {} THEN 1 ELSE 0

\* The names under which the backed up entries come back.  When both x and
\* x.xz come back as x, x.xz is the later one in the order of the map.
RestoredName(E, n) ==
    IF Last(n) = ".xz" /\ CanDecompress(E[n]) THEN SubSeq(n, 2, Len(n) - 1) ELSE Tail(n)

RestoredEntry(E, t) ==
    LET x == BACKUP \o t \o <<".xz">>
    IN  IF x \in DOMAIN E /\ CanDecompress(E[x]) THEN decompress(E[x]) ELSE E[BACKUP \o t]

restore(E) ==
    LET inBackup == {n \in DOMAIN E : Below(BACKUP, n)}
        rm_list == IF RMLIST \in inBackup THEN E[RMLIST].data.names ELSE {}
        saved == {RestoredName(E, n) : n \in inBackup \ {RMLIST, MAGISK}}
        rest == rm(Without(E, inBackup), BACKUP, FALSE)
        kept == Without(rest, {norm_path(n) : n \in rm_list})
    IN  IF rm_list = {} /\ saved = {}
        THEN Empty
        ELSE [t \in saved \cup DOMAIN kept |->
                 IF t \in saved THEN RestoredEntry(E, t) ELSE kept[t]]

\* Which entries of the original are saved, which of the current ones are new:
\* the merge of the two sorted maps is checked on its own in CpioMerge.
Saved(l, r) == {n \in DOMAIN l : n \in DOMAIN r => r[n].data # l[n].data}
Recorded(l, r) == DOMAIN r \ DOMAIN l

BackupName(n, e, skip_compress) ==
    BACKUP \o n \o (IF ~skip_compress /\ CanCompress(e) THEN <<".xz">> ELSE <<>>)

\* Both maps lose what an earlier backup left.
DropBackup_Shallow(E) == rm(E, BACKUP, FALSE)
DropBackup(E) == rm(E, BACKUP, TRUE)

\* Of two entries saved under one name the later one in the order of the map, the
\* longer, stays; .rmlist is added last.
backup(E, o, skip_compress) ==
    LET l == DropBackup(o)
        r == DropBackup(E)
        backups == [b \in {BackupName(n, l[n], skip_compress) : n \in Saved(l, r)} |->
                       LET same == {m \in Saved(l, r) : BackupName(m, l[m], skip_compress) = b}
                           n == CHOOSE m \in same : \A k \in same : Len(k) <= Len(m)
                       IN  IF ~skip_compress /\ CanCompress(l[n]) THEN compress(l[n]) ELSE l[n]]
        rm_list == IF Recorded(l, r) = {} THEN {} ELSE {RMLIST}
    IN  [n \in DOMAIN r \cup DOMAIN backups \cup {BACKUP} \cup rm_list |->
            IF n \in rm_list THEN Entry("reg", 0, [NoData EXCEPT !.names = Recorded(l, r)])
            ELSE IF n \in DOMAIN backups THEN backups[n]
            ELSE IF n = BACKUP THEN Entry("dir", 0, NoData)
            ELSE r[n]]

-----------------------------------------------------------------------------
(* cpio_commands *)

Init ==
    /\ disk \in Ramdisks
    /\ entries = Empty
    /\ status = "none"
    /\ cmds = 0

\* Start of an invocation: load_from_file, or Cpio::new() when there is no file.
Load ==
    /\ status # "running"
    /\ cmds < MaxCmds
    /\ entries' = disk
    /\ status' = "running"
    /\ UNCHANGED <<disk, cmds>>

Command ==
    /\ status = "running"
    /\ cmds < MaxCmds
    /\ cmds' = cmds + 1
    /\ UNCHANGED disk

Edit(E) == Command /\ entries' = E /\ UNCHANGED status

\* A command that fails ends the invocation; nothing is written.
Fail == Command /\ status' = "failed" /\ UNCHANGED entries

RemoveEntry(path, recursive) == Edit(rm(entries, norm_path(path), recursive))

MakeDir(mode, dir) == Edit(Put(entries, norm_path(dir), Entry("dir", mode, NoData)))

\* The link target is stored normalised, as the contents of the entry.
Link(src, dst) ==
    Edit(Put(entries, norm_path(dst),
             Entry("lnk", 0, [NoData EXCEPT !.names = {norm_path(src)}])))

Add(mode, path, f) ==
    IF Last(path) = "" \/ f.type \notin {"reg", "blk"}
    THEN Fail
    ELSE Edit(Put(entries, norm_path(path), Entry(f.type, mode, f.data)))

Move(from, to) ==
    LET f == norm_path(from)
    IN  IF f \in DOMAIN entries
        THEN Edit(Put(Without(entries, {f}), norm_path(to), entries[f]))
        ELSE Fail

Patch(keep_verity, keep_force_encrypt) ==
    Edit(patch(entries, keep_verity, keep_force_encrypt))

Backup(origin, skip_compress) == Edit(backup(entries, origin, skip_compress))

Restore == Edit(restore(entries))

\* Extraction writes files outside the archive; it fails on a missing entry.
Extract(path) == IF norm_path(path) \in DOMAIN entries THEN Edit(entries) ELSE Fail

\* ls, exists and test answer at once: the process ends there, whatever the
\* commands before and after.
Answer(ok) == Command /\ status' = (IF ok THEN "ok" ELSE "failed") /\ UNCHANGED entries
List == Answer(TRUE)
Exists(path) == Answer(norm_path(path) \in DOMAIN entries)
Test == Answer(test(entries) = 0)

\* After the last command.
Dump ==
    /\ status = "running"
    /\ disk' = entries
    /\ status' = "ok"
    /\ UNCHANGED <<entries, cmds>>

Next ==
    \/ Load
    \/ \E p \in PathArgs, r \in BOOLEAN : RemoveEntry(p, r)
    \/ \E p \in PathArgs, m \in Modes : MakeDir(m, p)
    \/ \E p, q \in PathArgs : Link(q, p) \/ Move(p, q)
    \/ \E p \in PathArgs, m \in Modes, f \in InFiles : Add(m, p, f)
    \/ \E kv, ke \in BOOLEAN : Patch(kv, ke)
    \/ \E o \in Origins, n \in BOOLEAN : Backup(o, n)
    \/ Restore
    \/ \E p \in PathArgs : Extract(p) \/ Exists(p)
    \/ List
    \/ Test
    \/ Dump

Spec == Init /\ [][Next]_vars

-----------------------------------------------------------------------------
IsMap(E) == \A n \in DOMAIN E :
    /\ n \in Seq(STRING) /\ n # <<>>
    /\ E[n].type \in {"dir", "reg", "lnk", "blk"}
    /\ E[n].data.xz \in Nat

\* The file and the map of cpio.rs hold named entries of the types a cpio can have.
TypeOK ==
    /\ IsMap(disk) /\ IsMap(entries)
    /\ status \in {"none", "running", "ok", "failed"}
    /\ cmds \in 0..MaxCmds

\* The original entries that are missing now or have other contents.
Changed(l, r) == {f \in DOMAIN l : f \notin DOMAIN r \/ r[f].data # l[f].data}

\* A saved file named *.xz that is itself an XZ stream: backup -n stores it as
\* it is, and restore takes it for one that backup had compressed.
XzLookalike(l, r) == \E n \in Changed(l, r) : Last(n) = ".xz" /\ CanDecompress(l[n])

\* restore undoes backup.  Whatever edits led to the current map and whatever
\* the original was: after "backup ORIG" and "restore" exactly the original names
\* are present, with the original contents.  An entry whose contents never
\* changed keeps its current type and mode, since backup compares contents only.
\* Two cases are left out: nothing differs (restore then clears the ramdisk), and
\* backup -n of an XZ file named *.xz.
RestoreUndoesBackup ==
    status = "running" => \A o \in Origins, n \in BOOLEAN :
        LET l == DropBackup(o)
            r == DropBackup(entries)
            back == restore(backup(entries, o, n))
        IN  /\ Changed(l, r) # {} \/ DOMAIN r # DOMAIN l
            /\ n => ~ XzLookalike(l, r)
            => /\ DOMAIN back = DOMAIN l
               /\ \A f \in DOMAIN l :
                     back[f] = IF f \in Changed(l, r) THEN l[f] ELSE r[f]

\* Taking a backup again from the same original changes nothing: the backup of an
\* earlier run is never itself saved, recorded or nested into the new one.
BackupIdempotent ==
    status = "running" => \A o \in Origins, n \in BOOLEAN :
        LET b == backup(entries, o, n) IN backup(b, o, n) = b
=============================================================================
