----------------------------- MODULE CpioArchive -----------------------------
(***************************************************************************)
(* The cpio format of boot/cpio.rs: Cpio::dump writes a map of entries,    *)
(* Cpio::load_from_data reads it back.  The file read may also be several  *)
(* archives one after the other with zeros in between, as boot images have *)
(* them, or one cut short because dump, which writes in place, was stopped *)
(* half way.  A step is one turn of the writing or of the reading loop.    *)
(*                                                                         *)
(* A file is what lies at each position: headers, names and contents that  *)
(* start there; everything else is zeros.  A header keeps the two sizes    *)
(* and, in meta, the fields that are copied as they are.                   *)
(***************************************************************************)
EXTENDS Integers, FiniteSetsExt, Functions

CONSTANTS Names,      \* names of entries, without "TRAILER!!!"
          NameLen,    \* their lengths
          Rank,       \* their order in the map
          Data,       \* contents of files, "" the empty one
          DataLen,
          Metas,      \* mode, owner and device numbers together
          Gaps,       \* zeros between two archives
          Cuts,       \* bytes missing at the end of a file cut short
          Archives,   \* number of archives in the file
          Inputs      \* the maps they are dumped from, in order

TRAILER == "TRAILER!!!"
HDR_SZ == 110
Skipped == {".", ".."}

Entry == [meta : Metas, data : Data]
\* Only directories are called "." or "..": they have no contents.
Map == {m \in UNION {[S -> Entry] : S \in SUBSET Names} :
            \A n \in DOMAIN m \cap Skipped : m[n].data = ""}

ArchiveAssumption ==
    /\ TRAILER \notin Names
    /\ NameLen \in [Names -> Nat] /\ Rank \in [Names -> Nat] /\ DataLen \in [Data -> Nat]
    /\ \A d \in Data : DataLen[d] = 0 <=> d = ""
    /\ \A g \in Gaps : g \in Nat /\ g % 4 = 0
    /\ Cuts \subseteq Nat \ {0}
    /\ Archives \in Nat
    /\ Inputs \subseteq [1..Archives -> Map]

VARIABLES maps,                   \* the maps that are dumped, in order
          written,                \* archives complete so far
          todo,                   \* names of the current map still to write
          hdrs, names, contents,  \* the file, by position
          flen,                   \* and its length
          cut,                    \* it is incomplete
          pos, entries,           \* of load_from_data
          status

file == <<hdrs, names, contents, flen, cut>>
vars == <<maps, written, todo, file, pos, entries, status>>

Empty == [n \in {} |-> n]
With(f, x, v) == [y \in DOMAIN f \cup {x} |-> IF y = x THEN v ELSE f[y]]

align_4(x) == ((x + 3) \div 4) * 4

Init ==
    /\ maps \in Inputs
    /\ written = 0
    /\ todo = IF Archives = 0 THEN {} ELSE DOMAIN maps[1]
    /\ hdrs = Empty /\ names = Empty /\ contents = Empty
    /\ flen = 0
    /\ cut = FALSE
    /\ pos = 0
    /\ entries = Empty
    /\ status = "dump"

-----------------------------------------------------------------------------
(* Cpio::dump.  Offsets inside an archive are relative to its start, which is *)
(* a multiple of 4 in the file.                                               *)

\* Header, name with its NUL, padding, contents, padding.
WriteAt(at, meta, name, len, data) ==
    LET dataAt == align_4(at + HDR_SZ + len + 1)
    IN  /\ hdrs' = With(hdrs, at, [namesize |-> len + 1, filesize |-> DataLen[data],
                                   meta |-> meta])
        /\ names' = With(names, at + HDR_SZ, name)
        /\ contents' = IF data = "" THEN contents ELSE With(contents, dataAt, data)
        /\ flen' = align_4(dataAt + DataLen[data])

DumpEntry(n) ==
    /\ status = "dump" /\ written < Archives
    /\ n \in todo /\ \A m \in todo : Rank[n] <= Rank[m]
    /\ LET e == maps[written + 1][n] IN WriteAt(flen, e.meta, n, NameLen[n], e.data)
    /\ todo' = todo \ {n}
    /\ UNCHANGED <<maps, written, cut, pos, entries, status>>

\* The trailer, and zeros before the next archive.
DumpTrailer ==
    /\ status = "dump" /\ written < Archives
    /\ todo = {}
    /\ \E g \in Gaps :
          LET at == flen
              dataAt == align_4(at + HDR_SZ + 11)
          IN  /\ hdrs' = With(hdrs, at, [namesize |-> 11, filesize |-> 0,
                                         meta |-> CHOOSE m \in Metas : TRUE])
              /\ names' = With(names, at + HDR_SZ, TRAILER)
              /\ flen' = dataAt + g
    /\ written' = written + 1
    /\ todo' = IF written' < Archives THEN DOMAIN maps[written' + 1] ELSE {}
    /\ UNCHANGED <<maps, contents, cut, pos, entries, status>>

\* dump was killed, or the disk was full: the end is missing.
Interrupted(c) ==
    /\ status = "dump" /\ written = Archives
    /\ c < flen
    /\ flen' = flen - c
    /\ cut' = TRUE
    /\ status' = "load"
    /\ UNCHANGED <<maps, written, todo, hdrs, names, contents, pos, entries>>

StartLoad ==
    /\ status = "dump" /\ written = Archives
    /\ status' = "load"
    /\ UNCHANGED <<maps, written, todo, file, pos, entries>>

-----------------------------------------------------------------------------
(* Cpio::load_from_data *)

\* data[p..(p + len)] panics unless it lies in the file.
InFile(p, len) == p + len <= flen

\* data[p..].find(b"070701"): the next header.
SearchMagic(p) == {q \in DOMAIN hdrs : q >= p /\ q + 6 <= flen}

\* The bytes p..p+len: contents only if exactly one was written there.
Bytes(p, len) ==
    IF len = 0 THEN ""
    ELSE IF p \in DOMAIN contents /\ DataLen[contents[p]] = len /\ p + len <= flen
         THEN contents[p] ELSE "garbage"

AfterName_Unaligned(p, h) == p + HDR_SZ + h.namesize
AfterName(p, h) == align_4(p + HDR_SZ + h.namesize)

LoadEnd ==
    /\ status = "load"
    /\ pos >= flen
    /\ status' = "done"
    /\ UNCHANGED <<maps, written, todo, file, pos, entries>>

\* A header and its name can be read at pos.
HasHeader ==
    /\ InFile(pos, HDR_SZ)
    /\ pos \in DOMAIN hdrs
    /\ InFile(pos + HDR_SZ, hdrs[pos].namesize)
    /\ pos + HDR_SZ \in DOMAIN names

\* A wrong magic or a bad name is an error, a slice out of range a panic.
LoadFails ==
    /\ status' = "failed"
    /\ UNCHANGED <<maps, written, todo, file, pos, entries>>

LoadNext(h, name) ==
    LET p == AfterName(pos, h)
    IN  \/ /\ name \in Skipped
           /\ pos' = p
           /\ UNCHANGED <<maps, written, todo, file, entries, status>>
        \/ /\ name = TRAILER
           /\ InFile(p, 0)
           /\ IF SearchMagic(p) = {}
              THEN status' = "done" /\ UNCHANGED pos
              ELSE pos' = Min(SearchMagic(p)) /\ UNCHANGED status
           /\ UNCHANGED <<maps, written, todo, file, entries>>
        \/ /\ name \notin Skipped \cup {TRAILER}
           /\ InFile(p, h.filesize)
           /\ entries' = With(entries, name, [meta |-> h.meta, data |-> Bytes(p, h.filesize)])
           /\ pos' = align_4(p + h.filesize)
           /\ UNCHANGED <<maps, written, todo, file, status>>
        \/ /\ name \notin Skipped
           /\ ~ InFile(p, IF name = TRAILER THEN 0 ELSE h.filesize)
           /\ LoadFails

LoadStep ==
    /\ status = "load"
    /\ pos < flen
    /\ IF HasHeader THEN LoadNext(hdrs[pos], names[pos + HDR_SZ]) ELSE LoadFails

Next ==
    \/ \E n \in Names : DumpEntry(n)
    \/ DumpTrailer
    \/ \E c \in Cuts : Interrupted(c)
    \/ StartLoad
    \/ LoadEnd
    \/ LoadStep

Spec == Init /\ [][Next]_vars /\ WF_vars(Next)

-----------------------------------------------------------------------------
\* The values of the variables; load_from_data steps past the end of the file by
\* no more than its padding.
TypeOK ==
    /\ maps \in Inputs
    /\ written \in 0..Archives
    /\ todo \subseteq Names
    /\ flen \in Nat /\ pos \in 0..flen + 3
    /\ cut \in BOOLEAN
    /\ status \in {"dump", "load", "done", "failed"}

\* The entries of all the archives, the last one of each name.
Expected ==
    LET all == UNION {DOMAIN maps[i] : i \in 1..Archives} \ Skipped
    IN  [n \in all |-> maps[Max({i \in 1..Archives : n \in DOMAIN maps[i]})][n]]

\* load_from_data reads back what dump wrote, whatever the lengths of names and files
\* leave modulo 4, and from several archives takes the last entry of each name, never
\* reading behind the padded end of the file.
LoadInvertsDump ==
    TypeOK /\ (~ cut => status # "failed" /\ (status = "done" => entries = Expected))

\* From a file cut short load_from_data may give fewer entries or fail, but never
\* an entry with a name, metadata or contents that no archive had.
CutNeverGarbles ==
    \A n \in DOMAIN entries : \E i \in 1..Archives :
        n \in DOMAIN maps[i] /\ entries[n] = maps[i][n]
=============================================================================
