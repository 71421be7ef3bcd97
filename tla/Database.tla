------------------------------ MODULE Database ------------------------------
(***************************************************************************)
(* The database of magiskd (core/sqlite.cpp): open_and_init_db brings a    *)
(* file of any earlier version to version 12, one SQL statement after the  *)
(* other, and records the version only at the end.  The daemon may die     *)
(* between two statements and a statement may fail; either way the next    *)
(* use of the database opens it again.                                     *)
(*                                                                         *)
(* A table is its set of columns and its set of rows.  What stands between *)
(* BEGIN TRANSACTION and COMMIT is one statement.                          *)
(***************************************************************************)
EXTENDS Integers, Sequences, Functions

CONSTANTS Versions,    \* of the files that may be found at the start
          Policies,    \* rows of the table policies in such a file
          DenyRows,    \* sets of rows that hidelist, or denylist, may have there
          MaxFaults    \* bound on failed statements and deaths of the daemon

DB_VERSION == 12

ASSUME DbAssumption == Versions \subseteq Nat

VARIABLES user_version, tables,   \* the file MAGISKDB
          dl_init,                \* libsqlite.so: 0 not tried, 1 loaded, -1 missing
          conn,                   \* sql_connection: "none", "opening", "open"
          todo,                   \* statements that open_and_init_db has still to run
          faults

file == <<user_version, tables>>
dbVars == <<file, dl_init, conn, todo, faults>>

PolicyColumns == {"uid", "policy", "until", "logging", "notification"}
SettingColumns == {"key", "value"}
ListColumns == {"package_name", "process"}

Table(columns, rows) == [columns |-> columns, rows |-> rows]
NoTables == [t \in {} |-> Table({}, {})]
Put(T, t, table) == [u \in DOMAIN T \cup {t} |-> IF u = t THEN table ELSE T[u]]
Drop(T, t) == Restrict(T, DOMAIN T \ {t})

-----------------------------------------------------------------------------
(* The files of the versions, as the changelog of sqlite.cpp has them. *)

ListTable(v, rows) ==
    CASE v = 7 -> [t \in {"hidelist"} |-> Table({"process"}, rows)]
      [] v \in 8..10 -> [t \in {"hidelist"} |-> Table(ListColumns, rows)]
      [] v >= 11 -> [t \in {"denylist"} |-> Table(ListColumns, rows)]

TablesOf(v, policies, settings, rows) ==
    IF v <= 6 THEN NoTables
    ELSE [t \in {"policies", "settings", "strings"} \cup (IF v <= 9 THEN {"logs"} ELSE {})
              \cup DOMAIN ListTable(v, rows) |->
            CASE t = "policies" ->
                   Table(PolicyColumns \cup (IF v <= 11 THEN {"package_name"} ELSE {}), policies)
              [] t = "settings" ->
                   Table(SettingColumns, settings \ (IF v >= 11 THEN {"magiskhide"} ELSE {}))
              [] t \in {"strings", "logs"} -> Table(SettingColumns, {})
              [] OTHER -> ListTable(v, rows)[t]]

-----------------------------------------------------------------------------
(* open_and_init_db *)

Create(T, t, columns) == IF t \in DOMAIN T THEN T ELSE Put(T, t, Table(columns, {}))

\* ALTER TABLE t RENAME TO t_tmp; CREATE; INSERT ... SELECT; DROP, all or nothing.
Rebuild_NoCopy(T, t, columns) == Put(T, t, Table(columns, {}))
Rebuild(T, t, columns) == Put(T, t, Table(columns, T[t].rows))

\* Whether a statement succeeds, the disk permitting.
Works(stmt, T) ==
    CASE stmt = "rebuild_hidelist" -> "hidelist" \in DOMAIN T
      [] stmt = "rebuild_policies" ->
           "policies" \in DOMAIN T /\ PolicyColumns \subseteq T["policies"].columns
      [] stmt = "forget_magiskhide" -> "settings" \in DOMAIN T
      [] OTHER -> TRUE

Apply(stmt, T) ==
    CASE stmt = "create_policy" -> Create(T, "policies", PolicyColumns)
      [] stmt = "create_settings" -> Create(T, "settings", SettingColumns)
      [] stmt = "create_strings" -> Create(T, "strings", SettingColumns)
      [] stmt = "create_denylist" -> Create(T, "denylist", ListColumns)
      [] stmt = "rebuild_hidelist" -> Rebuild(T, "hidelist", ListColumns)
      [] stmt = "drop_logs" -> Drop(T, "logs")
      [] stmt = "drop_hidelist" -> Drop(T, "hidelist")
      [] stmt = "forget_magiskhide" ->
           Put(T, "settings", Table(T["settings"].columns, T["settings"].rows \ {"magiskhide"}))
      [] stmt = "rebuild_policies" -> Rebuild(T, "policies", PolicyColumns)
      [] stmt = "set_version" -> T

\* For a new file, and for an old one: each of the older versions starts at its place.
Creation == <<"create_policy", "create_settings", "create_strings", "create_denylist", "set_version">>
Upgrade == <<"rebuild_hidelist", "drop_logs", "drop_hidelist", "forget_magiskhide",
             "create_denylist", "rebuild_policies", "set_version">>
StartAt(v) == CASE v \in {7, 8} -> 1 [] v = 9 -> 2 [] v = 10 -> 3 [] v = 11 -> 6

\* The statements from version v on; upgrade is set on every way but v = 12.
Statements_VersionFirst(v) ==
    CASE v <= 6 -> <<"set_version", "create_policy", "create_settings", "create_strings",
                     "create_denylist">>
      [] v \in 7..11 -> SubSeq(Upgrade, 2, Len(Upgrade))
      [] v = DB_VERSION -> <<>>

Statements(v) ==
    CASE v <= 6 -> Creation
      [] v \in 7..11 -> SubSeq(Upgrade, StartAt(v), Len(Upgrade))
      [] v = DB_VERSION -> <<>>

DbInit ==
    /\ user_version \in Versions
    /\ \E s \in SUBSET {"magiskhide", "denylist"}, r \in DenyRows :
          tables = TablesOf(user_version, Policies, s, r)
    /\ dl_init = 0
    /\ conn = "none"
    /\ todo = <<>>
    /\ faults = 0

\* load_sqlite is tried once in the life of the daemon.
LoadSqlite(ok) ==
    /\ conn = "none" /\ dl_init = 0
    /\ dl_init' = IF ok THEN 1 ELSE -1
    /\ faults' = IF ok THEN faults ELSE faults + 1
    /\ ok \/ faults < MaxFaults
    /\ UNCHANGED <<file, conn, todo>>

\* sqlite3_open_v2 and PRAGMA user_version.  A file from the future is deleted
\* and the function calls itself.
OpenDb ==
    /\ conn = "none" /\ dl_init = 1
    /\ IF user_version > DB_VERSION
       THEN user_version' = 0 /\ tables' = NoTables
       ELSE UNCHANGED file
    /\ todo' = Statements(user_version')
    /\ conn' = "opening"
    /\ UNCHANGED <<dl_init, faults>>

\* A statement that cannot work: open_and_init_db returns nullptr, and with_db
\* tries again at the next request.
GiveUp == conn' = "none" /\ todo' = <<>> /\ UNCHANGED <<file, dl_init>>

RunStatement ==
    /\ conn = "opening" /\ todo # <<>>
    /\ IF Works(Head(todo), tables)
       THEN /\ tables' = Apply(Head(todo), tables)
            /\ user_version' = IF Head(todo) = "set_version" THEN DB_VERSION ELSE user_version
            /\ todo' = Tail(todo)
            /\ UNCHANGED <<dl_init, conn>>
       ELSE GiveUp
    /\ UNCHANGED faults

Opened ==
    /\ conn = "opening" /\ todo = <<>>
    /\ conn' = "open"
    /\ UNCHANGED <<file, dl_init, todo, faults>>

\* An I/O error, a full disk.
StatementFails ==
    /\ conn = "opening" /\ todo # <<>>
    /\ faults < MaxFaults
    /\ faults' = faults + 1
    /\ GiveUp

\* The daemon dies, wherever it is; a new one starts.
DbRestart ==
    /\ faults < MaxFaults
    /\ faults' = faults + 1
    /\ dl_init' = 0 /\ conn' = "none" /\ todo' = <<>>
    /\ UNCHANGED file

DbOpen ==
    \/ \E ok \in BOOLEAN : LoadSqlite(ok)
    \/ OpenDb
    \/ RunStatement
    \/ Opened
    \/ StatementFails

-----------------------------------------------------------------------------
\* An upgrade from version 7 or 8 was interrupted after hidelist had been dropped:
\* the version still says that it is there, and it cannot be renamed any more.
Wedged == user_version \in {7, 8} /\ "hidelist" \notin DOMAIN tables

\* Whatever was interrupted, and how often: unless the file is wedged, the statement
\* that open_and_init_db runs next can work on the tables it finds.
UpgradeCanGoOn ==
    conn = "opening" /\ todo # <<>> /\ ~ Works(Head(todo), tables) => Wedged /\ faults > 0

\* A connection is handed out only for a file of the current version, with the
\* tables and columns that the queries of the daemon name.
OpenIsCurrent ==
    conn = "open" =>
        /\ user_version = DB_VERSION
        /\ {"policies", "settings", "strings", "denylist"} \subseteq DOMAIN tables
        /\ tables["policies"].columns = PolicyColumns
        /\ tables["denylist"].columns = ListColumns
        /\ "hidelist" \notin DOMAIN tables

\* Both: every start of an upgrade can be finished, and what is finished is current.
UpgradeSound == UpgradeCanGoOn /\ OpenIsCurrent

\* No upgrade, complete or interrupted, loses a row of policies: only a file that is
\* newer than the daemon is thrown away.
PoliciesKept ==
    [][ user_version <= DB_VERSION /\ "policies" \in DOMAIN tables
        => "policies" \in DOMAIN tables' /\ tables'["policies"].rows = tables["policies"].rows ]_dbVars
=============================================================================
