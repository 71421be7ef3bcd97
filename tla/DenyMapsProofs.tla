--------------------------- MODULE DenyMapsProofs ---------------------------
(***************************************************************************)
(* magisk.db for files of any version, statements that fail, and crashes   *)
(* between any two; and the requests of any number of threads with the     *)
(* denylist's two maps, for any apps and requests, and which requests can  *)
(* have a statement pending.                                               *)
(***************************************************************************)
EXTENDS DenyList, TLAPS

-----------------------------------------------------------------------------
(* The database: what the file has at each place of open_and_init_db. *)

CurrentTables ==
    /\ {"policies", "settings", "strings", "denylist"} \subseteq DOMAIN tables
    /\ tables["policies"].columns = PolicyColumns
    /\ tables["denylist"].columns = ListColumns
    /\ "hidelist" \notin DOMAIN tables

\* Every table has columns and rows.
TablesType ==
    /\ tables = [t \in DOMAIN tables |-> tables[t]]
    /\ \A t \in DOMAIN tables : tables[t] = Table(tables[t].columns, tables[t].rows)

\* The file of each version, complete or left by an interrupted upgrade.
FileInv ==
    /\ user_version \in Nat /\ faults \in Nat
    /\ user_version <= 11 /\ "denylist" \in DOMAIN tables => tables["denylist"].columns = ListColumns
    /\ user_version <= 6 =>
          /\ "hidelist" \notin DOMAIN tables
          /\ "policies" \in DOMAIN tables => tables["policies"].columns = PolicyColumns
    /\ user_version \in 7..11 =>
          /\ {"policies", "settings", "strings"} \subseteq DOMAIN tables
          /\ PolicyColumns \subseteq tables["policies"].columns
    /\ user_version = 11 => "denylist" \in DOMAIN tables /\ "hidelist" \notin DOMAIN tables
    /\ user_version = DB_VERSION => CurrentTables

\* How far open_and_init_db is: the last k statements are still to be run.
CreationRest(k) == SubSeq(Creation, 6 - k, 5)
UpgradeRest(k) == SubSeq(Upgrade, 8 - k, 7)

CreationInv ==
    conn = "opening" /\ user_version <= 6 =>
        /\ Len(todo) \in 1..5 /\ todo = CreationRest(Len(todo))
        /\ Len(todo) <= 4 => "policies" \in DOMAIN tables
        /\ Len(todo) <= 3 => "settings" \in DOMAIN tables
        /\ Len(todo) <= 2 => "strings" \in DOMAIN tables
        /\ Len(todo) <= 1 => "denylist" \in DOMAIN tables
UpgradeInv ==
    conn = "opening" /\ user_version \in 7..11 =>
        /\ Len(todo) \in 1..(8 - StartAt(user_version)) /\ todo = UpgradeRest(Len(todo))
        /\ Len(todo) <= 4 => "hidelist" \notin DOMAIN tables
        /\ Len(todo) <= 2 => "denylist" \in DOMAIN tables
        /\ Len(todo) <= 1 => tables["policies"].columns = PolicyColumns
OpenInv ==
    /\ conn = "opening" => user_version <= DB_VERSION
    /\ conn = "opening" /\ user_version = DB_VERSION => todo = <<>>
    /\ conn = "open" => user_version = DB_VERSION

\* Without a fault hidelist is missing only while the upgrade that dropped it runs.
HidelistInv ==
    user_version \in {7, 8} /\ "hidelist" \notin DOMAIN tables /\ faults = 0 =>
        conn = "opening" /\ Len(todo) <= 4

DbInv == TablesType /\ FileInv /\ CreationInv /\ UpgradeInv /\ OpenInv /\ HidelistInv

-----------------------------------------------------------------------------
\* The statements of open_and_init_db one by one.
LEMMA CreationSteps ==
    /\ CreationRest(5) = Creation /\ CreationRest(0) = <<>>
    /\ \A k \in 1..5 : /\ CreationRest(k) # <<>> /\ Len(CreationRest(k)) = k
                       /\ Head(CreationRest(k)) = Creation[6 - k]
                       /\ Tail(CreationRest(k)) = CreationRest(k - 1)
                       /\ Len(CreationRest(k - 1)) = k - 1
<1>1. /\ Creation \in Seq({"create_policy", "create_settings", "create_strings",
                          "create_denylist", "set_version"})
      /\ Len(Creation) = 5
  BY DEF Creation
<1>2. CreationRest(5) = Creation /\ CreationRest(0) = <<>>
  BY <1>1 DEF CreationRest
<1>3. \A k \in 1..5 : Len(CreationRest(k)) = k
  BY <1>1 DEF CreationRest
<1>4. \A k \in 1..5 : CreationRest(k) # <<>>
  BY <1>3, Len(<<>>) = 0
<1>5. \A k \in 1..5 : Head(CreationRest(k)) = Creation[6 - k]
  BY <1>1 DEF CreationRest
<1>6. \A k \in 1..5 : Tail(CreationRest(k)) = CreationRest(k - 1)
  BY <1>1 DEF CreationRest
<1>7. \A k \in 1..5 : Len(CreationRest(k - 1)) = k - 1
  BY <1>1 DEF CreationRest
<1>. QED
  BY <1>1, <1>2, <1>3, <1>4, <1>5, <1>6, <1>7, Zenon

\* The statements of the upgrade are run in order, one after the other.
LEMMA UpgradeSteps ==
    /\ Len(Upgrade) = 7 /\ UpgradeRest(0) = <<>>
    /\ \A k \in 1..7 : /\ UpgradeRest(k) # <<>> /\ Len(UpgradeRest(k)) = k
                       /\ Head(UpgradeRest(k)) = Upgrade[8 - k]
                       /\ Tail(UpgradeRest(k)) = UpgradeRest(k - 1)
                       /\ Len(UpgradeRest(k - 1)) = k - 1
<1>1. /\ Upgrade \in Seq({"rebuild_hidelist", "drop_logs", "drop_hidelist", "forget_magiskhide",
                         "create_denylist", "rebuild_policies", "set_version"})
      /\ Len(Upgrade) = 7
  BY DEF Upgrade
<1>2. UpgradeRest(0) = <<>>
  BY <1>1 DEF UpgradeRest
<1>3. \A k \in 1..7 : Len(UpgradeRest(k)) = k
  BY <1>1 DEF UpgradeRest
<1>4. \A k \in 1..7 : UpgradeRest(k) # <<>>
  BY <1>3, Len(<<>>) = 0
<1>5. \A k \in 1..7 : Head(UpgradeRest(k)) = Upgrade[8 - k]
  BY <1>1 DEF UpgradeRest
<1>6. \A k \in 1..7 : Tail(UpgradeRest(k)) = UpgradeRest(k - 1)
  BY <1>1 DEF UpgradeRest
<1>7. \A k \in 1..7 : Len(UpgradeRest(k - 1)) = k - 1
  BY <1>1 DEF UpgradeRest
<1>. QED
  BY <1>1, <1>2, <1>3, <1>4, <1>5, <1>6, <1>7, Zenon

\* The place at which each version starts.
LEMMA StatementsFrom ==
    /\ \A v \in Nat : v <= 6 => Statements(v) = CreationRest(5)
    /\ \A v \in 7..11 : Statements(v) = UpgradeRest(8 - StartAt(v)) /\ StartAt(v) \in {1, 2, 3, 6}
    /\ Statements(DB_VERSION) = <<>>
<1>1. ASSUME NEW v \in Nat, v <= 6
      PROVE  Statements(v) = CreationRest(5)
  <2>1. ~ (v \in 7..11) /\ v # DB_VERSION
    BY <1>1 DEF DB_VERSION
  <2>2. Statements(v) = Creation
    BY <1>1, <2>1, Zenon DEF Statements
  <2>. QED
    BY <2>2, CreationSteps
<1>2. ASSUME NEW v \in 7..11
      PROVE  Statements(v) = UpgradeRest(8 - StartAt(v)) /\ StartAt(v) \in {1, 2, 3, 6}
  <2>1. StartAt(v) \in {1, 2, 3, 6}
    BY DEF StartAt
  <2>2. Statements(v) = SubSeq(Upgrade, StartAt(v), 7)
    <3>1. ~ (v <= 6) /\ v # DB_VERSION /\ v \in 7..11
      BY DEF DB_VERSION
    <3>2. Statements(v) = SubSeq(Upgrade, StartAt(v), Len(Upgrade))
      BY <3>1, Zenon DEF Statements
    <3>. QED
      BY <3>2, UpgradeSteps
  <2>3. 8 - (8 - StartAt(v)) = StartAt(v)
    BY <2>1
  <2>. QED
    BY <2>1, <2>2, <2>3 DEF UpgradeRest
<1>3. Statements(DB_VERSION) = <<>>
  BY DEF Statements, DB_VERSION
<1>. QED
  BY <1>1, <1>2, <1>3

\* A statement on the tables: what it changes, and that each table keeps its form.
LEMMA ApplyKeepsForm ==
    ASSUME TablesType, NEW s \in Range(Creation) \cup Range(Upgrade), Works(s, tables),
           tables' = Apply(s, tables)
    PROVE  TablesType'
<1>. USE DEF TablesType, Table, Put, Create, Rebuild, Drop, Restrict
<1>1. CASE s = "create_policy"
  BY <1>1, Zenon DEF Apply
<1>2. CASE s = "create_settings"
  BY <1>2, Zenon DEF Apply
<1>3. CASE s = "create_strings"
  BY <1>3, Zenon DEF Apply
<1>4. CASE s = "create_denylist"
  BY <1>4, Zenon DEF Apply
<1>5. CASE s = "rebuild_hidelist"
  BY <1>5 DEF Apply
<1>6. CASE s = "drop_logs"
  BY <1>6 DEF Apply
<1>7. CASE s = "drop_hidelist"
  BY <1>7 DEF Apply
<1>8. CASE s = "forget_magiskhide"
  BY <1>8, Zenon DEF Apply
<1>9. CASE s = "rebuild_policies"
  BY <1>9 DEF Apply
<1>10. CASE s = "set_version"
  BY <1>10 DEF Apply
<1>. QED
  BY <1>1, <1>2, <1>3, <1>4, <1>5, <1>6, <1>7, <1>8, <1>9, <1>10 DEF Range, Creation, Upgrade

\* What each statement does to the tables that the invariant is about.
LEMMA ApplyEffect ==
    ASSUME TablesType, NEW s \in Range(Creation) \cup Range(Upgrade), Works(s, tables),
           tables' = Apply(s, tables)
    PROVE  /\ DOMAIN tables \ (IF s = "drop_logs" THEN {"logs"} ELSE
                                IF s = "drop_hidelist" THEN {"hidelist"} ELSE {}) \subseteq DOMAIN tables'
           /\ s = "drop_hidelist" => "hidelist" \notin DOMAIN tables'
           /\ s # "rebuild_hidelist" /\ "hidelist" \notin DOMAIN tables => "hidelist" \notin DOMAIN tables'
           /\ s = "create_policy" => "policies" \in DOMAIN tables'
           /\ s = "create_settings" => "settings" \in DOMAIN tables'
           /\ s = "create_strings" => "strings" \in DOMAIN tables'
           /\ s = "create_denylist" => "denylist" \in DOMAIN tables'
           /\ "denylist" \in DOMAIN tables =>
                 tables'["denylist"].columns = tables["denylist"].columns
           /\ "denylist" \in DOMAIN tables' /\ "denylist" \notin DOMAIN tables =>
                 tables'["denylist"].columns = ListColumns
           /\ "policies" \in DOMAIN tables =>
                 /\ tables'["policies"].columns =
                       IF s = "rebuild_policies" THEN PolicyColumns ELSE tables["policies"].columns
                 /\ tables'["policies"].rows = tables["policies"].rows
           /\ "policies" \in DOMAIN tables' /\ "policies" \notin DOMAIN tables =>
                 tables'["policies"].columns = PolicyColumns
<1>. USE DEF TablesType, Table, Put, Create, Rebuild, Drop, Restrict
<1>1. CASE s = "create_policy"
  BY <1>1 DEF Apply
<1>2. CASE s = "create_settings"
  BY <1>2 DEF Apply
<1>3. CASE s = "create_strings"
  BY <1>3 DEF Apply
<1>4. CASE s = "create_denylist"
  BY <1>4 DEF Apply
<1>5. CASE s = "rebuild_hidelist"
  BY <1>5 DEF Apply
<1>6. CASE s = "drop_logs"
  BY <1>6 DEF Apply
<1>7. CASE s = "drop_hidelist"
  BY <1>7 DEF Apply
<1>8. CASE s = "forget_magiskhide"
  BY <1>8 DEF Apply, Works
<1>9. CASE s = "rebuild_policies"
  BY <1>9 DEF Apply, Works
<1>10. CASE s = "set_version"
  BY <1>10 DEF Apply
<1>. QED
  BY <1>1, <1>2, <1>3, <1>4, <1>5, <1>6, <1>7, <1>8, <1>9, <1>10 DEF Range, Creation, Upgrade

-----------------------------------------------------------------------------
\* The files that are found at the start are of one of the forms.
LEMMA DbInitInv == DbInit => DbInv
<1>. SUFFICES ASSUME DbInit
              PROVE  DbInv
  OBVIOUS
<1>1. PICK s \in SUBSET {"magiskhide", "denylist"}, r \in DenyRows :
        tables = TablesOf(user_version, Policies, s, r)
  BY DEF DbInit
<1>2. user_version \in Nat /\ faults = 0 /\ conn = "none"
  BY DbAssumption DEF DbInit
<1>3. CASE user_version <= 6
  <2>1. tables = NoTables
    BY <1>1, <1>3 DEF TablesOf
  <2>. QED
    BY <1>2, <1>3, <2>1 DEF NoTables, Table, DbInv, TablesType, FileInv, CreationInv, UpgradeInv, OpenInv,
      HidelistInv, DB_VERSION
<1>4. CASE user_version \in 7..10
  <2>. DEFINE c == IF user_version = 7 THEN {"process"} ELSE ListColumns
  <2>1. ListTable(user_version, r) = [t \in {"hidelist"} |-> Table(c, r)]
    BY <1>4 DEF ListTable
  <2>. HIDE DEF c
  <2>2. DOMAIN ListTable(user_version, r) = {"hidelist"}
    BY <2>1
  <2>3. /\ DOMAIN tables = {"policies", "settings", "strings", "hidelist"}
                            \cup (IF user_version <= 9 THEN {"logs"} ELSE {})
        /\ tables = [t \in DOMAIN tables |-> tables[t]]
    BY <1>1, <1>2, <1>4, <2>2 DEF TablesOf
  <2>4. /\ tables["policies"] = Table(PolicyColumns \cup {"package_name"}, Policies)
        /\ tables["settings"] = Table(SettingColumns, s)
        /\ tables["strings"] = Table(SettingColumns, {})
        /\ tables["hidelist"] = Table(c, r)
        /\ user_version <= 9 => tables["logs"] = Table(SettingColumns, {})
    BY <1>1, <1>2, <1>4, <2>1, <2>2 DEF TablesOf
  <2>5. TablesType
    BY <2>3, <2>4 DEF TablesType, Table
  <2>. QED
    BY <1>2, <1>4, <2>3, <2>4, <2>5 DEF Table, DbInv, FileInv, CreationInv, UpgradeInv, OpenInv,
      HidelistInv, DB_VERSION
<1>5. CASE user_version >= 11
  <2>1. ListTable(user_version, r) = [t \in {"denylist"} |-> Table(ListColumns, r)]
    BY <1>2, <1>5 DEF ListTable
  <2>2. DOMAIN ListTable(user_version, r) = {"denylist"}
    BY <2>1
  <2>3. /\ DOMAIN tables = {"policies", "settings", "strings", "denylist"}
        /\ tables = [t \in DOMAIN tables |-> tables[t]]
    BY <1>1, <1>2, <1>5, <2>2 DEF TablesOf
  <2>4. /\ tables["policies"] = Table(PolicyColumns \cup (IF user_version <= 11 THEN {"package_name"} ELSE {}),
                                      Policies)
        /\ tables["settings"] = Table(SettingColumns, s \ {"magiskhide"})
        /\ tables["strings"] = Table(SettingColumns, {})
        /\ tables["denylist"] = Table(ListColumns, r)
    BY <1>1, <1>2, <1>5, <2>1, <2>2 DEF TablesOf
  <2>5. TablesType
    BY <2>3, <2>4 DEF TablesType, Table
  <2>. QED
    BY <1>2, <1>5, <2>3, <2>4, <2>5 DEF Table, DbInv, FileInv, CreationInv, UpgradeInv, OpenInv,
      HidelistInv, DB_VERSION, CurrentTables
<1>. QED
  BY <1>2, <1>3, <1>4, <1>5

\* A statement of the creation of a new file.
LEMMA CreationStep ==
    ASSUME DbInv, RunStatement, user_version <= 6
    PROVE  DbInv'
<1>. DEFINE k == Len(todo)
            stmt == Creation[6 - k]
<1>1. /\ k \in 1..5 /\ todo = CreationRest(k) /\ conn = "opening"
  BY DEF DbInv, CreationInv, RunStatement
<1>. HIDE DEF k
<1>2. /\ Head(todo) = stmt /\ Tail(todo) = CreationRest(k - 1)
      /\ Len(todo) = k /\ Len(CreationRest(k - 1)) = k - 1
  BY <1>1, CreationSteps, Zenon
<1>3. stmt = <<"create_policy", "create_settings", "create_strings", "create_denylist", "set_version">>[6 - k]
  BY DEF Creation
<1>4. stmt \in Range(Creation) /\ Works(stmt, tables)
  BY <1>1 DEF Range, Creation, Works
<1>. HIDE DEF stmt
<1>5. /\ tables' = Apply(stmt, tables) /\ todo' = CreationRest(k - 1) /\ Len(todo') = k - 1
      /\ user_version' = IF stmt = "set_version" THEN DB_VERSION ELSE user_version
      /\ conn' = conn /\ faults' = faults
  BY <1>2, <1>4 DEF RunStatement
<1>6. TablesType'
  BY <1>4, <1>5, ApplyKeepsForm DEF DbInv
<1>7. CASE k = 1
  <2>1. tables' = tables /\ user_version' = DB_VERSION /\ todo' = <<>>
    BY <1>3, <1>5, <1>7, CreationSteps DEF Apply
  <2>2. CurrentTables
    BY <1>1, <1>2, <1>7 DEF DbInv, FileInv, CreationInv, CurrentTables
  <2>3. FileInv'
    BY <1>5, <2>1, <2>2 DEF DbInv, FileInv, CurrentTables, DB_VERSION
  <2>. QED
    BY <1>1, <1>5, <1>6, <2>1, <2>3 DEF DbInv, CreationInv, UpgradeInv, OpenInv, HidelistInv, DB_VERSION
<1>8. CASE k \in 2..5
  <2>1. /\ user_version' = user_version
        /\ stmt \notin {"drop_hidelist", "drop_logs", "rebuild_hidelist", "set_version", "rebuild_policies"}
    BY <1>3, <1>5, <1>8
  <2>2. FileInv'
    BY <1>4, <1>5, <2>1, ApplyEffect DEF DbInv, FileInv, DB_VERSION
  <2>3. /\ DOMAIN tables \subseteq DOMAIN tables'
        /\ k = 5 => "policies" \in DOMAIN tables'
        /\ k = 4 => "settings" \in DOMAIN tables'
        /\ k = 3 => "strings" \in DOMAIN tables'
        /\ k = 2 => "denylist" \in DOMAIN tables'
    BY <1>3, <1>4, <1>5, <1>8, <2>1, ApplyEffect DEF DbInv
  <2>4. /\ k <= 4 => "policies" \in DOMAIN tables
        /\ k <= 3 => "settings" \in DOMAIN tables
        /\ k <= 2 => "strings" \in DOMAIN tables
    BY <1>1, <1>2 DEF DbInv, CreationInv
  <2>5. CreationInv'
    <3>1. Len(todo') = k - 1
      BY <1>5
    <3>2. Len(todo') \in 1..5 /\ todo' = CreationRest(Len(todo'))
      <4>1. Len(todo') \in 1..5
        BY <1>8, <3>1
      <4>. QED
        BY <1>5, <4>1
    <3>. QED
      BY <1>8, <2>3, <2>4, <3>1, <3>2 DEF CreationInv
  <2>6. user_version' \in Nat /\ user_version' <= 6
    BY <2>1 DEF DbInv, FileInv
  <2>. QED
    BY <1>1, <1>5, <1>6, <2>2, <2>5, <2>6 DEF DbInv, UpgradeInv, OpenInv, HidelistInv, DB_VERSION
<1>. QED
  BY <1>1, <1>7, <1>8

\* A statement of the upgrade of an old file.  Where it cannot work, nothing changes
\* but the connection.
LEMMA UpgradeStep ==
    ASSUME DbInv, RunStatement, user_version \in 7..11
    PROVE  DbInv'
<1>. DEFINE k == Len(todo)
            stmt == Upgrade[8 - k]
<1>0. StartAt(user_version) \in 1..7
  BY DEF StartAt
<1>1. /\ k \in 1..7 /\ k <= 8 - StartAt(user_version)
      /\ todo = UpgradeRest(k) /\ conn = "opening"
  <2>1. conn = "opening" /\ k \in 1..(8 - StartAt(user_version)) /\ todo = UpgradeRest(k)
    BY DEF DbInv, UpgradeInv, RunStatement
  <2>. HIDE DEF k
  <2>. QED
    BY <1>0, <2>1
<1>. HIDE DEF k
<1>2. /\ Head(todo) = stmt /\ Tail(todo) = UpgradeRest(k - 1)
      /\ Len(todo) = k /\ Len(UpgradeRest(k - 1)) = k - 1
  BY <1>1, UpgradeSteps, Zenon
<1>3. stmt = <<"rebuild_hidelist", "drop_logs", "drop_hidelist", "forget_magiskhide",
               "create_denylist", "rebuild_policies", "set_version">>[8 - k]
  BY DEF Upgrade
<1>4. stmt \in Range(Upgrade)
  BY <1>1 DEF Range, Upgrade
<1>. HIDE DEF stmt
<1>5. CASE ~ Works(stmt, tables)
  <2>1. conn' = "none" /\ tables' = tables /\ user_version' = user_version /\ faults' = faults
    BY <1>2, <1>5 DEF RunStatement, GiveUp, file
  <2>2. stmt = "rebuild_hidelist" /\ k = 7 /\ "hidelist" \notin DOMAIN tables
    BY <1>1, <1>3, <1>5 DEF Works, DbInv, FileInv
  <2>. QED
    <3>1. TablesType' /\ FileInv'
      BY <2>1 DEF DbInv, TablesType, FileInv, CurrentTables
    <3>. QED
      BY <1>1, <1>2, <2>1, <2>2, <3>1 DEF DbInv, CreationInv, UpgradeInv, OpenInv, HidelistInv
<1>6. CASE Works(stmt, tables)
  <2>1. /\ tables' = Apply(stmt, tables) /\ todo' = UpgradeRest(k - 1) /\ Len(todo') = k - 1
        /\ user_version' = IF stmt = "set_version" THEN DB_VERSION ELSE user_version
        /\ conn' = conn /\ faults' = faults
    BY <1>2, <1>6 DEF RunStatement
  <2>2. TablesType'
    BY <1>4, <1>6, <2>1, ApplyKeepsForm DEF DbInv
  <2>3. CASE k = 1
    <3>1. tables' = tables /\ user_version' = DB_VERSION /\ todo' = <<>>
      BY <1>3, <2>1, <2>3, UpgradeSteps DEF Apply
    <3>2. CurrentTables
      BY <1>1, <1>2, <2>3 DEF DbInv, FileInv, UpgradeInv, CurrentTables
    <3>3. FileInv'
      BY <2>1, <3>1, <3>2 DEF DbInv, FileInv, CurrentTables, DB_VERSION
    <3>. QED
      BY <1>1, <2>1, <2>2, <3>1, <3>3 DEF DbInv, CreationInv, UpgradeInv, OpenInv, HidelistInv, DB_VERSION
  <2>4. CASE k \in 2..7
    <3>1. user_version' = user_version /\ stmt # "set_version"
      BY <1>3, <2>1, <2>4
    <3>2. user_version = 11 => k = 2
      BY <1>1, <2>4 DEF StartAt
    <3>3. FileInv'
      BY <1>3, <1>4, <1>6, <2>1, <2>4, <3>1, <3>2, ApplyEffect DEF DbInv, FileInv, DB_VERSION
    <3>4. k <= 5 => "hidelist" \notin DOMAIN tables'
      BY <1>1, <1>2, <1>3, <1>4, <1>6, <2>1, <2>4, ApplyEffect DEF DbInv, UpgradeInv
    <3>5. k <= 3 => "denylist" \in DOMAIN tables'
      BY <1>1, <1>2, <1>3, <1>4, <1>6, <2>1, <2>4, ApplyEffect DEF DbInv, UpgradeInv
    <3>6. k = 2 => tables'["policies"].columns = PolicyColumns
      BY <1>1, <1>3, <1>4, <1>6, <2>1, ApplyEffect DEF DbInv, FileInv
    <3>7. UpgradeInv'
      <4>1. Len(todo') = k - 1
        BY <2>1
      <4>2. Len(todo') \in 1..(8 - StartAt(user_version))
        BY <1>0, <1>1, <2>4, <4>1
      <4>3. todo' = UpgradeRest(Len(todo'))
        BY <2>1, <4>2
      <4>. QED
        BY <2>4, <3>1, <3>4, <3>5, <3>6, <4>1, <4>2, <4>3 DEF UpgradeInv
    <3>8. HidelistInv'
      BY <1>1, <1>2, <1>3, <1>4, <1>6, <2>1, <2>4, <3>1, ApplyEffect DEF DbInv, HidelistInv
    <3>. QED
      BY <2>1, <2>2, <3>1, <3>3, <3>7, <3>8 DEF DbInv, CreationInv, OpenInv, DB_VERSION
  <2>. QED
    BY <1>1, <2>3, <2>4
<1>. QED
  BY <1>5, <1>6

\* Every step of open_and_init_db keeps the form of the file.
LEMMA DbOpenKeeps ==
    ASSUME DbInv, DbOpen
    PROVE  DbInv'
<1>0. user_version \in Nat /\ faults \in Nat
  BY DEF DbInv, FileInv
<1>1. CASE \E ok \in BOOLEAN : LoadSqlite(ok)
  <2>1. /\ UNCHANGED <<user_version, tables, conn, todo>> /\ conn = "none"
        /\ faults' \in {faults, faults + 1}
    BY <1>1 DEF LoadSqlite, file
  <2>. QED
    BY <1>0, <2>1 DEF DbInv, TablesType, FileInv, CreationInv, UpgradeInv, OpenInv, HidelistInv, CurrentTables
<1>2. CASE OpenDb
  <2>1. conn = "none" /\ conn' = "opening" /\ faults' = faults /\ todo' = Statements(user_version')
    BY <1>2 DEF OpenDb
  <2>2. CASE user_version > DB_VERSION
    <3>1. user_version' = 0 /\ tables' = NoTables
      BY <1>2, <2>2 DEF OpenDb
    <3>2. todo' = CreationRest(5) /\ Len(CreationRest(5)) = 5
      BY <2>1, <3>1, CreationSteps, StatementsFrom
    <3>3. Len(todo') = 5 /\ todo' = CreationRest(Len(todo'))
      BY <3>2, Zenon
    <3>4. TablesType' /\ FileInv'
      BY <1>0, <2>1, <3>1 DEF TablesType, FileInv, NoTables, DB_VERSION
    <3>. QED
      <4>1. CreationInv'
        BY <3>3 DEF CreationInv
      <4>. QED
        BY <2>1, <3>1, <3>4, <4>1 DEF DbInv, UpgradeInv, OpenInv, HidelistInv, DB_VERSION
  <2>3. CASE user_version <= DB_VERSION
    <3>1. user_version' = user_version /\ tables' = tables
      BY <1>0, <1>2, <2>3 DEF OpenDb, file, DB_VERSION
    <3>2. TablesType' /\ FileInv'
      BY <2>1, <3>1 DEF DbInv, TablesType, FileInv, CurrentTables
    <3>3. CreationInv'
      <4>. SUFFICES ASSUME user_version <= 6
                    PROVE  CreationInv'
        BY <3>1 DEF CreationInv
      <4>1. todo' = CreationRest(5) /\ Len(CreationRest(5)) = 5
        BY <1>0, <2>1, <3>1, CreationSteps, StatementsFrom
      <4>2. Len(todo') = 5 /\ todo' = CreationRest(Len(todo'))
        BY <4>1, Zenon
      <4>. QED
        BY <4>2 DEF CreationInv
    <3>4. UpgradeInv' /\ HidelistInv'
      <4>. SUFFICES ASSUME user_version \in 7..11
                    PROVE  UpgradeInv' /\ HidelistInv'
        BY <3>1 DEF UpgradeInv, HidelistInv
      <4>. DEFINE k == 8 - StartAt(user_version)
      <4>1. k \in {7, 6, 5, 2} /\ (user_version # 11 => k >= 5) /\ StartAt(user_version) = 8 - k
        BY DEF StartAt
      <4>2. Statements(user_version) = UpgradeRest(k)
        BY StatementsFrom
      <4>. HIDE DEF k
      <4>3. todo' = UpgradeRest(k) /\ Len(UpgradeRest(k)) = k
        <5>1. k \in 1..7
          BY <4>1
        <5>. QED
          BY <2>1, <3>1, <4>2, <5>1, UpgradeSteps, Zenon
      <4>4. Len(todo') = k
        BY <4>3
      <4>5. todo' = UpgradeRest(Len(todo')) /\ Len(todo') \in 1..(8 - StartAt(user_version))
        BY <4>1, <4>3, <4>4
      <4>6. UpgradeInv'
        BY <3>1, <4>1, <4>4, <4>5 DEF DbInv, FileInv, UpgradeInv
      <4>7. user_version \in {7, 8} => "hidelist" \in DOMAIN tables \/ faults # 0
        BY <2>1 DEF DbInv, HidelistInv
      <4>. QED
        BY <2>1, <3>1, <4>6, <4>7 DEF HidelistInv
    <3>5. OpenInv'
      BY <1>0, <2>1, <2>3, <3>1, StatementsFrom DEF OpenInv
    <3>. QED
      BY <3>2, <3>3, <3>4, <3>5 DEF DbInv
  <2>. QED
    BY <1>0, <2>2, <2>3 DEF DB_VERSION
<1>3. CASE RunStatement
  <2>1. user_version # DB_VERSION /\ user_version <= DB_VERSION
    BY <1>3 DEF RunStatement, DbInv, OpenInv
  <2>2. user_version <= 6 \/ user_version \in 7..11
    BY <1>0, <2>1 DEF DB_VERSION
  <2>. QED
    BY <1>3, <2>2, CreationStep, UpgradeStep
<1>4. CASE Opened
  <2>1. /\ UNCHANGED <<user_version, tables, todo, faults>> /\ todo = <<>> /\ conn = "opening" /\ conn' = "open"
    BY <1>4 DEF Opened, file
  <2>2. Len(todo) = 0
    BY <2>1
  <2>3. user_version = DB_VERSION
    BY <1>0, <2>1, <2>2 DEF DbInv, CreationInv, UpgradeInv, OpenInv, DB_VERSION
  <2>4. TablesType' /\ FileInv'
    BY <2>1 DEF DbInv, TablesType, FileInv, CurrentTables
  <2>. QED
    BY <2>1, <2>3, <2>4 DEF DbInv, CreationInv, UpgradeInv, OpenInv, HidelistInv, DB_VERSION
<1>5. CASE StatementFails
  <2>1. /\ UNCHANGED <<user_version, tables>> /\ faults' = faults + 1 /\ conn' = "none"
    BY <1>5 DEF StatementFails, GiveUp, file
  <2>. QED
    BY <1>0, <2>1 DEF DbInv, TablesType, FileInv, CreationInv, UpgradeInv, OpenInv, HidelistInv, CurrentTables
<1>. QED
  BY <1>1, <1>2, <1>3, <1>4, <1>5 DEF DbOpen

\* A statement of the denylist, a failed one, and the end of the daemon.
LEMMA DbExecKeeps ==
    ASSUME DbInv, NEW t \in {"denylist", "settings"}, NEW rows, DbExec(t, rows)
    PROVE  /\ DbInv'
           /\ DOMAIN tables' = DOMAIN tables /\ tables'[t].rows = rows
           /\ \A u \in DOMAIN tables \ {t} : tables'[u] = tables[u]
<1>1. conn = "open" /\ UNCHANGED <<user_version, conn, todo, faults>> /\ CurrentTables /\ user_version = DB_VERSION
  BY DEF DbExec, DbInv, OpenInv, FileInv
<1>2. t \in DOMAIN tables /\ tables[t] = [columns |-> tables[t].columns, rows |-> tables[t].rows]
  BY <1>1 DEF CurrentTables, DbInv, TablesType, Table
<1>3. tables' = [u \in DOMAIN tables |->
                   IF u = t THEN [columns |-> tables[t].columns, rows |-> rows] ELSE tables[u]]
  <2>1. tables' = [tables EXCEPT ![t].rows = rows] /\ tables = [u \in DOMAIN tables |-> tables[u]]
    BY DEF DbExec, DbInv, TablesType
  <2>2. [tables[t] EXCEPT !.rows = rows] = [columns |-> tables[t].columns, rows |-> rows]
    BY <1>2
  <2>. QED
    BY <2>1, <2>2, Zenon
<1>4. TablesType'
  BY <1>2, <1>3 DEF DbInv, TablesType, Table
<1>5. CurrentTables'
  BY <1>1, <1>2, <1>3 DEF CurrentTables
<1>6. DbInv'
  BY <1>1, <1>4, <1>5 DEF DbInv, FileInv, CreationInv, UpgradeInv, OpenInv, HidelistInv, DB_VERSION
<1>. QED
  BY <1>2, <1>3, <1>6

\* A statement that fails, or a restart, changes no table.
LEMMA DbFaultKeeps ==
    ASSUME DbInv, DbError \/ DbRestart
    PROVE  DbInv' /\ tables' = tables /\ user_version' = user_version /\ (DbError => conn' = conn)
<1>1. /\ UNCHANGED <<user_version, tables>> /\ faults' \in {faults, faults + 1}
      /\ \/ UNCHANGED <<conn, todo>> /\ conn # "opening"
         \/ conn' = "none" /\ faults' = faults + 1
      /\ DbError => conn' = conn
  BY DEF DbError, DbRestart, file
<1>2. user_version \in Nat /\ faults \in Nat
  BY DEF DbInv, FileInv
<1>3. TablesType' /\ FileInv'
  BY <1>1, <1>2 DEF DbInv, TablesType, FileInv, CurrentTables
<1>. QED
  BY <1>1, <1>2, <1>3 DEF DbInv, CreationInv, UpgradeInv, OpenInv, HidelistInv

\* What a step of the system can be for the database.
DbStepKind ==
    \/ UNCHANGED dbVars
    \/ DbOpen
    \/ DbError
    \/ Restart
    \/ \E t \in {"denylist", "settings"} : \E rows : DbExec(t, rows)

\* What a step of the daemon can do to the file: open it, run a statement, fail.
LEMMA DbSteps == [Next]_vars => DbStepKind
<1>. SUFFICES ASSUME [Next]_vars
              PROVE  DbStepKind
  OBVIOUS
<1>1. ASSUME NEW gone, DeleteGone(gone)
      PROVE  DbStepKind
  BY <1>1 DEF DeleteGone, DbStepKind
<1>2. ASSUME NEW t \in Threads, Request(t)
      PROVE  UNCHANGED dbVars
  BY <1>2 DEF Request, ReceiveAdd, ReceiveRm, ReceiveLs, ReceiveQuery, ReceiveEnable, ReceiveDisable, ReceiveRestart,
    Receive, Boot
<1>3. ASSUME NEW t \in Threads, Section(t)
      PROVE  DbStepKind
  <2>1. CASE EnsureData(t)
    BY <1>1, <2>1 DEF EnsureData
  <2>2. CASE EnsureFails(t)
    BY <2>2 DEF EnsureFails, DbStepKind
  <2>3. CASE LsLocked(t)
    BY <1>1, <2>3 DEF LsLocked
  <2>4. CASE Lock(t) \/ AddLocked(t) \/ RmLocked(t) \/ QueryLocked(t)
    BY <2>4 DEF Lock, AddLocked, RmLocked, QueryLocked, DbStepKind
  <2>5. CASE EnableRefused(t) \/ EnableLocked(t) \/ EnableSpawn(t)
    BY <2>5 DEF EnableRefused, EnableLocked, EnableSpawn, DbStepKind
  <2>. QED
    BY <1>3, <2>1, <2>2, <2>3, <2>4, <2>5 DEF Section
<1>4. ASSUME NEW t \in Threads, Answer(t) \/ ScanDone(t) \/ DbStep(t)
      PROVE  DbStepKind
  <2>1. CASE Answer(t)
    BY <2>1 DEF Answer, DbStepKind
  <2>2. CASE ScanDone(t)
    BY <1>1, <2>2 DEF ScanDone
  <2>3. CASE DbStep(t)
    <3>1. Stored(t) => DbStepKind
      BY DEF Stored, DbStepKind
    <3>2. NotStored(t) => DbStepKind
      BY DEF NotStored, DbStepKind
    <3>. QED
      BY <2>3, <3>1, <3>2 DEF DbStep
  <2>. QED
    BY <1>4, <2>1, <2>2, <2>3
<1>5. ASSUME NEW w \in Watchers, Watch(w)
      PROVE  UNCHANGED dbVars
  BY <1>5 DEF Watch, LoopTop, ReadFails, Retry, ReadMessage, LogcatGoto
<1>6. ASSUME NEW app \in Apps, NEW id \in AppIds \cup {0}, Move(app, id)
      PROVE  UNCHANGED dbVars
  BY <1>6 DEF Move
<1>7. Restart => DbStepKind
  BY DEF DbStepKind
<1>8. UNCHANGED vars => DbStepKind
  BY DEF vars, DbStepKind
<1>. QED
  BY <1>2, <1>3, <1>4, <1>5, <1>6, <1>7, <1>8 DEF Next, DbStepKind

\* Every step keeps the state of the connection and the shape of the file.
LEMMA DbInvKept == DbInv /\ [Next]_vars => DbInv'
<1>. SUFFICES ASSUME DbInv, DbStepKind
              PROVE  DbInv'
  BY DbSteps
<1>1. CASE UNCHANGED dbVars
  BY <1>1 DEF dbVars, file, DbInv, TablesType, FileInv, CreationInv, UpgradeInv, OpenInv, HidelistInv, CurrentTables
<1>. QED
  BY <1>1, DbOpenKeeps, DbExecKeeps, DbFaultKeeps DEF DbStepKind, Restart

\* The next statement can work unless hidelist is gone and the version is not.
LEMMA DbInvSuffices == DbInv => UpgradeSound
<1>. SUFFICES ASSUME DbInv
              PROVE  UpgradeSound
  OBVIOUS
<1>1. OpenIsCurrent
  BY DEF DbInv, OpenInv, FileInv, CurrentTables, OpenIsCurrent
<1>2. UpgradeCanGoOn
  <2>. SUFFICES ASSUME conn = "opening", todo # <<>>, ~ Works(Head(todo), tables)
                PROVE  Wedged /\ faults > 0
    BY DEF UpgradeCanGoOn
  <2>. DEFINE k == Len(todo)
  <2>1. user_version <= 6 \/ user_version \in 7..11
    BY DEF DbInv, OpenInv, FileInv, DB_VERSION
  <2>2. CASE user_version <= 6
    <3>1. k \in 1..5 /\ todo = CreationRest(k)
      BY <2>2 DEF DbInv, CreationInv
    <3>. HIDE DEF k
    <3>2. Head(todo) = Creation[6 - k]
      BY <3>1, CreationSteps, Zenon
    <3>. QED
      BY <3>1, <3>2 DEF Creation, Works
  <2>3. CASE user_version \in 7..11
    <3>0. StartAt(user_version) \in {1, 2, 3, 6}
      BY <2>3, StatementsFrom
    <3>1. k \in 1..(8 - StartAt(user_version)) /\ todo = UpgradeRest(k)
      BY <2>3 DEF DbInv, UpgradeInv
    <3>. HIDE DEF k
    <3>2. k \in 1..7
      BY <3>0, <3>1
    <3>3. Head(todo) = Upgrade[8 - k] /\ Len(todo) = k
      BY <3>1, <3>2, UpgradeSteps, Zenon
    <3>4. k = 7 /\ "hidelist" \notin DOMAIN tables
      BY <2>3, <3>2, <3>3 DEF Upgrade, Works, DbInv, FileInv
    <3>5. user_version \in {7, 8}
      BY <2>3, <3>0, <3>1, <3>4 DEF StartAt
    <3>. QED
      BY <3>3, <3>4, <3>5 DEF Wedged, DbInv, FileInv, HidelistInv
  <2>. QED
    BY <2>1, <2>2, <2>3
<1>. QED
  BY <1>1, <1>2 DEF UpgradeSound

\* However often the daemon dies or a statement fails, and whatever else the daemon
\* does with the database: the upgrade that open_and_init_db starts can go on, unless
\* an earlier one was interrupted after it dropped hidelist, and a connection is only
\* handed out for a file of the current form.
THEOREM UpgradeIsSound == Spec => []UpgradeSound
<1>1. Init => DbInv
  BY DbInitInv DEF Init
<1>. QED
  BY <1>1, DbInvKept, DbInvSuffices, PTL DEF Spec

\* No statement of the upgrades, and nothing that the denylist writes, loses a row of
\* the table policies.
THEOREM PoliciesAreKept == Spec => PoliciesKept
<1>1. ASSUME DbInv, [Next]_vars, user_version <= DB_VERSION, "policies" \in DOMAIN tables
      PROVE  "policies" \in DOMAIN tables' /\ tables'["policies"].rows = tables["policies"].rows
  <2>0. DbStepKind
    BY <1>1, DbSteps
  <2>1. CASE RunStatement
    <3>1. CASE ~ Works(Head(todo), tables)
      BY <1>1, <2>1, <3>1 DEF RunStatement, GiveUp, file
    <3>2. CASE Works(Head(todo), tables)
      <4>1. Head(todo) \in Range(Creation) \cup Range(Upgrade)
        <5>. DEFINE k == Len(todo)
        <5>1. user_version <= 6 \/ user_version \in 7..11
          BY <1>1, <2>1 DEF RunStatement, DbInv, OpenInv, FileInv, DB_VERSION
        <5>2. CASE user_version <= 6
          <6>1. k \in 1..5 /\ todo = CreationRest(k)
            BY <1>1, <2>1, <5>2 DEF RunStatement, DbInv, CreationInv
          <6>. HIDE DEF k
          <6>2. Head(todo) = Creation[6 - k]
            BY <6>1, CreationSteps, Zenon
          <6>. QED
            BY <6>1, <6>2 DEF Range, Creation
        <5>3. CASE user_version \in 7..11
          <6>0. StartAt(user_version) \in {1, 2, 3, 6}
            BY <5>3, StatementsFrom
          <6>1. k \in 1..(8 - StartAt(user_version)) /\ todo = UpgradeRest(k)
            BY <1>1, <2>1, <5>3 DEF RunStatement, DbInv, UpgradeInv
          <6>. HIDE DEF k
          <6>2. k \in 1..7
            BY <6>0, <6>1
          <6>3. Head(todo) = Upgrade[8 - k]
            BY <6>1, <6>2, UpgradeSteps, Zenon
          <6>. QED
            BY <6>2, <6>3 DEF Range, Upgrade
        <5>. QED
          BY <5>1, <5>2, <5>3
      <4>2. tables' = Apply(Head(todo), tables)
        BY <2>1, <3>2 DEF RunStatement
      <4>. QED
        BY <1>1, <3>2, <4>1, <4>2, ApplyEffect DEF DbInv
    <3>. QED
      BY <3>1, <3>2
  <2>2. CASE DbOpen /\ ~ RunStatement
    <3>1. user_version \in Nat
      BY <1>1 DEF DbInv, FileInv
    <3>2. tables' = tables
      BY <1>1, <2>2, <3>1 DEF DbOpen, LoadSqlite, OpenDb, Opened, StatementFails, GiveUp, file, DB_VERSION
    <3>. QED
      BY <1>1, <3>2
  <2>3. CASE \E t \in {"denylist", "settings"} : \E rows : DbExec(t, rows)
    BY <1>1, <2>3, DbExecKeeps
  <2>4. CASE UNCHANGED dbVars \/ DbError \/ Restart
    BY <1>1, <2>4 DEF dbVars, file, DbError, Restart, DbRestart
  <2>. QED
    BY <2>0, <2>1, <2>2, <2>3, <2>4 DEF DbStepKind
<1>2. ASSUME DbInv, [Next]_vars
      PROVE  [ user_version <= DB_VERSION /\ "policies" \in DOMAIN tables
        => "policies" \in DOMAIN tables' /\ tables'["policies"].rows = tables["policies"].rows ]_dbVars
  BY <1>1, <1>2
<1>3. Init => DbInv
  BY DbInitInv DEF Init
<1>. QED
  BY <1>2, <1>3, DbInvKept, PTL DEF Spec, PoliciesKept

-----------------------------------------------------------------------------
(* The threads. *)

Requests == {"none", "add", "rm", "ls", "query", "enable", "disable", "scan"}
Names == PkgArgs \cup ProcArgs \cup Keys \cup {""}
Jobs == [op : Requests, pkg : Names, proc : Names,
         pc : {"idle", "lock", "locked", "spawn", "db", "answer", "scan"}, answer : BOOLEAN]

\* Where a request of each kind can be.
JobInv ==
    /\ th \in [Threads -> Jobs]
    /\ lock \in Threads \cup {None}
    /\ enforced \in BOOLEAN /\ booted \in BOOLEAN /\ zygisk \in BOOLEAN
    /\ logcat \in [Watchers -> {"none", "loop", "read", "retry"}]
    /\ \A t \in Threads :
          /\ lock = t <=> th[t].pc \in {"locked", "spawn"}
          /\ th[t].pc = "idle" <=> th[t].op = "none"
          /\ th[t].pc = "db" => th[t].op \in {"add", "rm", "enable", "disable"}
          /\ th[t].pc = "spawn" => th[t].op = "enable"
          /\ th[t].op = "scan" <=> th[t].pc = "scan"
          /\ th[t].op = "disable" => th[t].pc = "db"

-----------------------------------------------------------------------------
(* The maps. *)

Installations == [Apps -> AppIds \cup {0}]

MapsType(M) ==
    /\ M = [procs |-> M.procs, views |-> M.views, stale |-> M.stale, loaded |-> M.loaded]
    /\ M.procs = [p \in DOMAIN M.procs |-> M.procs[p]]
    /\ M.views \subseteq Ids \X Keys /\ M.stale \subseteq M.views
    /\ M.loaded \in BOOLEAN
    /\ DOMAIN M.procs \subseteq Keys

\* The two maps agree on a package.
Exact(M, inst, p) ==
    /\ {v \in M.views : v[2] = p} = IF p \in DOMAIN M.procs
                                    THEN update_app_id(get_app_id(inst, p), p) ELSE {}
    /\ {v \in M.views : v[2] = p} \cap M.stale = {}

MapInv ==
    /\ installed \in Installations
    /\ MapsType(maps)
    /\ maps.loaded /\ ~ raced => \A p \in Keys \ moved : Exact(maps, installed, p)

-----------------------------------------------------------------------------
\* What an action does to the threads: nothing, the start of a request, a move of t,
\* or its end.
LEMMA Moves ==
    ASSUME JobInv, NEW t \in Threads
    PROVE  /\ \A j \in Jobs : th' = [th EXCEPT ![t] = j] =>
                /\ th' \in [Threads -> Jobs] /\ th'[t] = j
                /\ \A u \in Threads \ {t} : th'[u] = th[u]
           /\ \A pc \in {"locked", "spawn", "db"} : Goto(t, pc) =>
                /\ th' \in [Threads -> Jobs]
                /\ th'[t].pc = pc /\ th'[t].op = th[t].op /\ th'[t].pkg = th[t].pkg /\ th'[t].proc = th[t].proc
                /\ \A u \in Threads \ {t} : th'[u] = th[u]
           /\ Return(t) =>
                /\ th' \in [Threads -> Jobs] /\ th'[t].pc = "idle" /\ th'[t].op = "none"
                /\ \A u \in Threads \ {t} : th'[u] = th[u]
<1>1. th \in [Threads -> Jobs]
  BY DEF JobInv
<1>2. Idle \in Jobs
  BY DEF Idle, Jobs, Requests, Names
<1>3. ASSUME NEW j \in Jobs, th' = [th EXCEPT ![t] = j]
      PROVE  /\ th' \in [Threads -> Jobs] /\ th'[t] = j
             /\ \A u \in Threads \ {t} : th'[u] = th[u]
  BY <1>1, <1>3
<1>4. ASSUME NEW pc \in {"locked", "spawn", "db"}, Goto(t, pc)
      PROVE  /\ th' \in [Threads -> Jobs]
             /\ th'[t].pc = pc /\ th'[t].op = th[t].op /\ th'[t].pkg = th[t].pkg /\ th'[t].proc = th[t].proc
             /\ \A u \in Threads \ {t} : th'[u] = th[u]
  BY <1>1, <1>4 DEF Goto, Jobs
<1>5. ASSUME Return(t)
      PROVE  /\ th' \in [Threads -> Jobs] /\ th'[t].pc = "idle" /\ th'[t].op = "none"
             /\ \A u \in Threads \ {t} : th'[u] = th[u]
  BY <1>2, <1>3, <1>5 DEF Return, Idle
<1>. QED
  BY <1>3, <1>4, <1>5

\* The requests the daemon takes are jobs of a thread.
LEMMA JobsOfRequests ==
    /\ Idle \in Jobs
    /\ \A pkg \in Names, proc \in Names :
          /\ Job("add", pkg, proc, "lock") \in Jobs
          /\ Job("rm", pkg, proc, "lock") \in Jobs
          /\ Job("query", pkg, proc, "lock") \in Jobs
    /\ Job("ls", "", "", "lock") \in Jobs /\ Job("enable", "", "", "lock") \in Jobs
    /\ Job("disable", "", "", "db") \in Jobs /\ Job("scan", "", "", "scan") \in Jobs
BY DEF Idle, Job, Jobs, Requests, Names

\* What all requests have in common: t was idle and now has the job j.
Begins(t, j) ==
    /\ th[t].pc = "idle" /\ th' = [th EXCEPT ![t] = j]
    /\ UNCHANGED <<dbVars, installed, zygisk, maps, lock, logcat, moved>>
    /\ blurred \subseteq blurred'
    /\ raced => raced'
    /\ enforced' = (enforced /\ j.op # "disable")
    /\ \/ j.op = "none" /\ j.pc = "idle"
       \/ j.op \in {"add", "rm"} /\ j.pc = "lock" /\ (Busy(j.pkg) => j.pkg \in blurred')
       \/ j.op \in {"ls", "query"} /\ j.pc = "lock"
       \/ j.op = "enable" /\ j.pc = "lock" /\ ~ enforced /\ (Busy("enforce") => "enforce" \in blurred')
       \/ j.op = "disable" /\ j.pc = "db" /\ (Busy("enforce") => "enforce" \in blurred')
       \/ j.op = "scan" /\ j.pc = "scan"
    /\ \/ booted' = booted
       \/ /\ booted' = TRUE /\ conn = "open"
          /\ \/ j.op = "enable"
             \/ j.op = "none" /\ (enforced \/ "denylist" \notin Settings)

\* A request begins the job of one idle thread and touches nothing else.
LEMMA RequestsBegin ==
    ASSUME JobInv, NEW t \in Threads, Request(t)
    PROVE  \E j \in Jobs : Begins(t, j)
<1>0. enforced \in BOOLEAN
  BY DEF JobInv
<1>. USE DEF Begins, Receive
<1>1. ASSUME NEW pkg \in PkgArgs, NEW arg \in ProcArgs, ReceiveAdd(t, pkg, arg)
      PROVE  \E j \in Jobs : Begins(t, j)
  <2>. DEFINE proc == IF arg = "" THEN pkg ELSE arg
  <2>1. Job("add", pkg, proc, "lock") \in Jobs /\ Idle \in Jobs
    BY JobsOfRequests DEF Names
  <2>2. CASE validate(pkg, proc)
    BY <1>0, <1>1, <2>1, <2>2 DEF ReceiveAdd, Job
  <2>3. CASE ~ validate(pkg, proc)
    BY <1>0, <1>1, <2>1, <2>3 DEF ReceiveAdd, Idle
  <2>. QED
    BY <2>2, <2>3
<1>2. ASSUME NEW pkg \in PkgArgs, NEW arg \in ProcArgs, ReceiveRm(t, pkg, arg)
      PROVE  \E j \in Jobs : Begins(t, j)
  <2>1. Job("rm", pkg, arg, "lock") \in Jobs
    BY JobsOfRequests DEF Names
  <2>. QED
    BY <1>0, <1>2, <2>1, Zenon DEF ReceiveRm, Job
<1>3. ASSUME ReceiveLs(t)
      PROVE  \E j \in Jobs : Begins(t, j)
  BY <1>0, <1>3, JobsOfRequests DEF ReceiveLs, Job
<1>4. ASSUME NEW app \in Apps \cup {ISOLATED_MAGIC}, NEW arg \in ProcArgs, ReceiveQuery(t, app, arg)
      PROVE  \E j \in Jobs : Begins(t, j)
  <2>1. Job("query", app, arg, "lock") \in Jobs
    BY JobsOfRequests DEF Names, Keys
  <2>. QED
    BY <1>0, <1>4, <2>1, Zenon DEF ReceiveQuery, Job
<1>5. ASSUME ReceiveEnable(t)
      PROVE  \E j \in Jobs : Begins(t, j)
  <2>1. CASE enforced
    BY <1>0, <1>5, <2>1, JobsOfRequests DEF ReceiveEnable, Idle
  <2>2. CASE ~ enforced
    BY <1>0, <1>5, <2>2, JobsOfRequests DEF ReceiveEnable, Job
  <2>. QED
    BY <2>1, <2>2, Zenon
<1>6. ASSUME ReceiveDisable(t)
      PROVE  \E j \in Jobs : Begins(t, j)
  BY <1>0, <1>6, JobsOfRequests DEF ReceiveDisable, Job
<1>7. ASSUME ReceiveRestart(t)
      PROVE  \E j \in Jobs : Begins(t, j)
  <2>1. raced => raced'
    BY <1>7 DEF ReceiveRestart
  <2>2. CASE maps.loaded
    BY <1>0, <1>7, <2>1, <2>2, JobsOfRequests DEF ReceiveRestart, Job
  <2>3. CASE ~ maps.loaded
    BY <1>0, <1>7, <2>1, <2>3, JobsOfRequests DEF ReceiveRestart, Idle
  <2>. QED
    BY <2>2, <2>3, Zenon
<1>8. ASSUME Boot(t)
      PROVE  \E j \in Jobs : Begins(t, j)
  <2>1. CASE ~ enforced /\ "denylist" \in Settings
    <3>. DEFINE j == Job("enable", "", "", "lock")
    <3>1. /\ th[t].pc = "idle" /\ th' = [th EXCEPT ![t] = j] /\ booted' = TRUE /\ conn = "open"
          /\ blurred \subseteq blurred' /\ raced' = raced /\ enforced' = enforced
          /\ Busy("enforce") => "enforce" \in blurred'
          /\ UNCHANGED <<dbVars, installed, zygisk, maps, lock, logcat, moved>>
      BY <1>8, <2>1 DEF Boot, world
    <3>2. j \in Jobs /\ j.op = "enable" /\ j.pc = "lock"
      BY JobsOfRequests DEF Job
    <3>. HIDE DEF j
    <3>3. enforced' = (enforced /\ j.op # "disable")
      BY <1>0, <3>1, <3>2
    <3>4. Begins(t, j)
      BY <2>1, <3>1, <3>2, <3>3
    <3>. QED
      BY <3>2, <3>4, Zenon
  <2>2. CASE ~ (~ enforced /\ "denylist" \in Settings)
    <3>1. /\ th[t].pc = "idle" /\ th' = [th EXCEPT ![t] = Idle] /\ booted' = TRUE /\ conn = "open"
          /\ blurred \subseteq blurred' /\ raced' = raced /\ enforced' = enforced
          /\ UNCHANGED <<dbVars, installed, zygisk, maps, lock, logcat, moved>>
      BY <1>8, <2>2 DEF Boot, world
    <3>2. Idle \in Jobs /\ Idle.op = "none" /\ Idle.pc = "idle"
      BY JobsOfRequests DEF Idle
    <3>3. enforced \/ "denylist" \notin Settings
      BY <2>2
    <3>. QED
      BY <1>0, <3>1, <3>2, <3>3, Zenon
  <2>. QED
    BY <2>1, <2>2, Zenon
<1>. QED
  BY <1>1, <1>2, <1>3, <1>4, <1>5, <1>6, <1>7, <1>8 DEF Request

\* Every step leaves each thread where a request of its kind can be, and one holder of the lock.
LEMMA JobInvKept == JobInv /\ [Next]_vars => JobInv'
<1>. SUFFICES ASSUME JobInv, [Next]_vars
              PROVE  JobInv'
  OBVIOUS
<1>. None \notin Threads
  BY ThreadsAssumption
<1>0. th \in [Threads -> Jobs] /\ logcat \in [Watchers -> {"none", "loop", "read", "retry"}]
  BY DEF JobInv
<1>1. ASSUME NEW t \in Threads, Request(t)
      PROVE  JobInv'
  <2>1. PICK j \in Jobs : Begins(t, j)
    BY <1>1, RequestsBegin
  <2>2. /\ th' \in [Threads -> Jobs] /\ th'[t] = j
        /\ \A u \in Threads \ {t} : th'[u] = th[u]
    BY <2>1, Moves, Zenon DEF Begins
  <2>. QED
    BY <2>1, <2>2, Zenon DEF Begins, JobInv
<1>2. ASSUME NEW t \in Threads, Section(t)
      PROVE  JobInv'
  <2>1. CASE Lock(t)
    BY <2>1, Moves DEF Lock, JobInv, world
  <2>2. CASE EnsureData(t)
    BY <2>2 DEF EnsureData, JobInv, world
  <2>3. CASE EnsureFails(t)
    BY <2>3, Moves DEF EnsureFails, JobInv, world
  <2>4. CASE AddLocked(t)
    <3>1. Return(t) \/ Goto(t, "db")
      BY <2>4 DEF AddLocked
    <3>2. th[t].op = "add" /\ th[t].pc = "locked" /\ lock' = None /\ UNCHANGED <<enforced, booted, zygisk, logcat>>
      BY <2>4 DEF AddLocked, InSection, At, world
    <3>. QED
      BY <3>1, <3>2, Moves DEF JobInv
  <2>5. CASE RmLocked(t)
    <3>1. Return(t) \/ Goto(t, "db")
      BY <2>5 DEF RmLocked
    <3>2. th[t].op = "rm" /\ th[t].pc = "locked" /\ lock' = None /\ UNCHANGED <<enforced, booted, zygisk, logcat>>
      BY <2>5 DEF RmLocked, InSection, At, world
    <3>. QED
      BY <3>1, <3>2, Moves DEF JobInv
  <2>6. CASE LsLocked(t)
    BY <2>6, Moves DEF LsLocked, InSection, At, JobInv, world
  <2>7. CASE QueryLocked(t)
    <3>1. PICK yes \in is_deny_target(maps, UidOf(th[t].pkg), th[t].proc) :
            th' = [th EXCEPT ![t].answer = yes, ![t].pc = "answer"]
      BY <2>7, Zenon DEF QueryLocked
    <3>2. yes \in BOOLEAN
      BY Zenon DEF is_deny_target
    <3>3. /\ th' \in [Threads -> Jobs]
          /\ th'[t].op = th[t].op /\ th'[t].pc = "answer"
          /\ \A u \in Threads \ {t} : th'[u] = th[u]
      BY <1>0, <3>1, <3>2, Zenon DEF Jobs
    <3>. QED
      BY <2>7, <3>3 DEF QueryLocked, InSection, At, JobInv, world
  <2>8. CASE EnableRefused(t)
    BY <2>8, Moves DEF EnableRefused, At, JobInv, world
  <2>9. CASE EnableLocked(t)
    BY <2>9, Moves DEF EnableLocked, InSection, At, JobInv, world
  <2>10. CASE EnableSpawn(t)
    <3>1. logcat' \in [Watchers -> {"none", "loop", "read", "retry"}] /\ enforced' \in BOOLEAN
      BY <2>10, Zenon DEF EnableSpawn, JobInv
    <3>. QED
      BY <2>10, <3>1, Moves DEF EnableSpawn, At, JobInv, world
  <2>. QED
    BY <1>2, <2>1, <2>2, <2>3, <2>4, <2>5, <2>6, <2>7, <2>8, <2>9, <2>10 DEF Section
<1>3. ASSUME NEW t \in Threads, Answer(t) \/ ScanDone(t) \/ DbStep(t)
      PROVE  JobInv'
  <2>1. CASE Answer(t)
    BY <2>1, Moves DEF Answer, At, JobInv, world
  <2>2. CASE ScanDone(t)
    BY <2>2, Moves DEF ScanDone, At, JobInv, world
  <2>3. CASE DbStep(t)
    <3>1. th[t].pc = "db"
      BY <2>3 DEF DbStep, Stored, NotStored, At
    <3>. QED
      BY <2>3, <3>1, Moves DEF DbStep, JobInv, world
  <2>. QED
    BY <1>3, <2>1, <2>2, <2>3
<1>4. ASSUME NEW w \in Watchers, Watch(w)
      PROVE  JobInv'
  <2>1. /\ logcat' \in [Watchers -> {"none", "loop", "read", "retry"}]
        /\ UNCHANGED <<th, lock, enforced, booted, zygisk>>
    BY <1>0, <1>4 DEF Watch, LoopTop, ReadFails, Retry, ReadMessage, LogcatGoto, world
  <2>. QED
    BY <2>1 DEF JobInv
<1>5. ASSUME NEW app \in Apps, NEW id \in AppIds \cup {0}, Move(app, id)
      PROVE  JobInv'
  BY <1>5 DEF Move, JobInv, daemon
<1>6. CASE Restart
  BY <1>6, JobsOfRequests DEF Restart, JobInv, world, Idle
<1>7. CASE UNCHANGED denyVars
  BY <1>7 DEF denyVars, daemon, world, JobInv
<1>. QED
  BY <1>1, <1>2, <1>3, <1>4, <1>5, <1>6, <1>7 DEF Next, vars

-----------------------------------------------------------------------------
(* The functions of core/deny/utils.cpp on the maps. *)

\* An app ID that is looked up: of a known package, or 0.
LEMMA AppIdOf ==
    ASSUME NEW inst \in Installations, NEW p
    PROVE  /\ get_app_id(inst, p) \in Int
           /\ get_app_id(inst, p) # 0 => p \in Keys
           /\ update_app_id(get_app_id(inst, p), p) \subseteq Ids \X {p}
<1>1. /\ p \notin Keys => get_app_id(inst, p) = 0
      /\ get_app_id(inst, p) \in AppIds \cup {0, -1, WEBVIEW_ZYGOTE_UID}
  BY DenyAssumption DEF get_app_id, Keys, Installations, ISOLATED_MAGIC, WEBVIEW_ZYGOTE_MAGIC
<1>2. ASSUME NEW a \in AppIds
      PROVE  a \in Int /\ a > 0
  BY DenyAssumption
<1>. DEFINE id == get_app_id(inst, p)
<1>3. id \in AppIds \/ id = 0 \/ id = -1 \/ id = 1053
  BY <1>1 DEF WEBVIEW_ZYGOTE_UID
<1>4. id \in Int
  BY <1>2, <1>3
<1>. HIDE DEF id
<1>5. update_app_id(id, p) \subseteq Ids \X {p}
  BY <1>2, <1>3 DEF update_app_id, Ids, WEBVIEW_ZYGOTE_UID
<1>. QED
  BY <1>1, <1>4, <1>5 DEF id

\* add_list: the entry, and nothing else, is new; packages that were exact stay so.
LEMMA AddOne ==
    ASSUME NEW M, MapsType(M), NEW inst \in Installations, NEW pkg, NEW proc,
           M.loaded, get_app_id(inst, pkg) # 0, NEW N \in AddEntry(M, inst, pkg, proc)
    PROVE  /\ MapsType(N) /\ N.loaded
           /\ ProcsOf(N, pkg) = ProcsOf(M, pkg) \cup {proc}
           /\ \A p \in Keys \ {pkg} : ProcsOf(N, p) = ProcsOf(M, p)
           /\ \A p \in Keys : Exact(M, inst, p) => Exact(N, inst, p)
<1>. DEFINE vs == update_app_id(get_app_id(inst, pkg), pkg)
            procs == PutProcs(M.procs, pkg, ProcsOf(M, pkg) \cup {proc})
<1>1. pkg \in Keys /\ vs \subseteq Ids \X {pkg}
  BY AppIdOf
<1>2. PICK stale \in {M.stale, M.stale \ vs} :
        N = [procs |-> procs, views |-> M.views \cup vs, stale |-> stale, loaded |-> M.loaded]
  <2>1. M = [procs |-> M.procs, views |-> M.views, stale |-> M.stale, loaded |-> M.loaded]
    BY DEF MapsType
  <2>2. [M EXCEPT !.procs = PutProcs(@, pkg, ProcsOf(M, pkg) \cup {proc})]
          = [procs |-> procs, views |-> M.views, stale |-> M.stale, loaded |-> M.loaded]
    BY ONLY <2>1
  <2>. QED
    BY <2>2, Zenon DEF AddEntry, AddViews
<1>3. /\ DOMAIN procs = DOMAIN M.procs \cup {pkg} /\ procs = [p \in DOMAIN procs |-> procs[p]]
      /\ procs[pkg] = ProcsOf(M, pkg) \cup {proc}
      /\ \A p \in DOMAIN M.procs \ {pkg} : procs[p] = M.procs[p]
  BY DEF PutProcs
<1>. HIDE DEF procs, vs
<1>4. MapsType(N) /\ N.loaded
  BY <1>1, <1>2, <1>3 DEF MapsType
<1>5. /\ ProcsOf(N, pkg) = ProcsOf(M, pkg) \cup {proc}
      /\ \A p \in Keys \ {pkg} : ProcsOf(N, p) = ProcsOf(M, p)
  BY <1>2, <1>3 DEF ProcsOf
<1>6. ASSUME NEW p \in Keys, Exact(M, inst, p)
      PROVE  Exact(N, inst, p)
  <2>1. CASE p = pkg
    BY <1>1, <1>2, <1>3, <1>6, <2>1 DEF Exact, MapsType, vs
  <2>2. CASE p # pkg
    <3>1. {v \in N.views : v[2] = p} = {v \in M.views : v[2] = p}
      BY <1>1, <1>2, <2>2
    <3>. QED
      BY <1>2, <1>3, <1>6, <2>2, <3>1 DEF Exact
  <2>. QED
    BY <2>1, <2>2
<1>. QED
  BY <1>4, <1>5, <1>6

\* rm_list: the processes that are asked for go, and with the last one the package.
RemoveEffect(M, N, inst, pkg, proc) ==
    /\ MapsType(N) /\ N.loaded
    /\ ProcsOf(N, pkg) = IF proc = "" THEN {} ELSE ProcsOf(M, pkg) \ {proc}
    /\ \A p \in Keys \ {pkg} : ProcsOf(N, p) = ProcsOf(M, p)
    /\ \A p \in Keys : Exact(M, inst, p) => Exact(N, inst, p)

\* rm_list: what leaves the maps is what was asked for; exact views stay exact.
LEMMA RemoveOne ==
    ASSUME NEW M, MapsType(M), NEW inst \in Installations, NEW pkg, NEW proc,
           pkg \in DOMAIN M.procs, M.loaded, NEW N, N = RemoveEntry(M, inst, pkg, proc)
    PROVE  RemoveEffect(M, N, inst, pkg, proc)
<1>. DEFINE vs == update_app_id(get_app_id(inst, pkg), pkg)
<1>0. /\ M = [procs |-> M.procs, views |-> M.views, stale |-> M.stale, loaded |-> M.loaded]
      /\ M.procs = [p \in DOMAIN M.procs |-> M.procs[p]]
  BY DEF MapsType
<1>1. pkg \in Keys /\ vs \subseteq Ids \X {pkg}
  BY AppIdOf DEF MapsType
<1>2. CASE proc = "" \/ M.procs[pkg] = {proc}
  <2>. DEFINE procs == [p \in DOMAIN M.procs \ {pkg} |-> M.procs[p]]
              stale == (M.stale \ vs) \cup {v \in M.views \ vs : v[2] = pkg}
  <2>1. N = [procs |-> procs, views |-> M.views \ vs, stale |-> stale, loaded |-> M.loaded]
    <3>. DEFINE W == RemoveViews(M, vs)
    <3>1. N = EraseKey(W, pkg)
      BY <1>2 DEF RemoveEntry
    <3>2. W.procs = M.procs /\ W.views = M.views \ vs /\ W.stale = M.stale \ vs /\ W.loaded = M.loaded
      BY DEF RemoveViews
    <3>. HIDE DEF W, vs
    <3>3. N = [procs |-> [p \in DOMAIN W.procs \ {pkg} |-> W.procs[p]], views |-> W.views,
               stale |-> W.stale \cup {v \in W.views : v[2] = pkg}, loaded |-> W.loaded]
      BY <3>1, Zenon DEF EraseKey, Restrict
    <3>. QED
      BY <3>2, <3>3, Zenon
  <2>2. /\ DOMAIN procs = DOMAIN M.procs \ {pkg}
        /\ \A p \in DOMAIN procs : procs[p] = M.procs[p]
        /\ procs = [p \in DOMAIN procs |-> procs[p]]
    OBVIOUS
  <2>0. N.views = M.views \ vs /\ N.stale = (M.stale \ vs) \cup {v \in M.views \ vs : v[2] = pkg}
    BY <2>1
  <2>. HIDE DEF procs
  <2>3. MapsType(N) /\ N.loaded
    BY <1>1, <2>1, <2>2 DEF MapsType
  <2>4. ProcsOf(N, pkg) = IF proc = "" THEN {} ELSE ProcsOf(M, pkg) \ {proc}
    <3>1. ProcsOf(N, pkg) = {} /\ ProcsOf(M, pkg) = M.procs[pkg]
      BY <2>1, <2>2 DEF ProcsOf
    <3>. QED
      BY <1>2, <3>1
  <2>5. \A p \in Keys \ {pkg} : ProcsOf(N, p) = ProcsOf(M, p)
    BY <2>1, <2>2 DEF ProcsOf
  <2>6. ASSUME NEW p \in Keys, Exact(M, inst, p)
        PROVE  Exact(N, inst, p)
    <3>1. CASE p = pkg
      <4>1. {v \in M.views : v[2] = pkg} = vs
        BY <2>6, <3>1 DEF Exact
      <4>2. {v \in N.views : v[2] = pkg} = {}
        BY <2>0, <4>1, Zenon
      <4>. QED
        BY <2>1, <2>2, <3>1, <4>2 DEF Exact
    <3>2. CASE p # pkg
      <4>1. {v \in N.views : v[2] = p} = {v \in M.views : v[2] = p}
        <5>1. \A v \in vs : v[2] = pkg
          BY <1>1
        <5>. HIDE DEF vs
        <5>. QED
          BY <5>1, <2>0, <3>2
      <4>2. {v \in N.views : v[2] = p} \cap N.stale = {}
        <5>1. {v \in M.views : v[2] = p} \cap M.stale = {}
          BY <2>6 DEF Exact
        <5>. HIDE DEF vs
        <5>. QED
          BY <5>1, <2>0, <3>2, <4>1
      <4>. QED
        BY <2>1, <2>2, <2>6, <3>2, <4>1, <4>2 DEF Exact
    <3>. QED
      BY <3>1, <3>2
  <2>. QED
    BY <2>3, <2>4, <2>5, <2>6 DEF RemoveEffect
<1>3. CASE ~ (proc = "" \/ M.procs[pkg] = {proc})
  <2>. DEFINE procs == [p \in DOMAIN M.procs |-> IF p = pkg THEN M.procs[p] \ {proc} ELSE M.procs[p]]
  <2>1. N = [procs |-> procs, views |-> M.views, stale |-> M.stale, loaded |-> M.loaded]
    <3>1. N = [M EXCEPT !.procs[pkg] = @ \ {proc}]
      BY <1>3 DEF RemoveEntry
    <3>2. [M.procs EXCEPT ![pkg] = @ \ {proc}] = procs
      BY <1>0
    <3>. QED
      BY <1>0, <3>1, <3>2, Zenon
  <2>2. /\ DOMAIN procs = DOMAIN M.procs
        /\ procs[pkg] = M.procs[pkg] \ {proc}
        /\ \A p \in DOMAIN procs \ {pkg} : procs[p] = M.procs[p]
        /\ procs = [p \in DOMAIN procs |-> procs[p]]
    OBVIOUS
  <2>. HIDE DEF procs
  <2>3. MapsType(N) /\ N.loaded
    BY <2>1, <2>2 DEF MapsType
  <2>4. ProcsOf(N, pkg) = IF proc = "" THEN {} ELSE ProcsOf(M, pkg) \ {proc}
    <3>1. ProcsOf(N, pkg) = M.procs[pkg] \ {proc} /\ ProcsOf(M, pkg) = M.procs[pkg]
      BY <2>1, <2>2 DEF ProcsOf
    <3>. QED
      BY <1>3, <3>1
  <2>5. \A p \in Keys \ {pkg} : ProcsOf(N, p) = ProcsOf(M, p)
    BY <2>1, <2>2 DEF ProcsOf
  <2>6. \A p \in Keys : Exact(M, inst, p) => Exact(N, inst, p)
    BY <2>1, <2>2 DEF Exact
  <2>. QED
    BY <2>3, <2>4, <2>5, <2>6 DEF RemoveEffect
<1>. QED
  BY <1>2, <1>3

\* scan_deny_apps, of the maps or of what was just read from the table: what it leaves
\* is exact, and only packages without an app are gone.
LEMMA RescanAll ==
    ASSUME NEW M, NEW inst \in Installations,
           M = [procs |-> M.procs, views |-> M.views, stale |-> M.stale, loaded |-> M.loaded],
           M.loaded,
           NEW N, N = scan_deny_apps(M, inst)
    PROVE  /\ MapsType(N) /\ N.loaded
           /\ \A p \in Keys : Exact(N, inst, p)
           /\ \A p \in Keys \ Gone(M, inst) : ProcsOf(N, p) = ProcsOf(M, p)
           /\ \A p \in Gone(M, inst) : ProcsOf(N, p) = {}
<1>. DEFINE K == DOMAIN M.procs \ Gone(M, inst)
            kept == [p \in K |-> M.procs[p]]
            views == UNION {update_app_id(get_app_id(inst, p), p) : p \in K}
<1>1. N = [procs |-> kept, views |-> views, stale |-> {}, loaded |-> M.loaded]
  BY Zenon DEF scan_deny_apps, Rescan, Restrict
<1>2. K \subseteq Keys
  BY AppIdOf DEF Gone
<1>3. DOMAIN kept = K /\ (\A p \in K : kept[p] = M.procs[p]) /\ kept = [p \in DOMAIN kept |-> kept[p]]
  OBVIOUS
<1>4. \A p \in K : update_app_id(get_app_id(inst, p), p) \subseteq Ids \X {p}
  BY AppIdOf
<1>5. views \subseteq Ids \X Keys
  BY <1>2, <1>4
<1>6. \A p \in Keys : {v \in views : v[2] = p} = IF p \in K THEN update_app_id(get_app_id(inst, p), p) ELSE {}
  BY <1>4
<1>. HIDE DEF kept, views
<1>7. MapsType(N) /\ N.loaded
  BY <1>1, <1>2, <1>3, <1>5 DEF MapsType
<1>8. \A p \in Keys : Exact(N, inst, p)
  BY <1>1, <1>3, <1>6 DEF Exact
<1>9. /\ \A p \in Keys \ Gone(M, inst) : ProcsOf(N, p) = ProcsOf(M, p)
      /\ \A p \in Gone(M, inst) : ProcsOf(N, p) = {}
  BY <1>1, <1>3 DEF ProcsOf, Gone
<1>. QED
  BY <1>7, <1>8, <1>9

\* The daemon starts with empty maps and idle threads.
LEMMA MapInvInit == Init => MapInv /\ JobInv
<1>. SUFFICES ASSUME Init
              PROVE  MapInv /\ JobInv
  OBVIOUS
<1>1. MapInv
  BY ThreadsAssumption DEF Init, MapInv, Installations, MapsType, NoMaps
<1>2. JobInv
  BY ThreadsAssumption, JobsOfRequests DEF Init, JobInv, Idle
<1>. QED
  BY <1>1, <1>2

\* Every step keeps the two maps consistent.
LEMMA MapInvKept == MapInv /\ JobInv /\ [Next]_vars => MapInv'
<1>. SUFFICES ASSUME MapInv, JobInv, [Next]_vars
              PROVE  MapInv'
  OBVIOUS
<1>0. installed \in Installations /\ MapsType(maps)
  BY DEF MapInv
<1>1. ASSUME UNCHANGED <<maps, installed, moved>>, raced => raced'
      PROVE  MapInv'
  BY <1>1 DEF MapInv
<1>2. ASSUME UNCHANGED installed, MapsType(maps'), moved' = {},
             maps'.loaded => \A p \in Keys : Exact(maps', installed, p)
      PROVE  MapInv'
  BY <1>0, <1>2 DEF MapInv
<1>3. ASSUME NEW t \in Threads, LsLocked(t) \/ ScanDone(t)
      PROVE  MapInv'
  <2>1. maps' = scan_deny_apps(maps, installed) /\ installed' = installed /\ moved' = {}
    BY <1>3 DEF LsLocked, ScanDone, world
  <2>2. CASE maps.loaded
    BY <1>0, <1>2, <2>1, <2>2, RescanAll DEF MapsType
  <2>3. CASE ~ maps.loaded
    BY <1>0, <1>2, <2>1, <2>3 DEF scan_deny_apps
  <2>. QED
    BY <2>2, <2>3
<1>4. ASSUME NEW t \in Threads, Section(t)
      PROVE  MapInv'
  <2>1. CASE EnsureData(t)
    <3>. DEFINE M == FromRows(DenyTable)
    <3>1. /\ M = [procs |-> M.procs, views |-> M.views, stale |-> M.stale, loaded |-> M.loaded] /\ M.loaded
      BY DEF FromRows
    <3>2. maps' = scan_deny_apps(M, installed) /\ installed' = installed /\ moved' = {}
      BY <2>1 DEF EnsureData, world
    <3>. HIDE DEF M
    <3>. QED
      BY <1>0, <1>2, <3>1, <3>2, RescanAll
  <2>2. CASE AddLocked(t)
    <3>1. UNCHANGED <<installed, moved, raced>>
      BY <2>2 DEF AddLocked, world, ghosts
    <3>2. CASE maps' = maps
      BY <1>1, <3>1, <3>2
    <3>3. CASE maps' # maps
      <4>1. get_app_id(installed, th[t].pkg) # 0 /\ maps' \in AddEntry(maps, installed, th[t].pkg, th[t].proc)
        BY <2>2, <3>3 DEF AddLocked
      <4>0. maps.loaded
        BY <2>2 DEF AddLocked, InSection
      <4>2. /\ MapsType(maps') /\ maps'.loaded
            /\ \A p \in Keys : Exact(maps, installed, p) => Exact(maps', installed, p)
        BY <1>0, <4>0, <4>1, AddOne
      <4>. QED
        <5>1. maps'.loaded /\ ~ raced' => \A p \in Keys \ moved : Exact(maps', installed, p)
          BY <3>1, <4>0, <4>2 DEF MapInv
        <5>. QED
          BY <1>0, <3>1, <4>2, <5>1 DEF MapInv
    <3>. QED
      BY <3>2, <3>3
  <2>3. CASE RmLocked(t)
    <3>1. UNCHANGED <<installed, moved, raced>>
      BY <2>3 DEF RmLocked, world, ghosts
    <3>2. CASE maps' = maps
      BY <1>1, <3>1, <3>2
    <3>3. CASE maps' # maps
      <4>1. th[t].pkg \in DOMAIN maps.procs /\ maps' = RemoveEntry(maps, installed, th[t].pkg, th[t].proc)
        BY <2>3, <3>3 DEF RmLocked
      <4>0. maps.loaded
        BY <2>3 DEF RmLocked, InSection
      <4>2. /\ MapsType(maps') /\ maps'.loaded
            /\ \A p \in Keys : Exact(maps, installed, p) => Exact(maps', installed, p)
        <5>1. RemoveEffect(maps, maps', installed, th[t].pkg, th[t].proc)
          BY <1>0, <4>0, <4>1, RemoveOne
        <5>. QED
          BY <5>1 DEF RemoveEffect
      <4>. QED
        <5>1. maps'.loaded /\ ~ raced' => \A p \in Keys \ moved : Exact(maps', installed, p)
          BY <3>1, <4>0, <4>2 DEF MapInv
        <5>. QED
          BY <1>0, <3>1, <4>2, <5>1 DEF MapInv
    <3>. QED
      BY <3>2, <3>3
  <2>4. CASE LsLocked(t)
    BY <1>3, <2>4
  <2>5. CASE Lock(t) \/ EnsureFails(t) \/ QueryLocked(t)
    BY <1>1, <2>5, Zenon DEF Lock, EnsureFails, QueryLocked, world, ghosts
  <2>6. CASE EnableRefused(t) \/ EnableLocked(t) \/ EnableSpawn(t)
    BY <1>1, <2>6 DEF EnableRefused, EnableLocked, EnableSpawn, world, ghosts
  <2>. QED
    BY <1>4, <2>1, <2>2, <2>3, <2>4, <2>5, <2>6 DEF Section
<1>5. ASSUME NEW t \in Threads, Request(t) \/ Answer(t) \/ DbStep(t)
      PROVE  MapInv'
  <2>1. CASE Request(t)
    BY <1>1, <2>1, RequestsBegin, Zenon DEF Begins
  <2>2. CASE Answer(t) \/ DbStep(t)
    BY <1>1, <2>2 DEF Answer, DbStep, world, ghosts
  <2>. QED
    BY <1>5, <2>1, <2>2
<1>6. ASSUME NEW w \in Watchers, Watch(w)
      PROVE  MapInv'
  BY <1>1, <1>6, Zenon DEF Watch, LoopTop, ReadFails, Retry, ReadMessage, LogcatGoto, world, ghosts
<1>7. ASSUME NEW app \in Apps, NEW id \in AppIds \cup {0}, Move(app, id)
      PROVE  MapInv'
  <2>1. /\ installed' = [installed EXCEPT ![app] = id] /\ moved' = moved \cup {app}
        /\ UNCHANGED <<maps, raced>>
    BY <1>7 DEF Move, daemon
  <2>2. installed' \in Installations /\ \A p \in Apps \ {app} : installed'[p] = installed[p]
    BY <1>0, <2>1 DEF Installations
  <2>3. \A p \in Keys \ {app} : get_app_id(installed', p) = get_app_id(installed, p)
    BY <2>2 DEF get_app_id, Keys
  <2>4. \A p \in Keys \ {app} : Exact(maps, installed, p) => Exact(maps, installed', p)
    BY <2>3 DEF Exact
  <2>. QED
    BY <1>0, <2>1, <2>2, <2>4, Zenon DEF MapInv
<1>8. CASE Restart
  BY <1>0, <1>8 DEF Restart, world, MapInv, MapsType, NoMaps
<1>9. CASE UNCHANGED denyVars
  BY <1>1, <1>9 DEF denyVars, daemon, world, ghosts
<1>. QED
  BY <1>3, <1>4, <1>5, <1>6, <1>7, <1>8, <1>9 DEF Next, vars

\* Whatever the threads of the daemon do, one after the other, with however many apps:
\* is_deny_target looks a package up under the app ID it has, and only packages that
\* are listed, and no view outlives the key it points to.
THEOREM ViewsAreExact == Spec => []ViewsExact
<1>1. MapInv /\ JobInv => ViewsExact
  BY DEF MapInv, MapsType, JobInv, ViewsExact, TypeOK, ViewsOf, Exact
<1>. QED
  BY <1>1, MapInvInit, MapInvKept, JobInvKept, PTL DEF Spec

-----------------------------------------------------------------------------
(* The table denylist, and the commands that have still to write to it. *)

RowsIn(T, p) == {r[2] : r \in {q \in T : q[1] = p}}
Rows(p) == RowsIn(DenyTable, p)
Writes(t, p) == th[t].op \in {"add", "rm"} /\ th[t].pkg = p
Pending(t, p) == Writes(t, p) /\ th[t].pc = "db"

\* What the rows will be once the statement of t has run.
RowsAfter(t, p) ==
    IF th[t].op = "add" THEN Rows(p) \cup {th[t].proc}
    ELSE IF th[t].proc = "" THEN {} ELSE Rows(p) \ {th[t].proc}

LoadedInv ==
    /\ maps.loaded => conn = "open"
    /\ enforced => maps.loaded
    /\ ~ maps.loaded => \A t \in Threads : ~ (th[t].op \in {"add", "rm"} /\ th[t].pc = "db")

\* Commands on a package that is not blurred follow on each other.
WriterInv ==
    \A p \in Keys \ blurred, t, u \in Threads : Writes(t, p) /\ Writes(u, p) => t = u

Mirror(p) ==
    /\ \A t \in Threads : Pending(t, p) => RowsAfter(t, p) = ProcsOf(maps, p)
    /\ (\A t \in Threads : ~ Pending(t, p)) => Rows(p) = ProcsOf(maps, p)

MirrorInv == maps.loaded /\ ~ raced => \A p \in Keys \ blurred : Mirror(p)

-----------------------------------------------------------------------------
(* The setting, and the switches on their way. *)

Switching(t) == th[t].op \in Switches

BootedInv == booted => conn = "open"

FlagInv ==
    "enforce" \notin blurred =>
        /\ \A t, u \in Threads : Switching(t) /\ Switching(u) => t = u
        /\ \A t \in Threads :
              Switching(t) => (enforced <=> th[t].op = "enable" /\ th[t].pc \in {"spawn", "db"})
        /\ conn = "open" /\ (\A t \in Threads : ~ Switching(t)) =>
              /\ enforced => "denylist" \in Settings
              /\ booted /\ "denylist" \in Settings => enforced

Inv ==
    /\ DbInv /\ JobInv /\ MapInv /\ LoadedInv /\ WriterInv /\ MirrorInv
    /\ BootedInv /\ FlagInv /\ SomeoneWatches

-----------------------------------------------------------------------------
\* Outside of requests and of the end of the daemon, a thread goes on with its request
\* or is done with it.
GoesOn(u) ==
    \/ th'[u].op = "none" /\ th'[u].pc = "idle"
    \/ th'[u].op = th[u].op /\ th'[u].pkg = th[u].pkg /\ th'[u].proc = th[u].proc
AllGoOn == blurred \subseteq blurred' /\ \A u \in Threads : GoesOn(u)

\* A step lets every thread go on with its job, begins a job, or is a restart.
LEMMA StepKinds ==
    ASSUME JobInv, [Next]_vars
    PROVE  \/ AllGoOn
           \/ \E t \in Threads : \E j \in Jobs : Begins(t, j)
           \/ Restart
<1>1. ASSUME NEW t \in Threads, blurred \subseteq blurred',
             Return(t) \/ (\E pc \in {"locked", "spawn", "db"} : Goto(t, pc)) \/ UNCHANGED th
      PROVE  AllGoOn
  BY <1>1, Moves DEF AllGoOn, GoesOn
<1>2. ASSUME UNCHANGED <<th, blurred>>
      PROVE  AllGoOn
  BY <1>2 DEF AllGoOn, GoesOn
<1>3. ASSUME NEW gone, DeleteGone(gone)
      PROVE  blurred \subseteq blurred'
  BY <1>3 DEF DeleteGone
<1>4. ASSUME NEW t \in Threads, Section(t)
      PROVE  AllGoOn
  <2>1. CASE Lock(t) \/ EnableRefused(t) \/ EnableLocked(t) \/ AddLocked(t) \/ RmLocked(t)
    BY <1>1, <2>1 DEF Lock, EnableRefused, EnableLocked, AddLocked, RmLocked, ghosts
  <2>2. CASE EnsureData(t) \/ LsLocked(t)
    BY <1>1, <1>3, <2>2 DEF EnsureData, LsLocked
  <2>3. CASE EnsureFails(t)
    BY <1>1, <2>3 DEF EnsureFails
  <2>4. CASE EnableSpawn(t)
    BY <1>1, <2>4 DEF EnableSpawn
  <2>5. CASE QueryLocked(t)
    <3>1. PICK yes : th' = [th EXCEPT ![t].answer = yes, ![t].pc = "answer"]
      BY <2>5, Zenon DEF QueryLocked
    <3>2. \A u \in Threads : th'[u].op = th[u].op /\ th'[u].pkg = th[u].pkg /\ th'[u].proc = th[u].proc
      BY <3>1 DEF JobInv, Jobs
    <3>. QED
      BY <2>5, <3>2, Zenon DEF QueryLocked, AllGoOn, GoesOn, ghosts
  <2>. QED
    BY <1>4, <2>1, <2>2, <2>3, <2>4, <2>5 DEF Section
<1>5. ASSUME NEW t \in Threads, Answer(t) \/ ScanDone(t) \/ DbStep(t)
      PROVE  AllGoOn
  <2>1. CASE Answer(t)
    BY <1>1, <2>1 DEF Answer, ghosts
  <2>2. CASE ScanDone(t)
    BY <1>1, <1>3, <2>2 DEF ScanDone
  <2>3. CASE DbStep(t)
    BY <1>1, <2>3 DEF DbStep
  <2>. QED
    BY <1>5, <2>1, <2>2, <2>3
<1>6. ASSUME NEW w \in Watchers, Watch(w)
      PROVE  AllGoOn
  BY <1>2, <1>6 DEF Watch, LoopTop, ReadFails, Retry, ReadMessage, LogcatGoto, ghosts
<1>7. ASSUME NEW app \in Apps, NEW id \in AppIds \cup {0}, Move(app, id)
      PROVE  AllGoOn
  BY <1>2, <1>7 DEF Move, daemon
<1>8. UNCHANGED denyVars => AllGoOn
  BY <1>2 DEF denyVars, daemon, ghosts
<1>9. ASSUME NEW t \in Threads, Request(t)
      PROVE  \E j \in Jobs : Begins(t, j)
  BY <1>9, RequestsBegin
<1>. QED
  BY <1>4, <1>5, <1>6, <1>7, <1>8, <1>9 DEF Next, vars

\* At most one thread writes for one package that is not blurred, after every step.
LEMMA WriterInvKept == WriterInv /\ JobInv /\ [Next]_vars => WriterInv'
<1>. SUFFICES ASSUME WriterInv, JobInv, [Next]_vars
              PROVE  WriterInv'
  OBVIOUS
<1>1. CASE AllGoOn
  <2>1. ASSUME NEW p, NEW u \in Threads, Writes(u, p)' PROVE Writes(u, p)
    BY <1>1, <2>1 DEF AllGoOn, GoesOn, Writes
  <2>. QED
    BY <1>1, <2>1 DEF AllGoOn, WriterInv
<1>2. ASSUME NEW t \in Threads, NEW j \in Jobs, Begins(t, j)
      PROVE  WriterInv'
  <2>1. th'[t] = j /\ (\A u \in Threads \ {t} : th'[u] = th[u]) /\ blurred \subseteq blurred'
    BY <1>2, Moves, Zenon DEF Begins
  <2>2. ASSUME NEW p \in Keys, p \notin blurred', j.op \in {"add", "rm"}, j.pkg = p,
               NEW u \in Threads, Writes(u, p)
        PROVE  FALSE
    <3>1. ~ Busy(p)
      BY <1>2, <2>2 DEF Begins
    <3>. QED
      BY <2>2, <3>1 DEF Busy, Writes, Subject, Switches, JobInv
  <2>. QED
    BY <2>1, <2>2 DEF WriterInv, Writes
<1>3. CASE Restart
  BY <1>3 DEF Restart, WriterInv, Writes, Idle
<1>. QED
  BY <1>1, <1>2, <1>3, StepKinds

\* The maps stay once they are loaded, and so does the connection.
LEMMA LoadedStays ==
    ASSUME MapInv, JobInv, [Next]_vars
    PROVE  /\ maps.loaded => maps'.loaded \/ Restart
           /\ maps'.loaded => maps.loaded \/ conn = "open"
           /\ conn = "open" => conn' = "open" \/ Restart
<1>0. installed \in Installations /\ MapsType(maps)
  BY DEF MapInv
<1>1. conn = "open" => conn' = "open" \/ Restart
  BY DbSteps DEF DbStepKind, dbVars, DbOpen, LoadSqlite, OpenDb, RunStatement, Opened, StatementFails, DbError, DbExec
<1>. DEFINE Stays == (maps.loaded <=> maps'.loaded)
<1>2. ASSUME NEW t \in Threads, LsLocked(t) \/ ScanDone(t)
      PROVE  Stays
  <2>1. maps' = scan_deny_apps(maps, installed)
    BY <1>2 DEF LsLocked, ScanDone
  <2>2. CASE maps.loaded
    BY <1>0, <2>1, <2>2, RescanAll, Zenon DEF MapsType
  <2>3. CASE ~ maps.loaded
    BY <2>1, <2>3 DEF scan_deny_apps
  <2>. QED
    BY <2>2, <2>3
<1>3. ASSUME NEW t \in Threads, AddLocked(t)
      PROVE  Stays
  <2>1. CASE maps' = maps
    BY <2>1
  <2>2. CASE maps' # maps
    <3>1. /\ get_app_id(installed, th[t].pkg) # 0 /\ maps' \in AddEntry(maps, installed, th[t].pkg, th[t].proc)
          /\ maps.loaded
      BY <1>3, <2>2 DEF AddLocked, InSection
    <3>. QED
      BY <1>0, <3>1, AddOne
  <2>. QED
    BY <2>1, <2>2
<1>4. ASSUME NEW t \in Threads, RmLocked(t)
      PROVE  Stays
  <2>1. CASE maps' = maps
    BY <2>1
  <2>2. CASE maps' # maps
    <3>1. /\ th[t].pkg \in DOMAIN maps.procs /\ maps' = RemoveEntry(maps, installed, th[t].pkg, th[t].proc)
          /\ maps.loaded
      BY <1>4, <2>2 DEF RmLocked, InSection
    <3>2. RemoveEffect(maps, maps', installed, th[t].pkg, th[t].proc)
      BY <1>0, <3>1, RemoveOne
    <3>. QED
      BY <3>1, <3>2 DEF RemoveEffect
  <2>. QED
    BY <2>1, <2>2
<1>5. ASSUME NEW t \in Threads, Section(t)
      PROVE  Stays \/ (~ maps.loaded /\ conn = "open")
  <2>1. CASE EnsureData(t)
    BY <2>1 DEF EnsureData
  <2>2. CASE LsLocked(t)
    BY <1>2, <2>2
  <2>3. CASE Lock(t) \/ EnsureFails(t) \/ QueryLocked(t) \/ EnableRefused(t) \/ EnableLocked(t) \/ EnableSpawn(t)
    BY <2>3 DEF Lock, EnsureFails, QueryLocked, EnableRefused, EnableLocked, EnableSpawn
  <2>. QED
    BY <1>3, <1>4, <1>5, <2>1, <2>2, <2>3 DEF Section
<1>6. ASSUME NEW t \in Threads, Request(t) \/ Answer(t) \/ ScanDone(t) \/ DbStep(t)
      PROVE  Stays
  <2>1. CASE Request(t)
    BY <2>1, RequestsBegin, Zenon DEF Begins
  <2>2. CASE ScanDone(t)
    BY <1>2, <2>2
  <2>3. CASE Answer(t) \/ DbStep(t)
    BY <2>3 DEF Answer, DbStep
  <2>. QED
    BY <1>6, <2>1, <2>2, <2>3
<1>7. ASSUME NEW w \in Watchers, Watch(w)
      PROVE  Stays
  BY <1>7 DEF Watch, LoopTop, ReadFails, Retry, ReadMessage, LogcatGoto
<1>8. ASSUME NEW app \in Apps, NEW id \in AppIds \cup {0}, Move(app, id)
      PROVE  Stays
  BY <1>8 DEF Move, daemon
<1>9. UNCHANGED denyVars => Stays
  BY DEF denyVars, daemon
<1>10. Restart => ~ maps'.loaded
  BY DEF Restart, NoMaps
<1>. QED
  BY <1>1, <1>5, <1>6, <1>7, <1>8, <1>9, <1>10 DEF Next, vars

\* Only add_list and rm_list, with the maps there, leave a command at its statement.
LEMMA LoadedInvKept == LoadedInv /\ MapInv /\ JobInv /\ [Next]_vars => LoadedInv'
<1>. SUFFICES ASSUME LoadedInv, MapInv, JobInv, [Next]_vars
              PROVE  LoadedInv'
  OBVIOUS
<1>1. CASE Restart
  BY <1>1 DEF Restart, LoadedInv, NoMaps, Idle
<1>. SUFFICES ASSUME ~ Restart
              PROVE  LoadedInv'
  BY <1>1
<1>2. /\ maps.loaded => maps'.loaded
      /\ maps'.loaded => conn' = "open"
  BY LoadedStays DEF LoadedInv
<1>3. enforced' => enforced \/ maps.loaded
  <2>1. ASSUME NEW t \in Threads, Section(t)
        PROVE  enforced' => enforced \/ maps.loaded
    BY <2>1 DEF Section, Lock, EnsureData, EnsureFails, AddLocked, RmLocked, LsLocked, QueryLocked, EnableRefused,
      EnableLocked, InSection, EnableSpawn
  <2>2. ASSUME NEW t \in Threads, Request(t)
        PROVE  enforced' => enforced
    BY <2>2, RequestsBegin, Zenon DEF Begins
  <2>3. ASSUME NEW t \in Threads, Answer(t) \/ ScanDone(t) \/ DbStep(t)
        PROVE  enforced' => enforced
    BY <2>3, Zenon DEF Answer, ScanDone, DbStep
  <2>4. ASSUME NEW w \in Watchers, Watch(w)
        PROVE  enforced' => enforced
    BY <2>4, Zenon DEF Watch, LoopTop, ReadFails, Retry, ReadMessage, LogcatGoto
  <2>5. ASSUME NEW app \in Apps, NEW id \in AppIds \cup {0}, Move(app, id)
        PROVE  enforced' => enforced
    BY <2>5 DEF Move, daemon
  <2>6. UNCHANGED denyVars => (enforced' => enforced)
    BY DEF denyVars, daemon
  <2>. QED
    BY <2>1, <2>2, <2>3, <2>4, <2>5, <2>6 DEF Next, vars
<1>4. ASSUME NEW u \in Threads, th'[u].op \in {"add", "rm"}, th'[u].pc = "db", ~ maps.loaded
      PROVE  th[u].op \in {"add", "rm"} /\ th[u].pc = "db"
  <2>1. ASSUME NEW t \in Threads, Section(t)
        PROVE  th[u].op \in {"add", "rm"} /\ th[u].pc = "db"
    <3>1. CASE Lock(t) \/ EnsureData(t) \/ EnsureFails(t)
      BY <1>4, <3>1, Moves DEF Lock, EnsureData, EnsureFails
    <3>2. CASE EnableRefused(t) \/ EnableSpawn(t)
      BY <1>4, <3>2, Moves DEF EnableRefused, EnableSpawn, At
    <3>. QED
      BY <1>4, <2>1, <3>1, <3>2 DEF Section, AddLocked, RmLocked, LsLocked, QueryLocked, EnableLocked, InSection
  <2>2. ASSUME NEW t \in Threads, Request(t)
        PROVE  th[u].op \in {"add", "rm"} /\ th[u].pc = "db"
    <3>1. PICK j \in Jobs : Begins(t, j)
      BY <2>2, RequestsBegin
    <3>2. th'[t] = j /\ \A v \in Threads \ {t} : th'[v] = th[v]
      BY <3>1, Moves, Zenon DEF Begins
    <3>. QED
      BY <1>4, <3>1, <3>2 DEF Begins
  <2>3. ASSUME NEW t \in Threads, Answer(t) \/ ScanDone(t) \/ DbStep(t)
        PROVE  th[u].op \in {"add", "rm"} /\ th[u].pc = "db"
    BY <1>4, <2>3, Moves DEF Answer, ScanDone, DbStep
  <2>4. ASSUME NEW w \in Watchers, Watch(w)
        PROVE  UNCHANGED th
    BY <2>4 DEF Watch, LoopTop, ReadFails, Retry, ReadMessage, LogcatGoto
  <2>5. ASSUME NEW app \in Apps, NEW id \in AppIds \cup {0}, Move(app, id)
        PROVE  UNCHANGED th
    BY <2>5 DEF Move, daemon
  <2>6. UNCHANGED denyVars => UNCHANGED th
    BY DEF denyVars, daemon
  <2>. QED
    BY <1>4, <2>1, <2>2, <2>3, <2>4, <2>5, <2>6 DEF Next, vars
<1>5. ASSUME ~ maps'.loaded, NEW u \in Threads
      PROVE  ~ (th'[u].op \in {"add", "rm"} /\ th'[u].pc = "db")
  BY <1>2, <1>4, <1>5 DEF LoadedInv
<1>6. enforced' => maps'.loaded
  BY <1>2, <1>3 DEF LoadedInv
<1>. QED
  BY <1>2, <1>5, <1>6 DEF LoadedInv
=============================================================================
