------------------------------ MODULE DenyMaps ------------------------------
(***************************************************************************)
(* The data structures of core/deny/utils.cpp and what its functions do to *)
(* them.  procs is pkg_to_procs.  views is app_id_to_pkgs, as pairs of an  *)
(* app ID and a package name; a pair whose string_view no longer points    *)
(* into a key of pkg_to_procs is also in stale.                            *)
(***************************************************************************)
EXTENDS Integers, Functions

CONSTANTS Apps,          \* package names of apps
          AppIds,        \* app IDs the system gives to them
          DottedNames,   \* names that pass as a package: legal, with a '.'
          LegalNames,    \* names of legal characters only
          LegalHeads,    \* names whose part before ':' is legal
          StartsWith     \* pairs of names, the second a prefix of the first

ISOLATED_MAGIC == "isolated"
WEBVIEW_ZYGOTE_MAGIC == "webview_zygote"
WEBVIEW_ZYGOTE_UID == 1053
FirstIsolatedId == 90000

ASSUME DenyAssumption ==
    /\ {ISOLATED_MAGIC, WEBVIEW_ZYGOTE_MAGIC} \cap Apps = {}
    /\ \A id \in AppIds : id \in Nat /\ 10000 <= id /\ id < FirstIsolatedId

Keys == Apps \cup {ISOLATED_MAGIC, WEBVIEW_ZYGOTE_MAGIC}
Ids == AppIds \cup {WEBVIEW_ZYGOTE_UID}

NoMaps == [procs |-> [p \in {} |-> {}], views |-> {}, stale |-> {}, loaded |-> FALSE]
ProcsOf(M, p) == IF p \in DOMAIN M.procs THEN M.procs[p] ELSE {}
PutProcs(f, p, S) == [q \in DOMAIN f \cup {p} |-> IF q = p THEN S ELSE f[q]]

\* The app ID that the data directory of a package has; 0 when there is none.
get_app_id(inst, pkg) ==
    CASE pkg = ISOLATED_MAGIC -> -1
      [] pkg = WEBVIEW_ZYGOTE_MAGIC -> WEBVIEW_ZYGOTE_UID
      [] pkg \in Apps -> inst[pkg]
      [] OTHER -> 0

\* The pairs that update_app_id adds or removes.
update_app_id(app_id, pkg) == IF app_id <= 0 THEN {} ELSE {<<app_id, pkg>>}

validate(pkg, proc) ==
    CASE pkg = ISOLATED_MAGIC -> proc \in LegalHeads
      [] pkg = WEBVIEW_ZYGOTE_MAGIC -> proc = WEBVIEW_ZYGOTE_MAGIC
      [] OTHER -> pkg \in DottedNames /\ proc \in LegalNames

\* The key of a package goes, and what still points to it is stale.
EraseKey(M, pkg) ==
    [procs |-> Restrict(M.procs, DOMAIN M.procs \ {pkg}), views |-> M.views,
     stale |-> M.stale \cup {v \in M.views : v[2] = pkg}, loaded |-> M.loaded]

AddViews(M, vs) == [M EXCEPT !.views = @ \cup vs]
RemoveViews(M, vs) ==
    [procs |-> M.procs, views |-> M.views \ vs, stale |-> M.stale \ vs, loaded |-> M.loaded]

-----------------------------------------------------------------------------
\* scan_deny_apps: packages that are gone leave the list, and the database.
Gone(M, inst) == {p \in DOMAIN M.procs : get_app_id(inst, p) = 0}

Rescan(M, inst) ==
    LET kept == Restrict(M.procs, DOMAIN M.procs \ Gone(M, inst))
    IN  [M EXCEPT !.procs = kept,
                  !.views = UNION {update_app_id(get_app_id(inst, p), p) : p \in DOMAIN kept},
                  !.stale = {}]

scan_deny_apps(M, inst) == IF M.loaded THEN Rescan(M, inst) ELSE M

\* The rows that ensure_data reads.
FromRows(rows) ==
    [procs |-> [p \in {r[1] : r \in rows} |-> {r[2] : r \in {q \in rows : q[1] = p}}],
     views |-> {}, stale |-> {}, loaded |-> TRUE]

\* The locked part of add_list, for an entry that is not there yet.  The emplace of
\* update_app_id compares with stale views: whether an equal one keeps the new one
\* out is up to the freed memory.
AddEntry(M, inst, pkg, proc) ==
    LET put == [M EXCEPT !.procs = PutProcs(@, pkg, ProcsOf(M, pkg) \cup {proc})]
        vs == update_app_id(get_app_id(inst, pkg), pkg)
    IN  {AddViews(put, vs)}
        \cup (IF vs \subseteq M.stale THEN {[AddViews(put, vs) EXCEPT !.stale = @ \ vs]} ELSE {})

\* The locked part of rm_list: one process, or the package when proc is empty.  The
\* app ID is looked up anew.
RemoveEntry_KeepsViews(M, inst, pkg, proc) ==
    IF proc = "" \/ M.procs[pkg] = {proc}
    THEN EraseKey(M, pkg)
    ELSE [M EXCEPT !.procs[pkg] = @ \ {proc}]

RemoveEntry(M, inst, pkg, proc) ==
    IF proc = "" \/ M.procs[pkg] = {proc}
    THEN EraseKey(RemoveViews(M, update_app_id(get_app_id(inst, pkg), pkg)), pkg)
    ELSE [M EXCEPT !.procs[pkg] = @ \ {proc}]

\* is_deny_target; a stale view sends it to whatever the freed memory says.
is_deny_target(M, app_id, process) ==
    LET seen == {v \in M.views : v[1] = app_id}
        hit == IF app_id >= FirstIsolatedId
               THEN \E s \in ProcsOf(M, ISOLATED_MAGIC) : <<process, s>> \in StartsWith
               ELSE \E v \in seen \ M.stale : process \in M.procs[v[2]]
    IN  {hit} \cup (IF seen \cap M.stale = {} THEN {} ELSE BOOLEAN)
=============================================================================
