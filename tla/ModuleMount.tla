---------------------------- MODULE ModuleMount ----------------------------
(***************************************************************************)
(* Mounting of modules over the read-only partitions (core/module.rs,      *)
(* apply_modules and FsNode).  The files of all modules and Magisk's own   *)
(* are collected in one tree, which is then laid over what is really       *)
(* there: a file over a file by a bind mount, anything else by rebuilding  *)
(* its directory in a tmpfs.                                               *)
(*                                                                         *)
(* A tree, and the visible file system, is a function from paths           *)
(* (sequences of names) to nodes.  Owners, modes and contexts are left     *)
(* out.                                                                    *)
(***************************************************************************)
EXTENDS Naturals, FiniteSets, Sequences, SequencesExt, TLC

CONSTANTS
    NameOrder,      \* all names, in the order of a BTreeMap
    Devices,        \* file systems to start from
    Modules,        \* what a module may have: [tree, skip_mount]
    Environments,   \* records of the Booleans of env
    PathEnv,        \* PATH, without what inject_magisk_bins never considers
    ModuleNames,    \* as many as there are modules at most
    MaxFailed       \* bound on steps that fail

VARIABLES
    real,       \* the file system before
    env,        \* is_emulator, whether /sbin is used, zygisk and magisk32
    mods,       \* module_list
    phase,      \* "collect", "inject", "zygisk", "extract", "commit" or "done"
    next,       \* the next module
    system,     \* the tree
    roots,      \* its partitions still to be committed
    view,       \* the file system as it looks now
    failed      \* what failed

vars == <<real, env, mods, phase, next, system, roots, view, failed>>

Dir == [t |-> "dir"]
File(by, at) == [t |-> "file", by |-> by, at |-> at]
Symlink(to) == [t |-> "link", to |-> to]
MagiskLink == [t |-> "magisk"]
Whiteout == [t |-> "whiteout"]

Partitions == {"vendor", "product", "system_ext"}   \* SECONDARY_READ_ONLY_PARTITIONS
REPLACE == ".replace"

-----------------------------------------------------------------------------
(* Trees. *)

Above(p) == {SubSeq(p, 1, n) : n \in 0 .. Len(p) - 1}
Below(tree, p) == {q \in DOMAIN tree : IsStrictPrefix(p, q)}
Names(tree, p) == {q[Len(p) + 1] : q \in Below(tree, p)}
Sorted(names) == SelectSeq(NameOrder, LAMBDA n : n \in names)

Keep(tree, ps) == [p \in DOMAIN tree \cap ps |-> tree[p]]
Without(tree, p) == Keep(tree, DOMAIN tree \ ({p} \cup Below(tree, p)))
Merge(trees) ==
    [p \in UNION {DOMAIN f : f \in trees} |-> (CHOOSE f \in trees : p \in DOMAIN f)[p]]

\* The subtree at p, moved to q.
Moved(tree, p, q) ==
    [x \in {q \o SubSeq(y, Len(p) + 1, Len(y)) : y \in Below(tree, p)} |->
        tree[p \o SubSeq(x, Len(q) + 1, Len(x))]]

\* A path with its links followed; all but the last of them, as lstat does.
RECURSIVE follow_link(_, _)
follow_link(fs, p) ==
    LET links == {n \in 1 .. Len(p) : LET q == SubSeq(p, 1, n) IN q \in DOMAIN fs /\ fs[q].t = "link"}
        n == CHOOSE n \in links : \A m \in links : n <= m
    IN  IF links = {} THEN p ELSE follow_link(fs, fs[SubSeq(p, 1, n)].to \o SubSeq(p, n + 1, Len(p)))

lstat(fs, p) == follow_link(fs, Front(p)) \o <<Last(p)>>
exists(fs, p) == lstat(fs, p) \in DOMAIN fs
IsDirectory(fs, p) == LET q == follow_link(fs, p) IN q \in DOMAIN fs /\ fs[q].t = "dir"

-----------------------------------------------------------------------------
(* Step 1: the union of all modules' trees. *)

Init ==
    /\ real \in Devices /\ view = real
    /\ env \in Environments
    /\ \E n \in 0 .. Len(ModuleNames) : mods \in [1 .. n -> Modules]
    /\ phase = "collect" /\ next = 1
    /\ system = (<<>> :> Dir) /\ roots = <<>> /\ failed = {}

NodeOf(i, k) ==
    LET node == mods[i].tree[k] IN IF node.t = "file" THEN File(ModuleNames[i], k) ELSE node

\* What is in the tree stays; below what is not a directory there nothing is added.
collect(tree, i, keys) ==
    tree @@ [k \in {k \in keys : \A q \in Above(k) \cap DOMAIN tree : tree[q].t = "dir"} |-> NodeOf(i, k)]

\* An error ends the collection of this module wherever it is.
CollectModule ==
    /\ phase = "collect"
    /\ IF next > Len(mods)
       THEN phase' = "inject" /\ UNCHANGED <<next, system, failed>>
       ELSE /\ next' = next + 1
            /\ LET all == DOMAIN mods[next].tree IN
               \/ mods[next].skip_mount /\ UNCHANGED <<system, failed>>
               \/ ~ mods[next].skip_mount /\ system' = collect(system, next, all) /\ UNCHANGED failed
               \/ /\ ~ mods[next].skip_mount /\ Cardinality(failed) < MaxFailed
                  /\ failed' = failed \cup {<<"collect", <<>>>>}
                  /\ \E some \in SUBSET all :
                         /\ some # all /\ \A k \in some : Above(k) \ {<<>>} \subseteq some
                         /\ system' = collect(system, next, some)
            /\ UNCHANGED phase
    /\ UNCHANGED <<real, env, mods, roots, view>>

-----------------------------------------------------------------------------
(* Step 2: Magisk's own files. *)

insert(tree, k, node) == (k :> node) @@ Without(tree, k)
or_insert_dirs(tree, k) == tree @@ [q \in Above(k) \cup {k} |-> Dir]
Reaches(tree, k) == \A q \in (Above(k) \cup {k}) \cap DOMAIN tree : tree[q].t = "dir"

Applets == {"su", "resetprop", "supolicy"}
Binaries == {"magisk", "magiskpolicy"}
inject(tree, k) ==
    LET dirs == or_insert_dirs(tree, k)
        own == [q \in {Append(k, n) : n \in Applets \cup Binaries} |->
                   IF Last(q) \in Binaries THEN File("magisk", <<Last(q)>>) ELSE MagiskLink]
    IN  own @@ Keep(dirs, {q \in DOMAIN dirs : \A o \in DOMAIN own : ~ IsPrefix(o, q)})

strip_system_prefix_Not(item) == item
strip_system_prefix(item) == IF item[1] = "system" THEN Tail(item) ELSE item

\* PATH up to the first directory that has a su; an emulator keeps the one in xbin.
Items ==
    LET items == SelectSeq(PathEnv, LAMBDA d : ~ (env.emulator /\ d = <<"system", "xbin">>))
        su == {i \in DOMAIN items : exists(view, Append(items[i], "su"))}
    IN  IF su = {} THEN items ELSE SubSeq(items, 1, CHOOSE i \in su : \A j \in su : i <= j)

count(d) ==
    IF exists(view, Append(d, "su")) THEN 0
    ELSE LET q == follow_link(view, d)
         IN  Cardinality({x \in Below(view, q) : view[x].t = "file"})

\* The candidate with the fewest files that the tree has no other node in the way of,
\* or bin.
inject_magisk_bins ==
    LET ok == {i \in DOMAIN Items :
                  /\ IsDirectory(view, Items[i])
                  /\ Reaches(system, strip_system_prefix(Items[i]))}
        first == CHOOSE i \in ok : \A j \in ok :
                     \/ count(Items[i]) < count(Items[j])
                     \/ count(Items[i]) = count(Items[j]) /\ i <= j
    IN  IF ok # {} THEN inject(system, strip_system_prefix(Items[first]))
        ELSE IF Reaches(system, <<"bin">>) THEN inject(system, <<"bin">>) ELSE system

Inject ==
    /\ phase = "inject" /\ phase' = "zygisk"
    /\ system' = IF env.sbin THEN system ELSE inject_magisk_bins
    /\ UNCHANGED <<real, env, mods, next, roots, view, failed>>

\* The loader in lib and lib64, for the linkers there are.
ZygiskLib(tree, lib, present) ==
    LET dirs == or_insert_dirs(tree, <<lib>>)
    IN  IF Reaches(tree, <<lib>>) /\ present
        THEN insert(dirs, <<lib, "libzygisk">>, File("magisk", <<lib>>)) ELSE dirs

inject_zygisk_bins(tree) ==
    LET t32 == IF exists(view, <<"system", "bin", "linker">>)
               THEN ZygiskLib(tree, "lib", env.magisk32) ELSE tree
    IN  IF exists(view, <<"system", "bin", "linker64">>) THEN ZygiskLib(t32, "lib64", TRUE) ELSE t32

InjectZygisk ==
    /\ phase = "zygisk" /\ phase' = "extract"
    /\ system' = IF env.zygisk THEN inject_zygisk_bins(system) ELSE system
    /\ UNCHANGED <<real, env, mods, next, roots, view, failed>>

-----------------------------------------------------------------------------
(* Step 3: partitions that are directories of their own. *)

Own(part) == <<part>> \in DOMAIN view /\ view[<<part>>].t = "dir" /\ <<part>> \in DOMAIN system
ExtractRoots ==
    /\ phase = "extract" /\ phase' = "commit"
    /\ roots' = [r \in {p \in Partitions : Own(p)} |->
                    (<<>> :> system[<<r>>]) @@ Moved(system, <<r>>, <<>>)]
                @@ ("system" :> Keep(system, {k \in DOMAIN system :
                                                 \A p \in Partitions : Own(p) => ~ IsPrefix(<<p>>, k)}))
    /\ UNCHANGED <<real, env, mods, next, system, view, failed>>

-----------------------------------------------------------------------------
(* Step 4: the tree over what is really there.  fault is one mount, one new node *)
(* or the reading of one directory that fails, or NoFault.  Of these only a new  *)
(* node that fails is an error.                                                  *)

NoFault == <<"none", <<>>>>

parent_should_be_tmpfs_NoLink(fs, node, p) == node.t \in {"dir", "file"} => ~ exists(fs, p)
parent_should_be_tmpfs(fs, node, p) ==
    node.t \in {"dir", "file"} => ~ exists(fs, p) \/ fs[lstat(fs, p)].t = "link"

\* What a bind mount over what mount_dummy made shows, or what it leaves if it fails.
mount_dummy(p, shown, fault) ==
    IF fault = <<"bind", p>> THEN p :> (IF shown[p].t = "dir" THEN Dir ELSE File("none", <<>>)) ELSE shown

\* The directory of the module that has the .replace, as it is; nothing if it has none.
ReplaceDir(by, k, p) ==
    LET i == CHOOSE i \in DOMAIN mods : ModuleNames[i] = by
        files == [q \in DOMAIN mods[i].tree |-> NodeOf(i, q)]
    IN  IF k \in DOMAIN files /\ files[k].t = "dir" THEN (p :> Dir) @@ Moved(files, k, p) ELSE p :> Dir

\* The entries of the real directory that are kept.
mirrored_FilesOnly(fs, p, names) ==
    LET at == follow_link(fs, p)
    IN  IF IsDirectory(fs, p) THEN {n \in Names(fs, at) \ names : fs[Append(at, n)].t # "dir"} ELSE {}
mirrored(fs, p, names) == IF IsDirectory(fs, p) THEN Names(fs, follow_link(fs, p)) \ names ELSE {}

\* What commit_tmpfs builds for the node at k of tree, which goes to p.  key is k as
\* modules know it.
RECURSIVE commit_tmpfs(_, _, _, _, _, _)
commit_tmpfs(fs, tree, k, p, key, fault) ==
    LET node == tree[k]
        names == Names(tree, k) \ {REPLACE}
        replace == Append(k, REPLACE) \in DOMAIN tree /\ tree[Append(k, REPLACE)].t = "file"
        at == follow_link(fs, p)
        Mirror(n) ==
            LET from == Append(at, n)
                to == Append(p, n)
                copy == (to :> fs[from]) @@ Moved(fs, from, to)
                seen == {q \in DOMAIN copy : ~ \E d \in Above(q) : fault = <<"read", d>>}
            IN  [q \in seen |-> IF copy[q].t = "file" THEN mount_dummy(q, q :> copy[q], fault)[q] ELSE copy[q]]
        Child(n) ==
            IF replace /\ tree[Append(k, n)].t = "dir"
            THEN mount_dummy(Append(p, n), ReplaceDir(tree[Append(k, REPLACE)].by, Append(key, n),
                                                      Append(p, n)), fault)
            ELSE commit_tmpfs(fs, tree, Append(k, n), Append(p, n), Append(key, n), fault)
    IN  CASE node.t = "file" -> mount_dummy(p, p :> node, fault)
          [] node.t = "link" -> p :> node
          [] node.t = "magisk" ->
                 p :> Symlink(<<IF Last(p) = "supolicy" THEN "./magiskpolicy" ELSE "./magisk">>)
          [] node.t = "whiteout" -> <<>>
          [] node.t = "dir" ->
                 Merge({p :> Dir} \cup {Child(n) : n \in names}
                       \cup IF replace THEN {} ELSE {Mirror(n) : n \in mirrored(fs, p, names)})

\* A mount over p: over a directory only a directory, over a file only a file.
bind_mount(r, p, shown, fault) ==
    IF /\ fault # <<"bind", p>> /\ p \in DOMAIN r.view
       /\ (r.view[p].t = "dir") = (shown[p].t = "dir")
    THEN [r EXCEPT !.view = shown @@ Without(r.view, p)] ELSE r

\* The first error ends it all; a worker directory that is not complete is not mounted.
RECURSIVE commit(_, _, _, _, _, _, _)
commit(r, tree, k, p, key, is_root_dir, fault) ==
    LET node == tree[k]
        names == Names(tree, k)
        Tmpfs(n) == n = REPLACE \/ parent_should_be_tmpfs(r.view, tree[Append(k, n)], Append(p, n))
        built == commit_tmpfs(r.view, tree, k, p, key, fault)
        kept == IF is_root_dir THEN {n \in names : ~ Tmpfs(n)} ELSE names
    IN  CASE ~ r.ok \/ node.t \notin {"dir", "file"} -> r
          [] r.ok /\ node.t = "file" -> bind_mount(r, p, p :> node, fault)
          [] r.ok /\ node.t = "dir" ->
                 IF ~ is_root_dir /\ \E n \in names : Tmpfs(n)
                 THEN IF fault[1] = "create" /\ fault[2] \in DOMAIN built THEN [r EXCEPT !.ok = FALSE]
                      ELSE bind_mount(r, p, built, fault)
                 ELSE FoldLeft(LAMBDA acc, n : commit(acc, tree, Append(k, n), Append(p, n),
                                                      Append(key, n), FALSE, fault),
                               r, Sorted(kept))

RootOrder == <<"product", "system", "system_ext", "vendor">>
CommitRoot ==
    /\ phase = "commit"
    /\ LET left == SelectSeq(RootOrder, LAMBDA r : r \in DOMAIN roots)
           dir == left[1]
           After(fault) == commit([view |-> view, ok |-> TRUE], roots[dir], <<>>, <<dir>>,
                                  IF dir = "system" THEN <<>> ELSE <<dir>>, TRUE, fault)
       IN  /\ \/ view' = After(NoFault).view /\ UNCHANGED failed
              \/ /\ Cardinality(failed) < MaxFailed
                 /\ \E fault \in {"create", "bind", "read"} \X
                                  ({q \in DOMAIN After(NoFault).view : q[1] = dir} \ {<<dir>>}) :
                        failed' = failed \cup {fault} /\ view' = After(fault).view
           /\ roots' = [r \in DOMAIN roots \ {dir} |-> roots[r]]
           /\ phase' = IF Len(left) = 1 THEN "done" ELSE "commit"
    /\ UNCHANGED <<real, env, mods, next, system>>

Next == CollectModule \/ Inject \/ InjectZygisk \/ ExtractRoots \/ CommitRoot

Spec == Init /\ [][Next]_vars /\ WF_vars(Next)

-----------------------------------------------------------------------------
(* What the file system should look like, path by path. *)

Absent == [t |-> "absent"]
At(fs, p) == IF p \in DOMAIN fs THEN fs[p] ELSE Absent

\* Where a key of the tree is mounted, and the key of a path.
Separate(name) == name \in Partitions /\ At(real, <<name>>).t = "dir"
PathOf(k) == IF k # <<>> /\ Separate(k[1]) THEN k ELSE <<"system">> \o k
IsRoot(k) == k = <<>> \/ (Len(k) = 1 /\ Separate(k[1]))
KeyOf(p) == IF Separate(p[1]) THEN p ELSE Tail(p)

\* The first module that has a key says what it is, if it is a directory for all that
\* have something below.
Providers(k) == {i \in DOMAIN mods : ~ mods[i].skip_mount /\ k \in DOMAIN mods[i].tree}
Said(k) == NodeOf(CHOOSE i \in Providers(k) : \A j \in Providers(k) : i <= j, k)
Union ==
    (<<>> :> Dir) @@
    [k \in {k \in UNION {DOMAIN mods[i].tree : i \in DOMAIN mods} :
               Providers(k) # {} /\ \A q \in Above(k) \ {<<>>} : Said(q).t = "dir"} |-> Said(k)]

\* The directories above k that a module replaces; partitions cannot be.
Replaced(k) == {d \in Above(k) : ~ IsRoot(d) /\ Append(d, REPLACE) \in DOMAIN system}

\* Nothing can be added to, or removed from, the top of a partition, or put over it.
Unsupported(k) ==
    \E a \in (Above(k) \cup {k}) \cap DOMAIN system :
        \/ IsRoot(a) /\ system[a].t # "dir"
        \/ /\ ~ IsRoot(a) /\ IsRoot(Front(a))
           /\ Last(a) = REPLACE \/ parent_should_be_tmpfs(real, system[a], PathOf(a))

\* A directory where there is a file, or the other way round.
Clashes(k) ==
    \E a \in (Above(k) \cup {k}) \cap DOMAIN system :
        /\ system[a].t \in {"dir", "file"} /\ exists(real, PathOf(a))
        /\ real[lstat(real, PathOf(a))].t \in {"dir", "file"} \ {system[a].t}

Shown(node, name) ==
    CASE node.t = "magisk" -> Symlink(<<IF name = "supolicy" THEN "./magiskpolicy" ELSE "./magisk">>)
      [] node.t = "whiteout" -> Absent
      [] OTHER -> node

Longest(ps) == CHOOSE p \in ps : \A q \in ps : Len(q) <= Len(p)
Shortest(ps) == CHOOSE p \in ps : \A q \in ps : Len(q) >= Len(p)

Expected(k) ==
    LET a == Longest({q \in Above(k) : IsRoot(q) \/ q \in DOMAIN system})
        from == follow_link(real, PathOf(a)) \o SubSeq(k, Len(a) + 1, Len(k))
    IN  CASE Unsupported(k) -> At(real, PathOf(k))
          [] ~ Unsupported(k) /\ Replaced(k) = {} ->
                 IF k \in DOMAIN system THEN Shown(system[k], Last(k))
                 ELSE IF IsRoot(a) \/ system[a].t = "dir" THEN At(real, from) ELSE Absent
          [] ~ Unsupported(k) /\ Replaced(k) # {} ->
                 IF k \in DOMAIN system /\ Last(k) # REPLACE THEN Shown(system[k], Last(k)) ELSE Absent

\* In the directories of a replaced directory the module that replaces it is alone: they
\* are bind mounted from it, as it has them, and what others put there is not shown.
AsReplacing(k) ==
    /\ Replaced(k) # {}
    /\ LET d == Shortest(Replaced(k))
           by == Providers(Append(d, REPLACE))
           i == CHOOSE i \in by : \A j \in by : i <= j
       IN  /\ Len(k) > Len(d) + 1
           /\ At(view, PathOf(k)) = IF k \in DOMAIN mods[i].tree THEN NodeOf(i, k) ELSE Absent

Keys ==
    {KeyOf(p) : p \in {p \in DOMAIN real \cup DOMAIN view : p[1] = "system" \/ Separate(p[1])}}
    \cup DOMAIN system

-----------------------------------------------------------------------------
\* The values of the variables: trees are closed, and every phase has what it needs.
TypeOK ==
    /\ phase \in {"collect", "inject", "zygisk", "extract", "commit", "done"}
    /\ \A k \in DOMAIN system : \A q \in Above(k) : q \in DOMAIN system /\ system[q].t = "dir"
    /\ \A p \in DOMAIN view : \A q \in Above(p) \ {<<>>} : q \in DOMAIN view /\ view[q].t = "dir"
    /\ DOMAIN roots \subseteq Partitions \cup {"system"} /\ next \in 1 .. Len(mods) + 1

\* When nothing failed, every path shows what the modules and Magisk say together:
\* the tree is the union of the modules' trees in which the first one wins ("we
\* simply collect and record the union of all module filesystem trees",
\* core/module.rs:850), and after the commit each of its nodes is there, a whiteout is
\* gone, a replaced directory has nothing else, and all other paths are as before.
\* With one exception: of the nodes in directories of a replaced directory only those
\* of the replacing module are there, for "we can simply just bind mount the module dir"
\* (core/module.rs:358), and files of other modules in them vanish.  Nothing is claimed
\* where a file meets a directory.
MountsExact ==
    /\ TypeOK
    /\ phase = "inject" /\ failed = {} => system = Union
    /\ phase = "done" /\ failed = {} =>
           \A k \in Keys :
               \/ IsRoot(k) \/ Clashes(k)
               \/ At(view, PathOf(k)) = Expected(k) \/ AsReplacing(k)

\* Whatever fails, and at any time: a path that no module and no file of Magisk names,
\* replaces or hides looks as before, unless the mount of this very file or the
\* reading of a directory above it failed, which the code ignores (the worker
\* directory is mounted "after all children are committed", core/module.rs:318).
UntouchedStays ==
    \A p \in DOMAIN real :
        LET k == KeyOf(p)
            above == Above(k) \cap DOMAIN system
        IN  k \notin DOMAIN system /\ Replaced(k) = {} /\ (\A a \in above : system[a].t = "dir") =>
                \/ At(view, p) = real[p] \/ <<"bind", p>> \in failed
                \/ \E d \in Above(p) : <<"read", d>> \in failed

\* When nothing failed, su, magisk and supolicy are in a directory of PATH, and the su
\* that PATH finds first is Magisk's unless a module brings one or an emulator keeps its
\* own; nothing is claimed when a module replaces, hides or changes the type of a
\* directory of PATH.  The loader of Zygisk is in lib64.
Ours(d) ==
    /\ At(view, Append(d, "su")) = Symlink(<<"./magisk">>)
    /\ At(view, Append(d, "supolicy")) = Symlink(<<"./magiskpolicy">>)
    /\ At(view, Append(d, "magisk")) = File("magisk", <<"magisk">>)
Plain(d) ==
    LET k == strip_system_prefix(d)
    IN  \A a \in (Above(k) \cup {k}) \ {<<>>} :
            \A i \in Providers(a) : NodeOf(i, a).t = "dir" /\ Providers(Append(a, REPLACE)) = {}
MagiskReachable ==
    phase = "done" /\ failed = {} =>
        /\ ~ env.sbin /\ (\A i \in DOMAIN PathEnv : Plain(PathEnv[i])) =>
               LET dirs == [i \in DOMAIN PathEnv |-> follow_link(real, PathEnv[i])]
                   su == {i \in DOMAIN dirs : Append(dirs[i], "su") \in DOMAIN view}
               IN  /\ \E i \in su : Ours(dirs[i])
                   /\ \/ env.emulator
                      \/ \E i \in DOMAIN dirs : Providers(Append(strip_system_prefix(dirs[i]), "su")) # {}
                      \/ Ours(dirs[CHOOSE i \in su : \A j \in su : i <= j])
        /\ env.zygisk /\ Plain(<<"system", "lib64">>) /\ IsDirectory(real, <<"system", "lib64">>)
           /\ exists(real, <<"system", "bin", "linker64">>) =>
               At(view, <<"system", "lib64", "libzygisk">>) = File("magisk", <<"lib64">>)
=============================================================================
