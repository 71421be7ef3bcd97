------------------------------- MODULE Sepolicy -------------------------------
(***************************************************************************)
(* magiskpolicy (sepolicy/): policy statements patch a loaded SELinux      *)
(* policy.  api.cpp expands a statement into single rules, sepolicy.cpp    *)
(* applies each to the database, policydb.cpp writes the result.  The      *)
(* database is a record; a permission word is the set of its one bits.     *)
(***************************************************************************)
EXTENDS Integers, Sequences, FiniteSets

CONSTANTS
    ClassPerms,     \* class |-> the permissions it (or its common) defines
    Constrained,    \* the attributes the constraint expressions name
    Contexts,       \* the contexts context_from_string accepts
    NDrv, NFun,     \* ioctl drivers, functions per driver (256 and 256)
    Loaded,         \* the policies that may be loaded
    Statements,     \* the statements that may be given
    MaxStatements   \* bound on the statements of one invocation

VARIABLES
    db,         \* the policy database
    last,       \* the statement being executed
    todo,       \* its single rules still to be applied
    count,      \* statements executed
    phase,      \* "patch", "saved", "failed" or "aborted" (the process died)
    file        \* what the output file holds: "old", "empty" or "policy"

vars == <<db, last, todo, count, phase, file>>

Wild == "*"             \* an empty Str: match all
Undefined == "?"        \* the bits of a permission word the class has no name for

Classes == DOMAIN ClassPerms
Drivers == 0 .. NDrv - 1
Functions == 0 .. NFun - 1
Ioctls == 0 .. NDrv * NFun - 1
ioctl_driver(x) == x \div NFun
ioctl_func(x) == x % NFun
AllBits(c) == ClassPerms[c] \cup {Undefined}

Types(d) == DOMAIN d.types
Attributes(d) == {n \in Types(d) : d.types[n] = "attribute"}
Known(d, n) == n = Wild \/ n \in Types(d)
KnownClass(c) == c = Wild \/ c \in Classes
With(f, k, v) == [x \in DOMAIN f \cup {k} |-> IF x = k THEN v ELSE f[x]]

(***************************************************************************)
(* Access vector rules.  A key is <<source, target, class, effect>>.       *)
(***************************************************************************)
strip_av(effect, invert) == (effect = "auditdeny") = ~invert

\* What a wildcard type ranges over.
Range_(d, n, strip) ==
    IF n # Wild THEN {n} ELSE IF strip THEN Types(d) ELSE Attributes(d)
ClassRange(c) == IF c = Wild THEN Classes ELSE {c}

Keys(d, r, strip) ==
    Range_(d, r.s, strip) \X Range_(d, r.t, strip) \X ClassRange(r.c) \X {r.effect}

insert_avtab_node(k) == IF k[4] = "auditdeny" THEN AllBits(k[3]) ELSE {}
get_avtab_node(d, k) == IF k \in DOMAIN d.av THEN d.av[k] ELSE insert_avtab_node(k)
is_redundant(k, data) == data = insert_avtab_node(k)

NewData_WildNothing(d, k, r) ==
    LET data == get_avtab_node(d, k)
    IN  IF r.invert THEN data \ {r.p} ELSE data \cup ({r.p} \ {Wild})
NewData(d, k, r) ==
    LET data == get_avtab_node(d, k)
        bits == IF r.p = Wild THEN AllBits(k[3]) ELSE {r.p}
    IN  IF r.invert THEN data \ bits ELSE data \cup bits

\* The rule is refused when it names something the policy does not have, or
\* a permission without its class.
RuleNames(d, r) ==
    /\ Known(d, r.s) /\ Known(d, r.t) /\ KnownClass(r.c)
    /\ r.p # Wild => r.c # Wild /\ r.p \in ClassPerms[r.c]

add_rule(d, r) ==
    LET keys == Keys(d, r, strip_av(r.effect, r.invert))
        left == {k \in DOMAIN d.av \cup keys :
                     k \in keys => ~ is_redundant(k, NewData(d, k, r))}
    IN  IF ~ RuleNames(d, r) THEN d
        ELSE [d EXCEPT !.av = [k \in left |-> IF k \in keys THEN NewData(d, k, r)
                                                            ELSE @[k]]]

(***************************************************************************)
(* Extended permissions: under one key, one driver node (the drivers that  *)
(* are allowed entirely; empty or absent is the same) and at most one      *)
(* function node per driver.                                               *)
(***************************************************************************)
Nodes(d, k) ==
    IF k \in DOMAIN d.xp THEN d.xp[k] ELSE [driver |-> {}, func |-> <<>>]

SetXperm(n, p) ==
    LET lo == ioctl_driver(p.low)
        hi == ioctl_driver(p.high)
        functions == IF lo \in DOMAIN n.func THEN n.func[lo] ELSE {}
    IN  IF lo # hi THEN [n EXCEPT !.driver = @ \cup lo .. hi]
        ELSE [n EXCEPT !.func =
                 With(@, lo, functions \cup ioctl_func(p.low) .. ioctl_func(p.high))]

\* p.reset: every node of the key is emptied, then all but the range is set.
ResetXperm(n, p) ==
    LET lo == ioctl_driver(p.low)
        hi == ioctl_driver(p.high)
    IN  [driver |-> Drivers \ lo .. hi,
         func   |-> IF lo # hi THEN <<>>
                    ELSE [v \in {lo} |-> Functions \ ioctl_func(p.low) .. ioctl_func(p.high)]]

add_xperm_rule(d, r) ==
    LET keys == Keys(d, r, FALSE)
        New(k) == IF r.x.reset THEN ResetXperm(Nodes(d, k), r.x)
                               ELSE SetXperm(Nodes(d, k), r.x)
    IN  IF ~ (d.xperms /\ Known(d, r.s) /\ Known(d, r.t) /\ KnownClass(r.c)) THEN d
        ELSE [d EXCEPT !.xp = [k \in keys \cup DOMAIN @ |-> IF k \in keys THEN New(k) ELSE @[k]]]

(***************************************************************************)
(* Type rules, genfscon, types and attributes.                             *)
(***************************************************************************)
add_type_rule(d, r) ==
    IF {r.s, r.t, r.def} \subseteq Types(d) /\ r.c \in Classes
    THEN [d EXCEPT !.ty = With(@, <<r.s, r.t, r.c, r.effect>>, r.def)]
    ELSE d

add_genfscon(d, r) ==
    IF r.ctx \in Contexts THEN [d EXCEPT !.genfs = With(@, <<r.fs, r.path>>, r.ctx)] ELSE d

\* A new type gets the next value: its maps start with itself in type_attr_map
\* and nothing in attr_type_map, and every role may use it.
add_type(d, name, flavor) ==
    IF name \in Types(d) THEN d
    ELSE [d EXCEPT !.types = With(@, name, flavor),
                   !.type_attr_map = With(@, name, {name}),
                   !.attr_type_map = With(@, name, {}),
                   !.role_types = @ \cup {name}]

set_type_state(d, r) ==
    LET named == IF r.s = Wild THEN Types(d) ELSE {r.s} \cap Types(d)
    IN  [d EXCEPT !.permissive_map = IF r.permissive THEN @ \cup named ELSE @ \ named]

CanBeGiven(d, type, attr) ==
    {type, attr} \subseteq Types(d) /\ type \notin Attributes(d) /\ attr \in Attributes(d)

add_typeattribute_OneMap(d, type, attr) ==
    IF ~ CanBeGiven(d, type, attr) THEN d
    ELSE [d EXCEPT !.type_attr_map[type] = @ \cup {attr},
                   !.names = IF attr \in Constrained THEN @ \cup {type} ELSE @]
add_typeattribute_Replaces(d, type, attr) ==
    IF ~ CanBeGiven(d, type, attr) THEN d
    ELSE [d EXCEPT !.type_attr_map[type] = {type, attr},
                   !.attr_type_map = [a \in DOMAIN @ |->
                       IF a = attr THEN @[a] \cup {type} ELSE @[a] \ {type}],
                   !.names = IF attr \in Constrained THEN @ \cup {type} ELSE @]
\* Both maps, and the names of every constraint expression that names attr.
add_typeattribute(d, type, attr) ==
    IF ~ CanBeGiven(d, type, attr) THEN d
    ELSE [d EXCEPT !.type_attr_map[type] = @ \cup {attr},
                   !.attr_type_map[attr] = @ \cup {type},
                   !.names = IF attr \in Constrained THEN @ \cup {type} ELSE @]

(***************************************************************************)
(* api.cpp: a statement stands for the product of its lists, the first     *)
(* list varying slowest; an empty list of names is one wildcard.           *)
(***************************************************************************)
Vec(v) == IF v = <<>> THEN <<Wild>> ELSE v

Product(A, B) ==
    [i \in 1 .. Len(A) * Len(B) |->
        <<A[((i - 1) \div Len(B)) + 1], B[((i - 1) % Len(B)) + 1]>>]

AvEffects == [allow |-> "allowed", deny |-> "allowed", auditallow |-> "auditallow",
              dontaudit |-> "auditdeny"]
XpermOps == {"allowxperm", "auditallowxperm", "dontauditxperm"}

AvRules(st) ==
    LET all == Product(Product(Product(Vec(st.s), Vec(st.t)), Vec(st.c)), Vec(st.p))
    IN  [i \in DOMAIN all |->
            [op |-> "add_rule", s |-> all[i][1][1][1], t |-> all[i][1][1][2],
             c |-> all[i][1][2], p |-> all[i][2], effect |-> AvEffects[st.op],
             invert |-> st.op \in {"deny", "dontaudit"}]]

XpermRules(st) ==
    LET all == Product(Product(Product(Vec(st.s), Vec(st.t)), Vec(st.c)), st.x)
    IN  [i \in DOMAIN all |->
            [op |-> "add_xperm_rule", s |-> all[i][1][1][1], t |-> all[i][1][1][2],
             c |-> all[i][1][2], x |-> all[i][2], effect |-> st.op]]

TypeRules(st) ==
    LET all == Product(Vec(st.s), Vec(st.a))
    IN  [i \in DOMAIN all |-> [op |-> st.op, s |-> all[i][1], a |-> all[i][2]]]

StateRules(st) ==
    [i \in DOMAIN Vec(st.s) |->
        [op |-> "set_type_state", s |-> Vec(st.s)[i], permissive |-> st.op = "permissive"]]

\* The statements whose arguments are single names.
SingleRule(st) ==
    CASE st.op = "attribute" -> <<[op |-> "attribute", s |-> st.s[1]]>>
      [] st.op \in {"type_rule", "named_transition"} ->
            <<[op |-> st.op, s |-> st.s[1], t |-> st.t[1], c |-> st.c[1], def |-> st.def,
               effect |-> st.effect]>>
      [] OTHER -> <<st>>

expand(st) ==
    CASE st.op \in DOMAIN AvEffects -> AvRules(st)
      [] st.op \in XpermOps -> XpermRules(st)
      [] st.op \in {"type", "typeattribute"} -> TypeRules(st)
      [] st.op \in {"permissive", "enforce"} -> StateRules(st)
      [] OTHER -> SingleRule(st)

\* One single rule applied to the database.
Do(d, r) ==
    CASE r.op = "add_rule" -> add_rule(d, r)
      [] r.op = "add_xperm_rule" -> add_xperm_rule(d, r)
      [] r.op = "type_rule" -> add_type_rule(d, r)
      [] r.op = "genfscon" -> add_genfscon(d, r)
      [] r.op = "type" -> add_typeattribute(add_type(d, r.s, "type"), r.s, r.a)
      [] r.op = "typeattribute" -> add_typeattribute(d, r.s, r.a)
      [] r.op = "attribute" -> add_type(d, r.s, "attribute")
      [] r.op = "set_type_state" -> set_type_state(d, r)
      [] OTHER -> d
-----------------------------------------------------------------------------
(***************************************************************************)
(* What the database means to the kernel, and to print_rules.              *)
(***************************************************************************)
\* Access is looked up through the attributes of both types (external).
Allowed(d, s, t, c, p) ==
    \E k \in d.type_attr_map[s] \X d.type_attr_map[t] \X {c} \X {"allowed"} :
        k \in DOMAIN d.av /\ p \in d.av[k]

IoctlsOf(n) ==
    {x \in Ioctls : \/ ioctl_driver(x) \in n.driver
                    \/ /\ ioctl_driver(x) \in DOMAIN n.func
                       /\ ioctl_func(x) \in n.func[ioctl_driver(x)]}

Listed(st) == UNION {st.x[i].low .. st.x[i].high : i \in DOMAIN st.x}
Complemented(st) == \A i \in DOMAIN st.x : st.x[i].reset

\* The maximal runs of set bits, as print_avtab lists them.
Ranges(S) ==
    {q \in S \X S : /\ q[1] .. q[2] \subseteq S /\ q[1] <= q[2]
                    /\ q[1] - 1 \notin S /\ q[2] + 1 \notin S}

PrintXperm(k, low, high) ==
    [op |-> k[4], s |-> <<k[1]>>, t |-> <<k[2]>>, c |-> <<k[3]>>,
     x |-> <<[low |-> low, high |-> high, reset |-> FALSE]>>]

print_xperms(d) ==
    UNION {LET n == d.xp[k] IN
           {PrintXperm(k, q[1] * NFun, q[2] * NFun) :
                q \in Ranges(n.driver)}
           \cup UNION {{PrintXperm(k, v * NFun + q[1], v * NFun + q[2]) : q \in Ranges(n.func[v])} :
                           v \in DOMAIN n.func}
           : k \in DOMAIN d.xp}

PrintName == [allowed |-> "allow", auditallow |-> "auditallow", auditdeny |-> "dontaudit"]
PrintedPerms_NotInverted(k, data) == data \cap ClassPerms[k[3]]
PrintedPerms(k, data) ==
    IF k[4] = "auditdeny" THEN ClassPerms[k[3]] \ data ELSE data \cap ClassPerms[k[3]]

print_avtab(d) ==
    (UNION {{[op |-> PrintName[k[4]], s |-> <<k[1]>>, t |-> <<k[2]>>, c |-> <<k[3]>>, p |-> <<p>>] :
                 p \in PrintedPerms(k, d.av[k])} : k \in DOMAIN d.av})
    \cup {[op |-> "type_rule", s |-> <<k[1]>>, t |-> <<k[2]>>, c |-> <<k[3]>>, def |-> d.ty[k],
           effect |-> k[4]] : k \in DOMAIN d.ty}
    \cup print_xperms(d)

print_type(d, n) ==
    (IF n \in Attributes(d) THEN {[op |-> "attribute", s |-> <<n>>]}
     ELSE {[op |-> "type", s |-> <<n>>, a |-> <<a>>] :
               a \in d.type_attr_map[n] \cap Attributes(d)})
    \cup (IF n \in d.permissive_map THEN {[op |-> "permissive", s |-> <<n>>]} ELSE {})

print_rules(d) ==
    (UNION {print_type(d, n) : n \in Types(d)})
    \cup print_avtab(d)
    \cup {[op |-> "genfscon", fs |-> k[1], path |-> k[2], ctx |-> d.genfs[k]] :
              k \in DOMAIN d.genfs}
-----------------------------------------------------------------------------
(***************************************************************************)
(* What a policy is that libsepol has read, and what the parser accepts.   *)
(***************************************************************************)
PolicyFields ==
    {"types", "type_attr_map", "attr_type_map", "role_types", "names", "permissive_map",
     "av", "xp", "xperms", "ty", "genfs"}
Is(f) == f = [x \in DOMAIN f |-> f[x]]      \* a function
List(v) == Len(v) \in Nat /\ v = [i \in 1 .. Len(v) |-> v[i]]

\* The maps cover exactly the types, nodes are keyed by types and classes of the
\* policy, permission words hold bits of their class.
PolicyTyped(d) ==
    /\ Is(d) /\ DOMAIN d = PolicyFields
    /\ Wild \notin Types(d) /\ Constrained \subseteq Types(d)
    /\ d.type_attr_map \in [Types(d) -> SUBSET Types(d)]
    /\ d.attr_type_map \in [Types(d) -> SUBSET Types(d)]
    /\ d.names \cup d.role_types \cup d.permissive_map \subseteq Types(d)
    /\ Is(d.av) /\ DOMAIN d.av \subseteq Types(d) \X Types(d) \X Classes
                                             \X {"allowed", "auditallow", "auditdeny"}
    /\ \A k \in DOMAIN d.av : d.av[k] \subseteq AllBits(k[3])
    /\ Is(d.xp) /\ DOMAIN d.xp \subseteq Types(d) \X Types(d) \X Classes \X XpermOps
    /\ \A k \in DOMAIN d.xp : LET n == d.xp[k] IN
          /\ n = [driver |-> n.driver, func |-> n.func] /\ n.driver \subseteq Drivers
          /\ n.func \in [DOMAIN n.func -> SUBSET Functions] /\ DOMAIN n.func \subseteq Drivers
    /\ Is(d.ty) /\ \A k \in DOMAIN d.ty : k = <<k[1], k[2], k[3], k[4]>>
    /\ Is(d.genfs) /\ \A k \in DOMAIN d.genfs : k = <<k[1], k[2]>>

\* The types of the policies as they were loaded: all others were added.
Stock == UNION {Types(d) : d \in Loaded}

\* The two maps of types and attributes are each other's inverse (a type's own
\* bit in type_attr_map aside): the kernel decides access by type_attr_map and
\* libsepol expands attributes by attr_type_map, so a typeattribute that reached
\* only one of them would make the policy disagree with itself.  Every role may
\* use every type that was added, whatever it may use of the loaded ones.
MapsAgree(d) ==
    /\ \A type, attr \in Types(d) : type # attr =>
          (attr \in d.type_attr_map[type] <=> type \in d.attr_type_map[attr])
    /\ \A type \in Types(d) : /\ type \in d.type_attr_map[type]
                              /\ d.type_attr_map[type] \subseteq Attributes(d) \cup {type}
    /\ Types(d) \ Stock \subseteq d.role_types

\* Giving a type an attribute also gives it the attribute's place in every
\* constraint that names it: the constraints hold for the types an attribute
\* has now, not for those it had when the policy was built (add_typeattribute).
ConstraintsFollow(d) ==
    \A type \in Types(d) \ Attributes(d) :
        d.type_attr_map[type] \cap Constrained # {} => type \in d.names

Xperms == [low : Ioctls, high : Ioctls, reset : BOOLEAN]
Ops == DOMAIN AvEffects \cup XpermOps
       \cup {"type", "typeattribute", "permissive", "enforce", "attribute", "type_rule",
             "named_transition", "genfscon"}

\* Lists are lists of names; the ranges of ioctls are all listed or all complemented.
Parsed(st) ==
    /\ st.op \in Ops
    /\ st.op \in DOMAIN AvEffects => List(st.s) /\ List(st.t) /\ List(st.c) /\ List(st.p)
    /\ st.op \in XpermOps => /\ List(st.s) /\ List(st.t) /\ List(st.c) /\ st.x \in Seq(Xperms)
                             /\ \A i, j \in DOMAIN st.x : st.x[i].reset = st.x[j].reset
    /\ st.op \in {"type", "typeattribute"} => List(st.s) /\ List(st.a)
    /\ st.op \in {"permissive", "enforce"} => List(st.s)
    /\ st.op = "type" => st.s # <<>> /\ \A i \in DOMAIN st.s : st.s[i] # Wild
    /\ st.op = "attribute" => st.s[1] # Wild

ASSUME SepolicyAssumption ==
    /\ NDrv \in Nat \ {0} /\ NFun \in Nat \ {0}
    /\ Wild \notin Classes /\ \A c \in Classes : Wild \notin ClassPerms[c]
    /\ \A d \in Loaded : PolicyTyped(d) /\ MapsAgree(d) /\ ConstraintsFollow(d)
    /\ \A st \in Statements : Parsed(st)
    /\ MaxStatements \in Nat
-----------------------------------------------------------------------------
None == [op |-> "none"]

Init ==
    /\ db \in Loaded
    /\ last = None /\ todo = <<>> /\ count = 0
    /\ phase = "patch" /\ file = "old"

\* exec_statement: the statement's SePolicy method starts to expand it.
Execute(st) ==
    /\ phase = "patch" /\ todo = <<>> /\ count < MaxStatements
    /\ last' = st /\ todo' = expand(st) /\ count' = count + 1
    /\ UNCHANGED <<db, phase, file>>

\* One call of the expanded lambda.
Apply ==
    /\ phase = "patch" /\ todo # <<>>
    /\ Head(todo).op # "named_transition"
    /\ db' = Do(db, Head(todo)) /\ todo' = Tail(todo)
    /\ UNCHANGED <<last, count, phase, file>>

\* A type_transition with an object name.  Its lookup hands hashtab_find the
\* address of the key structure as a string: the copy that reaches libsepol's
\* hash function ends at the first zero byte, its name pointer is null, and
\* reading the name ends the process.
add_filename_trans ==
    LET r == Head(todo)
        known == {r.s, r.t, r.def} \subseteq Types(db) /\ r.c \in Classes
    IN  /\ phase = "patch" /\ todo # <<>> /\ r.op = "named_transition"
        /\ todo' = Tail(todo)
        /\ phase' = IF known THEN "aborted" ELSE "patch"
        /\ UNCHANGED <<db, last, count, file>>

\* to_file: the image is made in memory and the file opened, or the file stays as
\* it is; then it is truncated and written with one write, whose failure nobody
\* looks at.
to_file(result) ==
    /\ phase = "patch" /\ todo = <<>>
    /\ phase' = IF result = "old" THEN "failed" ELSE "saved"
    /\ file' = result
    /\ UNCHANGED <<db, last, todo, count>>

Next ==
    \/ \E st \in Statements : Execute(st)
    \/ Apply
    \/ add_filename_trans
    \/ \E result \in {"old", "empty", "policy"} : to_file(result)

Spec == Init /\ [][Next]_vars
-----------------------------------------------------------------------------
TypeOK ==
    /\ PolicyTyped(db)
    /\ phase \in {"patch", "saved", "failed", "aborted"} /\ count \in 0 .. MaxStatements

\* In a well typed database, what a type's attributes are does not depend on where
\* one looks (see MapsAgree and ConstraintsFollow): whatever types and attributes
\* the statements create and give, and in whatever order.
AttributesAgree == TypeOK /\ MapsAgree(db) /\ ConstraintsFollow(db)

\* The types a name of a statement stands for: itself, the members of an
\* attribute, or, for the wildcard, every type that has an attribute (add_rule
\* walks the attributes "for optimization").
Meant(d, n) ==
    {type \in Types(d) \ Attributes(d) :
        IF n = Wild THEN d.type_attr_map[type] # {type} ELSE n \in d.type_attr_map[type]}

\* Once an allow statement is executed, every access it lists is allowed between
\* all the types it means, whatever was denied, added or regrouped before; the
\* combinations that name something unknown are skipped and spoil no other.
AllowHolds ==
    last.op = "allow" /\ todo = <<>> =>
        \A i \in DOMAIN expand(last) : LET r == expand(last)[i] IN
            RuleNames(db, r) =>
                \A s \in Meant(db, r.s), t \in Meant(db, r.t), c \in ClassRange(r.c) :
                    \A p \in IF r.p = Wild THEN ClassPerms[c] ELSE {r.p} : Allowed(db, s, t, c, p)

\* Only a deny takes an access away: after any other statement, a new attribute of a
\* type included, the access vector rules allow all that they allowed.  (Constraints,
\* which a new attribute may tighten, and ioctl lists are not part of it.)
OnlyDenyForbids ==
    [][\A s, t \in Types(db), c \in Classes : \A p \in ClassPerms[c] :
          Allowed(db, s, t, c, p) /\ ~ Allowed(db', s, t, c, p) => last.op = "deny"]_vars

\* The extended permissions of a key after its statement: of a list, at least
\* what it lists is set; the complement of one range leaves nothing of that
\* range, whatever older rules had set, and all the rest when the range lies
\* within a driver; so match-all leaves everything and the special value 0 (a
\* reset of the whole range) nothing.
XpermsHold ==
    last.op \in XpermOps /\ todo = <<>> /\ db.xperms =>
        \A i \in DOMAIN expand(last) : LET r == expand(last)[i] IN
            \A k \in Keys(db, r, FALSE) :
                k \in DOMAIN db.xp =>
                    IF ~ Complemented(last) THEN Listed(last) \subseteq IoctlsOf(db.xp[k])
                    ELSE Len(last.x) = 1 =>
                        /\ Listed(last) \cap IoctlsOf(db.xp[k]) = {}
                        /\ ioctl_driver(r.x.low) = ioctl_driver(r.x.high) =>
                               IoctlsOf(db.xp[k]) = Ioctls \ Listed(last)

\* What an executed statement says holds: AllowHolds and XpermsHold.
StatementsHold == AllowHolds /\ XpermsHold

\* Every rule print_rules prints is in force: given back as a statement it
\* changes no type, no permission word, no constraint and no ioctl's verdict.
\* Printing inverts dontaudit words, and shows drivers and functions as ranges
\* of ioctl numbers that reading must not widen.
PrintedRulesHold ==
    todo = <<>> =>
        \A st \in print_rules(db) : \A i \in DOMAIN expand(st) :
            LET d == Do(db, expand(st)[i]) IN
            /\ [d EXCEPT !.xp = <<>>] = [db EXCEPT !.xp = <<>>]
            /\ \A k \in DOMAIN d.xp : IoctlsOf(d.xp[k]) = IoctlsOf(Nodes(db, k))

\* "Use the complement operator (~) to specify all permissions except those
\* explicitly listed" (sepolicy/statement.rs:823, with the example
\* ~{ 0x8910 0x892A }): after such a statement none of the listed ioctls is
\* left.
ComplementExcludesListed ==
    last.op \in XpermOps /\ todo = <<>> /\ db.xperms /\ Complemented(last) =>
        \A i \in DOMAIN expand(last) : LET r == expand(last)[i] IN
            \A k \in Keys(db, r, FALSE) :
                k \in DOMAIN db.xp => Listed(last) \cap IoctlsOf(db.xp[k]) = {}
=============================================================================
