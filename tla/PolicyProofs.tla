---------------------------- MODULE PolicyProofs ----------------------------
(***************************************************************************)
(* The policy database of magiskpolicy, for any loaded policy and any      *)
(* statements: every rule leaves it well formed and its maps of types and  *)
(* attributes agreeing (PolicyInv), only deny takes an access away, and an *)
(* executed allow allows what it lists (AllowInv).                         *)
(***************************************************************************)
EXTENDS Sepolicy, TLAPS

-----------------------------------------------------------------------------
(* A policy and its parts. *)

Shape(d) == Is(d) /\ DOMAIN d = PolicyFields
SameTypes(d, e) ==
    /\ e.types = d.types /\ e.type_attr_map = d.type_attr_map
    /\ e.attr_type_map = d.attr_type_map /\ e.role_types = d.role_types /\ e.names = d.names
SameTables(d, e) ==
    /\ e.xperms = d.xperms /\ e.ty = d.ty /\ e.genfs = d.genfs

\* What [d EXCEPT !.f = X] changes, for the parts of a policy.
LEMMA PutAv ==
    ASSUME NEW d, Shape(d), NEW X, NEW e, e = [d EXCEPT !.av = X]
    PROVE  /\ Shape(e) /\ e.av = X /\ SameTypes(d, e) /\ SameTables(d, e)
           /\ e.xp = d.xp /\ e.permissive_map = d.permissive_map
BY Zenon DEF Shape, Is, PolicyFields, SameTypes, SameTables

\* As PutAv, for the extended permissions.
LEMMA PutXp ==
    ASSUME NEW d, Shape(d), NEW X, NEW e, e = [d EXCEPT !.xp = X]
    PROVE  /\ Shape(e) /\ e.xp = X /\ SameTypes(d, e) /\ SameTables(d, e)
           /\ e.av = d.av /\ e.permissive_map = d.permissive_map
BY Zenon DEF Shape, Is, PolicyFields, SameTypes, SameTables

\* As PutAv, for the type rules.
LEMMA PutTy ==
    ASSUME NEW d, Shape(d), NEW X, NEW e, e = [d EXCEPT !.ty = X]
    PROVE  /\ Shape(e) /\ e.ty = X /\ SameTypes(d, e) /\ e.xperms = d.xperms /\ e.genfs = d.genfs
           /\ e.av = d.av /\ e.xp = d.xp /\ e.permissive_map = d.permissive_map
BY Zenon DEF Shape, Is, PolicyFields, SameTypes, SameTables

\* As PutAv, for genfscon.
LEMMA PutGenfs ==
    ASSUME NEW d, Shape(d), NEW X, NEW e, e = [d EXCEPT !.genfs = X]
    PROVE  /\ Shape(e) /\ e.genfs = X /\ SameTypes(d, e) /\ e.xperms = d.xperms /\ e.ty = d.ty
           /\ e.av = d.av /\ e.xp = d.xp /\ e.permissive_map = d.permissive_map
BY Zenon DEF Shape, Is, PolicyFields, SameTypes, SameTables

\* As PutAv, for the permissive types.
LEMMA PutPermissive ==
    ASSUME NEW d, Shape(d), NEW X, NEW e, e = [d EXCEPT !.permissive_map = X]
    PROVE  /\ Shape(e) /\ e.permissive_map = X /\ SameTypes(d, e) /\ SameTables(d, e)
           /\ e.av = d.av /\ e.xp = d.xp
BY Zenon DEF Shape, Is, PolicyFields, SameTypes, SameTables

PolicyWithType(d, T, A, B, R) ==
    [d EXCEPT !.types = T, !.type_attr_map = A, !.attr_type_map = B, !.role_types = R]
PolicyWithAttr(d, type, attr, N) ==
    [d EXCEPT !.type_attr_map[type] = @ \cup {attr}, !.attr_type_map[attr] = @ \cup {type}, !.names = N]

Given(map, x, y) == [map EXCEPT ![x] = @ \cup {y}]

\* What add_type changes when the type is new.
LEMMA PutType ==
    ASSUME NEW d, Shape(d), NEW T, NEW A, NEW B, NEW R, NEW e, e = PolicyWithType(d, T, A, B, R)
    PROVE  /\ Shape(e) /\ e.types = T /\ e.type_attr_map = A /\ e.attr_type_map = B /\ e.role_types = R
           /\ e.names = d.names /\ SameTables(d, e)
           /\ e.av = d.av /\ e.xp = d.xp /\ e.permissive_map = d.permissive_map
BY Zenon DEF Shape, Is, PolicyFields, SameTypes, SameTables, PolicyWithType, PolicyWithAttr, Given

\* What add_typeattribute changes when the attribute can be given.
LEMMA PutAttr ==
    ASSUME NEW d, Shape(d), NEW type, NEW attr, NEW N, NEW e, e = PolicyWithAttr(d, type, attr, N)
    PROVE  /\ Shape(e) /\ e.types = d.types
           /\ e.type_attr_map = Given(d.type_attr_map, type, attr)
           /\ e.attr_type_map = Given(d.attr_type_map, attr, type)
           /\ e.names = N
           /\ e.role_types = d.role_types /\ SameTables(d, e)
           /\ e.av = d.av /\ e.xp = d.xp /\ e.permissive_map = d.permissive_map
BY Zenon DEF Shape, Is, PolicyFields, SameTypes, SameTables, PolicyWithType, PolicyWithAttr, Given

(* The invariant of the database in its parts. *)
AvEffectNames == {"allowed", "auditallow", "auditdeny"}
TypesPart(d) ==
    /\ Wild \notin Types(d) /\ Constrained \subseteq Types(d)
    /\ d.type_attr_map \in [Types(d) -> SUBSET Types(d)]
    /\ d.attr_type_map \in [Types(d) -> SUBSET Types(d)]
    /\ d.names \subseteq Types(d) /\ d.role_types \subseteq Types(d)
    /\ MapsAgree(d) /\ ConstraintsFollow(d)
AvPart(T, av) ==
    /\ Is(av) /\ DOMAIN av \subseteq T \X T \X Classes \X AvEffectNames
    /\ \A k \in DOMAIN av : av[k] \subseteq AllBits(k[3])
NodeOK(n) ==
    /\ n = [driver |-> n.driver, func |-> n.func] /\ n.driver \subseteq Drivers
    /\ n.func \in [DOMAIN n.func -> SUBSET Functions] /\ DOMAIN n.func \subseteq Drivers
XpPart(T, xp) ==
    /\ Is(xp) /\ DOMAIN xp \subseteq T \X T \X Classes \X XpermOps
    /\ \A k \in DOMAIN xp : NodeOK(xp[k])
TyPart(ty) == Is(ty) /\ \A k \in DOMAIN ty : k = <<k[1], k[2], k[3], k[4]>>
GenfsPart(genfs) == Is(genfs) /\ \A k \in DOMAIN genfs : k = <<k[1], k[2]>>

Good(d) == PolicyTyped(d) /\ MapsAgree(d) /\ ConstraintsFollow(d)

\* A well formed policy is one whose parts are.
LEMMA GoodParts ==
    ASSUME NEW d
    PROVE  Good(d) <=> /\ Shape(d) /\ TypesPart(d) /\ d.permissive_map \subseteq Types(d)
                       /\ AvPart(Types(d), d.av) /\ XpPart(Types(d), d.xp)
                       /\ TyPart(d.ty) /\ GenfsPart(d.genfs)
<1>1. ASSUME Good(d)
      PROVE  /\ Shape(d) /\ TypesPart(d) /\ d.permissive_map \subseteq Types(d)
             /\ AvPart(Types(d), d.av) /\ XpPart(Types(d), d.xp)
             /\ TyPart(d.ty) /\ GenfsPart(d.genfs)
  <2>1. PolicyTyped(d) /\ MapsAgree(d) /\ ConstraintsFollow(d)
    BY <1>1 DEF Good
  <2>2. Shape(d) /\ TyPart(d.ty) /\ GenfsPart(d.genfs)
    BY <2>1, Zenon DEF PolicyTyped, Shape, TyPart, GenfsPart
  <2>3. AvPart(Types(d), d.av) /\ XpPart(Types(d), d.xp)
    BY <2>1, Zenon DEF PolicyTyped, AvPart, AvEffectNames, XpPart, NodeOK
  <2>4. TypesPart(d) /\ d.permissive_map \subseteq Types(d)
    BY <2>1, Zenon DEF PolicyTyped, TypesPart
  <2>. QED BY <2>2, <2>3, <2>4
<1>2. ASSUME Shape(d) /\ TypesPart(d) /\ d.permissive_map \subseteq Types(d),
             AvPart(Types(d), d.av) /\ XpPart(Types(d), d.xp),
             TyPart(d.ty) /\ GenfsPart(d.genfs)
      PROVE  Good(d)
  <2>1. PolicyTyped(d)
    BY <1>2, Zenon DEF PolicyTyped, TypesPart, Shape, AvPart, AvEffectNames, XpPart, NodeOK, TyPart, GenfsPart
  <2>. QED BY <2>1, <1>2, Zenon DEF Good, TypesPart
<1>. QED BY <1>1, <1>2, Zenon

\* The types of a policy depend on the five fields of SameTypes only.
LEMMA SameTypesPart ==
    ASSUME NEW d, NEW e, SameTypes(d, e)
    PROVE  Types(e) = Types(d) /\ Attributes(e) = Attributes(d) /\ (TypesPart(d) => TypesPart(e))
<1>1. Types(e) = Types(d) /\ Attributes(e) = Attributes(d)
  BY DEF SameTypes, Types, Attributes
<1>2. (MapsAgree(d) => MapsAgree(e)) /\ (ConstraintsFollow(d) => ConstraintsFollow(e))
  BY <1>1, Zenon DEF SameTypes, MapsAgree, ConstraintsFollow
<1>. QED BY <1>1, <1>2, Zenon DEF SameTypes, TypesPart

\* The keys of a rule whose names the policy has.
LEMMA KeysTyped ==
    ASSUME NEW d, NEW r, NEW strip, Known(d, r.s), Known(d, r.t), KnownClass(r.c)
    PROVE  /\ Keys(d, r, strip) \subseteq Types(d) \X Types(d) \X Classes \X {r.effect}
           /\ Range_(d, r.s, strip) \subseteq Types(d) /\ Range_(d, r.t, strip) \subseteq Types(d)
           /\ ClassRange(r.c) \subseteq Classes
<1>1. ASSUME NEW n, Known(d, n) PROVE Range_(d, n, strip) \subseteq Types(d)
  BY <1>1 DEF Known, Range_, Attributes
<1>2. ClassRange(r.c) \subseteq Classes
  BY DEF KnownClass, ClassRange
<1>. QED BY <1>1, <1>2 DEF Keys

\* add_rule keeps the permission words within their class.
LEMMA AddRuleGood ==
    ASSUME NEW d, Good(d), NEW r, r.effect \in AvEffectNames
    PROVE  Good(add_rule(d, r))
<1>1. CASE ~ RuleNames(d, r)
  BY <1>1 DEF add_rule
<1>2. CASE RuleNames(d, r)
  <2> DEFINE keys == Keys(d, r, strip_av(r.effect, r.invert))
             left == {k \in DOMAIN d.av \cup keys : k \in keys => ~ is_redundant(k, NewData(d, k, r))}
             av == [k \in left |-> IF k \in keys THEN NewData(d, k, r) ELSE d.av[k]]
             e == [d EXCEPT !.av = av]
  <2>1. add_rule(d, r) = e
    BY <1>2 DEF add_rule
  <2>2. keys \subseteq Types(d) \X Types(d) \X Classes \X AvEffectNames
    BY <1>2, KeysTyped DEF RuleNames
  <2>3. Shape(d) /\ TypesPart(d) /\ d.permissive_map \subseteq Types(d) /\ AvPart(Types(d), d.av)
        /\ XpPart(Types(d), d.xp) /\ TyPart(d.ty) /\ GenfsPart(d.genfs)
    BY GoodParts
  <2>4. ASSUME NEW k \in keys PROVE NewData(d, k, r) \subseteq AllBits(k[3])
    <3>1. get_avtab_node(d, k) \subseteq AllBits(k[3])
      BY <2>3 DEF get_avtab_node, insert_avtab_node, AvPart
    <3>2. r.p # Wild => r.p \in AllBits(k[3])
      <4>1. ASSUME r.p # Wild PROVE k[3] = r.c
        BY <1>2, <4>1 DEF RuleNames, Keys, ClassRange
      <4>. QED BY <4>1, <1>2 DEF RuleNames, AllBits
    <3>. QED BY <3>1, <3>2 DEF NewData
  <2>5. AvPart(Types(d), av)
    <3>1. Is(av) /\ DOMAIN av = left
      BY DEF Is
    <3>2. left \subseteq Types(d) \X Types(d) \X Classes \X AvEffectNames
      BY <2>2, <2>3 DEF AvPart
    <3>3. ASSUME NEW k \in left PROVE av[k] \subseteq AllBits(k[3])
      BY <3>3, <2>3, <2>4 DEF AvPart
    <3>. QED BY <3>1, <3>2, <3>3 DEF AvPart
  <2> HIDE DEF av
  <2>6. Shape(e) /\ e.av = av /\ SameTypes(d, e) /\ SameTables(d, e) /\ e.xp = d.xp
        /\ e.permissive_map = d.permissive_map
    BY <2>3, PutAv
  <2> HIDE DEF e
  <2>7. Types(e) = Types(d) /\ TypesPart(e)
    BY <2>3, <2>6, SameTypesPart
  <2>8. Good(e)
    BY <2>3, <2>5, <2>6, <2>7, GoodParts, Zenon DEF SameTables
  <2>. QED BY <2>1, <2>8
<1>. QED BY <1>1, <1>2

(* Division with a positive divisor: numbers of ioctls, places in a product. *)
Quotient(x, L) == x \div L
Remainder(x, L) == x % L

\* Quotient and remainder, as TLA+ defines them.
LEMMA Division ==
    ASSUME NEW L \in Nat \ {0}, NEW x \in Int
    PROVE  /\ Quotient(x, L) \in Int /\ Remainder(x, L) \in 0 .. L - 1
           /\ x = Quotient(x, L) * L + Remainder(x, L)
BY DEF Quotient, Remainder

\* There is one way to write a number with a remainder below the divisor.
LEMMA DivisionUnique ==
    ASSUME NEW L \in Nat \ {0}, NEW v \in Int, NEW f \in 0 .. L - 1
    PROVE  Quotient(v * L + f, L) = v /\ Remainder(v * L + f, L) = f
<1> DEFINE x == v * L + f
           w == Quotient(x, L)
           g == Remainder(x, L)
<1>1. x \in Int /\ v * L \in Int
  OBVIOUS
<1>2. w \in Int /\ g \in 0 .. L - 1 /\ x = w * L + g
  BY <1>1, Division
<1> HIDE DEF w, g
<1>3. w * L \in Int /\ (w - v) * L = f - g
  BY <1>1, <1>2
<1>4. w = v
  <2>1. CASE w - v >= 1
    <3>1. (w - v) * L >= L
      BY <2>1, <1>2
    <3>. QED BY <3>1, <1>2, <1>3
  <2>2. CASE w - v <= -1
    <3>1. (v - w) * L >= L
      BY <2>2, <1>2
    <3>2. (v - w) * L = g - f
      BY <1>1, <1>2
    <3>. QED BY <3>1, <3>2, <1>2
  <2>. QED BY <2>1, <2>2, <1>2
<1>5. g = f
  BY <1>2, <1>4, <1>1
<1>. QED BY <1>4, <1>5 DEF w, g, x

\* An ioctl number is its driver and its function (ioctl_driver, ioctl_func).
LEMMA Split ==
    ASSUME NEW x \in Int
    PROVE  /\ ioctl_driver(x) \in Int /\ ioctl_func(x) \in 0 .. NFun - 1
           /\ x = ioctl_driver(x) * NFun + ioctl_func(x)
BY SepolicyAssumption, Division DEF ioctl_driver, ioctl_func, Quotient, Remainder

\* Driver and function of a number that was put together from them.
LEMMA SplitUnique ==
    ASSUME NEW v \in Int, NEW f \in 0 .. NFun - 1
    PROVE  ioctl_driver(v * NFun + f) = v /\ ioctl_func(v * NFun + f) = f
BY SepolicyAssumption, DivisionUnique DEF ioctl_driver, ioctl_func, Quotient, Remainder

\* Division keeps the order.
LEMMA DriverOrder ==
    ASSUME NEW x \in Int, NEW y \in Int, x <= y
    PROVE  ioctl_driver(x) <= ioctl_driver(y)
<1>. NFun \in Nat /\ NFun > 0
  BY SepolicyAssumption
<1> DEFINE a == ioctl_driver(x)
           b == ioctl_driver(y)
           f == ioctl_func(x)
           g == ioctl_func(y)
<1>1. a \in Int /\ b \in Int /\ f \in 0 .. NFun - 1 /\ g \in 0 .. NFun - 1
      /\ x = a * NFun + f /\ y = b * NFun + g
  BY Split
<1> HIDE DEF a, b, f, g
<1>2. ASSUME a - b >= 1 PROVE FALSE
  <2>1. (a - b) * NFun >= NFun
    BY <1>1, <1>2
  <2>2. (a - b) * NFun = x - y + g - f
    BY <1>1
  <2>. QED BY <2>1, <2>2, <1>1
<1>3. a <= b
  BY <1>1, <1>2
<1>. QED BY <1>3 DEF a, b

\* A 16 bit ioctl has a driver and a function of 8 bits each.
LEMMA SplitRange ==
    ASSUME NEW x \in Ioctls
    PROVE  ioctl_driver(x) \in Drivers /\ ioctl_func(x) \in Functions
<1>. NFun \in Nat /\ NFun > 0 /\ NDrv \in Nat /\ NDrv > 0
  BY SepolicyAssumption
<1>1. NDrv * NFun \in Nat /\ x \in Int /\ 0 <= x /\ x < NDrv * NFun
  BY DEF Ioctls
<1>2. ioctl_driver(x) \in Int /\ ioctl_func(x) \in 0 .. NFun - 1
      /\ x = ioctl_driver(x) * NFun + ioctl_func(x)
  BY <1>1, Split
<1>3. ioctl_driver(0) = 0 /\ ioctl_driver((NDrv - 1) * NFun + (NFun - 1)) = NDrv - 1
  <2>1. 0 = 0 * NFun + 0
    OBVIOUS
  <2>. QED BY <2>1, SplitUnique
<1>4. x <= (NDrv - 1) * NFun + (NFun - 1) /\ (NDrv - 1) * NFun + (NFun - 1) \in Int
  BY <1>1
<1>5. 0 <= ioctl_driver(x) /\ ioctl_driver(x) <= NDrv - 1
  BY <1>1, <1>3, <1>4, DriverOrder
<1>. QED BY <1>2, <1>5 DEF Drivers, Functions

\* The nodes of a key, those of a key that has none included.
LEMMA NodesOK ==
    ASSUME NEW d, Good(d), NEW k
    PROVE  NodeOK(Nodes(d, k))
<1>1. CASE k \in DOMAIN d.xp
  BY <1>1, GoodParts DEF Nodes, XpPart
<1>2. CASE k \notin DOMAIN d.xp
  <2> DEFINE n == [driver |-> {}, func |-> <<>>]
  <2>1. Nodes(d, k) = n /\ n.driver = {} /\ n.func = <<>>
    BY <1>2 DEF Nodes
  <2>2. DOMAIN <<>> = {} /\ <<>> \in [{} -> SUBSET Functions]
    OBVIOUS
  <2>. QED BY <2>1, <2>2 DEF NodeOK
<1>. QED BY <1>1, <1>2

\* Setting a range keeps drivers and functions in their ranges.
LEMMA SetXpermOK ==
    ASSUME NEW n, NodeOK(n), NEW p \in Xperms
    PROVE  NodeOK(SetXperm(n, p))
<1> DEFINE lo == ioctl_driver(p.low)
           hi == ioctl_driver(p.high)
           functions == IF lo \in DOMAIN n.func THEN n.func[lo] ELSE {}
           more == functions \cup ioctl_func(p.low) .. ioctl_func(p.high)
<1>1. lo \in Drivers /\ hi \in Drivers /\ ioctl_func(p.low) \in Functions /\ ioctl_func(p.high) \in Functions
  BY SplitRange DEF Xperms
<1>2. lo .. hi \subseteq Drivers /\ ioctl_func(p.low) .. ioctl_func(p.high) \subseteq Functions
  BY <1>1, SepolicyAssumption DEF Drivers, Functions
<1>3. n = [driver |-> n.driver, func |-> n.func] /\ n.driver \subseteq Drivers
      /\ n.func \in [DOMAIN n.func -> SUBSET Functions] /\ DOMAIN n.func \subseteq Drivers
  BY DEF NodeOK
<1>4. more \subseteq Functions
  BY <1>2, <1>3
<1>5. CASE lo # hi
  <2>1. SetXperm(n, p) = [n EXCEPT !.driver = @ \cup lo .. hi]
    BY <1>5 DEF SetXperm
  <2>2. SetXperm(n, p) = [driver |-> n.driver \cup lo .. hi, func |-> n.func]
    BY <2>1, <1>3, Zenon
  <2>. QED BY <2>2, <1>2, <1>3 DEF NodeOK
<1>6. CASE lo = hi
  <2> DEFINE g == With(n.func, lo, more)
  <2>1. SetXperm(n, p) = [n EXCEPT !.func = g]
    BY <1>6 DEF SetXperm
  <2>2. DOMAIN g = DOMAIN n.func \cup {lo} /\ g \in [DOMAIN g -> SUBSET Functions]
    BY <1>3, <1>4 DEF With
  <2> HIDE DEF g
  <2>3. SetXperm(n, p) = [driver |-> n.driver, func |-> g]
    BY <2>1, <1>3, Zenon
  <2>. QED BY <2>2, <2>3, <1>1, <1>3 DEF NodeOK
<1>. QED BY <1>5, <1>6

\* Resetting to the complement of a range does too.
LEMMA ResetXpermOK ==
    ASSUME NEW n, NEW p \in Xperms
    PROVE  NodeOK(ResetXperm(n, p))
<1> DEFINE lo == ioctl_driver(p.low)
           hi == ioctl_driver(p.high)
           rest == Functions \ ioctl_func(p.low) .. ioctl_func(p.high)
           g == IF lo # hi THEN <<>> ELSE [v \in {lo} |-> rest]
<1>1. lo \in Drivers
  BY SplitRange DEF Xperms
<1>2. ResetXperm(n, p) = [driver |-> Drivers \ lo .. hi, func |-> g]
  BY DEF ResetXperm
<1>3. g \in [DOMAIN g -> SUBSET Functions] /\ DOMAIN g \subseteq Drivers
  <2>1. CASE lo # hi
    <3>1. DOMAIN <<>> = {} /\ <<>> \in [{} -> SUBSET Functions]
      OBVIOUS
    <3>. QED BY <2>1, <3>1
  <2>2. CASE lo = hi
    BY <2>2, <1>1
  <2>. QED BY <2>1, <2>2
<1> HIDE DEF g
<1>. QED BY <1>2, <1>3 DEF NodeOK

\* add_xperm_rule leaves a well formed policy well formed.
LEMMA AddXpermGood ==
    ASSUME NEW d, Good(d), NEW r, r.effect \in XpermOps, r.x \in Xperms
    PROVE  Good(add_xperm_rule(d, r))
<1>1. CASE ~ (d.xperms /\ Known(d, r.s) /\ Known(d, r.t) /\ KnownClass(r.c))
  BY <1>1 DEF add_xperm_rule
<1>2. CASE d.xperms /\ Known(d, r.s) /\ Known(d, r.t) /\ KnownClass(r.c)
  <2> DEFINE keys == Keys(d, r, FALSE)
             New(k) == IF r.x.reset THEN ResetXperm(Nodes(d, k), r.x)
                                    ELSE SetXperm(Nodes(d, k), r.x)
             xp == [k \in keys \cup DOMAIN d.xp |-> IF k \in keys THEN New(k) ELSE d.xp[k]]
             e == [d EXCEPT !.xp = xp]
  <2>1. add_xperm_rule(d, r) = e
    BY <1>2 DEF add_xperm_rule
  <2>2. keys \subseteq Types(d) \X Types(d) \X Classes \X XpermOps
    <3>1. keys \subseteq Types(d) \X Types(d) \X Classes \X {r.effect}
      BY <1>2, KeysTyped, Zenon
    <3>. QED BY <3>1
  <2>3. Shape(d) /\ TypesPart(d) /\ d.permissive_map \subseteq Types(d) /\ AvPart(Types(d), d.av)
        /\ XpPart(Types(d), d.xp) /\ TyPart(d.ty) /\ GenfsPart(d.genfs)
    BY GoodParts
  <2>4. ASSUME NEW k PROVE NodeOK(New(k))
    BY NodesOK, SetXpermOK, ResetXpermOK
  <2>5. XpPart(Types(d), xp)
    <3> HIDE DEF New, keys
    <3>1. Is(xp) /\ DOMAIN xp = keys \cup DOMAIN d.xp
      BY DEF Is
    <3>2. DOMAIN xp \subseteq Types(d) \X Types(d) \X Classes \X XpermOps
      BY <3>1, <2>2, <2>3 DEF XpPart
    <3>3. ASSUME NEW k \in DOMAIN xp PROVE NodeOK(xp[k])
      BY <3>3, <2>3, <2>4, <3>1, Zenon DEF XpPart
    <3>. QED BY <3>1, <3>2, <3>3 DEF XpPart
  <2> HIDE DEF xp
  <2>6. Shape(e) /\ e.xp = xp /\ SameTypes(d, e) /\ SameTables(d, e) /\ e.av = d.av
        /\ e.permissive_map = d.permissive_map
    BY <2>3, PutXp
  <2> HIDE DEF e
  <2>7. Types(e) = Types(d) /\ TypesPart(e)
    BY <2>3, <2>6, SameTypesPart
  <2>8. Good(e)
    BY <2>3, <2>5, <2>6, <2>7, GoodParts, Zenon DEF SameTables
  <2>. QED BY <2>1, <2>8
<1>. QED BY <1>1, <1>2

\* With makes a function, of one more argument at most.
LEMMA WithFunction ==
    ASSUME NEW f, NEW k, NEW v
    PROVE  Is(With(f, k, v)) /\ DOMAIN With(f, k, v) = DOMAIN f \cup {k}
BY DEF With, Is

\* So do add_type_rule, add_genfscon and set_type_state.
LEMMA TableGood ==
    ASSUME NEW d, Good(d), NEW r
    PROVE  Good(add_type_rule(d, r)) /\ Good(add_genfscon(d, r)) /\ Good(set_type_state(d, r))
<1>1. Shape(d) /\ TypesPart(d) /\ d.permissive_map \subseteq Types(d) /\ AvPart(Types(d), d.av)
      /\ XpPart(Types(d), d.xp) /\ TyPart(d.ty) /\ GenfsPart(d.genfs)
  BY GoodParts
<1>2. Good(add_type_rule(d, r))
  <2> DEFINE ty == With(d.ty, <<r.s, r.t, r.c, r.effect>>, r.def)
             e == [d EXCEPT !.ty = ty]
  <2>1. add_type_rule(d, r) = d \/ add_type_rule(d, r) = e
    BY Zenon DEF add_type_rule
  <2>2. TyPart(ty)
    <3> DEFINE key == <<r.s, r.t, r.c, r.effect>>
    <3>1. key = <<key[1], key[2], key[3], key[4]>>
      OBVIOUS
    <3> HIDE DEF key
    <3>2. Is(With(d.ty, key, r.def)) /\ DOMAIN With(d.ty, key, r.def) = DOMAIN d.ty \cup {key}
      BY WithFunction, Zenon
    <3>3. TyPart(With(d.ty, key, r.def))
      BY <1>1, <3>1, <3>2, Zenon DEF TyPart
    <3>. QED BY <3>3 DEF key
  <2> HIDE DEF ty
  <2>3. Shape(e) /\ e.ty = ty /\ SameTypes(d, e) /\ e.xperms = d.xperms /\ e.genfs = d.genfs
        /\ e.av = d.av /\ e.xp = d.xp /\ e.permissive_map = d.permissive_map
    BY <1>1, PutTy
  <2> HIDE DEF e
  <2>4. Types(e) = Types(d) /\ TypesPart(e)
    BY <1>1, <2>3, SameTypesPart
  <2>5. Good(e)
    BY <1>1, <2>2, <2>3, <2>4, GoodParts, Zenon
  <2>. QED BY <2>1, <2>5
<1>3. Good(add_genfscon(d, r))
  <2> DEFINE genfs == With(d.genfs, <<r.fs, r.path>>, r.ctx)
             e == [d EXCEPT !.genfs = genfs]
  <2>1. add_genfscon(d, r) = d \/ add_genfscon(d, r) = e
    BY Zenon DEF add_genfscon
  <2>2. GenfsPart(genfs)
    <3> DEFINE key == <<r.fs, r.path>>
    <3>1. key = <<key[1], key[2]>>
      OBVIOUS
    <3> HIDE DEF key
    <3>2. Is(With(d.genfs, key, r.ctx)) /\ DOMAIN With(d.genfs, key, r.ctx) = DOMAIN d.genfs \cup {key}
      BY WithFunction, Zenon
    <3>3. GenfsPart(With(d.genfs, key, r.ctx))
      BY <1>1, <3>1, <3>2, Zenon DEF GenfsPart
    <3>. QED BY <3>3 DEF key
  <2> HIDE DEF genfs
  <2>3. Shape(e) /\ e.genfs = genfs /\ SameTypes(d, e) /\ e.xperms = d.xperms /\ e.ty = d.ty
        /\ e.av = d.av /\ e.xp = d.xp /\ e.permissive_map = d.permissive_map
    BY <1>1, PutGenfs
  <2> HIDE DEF e
  <2>4. Types(e) = Types(d) /\ TypesPart(e)
    BY <1>1, <2>3, SameTypesPart
  <2>5. Good(e)
    BY <1>1, <2>2, <2>3, <2>4, GoodParts, Zenon
  <2>. QED BY <2>1, <2>5
<1>4. Good(set_type_state(d, r))
  <2> DEFINE named == IF r.s = Wild THEN Types(d) ELSE {r.s} \cap Types(d)
             map == IF r.permissive THEN d.permissive_map \cup named ELSE d.permissive_map \ named
             e == [d EXCEPT !.permissive_map = map]
  <2>1. set_type_state(d, r) = e
    BY Zenon DEF set_type_state
  <2>2. map \subseteq Types(d)
    BY <1>1
  <2> HIDE DEF map
  <2>3. Shape(e) /\ e.permissive_map = map /\ SameTypes(d, e) /\ SameTables(d, e)
        /\ e.av = d.av /\ e.xp = d.xp
    BY <1>1, PutPermissive
  <2> HIDE DEF e
  <2>4. Types(e) = Types(d) /\ TypesPart(e)
    BY <1>1, <2>3, SameTypesPart
  <2>5. Good(e)
    BY <1>1, <2>2, <2>3, <2>4, GoodParts, Zenon DEF SameTables
  <2>. QED BY <2>1, <2>5
<1>. QED BY <1>2, <1>3, <1>4

\* Tables keyed by the types of a policy stay so when it gets another type.
LEMMA PartsGrow ==
    ASSUME NEW T, NEW U, T \subseteq U, NEW av, NEW xp
    PROVE  (AvPart(T, av) => AvPart(U, av)) /\ (XpPart(T, xp) => XpPart(U, xp))
<1>1. ASSUME NEW D, NEW R, D \subseteq T \X T \X Classes \X R PROVE D \subseteq U \X U \X Classes \X R
  BY <1>1
<1>. QED BY <1>1, Zenon DEF AvPart, XpPart

\* A new type is in all the maps.
LEMMA AddTypeGood ==
    ASSUME NEW d, Good(d), NEW name, name # Wild, NEW flavor
    PROVE  LET e == add_type(d, name, flavor) IN
           Good(e) /\ name \in Types(e) /\ Types(d) \subseteq Types(e)
<1>1. CASE name \in Types(d)
  BY <1>1 DEF add_type
<1>2. CASE name \notin Types(d)
  <2> DEFINE T == With(d.types, name, flavor)
             A == With(d.type_attr_map, name, {name})
             B == With(d.attr_type_map, name, {})
             R == d.role_types \cup {name}
             e == [d EXCEPT !.types = T, !.type_attr_map = A, !.attr_type_map = B, !.role_types = R]
  <2>1. add_type(d, name, flavor) = e
    BY <1>2, Zenon DEF add_type
  <2>2. Shape(d) /\ TypesPart(d) /\ d.permissive_map \subseteq Types(d) /\ AvPart(Types(d), d.av)
        /\ XpPart(Types(d), d.xp) /\ TyPart(d.ty) /\ GenfsPart(d.genfs)
    BY GoodParts
  <2>3. DOMAIN T = Types(d) \cup {name} /\ \A n \in Types(d) : T[n] = d.types[n]
    BY <1>2 DEF With, Types
  <2>4. /\ A \in [Types(d) \cup {name} -> SUBSET (Types(d) \cup {name})]
        /\ A[name] = {name} /\ \A n \in Types(d) : A[n] = d.type_attr_map[n]
    BY <1>2, <2>2 DEF With, TypesPart
  <2>5. /\ B \in [Types(d) \cup {name} -> SUBSET (Types(d) \cup {name})]
        /\ B[name] = {} /\ \A n \in Types(d) : B[n] = d.attr_type_map[n]
    BY <1>2, <2>2 DEF With, TypesPart
  <2> HIDE DEF T, A, B
  <2>6. /\ Shape(e) /\ e.types = T /\ e.type_attr_map = A /\ e.attr_type_map = B /\ e.role_types = R
        /\ e.names = d.names /\ SameTables(d, e)
        /\ e.av = d.av /\ e.xp = d.xp /\ e.permissive_map = d.permissive_map
    <3>1. e = PolicyWithType(d, T, A, B, R)
      BY DEF PolicyWithType
    <3> HIDE DEF e, R
    <3>. QED BY <2>2, <3>1, PutType
  <2> HIDE DEF e
  <2>7. Types(e) = Types(d) \cup {name} /\ Attributes(d) \subseteq Attributes(e)
        /\ Types(e) \ Attributes(e) \subseteq (Types(d) \ Attributes(d)) \cup {name}
    BY <2>3, <2>6 DEF Types, Attributes
  <2>8. MapsAgree(e)
    <3>1. ASSUME NEW type \in Types(e), NEW attr \in Types(e), type # attr
          PROVE  attr \in A[type] <=> type \in B[attr]
      <4>1. CASE type = name
        BY <4>1, <3>1, <2>2, <2>4, <2>5, <2>7, <1>2 DEF TypesPart
      <4>2. CASE attr = name
        BY <4>2, <3>1, <2>2, <2>4, <2>5, <2>7, <1>2 DEF TypesPart
      <4>3. CASE type \in Types(d) /\ attr \in Types(d)
        BY <4>3, <3>1, <2>2, <2>4, <2>5 DEF TypesPart, MapsAgree
      <4>. QED BY <4>1, <4>2, <4>3, <3>1, <2>7
    <3>2. ASSUME NEW type \in Types(e) PROVE type \in A[type] /\ A[type] \subseteq Attributes(e) \cup {type}
      BY <2>2, <2>4, <2>7 DEF TypesPart, MapsAgree
    <3>3. Types(e) \ Stock \subseteq R
      BY <2>2, <2>7 DEF TypesPart, MapsAgree
    <3>. QED BY <3>1, <3>2, <3>3, <2>6, Zenon DEF MapsAgree
  <2>9. ConstraintsFollow(e)
    <3>1. ASSUME NEW type \in Types(e) \ Attributes(e), A[type] \cap Constrained # {}
          PROVE  type \in d.names
      BY <3>1, <2>2, <2>4, <2>7, <1>2 DEF TypesPart, ConstraintsFollow
    <3>. QED BY <3>1, <2>6, Zenon DEF ConstraintsFollow
  <2>10. TypesPart(e)
    BY <2>2, <2>4, <2>5, <2>6, <2>7, <2>8, <2>9 DEF TypesPart
  <2>11. AvPart(Types(e), d.av) /\ XpPart(Types(e), d.xp)
    <3>1. Types(d) \subseteq Types(e)
      BY <2>7
    <3>. QED BY <3>1, <2>2, PartsGrow
  <2>12. d.permissive_map \subseteq Types(e)
    BY <2>2, <2>7
  <2>13. Good(e)
    BY <2>2, <2>6, <2>10, <2>11, <2>12, GoodParts, Zenon DEF SameTables
  <2>. QED BY <2>1, <2>7, <2>13
<1>. QED BY <1>1, <1>2

\* Giving an attribute reaches both maps and the constraints.
LEMMA TypeAttributeGood ==
    ASSUME NEW d, Good(d), NEW type, NEW attr
    PROVE  Good(add_typeattribute(d, type, attr))
<1>1. CASE ~ CanBeGiven(d, type, attr)
  BY <1>1 DEF add_typeattribute
<1>2. CASE CanBeGiven(d, type, attr)
  <2> DEFINE N == IF attr \in Constrained THEN d.names \cup {type} ELSE d.names
             A == Given(d.type_attr_map, type, attr)
             B == Given(d.attr_type_map, attr, type)
             e == [d EXCEPT !.type_attr_map[type] = @ \cup {attr}, !.attr_type_map[attr] = @ \cup {type},
                            !.names = N]
  <2>1. add_typeattribute(d, type, attr) = e
    BY <1>2, Zenon DEF add_typeattribute
  <2>2. Shape(d) /\ TypesPart(d) /\ d.permissive_map \subseteq Types(d) /\ AvPart(Types(d), d.av)
        /\ XpPart(Types(d), d.xp) /\ TyPart(d.ty) /\ GenfsPart(d.genfs)
    BY GoodParts
  <2> HIDE DEF N
  <2>3. /\ Shape(e) /\ e.types = d.types /\ e.type_attr_map = A /\ e.attr_type_map = B /\ e.names = N
        /\ e.role_types = d.role_types /\ SameTables(d, e)
        /\ e.av = d.av /\ e.xp = d.xp /\ e.permissive_map = d.permissive_map
    <3>1. e = PolicyWithAttr(d, type, attr, N)
      BY DEF PolicyWithAttr
    <3> HIDE DEF e
    <3>. QED BY <2>2, <3>1, PutAttr
  <2> USE DEF N
  <2> HIDE DEF e
  <2>4. Types(e) = Types(d) /\ Attributes(e) = Attributes(d)
    BY <2>3 DEF Types, Attributes
  <2>5. type \in Types(d) \ Attributes(d) /\ attr \in Attributes(d) /\ attr \in Types(d) /\ type # attr
    BY <1>2 DEF CanBeGiven
  <2>6. /\ A \in [Types(d) -> SUBSET Types(d)] /\ B \in [Types(d) -> SUBSET Types(d)]
        /\ A[type] = d.type_attr_map[type] \cup {attr}
        /\ B[attr] = d.attr_type_map[attr] \cup {type}
        /\ \A n \in Types(d) : (n # type => A[n] = d.type_attr_map[n]) /\ (n # attr => B[n] = d.attr_type_map[n])
    BY <2>2, <2>5 DEF TypesPart, Given
  <2> HIDE DEF A, B
  <2>7. MapsAgree(e)
    <3>1. ASSUME NEW t \in Types(d), NEW a \in Types(d), t # a PROVE a \in A[t] <=> t \in B[a]
      <4>1. a \in d.type_attr_map[t] <=> t \in d.attr_type_map[a]
        BY <3>1, <2>2 DEF TypesPart, MapsAgree
      <4>2. a \in A[t] <=> (a \in d.type_attr_map[t] \/ (t = type /\ a = attr))
        BY <2>6
      <4>3. t \in B[a] <=> (t \in d.attr_type_map[a] \/ (t = type /\ a = attr))
        BY <2>6
      <4>. QED BY <4>1, <4>2, <4>3
    <3>2. ASSUME NEW t \in Types(d) PROVE t \in A[t] /\ A[t] \subseteq Attributes(d) \cup {t}
      BY <2>2, <2>5, <2>6 DEF TypesPart, MapsAgree
    <3>3. Types(d) \ Stock \subseteq d.role_types
      BY <2>2 DEF TypesPart, MapsAgree
    <3>. QED BY <3>1, <3>2, <3>3, <2>3, <2>4, Zenon DEF MapsAgree
  <2>8. ConstraintsFollow(e)
    <3>1. ASSUME NEW t \in Types(d) \ Attributes(d), A[t] \cap Constrained # {} PROVE t \in N
      <4>1. d.type_attr_map[t] \cap Constrained # {} => t \in d.names
        BY <2>2 DEF TypesPart, ConstraintsFollow
      <4>. QED BY <3>1, <4>1, <2>6
    <3>. QED BY <3>1, <2>3, <2>4, Zenon DEF ConstraintsFollow
  <2>9. TypesPart(e)
    BY <2>2, <2>3, <2>4, <2>5, <2>6, <2>7, <2>8 DEF TypesPart
  <2>10. Good(e)
    BY <2>2, <2>3, <2>4, <2>9, GoodParts, Zenon DEF SameTables
  <2>. QED BY <2>1, <2>10
<1>. QED BY <1>1, <1>2

(* The single rules of a statement. *)

\* A list as a function on 1 .. n.
Listing(f, n) == n \in Nat /\ f = [i \in 1 .. n |-> f[i]]
Elements(f) == {f[i] : i \in DOMAIN f}

\* A function on 1 .. n is a sequence of length n.
LEMMA ListingSeq ==
    ASSUME NEW f, NEW n, Listing(f, n)
    PROVE  f \in Seq(Elements(f)) /\ Len(f) = n /\ DOMAIN f = 1 .. n
<1>1. n \in Nat /\ DOMAIN f = 1 .. n /\ f = [i \in 1 .. n |-> f[i]]
  BY DEF Listing
<1>2. \A i \in 1 .. n : f[i] \in Elements(f)
  BY <1>1 DEF Elements
<1>3. [i \in 1 .. n |-> f[i]] \in Seq(Elements(f)) /\ Len([i \in 1 .. n |-> f[i]]) = n
  BY <1>1, <1>2
<1>. QED BY <1>1, <1>3

\* A sequence is a function on 1 .. Len.
LEMMA SeqListing ==
    ASSUME NEW S, NEW f \in Seq(S)
    PROVE  Listing(f, Len(f))
BY DEF Listing

\* An empty list of names is one wildcard (expand of api.cpp).
LEMMA VecListing ==
    ASSUME NEW v, List(v)
    PROVE  /\ List(Vec(v)) /\ Len(Vec(v)) \in Nat
           /\ Listing(Vec(v), Len(Vec(v))) /\ DOMAIN Vec(v) = 1 .. Len(Vec(v))
<1>1. List(Vec(v))
  <2>1. CASE v = <<>>
    <3>1. Vec(v) = <<Wild>> /\ <<Wild>> \in Seq({Wild})
      BY <2>1 DEF Vec
    <3>2. Listing(<<Wild>>, Len(<<Wild>>))
      BY <3>1, SeqListing
    <3>. QED BY <3>1, <3>2 DEF List, Listing
  <2>2. CASE v # <<>>
    BY <2>2 DEF Vec
  <2>. QED BY <2>1, <2>2
<1>2. Listing(Vec(v), Len(Vec(v))) /\ Len(Vec(v)) \in Nat
  BY <1>1 DEF List, Listing
<1>. QED BY <1>1, <1>2, ListingSeq

\* The product of two lists: length, and the element at each place.
LEMMA ProductListing ==
    ASSUME NEW A, NEW B, Len(A) \in Nat, Len(B) \in Nat
    PROVE  /\ Listing(Product(A, B), Len(A) * Len(B))
           /\ Len(Product(A, B)) = Len(A) * Len(B) /\ Len(Product(A, B)) \in Nat
           /\ DOMAIN Product(A, B) = 1 .. Len(A) * Len(B)
           /\ \A i \in 1 .. Len(A) * Len(B) :
                 /\ Product(A, B)[i][1] = A[((i - 1) \div Len(B)) + 1]
                 /\ Product(A, B)[i][2] = B[((i - 1) % Len(B)) + 1]
<1>1. Len(A) * Len(B) \in Nat
  OBVIOUS
<1> DEFINE n == Len(A) * Len(B)
<1>2. Listing(Product(A, B), n)
  BY <1>1 DEF Listing, Product
<1>3. \A i \in 1 .. n : /\ Product(A, B)[i][1] = A[((i - 1) \div Len(B)) + 1]
                        /\ Product(A, B)[i][2] = B[((i - 1) % Len(B)) + 1]
  BY DEF Product
<1>. QED BY <1>1, <1>2, <1>3, ListingSeq

\* What a rule of a statement is.
RuleOf(st, r) ==
    /\ r.op = "add_rule" =>
          /\ st.op \in DOMAIN AvEffects /\ r.effect = AvEffects[st.op]
          /\ r.invert <=> st.op \in {"deny", "dontaudit"}
    /\ r.op = "add_xperm_rule" => /\ st.op \in XpermOps /\ r.effect = st.op /\ r.x \in Xperms
                                  /\ \E j \in DOMAIN st.x : r.x = st.x[j]
    /\ r.op \in {"type", "attribute"} => r.s # Wild
    /\ st.op \in DOMAIN AvEffects => r.op = "add_rule"
    /\ st.op \in XpermOps => r.op = "add_xperm_rule"

Expanded(st) ==
    /\ expand(st) \in Seq(Elements(expand(st))) /\ DOMAIN expand(st) = 1 .. Len(expand(st))
    /\ \A i \in DOMAIN expand(st) : RuleOf(st, expand(st)[i])

\* How Expanded is shown: give the length and each rule.
LEMMA ExpandedList ==
    ASSUME NEW st, NEW n, Listing(expand(st), n), \A i \in 1 .. n : RuleOf(st, expand(st)[i])
    PROVE  Expanded(st) /\ Len(expand(st)) = n
BY ListingSeq DEF Expanded

\* The product of the three lists every access rule has.
Triples(st) == Product(Product(Vec(st.s), Vec(st.t)), Vec(st.c))

\* The product of source, target and class has a length.
LEMMA TriplesListing ==
    ASSUME NEW st, List(st.s), List(st.t), List(st.c)
    PROVE  Len(Triples(st)) \in Nat
<1>1. Len(Vec(st.s)) \in Nat /\ Len(Vec(st.t)) \in Nat /\ Len(Vec(st.c)) \in Nat
  BY VecListing
<1>2. Len(Product(Vec(st.s), Vec(st.t))) \in Nat
  BY <1>1, ProductListing
<1>. QED BY <1>1, <1>2, ProductListing DEF Triples

AvRule(x, effect, invert) ==
    [op |-> "add_rule", s |-> x[1][1][1], t |-> x[1][1][2], c |-> x[1][2], p |-> x[2],
     effect |-> effect, invert |-> invert]
XpermRule(x, effect) ==
    [op |-> "add_xperm_rule", s |-> x[1][1][1], t |-> x[1][1][2], c |-> x[1][2], x |-> x[2],
     effect |-> effect]

\* The fields of a single access rule.
LEMMA AvRuleFields ==
    ASSUME NEW x, NEW effect, NEW invert, NEW r, r = AvRule(x, effect, invert)
    PROVE  /\ r.op = "add_rule" /\ r.effect = effect /\ r.invert = invert
           /\ r.s = x[1][1][1] /\ r.t = x[1][1][2] /\ r.c = x[1][2] /\ r.p = x[2]
BY DEF AvRule

\* The rules of allow, deny, auditallow and dontaudit.
LEMMA AvExpand ==
    ASSUME NEW st, Parsed(st), st.op \in DOMAIN AvEffects
    PROVE  Expanded(st)
<1> DEFINE all == Product(Triples(st), Vec(st.p))
           effect == AvEffects[st.op]
           invert == st.op \in {"deny", "dontaudit"}
<1>1. List(st.s) /\ List(st.t) /\ List(st.c) /\ List(st.p)
  BY DEF Parsed
<1>2. Len(all) \in Nat /\ DOMAIN all = 1 .. Len(all)
  <2>1. Len(Vec(st.p)) \in Nat /\ Len(Triples(st)) \in Nat
    BY <1>1, VecListing, TriplesListing
  <2>. QED BY <2>1, ProductListing
<1>3. expand(st) = AvRules(st)
  <2>1. DOMAIN AvEffects = {"allow", "deny", "auditallow", "dontaudit"}
    BY DEF AvEffects
  <2>2. st.op \notin XpermOps /\ st.op \notin {"type", "typeattribute"} /\ st.op \notin {"permissive", "enforce"}
    BY <2>1 DEF XpermOps
  <2>. QED BY <2>2 DEF expand
<1>4. AvRules(st) = [i \in DOMAIN all |-> AvRule(all[i], effect, invert)]
  BY Zenon DEF AvRules, AvRule, Triples
<1> HIDE DEF all, effect, invert
<1>5. Listing(expand(st), Len(all))
      /\ \A i \in 1 .. Len(all) : expand(st)[i] = AvRule(all[i], effect, invert)
  BY <1>2, <1>3, <1>4 DEF Listing
<1>6. ASSUME NEW i \in 1 .. Len(all) PROVE RuleOf(st, expand(st)[i])
  <2>1. expand(st)[i].op = "add_rule" /\ expand(st)[i].effect = effect /\ expand(st)[i].invert = invert
    BY <1>5, AvRuleFields
  <2>2. expand(st)[i].invert <=> st.op \in {"deny", "dontaudit"}
    BY <2>1, Zenon DEF invert
  <2>. QED BY <2>1, <2>2 DEF RuleOf, AvEffects, XpermOps, effect
<1>. QED BY <1>5, <1>6, ExpandedList

\* The fields of a single extended permission rule.
LEMMA XpermRuleFields ==
    ASSUME NEW x, NEW effect, NEW r, r = XpermRule(x, effect)
    PROVE  /\ r.op = "add_xperm_rule" /\ r.effect = effect /\ r.x = x[2]
           /\ r.s = x[1][1][1] /\ r.t = x[1][1][2] /\ r.c = x[1][2]
BY DEF XpermRule

\* The rules of an extended permission statement: one for each triple and range.
LEMMA XpermExpand ==
    ASSUME NEW st, Parsed(st), st.op \in XpermOps
    PROVE  LET all == Product(Triples(st), st.x) IN
           /\ Expanded(st)
           /\ Len(st.x) \in Nat /\ Len(Triples(st)) \in Nat
           /\ DOMAIN expand(st) = 1 .. Len(Triples(st)) * Len(st.x)
           /\ \A i \in DOMAIN expand(st) : expand(st)[i] = XpermRule(all[i], st.op)
<1> DEFINE all == Product(Triples(st), st.x)
           n == Len(Triples(st)) * Len(st.x)
<1>1. List(st.s) /\ List(st.t) /\ List(st.c) /\ st.x \in Seq(Xperms)
  BY DEF Parsed
<1>2. Len(st.x) \in Nat /\ Len(Triples(st)) \in Nat /\ n \in Nat
  BY <1>1, TriplesListing
<1>3. /\ DOMAIN all = 1 .. n
      /\ \A i \in 1 .. n : all[i][2] = st.x[((i - 1) % Len(st.x)) + 1]
  <2> DEFINE A == Triples(st)
             B == st.x
  <2>1. Len(A) \in Nat /\ Len(B) \in Nat
    BY <1>2
  <2> HIDE DEF A, B
  <2>2. /\ DOMAIN Product(A, B) = 1 .. Len(A) * Len(B)
        /\ \A i \in 1 .. Len(A) * Len(B) : Product(A, B)[i][2] = B[((i - 1) % Len(B)) + 1]
    BY <2>1, ProductListing
  <2>. QED BY <2>2 DEF A, B
<1>4. expand(st) = XpermRules(st)
  <2>1. DOMAIN AvEffects = {"allow", "deny", "auditallow", "dontaudit"}
    BY DEF AvEffects
  <2>2. st.op \notin DOMAIN AvEffects /\ st.op \notin {"type", "typeattribute"}
        /\ st.op \notin {"permissive", "enforce"}
    BY <2>1 DEF XpermOps
  <2>. QED BY <2>2 DEF expand
<1>5. XpermRules(st) = [i \in DOMAIN all |-> XpermRule(all[i], st.op)]
  BY DEF XpermRules, XpermRule, Triples
<1> HIDE DEF all
<1>6. Listing(expand(st), n) /\ \A i \in 1 .. n : expand(st)[i] = XpermRule(all[i], st.op)
  BY <1>2, <1>3, <1>4, <1>5 DEF Listing
<1>7. ASSUME NEW i \in 1 .. n PROVE RuleOf(st, expand(st)[i])
  <2>1. /\ expand(st)[i].op = "add_xperm_rule" /\ expand(st)[i].effect = st.op
        /\ expand(st)[i].x = st.x[((i - 1) % Len(st.x)) + 1]
    <3> DEFINE y == all[i]
               w == ((i - 1) % Len(st.x)) + 1
    <3>1. expand(st)[i] = XpermRule(y, st.op) /\ y[2] = st.x[w]
      BY <1>3, <1>6
    <3> HIDE DEF y, w
    <3>2. expand(st)[i].op = "add_xperm_rule" /\ expand(st)[i].effect = st.op /\ expand(st)[i].x = y[2]
      BY <3>1, XpermRuleFields
    <3>3. expand(st)[i].x = st.x[w]
      BY <3>1, <3>2
    <3>. QED BY <3>2, <3>3 DEF w
  <2>2. Len(st.x) > 0
    <3>1. CASE Len(st.x) = 0
      BY <3>1, <1>2
    <3>. QED BY <3>1, <1>2
  <2>3. ((i - 1) % Len(st.x)) + 1 \in 1 .. Len(st.x)
    <3> DEFINE L == Len(st.x)
    <3>1. L \in Nat /\ L > 0 /\ i - 1 \in Int
      BY <2>2, <1>2
    <3> HIDE DEF L
    <3>2. (i - 1) % L \in 0 .. L - 1
      BY <3>1
    <3>3. ((i - 1) % L) + 1 \in 1 .. L
      BY <3>1, <3>2
    <3>. QED BY <3>3 DEF L
  <2>4. expand(st)[i].x \in Xperms /\ \E j \in DOMAIN st.x : expand(st)[i].x = st.x[j]
    BY <2>1, <2>3, <1>1
  <2>5. st.op \notin DOMAIN AvEffects
    BY DEF AvEffects, XpermOps
  <2>. QED BY <2>1, <2>4, <2>5 DEF RuleOf
<1>8. Expanded(st) /\ DOMAIN expand(st) = 1 .. n
  BY <1>6, <1>7, ExpandedList DEF Expanded
<1>. QED BY <1>2, <1>6, <1>8 DEF all

\* One rule for the statements with single names.
LEMMA SingleExpand ==
    ASSUME NEW st, NEW r, expand(st) = <<r>>, RuleOf(st, r)
    PROVE  Expanded(st)
<1>1. <<r>> \in Seq({r}) /\ Len(<<r>>) = 1 /\ <<r>>[1] = r
  OBVIOUS
<1>2. Listing(<<r>>, 1)
  BY <1>1, SeqListing
<1>3. \A i \in 1 .. 1 : RuleOf(st, expand(st)[i])
  BY <1>1
<1>. QED BY <1>2, <1>3, ExpandedList

\* The rules of the statements on types, type rules and genfscon.
LEMMA OtherExpand ==
    ASSUME NEW st, Parsed(st), st.op \notin DOMAIN AvEffects, st.op \notin XpermOps
    PROVE  Expanded(st)
<1>1. CASE st.op \in {"type", "typeattribute"}
  <2> DEFINE all == Product(Vec(st.s), Vec(st.a))
             n == Len(Vec(st.s)) * Len(Vec(st.a))
  <2>1. Len(Vec(st.s)) \in Nat /\ Len(Vec(st.a)) \in Nat /\ DOMAIN Vec(st.s) = 1 .. Len(Vec(st.s))
    BY <1>1, VecListing DEF Parsed
  <2>2. /\ n \in Nat /\ DOMAIN all = 1 .. n
        /\ \A i \in 1 .. n : all[i][1] = Vec(st.s)[((i - 1) \div Len(Vec(st.a))) + 1]
    BY <2>1, ProductListing
  <2>3. expand(st) = TypeRules(st)
    BY <1>1 DEF expand
  <2>4. TypeRules(st) = [i \in DOMAIN all |-> [op |-> st.op, s |-> all[i][1], a |-> all[i][2]]]
    BY DEF TypeRules
  <2> HIDE DEF all
  <2>5. Listing(expand(st), n)
        /\ \A i \in 1 .. n : expand(st)[i].op = st.op /\ expand(st)[i].s = all[i][1]
    BY <2>2, <2>3, <2>4 DEF Listing
  <2>6. ASSUME NEW i \in 1 .. n, st.op = "type" PROVE all[i][1] # Wild
    <3> DEFINE L == Len(Vec(st.a))
               q == (i - 1) \div L
    <3>1. Vec(st.s) = st.s /\ \A j \in DOMAIN st.s : st.s[j] # Wild
      BY <2>6 DEF Parsed, Vec
    <3>2. L > 0
      <4>1. CASE L = 0
        BY <4>1, <2>1
      <4>. QED BY <4>1, <2>1
    <3>3. q \in Int /\ q >= 0 /\ q * L <= i - 1
      BY <3>2, <2>1
    <3> HIDE DEF q
    <3>4. q < Len(Vec(st.s))
      <4>1. ASSUME q >= Len(Vec(st.s)) PROVE FALSE
        <5>1. q * L >= Len(Vec(st.s)) * L
          BY <4>1, <3>2, <3>3, <2>1
        <5>. QED BY <5>1, <3>3, <2>1, <2>2
      <4>. QED BY <4>1, <3>3, <2>1
    <3>5. q + 1 \in DOMAIN st.s
      BY <3>1, <3>3, <3>4, <2>1
    <3>6. all[i][1] = st.s[q + 1]
      BY <2>2, <3>1 DEF q
    <3>. QED BY <3>1, <3>5, <3>6
  <2>7. ASSUME NEW i \in 1 .. n PROVE RuleOf(st, expand(st)[i])
    BY <1>1, <2>5, <2>6 DEF RuleOf
  <2>. QED BY <2>5, <2>7, ExpandedList
<1>2. CASE st.op \in {"permissive", "enforce"}
  <2> DEFINE n == Len(Vec(st.s))
             Rule(i) == [op |-> "set_type_state", s |-> Vec(st.s)[i], permissive |-> st.op = "permissive"]
  <2>1. n \in Nat /\ DOMAIN Vec(st.s) = 1 .. n
    BY <1>2, VecListing DEF Parsed
  <2>2. expand(st) = StateRules(st)
    BY <1>2 DEF expand
  <2>3. StateRules(st) = [i \in DOMAIN Vec(st.s) |-> Rule(i)]
    BY Zenon DEF StateRules
  <2>4. ASSUME NEW i PROVE Rule(i).op = "set_type_state"
    OBVIOUS
  <2> HIDE DEF Rule
  <2>5. Listing(expand(st), n) /\ \A i \in 1 .. n : expand(st)[i] = Rule(i)
    BY <2>1, <2>2, <2>3 DEF Listing
  <2>6. ASSUME NEW i \in 1 .. n PROVE RuleOf(st, expand(st)[i])
    <3>1. expand(st)[i].op = "set_type_state"
      BY <2>4, <2>5
    <3>. QED BY <3>1 DEF RuleOf
  <2>. QED BY <2>5, <2>6, ExpandedList
<1>3. CASE st.op = "attribute"
  <2> DEFINE r == [op |-> "attribute", s |-> st.s[1]]
  <2>1. SingleRule(st) = <<r>>
    BY <1>3 DEF SingleRule
  <2>2. expand(st) = SingleRule(st)
    BY <1>3 DEF expand
  <2>3. RuleOf(st, r)
    BY <1>3 DEF RuleOf, Parsed
  <2>. QED BY <2>1, <2>2, <2>3, SingleExpand
<1>4. CASE st.op \in {"type_rule", "named_transition"}
  <2> DEFINE r == [op |-> st.op, s |-> st.s[1], t |-> st.t[1], c |-> st.c[1], def |-> st.def,
                   effect |-> st.effect]
  <2>1. SingleRule(st) = <<r>>
    BY <1>4 DEF SingleRule
  <2>2. expand(st) = SingleRule(st)
    BY <1>4 DEF expand
  <2>3. RuleOf(st, r)
    BY <1>4 DEF RuleOf
  <2>. QED BY <2>1, <2>2, <2>3, SingleExpand
<1>5. CASE st.op = "genfscon"
  <2>1. SingleRule(st) = <<st>>
    BY <1>5 DEF SingleRule
  <2>2. expand(st) = SingleRule(st)
    BY <1>5 DEF expand
  <2>3. RuleOf(st, st)
    BY <1>5 DEF RuleOf
  <2>. QED BY <2>1, <2>2, <2>3, SingleExpand
<1>. QED BY <1>1, <1>2, <1>3, <1>4, <1>5 DEF Parsed, Ops

\* Every statement the parser accepts expands into rules of its kind.
LEMMA Expands == ASSUME NEW st, Parsed(st) PROVE Expanded(st)
BY AvExpand, XpermExpand, OtherExpand

(* One rule keeps the policy well formed; so does every step. *)
\* One rule, of whatever kind, leaves a well formed policy well formed.
LEMMA DoGood ==
    ASSUME NEW d, Good(d), NEW st, NEW r, RuleOf(st, r)
    PROVE  Good(Do(d, r))
<1>1. CASE r.op = "add_rule"
  <2>1. Do(d, r) = add_rule(d, r)
    BY <1>1 DEF Do
  <2>2. r.effect \in AvEffectNames
    BY <1>1 DEF RuleOf, AvEffects, AvEffectNames
  <2>. QED BY <2>1, <2>2, AddRuleGood
<1>2. CASE r.op = "add_xperm_rule"
  <2>1. Do(d, r) = add_xperm_rule(d, r)
    BY <1>2 DEF Do
  <2>. QED BY <1>2, <2>1, AddXpermGood DEF RuleOf
<1>3. CASE r.op = "type_rule"
  BY <1>3, TableGood DEF Do
<1>4. CASE r.op = "genfscon"
  BY <1>4, TableGood DEF Do
<1>5. CASE r.op = "set_type_state"
  BY <1>5, TableGood DEF Do
<1>6. CASE r.op = "type"
  <2>1. Do(d, r) = add_typeattribute(add_type(d, r.s, "type"), r.s, r.a)
    BY <1>6 DEF Do
  <2>2. Good(add_type(d, r.s, "type"))
    BY <1>6, AddTypeGood DEF RuleOf
  <2>. QED BY <2>1, <2>2, TypeAttributeGood
<1>7. CASE r.op = "typeattribute"
  BY <1>7, TypeAttributeGood DEF Do
<1>8. CASE r.op = "attribute"
  <2>1. Do(d, r) = add_type(d, r.s, "attribute")
    BY <1>8 DEF Do
  <2>. QED BY <1>8, <2>1, AddTypeGood DEF RuleOf
<1>9. CASE r.op \notin {"add_rule", "add_xperm_rule", "type_rule", "genfscon", "set_type_state", "type",
                        "typeattribute", "attribute"}
  <2>1. Do(d, r) = d
    BY <1>9 DEF Do
  <2>. QED BY <2>1
<1>. QED BY <1>1, <1>2, <1>3, <1>4, <1>5, <1>6, <1>7, <1>8, <1>9

\* Which statement is executed, and which of its rules are still to be applied.
Rules == expand(last)
Done == Len(Rules) - Len(todo)
TodoInv ==
    /\ phase \in {"patch", "saved", "failed", "aborted"} /\ count \in 0 .. MaxStatements
    /\ last \in Statements \/ (last = None /\ todo = <<>>)
    /\ last \in Statements =>
          /\ todo \in Seq(Elements(Rules)) /\ Len(todo) <= Len(Rules)
          /\ \A j \in 1 .. Len(todo) : todo[j] = Rules[Done + j]

\* The rule that is applied next is one of the statement being executed.
LEMMA HeadRule ==
    ASSUME TodoInv, todo # <<>>
    PROVE  /\ last \in Statements /\ Parsed(last) /\ Expanded(last)
           /\ todo \in Seq(Elements(Rules)) /\ Len(todo) \in Nat /\ Len(todo) > 0
           /\ Done + 1 \in DOMAIN Rules /\ Head(todo) = Rules[Done + 1]
           /\ RuleOf(last, Head(todo))
<1>1. last \in Statements /\ todo \in Seq(Elements(Rules)) /\ Len(todo) <= Len(Rules)
      /\ \A j \in 1 .. Len(todo) : todo[j] = Rules[Done + j]
  BY DEF TodoInv
<1>2. Parsed(last) /\ Expanded(last)
  BY <1>1, Expands, SepolicyAssumption
<1>3. Rules \in Seq(Elements(Rules)) /\ DOMAIN Rules = 1 .. Len(Rules)
      /\ \A i \in DOMAIN Rules : RuleOf(last, Rules[i])
  BY <1>2 DEF Expanded, Rules
<1>4. Len(Rules) \in Nat /\ Len(todo) \in Nat /\ Len(todo) > 0 /\ Head(todo) = todo[1]
  BY <1>1, <1>3
<1>5. Done + 1 \in DOMAIN Rules /\ Head(todo) = Rules[Done + 1]
  BY <1>1, <1>3, <1>4 DEF Done
<1>. QED BY <1>1, <1>2, <1>3, <1>4, <1>5

\* What is left of a statement is a tail of its rules.
LEMMA TodoKept == ASSUME TodoInv, [Next]_vars PROVE TodoInv'
<1>1. ASSUME NEW st \in Statements, Execute(st) PROVE TodoInv'
  <2>1. last' = st /\ todo' = expand(st) /\ Rules' = expand(st) /\ phase' = phase
        /\ count' = count + 1 /\ count < MaxStatements
    BY <1>1 DEF Execute, Rules
  <2>2. expand(st) \in Seq(Elements(expand(st))) /\ DOMAIN expand(st) = 1 .. Len(expand(st))
    BY Expands, SepolicyAssumption DEF Expanded
  <2>3. Len(expand(st)) \in Nat /\ Done' = 0
    BY <2>1, <2>2 DEF Done
  <2>4. \A j \in 1 .. Len(todo') : todo'[j] = Rules'[Done' + j]
    BY <2>1, <2>2, <2>3
  <2>5. count' \in 0 .. MaxStatements
    BY <2>1, SepolicyAssumption DEF TodoInv
  <2>. QED BY <2>1, <2>2, <2>3, <2>4, <2>5 DEF TodoInv
<1>2. ASSUME todo # <<>>, todo' = Tail(todo), last' = last, count' = count,
             phase' \in {"patch", "saved", "failed", "aborted"}
      PROVE  TodoInv'
  <2>1. /\ last \in Statements /\ todo \in Seq(Elements(Rules)) /\ Len(todo) \in Nat /\ Len(todo) > 0
        /\ Expanded(last)
    BY <1>2, HeadRule
  <2>2. Rules' = Rules
    BY <1>2 DEF Rules
  <2>3. Len(Rules) \in Nat
    BY <2>1 DEF Expanded, Rules
  <2>4. /\ todo' \in Seq(Elements(Rules)) /\ Len(todo') = Len(todo) - 1
        /\ \A j \in 1 .. Len(todo') : todo'[j] = todo[j + 1]
    BY <1>2, <2>1
  <2>5. Done' = Done + 1 /\ Done \in Int
    BY <2>1, <2>2, <2>3, <2>4 DEF Done
  <2>6. \A j \in 1 .. Len(todo') : todo'[j] = Rules'[Done' + j]
    <3>1. \A j \in 1 .. Len(todo) : todo[j] = Rules[Done + j]
      BY <2>1 DEF TodoInv
    <3>. SUFFICES ASSUME NEW j \in 1 .. Len(todo') PROVE todo'[j] = Rules'[Done' + j]
      OBVIOUS
    <3>2. j + 1 \in 1 .. Len(todo) /\ Done' + j = Done + (j + 1)
      BY <2>1, <2>4, <2>5
    <3>. QED BY <3>1, <3>2, <2>2, <2>4
  <2>. QED BY <1>2, <2>1, <2>2, <2>3, <2>4, <2>6 DEF TodoInv
<1>3. CASE Apply
  BY <1>2, <1>3 DEF Apply, TodoInv
<1>4. CASE add_filename_trans
  BY <1>2, <1>4 DEF add_filename_trans
<1>5. ASSUME NEW result \in {"old", "empty", "policy"}, to_file(result) PROVE TodoInv'
  BY <1>5 DEF to_file, TodoInv, Rules, Done
<1>6. CASE UNCHANGED vars
  BY <1>6 DEF vars, TodoInv, Rules, Done
<1>. QED BY <1>1, <1>3, <1>4, <1>5, <1>6 DEF Next

PolicyInv == Good(db) /\ TodoInv

\* A loaded policy is well formed.
LEMMA PolicyInvInit == Init => PolicyInv
BY SepolicyAssumption DEF Init, PolicyInv, Good, TodoInv

\* What a step does to the database: nothing, or one rule of the statement.
LEMMA StepOfDb ==
    ASSUME [Next]_vars
    PROVE  \/ db' = db
           \/ /\ todo # <<>> /\ db' = Do(db, Head(todo)) /\ todo' = Tail(todo) /\ last' = last
BY DEF Next, vars, Execute, Apply, add_filename_trans, to_file

\* Every step leaves the policy well formed.
LEMMA PolicyInvKept == PolicyInv /\ [Next]_vars => PolicyInv'
<1>. SUFFICES ASSUME PolicyInv, [Next]_vars PROVE PolicyInv'
  OBVIOUS
<1>1. TodoInv'
  BY TodoKept DEF PolicyInv
<1>2. Good(db')
  <2>1. CASE db' = db
    BY <2>1 DEF PolicyInv
  <2>2. CASE todo # <<>> /\ db' = Do(db, Head(todo))
    BY <2>2, HeadRule, DoGood DEF PolicyInv
  <2>. QED BY <2>1, <2>2, StepOfDb
<1>. QED BY <1>1, <1>2 DEF PolicyInv

\* Whatever statements are executed, in any policy libsepol reads: type_attr_map,
\* attr_type_map, the roles and the constraints agree on what attributes every type has,
\* after every single rule (add_type, add_typeattribute).
THEOREM AttributesAlwaysAgree == Spec => []AttributesAgree
<1>1. PolicyInv => AttributesAgree
  BY DEF PolicyInv, Good, TodoInv, AttributesAgree, TypeOK
<1>. QED BY <1>1, PolicyInvInit, PolicyInvKept, PTL DEF Spec

(* Nothing but deny takes an access away. *)
AvGrows(d, e) ==
    \A k \in DOMAIN d.av : k[4] = "allowed" => \A p \in d.av[k] : k \in DOMAIN e.av /\ p \in e.av[k]
MapGrows(d, e) == \A n \in Types(d) : d.type_attr_map[n] \subseteq e.type_attr_map[n]

\* Words and attributes that only grow forbid nothing.
LEMMA GrowsAllowed ==
    ASSUME NEW d, NEW e, AvGrows(d, e), MapGrows(d, e),
           NEW s \in Types(d), NEW t \in Types(d), NEW c, NEW p, Allowed(d, s, t, c, p)
    PROVE  Allowed(e, s, t, c, p)
<1>1. PICK k \in d.type_attr_map[s] \X d.type_attr_map[t] \X {c} \X {"allowed"} :
             k \in DOMAIN d.av /\ p \in d.av[k]
  BY DEF Allowed
<1>2. k[4] = "allowed" /\ k \in e.type_attr_map[s] \X e.type_attr_map[t] \X {c} \X {"allowed"}
  BY DEF MapGrows
<1>3. k \in DOMAIN e.av /\ p \in e.av[k]
  BY <1>1, <1>2 DEF AvGrows
<1>. QED BY <1>2, <1>3 DEF Allowed

\* add_rule, unless it is for deny.
LEMMA AddRuleGrows ==
    ASSUME NEW d, Good(d), NEW r, r.effect = "allowed" => ~ r.invert
    PROVE  AvGrows(d, add_rule(d, r)) /\ SameTypes(d, add_rule(d, r))
<1>1. CASE ~ RuleNames(d, r)
  BY <1>1 DEF add_rule, AvGrows, SameTypes
<1>2. CASE RuleNames(d, r)
  <2> DEFINE keys == Keys(d, r, strip_av(r.effect, r.invert))
             left == {k \in DOMAIN d.av \cup keys : k \in keys => ~ is_redundant(k, NewData(d, k, r))}
             av == [k \in left |-> IF k \in keys THEN NewData(d, k, r) ELSE d.av[k]]
             e == [d EXCEPT !.av = av]
  <2>1. add_rule(d, r) = e
    BY <1>2 DEF add_rule
  <2>2. Shape(d)
    BY GoodParts
  <2>3. ASSUME NEW k \in DOMAIN d.av, k[4] = "allowed", NEW p \in d.av[k]
        PROVE  k \in left /\ p \in av[k]
    <3>1. CASE k \notin keys
      BY <3>1
    <3>2. CASE k \in keys
      <4>1. r.effect = "allowed"
        BY <3>2, <2>3 DEF Keys
      <4>2. NewData(d, k, r) = d.av[k] \cup (IF r.p = Wild THEN AllBits(k[3]) ELSE {r.p})
        BY <4>1 DEF NewData, get_avtab_node
      <4>3. p \in NewData(d, k, r)
        BY <4>2
      <4>4. ~ is_redundant(k, NewData(d, k, r))
        BY <4>3, <2>3 DEF is_redundant, insert_avtab_node
      <4>. QED BY <3>2, <4>3, <4>4
    <3>. QED BY <3>1, <3>2
  <2>4. DOMAIN av = left
    OBVIOUS
  <2> HIDE DEF av
  <2>5. e.av = av /\ SameTypes(d, e)
    BY <2>2, PutAv
  <2>. QED BY <2>1, <2>3, <2>4, <2>5 DEF AvGrows
<1>. QED BY <1>1, <1>2

\* A rule that leaves the types alone takes no attribute away.
LEMMA SameMapGrows ==
    ASSUME NEW d, NEW e, SameTypes(d, e)
    PROVE  MapGrows(d, e)
BY DEF SameTypes, MapGrows

\* A rule that leaves the words alone takes no permission away.
LEMMA SameAvGrows ==
    ASSUME NEW d, NEW e, e.av = d.av
    PROVE  AvGrows(d, e)
BY DEF AvGrows

\* The other rules leave the permission words alone, and take no attribute away.
LEMMA OthersGrow ==
    ASSUME NEW d, Good(d), NEW r
    PROVE  /\ add_xperm_rule(d, r).av = d.av /\ SameTypes(d, add_xperm_rule(d, r))
           /\ add_type_rule(d, r).av = d.av /\ SameTypes(d, add_type_rule(d, r))
           /\ add_genfscon(d, r).av = d.av /\ SameTypes(d, add_genfscon(d, r))
           /\ set_type_state(d, r).av = d.av /\ SameTypes(d, set_type_state(d, r))
<1>1. Shape(d)
  BY GoodParts
<1>2. SameTypes(d, d)
  BY DEF SameTypes
<1>3. add_xperm_rule(d, r) = d \/ \E X : add_xperm_rule(d, r) = [d EXCEPT !.xp = X]
  BY Zenon DEF add_xperm_rule
<1>4. add_type_rule(d, r) = d \/ \E X : add_type_rule(d, r) = [d EXCEPT !.ty = X]
  BY Zenon DEF add_type_rule
<1>5. add_genfscon(d, r) = d \/ \E X : add_genfscon(d, r) = [d EXCEPT !.genfs = X]
  BY Zenon DEF add_genfscon
<1>6. \E X : set_type_state(d, r) = [d EXCEPT !.permissive_map = X]
  BY Zenon DEF set_type_state
<1>7. add_xperm_rule(d, r).av = d.av /\ SameTypes(d, add_xperm_rule(d, r))
  BY <1>1, <1>2, <1>3, PutXp
<1>8. add_type_rule(d, r).av = d.av /\ SameTypes(d, add_type_rule(d, r))
  BY <1>1, <1>2, <1>4, PutTy
<1>9. add_genfscon(d, r).av = d.av /\ SameTypes(d, add_genfscon(d, r))
  BY <1>1, <1>2, <1>5, PutGenfs
<1>10. set_type_state(d, r).av = d.av /\ SameTypes(d, set_type_state(d, r))
  BY <1>1, <1>6, PutPermissive
<1>. QED BY <1>7, <1>8, <1>9, <1>10

\* add_type gives the new type its own bit and leaves the others theirs.
LEMMA AddTypeGrows ==
    ASSUME NEW d, Good(d), NEW name, NEW flavor
    PROVE  LET e == add_type(d, name, flavor) IN e.av = d.av /\ MapGrows(d, e) /\ Types(d) \subseteq Types(e)
<1>1. CASE name \in Types(d)
  BY <1>1 DEF add_type, MapGrows
<1>2. CASE name \notin Types(d)
  <2> DEFINE T == With(d.types, name, flavor)
             A == With(d.type_attr_map, name, {name})
             e == PolicyWithType(d, T, A, With(d.attr_type_map, name, {}), d.role_types \cup {name})
  <2>1. add_type(d, name, flavor) = e
    BY <1>2, Zenon DEF add_type, PolicyWithType
  <2>2. Shape(d) /\ d.type_attr_map \in [Types(d) -> SUBSET Types(d)]
    BY GoodParts DEF TypesPart
  <2>3. e.av = d.av /\ e.types = T /\ e.type_attr_map = A
    BY <2>2, PutType
  <2> HIDE DEF e
  <2>4. Types(d) \subseteq Types(e) /\ \A n \in Types(d) : A[n] = d.type_attr_map[n]
    BY <1>2, <2>2, <2>3 DEF With, Types
  <2>. QED BY <2>1, <2>3, <2>4 DEF MapGrows
<1>. QED BY <1>1, <1>2

\* add_typeattribute takes no attribute away.
LEMMA TypeAttributeGrows ==
    ASSUME NEW d, Good(d), NEW type, NEW attr
    PROVE  LET e == add_typeattribute(d, type, attr) IN e.av = d.av /\ MapGrows(d, e)
<1>1. CASE ~ CanBeGiven(d, type, attr)
  BY <1>1 DEF add_typeattribute, MapGrows
<1>2. CASE CanBeGiven(d, type, attr)
  <2> DEFINE N == IF attr \in Constrained THEN d.names \cup {type} ELSE d.names
             e == PolicyWithAttr(d, type, attr, N)
  <2>1. add_typeattribute(d, type, attr) = e
    BY <1>2, Zenon DEF add_typeattribute, PolicyWithAttr
  <2>2. Shape(d) /\ d.type_attr_map \in [Types(d) -> SUBSET Types(d)]
    BY GoodParts DEF TypesPart
  <2> HIDE DEF N
  <2>3. e.av = d.av /\ e.type_attr_map = Given(d.type_attr_map, type, attr)
    BY <2>2, PutAttr
  <2> HIDE DEF e
  <2>4. \A n \in Types(d) : d.type_attr_map[n] \subseteq Given(d.type_attr_map, type, attr)[n]
    BY <2>2 DEF Given
  <2>. QED BY <2>1, <2>3, <2>4 DEF MapGrows
<1>. QED BY <1>1, <1>2

\* No rule of a statement other than deny takes anything away.
LEMMA DoGrows ==
    ASSUME NEW d, Good(d), NEW st, st.op # "deny", NEW r, RuleOf(st, r)
    PROVE  AvGrows(d, Do(d, r)) /\ MapGrows(d, Do(d, r))
<1>1. CASE r.op = "add_rule"
  <2>1. Do(d, r) = add_rule(d, r)
    BY <1>1 DEF Do
  <2>2. r.effect = "allowed" => ~ r.invert
    BY <1>1 DEF RuleOf, AvEffects
  <2>. QED BY <2>1, <2>2, AddRuleGrows, SameMapGrows
<1>2. CASE r.op \in {"add_xperm_rule", "type_rule", "genfscon", "set_type_state"}
  <2>1. Do(d, r) \in {add_xperm_rule(d, r), add_type_rule(d, r), add_genfscon(d, r), set_type_state(d, r)}
    BY <1>2 DEF Do
  <2>. QED BY <2>1, OthersGrow, SameMapGrows, SameAvGrows
<1>3. CASE r.op = "type"
  <2> DEFINE f == add_type(d, r.s, "type")
             e == add_typeattribute(f, r.s, r.a)
  <2>1. Do(d, r) = e
    BY <1>3 DEF Do
  <2>2. Good(f) /\ f.av = d.av /\ MapGrows(d, f) /\ Types(d) \subseteq Types(f)
    BY <1>3, AddTypeGood, AddTypeGrows DEF RuleOf
  <2> HIDE DEF f
  <2>3. e.av = f.av /\ MapGrows(f, e)
    BY <2>2, TypeAttributeGrows
  <2> HIDE DEF e
  <2>4. MapGrows(d, e)
    BY <2>2, <2>3 DEF MapGrows
  <2>. QED BY <2>1, <2>2, <2>3, <2>4, SameAvGrows
<1>4. CASE r.op = "typeattribute"
  <2>1. Do(d, r) = add_typeattribute(d, r.s, r.a)
    BY <1>4 DEF Do
  <2>. QED BY <2>1, TypeAttributeGrows, SameAvGrows
<1>5. CASE r.op = "attribute"
  <2>1. Do(d, r) = add_type(d, r.s, "attribute")
    BY <1>5 DEF Do
  <2>. QED BY <2>1, AddTypeGrows, SameAvGrows
<1>6. CASE r.op \notin {"add_rule", "add_xperm_rule", "type_rule", "genfscon", "set_type_state", "type",
                        "typeattribute", "attribute"}
  <2>1. Do(d, r) = d
    BY <1>6 DEF Do
  <2>. QED BY <2>1 DEF AvGrows, MapGrows
<1>. QED BY <1>1, <1>2, <1>3, <1>4, <1>5, <1>6

\* No rule but one of a deny forbids an access that was allowed: add_rule that removes a
\* node as redundant, a new type and a new attribute of a type included.
THEOREM NothingElseForbids == Spec => OnlyDenyForbids
<1> DEFINE Only == \A s, t \in Types(db), c \in Classes : \A p \in ClassPerms[c] :
                       Allowed(db, s, t, c, p) /\ ~ Allowed(db', s, t, c, p) => last.op = "deny"
<1>1. ASSUME PolicyInv, [Next]_vars PROVE [Only]_vars
  <2>1. CASE db' = db
    BY <2>1
  <2>2. CASE last.op = "deny"
    BY <2>2
  <2>3. CASE todo # <<>> /\ db' = Do(db, Head(todo)) /\ last.op # "deny"
    <3>1. Good(db) /\ RuleOf(last, Head(todo))
      BY <1>1, <2>3, HeadRule DEF PolicyInv
    <3>2. AvGrows(db, db') /\ MapGrows(db, db')
      BY <2>3, <3>1, DoGrows
    <3>3. ASSUME NEW s \in Types(db), NEW t \in Types(db), NEW c, NEW p, Allowed(db, s, t, c, p)
          PROVE  Allowed(db', s, t, c, p)
      BY <3>2, <3>3, GrowsAllowed
    <3>. QED BY <3>3
  <2>. QED BY <1>1, <2>1, <2>2, <2>3, StepOfDb
<1>. QED BY <1>1, PolicyInvInit, PolicyInvKept, PTL DEF Spec, OnlyDenyForbids

(* What an allow says holds once its rules are applied. *)
AllowedBy(d, r) ==
    RuleNames(d, r) =>
        \A s \in Meant(d, r.s), t \in Meant(d, r.t), c \in ClassRange(r.c) :
            \A p \in IF r.p = Wild THEN ClassPerms[c] ELSE {r.p} : Allowed(d, s, t, c, p)
AllowInv == last \in Statements /\ last.op = "allow" => \A i \in 1 .. Done : AllowedBy(db, Rules[i])

\* A type that is meant by a name has the name, or one of its attributes, in common
\* with what add_rule walks over.
LEMMA MeantIsCovered ==
    ASSUME NEW d, Good(d), NEW n, NEW type \in Meant(d, n)
    PROVE  type \in Types(d) /\ \E a \in Range_(d, n, FALSE) : a \in d.type_attr_map[type]
<1>1. type \in Types(d) \ Attributes(d)
  BY DEF Meant
<1>2. CASE n # Wild
  BY <1>1, <1>2 DEF Meant, Range_
<1>3. CASE n = Wild
  <2>1. d.type_attr_map[type] # {type} /\ Range_(d, n, FALSE) = Attributes(d)
    BY <1>3 DEF Meant, Range_
  <2>2. type \in d.type_attr_map[type] /\ d.type_attr_map[type] \subseteq Attributes(d) \cup {type}
    BY <1>1 DEF Good, MapsAgree
  <2>. QED BY <1>1, <2>1, <2>2
<1>. QED BY <1>2, <1>3

\* After add_rule of an allow, what the rule says is allowed.
LEMMA AddRuleAllows ==
    ASSUME NEW d, Good(d), NEW r, r.effect = "allowed", ~ r.invert
    PROVE  AllowedBy(add_rule(d, r), r)
<1> DEFINE keys == Keys(d, r, FALSE)
           left == {k \in DOMAIN d.av \cup keys : k \in keys => ~ is_redundant(k, NewData(d, k, r))}
           av == [k \in left |-> IF k \in keys THEN NewData(d, k, r) ELSE d.av[k]]
           e == [d EXCEPT !.av = av]
<1>1. Shape(d)
  BY GoodParts
<1>2. e.av = av /\ SameTypes(d, e)
  <2> HIDE DEF av
  <2>. QED BY <1>1, PutAv
<1>3. Types(e) = Types(d) /\ Attributes(e) = Attributes(d) /\ e.type_attr_map = d.type_attr_map
  BY <1>2, SameTypesPart DEF SameTypes
<1>4. CASE ~ RuleNames(d, r)
  BY <1>4 DEF add_rule, AllowedBy
<1>5. CASE RuleNames(d, r)
  <2>1. strip_av(r.effect, r.invert) = FALSE
    BY DEF strip_av
  <2>2. add_rule(d, r) = e
    BY <1>5, <2>1 DEF add_rule
  <2> HIDE DEF e
  <2>3. ASSUME NEW s \in Meant(d, r.s), NEW t \in Meant(d, r.t), NEW c \in ClassRange(r.c),
               NEW p \in IF r.p = Wild THEN ClassPerms[c] ELSE {r.p}
        PROVE  Allowed(e, s, t, c, p)
    <3>1. PICK a \in Range_(d, r.s, FALSE) : a \in d.type_attr_map[s]
      BY MeantIsCovered
    <3>2. PICK b \in Range_(d, r.t, FALSE) : b \in d.type_attr_map[t]
      BY MeantIsCovered
    <3> DEFINE k == <<a, b, c, "allowed">>
    <3>3. k \in keys /\ k[3] = c /\ k[4] = "allowed"
          /\ k \in d.type_attr_map[s] \X d.type_attr_map[t] \X {c} \X {"allowed"}
      BY <3>1, <3>2 DEF Keys
    <3> HIDE DEF k
    <3>4. p \in NewData(d, k, r)
      BY <3>3 DEF NewData, AllBits
    <3>5. ~ is_redundant(k, NewData(d, k, r))
      BY <3>3, <3>4 DEF is_redundant, insert_avtab_node
    <3>6. k \in DOMAIN av /\ av[k] = NewData(d, k, r)
      BY <3>3, <3>5
    <3>. QED BY <1>2, <1>3, <3>3, <3>4, <3>6 DEF Allowed
  <2>4. Meant(e, r.s) = Meant(d, r.s) /\ Meant(e, r.t) = Meant(d, r.t)
    BY <1>3 DEF Meant
  <2>. QED BY <2>2, <2>3, <2>4 DEF AllowedBy
<1>. QED BY <1>4, <1>5

\* A later rule of the same allow forbids nothing an earlier one allowed.
LEMMA AllowedByStays ==
    ASSUME NEW d, NEW e, SameTypes(d, e), AvGrows(d, e), NEW r, AllowedBy(d, r)
    PROVE  AllowedBy(e, r)
<1>1. Types(e) = Types(d) /\ Attributes(e) = Attributes(d) /\ e.type_attr_map = d.type_attr_map
  BY SameTypesPart DEF SameTypes
<1>2. Meant(e, r.s) = Meant(d, r.s) /\ Meant(e, r.t) = Meant(d, r.t)
      /\ Meant(d, r.s) \subseteq Types(d) /\ Meant(d, r.t) \subseteq Types(d)
  BY <1>1 DEF Meant
<1>3. RuleNames(e, r) => RuleNames(d, r)
  BY <1>1 DEF RuleNames, Known
<1>. QED BY <1>2, <1>3, GrowsAllowed, SameMapGrows DEF AllowedBy

\* A step starts a statement, applies its next rule, or leaves both alone.
LEMMA DoneSteps ==
    ASSUME PolicyInv, [Next]_vars
    PROVE  \/ /\ last' \in Statements /\ Rules' = expand(last') /\ Done' = 0
           \/ /\ todo # <<>> /\ last' = last /\ Rules' = Rules /\ Done \in Nat /\ Done' = Done + 1
              /\ todo' = Tail(todo)
              /\ Head(todo) = Rules[Done + 1] /\ RuleOf(last, Head(todo))
              /\ Head(todo).op # "named_transition" => db' = Do(db, Head(todo))
           \/ last' = last /\ Rules' = Rules /\ Done' = Done /\ db' = db
<1>1. ASSUME NEW st \in Statements, Execute(st)
      PROVE  last' \in Statements /\ Rules' = expand(last') /\ Done' = 0
  <2>1. expand(st) \in Seq(Elements(expand(st)))
    BY Expands, SepolicyAssumption DEF Expanded
  <2>. QED BY <1>1, <2>1 DEF Execute, Rules, Done
<1>2. ASSUME todo # <<>>, todo' = Tail(todo), last' = last
      PROVE  /\ Rules' = Rules /\ Done \in Nat /\ Done' = Done + 1
             /\ Head(todo) = Rules[Done + 1] /\ RuleOf(last, Head(todo))
  <2>1. /\ todo \in Seq(Elements(Rules)) /\ Len(todo) \in Nat /\ Len(todo) > 0 /\ Expanded(last)
        /\ Done + 1 \in DOMAIN Rules /\ Head(todo) = Rules[Done + 1] /\ RuleOf(last, Head(todo))
    BY <1>2, HeadRule DEF PolicyInv
  <2>2. Len(Rules) \in Nat /\ DOMAIN Rules = 1 .. Len(Rules)
    BY <2>1 DEF Expanded, Rules
  <2>3. Rules' = Rules
    BY <1>2 DEF Rules
  <2>4. Len(todo') = Len(todo) - 1
    BY <1>2, <2>1
  <2>5. Done \in Nat /\ Done' = Done + 1
    BY <2>1, <2>2, <2>3, <2>4 DEF Done
  <2>. QED BY <2>1, <2>3, <2>5
<1>3. CASE Apply
  BY <1>2, <1>3 DEF Apply
<1>4. CASE add_filename_trans
  BY <1>2, <1>4 DEF add_filename_trans
<1>5. ASSUME last' = last, todo' = todo, db' = db
      PROVE  last' = last /\ Rules' = Rules /\ Done' = Done /\ db' = db
  BY <1>5 DEF Rules, Done
<1>. QED BY <1>1, <1>3, <1>4, <1>5 DEF Next, vars, to_file

\* The rules of an allow that are applied hold, after every step.
LEMMA AllowInvKept == PolicyInv /\ AllowInv /\ [Next]_vars => AllowInv'
<1>. SUFFICES ASSUME PolicyInv, AllowInv, [Next]_vars, last' \in Statements, last'.op = "allow"
              PROVE  \A i \in 1 .. Done' : AllowedBy(db', Rules'[i])
  BY DEF AllowInv
<1>1. CASE Done' = 0
  BY <1>1
<1>2. CASE /\ todo # <<>> /\ last' = last /\ Rules' = Rules /\ Done \in Nat /\ Done' = Done + 1
           /\ Head(todo) = Rules[Done + 1] /\ RuleOf(last, Head(todo))
           /\ Head(todo).op # "named_transition" => db' = Do(db, Head(todo))
  <2> DEFINE r == Head(todo)
  <2>1. last.op \in DOMAIN AvEffects /\ AvEffects[last.op] = "allowed"
    BY <1>2 DEF AvEffects
  <2>2. r.op = "add_rule" /\ r.effect = "allowed" /\ ~ r.invert
    BY <1>2, <2>1 DEF RuleOf
  <2>3. db' = add_rule(db, r)
    BY <1>2, <2>2 DEF Do
  <2>4. AllowedBy(db', r)
    BY <2>2, <2>3, AddRuleAllows DEF PolicyInv
  <2>5. AvGrows(db, db') /\ SameTypes(db, db')
    BY <2>2, <2>3, AddRuleGrows DEF PolicyInv
  <2>6. ASSUME NEW i \in 1 .. Done PROVE AllowedBy(db', Rules[i])
    BY <1>2, <2>5, AllowedByStays DEF AllowInv
  <2>. QED BY <1>2, <2>4, <2>6
<1>3. CASE last' = last /\ Rules' = Rules /\ Done' = Done /\ db' = db
  BY <1>3 DEF AllowInv
<1>. QED BY <1>1, <1>2, <1>3, DoneSteps

\* When all rules are applied, the statement holds.
LEMMA AllowInvHolds == PolicyInv /\ AllowInv => AllowHolds
<1>. SUFFICES ASSUME PolicyInv, AllowInv, last.op = "allow", todo = <<>>
              PROVE  \A i \in DOMAIN expand(last) : AllowedBy(db, expand(last)[i])
  BY DEF AllowHolds, AllowedBy
<1>1. last \in Statements
  BY DEF PolicyInv, TodoInv, None
<1>2. expand(last) \in Seq(Elements(expand(last))) /\ DOMAIN expand(last) = 1 .. Len(expand(last))
  BY <1>1, Expands, SepolicyAssumption DEF Expanded
<1>3. Done = Len(expand(last))
  BY <1>2 DEF Done, Rules
<1>. QED BY <1>1, <1>2, <1>3 DEF AllowInv, Rules
=============================================================================
