--------------------------- MODULE StatementProofs --------------------------
(***************************************************************************)
(* An executed extended permission statement holds, for any number of      *)
(* drivers, functions and ranges (XpermInv), so every statement does; and  *)
(* what print_rules prints is in force.                                    *)
(***************************************************************************)
EXTENDS PolicyProofs

(* What an extended permission statement says holds. *)

\* An ioctl of a range is of one of the range's drivers, and within one driver its
\* function is in the range of functions.
LEMMA RangeParts ==
    ASSUME NEW p \in Xperms, NEW y \in Ioctls
    PROVE  /\ y \in p.low .. p.high => ioctl_driver(y) \in ioctl_driver(p.low) .. ioctl_driver(p.high)
           /\ ioctl_driver(p.low) = ioctl_driver(p.high) /\ ioctl_driver(y) = ioctl_driver(p.low) =>
                 (y \in p.low .. p.high <=> ioctl_func(y) \in ioctl_func(p.low) .. ioctl_func(p.high))
<1>1. y \in Int /\ p.low \in Int /\ p.high \in Int
  BY SepolicyAssumption DEF Ioctls, Xperms
<1>2. ASSUME NEW x \in Int
      PROVE  ioctl_driver(x) \in Int /\ ioctl_func(x) \in Int /\ x = ioctl_driver(x) * NFun + ioctl_func(x)
  <2>. NFun \in Nat
    BY SepolicyAssumption
  <2>. QED BY Split
<1>3. ASSUME y \in p.low .. p.high
      PROVE  ioctl_driver(y) \in ioctl_driver(p.low) .. ioctl_driver(p.high)
  <2>1. ioctl_driver(p.low) <= ioctl_driver(y) /\ ioctl_driver(y) <= ioctl_driver(p.high)
    BY <1>1, <1>3, DriverOrder
  <2>. QED BY <2>1, <1>1, <1>2
<1>4. ASSUME ioctl_driver(p.low) = ioctl_driver(p.high), ioctl_driver(y) = ioctl_driver(p.low)
      PROVE  y \in p.low .. p.high <=> ioctl_func(y) \in ioctl_func(p.low) .. ioctl_func(p.high)
  <2> DEFINE base == ioctl_driver(y) * NFun
  <2>1. base \in Int
    BY <1>1, <1>2, SepolicyAssumption
  <2>2. y = base + ioctl_func(y) /\ p.low = base + ioctl_func(p.low) /\ p.high = base + ioctl_func(p.high)
    BY <1>1, <1>2, <1>4
  <2> HIDE DEF base
  <2>. QED BY <1>1, <1>2, <2>1, <2>2
<1>. QED BY <1>3, <1>4

\* Setting a range takes no ioctl away and sets all of the range.
LEMMA SetXpermSets ==
    ASSUME NEW n, NodeOK(n), NEW p \in Xperms
    PROVE  IoctlsOf(n) \subseteq IoctlsOf(SetXperm(n, p)) /\ p.low .. p.high \subseteq IoctlsOf(SetXperm(n, p))
<1> DEFINE lo == ioctl_driver(p.low)
           hi == ioctl_driver(p.high)
           functions == IF lo \in DOMAIN n.func THEN n.func[lo] ELSE {}
           more == functions \cup ioctl_func(p.low) .. ioctl_func(p.high)
           m == SetXperm(n, p)
<1>1. n = [driver |-> n.driver, func |-> n.func]
  BY DEF NodeOK
<1>2. p.low .. p.high \subseteq Ioctls
  BY SepolicyAssumption DEF Xperms, Ioctls
<1>3. CASE lo # hi
  <2>1. m = [n EXCEPT !.driver = @ \cup lo .. hi]
    BY <1>3 DEF SetXperm
  <2>2. m = [driver |-> n.driver \cup lo .. hi, func |-> n.func]
    BY <2>1, <1>1, Zenon
  <2>3. m.driver = n.driver \cup lo .. hi /\ m.func = n.func
    BY <2>2
  <2> HIDE DEF m, lo, hi
  <2>4. \A y \in p.low .. p.high : ioctl_driver(y) \in lo .. hi
    BY <1>2, RangeParts DEF lo, hi
  <2>5. IoctlsOf(n) \subseteq IoctlsOf(m)
    BY <2>3 DEF IoctlsOf
  <2>6. p.low .. p.high \subseteq IoctlsOf(m)
    BY <2>3, <2>4, <1>2 DEF IoctlsOf
  <2>. QED BY <2>5, <2>6 DEF m
<1>4. CASE lo = hi
  <2> DEFINE g == With(n.func, lo, more)
  <2>1. m = [n EXCEPT !.func = g]
    BY <1>4 DEF SetXperm
  <2>2. DOMAIN g = DOMAIN n.func \cup {lo} /\ g[lo] = more /\ \A v \in DOMAIN n.func : n.func[v] \subseteq g[v]
    BY DEF With
  <2> HIDE DEF g
  <2>3. m = [driver |-> n.driver, func |-> g]
    BY <2>1, <1>1, Zenon
  <2>4. m.driver = n.driver /\ m.func = g
    BY <2>3
  <2> HIDE DEF m
  <2>5. IoctlsOf(n) \subseteq IoctlsOf(m)
    BY <2>2, <2>4 DEF IoctlsOf
  <2>6. ASSUME NEW y \in p.low .. p.high PROVE y \in IoctlsOf(m)
    <3>1. y \in Ioctls /\ ioctl_driver(y) \in lo .. hi
      BY <1>2, RangeParts
    <3>2. ioctl_driver(y) = lo
      <4>1. lo \in Int
        BY SplitRange, SepolicyAssumption DEF Xperms, Drivers
      <4>2. ioctl_driver(y) \in Int
        BY <3>1, SplitRange, SepolicyAssumption DEF Drivers
      <4>. QED BY <1>4, <3>1, <4>1, <4>2
    <3>3. ioctl_func(y) \in ioctl_func(p.low) .. ioctl_func(p.high)
      BY <1>4, <3>1, <3>2, <2>6, RangeParts
    <3>. QED BY <3>1, <3>2, <3>3, <2>2, <2>4 DEF IoctlsOf
  <2>. QED BY <2>5, <2>6 DEF m
<1>. QED BY <1>3, <1>4

\* Of a complemented range nothing is left; all else is, within one driver.
LEMMA ResetXpermLeaves ==
    ASSUME NEW n, NEW p \in Xperms
    PROVE  LET m == ResetXperm(n, p) IN
           /\ p.low .. p.high \cap IoctlsOf(m) = {}
           /\ ioctl_driver(p.low) = ioctl_driver(p.high) => IoctlsOf(m) = Ioctls \ p.low .. p.high
<1> DEFINE lo == ioctl_driver(p.low)
           hi == ioctl_driver(p.high)
           rest == Functions \ ioctl_func(p.low) .. ioctl_func(p.high)
           g == IF lo # hi THEN <<>> ELSE [v \in {lo} |-> rest]
           m == ResetXperm(n, p)
<1>1. m = [driver |-> Drivers \ lo .. hi, func |-> g]
  BY DEF ResetXperm
<1>2. m.driver = Drivers \ lo .. hi /\ m.func = g
  BY <1>1
<1>3. p.low .. p.high \subseteq Ioctls
  BY SepolicyAssumption DEF Xperms, Ioctls
<1>4. lo \in Int /\ hi \in Int
  BY SplitRange, SepolicyAssumption DEF Xperms, Drivers
<1> HIDE DEF m, g
<1>5. ASSUME NEW y \in p.low .. p.high PROVE y \notin IoctlsOf(m)
  <2>1. y \in Ioctls /\ ioctl_driver(y) \in lo .. hi
    BY <1>3, RangeParts
  <2>2. CASE lo # hi
    <3>1. DOMAIN g = {}
      BY <2>2 DEF g
    <3>. QED BY <2>1, <3>1, <1>2 DEF IoctlsOf
  <2>3. CASE lo = hi
    <3>1. ioctl_driver(y) = lo
      BY <2>1, <2>3, <1>4, SplitRange, SepolicyAssumption DEF Drivers
    <3>2. ioctl_func(y) \in ioctl_func(p.low) .. ioctl_func(p.high)
      BY <2>1, <2>3, <3>1, <1>5, RangeParts
    <3>3. DOMAIN g = {lo} /\ g[lo] = rest
      BY <2>3 DEF g
    <3>. QED BY <2>1, <3>1, <3>2, <3>3, <1>2 DEF IoctlsOf
  <2>. QED BY <2>2, <2>3
<1>6. ASSUME lo = hi, NEW y \in Ioctls, y \notin p.low .. p.high PROVE y \in IoctlsOf(m)
  <2>1. ioctl_driver(y) \in Drivers /\ ioctl_func(y) \in Functions
    BY SplitRange
  <2>2. CASE ioctl_driver(y) = lo
    <3>1. ioctl_func(y) \notin ioctl_func(p.low) .. ioctl_func(p.high)
      BY <1>6, <2>2, RangeParts
    <3>2. DOMAIN g = {lo} /\ g[lo] = rest
      BY <1>6 DEF g
    <3>. QED BY <2>1, <2>2, <3>1, <3>2, <1>2 DEF IoctlsOf
  <2>3. CASE ioctl_driver(y) # lo
    <3>1. ioctl_driver(y) \notin lo .. hi
      BY <1>4, <1>6, <2>1, <2>3, SepolicyAssumption DEF Drivers
    <3>. QED BY <2>1, <3>1, <1>2 DEF IoctlsOf
  <2>. QED BY <2>2, <2>3
<1>7. IoctlsOf(m) \subseteq Ioctls
  BY DEF IoctlsOf
<1>8. p.low .. p.high \cap IoctlsOf(m) = {}
  BY <1>5
<1>9. lo = hi => IoctlsOf(m) = Ioctls \ p.low .. p.high
  BY <1>5, <1>6, <1>7
<1>. QED BY <1>8, <1>9 DEF m

\* What a range of a statement says of a node: it is set, or, complemented, it is all
\* that is not.
XpermSays(p, n) ==
    IF ~ p.reset THEN p.low .. p.high \subseteq IoctlsOf(n)
    ELSE /\ p.low .. p.high \cap IoctlsOf(n) = {}
         /\ ioctl_driver(p.low) = ioctl_driver(p.high) => IoctlsOf(n) = Ioctls \ p.low .. p.high
XpermNames(d, r) == Known(d, r.s) /\ Known(d, r.t) /\ KnownClass(r.c)
XpermBy(d, st, r) ==
    d.xperms /\ XpermNames(d, r) =>
        \A k \in Keys(d, r, FALSE) :
            k \in DOMAIN d.xp /\ (~ r.x.reset \/ Len(st.x) = 1 => XpermSays(r.x, d.xp[k]))
XpermInv ==
    last \in Statements /\ last.op \in XpermOps => \A i \in 1 .. Done : XpermBy(db, last, Rules[i])

\* add_xperm_rule does what its range says to its keys, and takes nothing back that
\* an earlier range of the statement said.
LEMMA AddXpermSays ==
    ASSUME NEW d, Good(d), NEW r, r.effect \in XpermOps, r.x \in Xperms, NEW e, e = add_xperm_rule(d, r)
    PROVE  /\ SameTypes(d, e) /\ e.xperms = d.xperms
           /\ d.xperms /\ XpermNames(d, r) =>
                 \A k \in Keys(d, r, FALSE) : k \in DOMAIN e.xp /\ XpermSays(r.x, e.xp[k])
           /\ \A k \in DOMAIN d.xp : k \in DOMAIN e.xp
           /\ \A p \in Xperms, k \in DOMAIN d.xp :
                 p.reset = r.x.reset /\ (p.reset => p = r.x) /\ XpermSays(p, d.xp[k]) =>
                     XpermSays(p, e.xp[k])
<1>1. CASE ~ (d.xperms /\ XpermNames(d, r))
  BY <1>1 DEF add_xperm_rule, XpermNames, SameTypes
<1>2. CASE d.xperms /\ XpermNames(d, r)
  <2> DEFINE keys == Keys(d, r, FALSE)
             New(k) == IF r.x.reset THEN ResetXperm(Nodes(d, k), r.x)
                                    ELSE SetXperm(Nodes(d, k), r.x)
             xp == [k \in keys \cup DOMAIN d.xp |-> IF k \in keys THEN New(k) ELSE d.xp[k]]
  <2>1. e = [d EXCEPT !.xp = xp]
    BY <1>2 DEF add_xperm_rule, XpermNames
  <2>2. Shape(d)
    BY GoodParts
  <2>3. ASSUME NEW k PROVE XpermSays(r.x, New(k))
    <3>1. CASE r.x.reset
      BY <3>1, ResetXpermLeaves DEF XpermSays
    <3>2. CASE ~ r.x.reset
      BY <3>2, NodesOK, SetXpermSets DEF XpermSays
    <3>. QED BY <3>1, <3>2
  <2>4. ASSUME NEW p \in Xperms, NEW k \in DOMAIN d.xp, p.reset = r.x.reset, p.reset => p = r.x,
               XpermSays(p, d.xp[k])
        PROVE  XpermSays(p, New(k))
    <3>1. CASE r.x.reset
      BY <3>1, <2>3, <2>4
    <3>2. CASE ~ r.x.reset
      <4>1. Nodes(d, k) = d.xp[k] /\ New(k) = SetXperm(d.xp[k], r.x) /\ NodeOK(d.xp[k])
        BY <3>2, NodesOK DEF Nodes
      <4>2. IoctlsOf(d.xp[k]) \subseteq IoctlsOf(SetXperm(d.xp[k], r.x))
        BY <4>1, SetXpermSets
      <4>. QED BY <3>2, <4>1, <4>2, <2>4 DEF XpermSays
    <3>. QED BY <3>1, <3>2
  <2> HIDE DEF New, keys
  <2>5. /\ DOMAIN xp = keys \cup DOMAIN d.xp
        /\ \A k \in DOMAIN xp : xp[k] = IF k \in keys THEN New(k) ELSE d.xp[k]
    OBVIOUS
  <2> HIDE DEF xp
  <2>6. e.xp = xp /\ SameTypes(d, e) /\ e.xperms = d.xperms
    BY <2>1, <2>2, PutXp DEF SameTables
  <2>7. \A k \in keys : k \in DOMAIN e.xp /\ XpermSays(r.x, e.xp[k])
    BY <2>3, <2>5, <2>6
  <2>8. \A k \in DOMAIN d.xp : k \in DOMAIN e.xp
    BY <2>5, <2>6
  <2>9. ASSUME NEW p \in Xperms, NEW k \in DOMAIN d.xp, p.reset = r.x.reset, p.reset => p = r.x,
               XpermSays(p, d.xp[k])
        PROVE  XpermSays(p, e.xp[k])
    BY <2>4, <2>5, <2>6, <2>9
  <2>. QED BY <2>6, <2>7, <2>8, <2>9 DEF keys
<1>. QED BY <1>1, <1>2

\* A later range of the same statement takes back nothing an earlier one said.
LEMMA XpermByStays ==
    ASSUME NEW d, Good(d), NEW st, Parsed(st), st.op \in XpermOps,
           NEW r, RuleOf(st, r), NEW q, RuleOf(st, q), XpermBy(d, st, q)
    PROVE  XpermBy(add_xperm_rule(d, r), st, q)
<1> DEFINE e == add_xperm_rule(d, r)
<1>1. /\ r.x \in Xperms /\ r.effect \in XpermOps /\ q.x \in Xperms
      /\ (\E j \in DOMAIN st.x : r.x = st.x[j]) /\ (\E j \in DOMAIN st.x : q.x = st.x[j])
  BY DEF RuleOf
<1>2. q.x.reset = r.x.reset
  BY <1>1 DEF Parsed
<1>3. Len(st.x) = 1 => q.x = r.x
  <2>1. st.x \in Seq(Xperms)
    BY DEF Parsed
  <2>2. DOMAIN st.x = 1 .. Len(st.x)
    BY <2>1
  <2>. QED BY <1>1, <2>2
<1>4. /\ SameTypes(d, e) /\ e.xperms = d.xperms
      /\ \A k \in DOMAIN d.xp : k \in DOMAIN e.xp
      /\ \A p \in Xperms, k \in DOMAIN d.xp :
            p.reset = r.x.reset /\ (p.reset => p = r.x) /\ XpermSays(p, d.xp[k]) =>
                XpermSays(p, e.xp[k])
  BY <1>1, AddXpermSays
<1> HIDE DEF e
<1>5. Types(e) = Types(d) /\ Attributes(e) = Attributes(d)
  BY <1>4, SameTypesPart
<1>6. Keys(e, q, FALSE) = Keys(d, q, FALSE)
  BY <1>5 DEF Keys, Range_
<1>7. XpermNames(e, q) => XpermNames(d, q)
  BY <1>5 DEF XpermNames, Known
<1>8. ASSUME NEW k \in DOMAIN d.xp, ~ q.x.reset \/ Len(st.x) = 1, XpermSays(q.x, d.xp[k])
      PROVE  XpermSays(q.x, e.xp[k])
  BY <1>1, <1>2, <1>3, <1>4, <1>8
<1>9. XpermBy(e, st, q)
  BY <1>4, <1>6, <1>7, <1>8 DEF XpermBy
<1>. QED BY <1>9 DEF e

\* The rules of the statement that are applied hold, after every step.
LEMMA XpermInvKept == PolicyInv /\ XpermInv /\ [Next]_vars => XpermInv'
<1>. SUFFICES ASSUME PolicyInv, XpermInv, [Next]_vars, last' \in Statements, last'.op \in XpermOps
              PROVE  \A i \in 1 .. Done' : XpermBy(db', last', Rules'[i])
  BY DEF XpermInv
<1>1. CASE Done' = 0
  BY <1>1
<1>2. CASE /\ todo # <<>> /\ last' = last /\ Rules' = Rules /\ Done \in Nat /\ Done' = Done + 1
           /\ Head(todo) = Rules[Done + 1] /\ RuleOf(last, Head(todo))
           /\ Head(todo).op # "named_transition" => db' = Do(db, Head(todo))
  <2> DEFINE r == Head(todo)
  <2>1. r.op = "add_xperm_rule" /\ r.effect \in XpermOps /\ r.x \in Xperms /\ Parsed(last)
    BY <1>2, SepolicyAssumption DEF RuleOf
  <2>2. db' = add_xperm_rule(db, r)
    BY <1>2, <2>1 DEF Do
  <2>3. Good(db)
    BY DEF PolicyInv
  <2>4. XpermBy(db', last, r)
    <3>1. /\ SameTypes(db, db') /\ db'.xperms = db.xperms
          /\ db.xperms /\ XpermNames(db, r) =>
                \A k \in Keys(db, r, FALSE) : k \in DOMAIN db'.xp /\ XpermSays(r.x, db'.xp[k])
      BY <2>1, <2>2, <2>3, AddXpermSays
    <3>2. Types(db') = Types(db) /\ Attributes(db') = Attributes(db)
      BY <3>1, SameTypesPart
    <3>3. Keys(db', r, FALSE) = Keys(db, r, FALSE) /\ (XpermNames(db', r) => XpermNames(db, r))
      BY <3>2 DEF Keys, Range_, XpermNames, Known
    <3>. QED BY <3>1, <3>3 DEF XpermBy
  <2>5. ASSUME NEW i \in 1 .. Done PROVE XpermBy(db', last, Rules[i])
    <3>1. XpermBy(db, last, Rules[i])
      BY <1>2 DEF XpermInv
    <3>2. RuleOf(last, Rules[i])
      <4>1. /\ Expanded(last) /\ Done + 1 \in DOMAIN Rules
        BY <1>2, HeadRule DEF PolicyInv
      <4>2. DOMAIN Rules = 1 .. Len(Rules) /\ Len(Rules) \in Nat
        BY <4>1 DEF Expanded, Rules
      <4>3. i \in DOMAIN Rules
        BY <1>2, <4>1, <4>2
      <4>. QED BY <4>1, <4>3 DEF Expanded, Rules
    <3>. QED BY <1>2, <2>1, <2>2, <2>3, <3>1, <3>2, XpermByStays
  <2>. QED BY <1>2, <2>4, <2>5
<1>3. CASE last' = last /\ Rules' = Rules /\ Done' = Done /\ db' = db
  BY <1>3 DEF XpermInv
<1>. QED BY <1>1, <1>2, <1>3, DoneSteps

\* A triple of names meets every range of the statement.
LEMMA EveryRange ==
    ASSUME NEW st, Parsed(st), st.op \in XpermOps, NEW i \in DOMAIN expand(st), NEW j \in DOMAIN st.x
    PROVE  \E m \in DOMAIN expand(st) : LET r == expand(st)[i]
                                            q == expand(st)[m] IN
               /\ q.s = r.s /\ q.t = r.t /\ q.c = r.c /\ q.effect = r.effect /\ q.x = st.x[j]
<1> DEFINE A == Triples(st)
           B == st.x
           L == Len(B)
           q == Quotient(i - 1, L)
           m == q * L + (j - 1) + 1
<1>1. /\ L \in Nat /\ Len(A) \in Nat /\ DOMAIN expand(st) = 1 .. Len(A) * L
      /\ \A h \in DOMAIN expand(st) : expand(st)[h] = XpermRule(Product(A, B)[h], st.op)
  BY XpermExpand
<1>2. j \in 1 .. L
  <2>1. st.x \in Seq(Xperms)
    BY DEF Parsed
  <2>. QED BY <2>1
<1> HIDE DEF A, B, L
<1>3. L \in Nat \ {0} /\ i \in Int /\ i - 1 \in Int /\ j - 1 \in 0 .. L - 1 /\ Len(A) * L \in Nat
      /\ i - 1 < Len(A) * L /\ 0 <= i - 1
  BY <1>1, <1>2
<1>4. q \in Int /\ q * L \in Int /\ q * L <= i - 1 /\ i - 1 <= q * L + L - 1
  <2>1. q \in Int /\ Remainder(i - 1, L) \in 0 .. L - 1 /\ i - 1 = q * L + Remainder(i - 1, L)
    BY <1>3, Division
  <2> HIDE DEF q
  <2>2. q * L \in Int
    BY <2>1, <1>3
  <2>. QED BY <2>1, <2>2, <1>3
<1>5. Quotient(m - 1, L) = q /\ Remainder(m - 1, L) = j - 1
  <2>1. m - 1 = q * L + (j - 1)
    BY <1>3, <1>4
  <2>2. Quotient(q * L + (j - 1), L) = q /\ Remainder(q * L + (j - 1), L) = j - 1
    BY <1>3, <1>4, DivisionUnique
  <2>. QED BY <2>1, <2>2
<1> HIDE DEF q
<1>6. q >= 0
  <2>1. ASSUME q <= -1 PROVE FALSE
    <3>1. (-q) * L >= L
      BY <2>1, <1>3, <1>4
    <3>2. (-q) * L = - (q * L)
      BY <1>3, <1>4
    <3>. QED BY <3>1, <3>2, <1>3, <1>4
  <2>. QED BY <2>1, <1>4
<1>7. q + 1 <= Len(A)
  <2>1. ASSUME q >= Len(A) PROVE FALSE
    <3>1. q * L >= Len(A) * L
      BY <2>1, <1>1, <1>3, <1>4
    <3>. QED BY <3>1, <1>3, <1>4
  <2>. QED BY <2>1, <1>1, <1>4
<1>8. m \in 1 .. Len(A) * L
  <2>1. q * L >= 0
    BY <1>3, <1>4, <1>6
  <2>2. (q + 1) * L <= Len(A) * L
    <3> DEFINE a == Len(A)
    <3>1. a - (q + 1) \in Nat /\ L \in Nat /\ a \in Nat /\ q \in Int
      BY <1>1, <1>4, <1>7
    <3> HIDE DEF a
    <3>2. (a - (q + 1)) * L \in Nat
      BY <3>1
    <3>3. (a - (q + 1)) * L = a * L - (q + 1) * L
      BY <3>1
    <3>4. a * L \in Int /\ (q + 1) * L \in Int
      BY <3>1
    <3>5. (q + 1) * L <= a * L
      BY <3>2, <3>3, <3>4
    <3>. QED BY <3>5 DEF a
  <2>3. (q + 1) * L = q * L + L
    BY <1>3, <1>4
  <2>. QED BY <2>1, <2>2, <2>3, <1>3, <1>4
<1> HIDE DEF m
<1>9. \A h \in 1 .. Len(A) * L :
         /\ Product(A, B)[h][1] = A[Quotient(h - 1, L) + 1]
         /\ Product(A, B)[h][2] = B[Remainder(h - 1, L) + 1]
  <2>1. Len(B) \in Nat /\ Len(B) = L
    BY <1>1 DEF L
  <2>2. \A h \in 1 .. Len(A) * Len(B) :
           /\ Product(A, B)[h][1] = A[((h - 1) \div Len(B)) + 1]
           /\ Product(A, B)[h][2] = B[((h - 1) % Len(B)) + 1]
    BY <2>1, <1>1, ProductListing
  <2>. QED BY <2>1, <2>2 DEF Quotient, Remainder
<1>10. Product(A, B)[m][1] = Product(A, B)[i][1] /\ Product(A, B)[m][2] = B[j]
  <2>1. (j - 1) + 1 = j
    BY <1>2, <1>3
  <2>2. Product(A, B)[m][1] = A[Quotient(m - 1, L) + 1] /\ Product(A, B)[m][2] = B[Remainder(m - 1, L) + 1]
    BY <1>8, <1>9
  <2>3. Product(A, B)[m][1] = A[q + 1] /\ Product(A, B)[m][2] = B[j]
    BY <1>5, <2>1, <2>2
  <2>4. Product(A, B)[i][1] = A[q + 1]
    BY <1>1, <1>9 DEF q
  <2>. QED BY <2>3, <2>4
<1>11. /\ expand(st)[m].s = expand(st)[i].s /\ expand(st)[m].t = expand(st)[i].t
       /\ expand(st)[m].c = expand(st)[i].c /\ expand(st)[m].effect = expand(st)[i].effect
       /\ expand(st)[m].x = B[j]
  BY <1>1, <1>8, <1>10, XpermRuleFields
<1>. QED BY <1>1, <1>8, <1>11 DEF B

\* When all rules are applied, every listed range is set, or none of the one.
LEMMA XpermInvHolds == PolicyInv /\ XpermInv => XpermsHold
<1>. SUFFICES ASSUME PolicyInv, XpermInv, last.op \in XpermOps, todo = <<>>, db.xperms,
                     NEW i \in DOMAIN expand(last), NEW k \in Keys(db, expand(last)[i], FALSE),
                     k \in DOMAIN db.xp
              PROVE  LET r == expand(last)[i] IN
                     IF ~ Complemented(last) THEN Listed(last) \subseteq IoctlsOf(db.xp[k])
                     ELSE Len(last.x) = 1 =>
                         /\ Listed(last) \cap IoctlsOf(db.xp[k]) = {}
                         /\ ioctl_driver(r.x.low) = ioctl_driver(r.x.high) =>
                                IoctlsOf(db.xp[k]) = Ioctls \ Listed(last)
  BY DEF XpermsHold
<1> DEFINE r == expand(last)[i]
<1>1. last \in Statements /\ Parsed(last) /\ Expanded(last)
  <2>1. last # None
    BY DEF None, XpermOps
  <2>. QED BY <2>1, Expands, SepolicyAssumption DEF PolicyInv, TodoInv
<1>2. expand(last) \in Seq(Elements(expand(last))) /\ DOMAIN expand(last) = 1 .. Len(expand(last))
      /\ \A m \in DOMAIN expand(last) : RuleOf(last, expand(last)[m])
  BY <1>1 DEF Expanded
<1>3. Done = Len(expand(last))
  BY <1>2 DEF Done, Rules
<1>4. \A m \in DOMAIN expand(last) : XpermBy(db, last, expand(last)[m])
  BY <1>1, <1>2, <1>3 DEF XpermInv, Rules
<1> HIDE DEF r
<1>5. XpermNames(db, r)
  <2>1. k \in Types(db) \X Types(db) \X Classes \X XpermOps
    BY GoodParts DEF PolicyInv, XpPart
  <2>2. k \in Range_(db, r.s, FALSE) \X Range_(db, r.t, FALSE) \X ClassRange(r.c) \X {r.effect}
    BY DEF Keys, r
  <2>. QED BY <2>1, <2>2 DEF XpermNames, Known, KnownClass, Range_, ClassRange
<1>6. last.x \in Seq(Xperms) /\ \A m, j \in DOMAIN last.x : last.x[m].reset = last.x[j].reset
  BY <1>1 DEF Parsed
<1>7. CASE ~ Complemented(last)
  <2>1. \A j \in DOMAIN last.x : ~ last.x[j].reset
    BY <1>6, <1>7 DEF Complemented
  <2>2. ASSUME NEW j \in DOMAIN last.x PROVE last.x[j].low .. last.x[j].high \subseteq IoctlsOf(db.xp[k])
    <3>1. PICK m \in DOMAIN expand(last) : LET q == expand(last)[m] IN
             q.s = r.s /\ q.t = r.t /\ q.c = r.c /\ q.effect = r.effect /\ q.x = last.x[j]
      BY <1>1, EveryRange DEF r
    <3> DEFINE q == expand(last)[m]
    <3>2. XpermBy(db, last, q)
      BY <1>4
    <3> HIDE DEF q
    <3>3. q.s = r.s /\ q.t = r.t /\ q.c = r.c /\ q.effect = r.effect /\ q.x = last.x[j]
      BY <3>1 DEF q
    <3>4. XpermNames(db, q) /\ k \in Keys(db, q, FALSE)
      BY <1>5, <3>3 DEF XpermNames, Keys, r
    <3>5. XpermSays(q.x, db.xp[k])
      BY <2>1, <3>2, <3>3, <3>4 DEF XpermBy
    <3>. QED BY <2>1, <3>3, <3>5 DEF XpermSays
  <2>. QED BY <1>7, <2>2 DEF Listed
<1>8. CASE Complemented(last)
  <2>. SUFFICES ASSUME Len(last.x) = 1
                PROVE  /\ Listed(last) \cap IoctlsOf(db.xp[k]) = {}
                       /\ ioctl_driver(r.x.low) = ioctl_driver(r.x.high) =>
                              IoctlsOf(db.xp[k]) = Ioctls \ Listed(last)
    BY <1>8 DEF r
  <2>1. DOMAIN last.x = {1}
    <3>1. DOMAIN last.x = 1 .. Len(last.x)
      BY <1>6
    <3>. QED BY <3>1
  <2>2. r.x = last.x[1] /\ r.x.reset
    <3>1. RuleOf(last, r)
      BY <1>2 DEF r
    <3>2. \E j \in DOMAIN last.x : r.x = last.x[j]
      BY <3>1 DEF RuleOf
    <3>. QED BY <2>1, <3>2, <1>8 DEF Complemented
  <2>3. Listed(last) = r.x.low .. r.x.high
    BY <2>1, <2>2 DEF Listed
  <2>4. XpermBy(db, last, r) /\ k \in Keys(db, r, FALSE)
    BY <1>4 DEF r
  <2>5. XpermSays(r.x, db.xp[k])
    BY <1>5, <2>4 DEF XpermBy
  <2>. QED BY <2>2, <2>3, <2>5 DEF XpermSays
<1>. QED BY <1>7, <1>8

\* Whatever was executed before it: once the last rule of an allow is applied, all it lists
\* is allowed, and once that of an extended permission statement is, its keys allow the
\* ranges it lists (add_rule, add_xperm_rule).
THEOREM StatementsAlwaysHold == Spec => []StatementsHold
<1>1. Init => PolicyInv /\ AllowInv /\ XpermInv
  <2>1. ASSUME Init PROVE last.op = "none" \/ last \notin Statements
    BY <2>1 DEF Init, None
  <2>2. Init => AllowInv /\ XpermInv
    BY <2>1 DEF AllowInv, XpermInv, XpermOps
  <2>. QED BY <2>2, PolicyInvInit
<1>2. PolicyInv /\ AllowInv /\ XpermInv => StatementsHold
  BY AllowInvHolds, XpermInvHolds DEF StatementsHold
<1>. QED BY <1>1, <1>2, PolicyInvKept, AllowInvKept, XpermInvKept, PTL DEF Spec

(* A printed rule changes nothing when it is given back. *)
Unmoved(d, e) ==
    /\ [e EXCEPT !.xp = <<>>] = [d EXCEPT !.xp = <<>>]
    /\ \A k \in DOMAIN e.xp : IoctlsOf(e.xp[k]) = IoctlsOf(Nodes(d, k))

\* A policy that does not change does not change.
LEMMA SelfUnmoved == ASSUME NEW d PROVE Unmoved(d, d)
BY DEF Unmoved, Nodes

\* Putting back what is there.
LEMMA PutBack ==
    ASSUME NEW d, Shape(d)
    PROVE  /\ [d EXCEPT !.av = d.av] = d /\ [d EXCEPT !.ty = d.ty] = d
           /\ [d EXCEPT !.genfs = d.genfs] = d
           /\ [d EXCEPT !.permissive_map = d.permissive_map] = d
BY Zenon DEF Shape, Is, PolicyFields

\* Two policies that differ in their extended permissions only.
LEMMA PutXpUnmoved ==
    ASSUME NEW d, Shape(d), NEW X
    PROVE  [[d EXCEPT !.xp = X] EXCEPT !.xp = <<>>] = [d EXCEPT !.xp = <<>>]
BY Zenon DEF Shape, Is, PolicyFields

\* Giving an argument the value it has.
LEMMA WithSame ==
    ASSUME NEW f, Is(f), NEW k \in DOMAIN f
    PROVE  With(f, k, f[k]) = f
BY DEF With, Is

\* Lists of one element.
LEMMA SingleProduct ==
    ASSUME NEW a, NEW b
    PROVE  Product(<<a>>, <<b>>) = << <<a, b>> >> /\ Vec(<<a>>) = <<a>>
<1>1. Len(<<a>>) = 1 /\ Len(<<b>>) = 1 /\ <<a>>[1] = a /\ <<b>>[1] = b /\ <<a>> # <<>>
  OBVIOUS
<1>2. \A i \in 1 .. 1 : <<a>>[((i - 1) \div 1) + 1] = a /\ <<b>>[((i - 1) % 1) + 1] = b
  <2>1. (1 - 1) \div 1 = 0 /\ (1 - 1) % 1 = 0
    OBVIOUS
  <2>. QED BY <2>1, <1>1
<1>3. Product(<<a>>, <<b>>) = [i \in 1 .. 1 |-> <<a, b>>]
  BY <1>1, <1>2 DEF Product
<1>4. [i \in 1 .. 1 |-> <<a, b>>] = << <<a, b>> >>
  OBVIOUS
<1>. QED BY <1>1, <1>3, <1>4 DEF Vec

\* add_rule of a permission that print_avtab prints finds it as it is.
LEMMA AddRuleSame ==
    ASSUME NEW d, Good(d), NEW k \in DOMAIN d.av, NEW p \in PrintedPerms(k, d.av[k]),
           NEW r, r.s = k[1], r.t = k[2], r.c = k[3], r.p = p, r.effect = k[4],
           r.invert <=> k[4] = "auditdeny"
    PROVE  add_rule(d, r) = d
<1> DEFINE keys == Keys(d, r, strip_av(r.effect, r.invert))
           left == {x \in DOMAIN d.av \cup keys : x \in keys => ~ is_redundant(x, NewData(d, x, r))}
           av == [x \in left |-> IF x \in keys THEN NewData(d, x, r) ELSE d.av[x]]
<1>1. Shape(d) /\ AvPart(Types(d), d.av) /\ Wild \notin Types(d)
  BY GoodParts DEF TypesPart
<1>2. k \in Types(d) \X Types(d) \X Classes \X AvEffectNames /\ d.av[k] \subseteq AllBits(k[3])
  BY <1>1 DEF AvPart
<1>3. /\ k = <<k[1], k[2], k[3], k[4]>> /\ k[1] \in Types(d) /\ k[2] \in Types(d) /\ k[3] \in Classes
      /\ k[4] \in AvEffectNames
  BY <1>2
<1>4. p \in ClassPerms[k[3]] /\ p # Wild /\ k[1] # Wild /\ k[2] # Wild /\ k[3] # Wild
  BY <1>1, <1>3, SepolicyAssumption DEF PrintedPerms
<1>5. RuleNames(d, r)
  BY <1>3, <1>4 DEF RuleNames, Known, KnownClass
<1>6. keys = {k}
  <2>1. Range_(d, r.s, strip_av(r.effect, r.invert)) = {k[1]}
        /\ Range_(d, r.t, strip_av(r.effect, r.invert)) = {k[2]} /\ ClassRange(r.c) = {k[3]}
    BY <1>4 DEF Range_, ClassRange
  <2>2. keys = {k[1]} \X {k[2]} \X {k[3]} \X {k[4]}
    BY <2>1 DEF Keys
  <2>. QED BY <2>2, <1>3
<1>7. NewData(d, k, r) = d.av[k]
  BY <1>4 DEF NewData, get_avtab_node, PrintedPerms
<1>8. ~ is_redundant(k, d.av[k])
  BY <1>4 DEF is_redundant, insert_avtab_node, PrintedPerms, AllBits
<1>9. add_rule(d, r) = [d EXCEPT !.av = av]
  BY <1>5 DEF add_rule
<1> HIDE DEF keys
<1>10. left = DOMAIN d.av
  BY <1>6, <1>7, <1>8
<1>11. av = d.av
  <2>1. av = [x \in DOMAIN d.av |-> d.av[x]]
    BY <1>6, <1>7, <1>10
  <2>. QED BY <2>1, <1>1 DEF AvPart, Is
<1>. QED BY <1>1, <1>9, <1>11, PutBack

\* An access rule print_avtab prints, dontaudit inverted, is in force.
LEMMA PrintedAv ==
    ASSUME NEW d, Good(d), NEW k \in DOMAIN d.av, NEW p \in PrintedPerms(k, d.av[k]), NEW st,
           st = [op |-> PrintName[k[4]], s |-> <<k[1]>>, t |-> <<k[2]>>, c |-> <<k[3]>>, p |-> <<p>>],
           NEW i \in DOMAIN expand(st)
    PROVE  Do(d, expand(st)[i]) = d
<1> DEFINE x == << << <<k[1], k[2]>>, k[3]>>, p>>
           effect == AvEffects[st.op]
           invert == st.op \in {"deny", "dontaudit"}
           all == Product(Product(Product(Vec(st.s), Vec(st.t)), Vec(st.c)), Vec(st.p))
<1>1. k[4] \in AvEffectNames
  <2>1. k \in Types(d) \X Types(d) \X Classes \X AvEffectNames
    BY GoodParts DEF AvPart
  <2>. QED BY <2>1
<1>2. /\ st.op \in DOMAIN AvEffects /\ effect = k[4] /\ (invert <=> k[4] = "auditdeny")
      /\ st.op \notin XpermOps /\ st.op \notin {"type", "typeattribute"} /\ st.op \notin {"permissive", "enforce"}
  <2>1. st.op = PrintName[k[4]]
    OBVIOUS
  <2>2. CASE k[4] = "allowed"
    <3>1. st.op = "allow"
      BY <2>1, <2>2 DEF PrintName
    <3>. QED BY <2>2, <3>1 DEF AvEffects, XpermOps
  <2>3. CASE k[4] = "auditallow"
    <3>1. st.op = "auditallow"
      BY <2>1, <2>3 DEF PrintName
    <3>. QED BY <2>3, <3>1 DEF AvEffects, XpermOps
  <2>4. CASE k[4] = "auditdeny"
    <3>1. st.op = "dontaudit"
      BY <2>1, <2>4 DEF PrintName
    <3>. QED BY <2>4, <3>1 DEF AvEffects, XpermOps
  <2>. QED BY <1>1, <2>2, <2>3, <2>4 DEF AvEffectNames
<1>3. st.s = <<k[1]>> /\ st.t = <<k[2]>> /\ st.c = <<k[3]>> /\ st.p = <<p>>
  OBVIOUS
<1> HIDE DEF invert, effect
<1>4. all = <<x>>
  <2> DEFINE y == <<k[1], k[2]>>
             z == <<y, k[3]>>
  <2>1. Product(<<k[1]>>, <<k[2]>>) = <<y>> /\ Vec(<<k[1]>>) = <<k[1]>> /\ Vec(<<k[2]>>) = <<k[2]>>
    BY SingleProduct
  <2> HIDE DEF y
  <2>2. Product(<<y>>, <<k[3]>>) = <<z>> /\ Vec(<<k[3]>>) = <<k[3]>>
    BY SingleProduct
  <2> HIDE DEF z
  <2>3. Product(<<z>>, <<p>>) = << <<z, p>> >> /\ Vec(<<p>>) = <<p>>
    BY SingleProduct
  <2>4. all = << <<z, p>> >>
    BY <1>3, <2>1, <2>2, <2>3
  <2>. QED BY <2>4 DEF y, z
<1>5. expand(st) = AvRules(st)
  BY <1>2 DEF expand
<1>6. AvRules(st) = [j \in DOMAIN all |-> AvRule(all[j], effect, invert)]
  BY Zenon DEF AvRules, AvRule, effect, invert
<1> HIDE DEF all, x
<1>7. expand(st)[i] = AvRule(x, effect, invert)
  <2>1. DOMAIN <<x>> = {1} /\ <<x>>[1] = x
    OBVIOUS
  <2>2. i \in DOMAIN <<x>> /\ expand(st)[i] = AvRule(<<x>>[i], effect, invert)
    BY <1>4, <1>5, <1>6, Zenon
  <2>3. <<x>>[i] = x
    BY <2>1, <2>2
  <2>. QED BY <2>2, <2>3, Zenon
<1> DEFINE r == expand(st)[i]
<1>8. r.op = "add_rule" /\ r.effect = effect /\ r.invert = invert
      /\ r.s = x[1][1][1] /\ r.t = x[1][1][2] /\ r.c = x[1][2] /\ r.p = x[2]
  BY <1>7, AvRuleFields
<1> HIDE DEF r
<1>9. r.s = k[1] /\ r.t = k[2] /\ r.c = k[3] /\ r.p = p /\ r.effect = k[4]
  BY <1>2, <1>8 DEF x
<1>10. r.invert <=> k[4] = "auditdeny"
  BY <1>2, <1>8, Zenon
<1>11. add_rule(d, r) = d
  BY <1>9, <1>10, AddRuleSame
<1>12. Do(d, r) = add_rule(d, r)
  BY <1>8 DEF Do
<1>. QED BY <1>11, <1>12 DEF r

\* A printed type rule or genfscon is in force.
LEMMA PrintedTables ==
    ASSUME NEW d, Good(d)
    PROVE  /\ \A k \in DOMAIN d.ty :
                 LET st == [op |-> "type_rule", s |-> <<k[1]>>, t |-> <<k[2]>>, c |-> <<k[3]>>,
                            def |-> d.ty[k], effect |-> k[4]] IN
                 \A i \in DOMAIN expand(st) : Do(d, expand(st)[i]) = d
           /\ \A k \in DOMAIN d.genfs :
                 LET st == [op |-> "genfscon", fs |-> k[1], path |-> k[2], ctx |-> d.genfs[k]] IN
                 \A i \in DOMAIN expand(st) : Do(d, expand(st)[i]) = d
<1>1. Shape(d) /\ TyPart(d.ty) /\ GenfsPart(d.genfs)
  BY GoodParts
<1>2. ASSUME NEW k \in DOMAIN d.ty, NEW st,
             st = [op |-> "type_rule", s |-> <<k[1]>>, t |-> <<k[2]>>, c |-> <<k[3]>>,
                   def |-> d.ty[k], effect |-> k[4]],
             NEW i \in DOMAIN expand(st)
      PROVE  Do(d, expand(st)[i]) = d
  <2> DEFINE r == [op |-> "type_rule", s |-> k[1], t |-> k[2], c |-> k[3], def |-> d.ty[k], effect |-> k[4]]
  <2>1. SingleRule(st) = <<r>>
    BY <1>2 DEF SingleRule
  <2>2. expand(st) = SingleRule(st)
    <3>1. st.op = "type_rule" /\ st.op \notin DOMAIN AvEffects /\ st.op \notin XpermOps
      BY <1>2 DEF AvEffects, XpermOps
    <3>. QED BY <3>1 DEF expand
  <2>3. expand(st)[i] = r
    BY <2>1, <2>2
  <2>4. k = <<r.s, r.t, r.c, r.effect>> /\ r.def = d.ty[k] /\ r.op = "type_rule"
    BY <1>1 DEF TyPart
  <2> HIDE DEF r
  <2>5. With(d.ty, <<r.s, r.t, r.c, r.effect>>, r.def) = d.ty
    <3>1. With(d.ty, k, d.ty[k]) = d.ty
      BY <1>1, WithSame DEF TyPart
    <3>. QED BY <3>1, <2>4
  <2>6. add_type_rule(d, r) = d
    BY <1>1, <2>5, PutBack, Zenon DEF add_type_rule
  <2>7. Do(d, r) = add_type_rule(d, r)
    BY <2>4 DEF Do
  <2>. QED BY <2>3, <2>6, <2>7
<1>3. ASSUME NEW k \in DOMAIN d.genfs, NEW st,
             st = [op |-> "genfscon", fs |-> k[1], path |-> k[2], ctx |-> d.genfs[k]],
             NEW i \in DOMAIN expand(st)
      PROVE  Do(d, expand(st)[i]) = d
  <2>1. st.op = "genfscon" /\ k = <<st.fs, st.path>> /\ st.ctx = d.genfs[k]
    BY <1>1, <1>3 DEF GenfsPart
  <2>2. SingleRule(st) = <<st>>
    BY <2>1 DEF SingleRule
  <2>3. expand(st) = SingleRule(st)
    BY <2>1 DEF expand, AvEffects, XpermOps
  <2>4. expand(st)[i] = st
    BY <2>2, <2>3
  <2>5. With(d.genfs, <<st.fs, st.path>>, st.ctx) = d.genfs
    <3>1. With(d.genfs, k, d.genfs[k]) = d.genfs
      BY <1>1, WithSame DEF GenfsPart
    <3>. QED BY <3>1, <2>1
  <2>6. add_genfscon(d, st) = d
    BY <1>1, <2>5, PutBack, Zenon DEF add_genfscon
  <2>7. Do(d, st) = add_genfscon(d, st)
    BY <2>1 DEF Do
  <2>. QED BY <2>4, <2>6, <2>7
<1>. QED BY <1>2, <1>3

\* A type that has an attribute already can be given it once more.
LEMMA TypeAttributeSame ==
    ASSUME NEW d, Good(d), NEW n \in Types(d), NEW a \in d.type_attr_map[n], a \in Attributes(d),
           n \notin Attributes(d)
    PROVE  add_typeattribute(d, n, a) = d
<1> DEFINE N == IF a \in Constrained THEN d.names \cup {n} ELSE d.names
           e == PolicyWithAttr(d, n, a, N)
<1>1. Shape(d) /\ TypesPart(d)
  BY GoodParts
<1>2. /\ d.type_attr_map \in [Types(d) -> SUBSET Types(d)] /\ d.attr_type_map \in [Types(d) -> SUBSET Types(d)]
      /\ MapsAgree(d) /\ ConstraintsFollow(d)
  BY <1>1 DEF TypesPart
<1>3. a \in Types(d) /\ a # n /\ n \in d.attr_type_map[a]
  BY <1>2 DEF Attributes, MapsAgree
<1>4. N = d.names
  BY <1>2 DEF ConstraintsFollow
<1> HIDE DEF N
<1>5. Given(d.type_attr_map, n, a) = d.type_attr_map
  BY <1>2, <1>3 DEF Given
<1>6. Given(d.attr_type_map, a, n) = d.attr_type_map
  BY <1>2, <1>3 DEF Given
<1>7. /\ Shape(e) /\ e.types = d.types /\ e.type_attr_map = d.type_attr_map
      /\ e.attr_type_map = d.attr_type_map /\ e.names = d.names
      /\ e.role_types = d.role_types /\ e.xperms = d.xperms /\ e.ty = d.ty /\ e.genfs = d.genfs
      /\ e.av = d.av /\ e.xp = d.xp /\ e.permissive_map = d.permissive_map
  BY <1>1, <1>4, <1>5, <1>6, PutAttr DEF SameTables
<1> HIDE DEF e
<1>8. e = d
  <2>1. \A x \in PolicyFields : e[x] = d[x]
    BY <1>7 DEF PolicyFields
  <2>. QED BY <1>1, <1>7, <2>1 DEF Shape, Is
<1>9. CanBeGiven(d, n, a)
  BY <1>3 DEF CanBeGiven
<1>10. add_typeattribute(d, n, a) = e
  BY <1>9, Zenon DEF add_typeattribute, e, PolicyWithAttr, N
<1>. QED BY <1>8, <1>10

\* A printed type, attribute or permissive statement is in force.
LEMMA PrintedTypes ==
    ASSUME NEW d, Good(d), NEW n \in Types(d), NEW st \in print_type(d, n), NEW i \in DOMAIN expand(st)
    PROVE  Do(d, expand(st)[i]) = d
<1>1. Shape(d) /\ n # Wild
  BY GoodParts DEF TypesPart
<1>2. CASE n \in Attributes(d) /\ st = [op |-> "attribute", s |-> <<n>>]
  <2> DEFINE r == [op |-> "attribute", s |-> n]
  <2>1. SingleRule(st) = <<r>>
    BY <1>2 DEF SingleRule
  <2>2. expand(st) = SingleRule(st)
    <3>1. st.op = "attribute" /\ st.op \notin DOMAIN AvEffects /\ st.op \notin XpermOps
      BY <1>2 DEF AvEffects, XpermOps
    <3>. QED BY <3>1 DEF expand
  <2>3. expand(st)[i] = r
    BY <2>1, <2>2
  <2>4. Do(d, r) = add_type(d, n, "attribute")
    BY DEF Do
  <2>. QED BY <2>3, <2>4 DEF add_type
<1>3. ASSUME n \notin Attributes(d), NEW a \in d.type_attr_map[n] \cap Attributes(d),
             st = [op |-> "type", s |-> <<n>>, a |-> <<a>>]
      PROVE  Do(d, expand(st)[i]) = d
  <2> DEFINE r == [op |-> "type", s |-> n, a |-> a]
             all == Product(Vec(st.s), Vec(st.a))
  <2>1. expand(st) = TypeRules(st)
    <3>1. st.op = "type" /\ st.op \notin DOMAIN AvEffects /\ st.op \notin XpermOps
      BY <1>3 DEF AvEffects, XpermOps
    <3>. QED BY <3>1 DEF expand
  <2>2. all = << <<n, a>> >>
    BY <1>3, SingleProduct
  <2>3. TypeRules(st) = [j \in DOMAIN all |-> [op |-> "type", s |-> all[j][1], a |-> all[j][2]]]
    BY <1>3 DEF TypeRules
  <2> HIDE DEF all
  <2>4. expand(st)[i] = r
    BY <2>1, <2>2, <2>3
  <2>5. Do(d, r) = add_typeattribute(add_type(d, n, "type"), n, a)
    BY DEF Do
  <2>6. add_type(d, n, "type") = d
    BY DEF add_type
  <2>7. add_typeattribute(d, n, a) = d
    BY <1>3, TypeAttributeSame
  <2>. QED BY <2>4, <2>5, <2>6, <2>7
<1>4. CASE n \in d.permissive_map /\ st = [op |-> "permissive", s |-> <<n>>]
  <2> DEFINE yes == st.op = "permissive"
             Rule(m, permissive) == [op |-> "set_type_state", s |-> m, permissive |-> permissive]
  <2>1. st.op = "permissive" /\ yes /\ Vec(st.s) = <<n>>
    BY <1>4, SingleProduct
  <2>2. expand(st) = StateRules(st)
    <3>1. st.op \notin DOMAIN AvEffects /\ st.op \notin XpermOps
      BY <2>1 DEF AvEffects, XpermOps
    <3>. QED BY <2>1, <3>1 DEF expand
  <2>3. StateRules(st) = [j \in DOMAIN Vec(st.s) |-> Rule(Vec(st.s)[j], yes)]
    BY Zenon DEF StateRules
  <2>4. \A m, b : Rule(m, b).op = "set_type_state" /\ Rule(m, b).s = m /\ Rule(m, b).permissive = b
    OBVIOUS
  <2> HIDE DEF Rule, yes
  <2>5. expand(st)[i] = Rule(n, yes)
    <3>1. DOMAIN <<n>> = {1} /\ <<n>>[1] = n
      OBVIOUS
    <3>2. i \in DOMAIN <<n>> /\ expand(st)[i] = Rule(<<n>>[i], yes)
      BY <2>1, <2>2, <2>3, Zenon
    <3>3. <<n>>[i] = n
      BY <3>1, <3>2
    <3>. QED BY <3>2, <3>3, Zenon
  <2> DEFINE r == Rule(n, yes)
  <2>6. r.op = "set_type_state" /\ r.s = n /\ r.permissive = yes
    BY <2>4
  <2> HIDE DEF r
  <2>7. r.permissive
    BY <2>1, <2>6, Zenon
  <2>8. set_type_state(d, r) = [d EXCEPT !.permissive_map = d.permissive_map]
    <3>1. d.permissive_map \cup (IF r.s = Wild THEN Types(d) ELSE {r.s} \cap Types(d)) = d.permissive_map
      BY <1>1, <1>4, <2>6
    <3>. QED BY <2>7, <3>1, Zenon DEF set_type_state
  <2>9. Do(d, r) = set_type_state(d, r)
    BY <2>6 DEF Do
  <2>. QED BY <1>1, <2>5, <2>8, <2>9, PutBack DEF r
<1>. QED BY <1>2, <1>3, <1>4 DEF print_type

\* A range of drivers that is set, written as ioctls: SetXperm finds the same drivers, or,
\* of one driver, sets a function that the driver's own bit covers.
LEMMA SetDriversAgain ==
    ASSUME NEW n, NodeOK(n), NEW q \in Ranges(n.driver), NEW p,
           p.low = q[1] * NFun, p.high = q[2] * NFun
    PROVE  p.low \in Ioctls /\ p.high \in Ioctls /\ IoctlsOf(SetXperm(n, p)) = IoctlsOf(n)
<1> DEFINE lo == ioctl_driver(p.low)
           hi == ioctl_driver(p.high)
           functions == IF lo \in DOMAIN n.func THEN n.func[lo] ELSE {}
           more == functions \cup ioctl_func(p.low) .. ioctl_func(p.high)
           m == SetXperm(n, p)
<1>1. n = [driver |-> n.driver, func |-> n.func] /\ n.driver \subseteq Drivers
  BY DEF NodeOK
<1>2. q[1] \in n.driver /\ q[2] \in n.driver /\ q[1] .. q[2] \subseteq n.driver
  BY DEF Ranges
<1>. NFun \in Nat /\ NFun > 0 /\ NDrv \in Nat
  BY SepolicyAssumption
<1>3. ASSUME NEW v \in Drivers PROVE v * NFun \in Ioctls /\ ioctl_driver(v * NFun) = v
  <2>1. v \in Int /\ 0 <= v /\ v <= NDrv - 1
    BY DEF Drivers
  <2>2. ioctl_driver(v * NFun) = v
    <3>1. PICK f \in 0 .. NFun - 1 : f = 0
      OBVIOUS
    <3>2. ioctl_driver(v * NFun + f) = v
      BY <2>1, SplitUnique
    <3>3. v * NFun + f = v * NFun
      BY <2>1, <3>1
    <3>. QED BY <3>2, <3>3
  <2>3. v * NFun >= 0 /\ v * NFun \in Int
    BY <2>1
  <2>4. v * NFun <= NDrv * NFun - 1
    <3>1. (NDrv - v) * NFun >= NFun
      BY <2>1
    <3>2. (NDrv - v) * NFun = NDrv * NFun - v * NFun /\ NDrv * NFun \in Int
      BY <2>1
    <3>. QED BY <3>1, <3>2, <2>3
  <2>5. NDrv * NFun \in Int
    OBVIOUS
  <2>. QED BY <2>2, <2>3, <2>4, <2>5 DEF Ioctls
<1>4. lo = q[1] /\ hi = q[2] /\ p.low \in Ioctls /\ p.high \in Ioctls
  BY <1>1, <1>2, <1>3
<1>5. CASE lo # hi
  <2>1. m = [n EXCEPT !.driver = @ \cup lo .. hi]
    BY <1>5 DEF SetXperm
  <2>2. n.driver \cup lo .. hi = n.driver
    BY <1>2, <1>4
  <2>3. m = n
    BY <2>1, <2>2, <1>1, Zenon
  <2>. QED BY <1>4, <2>3
<1>6. CASE lo = hi
  <2> DEFINE g == With(n.func, lo, more)
  <2>1. m = [n EXCEPT !.func = g]
    BY <1>6 DEF SetXperm
  <2>2. DOMAIN g = DOMAIN n.func \cup {lo} /\ \A v \in DOMAIN n.func : v # lo => g[v] = n.func[v]
    BY DEF With
  <2> HIDE DEF g
  <2>3. m = [driver |-> n.driver, func |-> g]
    BY <2>1, <1>1, Zenon
  <2>4. m.driver = n.driver /\ m.func = g
    BY <2>3
  <2> HIDE DEF m, lo
  <2>5. lo \in n.driver
    BY <1>2, <1>4
  <2>6. IoctlsOf(m) = IoctlsOf(n)
    BY <2>2, <2>4, <2>5 DEF IoctlsOf
  <2>. QED BY <1>4, <2>6 DEF m
<1>. QED BY <1>5, <1>6

\* A range of functions that is set: SetXperm finds them set.
LEMMA SetFunctionsAgain ==
    ASSUME NEW n, NodeOK(n), NEW v \in DOMAIN n.func, NEW q \in Ranges(n.func[v]), NEW p,
           p.low = v * NFun + q[1], p.high = v * NFun + q[2]
    PROVE  p.low \in Ioctls /\ p.high \in Ioctls /\ IoctlsOf(SetXperm(n, p)) = IoctlsOf(n)
<1>1. /\ n = [driver |-> n.driver, func |-> n.func] /\ DOMAIN n.func \subseteq Drivers
      /\ n.func \in [DOMAIN n.func -> SUBSET Functions]
  BY DEF NodeOK
<1>2. q[1] \in n.func[v] /\ q[2] \in n.func[v] /\ q[1] .. q[2] \subseteq n.func[v]
  BY DEF Ranges
<1>. NFun \in Nat /\ NFun > 0 /\ NDrv \in Nat
  BY SepolicyAssumption
<1>3. v \in Int /\ 0 <= v /\ v <= NDrv - 1 /\ q[1] \in 0 .. NFun - 1 /\ q[2] \in 0 .. NFun - 1
  BY <1>1, <1>2 DEF Drivers, Functions
<1>4. /\ ioctl_driver(p.low) = v /\ ioctl_driver(p.high) = v
      /\ ioctl_func(p.low) = q[1] /\ ioctl_func(p.high) = q[2]
  BY <1>3, SplitUnique
<1>5. p.low \in Ioctls /\ p.high \in Ioctls
  <2>1. (NDrv - v) * NFun >= NFun
    BY <1>3
  <2>2. (NDrv - v) * NFun = NDrv * NFun - v * NFun /\ NDrv * NFun \in Int
        /\ v * NFun \in Int /\ v * NFun >= 0
    BY <1>3
  <2>. QED BY <2>1, <2>2, <1>3 DEF Ioctls
<1>6. n.func[v] \cup q[1] .. q[2] = n.func[v]
  BY <1>2
<1>7. With(n.func, v, n.func[v]) = n.func
  BY <1>1, WithSame DEF Is
<1>8. SetXperm(n, p) = [n EXCEPT !.func = n.func]
  BY <1>4, <1>6, <1>7, Zenon DEF SetXperm
<1>9. SetXperm(n, p) = n
  BY <1>1, <1>8, Zenon
<1>. QED BY <1>5, <1>9

\* A printed range of ioctls is in force when SetXperm finds it set.
LEMMA PrintedXperm ==
    ASSUME NEW d, Good(d), NEW k \in DOMAIN d.xp, NEW low \in Ioctls, NEW high \in Ioctls, NEW st,
           st = PrintXperm(k, low, high),
           \A p : p.low = low /\ p.high = high => IoctlsOf(SetXperm(d.xp[k], p)) = IoctlsOf(d.xp[k]),
           NEW i \in DOMAIN expand(st)
    PROVE  Unmoved(d, Do(d, expand(st)[i]))
<1> DEFINE range == [low |-> low, high |-> high, reset |-> FALSE]
           x == << << <<k[1], k[2]>>, k[3]>>, range>>
           all == Product(Product(Product(Vec(st.s), Vec(st.t)), Vec(st.c)), st.x)
<1>1. Shape(d) /\ Wild \notin Types(d) /\ XpPart(Types(d), d.xp)
  BY GoodParts DEF TypesPart
<1>2. /\ k = <<k[1], k[2], k[3], k[4]>> /\ k[1] \in Types(d) /\ k[2] \in Types(d) /\ k[3] \in Classes
      /\ k[4] \in XpermOps
  <2>1. k \in Types(d) \X Types(d) \X Classes \X XpermOps
    BY <1>1 DEF XpPart
  <2>. QED BY <2>1
<1>3. /\ range.low = low /\ range.high = high /\ ~ range.reset
      /\ IoctlsOf(SetXperm(d.xp[k], range)) = IoctlsOf(d.xp[k])
  OBVIOUS
<1>4. st.op = k[4] /\ st.s = <<k[1]>> /\ st.t = <<k[2]>> /\ st.c = <<k[3]>> /\ st.x = <<range>>
  BY DEF PrintXperm
<1> HIDE DEF range
<1>5. all = <<x>>
  <2> DEFINE y == <<k[1], k[2]>>
             z == <<y, k[3]>>
  <2>1. Product(<<k[1]>>, <<k[2]>>) = <<y>> /\ Vec(<<k[1]>>) = <<k[1]>> /\ Vec(<<k[2]>>) = <<k[2]>>
    BY SingleProduct
  <2> HIDE DEF y
  <2>2. Product(<<y>>, <<k[3]>>) = <<z>> /\ Vec(<<k[3]>>) = <<k[3]>>
    BY SingleProduct
  <2> HIDE DEF z
  <2>3. Product(<<z>>, <<range>>) = << <<z, range>> >>
    BY SingleProduct
  <2>4. all = << <<z, range>> >>
    BY <1>4, <2>1, <2>2, <2>3
  <2>. QED BY <2>4 DEF y, z
<1>6. expand(st) = XpermRules(st)
  <2>1. st.op \in XpermOps /\ st.op \notin DOMAIN AvEffects /\ st.op \notin {"type", "typeattribute"}
        /\ st.op \notin {"permissive", "enforce"}
    BY <1>2, <1>4 DEF AvEffects, XpermOps
  <2>. QED BY <2>1 DEF expand
<1>7. XpermRules(st) = [j \in DOMAIN all |-> XpermRule(all[j], st.op)]
  BY DEF XpermRules, XpermRule
<1> HIDE DEF all, x
<1>8. expand(st)[i] = XpermRule(x, st.op)
  <2>1. DOMAIN <<x>> = {1} /\ <<x>>[1] = x
    OBVIOUS
  <2>2. i \in DOMAIN <<x>> /\ expand(st)[i] = XpermRule(<<x>>[i], st.op)
    BY <1>5, <1>6, <1>7, Zenon
  <2>3. <<x>>[i] = x
    BY <2>1, <2>2
  <2>. QED BY <2>2, <2>3, Zenon
<1> DEFINE r == expand(st)[i]
<1>9. /\ r.op = "add_xperm_rule" /\ r.effect = k[4] /\ r.x = range
      /\ r.s = k[1] /\ r.t = k[2] /\ r.c = k[3]
  <2>1. r.op = "add_xperm_rule" /\ r.effect = st.op /\ r.x = x[2]
        /\ r.s = x[1][1][1] /\ r.t = x[1][1][2] /\ r.c = x[1][2]
    <3>1. r = XpermRule(x, st.op)
      BY <1>8
    <3> HIDE DEF r
    <3>. QED BY <3>1, XpermRuleFields
  <2> HIDE DEF r
  <2>2. x[1][1][1] = k[1] /\ x[1][1][2] = k[2] /\ x[1][2] = k[3] /\ x[2] = range
    BY DEF x
  <2>. QED BY <1>4, <2>1, <2>2
<1> HIDE DEF r
<1>10. Do(d, r) = add_xperm_rule(d, r)
  BY <1>9 DEF Do
<1>11. Unmoved(d, add_xperm_rule(d, r))
  <2> DEFINE keys == Keys(d, r, FALSE)
             New(y) == IF r.x.reset THEN ResetXperm(Nodes(d, y), r.x)
                                    ELSE SetXperm(Nodes(d, y), r.x)
             xp == [y \in keys \cup DOMAIN d.xp |-> IF y \in keys THEN New(y) ELSE d.xp[y]]
             e == [d EXCEPT !.xp = xp]
  <2>1. add_xperm_rule(d, r) = d \/ add_xperm_rule(d, r) = e
    BY Zenon DEF add_xperm_rule
  <2>2. keys = {k}
    <3>1. Range_(d, r.s, FALSE) = {k[1]} /\ Range_(d, r.t, FALSE) = {k[2]} /\ ClassRange(r.c) = {k[3]}
      BY <1>1, <1>2, <1>9, SepolicyAssumption DEF Range_, ClassRange
    <3>2. keys = {k[1]} \X {k[2]} \X {k[3]} \X {k[4]}
      BY <1>9, <3>1 DEF Keys
    <3> HIDE DEF keys
    <3>. QED BY <3>2, <1>2
  <2>3. New(k) = SetXperm(d.xp[k], range)
    BY <1>3, <1>9 DEF Nodes
  <2> HIDE DEF keys, New
  <2>4. DOMAIN xp = DOMAIN d.xp /\ \A y \in DOMAIN d.xp : IoctlsOf(xp[y]) = IoctlsOf(d.xp[y])
    BY <2>2, <2>3, <1>3
  <2> HIDE DEF xp
  <2>5. e.xp = xp
    BY <1>1, PutXp
  <2>6. [e EXCEPT !.xp = <<>>] = [d EXCEPT !.xp = <<>>]
    BY <1>1, PutXpUnmoved
  <2> HIDE DEF e
  <2>7. Unmoved(d, e)
    BY <2>4, <2>5, <2>6 DEF Unmoved, Nodes
  <2>. QED BY <2>1, <2>7, SelfUnmoved
<1>. QED BY <1>10, <1>11 DEF r

\* Whatever was executed, every rule that print_rules prints, executed again, changes no
\* field of the policy and no ioctl's verdict.
THEOREM PrintedRulesAlwaysHold == Spec => []PrintedRulesHold
<1>1. ASSUME PolicyInv, NEW st \in print_rules(db), NEW i \in DOMAIN expand(st)
      PROVE  Unmoved(db, Do(db, expand(st)[i]))
  <2>1. Good(db)
    BY <1>1 DEF PolicyInv
  <2>2. ASSUME NEW n \in Types(db), st \in print_type(db, n)
        PROVE  Unmoved(db, Do(db, expand(st)[i]))
    BY <2>1, <2>2, PrintedTypes, SelfUnmoved
  <2>3. ASSUME NEW k \in DOMAIN db.av, NEW p \in PrintedPerms(k, db.av[k]),
               st = [op |-> PrintName[k[4]], s |-> <<k[1]>>, t |-> <<k[2]>>, c |-> <<k[3]>>, p |-> <<p>>]
        PROVE  Unmoved(db, Do(db, expand(st)[i]))
    <3>1. Do(db, expand(st)[i]) = db
      BY <2>1, <2>3, PrintedAv
    <3>. QED BY <3>1, SelfUnmoved
  <2>4. ASSUME NEW k \in DOMAIN db.ty,
               st = [op |-> "type_rule", s |-> <<k[1]>>, t |-> <<k[2]>>, c |-> <<k[3]>>,
                     def |-> db.ty[k], effect |-> k[4]]
        PROVE  Unmoved(db, Do(db, expand(st)[i]))
    <3>1. Do(db, expand(st)[i]) = db
      BY <2>1, <2>4, PrintedTables
    <3>. QED BY <3>1, SelfUnmoved
  <2>5. ASSUME NEW k \in DOMAIN db.genfs,
               st = [op |-> "genfscon", fs |-> k[1], path |-> k[2], ctx |-> db.genfs[k]]
        PROVE  Unmoved(db, Do(db, expand(st)[i]))
    <3>1. Do(db, expand(st)[i]) = db
      BY <2>1, <2>5, PrintedTables
    <3>. QED BY <3>1, SelfUnmoved
  <2>6. ASSUME NEW k \in DOMAIN db.xp PROVE NodeOK(db.xp[k])
    BY <2>1, GoodParts DEF XpPart
  <2>7. ASSUME NEW k \in DOMAIN db.xp, NEW q \in Ranges(db.xp[k].driver),
               st = PrintXperm(k, q[1] * NFun, q[2] * NFun)
        PROVE  Unmoved(db, Do(db, expand(st)[i]))
    <3> DEFINE low == q[1] * NFun
               high == q[2] * NFun
    <3>1. /\ low \in Ioctls /\ high \in Ioctls
          /\ \A p : p.low = low /\ p.high = high => IoctlsOf(SetXperm(db.xp[k], p)) = IoctlsOf(db.xp[k])
      <4>1. ASSUME NEW p, p.low = low, p.high = high
            PROVE  low \in Ioctls /\ high \in Ioctls /\ IoctlsOf(SetXperm(db.xp[k], p)) = IoctlsOf(db.xp[k])
        BY <4>1, <2>6, SetDriversAgain
      <4>2. [low |-> low, high |-> high].low = low /\ [low |-> low, high |-> high].high = high
        OBVIOUS
      <4> HIDE DEF low, high
      <4>. QED BY <4>1, <4>2
    <3> HIDE DEF low, high
    <3>2. st = PrintXperm(k, low, high)
      BY <2>7 DEF low, high
    <3>. QED BY <2>1, <3>1, <3>2, PrintedXperm
  <2>8. ASSUME NEW k \in DOMAIN db.xp, NEW v \in DOMAIN db.xp[k].func, NEW q \in Ranges(db.xp[k].func[v]),
               st = PrintXperm(k, v * NFun + q[1], v * NFun + q[2])
        PROVE  Unmoved(db, Do(db, expand(st)[i]))
    <3> DEFINE low == v * NFun + q[1]
               high == v * NFun + q[2]
    <3>1. /\ low \in Ioctls /\ high \in Ioctls
          /\ \A p : p.low = low /\ p.high = high => IoctlsOf(SetXperm(db.xp[k], p)) = IoctlsOf(db.xp[k])
      <4>1. ASSUME NEW p, p.low = low, p.high = high
            PROVE  low \in Ioctls /\ high \in Ioctls /\ IoctlsOf(SetXperm(db.xp[k], p)) = IoctlsOf(db.xp[k])
        BY <4>1, <2>6, SetFunctionsAgain
      <4>2. [low |-> low, high |-> high].low = low /\ [low |-> low, high |-> high].high = high
        OBVIOUS
      <4> HIDE DEF low, high
      <4>. QED BY <4>1, <4>2
    <3> HIDE DEF low, high
    <3>2. st = PrintXperm(k, low, high)
      BY <2>8 DEF low, high
    <3>. QED BY <2>1, <3>1, <3>2, PrintedXperm
  <2>9. \/ \E n \in Types(db) : st \in print_type(db, n)
        \/ st \in print_avtab(db)
        \/ \E k \in DOMAIN db.genfs :
              st = [op |-> "genfscon", fs |-> k[1], path |-> k[2], ctx |-> db.genfs[k]]
    <3> DEFINE G(k) == [op |-> "genfscon", fs |-> k[1], path |-> k[2], ctx |-> db.genfs[k]]
               T == UNION {print_type(db, n) : n \in Types(db)}
               C == {G(k) : k \in DOMAIN db.genfs}
    <3>1. print_rules(db) = (T \cup print_avtab(db)) \cup C
      BY Zenon DEF print_rules
    <3> HIDE DEF G, T, C
    <3>3. st \in T \/ st \in print_avtab(db) \/ st \in C
      BY <1>1, <3>1
    <3>4. st \in T => \E n \in Types(db) : st \in print_type(db, n)
      BY Zenon DEF T
    <3>5. st \in C => \E k \in DOMAIN db.genfs : st = G(k)
      BY Zenon DEF C
    <3>2. \/ \E n \in Types(db) : st \in print_type(db, n)
          \/ st \in print_avtab(db)
          \/ \E k \in DOMAIN db.genfs : st = G(k)
      BY <3>3, <3>4, <3>5, Zenon
    <3>. QED BY <3>2, Zenon DEF G
  <2>10. ASSUME st \in print_avtab(db) PROVE Unmoved(db, Do(db, expand(st)[i]))
    <3>1. \/ \E k \in DOMAIN db.av : \E p \in PrintedPerms(k, db.av[k]) :
                st = [op |-> PrintName[k[4]], s |-> <<k[1]>>, t |-> <<k[2]>>, c |-> <<k[3]>>, p |-> <<p>>]
          \/ \E k \in DOMAIN db.ty :
                st = [op |-> "type_rule", s |-> <<k[1]>>, t |-> <<k[2]>>, c |-> <<k[3]>>,
                      def |-> db.ty[k], effect |-> k[4]]
          \/ st \in print_xperms(db)
      <4> DEFINE A(k, p) == [op |-> PrintName[k[4]], s |-> <<k[1]>>, t |-> <<k[2]>>, c |-> <<k[3]>>, p |-> <<p>>]
                 R(k) == [op |-> "type_rule", s |-> <<k[1]>>, t |-> <<k[2]>>, c |-> <<k[3]>>,
                          def |-> db.ty[k], effect |-> k[4]]
                 T == UNION {{A(k, p) : p \in PrintedPerms(k, db.av[k])} : k \in DOMAIN db.av}
                 C == {R(k) : k \in DOMAIN db.ty}
      <4>1. print_avtab(db) = (T \cup C) \cup print_xperms(db)
        BY Zenon DEF print_avtab
      <4> HIDE DEF A, R, T, C
      <4>3. st \in T \/ st \in C \/ st \in print_xperms(db)
        BY <2>10, <4>1
      <4>4. st \in T => \E k \in DOMAIN db.av : \E p \in PrintedPerms(k, db.av[k]) : st = A(k, p)
        BY DEF T
      <4>5. st \in C => \E k \in DOMAIN db.ty : st = R(k)
        BY Zenon DEF C
      <4>2. \/ \E k \in DOMAIN db.av : \E p \in PrintedPerms(k, db.av[k]) : st = A(k, p)
            \/ \E k \in DOMAIN db.ty : st = R(k)
            \/ st \in print_xperms(db)
        BY <4>3, <4>4, <4>5, Zenon
      <4>. QED BY <4>2, Zenon DEF A, R
    <3>2. ASSUME st \in print_xperms(db) PROVE Unmoved(db, Do(db, expand(st)[i]))
      <4>1. \E k \in DOMAIN db.xp :
               \/ \E q \in Ranges(db.xp[k].driver) : st = PrintXperm(k, q[1] * NFun, q[2] * NFun)
               \/ \E v \in DOMAIN db.xp[k].func : \E q \in Ranges(db.xp[k].func[v]) :
                     st = PrintXperm(k, v * NFun + q[1], v * NFun + q[2])
        BY <3>2 DEF print_xperms
      <4>. QED BY <4>1, <2>7, <2>8, Zenon
    <3>. QED BY <3>1, <3>2, <2>3, <2>4, Zenon
  <2>. QED BY <2>2, <2>5, <2>9, <2>10, Zenon
<1>2. PolicyInv => PrintedRulesHold
  BY <1>1, Zenon DEF PrintedRulesHold, Unmoved
<1>. QED BY <1>2, PolicyInvInit, PolicyInvKept, PTL DEF Spec
=============================================================================
