-------------------------- MODULE MagiskbootProofs --------------------------
(***************************************************************************)
(* magiskboot: the merge loop of Cpio::backup classifies every name        *)
(* correctly, for ramdisks of any size; exchanging the payload of any      *)
(* zImage leaves the words of the GOT pointing at what they pointed at.    *)
(***************************************************************************)
EXTENDS CpioMerge, ZImage, TLAPS

-----------------------------------------------------------------------------
(* The merge loop of Cpio::backup. *)

\* What next() of an iterator does to the names it has still to deliver.
LEMMA RefillFacts ==
    ASSUME NEW opt \in Names \cup {None}, NEW iter \in SUBSET Names,
           NEW n \in Names \cup {None}, NEW rest, Refill(opt, iter, n, rest),
           Ahead(opt, iter)
    PROVE  /\ rest \subseteq iter
           /\ rest \cup Opt(n) = iter \cup Opt(opt)
           /\ n \notin rest
           /\ Ahead(n, rest)
           /\ n = None => rest = {}
<1> USE MergeAssumption DEF Ahead
<1>1. CASE opt # None
  <2>1. n = opt /\ rest = iter
    BY <1>1 DEF Refill
  <2>2. opt \in Int /\ \A m \in iter : opt < m /\ m \in Int
    BY <1>1
  <2>3. opt \notin iter
    BY <2>2
  <2>. QED BY <1>1, <2>1, <2>2, <2>3
<1>2. CASE opt = None /\ iter = {}
  BY <1>2 DEF Refill, Takes, IsLeast, Opt
<1>3. CASE opt = None /\ iter # {}
  <2>1. IsLeast(n, iter) /\ rest = iter \ {n}
    BY <1>3 DEF Refill, Takes
  <2>2. n \in iter /\ \A m \in iter : n <= m
    BY <2>1 DEF IsLeast
  <2>3. \A m \in rest : n < m
    BY <2>1, <2>2
  <2>4. n # None /\ Opt(n) = {n} /\ Opt(opt) = {}
    BY <1>3, <2>2 DEF Opt
  <2>. QED BY <2>1, <2>2, <2>3, <2>4
<1>. QED BY <1>1, <1>2, <1>3

\* The first next() of an iterator is a refill of nothing.
LEMMA TakesFacts ==
    ASSUME NEW iter \in SUBSET Names, NEW n, NEW rest, Takes(iter, n, rest)
    PROVE  /\ n \in Names \cup {None}
           /\ rest \cup Opt(n) = iter
           /\ Ahead(n, rest)
<1>1. n \in Names \cup {None}
  BY DEF Takes, IsLeast
<1>2. Refill(None, iter, n, rest)
  BY DEF Refill
<1>3. Opt(None) = {} /\ Ahead(None, iter)
  BY DEF Opt, Ahead
<1>. QED BY <1>1, <1>2, <1>3, RefillFacts

\* The loop starts with nothing settled.
LEMMA MergeInvInit == MergeInit => MergeInv
<1> SUFFICES ASSUME MergeInit PROVE MergeInv
  OBVIOUS
<1>1. Left \subseteq Names /\ Right \subseteq Names
  BY DEF MergeInit, Left, Right
<1>2. /\ lhs \in Names \cup {None} /\ LeftToDo = Left
      /\ Ahead(lhs, left_iter)
  BY <1>1, TakesFacts DEF MergeInit, LeftToDo
<1>3. /\ rhs \in Names \cup {None} /\ RightToDo = Right
      /\ Ahead(rhs, right_iter)
  BY <1>1, TakesFacts DEF MergeInit, RightToDo
<1>4. backups = SavedOf(Left \ LeftToDo) /\ rm_list = RecordedOf(Right \ RightToDo)
  BY <1>2, <1>3 DEF MergeInit, SavedOf, RecordedOf
<1>5. MergeTypeOK
  BY <1>1, <1>2, <1>3 DEF MergeInit, MergeTypeOK
<1>. QED
  BY <1>2, <1>3, <1>4, <1>5 DEF MergeInit, MergeInv

\* One turn of the loop settles the least names still to deliver, correctly.
LEMMA MergeStep == MergeInv /\ [MergeNext]_mergeVars => MergeInv'
<1> SUFFICES ASSUME MergeInv, [MergeNext]_mergeVars PROVE MergeInv'
  OBVIOUS
<1>1. CASE UNCHANGED mergeVars
  BY <1>1 DEF mergeVars, consts, MergeInv, MergeTypeOK, Left, Right, LeftToDo, RightToDo, Opt,
              SavedOf, RecordedOf, Ahead
<1>2. CASE MergeNext
  <2>0. PICK ln \in Names \cup {None}, rn \in Names \cup {None} :
            /\ Refill(lhs, left_iter, ln, left_iter')
            /\ Refill(rhs, right_iter, rn, right_iter')
            /\ Turn(ln, rn)
    BY <1>2 DEF MergeNext
  <2>1. UNCHANGED <<odata, edata>> /\ ~ done
    BY <1>2 DEF MergeNext, consts
  <2>2. Left' = Left /\ Right' = Right
    BY <2>1 DEF Left, Right
  <2>3. /\ left_iter \in SUBSET Names /\ right_iter \in SUBSET Names
        /\ LeftToDo \subseteq Left /\ RightToDo \subseteq Right
        /\ Left \subseteq Names /\ Right \subseteq Names
        /\ lhs \in Names \cup {None} /\ rhs \in Names \cup {None}
    BY DEF MergeInv, MergeTypeOK, LeftToDo, RightToDo
  <2>4. /\ left_iter' \cup Opt(ln) = LeftToDo /\ ln \notin left_iter'
        /\ Ahead(ln, left_iter')
        /\ ln = None => left_iter' = {}
    <3>1. PICK o, iter, rest :
                 o = lhs /\ iter = left_iter /\ rest = left_iter'
      OBVIOUS
    <3>2. /\ Refill(o, iter, ln, rest) /\ Ahead(o, iter)
          /\ o \in Names \cup {None} /\ iter \in SUBSET Names
      BY <2>0, <2>3, <3>1 DEF MergeInv
    <3>3. rest \cup Opt(ln) = iter \cup Opt(o) /\ ln \notin rest
          /\ Ahead(ln, rest) /\ (ln = None => rest = {})
      BY <3>2, RefillFacts
    <3>. QED BY <3>1, <3>3 DEF LeftToDo
  <2>5. /\ right_iter' \cup Opt(rn) = RightToDo /\ rn \notin right_iter'
        /\ Ahead(rn, right_iter')
        /\ rn = None => right_iter' = {}
    <3>1. PICK o, iter, rest :
                 o = rhs /\ iter = right_iter /\ rest = right_iter'
      OBVIOUS
    <3>2. /\ Refill(o, iter, rn, rest) /\ Ahead(o, iter)
          /\ o \in Names \cup {None} /\ iter \in SUBSET Names
      BY <2>0, <2>3, <3>1 DEF MergeInv
    <3>3. rest \cup Opt(rn) = iter \cup Opt(o) /\ rn \notin rest
          /\ Ahead(rn, rest) /\ (rn = None => rest = {})
      BY <3>2, RefillFacts
    <3>. QED BY <3>1, <3>3 DEF RightToDo
  <2>6. /\ \A n \in Left \ LeftToDo, m \in LeftToDo \cup RightToDo : n < m
        /\ \A n \in Right \ RightToDo, m \in LeftToDo \cup RightToDo : n < m
        /\ backups = SavedOf(Left \ LeftToDo) /\ rm_list = RecordedOf(Right \ RightToDo)
    BY DEF MergeInv
  \* It is enough to say which names remain and what has been settled.
  <2>7. ASSUME lhs' \in {ln, None}, rhs' \in {rn, None}, MergeTypeOK',
               \A n \in Left \ LeftToDo', m \in LeftToDo' \cup RightToDo' : n < m,
               \A n \in Right \ RightToDo', m \in LeftToDo' \cup RightToDo' : n < m,
               backups' = SavedOf(Left \ LeftToDo'),
               rm_list' = RecordedOf(Right \ RightToDo'),
               done' => LeftToDo' = {} /\ RightToDo' = {}
        PROVE  MergeInv'
    <3>1. SavedOf(Left \ LeftToDo)' = SavedOf(Left \ LeftToDo')
      BY <2>1, <2>2 DEF SavedOf, Right
    <3>2. RecordedOf(Right \ RightToDo)' = RecordedOf(Right \ RightToDo')
      BY <2>1, <2>2 DEF RecordedOf, Left
    <3>. QED BY <2>2, <2>4, <2>5, <2>7, <3>1, <3>2 DEF MergeInv, Ahead
  <2>8. CASE BackupLeft(ln, rn)
    <3>1. LeftToDo' = LeftToDo \ {ln} /\ RightToDo' = RightToDo /\ ln \in LeftToDo
      BY <2>4, <2>5, <2>8 DEF BackupLeft, LeftToDo, RightToDo, Opt
    <3>2. \A m \in LeftToDo' \cup RightToDo' : ln < m
      BY <2>3, <2>4, <2>5, <2>8, <3>1, MergeAssumption DEF BackupLeft, Opt, Ahead
    <3>3. ln \notin Right /\ ln \in Left
      BY <2>3, <2>6, <3>1, <3>2, MergeAssumption
    <3>4. backups' = SavedOf(Left \ LeftToDo')
      BY <2>3, <2>6, <2>8, <3>1, <3>3 DEF BackupLeft, SavedOf
    <3>5. MergeTypeOK'
      BY <2>2, <2>3, <2>8, <3>1, <3>3 DEF BackupLeft, MergeInv, MergeTypeOK
    <3>6. \A n \in Left \ LeftToDo', m \in LeftToDo' \cup RightToDo' : n < m
      BY <2>6, <3>1, <3>2
    <3>7. \A n \in Right \ RightToDo', m \in LeftToDo' \cup RightToDo' : n < m
      BY <2>6, <3>1, <3>2
    <3>. QED BY <2>1, <2>6, <2>7, <2>8, <3>1, <3>4, <3>5, <3>6, <3>7 DEF BackupLeft
  <2>9. CASE RecordRight(ln, rn)
    <3>1. RightToDo' = RightToDo \ {rn} /\ LeftToDo' = LeftToDo /\ rn \in RightToDo
      BY <2>4, <2>5, <2>9 DEF RecordRight, LeftToDo, RightToDo, Opt
    <3>2. \A m \in LeftToDo' \cup RightToDo' : rn < m
      BY <2>3, <2>4, <2>5, <2>9, <3>1, MergeAssumption DEF RecordRight, Opt, Ahead
    <3>3. rn \notin Left /\ rn \in Right
      BY <2>3, <2>6, <3>1, <3>2, MergeAssumption
    <3>4. rm_list' = RecordedOf(Right \ RightToDo')
      BY <2>3, <2>6, <2>9, <3>1, <3>3 DEF RecordRight, RecordedOf
    <3>5. MergeTypeOK'
      BY <2>2, <2>3, <2>9, <3>1, <3>3 DEF RecordRight, MergeInv, MergeTypeOK
    <3>6. \A n \in Left \ LeftToDo', m \in LeftToDo' \cup RightToDo' : n < m
      BY <2>6, <3>1, <3>2
    <3>7. \A n \in Right \ RightToDo', m \in LeftToDo' \cup RightToDo' : n < m
      BY <2>6, <3>1, <3>2
    <3>. QED BY <2>1, <2>6, <2>7, <2>9, <3>1, <3>4, <3>5, <3>6, <3>7 DEF RecordRight
  <2>10. CASE Compare(ln, rn)
    <3>1. /\ LeftToDo' = LeftToDo \ {ln} /\ RightToDo' = RightToDo \ {ln}
          /\ ln \in LeftToDo /\ ln \in RightToDo
      BY <2>4, <2>5, <2>10 DEF Compare, LeftToDo, RightToDo, Opt
    <3>2. \A m \in LeftToDo' \cup RightToDo' : ln < m
      BY <2>4, <2>5, <2>10, <3>1 DEF Compare, Opt, Ahead
    <3>3. backups' = SavedOf(Left \ LeftToDo')
      BY <2>3, <2>6, <2>10, <3>1 DEF Compare, SavedOf
    <3>4. rm_list' = RecordedOf(Right \ RightToDo')
      BY <2>3, <2>6, <2>10, <3>1 DEF Compare, RecordedOf
    <3>5. MergeTypeOK'
      BY <2>2, <2>3, <2>10, <3>1 DEF Compare, MergeInv, MergeTypeOK
    <3>6. \A n \in Left \ LeftToDo', m \in LeftToDo' \cup RightToDo' : n < m
      BY <2>6, <3>1, <3>2
    <3>7. \A n \in Right \ RightToDo', m \in LeftToDo' \cup RightToDo' : n < m
      BY <2>6, <3>1, <3>2
    <3>. QED BY <2>1, <2>6, <2>7, <2>10, <3>1, <3>3, <3>4, <3>5, <3>6, <3>7 DEF Compare
  <2>11. CASE Break(ln, rn)
    <3>1. LeftToDo' = {} /\ RightToDo' = {} /\ LeftToDo = {} /\ RightToDo = {}
      BY <2>4, <2>5, <2>11 DEF Break, LeftToDo, RightToDo, Opt
    <3>2. MergeTypeOK'
      BY <2>2, <2>3, <2>11, <3>1 DEF Break, MergeInv, MergeTypeOK
    <3>. QED BY <2>6, <2>7, <2>11, <3>1, <3>2 DEF Break
  <2>. QED BY <2>0, <2>8, <2>9, <2>10, <2>11 DEF Turn
<1>. QED BY <1>1, <1>2

\* The saved and the recorded names that Cpio::backup computes are exactly the
\* changed or missing original names and the new current names.
THEOREM MergeIsCorrect == MergeSpec => []MergeCorrect
<1>1. MergeInv => MergeCorrect
  BY DEF MergeInv, MergeCorrect, SavedOf, RecordedOf
<1>. QED
  BY MergeInvInit, MergeStep, <1>1, PTL DEF MergeSpec

-----------------------------------------------------------------------------
(* The zImage. *)

\* Rounding up to four.
LEMMA Align4 ==
    ASSUME NEW v \in Nat
    PROVE  /\ align4(v) \in Nat
           /\ align4(v) >= v /\ align4(v) < v + 4
PROOF BY DEF align4

\* One word of the tail: new_tail turns the address of what it refers to into its
\* address after the exchange, whichever of the cases it takes.
LEMMA WordFollows ==
    ASSUME NEW s \in Shapes, NEW p \in Payloads, NEW sz \in Payloads,
           NEW i \in 1..Len(s.tail)
    PROVE  NewTailWord(s, s.head + p, sz, TailWord(s, p, i)) = TailWord(s, sz, i)
PROOF
<1>1. /\ s.start \in Nat /\ s.head \in Nat
      /\ TailRef(s, s.tail[i])
    BY ShapesAssumption
<1>2. p \in Nat /\ p > 4 /\ sz \in Nat /\ sz > 4
    BY PayloadsAssumption
<1> DEFINE ref == s.tail[i]
           e == s.start + s.head + p
           f == s.start + s.head + sz
<1>3. e \in Nat /\ f \in Nat /\ s.start + (s.head + p) = e
    BY <1>1, <1>2
<1>4. /\ align4(e) \in Nat /\ align4(e) >= e
      /\ align4(f) \in Nat /\ align4(f) >= f
    BY <1>3, Align4
<1>5. /\ PiggyEnd(s, p) = e /\ PiggyEnd(s, sz) = f
      /\ GotStart(s, p) = align4(e) /\ GotStart(s, sz) = align4(f)
      /\ DeltaGot(s, s.head + p, sz) = align4(f) - align4(e)
    BY <1>3 DEF PiggyEnd, GotStart, DeltaGot
<1>6. ref.off \in Int
    BY <1>1 DEF TailRef
<1>7. \A val : NewTailWord(s, s.head + p, sz, val) =
                IF val = e THEN f
                ELSE IF val >= align4(e) - 4 THEN val + (align4(f) - align4(e)) ELSE val
    BY <1>3, <1>5 DEF NewTailWord
<1> HIDE DEF ref, e, f
<1>8. CASE ref.base = "end" /\ ref.off = 0
    <2>1. TailWord(s, p, i) = e /\ TailWord(s, sz, i) = f
        BY <1>8, <1>3, <1>5 DEF TailWord, Address, ref
    <2> QED BY <2>1, <1>7
<1>9. CASE ref.base = "tail" /\ ref.off > 0
    <2>1. TailWord(s, p, i) = align4(e) + ref.off /\ TailWord(s, sz, i) = align4(f) + ref.off
        BY <1>9, <1>5 DEF TailWord, Address, ref
    <2> QED BY <2>1, <1>3, <1>4, <1>6, <1>7, <1>9
<1>10. CASE ref.base = "head" /\ ref.off <= s.head
    <2>1. TailWord(s, p, i) = s.start + ref.off /\ TailWord(s, sz, i) = s.start + ref.off
        BY <1>10 DEF TailWord, Address, ref
    <2>2. s.start + ref.off < e /\ s.start + ref.off < align4(e) - 4
        BY <1>1, <1>2, <1>4, <1>6, <1>10 DEF e
    <2> QED BY <2>1, <2>2, <1>1, <1>3, <1>4, <1>6, <1>7
<1>11. CASE ref.base = "const" /\ ref.off <= s.start + s.head
    <2>1. TailWord(s, p, i) = ref.off /\ TailWord(s, sz, i) = ref.off
        BY <1>11 DEF TailWord, Address, ref
    <2>2. ref.off < e /\ ref.off < align4(e) - 4
        BY <1>1, <1>2, <1>4, <1>6, <1>11 DEF e
    <2> QED BY <2>1, <2>2, <1>3, <1>4, <1>6, <1>7
<1> QED
    BY <1>1, <1>8, <1>9, <1>10, <1>11 DEF TailRef, ref

\* The cases of new_tail.
LEMMA RelocatedCases ==
    ASSUME NEW s, NEW lc0, lc0 # 0, NEW t, NEW pe, NEW sz
    PROVE  /\ sz = pe - s.head => Relocated(s, lc0, t, pe, sz) = t
           /\ sz # pe - s.head =>
                Relocated(s, lc0, t, pe, sz) = [i \in 1..Len(t) |-> NewTailWord(s, pe, sz, t[i])]
PROOF BY DEF Relocated

\* The tail as a whole, whether the payload keeps its length or not.
LEMMA TailFollows ==
    ASSUME NEW s \in Shapes, NEW p \in Payloads, NEW sz \in Payloads, NEW lc0, lc0 # 0
    PROVE  Relocated(s, lc0, LinkedTail(s, p), s.head + p, sz) = LinkedTail(s, sz)
PROOF
<1>1. s.head \in Nat /\ p \in Nat /\ sz \in Nat /\ Len(s.tail) \in Nat
    BY ShapesAssumption, PayloadsAssumption
<1>0. PICK pe : pe = s.head + p
    OBVIOUS
<1>2. CASE sz = pe - s.head
    <2>1. sz = p
        BY <1>0, <1>1, <1>2
    <2>2. Relocated(s, lc0, LinkedTail(s, p), pe, sz) = LinkedTail(s, p)
        BY <1>2, RelocatedCases
    <2> QED
        BY <1>0, <2>1, <2>2
<1>3. CASE sz # pe - s.head
    <2>1. PICK t : t = LinkedTail(s, p)
        OBVIOUS
    <2>2. Relocated(s, lc0, t, pe, sz) =
            [i \in 1..Len(t) |-> NewTailWord(s, pe, sz, t[i])]
        BY <1>3, RelocatedCases
    <2>3. \A i \in 1..Len(s.tail) :
            NewTailWord(s, pe, sz, t[i]) = TailWord(s, sz, i)
        <3> TAKE i \in 1..Len(s.tail)
        <3>1. t[i] = TailWord(s, p, i)
            BY <2>1 DEF LinkedTail
        <3> QED BY <1>0, <3>1, WordFollows
    <2>4. Len(t) = Len(s.tail)
        <3> DEFINE n == Len(s.tail)
                   T(i) == TailWord(s, p, i)
        <3>1. n \in Nat /\ t = [i \in 1..n |-> T(i)]
            BY <1>1, <2>1 DEF LinkedTail
        <3> HIDE DEF n, T
        <3>2. Len(t) = n
            BY <3>1
        <3> QED BY <3>2 DEF n
    <2>5. [i \in 1..Len(t) |-> NewTailWord(s, pe, sz, t[i])] = LinkedTail(s, sz)
        BY <2>3, <2>4 DEF LinkedTail
    <2> QED
        BY <1>0, <2>1, <2>2, <2>5
<1> QED
    BY <1>0, <1>2, <1>3

\* The shape and the length of the payload stay what they may be.
Kinds == shape \in Shapes /\ piggy \in Payloads

\* The kernel and the payload stay of the kinds that may be given.
LEMMA KindsInvariant == Spec => []Kinds
PROOF
<1>1. Init => Kinds
    BY DEF Init, Kinds
<1>2. Kinds /\ [Next]_vars => Kinds'
    BY DEF Kinds, Next, Repack, vars
<1> QED
    BY <1>1, <1>2, PTL DEF Spec

\* A repack of a well-formed image of which parse found payload and LC0 makes the
\* tail the one that the linker would have made for the new payload.
LEMMA RepackFollows ==
    ASSUME Kinds, WellFormed, Found, NEW sz \in Payloads, Repack(sz)
    PROVE  tail' = LinkedTail(shape, piggy')
PROOF
<1>1. PICK s \in Shapes : s = shape
    BY DEF Kinds
<1>2. PICK p \in Payloads : p = piggy
    BY DEF Kinds
<1>3. piggy' = sz /\ tail' = new_tail(s.head + p, sz) /\ off_lc0 # 0
    <2>1. piggy_end = s.head + p /\ off_lc0 # 0
        BY <1>1, <1>2 DEF Found
    <2>2. PICK end \in {piggy_end} \ {0} : tail' = new_tail(end, sz)
        BY DEF Repack
    <2>3. end = s.head + p
        BY <2>1, <2>2
    <2> QED
        BY <2>1, <2>2, <2>3 DEF Repack
<1>4. s.start \in Nat /\ s.head \in Nat /\ p \in Nat /\ sz \in Nat /\ Len(s.tail) \in Nat
    BY ShapesAssumption, PayloadsAssumption
<1>5. tail = LinkedTail(s, p)
    BY <1>1, <1>2 DEF WellFormed
<1>6. OldTail(s.head + p) = tail
    <2>1. s.start + (s.head + p) = s.start + s.head + p
        BY <1>4
    <2>2. align4(s.start + (s.head + p)) = GotStart(s, p)
        BY <2>1 DEF GotStart, PiggyEnd
    <2>3. GotStart(s, p) \in Nat
        <3>1. PiggyEnd(s, p) \in Nat
            BY <1>4 DEF PiggyEnd
        <3> QED BY <3>1, Align4 DEF GotStart
    <2>4. (GotStart(s, p) - GotStart(s, p)) \div 4 = 0
        BY <2>3
    <2> QED
        BY <1>1, <1>2, <2>2, <2>4 DEF OldTail
<1>7. PICK lc0 : lc0 = off_lc0
    OBVIOUS
<1>8. tail' = Relocated(s, lc0, LinkedTail(s, p), s.head + p, sz)
    <2>1. tail' = Relocated(shape, off_lc0, OldTail(s.head + p), s.head + p, sz)
        BY <1>3 DEF new_tail
    <2> QED BY <2>1, <1>1, <1>5, <1>6, <1>7
<1> QED
    BY <1>1, <1>3, <1>7, <1>8, TailFollows

\* For every kernel and all lengths of payloads, in every alignment: a repack of
\* a well-formed zImage moves each word of the GOT to the new address of what it
\* refers to (ZImage::new_tail).
THEOREM ZImageGotFollows == Spec => GotFollows
PROOF
<1>1. Kinds /\ [Next]_vars =>
        [WellFormed /\ Found => tail' = LinkedTail(shape, piggy')]_vars
    BY RepackFollows DEF Next
<1>2. [][Next]_vars /\ []Kinds => GotFollows
    BY <1>1, PTL DEF GotFollows
<1> QED
    BY <1>2, KindsInvariant, PTL DEF Spec
=============================================================================
