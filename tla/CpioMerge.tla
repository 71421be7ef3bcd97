------------------------------ MODULE CpioMerge ------------------------------
(***************************************************************************)
(* The loop of Cpio::backup (boot/cpio.rs) that walks the original and the *)
(* current ramdisk together, in name order, and decides for every name     *)
(* whether to save the original entry, to record the current one as new,   *)
(* or to do nothing.  One step is one turn of the loop.  An iterator over  *)
(* a sorted map is the set of names it has still to deliver; next()        *)
(* removes the least.  Names are numbers for their order.                  *)
(***************************************************************************)
EXTENDS Integers

CONSTANTS Names, Data, None

ASSUME MergeAssumption == Names \subseteq Int /\ None \notin Names

VARIABLES odata, edata,   \* contents of the original and of the current entries
          left_iter, right_iter, lhs, rhs,
          backups, rm_list, done

consts == <<odata, edata>>
mergeVars == <<consts, left_iter, right_iter, lhs, rhs, backups, rm_list, done>>

Left == DOMAIN odata
Right == DOMAIN edata

IsLeast(n, S) == n \in S /\ \A m \in S : n <= m

\* iter.next() gives n and leaves rest.
Takes(iter, n, rest) ==
    \/ iter = {} /\ n = None /\ rest = {}
    \/ IsLeast(n, iter) /\ rest = iter \ {n}

\* "Move the iterator forward if needed".
Refill(opt, iter, n, rest) ==
    IF opt = None THEN Takes(iter, n, rest) ELSE n = opt /\ rest = iter

MergeInit ==
    /\ \E l, r \in SUBSET Names : odata \in [l -> Data] /\ edata \in [r -> Data]
    /\ Takes(Left, lhs, left_iter)
    /\ Takes(Right, rhs, right_iter)
    /\ backups = {}
    /\ rm_list = {}
    /\ done = FALSE

\* Ordering::Less, or nothing left on the right: rhs is put back.
BackupLeft_DropsRhs(ln, rn) ==
    /\ ln # None /\ (rn # None => ln < rn)
    /\ lhs' = None /\ rhs' = None
    /\ backups' = backups \cup {ln}
    /\ UNCHANGED <<rm_list, done>>

BackupLeft(ln, rn) ==
    /\ ln # None /\ (rn # None => ln < rn)
    /\ lhs' = None /\ rhs' = rn
    /\ backups' = backups \cup {ln}
    /\ UNCHANGED <<rm_list, done>>

\* Ordering::Greater, or nothing left on the left: lhs is put back.
RecordRight_KeepsRhs(ln, rn) ==
    /\ rn # None /\ (ln # None => rn < ln)
    /\ lhs' = ln /\ rhs' = rn
    /\ rm_list' = rm_list \cup {rn}
    /\ UNCHANGED <<backups, done>>

RecordRight(ln, rn) ==
    /\ rn # None /\ (ln # None => rn < ln)
    /\ lhs' = ln /\ rhs' = None
    /\ rm_list' = rm_list \cup {rn}
    /\ UNCHANGED <<backups, done>>

\* Ordering::Equal
Compare(ln, rn) ==
    /\ ln # None /\ ln = rn
    /\ lhs' = None /\ rhs' = None
    /\ backups' = IF edata[rn] # odata[ln] THEN backups \cup {ln} ELSE backups
    /\ UNCHANGED <<rm_list, done>>

Break(ln, rn) ==
    /\ ln = None /\ rn = None
    /\ done' = TRUE
    /\ lhs' = None /\ rhs' = None
    /\ UNCHANGED <<backups, rm_list>>

Turn(ln, rn) == BackupLeft(ln, rn) \/ RecordRight(ln, rn) \/ Compare(ln, rn) \/ Break(ln, rn)

MergeNext ==
    /\ ~ done
    /\ \E ln, rn \in Names \cup {None} :
          /\ Refill(lhs, left_iter, ln, left_iter')
          /\ Refill(rhs, right_iter, rn, right_iter')
          /\ Turn(ln, rn)
    /\ UNCHANGED consts

MergeSpec == MergeInit /\ [][MergeNext]_mergeVars /\ WF_mergeVars(MergeNext)

-----------------------------------------------------------------------------
Opt(o) == IF o = None THEN {} ELSE {o}
LeftToDo == left_iter \cup Opt(lhs)
RightToDo == right_iter \cup Opt(rhs)

SavedOf(S) == {n \in S : n \in Right => edata[n] # odata[n]}
RecordedOf(S) == S \ Left

MergeTypeOK ==
    /\ Left \subseteq Names /\ Right \subseteq Names
    /\ lhs \in Names \cup {None} /\ rhs \in Names \cup {None}
    /\ LeftToDo \subseteq Left /\ RightToDo \subseteq Right
    /\ backups \subseteq Names /\ rm_list \subseteq Names
    /\ done \in BOOLEAN

\* When the loop ends, the saved entries are exactly the original ones that are
\* missing or have other contents now, and the recorded ones exactly the current
\* names that the original does not have, however the two maps interleave.
MergeCorrect == done => backups = SavedOf(Left) /\ rm_list = RecordedOf(Right)

Ahead(opt, iter) == \A n \in iter : opt # None => opt < n

\* Why: what is behind the two iterators is settled, and lies below everything
\* that the other iterator has still to deliver.
MergeInv ==
    /\ MergeTypeOK
    /\ Ahead(lhs, left_iter) /\ Ahead(rhs, right_iter)
    /\ \A n \in Left \ LeftToDo, m \in LeftToDo \cup RightToDo : n < m
    /\ \A n \in Right \ RightToDo, m \in LeftToDo \cup RightToDo : n < m
    /\ backups = SavedOf(Left \ LeftToDo)
    /\ rm_list = RecordedOf(Right \ RightToDo)
    /\ done => LeftToDo = {} /\ RightToDo = {}
=============================================================================
