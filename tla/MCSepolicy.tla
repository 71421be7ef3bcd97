----------------------------- MODULE MCSepolicy -----------------------------
(***************************************************************************)
(* The patched policy: a behaviour is about                                *)
(*   "rules": Sepolicy, on a policy with two types (t has the attribute a, *)
(*      u has none), one free name each for a new type and a new           *)
(*      attribute, two classes, 3 drivers of 2 functions, and statements   *)
(*      that meet wildcards, lists and unknown names;                      *)
(*   "loading": PolicyHijack, with every strategy.                         *)
(***************************************************************************)
EXTENDS Sepolicy, PolicyHijack, TLC

CONSTANT Parts

VARIABLE part

MCClassPerms == [c |-> {"p", "q"}, d |-> {"p"}]
MCConstrained == {"a"}
MCContexts == {"ctx1", "ctx2"}

Base ==
    [types |-> [t |-> "type", u |-> "type", a |-> "attribute"],
     type_attr_map |-> [t |-> {"t", "a"}, u |-> {"u"}, a |-> {"a"}],
     attr_type_map |-> [t |-> {}, u |-> {}, a |-> {"t"}],
     role_types |-> {"t"}, names |-> {"t"}, permissive_map |-> {},
     av |-> (<<"a", "a", "c", "allowed">> :> {"p"}) @@ (<<"u", "t", "c", "allowed">> :> {"q"})
            @@ (<<"t", "u", "c", "auditdeny">> :> {"p", "?"}),
     ty |-> <<>>, genfs |-> <<>>,
     xp |-> <<"t", "u", "c", "allowxperm">> :>
               [driver |-> {1}, func |-> 0 :> {0, 1}],
     xperms |-> TRUE]

MCLoaded == {Base, [Base EXCEPT !.xp = <<>>, !.xperms = FALSE]}

Av(op, s, t, c, p) == [op |-> op, s |-> s, t |-> t, c |-> c, p |-> p]
Xp(op, s, t, x) == [op |-> op, s |-> s, t |-> t, c |-> <<"c">>, x |-> x]
X(low, high, reset) == [low |-> low, high |-> high, reset |-> reset]

AvStatements ==
    {Av("allow", <<>>, <<"u">>, <<"c">>, <<"p">>),
     Av("allow", <<"n", "u">>, <<"t">>, <<"c", "d">>, <<"p">>),
     Av("allow", <<"b">>, <<>>, <<>>, <<>>),
     Av("allow", <<"t">>, <<"b">>, <<"c">>, <<"p", "q">>),
     Av("deny", <<>>, <<>>, <<"c">>, <<"p">>),
     Av("deny", <<"a">>, <<"a">>, <<"c">>, <<>>),
     Av("auditallow", <<>>, <<"t">>, <<"c">>, <<"q">>),
     Av("dontaudit", <<"t">>, <<"u">>, <<"c">>, <<"p", "q">>),
     Av("dontaudit", <<>>, <<"t">>, <<"d">>, <<>>),
     Av("allow", <<"t">>, <<"t">>, <<>>, <<"p">>)}

XpStatements ==
    {Xp("allowxperm", <<"t">>, <<"u">>, <<X(1, 1, FALSE), X(4, 5, FALSE)>>),
     Xp("allowxperm", <<>>, <<"u", "n">>, <<X(1, 2, FALSE)>>),
     Xp("allowxperm", <<"t">>, <<"u">>, <<X(3, 3, TRUE)>>),
     Xp("allowxperm", <<"t">>, <<"u">>, <<X(0, 5, TRUE)>>),
     Xp("dontauditxperm", <<"t">>, <<>>, <<X(0, 5, FALSE)>>)}

OtherStatements ==
    {[op |-> "type", s |-> <<"n">>, a |-> <<"a", "b">>],
     [op |-> "type", s |-> <<"b">>, a |-> <<>>],
     [op |-> "attribute", s |-> <<"b">>],
     [op |-> "typeattribute", s |-> <<"u", "n">>, a |-> <<"b", "a">>],
     [op |-> "typeattribute", s |-> <<"t">>, a |-> <<"b", "a">>],
     [op |-> "permissive", s |-> <<"t">>], [op |-> "enforce", s |-> <<>>],
     [op |-> "type_rule", s |-> <<"t">>, t |-> <<"u">>, c |-> <<"c">>, def |-> "n", effect |-> "transition"],
     [op |-> "type_rule", s |-> <<"t">>, t |-> <<"u">>, c |-> <<"c">>, def |-> "u", effect |-> "member"],
     [op |-> "named_transition", s |-> <<"t">>, t |-> <<"n">>, c |-> <<"c">>, def |-> "u",
      effect |-> "transition"],
     [op |-> "genfscon", fs |-> "proc", path |-> "/x", ctx |-> "ctx1"],
     [op |-> "genfscon", fs |-> "proc", path |-> "/x", ctx |-> "none"]}

MCStatements == AvStatements \cup XpStatements \cup OtherStatements

\* The statement of the help text: two numbers of one driver, complemented.
ComplementStatements == {Xp("allowxperm", <<"t">>, <<"u">>, <<X(2, 2, TRUE), X(3, 3, TRUE)>>)}

-----------------------------------------------------------------------------
(* The part that a behaviour is not about stays where it is. *)
NoRules ==
    db = Base /\ last = None /\ todo = <<>> /\ count = 0 /\ phase = "patch" /\ file = "old"
NoLoading ==
    /\ strat = "Unknown" /\ main = "go" /\ child = "none" /\ mocks = {} /\ preload = FALSE
    /\ policy = "none" /\ mounted = FALSE /\ kernel = "none" /\ writer = "closed"
    /\ seen = "none" /\ faults = 0 /\ early = FALSE

PolicyInit ==
    /\ part \in Parts
    /\ \/ part = "rules" /\ Init /\ NoLoading
       \/ part = "loading" /\ LoadingInit /\ NoRules

PolicyNext ==
    \/ part = "rules" /\ Next /\ UNCHANGED <<part, loadingVars>>
    \/ part = "loading" /\ LoadingNext /\ UNCHANGED <<part, vars>>

PolicySpec == PolicyInit /\ [][PolicyNext]_<<part, vars, loadingVars>> /\ Fairness
=============================================================================
