---------------------------- MODULE MCRuleFilter ----------------------------
(* Instances of RuleFilter for TLC.                                          *)
EXTENDS RuleFilter, TLC

CONSTANTS w1, w2, u1, u2

Symmetry == Permutations({w1, w2})

\* A global domain and a domain of u1's own; a keyword that is enough by
\* itself because its weight is NULL, and one switched off by its weight.
ShopRow  == [domain |-> "shop", isGlobal |-> "null", userId |-> None]
OwnRow   == [domain |-> "cafe", isGlobal |-> "false", userId |-> u1]
Coupon   == [keyword |-> "coupon", weight |-> None]
Event    == [keyword |-> "event", weight |-> 0]

SomeDomains  == {ShopRow, OwnRow}
SomeKeywords == {Coupon, Event}

\* Mail of both users from the user's own domain, and mail from nowhere.
SomeMails ==
    {[user |-> u1, domains |-> {"cafe"}, words |-> {}],
     [user |-> u2, domains |-> {"cafe", "shop"}, words |-> {"coupon", "event"}]}

=============================================================================
