---- MODULE FilterRules ----
(***************************************************************************)
(* The rules of iksemel's packet filter (ec/jabber/filter.c) and how well  *)
(* a packet meets one.  A field of a rule that it does not look at is AnyValue; *)
(* a field a packet does not have is None.                                 *)
(***************************************************************************)
EXTENDS Naturals

AnyValue  == "any"
None == "none"

\* A rule that looks at nothing.
NoRule == [type |-> AnyValue, subtype |-> AnyValue, id |-> AnyValue, ns |-> AnyValue,
           from |-> AnyValue, partial |-> AnyValue]

\* The score of a rule, 0 when one of its tests fails.
Score(rule, pak) ==
    LET Fails(field) == rule[field] \notin {AnyValue, pak[field]}
        Part(field, weight) == IF rule[field] = AnyValue THEN 0 ELSE weight
    IN  IF \E field \in DOMAIN rule : Fails(field) THEN 0
        ELSE Part("type", 1) + Part("subtype", 2) + Part("id", 16) + Part("ns", 4)
                 + Part("from", 8) + Part("partial", 8)
====
