---------------------------- MODULE MCDiscovery ----------------------------
(***************************************************************************)
(* Discovery for TLC: plans over two Secrets and two selectors.            *)
(***************************************************************************)
EXTENDS Discovery, TLC

CONSTANTS s1, s2, r1, r2

Defaults(v) == [r \in {r1, r2} |-> v]

\* One selector; an entry beside it; other defaults; two selectors; another.
OneRule == PlanOf({}, <<r1>>, Defaults("default"))
NamedToo == PlanOf({s1}, <<r1>>, Defaults("default"))
OtherDefaults == PlanOf({}, <<r1>>, Defaults("other"))
TwoRules == PlanOf({}, <<r1, r2>>, Defaults("default"))
OtherRule == PlanOf({}, <<r2>>, Defaults("default"))

EditedPlans == {OneRule, NamedToo, OtherDefaults}
OverlappingPlans == {TwoRules}
ReplacedPlans == {OneRule, OtherRule}

=============================================================================
