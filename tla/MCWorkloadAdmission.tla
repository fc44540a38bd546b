-------------------------- MODULE MCWorkloadAdmission --------------------------
(* Small instances of WorkloadAdmission: queries of different cost, a risky   *)
(* or rejected one, a metadata call, and policies that cross in every way.    *)
EXTENDS WorkloadAdmission

CONSTANTS q1, q2, q3, m1

ThreeCallers == {q1, q2, m1}
FourCallers == {q1, q2, q3, m1}
TwoQueries == {q1, q2}
ThreeQueries == {q1, q2, q3}
OnlyQ3 == {q3}
CostOfCallers == [c \in Callers |-> CASE c = q1 -> 2 [] c = q2 -> 3 [] c = q3 -> 3 [] OTHER -> 0]
RiskOfCallers == [c \in Callers |-> CASE c = q2 -> 5 [] c = m1 -> 0 [] OTHER -> 1]

MakePolicy(mode, calls, queries, risk, cost, daily) ==
    [mode |-> mode, max_concurrent_calls |-> calls, max_concurrent_queries |-> queries,
     max_query_risk_score |-> risk, max_query_cost_units |-> cost,
     daily_query_cost_units |-> daily]

\* An audit policy whose thresholds only advise, and enforced ones that bite by
\* the daily budget two queries exceed together, by risk, and by cost.
MixedPolicies ==
    {MakePolicy("audit", 2, 1, 1, 2, 2), MakePolicy("enforce", 2, 2, 9, 9, 4),
     MakePolicy("enforce", 1, 1, 4, 9, 5), MakePolicy("enforce", 2, 2, 9, 2, 9)}
NarrowAudit == {MakePolicy("audit", 1, 1, 9, 9, 9)}
=============================================================================
