-------------------------- MODULE MCIncidentIngest --------------------------
EXTENDS IncidentIngest, TLC

CONSTANTS h1, h2, o1, o2, r1, r2, r3, f1, f2, a1, a2, k1, k2

\* r1 and r2 observe one finding, r2 later and without evidence; r3 observes
\* another finding of the same key at the time of r1, on one more asset.
MCFindingOf == [r \in Reports |-> IF r = r3 THEN f2 ELSE f1]
MCObservedAt == [r \in Reports |-> IF r = r2 THEN 2 ELSE 1]
MCEvidenceOf == [r \in Reports |-> IF r = r1 THEN 1 ELSE IF r = r2 THEN 0 ELSE 2]
MCAssetsOf == [r \in Reports |-> IF r = r3 THEN {a1, a2} ELSE {a1}]
MCChangeOf == [k \in Keys |-> IF k = k1 THEN "resolved" ELSE "comment"]

Symmetry == Permutations({h1, h2}) \cup Permutations({o1, o2})
=============================================================================
