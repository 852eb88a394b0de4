------------------------ MODULE MCProductOperation -------------------------
EXTENDS ProductOperation

CONSTANTS k1, k2

MCTarget == [k \in Requests |-> IF k = k1 THEN "active" ELSE "archived"]
=============================================================================
