----------------------- MODULE MCRemediationExecution -----------------------
(* Instances of RemediationExecution for TLC. *)
EXTENDS RemediationExecution, TLC

CONSTANTS e1, e2, w1, w2, r1, r2, v1, v2

\* Processes of one role are interchangeable.
Symmetry == Permutations(Workers) \cup Permutations(Reconcilers)
            \cup Permutations(Verifiers)
=============================================================================
