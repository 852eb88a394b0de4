----------------------- MODULE MCRemediationApproval ------------------------
(* Instances of RemediationApproval for TLC. *)
EXTENDS RemediationApproval

CONSTANTS a1, x1, h1, h2, r1, alice, bob

\* Alice previews; both may approve.
ActorIsAlice == [a \in {a1} |-> alice]
=============================================================================
