-------------------------- MODULE MCPathwayWorker ---------------------------
(* Instances of PathwayWorker for TLC. *)
EXTENDS PathwayWorker, TLC

CONSTANTS s1, s2, s3, p1, q1, e1

\* When s1 is the newest span s2 is still in time; s3 puts it out of reach.
AtSpread == (s1 :> 2) @@ (s2 :> 1) @@ (s3 :> 3)

\* Only the late span is about messaging: it is the one that can be lost.
OnlyLate == (s1 :> NoEdge) @@ (s2 :> e1) @@ (s3 :> NoEdge)

\* The worker reads all there is; the replay's pages come back full.
Pages == (p1 :> 3) @@ (q1 :> 2)
=============================================================================
