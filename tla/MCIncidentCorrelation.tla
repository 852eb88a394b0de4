----------------------- MODULE MCIncidentCorrelation ------------------------
EXTENDS IncidentCorrelation

\* Incidents about the same asset; the second is seen again much later.
MCRelated == Incidents \X Incidents
MCSeenAt == [i \in Incidents |-> [n \in Revisions |-> IF i = 2 /\ n = 2 THEN 9 ELSE 1]]
=============================================================================
