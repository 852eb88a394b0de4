-------------------------- MODULE ApprovalContract --------------------------
(***************************************************************************)
(* What the governance of remediation promises.  A governed request is     *)
(* opened by one person, ruled on once by another who holds                *)
(* workflows:approve, and then executed, spent or lapsed, in that order    *)
(* and never back; its execution exists only if its grant was neither the  *)
(* requester's nor the executor's own; and the evidence stream tells only  *)
(* what is true when it is told.  Nothing is said of reservations,         *)
(* revisions, pending flags or processes.                                  *)
(***************************************************************************)
CONSTANTS Approvals, Direct, People, Approvers, PreviewActor, Nobody

VARIABLES stage,      \* approval -> how far the request has come
          ruling,     \* approval -> who asked, who ruled, and how
          executions, \* requests whose execution exists
          evidence    \* what has been told: [id, kind]

cvars == <<stage, ruling, executions, evidence>>

CInit ==
  /\ stage = [a \in Approvals |-> "absent"]
  /\ ruling = [a \in Approvals |->
                 [requester |-> Nobody, by |-> Nobody, verdict |-> "none"]]
  /\ executions = {} /\ evidence = {}

Open(a, u) ==
  /\ stage[a] = "absent"
  /\ stage' = [stage EXCEPT ![a] = "open"]
  /\ ruling' = [ruling EXCEPT ![a] = [requester |-> u, by |-> Nobody, verdict |-> "none"]]
  /\ UNCHANGED <<executions, evidence>>

Rule(a, u, v) ==
  /\ stage[a] = "open" /\ u \in Approvers \ {ruling[a].requester}
  /\ stage' = [stage EXCEPT ![a] = IF v = "approved" THEN "granted" ELSE "refused"]
  /\ ruling' = [ruling EXCEPT ![a] =
                  [requester |-> ruling[a].requester, by |-> u, verdict |-> v]]
  /\ UNCHANGED <<executions, evidence>>

\* The request runs out before it is ruled on, or its grant before it is spent.
Lapse(a) ==
  /\ stage[a] \in {"open", "granted"}
  /\ stage' = [stage EXCEPT ![a] = "lapsed"]
  /\ UNCHANGED <<ruling, executions, evidence>>

\* A grant that has lapsed meanwhile still carries the execution it reserved.
Execute(x) ==
  /\ x \notin Direct => /\ stage[x] \in {"granted", "lapsed"}
                        /\ ruling[x].verdict = "approved"
                        /\ ruling[x].by # PreviewActor[x]
  /\ executions' = executions \cup {x}
  /\ UNCHANGED <<stage, ruling, evidence>>

Spend(a) ==
  /\ stage[a] = "granted" /\ a \in executions
  /\ stage' = [stage EXCEPT ![a] = "spent"]
  /\ UNCHANGED <<ruling, executions, evidence>>

IsTrue(x, kind) ==
  \/ kind = "queued" /\ x \in executions
  \/ /\ x \in Approvals
     /\ \/ kind = "requested" /\ stage[x] # "absent"
        \/ kind = "expired" /\ stage[x] = "lapsed"
        \/ kind \in {"approved", "rejected"} /\ ruling[x].verdict = kind

Tell(x, kind) ==
  /\ IsTrue(x, kind)
  /\ evidence' = evidence \cup {[id |-> x, kind |-> kind]}
  /\ UNCHANGED <<stage, ruling, executions>>

CNext ==
  \/ \E a \in Approvals :
       \/ \E u \in People : Open(a, u)
       \/ \E u \in Approvers, v \in {"approved", "rejected"} : Rule(a, u, v)
       \/ Lapse(a) \/ Spend(a)
  \/ \E x \in Approvals \cup Direct :
       \/ Execute(x)
       \/ \E kind \in {"requested", "approved", "rejected", "expired", "queued"} : Tell(x, kind)

CSpec == CInit /\ [][CNext]_cvars
=============================================================================
