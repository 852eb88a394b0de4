------------------------ MODULE RemediationApproval -------------------------
(***************************************************************************)
(* The governance half of the safe-remediation runtime                     *)
(* (services/incident_manager/automation/coordinator.py and the approvals  *)
(* pass of reconciliation.py): an approval is requested, decided, reserved *)
(* for one execution, and consumed once that execution is published.  The  *)
(* approval, the execution and the evidence are separate documents, each   *)
(* written on its own; update_approval is a compare-and-swap on revision.  *)
(*                                                                         *)
(* What is abstracted:                                                     *)
(*   - reserved_execution_id and reserved_by: queue_execution admits only  *)
(*     preview.actor, and the execution id is a hash of the approval id,   *)
(*     so an approval can be reserved for one execution by one person.     *)
(*   - time: expires_at passes once (expired); whether a reservation is    *)
(*     past its five minutes is a comparison that may come out either way. *)
(*     A handler reads the clock and the approval in one step.             *)
(*   - requests that change nothing (denials, Conflict raised to the       *)
(*     caller) are not steps; the preview's own checks (hashes, incident   *)
(*     and target revisions) only deny.                                    *)
(***************************************************************************)
EXTENDS Naturals, FiniteSets

CONSTANTS Approvals,     \* governed requests: one approval, one execution each
          Direct,        \* requests whose preview needs no approval
          Handlers,      \* API request threads
          Reconcilers,   \* processes that run AutomationReconciler.run_once
          People,
          Approvers,     \* people who hold workflows:approve
          PreviewActor,  \* approval -> the person whose preview it governs
          Nobody, NoRequest,
          MaxRevision,   \* bound: no reservation from this revision on
          MaxCrashes     \* bound: process crashes

ASSUME ApprovalAssumption ==
  /\ Approvals \cap Direct = {}
  /\ Handlers \cap Reconcilers = {}
  /\ Approvers \subseteq People
  /\ PreviewActor \in [Approvals -> People]
  /\ Nobody \notin People
  /\ NoRequest \notin Approvals \cup Direct
  /\ MaxRevision \in Nat /\ MaxCrashes \in Nat

Procs == Handlers \cup Reconcilers
Requests == Approvals \cup Direct

VARIABLES
  approval,   \* durable: approval id -> its document
  published,  \* durable: requests whose execution document exists
  events,     \* durable: the create-only evidence streams
  expired,    \* approvals whose expires_at has passed
  pc,         \* process -> the step it is about to take
  job,        \* process -> the request it works on
  copy,       \* process -> the approval as it is about to be written
  crashes     \* crashes so far

durable == <<approval, published, events>>
local == <<pc, job, copy>>
vars == <<durable, expired, local, crashes>>

-----------------------------------------------------------------------------
ApprovalState == {"absent", "requested", "approved", "reserved", "rejected",
                  "expired", "consumed"}

Decisions == {"approved", "rejected"}

Approval == [state : ApprovalState, requester : People \cup {Nobody},
             decidedBy : People \cup {Nobody},
             decision : Decisions \cup {"none"},
             pending : BOOLEAN, revision : Nat]

Absent == [state |-> "absent", requester |-> Nobody, decidedBy |-> Nobody,
           decision |-> "none", pending |-> FALSE, revision |-> 0]

EventKinds == Decisions \cup {"requested", "expired", "queued"}

\* The step after each compare-and-swap.
AfterWrite == [deciding |-> "delivering", expiring |-> "announcing_expiry",
               reserving |-> "publishing", consuming |-> "announcing",
               consuming_existing |-> "idle", releasing |-> "idle",
               clearing |-> "idle"]

WriteSteps == {"deciding", "expiring", "reserving", "consuming",
               "consuming_existing", "releasing", "clearing"}

Steps == WriteSteps \cup
         {"idle", "announcing_request", "delivering", "announcing_expiry",
          "resuming", "publishing", "announcing", "checking"}

TypeOK ==
  /\ approval \in [Approvals -> Approval]
  /\ published \subseteq Requests
  /\ events \subseteq [id : Requests, kind : EventKinds]
  /\ expired \subseteq Approvals
  /\ pc \in [Procs -> Steps]
  /\ job \in [Procs -> Requests \cup {NoRequest}]
  /\ copy \in [Procs -> Approval]
  /\ crashes \in 0..MaxCrashes

Init ==
  /\ approval = [a \in Approvals |-> Absent]
  /\ published = {} /\ events = {} /\ expired = {}
  /\ pc = [p \in Procs |-> "idle"]
  /\ job = [p \in Procs |-> NoRequest]
  /\ copy = [p \in Procs |-> Absent]
  /\ crashes = 0

-----------------------------------------------------------------------------
(* How a process moves on, and the repository as it uses it.               *)

Begin(p, s, a, d) ==
  /\ pc[p] = "idle"
  /\ pc' = [pc EXCEPT ![p] = s]
  /\ job' = [job EXCEPT ![p] = a]
  /\ copy' = [copy EXCEPT ![p] = d]

Goto(p, s, d) ==
  /\ pc' = [pc EXCEPT ![p] = s]
  /\ copy' = [copy EXCEPT ![p] = d]
  /\ UNCHANGED job

Done(p) ==
  /\ pc' = [pc EXCEPT ![p] = "idle"]
  /\ job' = [job EXCEPT ![p] = NoRequest]
  /\ copy' = [copy EXCEPT ![p] = Absent]

\* Done when the step is "idle", on to the step otherwise.
Finish(p, s, d) == IF s = "idle" THEN Done(p) ELSE Goto(p, s, d)

Append(p, kind) == events' = events \cup {[id |-> job[p], kind |-> kind]}

\* Defect: the write only tests that the approval exists.
CurrentExists(p) == approval[job[p]].state # "absent"

\* The revision test of update_approval.
Current(p) == approval[job[p]].revision = copy[p].revision

NextRevision(d) == [d EXCEPT !.revision = d.revision + 1]

\* update_approval, for whichever change the process has prepared.
WriteApproval(p) ==
  /\ pc[p] \in WriteSteps /\ Current(p)
  /\ approval' = [approval EXCEPT ![job[p]] = NextRevision(copy[p])]
  /\ Finish(p, AfterWrite[pc[p]], NextRevision(copy[p]))
  /\ UNCHANGED <<published, events, expired, crashes>>

\* Conflict: the caller gets an error, the reconciler goes on.
WriteConflict(p) ==
  /\ pc[p] \in WriteSteps /\ ~Current(p)
  /\ Done(p)
  /\ UNCHANGED <<durable, expired, crashes>>

-----------------------------------------------------------------------------
(* request_approval: create-only, then its event.                          *)

Request(h, a, u) ==
  /\ a \notin expired
  /\ approval' = IF approval[a].state # "absent" THEN approval
                 ELSE [approval EXCEPT ![a] = [Absent EXCEPT !.state = "requested",
                                                             !.requester = u]]
  /\ Begin(h, "announcing_request", a, approval'[a])
  /\ UNCHANGED <<published, events, expired, crashes>>

AnnounceRequest(h) ==
  /\ pc[h] = "announcing_request"
  /\ Append(h, "requested")
  /\ Done(h)
  /\ UNCHANGED <<approval, published, expired, crashes>>

-----------------------------------------------------------------------------
(* decide_approval by person u.                                            *)

\* Defect: the decision leaves no pending event.
DecidedNotPending(d, u, v) == [d EXCEPT !.state = v, !.decidedBy = u, !.decision = v]

Decided(d, u, v) == [d EXCEPT !.state = v, !.decidedBy = u, !.decision = v,
                              !.pending = TRUE]
ExpiredDocument(d) == [d EXCEPT !.state = "expired"]

MayDecide(d, u) == u # d.requester /\ u \in Approvers

Decide(h, a, u, v) ==
  /\ approval[a].state = "requested" /\ a \notin expired
  /\ MayDecide(approval[a], u)
  /\ Begin(h, "deciding", a, Decided(approval[a], u, v))
  /\ UNCHANGED <<durable, expired, crashes>>

DecideTooLate(h, a) ==
  /\ approval[a].state = "requested" /\ a \in expired
  /\ Begin(h, "expiring", a, ExpiredDocument(approval[a]))
  /\ UNCHANGED <<durable, expired, crashes>>

\* The same person repeats the request that decided: deliver its event.
DecideAgain(h, a, u, v) ==
  /\ approval[a].state = v /\ approval[a].decidedBy = u
  /\ approval[a].pending
  /\ Begin(h, "delivering", a, approval[a])
  /\ UNCHANGED <<durable, expired, crashes>>

\* _deliver_decision_event: the event first, then the flag.
Cleared(d) == [d EXCEPT !.pending = FALSE]

\* Defect: the event is named after the state at delivery.
DeliverState(p) ==
  /\ pc[p] = "delivering"
  /\ Append(p, copy[p].state)
  /\ Goto(p, "clearing", Cleared(copy[p]))
  /\ UNCHANGED <<approval, published, expired, crashes>>

Deliver(p) ==
  /\ pc[p] = "delivering"
  /\ Append(p, copy[p].decision)
  /\ Goto(p, "clearing", Cleared(copy[p]))
  /\ UNCHANGED <<approval, published, expired, crashes>>

AnnounceExpiry(p) ==
  /\ pc[p] = "announcing_expiry"
  /\ Append(p, "expired")
  /\ Done(p)
  /\ UNCHANGED <<approval, published, expired, crashes>>

-----------------------------------------------------------------------------
(* queue_execution by the preview's actor.                                 *)

ReservedDocument(d) == [d EXCEPT !.state = "reserved"]
ConsumedDocument(d) == [d EXCEPT !.state = "consumed"]

\* Defect: only the requester is kept from executing.
MayExecuteNotRequester(d, a) == d.decidedBy # d.requester

MayExecute(d, a) == d.decidedBy # PreviewActor[a]

QueueApproved(h, a) ==
  /\ approval[a].state = "approved" /\ a \notin expired
  /\ MayExecute(approval[a], a)
  /\ approval[a].revision < MaxRevision
  /\ Begin(h, "reserving", a, ReservedDocument(approval[a]))
  /\ UNCHANGED <<durable, expired, crashes>>

QueueTooLate(h, a) ==
  /\ approval[a].state = "approved" /\ a \in expired
  /\ Begin(h, "expiring", a, ExpiredDocument(approval[a]))
  /\ UNCHANGED <<durable, expired, crashes>>

\* A retry finds the approval already reserved for this execution.
QueueReserved(h, a) ==
  /\ approval[a].state = "reserved" /\ a \notin expired
  /\ MayExecute(approval[a], a)
  /\ Begin(h, "resuming", a, approval[a])
  /\ UNCHANGED <<durable, expired, crashes>>

Resume(h) ==
  /\ pc[h] = "resuming"
  /\ IF job[h] \in published
     THEN Goto(h, "consuming_existing", ConsumedDocument(copy[h]))
     ELSE Goto(h, "publishing", copy[h])
  /\ UNCHANGED <<durable, expired, crashes>>

QueueDirect(h, x) ==
  /\ Begin(h, "publishing", x, Absent)
  /\ UNCHANGED <<durable, expired, crashes>>

\* create_execution: create-only; the approval is not read again.
Publish(h) ==
  /\ pc[h] = "publishing"
  /\ published' = published \cup {job[h]}
  /\ IF job[h] \in Direct THEN Goto(h, "announcing", copy[h])
     ELSE Goto(h, "consuming", ConsumedDocument(copy[h]))
  /\ UNCHANGED <<approval, events, expired, crashes>>

Announce(h) ==
  /\ pc[h] = "announcing"
  /\ Append(h, "queued")
  /\ Done(h)
  /\ UNCHANGED <<approval, published, expired, crashes>>

-----------------------------------------------------------------------------
(* AutomationReconciler.run_once, the approvals pass.                      *)

ReconcilePending(r, a) ==
  /\ approval[a].pending
  /\ Begin(r, "delivering", a, approval[a])
  /\ UNCHANGED <<durable, expired, crashes>>

ReconcileExpired(r, a) ==
  /\ ~approval[a].pending
  /\ approval[a].state = "approved" /\ a \in expired
  /\ Begin(r, "expiring", a, ExpiredDocument(approval[a]))
  /\ UNCHANGED <<durable, expired, crashes>>

\* Defect: reservations are looked at only once the approval has expired.
ReconcileReservedExpired(r, a) ==
  /\ ~approval[a].pending
  /\ approval[a].state = "reserved" /\ a \in expired
  /\ Begin(r, "checking", a, approval[a])
  /\ UNCHANGED <<durable, expired, crashes>>

ReconcileReserved(r, a) ==
  /\ ~approval[a].pending
  /\ approval[a].state = "reserved"
  /\ Begin(r, "checking", a, approval[a])
  /\ UNCHANGED <<durable, expired, crashes>>

\* Defect: the reservation is consumed without looking for the execution.
CheckFoundUnseen(r) ==
  /\ pc[r] = "checking"
  /\ Goto(r, "consuming_existing", ConsumedDocument(copy[r]))
  /\ UNCHANGED <<durable, expired, crashes>>

\* get_execution finds the execution: consume.
CheckFound(r) ==
  /\ pc[r] = "checking" /\ job[r] \in published
  /\ Goto(r, "consuming_existing", ConsumedDocument(copy[r]))
  /\ UNCHANGED <<durable, expired, crashes>>

ReleasedDocument(d) == [d EXCEPT !.state = "approved"]

\* It does not, and the reservation is past its expiry: release ...
CheckReleases(r) ==
  /\ pc[r] = "checking" /\ job[r] \notin published
  /\ Goto(r, "releasing", ReleasedDocument(copy[r]))
  /\ UNCHANGED <<durable, expired, crashes>>

\* ... or not yet past it: leave the reservation.
CheckWaits(r) ==
  /\ pc[r] = "checking" /\ job[r] \notin published
  /\ Done(r)
  /\ UNCHANGED <<durable, expired, crashes>>

-----------------------------------------------------------------------------
Expire(a) ==
  /\ a \notin expired
  /\ expired' = expired \cup {a}
  /\ UNCHANGED <<durable, local, crashes>>

\* A crash, or any store error, ends the handler where it is.
Crash(p) ==
  /\ pc[p] # "idle"
  /\ crashes < MaxCrashes
  /\ crashes' = crashes + 1
  /\ Done(p)
  /\ UNCHANGED <<durable, expired>>

HandlerBegins(h) ==
  \/ \E a \in Approvals :
       \/ \E u \in People : Request(h, a, u)
       \/ \E u \in People, v \in Decisions : Decide(h, a, u, v) \/ DecideAgain(h, a, u, v)
       \/ DecideTooLate(h, a)
       \/ QueueApproved(h, a) \/ QueueTooLate(h, a) \/ QueueReserved(h, a)
  \/ \E x \in Direct : QueueDirect(h, x)

HandlerStep(h) == AnnounceRequest(h) \/ Resume(h) \/ Publish(h) \/ Announce(h)

ReconcilerBegins(r, a) ==
  ReconcilePending(r, a) \/ ReconcileExpired(r, a) \/ ReconcileReserved(r, a)

ReconcilerStep(r) == CheckFound(r) \/ CheckReleases(r) \/ CheckWaits(r)

SharedStep(p) ==
  WriteApproval(p) \/ WriteConflict(p) \/ Deliver(p) \/ AnnounceExpiry(p)

Next ==
  \/ \E h \in Handlers : HandlerBegins(h) \/ HandlerStep(h)
  \/ \E r \in Reconcilers :
       ReconcilerStep(r) \/ \E a \in Approvals : ReconcilerBegins(r, a)
  \/ \E p \in Procs : SharedStep(p) \/ Crash(p)
  \/ \E a \in Approvals : Expire(a)

Spec == Init /\ [][Next]_vars

(* Handlers and reconcilers finish what they begin; every reconcile pass    *)
(* reads the approvals that need it, oldest first, and a reservation is     *)
(* eventually past its five minutes.  Nothing obliges a person to act.      *)
Fairness ==
  /\ \A h \in Handlers : WF_vars(HandlerStep(h) \/ SharedStep(h))
  /\ \A r \in Reconcilers :
       /\ WF_vars(ReconcilerStep(r) \/ SharedStep(r))
       /\ SF_vars(CheckReleases(r))
       /\ \A a \in Approvals : SF_vars(ReconcilerBegins(r, a))

FairSpec == Spec /\ Fairness

-----------------------------------------------------------------------------
(* Properties.                                                             *)

\* Separation of duties survives every interleaving: the execution of a
\* governed request exists only if somebody other than its requester and
\* other than the person who executes it, holding workflows:approve, approved
\* it (decide_approval, queue_execution).
SeparationOfDuties ==
  \A a \in published \cap Approvals :
    LET d == approval[a]
    IN  /\ d.decision = "approved"
        /\ d.decidedBy \in Approvers \ {d.requester, PreviewActor[a]}

\* An approval is CONSUMED only when the execution it paid for is durable,
\* also when the reconciler consumes it.
ConsumedIsPublished ==
  \A a \in Approvals : approval[a].state = "consumed" => a \in published

\* A decision is never without evidence: until the event is in the stream,
\* the approval document says that it is pending, whoever else writes it.
DecisionHasEvidence ==
  \A a \in Approvals :
    approval[a].decision # "none" /\ ~approval[a].pending =>
      [id |-> a, kind |-> approval[a].decision] \in events

\* An approval that was rejected, expired or consumed stays so, and a
\* decision once taken is never replaced by another.
DecisionsAreFinal ==
  [][\A a \in Approvals :
       /\ approval[a].state \in {"rejected", "expired", "consumed"} =>
            approval'[a].state = approval[a].state
       /\ approval[a].decision # "none" =>
            /\ approval'[a].decision = approval[a].decision
            /\ approval'[a].decidedBy = approval[a].decidedBy]_vars

\* Reservations, revisions and pending flags, taken away, leave a life that every
\* request lives once: opened, ruled on by another person, executed and spent or
\* lapsed, with an evidence stream that tells nothing untrue, whichever process
\* delivers an event how long after the change it stands for
\* (_deliver_decision_event, expire_approval, queue_execution).
StageOf == [absent |-> "absent", requested |-> "open", approved |-> "granted",
            reserved |-> "granted", rejected |-> "refused", expired |-> "lapsed",
            consumed |-> "spent"]
stageBar == [a \in Approvals |-> StageOf[approval[a].state]]
rulingBar == [a \in Approvals |->
  [requester |-> approval[a].requester, by |-> approval[a].decidedBy,
   verdict |-> approval[a].decision]]

Contract == INSTANCE ApprovalContract WITH
  stage <- stageBar, ruling <- rulingBar, executions <- published, evidence <- events
ImplementsContract == Contract!CSpec

\* A reservation never lasts: it is consumed or released, even if the
\* handler that made it dies.
ReservationResolved ==
  \A a \in Approvals : approval[a].state = "reserved" ~> approval[a].state # "reserved"

\* The event of a decision is eventually delivered.
DecisionDelivered == \A a \in Approvals : approval[a].pending ~> ~approval[a].pending

\* The reconciler settles what handlers leave behind, reservations as well as
\* undelivered decisions.
ReconcilerSettles == ReservationResolved /\ DecisionDelivered
=============================================================================
