------------------------ MODULE RemediationExecution ------------------------
(***************************************************************************)
(* The execution half of the safe-remediation runtime                      *)
(* (services/incident_manager/automation): the durable operation document, *)
(* the workers that claim and run it, the reconciler process that repairs  *)
(* evidence and recovers expired leases, and the verification handler.     *)
(*                                                                         *)
(* What is abstracted:                                                     *)
(*   - time.  lease_owner and lease_expires_at are set and cleared         *)
(*     together and appear as one flag, lease; whether a held lease is     *)
(*     past its expiry is a comparison with the clock and may come out     *)
(*     either way.  A result may likewise arrive before or after the       *)
(*     execution deadline, and a heartbeat may be lost during any call.    *)
(*   - the batch.  A batch of snapshots processed in turn is a process     *)
(*     that stalls between reading a snapshot and acting on it, so each    *)
(*     poll here returns one execution.                                    *)
(*   - the Elasticsearch adapter's second read.  update_execution reads    *)
(*     the document, compares the fence and writes under if_seq_no, so it  *)
(*     succeeds only if the fence still matches at the write: one atomic   *)
(*     step.  A write that loses that short race is covered by Crash.      *)
(*                                                                         *)
(* update_execution compares lease_token and nothing else, and replaces    *)
(* the WHOLE document.  The ghost variable clobbered records the           *)
(* executions for which such a write replaced a version of the document    *)
(* that its writer had not seen.                                           *)
(***************************************************************************)
EXTENDS Naturals, FiniteSets

CONSTANTS Executions,   \* published executions (execution_id)
          Workers,      \* processes that loop over ExecutionWorker.run_once
          Reconcilers,  \* processes that run the "reconcile" command
          Verifiers,    \* callers of verify()
          Configured,   \* executions whose action type has an executor
          NoExecution,  \* "works on nothing"
          MaxAttempts,  \* Execution.max_attempts, from the catalogue
          MaxToken,     \* bound: fence tokens that are issued
          MaxCrashes    \* bound: process crashes

Procs == Workers \cup Reconcilers \cup Verifiers

ASSUME ExecutionAssumption ==
  /\ Configured \subseteq Executions
  /\ NoExecution \notin Executions
  /\ MaxAttempts \in Nat \ {0}
  /\ MaxToken \in Nat /\ MaxCrashes \in Nat
  /\ Workers \cap (Reconcilers \cup Verifiers) = {}
  /\ Reconcilers \cap Verifiers = {}

VARIABLES
  doc,        \* durable: execution -> its document
  events,     \* durable: the create-only evidence streams
  calls,      \* provider: how many times execute() was called
  accepted,   \* provider: how many of those calls it carried out
  promised,   \* ghost: evidence ids that some durable write left pending
  clobbered,  \* ghost: executions hit by a write from a stale copy
  pc,         \* process -> the step it is about to take
  job,        \* process -> the execution it works on
  copy,       \* process -> its in-memory copy of that document
  outcome,    \* process -> how the executor call or the lookup came out
  crashes     \* crashes so far

store == <<doc, events, promised, clobbered>>
provider == <<calls, accepted>>
local == <<pc, job, copy, outcome>>
vars == <<store, provider, local, crashes>>

-----------------------------------------------------------------------------
(* Documents, events and outcomes.                                         *)

ExecutionState == {"queued", "claimed", "running", "reconciliation_required",
                   "verification_pending", "verified", "verification_failed",
                   "failed"}

Terminal == {"verified", "verification_failed", "failed"}

\* transition_event_id: hash(execution, state, attempt), or for a verification
\* hash(execution, "verification", evidence reference); a piece of evidence is
\* named by the verdict it supports.
EventIds == [kind : ExecutionState \cup {"none"}, attempt : 0..MaxAttempts]
NoEvent == [kind |-> "none", attempt |-> 0]
Verdicts == {"verified", "verification_failed"}

Document == [state : ExecutionState, token : 0..MaxToken,
             attempt : 0..MaxAttempts, lease : BOOLEAN,
             pending : BOOLEAN, event : EventIds]

NoDocument == [state |-> "none"]

Streams == {"remediation_action", "verification_event"}

\* How executor.execute comes out: a returned result in time (accepted,
\* retryable, rejected) or past the deadline (late), or an exception
\* (RetryableBeforeSubmission, NonRetryableExecutorFailure, and
\* ProviderOutcomeUnknown or any other exception).
Returned == {"accepted", "retryable", "rejected"}
Retryable == {"retryable", "before_submission"}
Uncertain == {"late", "unknown"}
Outcomes == Returned \cup Retryable \cup Uncertain \cup {"non_retryable"}

\* How executor.lookup comes out.
Lookups == {"found_accepted", "found_terminal", "not_settled", "unavailable"}

Steps == {"idle", "polled", "claimed", "started", "executed", "recorded",
          "appended", "repairing", "repaired", "recovering", "taken_over",
          "looked_up", "verifying", "dead"}

TypeOK ==
  /\ doc \in [Executions -> Document]
  /\ events \subseteq [id : Executions, stream : Streams, event : EventIds]
  /\ calls \in [Executions -> Nat]
  /\ accepted \in [Executions -> Nat]
  /\ promised \subseteq [id : Executions, stream : Streams, event : EventIds]
  /\ clobbered \subseteq Executions
  /\ pc \in [Procs -> Steps]
  /\ job \in [Procs -> Executions \cup {NoExecution}]
  /\ copy \in [Procs -> Document \cup {NoDocument}]
  /\ outcome \in [Procs -> Outcomes \cup Lookups \cup {"none"}]
  /\ crashes \in 0..MaxCrashes
  /\ \A p \in Procs : pc[p] \notin {"idle", "dead"} =>
       job[p] \in Executions /\ copy[p] \in Document

Queued == [state |-> "queued", token |-> 0, attempt |-> 0, lease |-> FALSE,
           pending |-> FALSE, event |-> NoEvent]

Init ==
  /\ doc = [e \in Executions |-> Queued]
  /\ events = {} /\ promised = {} /\ clobbered = {}
  /\ calls = [e \in Executions |-> 0]
  /\ accepted = [e \in Executions |-> 0]
  /\ pc = [p \in Procs |-> "idle"]
  /\ job = [p \in Procs |-> NoExecution]
  /\ copy = [p \in Procs |-> NoDocument]
  /\ outcome = [p \in Procs |-> "none"]
  /\ crashes = 0

-----------------------------------------------------------------------------
(* The repository, as the processes use it.                                *)

\* The fence test of update_execution: the token the writer read.
Fenced(p) == doc[job[p]].token = copy[p].token

\* update_execution after the fence test: the whole document is replaced.
Update(p, d) ==
  /\ doc' = [doc EXCEPT ![job[p]] = d]
  /\ clobbered' = IF copy[p] = doc[job[p]] THEN clobbered
                  ELSE clobbered \cup {job[p]}

\* append_event: create-only, so a second append of the same id is a no-op.
Append(p, stream) ==
  events' = events \cup {[id |-> job[p], stream |-> stream,
                          event |-> copy[p].event]}

Promise(p, stream, d) ==
  promised' = promised \cup {[id |-> job[p], stream |-> stream,
                              event |-> d.event]}

\* Process p reads execution e and goes on to step s.
Load(p, e, s) ==
  /\ pc' = [pc EXCEPT ![p] = s]
  /\ job' = [job EXCEPT ![p] = e]
  /\ copy' = [copy EXCEPT ![p] = doc[e]]
  /\ UNCHANGED <<store, provider, outcome, crashes>>

\* Process p goes on to step s, holding document d.
Goto(p, s, d) ==
  /\ pc' = [pc EXCEPT ![p] = s]
  /\ copy' = [copy EXCEPT ![p] = d]
  /\ UNCHANGED job

\* Process p is done with its item (or is dead).
Leave(p, s) ==
  /\ pc' = [pc EXCEPT ![p] = s]
  /\ job' = [job EXCEPT ![p] = NoExecution]
  /\ copy' = [copy EXCEPT ![p] = NoDocument]
  /\ outcome' = [outcome EXCEPT ![p] = "none"]

-----------------------------------------------------------------------------
(* ExecutionWorker.run_once, one item.                                     *)

\* queued(): a snapshot of an execution in state QUEUED.
PollQueued(w, e) ==
  /\ pc[w] = "idle"
  /\ doc[e].state = "queued"
  /\ doc[e].token < MaxToken
  /\ Load(w, e, "polled")

\* Defect: the claim keeps the token of the snapshot.
ClaimedSameToken(d) == [d EXCEPT !.state = "claimed", !.lease = TRUE]

\* claim(): a new fence token and a lease, written under the old token.
ClaimedDocument(d) ==
  [d EXCEPT !.state = "claimed", !.token = d.token + 1, !.lease = TRUE]

Claim(w) ==
  /\ pc[w] = "polled" /\ Fenced(w)
  /\ Update(w, ClaimedDocument(copy[w]))
  /\ Goto(w, "claimed", ClaimedDocument(copy[w]))
  /\ UNCHANGED <<events, promised, provider, outcome, crashes>>

\* No executor is registered for the action type: FAILED, without an event.
FailUnconfigured(w) ==
  /\ pc[w] = "claimed" /\ Fenced(w)
  /\ job[w] \notin Configured
  /\ Update(w, [copy[w] EXCEPT !.state = "failed"])
  /\ Leave(w, "idle")
  /\ UNCHANGED <<events, promised, provider, crashes>>

\* Defect: the attempt is not counted.
StartedUncounted(d) == [d EXCEPT !.state = "running"]

StartedDocument(d) == [d EXCEPT !.state = "running", !.attempt = d.attempt + 1]

\* RUNNING is durable before the provider is called.
Start(w) ==
  /\ pc[w] = "claimed" /\ Fenced(w)
  /\ job[w] \in Configured
  /\ Update(w, StartedDocument(copy[w]))
  /\ Goto(w, "started", StartedDocument(copy[w]))
  /\ UNCHANGED <<events, promised, provider, outcome, crashes>>

\* The provider carries the operation out when the executor reports it
\* accepted, may or may not have done so when the outcome is uncertain, and
\* has not done so in the other cases.
Effect(o) == CASE o = "accepted" -> {1}
               [] o \in Uncertain -> {0, 1}
               [] OTHER -> {0}

\* executor.execute(item): external.  No fence is consulted here.
Execute(w) ==
  /\ pc[w] = "started"
  /\ \E o \in Outcomes : \E n \in Effect(o) :
       /\ outcome' = [outcome EXCEPT ![w] = o]
       /\ calls' = [calls EXCEPT ![job[w]] = @ + 1]
       /\ accepted' = [accepted EXCEPT ![job[w]] = @ + n]
  /\ Goto(w, "executed", copy[w])
  /\ UNCHANGED <<store, crashes>>

\* The heartbeat thread gave up during the call (past the deadline, or a
\* renewal raised): the item is dropped and nothing is written.
HeartbeatLost(w) ==
  /\ pc[w] = "executed"
  /\ Leave(w, "idle")
  /\ UNCHANGED <<store, provider, crashes>>

\* Defect: one retry too many.
NextStateOneMore(d, o) ==
  CASE o = "accepted" -> "verification_pending"
    [] o \in Retryable /\ d.attempt <= MaxAttempts -> "queued"
    [] o \in Uncertain -> "reconciliation_required"
    [] OTHER -> "failed"

\* Defect: an uncertain outcome is retried.
NextStateBlindRetry(d, o) ==
  CASE o = "accepted" -> "verification_pending"
    [] o \in Retryable \cup Uncertain /\ d.attempt < MaxAttempts -> "queued"
    [] o \in Uncertain -> "reconciliation_required"
    [] OTHER -> "failed"

\* Defect: a late result is published as if it were in time.
NextStateLateAccepted(d, o) ==
  CASE o \in {"accepted", "late"} -> "verification_pending"
    [] o \in Retryable /\ d.attempt < MaxAttempts -> "queued"
    [] o \in Uncertain -> "reconciliation_required"
    [] OTHER -> "failed"

NextState(d, o) ==
  CASE o = "accepted" -> "verification_pending"
    [] o \in Retryable /\ d.attempt < MaxAttempts -> "queued"
    [] o \in Uncertain -> "reconciliation_required"
    [] OTHER -> "failed"

\* Defect: a final failure leaves no pending descriptor.
RecordedFailureSilently(d, o) ==
  [d EXCEPT !.state = NextState(d, o),
            !.lease = (NextState(d, o) # "queued") /\ d.lease,
            !.pending = NextState(d, o) # "failed",
            !.event = [kind |-> NextState(d, o), attempt |-> d.attempt]]

\* The transition: the state, the lease given up by a requeue, and the
\* evidence descriptor that the same write leaves pending.
RecordedDocument(d, o) ==
  [d EXCEPT !.state = NextState(d, o),
            !.lease = (NextState(d, o) # "queued") /\ d.lease,
            !.pending = TRUE,
            !.event = [kind |-> NextState(d, o), attempt |-> d.attempt]]

RecordOutcome(w) ==
  /\ pc[w] = "executed" /\ Fenced(w)
  /\ LET d == RecordedDocument(copy[w], outcome[w])
     IN  /\ Update(w, d)
         /\ Promise(w, "remediation_action", d)
         /\ Goto(w, "recorded", d)
  /\ UNCHANGED <<events, provider, outcome, crashes>>

-----------------------------------------------------------------------------
(* verification.verify.                                                    *)

\* Defect: any execution can be verified.
VerifyReadAny(v, e) == pc[v] = "idle" /\ Load(v, e, "verifying")

VerifyRead(v, e) ==
  /\ pc[v] = "idle"
  /\ doc[e].state = "verification_pending"
  /\ Load(v, e, "verifying")

VerifiedDocument(d, verdict) ==
  [d EXCEPT !.state = verdict, !.pending = TRUE,
            !.event = [kind |-> verdict, attempt |-> 0]]

VerifyRecord(v) ==
  /\ pc[v] = "verifying" /\ Fenced(v)
  /\ \E verdict \in Verdicts :
       LET d == VerifiedDocument(copy[v], verdict)
       IN  /\ Update(v, d)
           /\ Promise(v, "verification_event", d)
           /\ Goto(v, "recorded", d)
  /\ UNCHANGED <<events, provider, outcome, crashes>>

-----------------------------------------------------------------------------
(* The event of a recorded transition, by its own worker or verifier.      *)

StreamOf(p) == IF p \in Verifiers THEN "verification_event"
               ELSE "remediation_action"

AppendEvent(p) ==
  /\ pc[p] = "recorded"
  /\ Append(p, StreamOf(p))
  /\ Goto(p, "appended", copy[p])
  /\ UNCHANGED <<doc, promised, clobbered, provider, outcome, crashes>>

\* append_event raised: the descriptor stays pending for the reconciler.
AppendFails(p) ==
  /\ pc[p] = "recorded"
  /\ Leave(p, "idle")
  /\ UNCHANGED <<store, provider, crashes>>

ClearPending(p) ==
  /\ pc[p] \in {"appended", "repaired"} /\ Fenced(p)
  /\ Update(p, [copy[p] EXCEPT !.pending = FALSE])
  /\ Leave(p, "idle")
  /\ UNCHANGED <<events, promised, provider, crashes>>

-----------------------------------------------------------------------------
(* AutomationReconciler.run_once, the evidence pass; ends in ClearPending. *)

\* Defect: only terminal executions are repaired.
RepairReadTerminal(r, e) ==
  /\ pc[r] = "idle"
  /\ doc[e].pending /\ doc[e].state \in Terminal
  /\ Load(r, e, "repairing")

RepairRead(r, e) ==
  /\ pc[r] = "idle"
  /\ doc[e].pending
  /\ Load(r, e, "repairing")

\* Every descriptor is replayed into the same stream.
RepairAppend(r) ==
  /\ pc[r] = "repairing"
  /\ Append(r, "remediation_action")
  /\ Goto(r, "repaired", copy[r])
  /\ UNCHANGED <<doc, promised, clobbered, provider, outcome, crashes>>

-----------------------------------------------------------------------------
(* ExecutionWorker.recover_expired, one item.                              *)

\* Defect: claims that never started are not recoverable.
RecoverReadStarted(r, e) ==
  /\ pc[r] = "idle"
  /\ doc[e].state \in {"running", "reconciliation_required"}
  /\ doc[e].lease
  /\ doc[e].token < MaxToken
  /\ Load(r, e, "recovering")

\* incomplete_executions(): a lease that the clock has passed.
RecoverRead(r, e) ==
  /\ pc[r] = "idle"
  /\ doc[e].state \in {"claimed", "running", "reconciliation_required"}
  /\ doc[e].lease
  /\ doc[e].token < MaxToken
  /\ Load(r, e, "recovering")

TakenOverDocument(d) == [d EXCEPT !.token = d.token + 1, !.lease = TRUE]

TakeOver(r) ==
  /\ pc[r] = "recovering" /\ Fenced(r)
  /\ Update(r, TakenOverDocument(copy[r]))
  /\ Goto(r, "taken_over", TakenOverDocument(copy[r]))
  /\ UNCHANGED <<events, promised, provider, outcome, crashes>>

\* What lookup may truthfully report: acceptance once the operation was
\* carried out, terminal failure once every recorded attempt was submitted
\* and none carried out.  Without an executor it raises.
LookupAnswers(p) ==
  {"unavailable"} \cup
  (IF job[p] \notin Configured THEN {}
   ELSE IF accepted[job[p]] > 0 THEN {"found_accepted"}
   ELSE IF calls[job[p]] >= copy[p].attempt
        THEN {"found_terminal", "not_settled"}
        ELSE {"not_settled"})

\* executor.lookup: external; not consulted for an execution only CLAIMED.
Lookup(r) ==
  /\ pc[r] = "taken_over" /\ copy[r].state # "claimed"
  /\ \E o \in LookupAnswers(r) : outcome' = [outcome EXCEPT ![r] = o]
  /\ Goto(r, "looked_up", copy[r])
  /\ UNCHANGED <<store, provider, crashes>>

\* A claim that never started goes back to the queue.
RequeueClaimed(r) ==
  /\ pc[r] = "taken_over" /\ copy[r].state = "claimed" /\ Fenced(r)
  /\ Update(r, [copy[r] EXCEPT !.state = "queued", !.lease = FALSE])
  /\ Leave(r, "idle")
  /\ UNCHANGED <<events, promised, provider, crashes>>

\* Defect: a failed lookup is taken for a failed operation.
RecoveredStateGuess(o) ==
  CASE o = "found_accepted" -> "verification_pending"
    [] o \in {"found_terminal", "unavailable"} -> "failed"
    [] OTHER -> "reconciliation_required"

RecoveredState(o) ==
  CASE o = "found_accepted" -> "verification_pending"
    [] o = "found_terminal" -> "failed"
    [] OTHER -> "reconciliation_required"

\* The recovered state is written without an event.
FinishRecovery(r) ==
  /\ pc[r] = "looked_up" /\ Fenced(r)
  /\ Update(r, [copy[r] EXCEPT !.state = RecoveredState(outcome[r])])
  /\ Leave(r, "idle")
  /\ UNCHANGED <<events, promised, provider, crashes>>

-----------------------------------------------------------------------------
(* Lost fences, crashes and restarts.                                      *)

\* The calls of update_execution whose Conflict no handler catches: it ends
\* run_once or recover_expired, and with it the process.
Uncaught(p) ==
  \/ pc[p] = "claimed" /\ job[p] \notin Configured
  \/ pc[p] = "executed" /\ outcome[p] \notin Returned \cup {"late"}
  \/ pc[p] = "appended" /\ p \in Workers /\ outcome[p] \in Returned
  \/ pc[p] = "taken_over" /\ copy[p].state = "claimed"
  \/ pc[p] = "looked_up"

Writing(p) ==
  \/ pc[p] \in {"polled", "claimed", "executed", "verifying", "appended",
                "repaired", "recovering", "looked_up"}
  \/ pc[p] = "taken_over" /\ copy[p].state = "claimed"

\* update_execution raises Conflict.
FenceConflict(p) ==
  /\ Writing(p) /\ ~Fenced(p)
  /\ Leave(p, IF Uncaught(p) THEN "dead" ELSE "idle")
  /\ UNCHANGED <<store, provider, crashes>>

Restart(p) ==
  /\ pc[p] = "dead"
  /\ Leave(p, "idle")
  /\ UNCHANGED <<store, provider, crashes>>

Crash(p) ==
  /\ pc[p] \notin {"idle", "dead"}
  /\ crashes < MaxCrashes
  /\ crashes' = crashes + 1
  /\ Leave(p, "idle")
  /\ UNCHANGED <<store, provider>>

-----------------------------------------------------------------------------
WorkerStep(w) ==
  \/ Claim(w) \/ FailUnconfigured(w) \/ Start(w) \/ Execute(w)
  \/ HeartbeatLost(w) \/ RecordOutcome(w)

ReconcilerStep(r) ==
  \/ RepairAppend(r) \/ TakeOver(r) \/ Lookup(r) \/ RequeueClaimed(r)
  \/ FinishRecovery(r)

EvidenceStep(p) == AppendEvent(p) \/ AppendFails(p) \/ ClearPending(p)

Next ==
  \/ \E w \in Workers : WorkerStep(w) \/ \E e \in Executions : PollQueued(w, e)
  \/ \E v \in Verifiers : VerifyRecord(v) \/ \E e \in Executions : VerifyRead(v, e)
  \/ \E r \in Reconcilers :
       ReconcilerStep(r) \/ \E e \in Executions : RepairRead(r, e) \/ RecoverRead(r, e)
  \/ \E p \in Procs : EvidenceStep(p) \/ FenceConflict(p) \/ Restart(p) \/ Crash(p)

Spec == Init /\ [][Next]_vars

(* The system under the scheduling that the runtime relies on.  A process   *)
(* keeps taking its next step (weak fairness); every poll and every         *)
(* reconcile pass reads all eligible executions, oldest first, so an        *)
(* execution that is eligible again and again is read (strong fairness);    *)
(* a dead process is restarted by its supervisor.                           *)
Fairness ==
  /\ \A w \in Workers : WF_vars(WorkerStep(w))
  /\ \A r \in Reconcilers : WF_vars(ReconcilerStep(r))
  /\ \A p \in Procs : WF_vars(EvidenceStep(p) \/ FenceConflict(p) \/ Restart(p))
  /\ \A w \in Workers, e \in Executions : SF_vars(PollQueued(w, e))
  /\ \A r \in Reconcilers, e \in Executions :
       SF_vars(RepairRead(r, e)) /\ SF_vars(RecoverRead(r, e))

FairSpec == Spec /\ Fairness

-----------------------------------------------------------------------------
(* Properties.                                                             *)

\* The provider carries an operation out at most once: an accepted or
\* uncertain operation is never requeued and submitted again.  This is the
\* claim of docs/operations/safe-remediation-runtime.md, line 3 ("never
\* blindly requeue an accepted operation").
AtMostOneEffect == \A e \in Executions : accepted[e] <= 1

\* Where every durable write started from the current document, the provider
\* carries an operation out at most once, whatever crashes, takeovers, lost
\* heartbeats and late results interleave (claim, run_once, recover_expired).
OneEffectUnlessClobbered ==
  \A e \in Executions : e \notin clobbered => accepted[e] <= 1

\* Under the same condition execute() is called at most max_attempts times,
\* counting the calls of workers that crashed or lost their fence.
RetryBudgetUnlessClobbered ==
  \A e \in Executions : e \notin clobbered => calls[e] <= MaxAttempts

\* Under the same condition an operation reported FAILED was not carried out,
\* whether the worker or a provider lookup after takeover reported it.
FailedHasNoEffect ==
  \A e \in Executions :
    e \notin clobbered /\ doc[e].state = "failed" => accepted[e] = 0

\* No two processes ever act on one execution under the same fence token:
\* claim and recover_expired each issue a token nobody else holds.
OwnerSteps == {"claimed", "started", "executed", "taken_over", "looked_up"}

FenceIsExclusive ==
  \A p, q \in Procs :
    /\ p # q
    /\ pc[p] \in OwnerSteps /\ pc[q] \in OwnerSteps
    /\ job[p] = job[q]
    => copy[p].token # copy[q].token

\* An execution reaches verification only if the provider carried it out,
\* even when stale copies overwrite newer documents.
VerificationNeedsEffect ==
  \A e \in Executions :
    doc[e].state \in {"verification_pending", "verified", "verification_failed"}
    => accepted[e] > 0

\* A worker transition whose pending flag is off has its event in the
\* evidence stream: neither the worker nor the reconciler clears the flag
\* before the event is durable, and no stale write makes it look delivered.
ClearedMeansDelivered ==
  \A e \in Executions :
    ~doc[e].pending /\ doc[e].event.kind \notin Verdicts \cup {"none"} =>
      [id |-> e, stream |-> "remediation_action", event |-> doc[e].event] \in events

\* Under the same condition the evidence of a final failure is never lost: it
\* is in its stream or still pending, although a retry or a verification may
\* overwrite the one slot a document has for pending evidence.
FailureEvidenceSurvives ==
  \A d \in promised :
    d.event.kind = "failed" /\ d.id \notin clobbered =>
      d \in events \/ (doc[d.id].pending /\ doc[d.id].event = d.event)

\* Both: evidence that a document has announced and then stops announcing has
\* been delivered.
EvidenceIsKept == ClearedMeansDelivered /\ FailureEvidenceSurvives

\* A terminal state is left only through a write from a stale copy.
TerminalStableUnlessClobbered ==
  [][\A e \in Executions :
       doc[e].state \in Terminal =>
         doc'[e].state = doc[e].state \/ e \in clobbered']_vars

\* As long as no write started from a stale copy of its document, an execution
\* keeps the contract: whatever crashes, takeovers, lost heartbeats and late
\* answers interleave, the provider is called at most max_attempts times and never
\* after it has carried the operation out, the document goes to verification or to
\* FAILED as the provider's side says, and stays where it has settled.
Answered == Terminal \cup {"verification_pending"}
answerBar == [e \in Executions |->
  IF e \in clobbered THEN "unknown"
  ELSE IF doc[e].state \in Answered THEN doc[e].state ELSE "open"]
Unless(f) == [e \in Executions |-> IF e \in clobbered THEN 0 ELSE f[e]]

Contract == INSTANCE ExecutionContract WITH
  answer <- answerBar, calls <- Unless(calls), effects <- Unless(accepted)
ImplementsContract == Contract!CSpec

\* An execution that is queued, claimed or running does not stay so under
\* one fence token: it settles, or a new token is issued (a claim, or a
\* takeover after a crash or a lost heartbeat).
NeverStuck ==
  \A e \in Executions : \A t \in 0..(MaxToken - 1) :
    (doc[e].token = t /\ doc[e].state \in {"queued", "claimed", "running"})
      ~> (doc[e].token > t
          \/ doc[e].state \notin {"queued", "claimed", "running"})

\* Evidence left pending by a failed append or a crash is replayed, or the
\* fence moves on, in which case the flag travels with the document.
EvidenceRepaired ==
  \A e \in Executions : \A t \in 0..MaxToken :
    (doc[e].token = t /\ doc[e].pending)
      ~> (doc[e].token > t \/ ~doc[e].pending)
=============================================================================
