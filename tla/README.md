# DataObs: verification of its lease, evidence and checkpoint protocols

DataObs is a data-observability platform built on Elasticsearch. Its services keep
all their state in Elasticsearch documents and coordinate through optimistic
concurrency (revisions, `_seq_no`) and lease tokens; there are no transactions.
There is therefore hardly an operation of more than one write that cannot be
interrupted or overtaken between two of them. This directory holds TLA+ models of the parts whose correctness depends on how
such writes interleave, TLC configurations that check them on small instances,
and TLAPS proofs for every instance size.

Paths below are relative to the repository root.

## 1. Inventory

| component | state it keeps | operations | interacts through | hard part |
|---|---|---|---|---|
| Remediation execution (`services/incident_manager/automation/execution.py`) | operation document: state, attempt, lease owner/token/expiry, evidence descriptor | claim, run, retry, record, recover | operation index, evidence streams, provider | lease expiry racing a running worker, whole-document writes under a token fence, crash between durable write and provider call |
| Remediation reconciliation (`reconciliation.py`, `recover_expired`) | none of its own | replay evidence, deliver decisions, expire/release/consume approvals, take over leases | the same indices | acts on snapshots that others change meanwhile |
| Remediation verification (`verification.py`) | state, evidence descriptor | verify | operation index, verification stream | second writer on the operation document |
| Remediation approvals (`coordinator.py`) | approval document with revision, preview | request, decide, reserve, publish, consume, expire | approval and operation index | multi-document publication without a transaction |
| Policy, catalogue, preview, targets (`policy.py`, `catalogue.py`, `preview.py`, `targets.py`) | previews | evaluate, create preview, resolve target | owners of the targets | pure decisions |
| Data-product operations (`services/data_products`) | operations, claims, generations, checkpoints, history, idempotency records | claim, plan, apply in steps, complete, fail, repair | data-product indices | restart between any two writes |
| Pathway worker (`services/pathway_worker`) | lease document, checkpoint/watermark, projections | acquire, read, project, advance, release | span indices | projection writes precede the checkpoint |
| Collection manager (`services/collection_manager`) | tasks with lease and version, provider checkpoints, results | claim, renew, acknowledge, submit, checkpoint | collectors | duplicate and late results |
| Incident ingest and lifecycle (`services/incident_manager/service.py`, `lifecycle.py`) | incidents with version | merge finding, transition | findings | bounded optimistic retries |
| Incident correlation and flood control (`services/incident_manager/correlation`, `flood_control`) | groups, flood windows, decisions, deferred evaluations | find, attach, evaluate, notify, reconcile | incidents, API and worker | guards that are themselves separate writes |
| Kafka reliability runtime (`services/kafka_observer/reliability_*.py`) | lease, definitions, evaluations, status, signals | acquire, evaluate, persist, project, signal, checkpoint, edit | definitions, API | a fence looked at before the write, resumption |
| Other Kafka runtimes, stream observer, monitor runtime | leases, checkpoints, evaluations | claim, renew, evaluate, checkpoint | brokers, monitors | renewal thread, late evaluation |
| Everything else (API, UI, connectors, quality rules, SLOs, trust, contracts, RCA, product queries, migrations, deployment) | documents | mostly request/response reads, pure scoring | | see `PROJECT.json` |

`PROJECT.json` lists every component with what is modelled of it, the source lines
behind every definition, the hazards, the runs, the findings and the theorems.

What makes each component correct:

- **Execution**: a provider operation is carried out at most once although workers
  crash, stall past their lease and are taken over; it is submitted at most
  `max_attempts` times; what is reported agrees with what the provider did; every
  transition leaves evidence; nothing stays queued or running forever.
- **Approvals**: nobody executes what they requested or approved themselves; an
  approval pays for one execution and is neither spent without one nor left reserved;
  decisions are final and always leave evidence.
- **Pathway worker**: one fenced writer; a watermark that only moves forward; no span
  that arrives within the overlap window is lost.
- **Collection manager**: one scanner per task; a result counts once; a checkpoint
  never passes observations that were not stored.
- **Data-product operations**: an operation is completed once, with one result, across
  restarts, by the claim generation in force.
- **Incident ingest**: concurrent findings all end up in the incident, in one version
  history; the lifecycle table is obeyed.
- **Correlation**: a member and a suppressed notification count once; what was decided is
  recorded; of the deferred work, the oldest batch is done in the end.
- **Observers and evaluators** (Kafka, monitors, SLO, trust, jobs): one evaluator per
  target and window; a checkpoint follows the evaluation it stands for.

The hard behaviours are the same everywhere: a copy read before a write of somebody
else and used after it, a lease that runs out while its owner still works, a crash
between two writes that belong together, and a repair process that acts on what it
read a moment ago.

## 2. Plan

Done: nine models, in the order of section 3; four contracts, the abstract specifications of
what execution, approvals, the pathway checkpoint and data-product operations promise; proofs
of every safety invariant and action property the runs check, and of the four refinements
(section 5). Next:

1. `RemediationSystem`: approvals and execution composed, publication feeding the workers.
2. Contracts for the models that have none; a collection task, as a lease with a result, is
   the next one worth stating.
3. Membership and dependency operations in `ProductOperation`; the job-run state machine;
   operators for the policy and catalogue rules.

## 3. Modules and the code

Each model keeps the durable documents as variables and gives every process a program
counter `pc`, the item it works on and what it read. One action is one store operation,
provider call or read on which a later write depends; everything a handler computes
between two of them belongs to the action that uses it. Operators with a comment
beginning "Defect" are wrong versions of the definition that follows them. They occur
in no specification and serve to see that the properties notice the mistake.

### RemediationExecution and ExecutionContract

`doc` is the operation document (state, lease token, attempt, whether a lease is held,
the pending-evidence slot), `events` the create-only evidence streams. `calls` and
`accepted` count what the provider was asked and what it carried out.

| code | actions |
|---|---|
| `ExecutionWorker.run_once`, `claim` | `PollQueued`, `Claim`, `FailUnconfigured`, `Start`, `Execute`, `HeartbeatLost`, `RecordOutcome`, `AppendEvent`, `AppendFails`, `ClearPending` |
| `_record_failure` | `RecordOutcome` with the exceptional outcomes, then the same three |
| `recover_expired` | `RecoverRead`, `TakeOver`, `Lookup`, `RequeueClaimed`, `FinishRecovery` |
| `AutomationReconciler.run_once`, first loop | `RepairRead`, `RepairAppend`, `ClearPending` |
| `verify` | `VerifyRead`, `VerifyRecord`, then the evidence steps |
| `Conflict` from `update_execution`, process end | `FenceConflict`, `Restart`, `Crash` |

`update_execution` compares the lease token and replaces the whole document. The ghost
variable `clobbered` collects the executions for which such a write replaced a version
its writer had not seen. Properties named `...UnlessClobbered` hold for all others; the
run `double_submission` shows what happens to these. The ghost `promised` collects the
transitions whose event a document has announced; `FailureEvidenceSurvives`, a part of
`EvidenceIsKept`, says of those that report a failure that the event exists or can still be
replayed.

The provider is external. `Effect` states what its answers mean: `accepted` means carried
out, an uncertain outcome (timeout, unknown exception, answer past the deadline) leaves
it open, every other answer means not carried out. `LookupAnswers` states that a lookup is
truthful. Both are what `execution.py` relies on.

`ExecutionContract` is the promise of a published execution: the provider is called at most
`MaxAttempts` times and never after it has carried the operation out; the document goes to
verification if it has and to `FAILED` if not; a verdict is given once and is final. The
refinement shows every state before an answer as `open` (`answerBar`) and forgets an execution
at the step that clobbers it, so claims, takeovers, heartbeats, retries and evidence are
stutters or single steps.

### RemediationApproval and ApprovalContract

`approval` holds the approval documents with their revision, `published` the requests
whose execution document exists, `events` the approval and action streams, `expired` the
approvals whose time is over. A process prepares a document in `copy`, and
`WriteApproval` or `WriteConflict` is the compare-and-swap.

| code | actions |
|---|---|
| `request_approval` | `Request`, `AnnounceRequest` |
| `decide_approval` | `Decide`, `DecideTooLate`, `DecideAgain`, `Deliver`, `AnnounceExpiry` |
| `queue_execution`, `consume_reservation` | `QueueApproved`, `QueueTooLate`, `QueueReserved`, `QueueDirect`, `Resume`, `Publish`, `Announce` |
| `AutomationReconciler.run_once`, second loop | `ReconcilePending`, `ReconcileExpired`, `ReconcileReserved`, `CheckFound`, `CheckReleases`, `CheckWaits` |

A reservation names one execution by construction of its id, so the model does not carry
the name. Requests that are refused without a write are not steps.

`ApprovalContract` is the life of a request: opened, ruled on once by an approver other than
the requester, then executed, spent or lapsed, with an evidence stream that tells only what is
true when it is told. The refinement takes `approved` and `reserved` together as `granted`
(`StageOf`) and drops revisions and pending flags. Its `Execute` allows a lapsed grant because
the code does: a slow handler may publish after the reconciler has released its reservation
and the approval has run out.

### PathwayWorker and CheckpointContract

`ckpt` is the checkpoint document with lease, watermark and scan position, `arrived` the
span index, `seen` the spans whose edge has been written from a page that contained them.

| code | actions |
|---|---|
| `acquire_lease` | `AcquireRead`, `AcquireWrite`, `AcquireConflict` |
| `process_once` | `LoadCheckpoint`, `ReadSpans`, `SaveBegins` |
| `save`, `EventWatermark.committed` | `SaveBegins`, `SaveRejected`, `Project`, `Commit`, `CommitConflict` |
| `release_lease` in the `finally` clause | `Release`, `ReleaseRejected` |
| span indexing, clock, process end | `Arrive`, `LeaseExpires`, `Restart`, `Crash` |

A compare-and-swap on `_seq_no` succeeds only on the document that was read, so a process
keeps the number and no copy. The order of spans with equal timestamps comes from
`_shard_doc`, which is valid within one point in time, whereas the cursor is carried into
the next; the model lets any span at the cursor's timestamp be skipped or returned.
`inTime` collects the spans that arrive, once there is a watermark, at most `Window`
behind the newest span; `overtaken` those that a cursor or a manual replay passed by.

`CheckpointContract` reads the checkpoint's fields alone: a lease that is never taken while it is
in force and always under the next token, and a watermark that only the holder moves, forward
and to the time of an event that arrived. Whatever a process does between its reads and
its conditional writes is a stutter of it.

### ProductOperation and OperationContract

Lifecycle transitions of one data product. `lives` is the product's history, `idem`,
`plans`, `status`, `event`, `revdoc`, `result` and `proof` are the documents an operation
leaves in as many indices, `gens` and `live` its claim.

| code | actions |
|---|---|
| `DataProductService._transition`, `update` | `Submit`, `SavePlan`, `CreateState`, `BeginOperation`, `UpdateProduct`, `FinishEvent`, `FinishRevision` |
| `claim_operation`, `reconcile_batch` | `Claim`, `Revisit`, `Yield`, `Exhaust` |
| `reconcile_operation`, the lifecycle handler | `Load`, `Project`, `Mark`, `ReadEvent`, `Snapshot`, `ReadResult`, `SaveResult`, `AppendHistory`, `Repair`, `Finalize` |
| other clients, index refresh, clock, process end | `Edit`, `Refresh`, `Expire`, `Crash` |

`OperationContract` is the promise to a client: an operation is opened once and closed at
most once, as applied only if the product reached the state asked for at its revision, as
superseded only if it was overtaken. The refinement maps `pending` and `claimed` to `open`
and every other status to itself (`outcomeBar`); `ImplementsContract` is checked as a
property, so claims, generations, repairs and crashes are stutters or single steps of it.

### IncidentIngest

`register` holds the findings, `log` all versions of the incident with their writer, `shown`
the version a search sees, `ops` and `events` the workbench's records.

| code | actions |
|---|---|
| `ingest_finding`, `save_finding`, `_merge` | `Report`, `GetFinding`, `SaveFinding`, `Search`, `WriteIncident`, `Refreshed`, `Answer` |
| workbench and transition routes | `Ask`, `AskDirectly`, `LookUp`, `Read`, `Update`, `Record`, `AppendEvent` |
| index refresh, process end or error answer | `Refresh`, `Crash`, `CrashOperator` |

### IncidentCorrelation and CorrelationDocuments

`CorrelationDocuments` declares the constants, the documents and what must hold of them;
`IncidentCorrelation` extends it with the processes and their steps. `groups` and `windows` are
kept with their versions, `decisions` and `stream` are the append-only indices, `deferred` the
evaluations left for the worker, oldest first, `complete` the revisions whose processing has
returned.

A window that was not found is written under sequence number 0 and primary term 1
(`coordinator.py:247`). If another process has created it before the second look, the write is
an update, and it is refused unless the document found has these numbers: it is the first
document of its shard, and has not been changed since. The constant `First` has the groups whose
window is such a document, and `WindowUnseen` is this case of `WriteWindow`. `MarkReconciled`
writes nothing: the update goes to a wildcard pattern (section 7). So `Listed` never changes once
`Batch` evaluations are deferred, and the worker replays them again and again.

| code | actions |
|---|---|
| end of `ingest_finding`, `defer`, `reconcile` | `Ingest`, `Reconcile`, `Defer`, `MarkReconciled` |
| `process`, `_attach_with_occ` | `Find`, `Select`, `CreateGroup`, `AppendDecision`, `Attach` |
| `_evaluate_flood`, the evaluator | `ReadWindow`, `WriteWindow`, `AppendTransition`, `AppendNotification` |
| index refresh, failed call, process end | `RefreshGroups`, `RefreshDecisions`, `Fail`, `Crash` |

### StreamReliability

`lease` has owner, token and whether it is in force; `defs`, `evals`, `status` and `signals`
are the documents a cycle writes, `raced` a ghost that names the two races the code leaves
open (see the comment at its declaration).

| code | actions |
|---|---|
| `acquire`, `due`, `pending`, `run_once` | `Acquire`, `ReadToken`, `Due`, `Resume`, `Observe`, `Finish` |
| `_assert_fence` before each write | `Fence` |
| `persist`, `project`, `signal`, `checkpoint` | `Persist`, `Persisted`, `GetStatus`, `Project`, `Signal`, `GetDefinition`, `Checkpoint` |
| `update_slo` | `Read`, `Write` |
| clock, index refresh, failed call, process end | `Expire`, `Refresh`, `Fail`, `Crash` |

### ProviderRun

`checkpoint` is kept with its versions, `stored` are the observations, `rundocs` the run
documents; `jobs` is the platform that is observed.

| code | actions |
|---|---|
| `ProviderRuntime.execute` | `Load`, `Collect`, `Retry`, `Stamp`, `Bulk`, `BulkFails`, `Persisted`, `PersistRun`, `Expect`, `WriteCheckpoint`, `Abort` |
| the platform, the clock | `Start`, `End`, `Tick` |

Nothing in the runtime excludes a second run of an integration; the operations guide leaves
that to the composition of the scheduler. The model lets runs overlap, so what holds does
not depend on it.

### CollectionTasks

`task` is the task document with its version; `issued` and `expired` say which leases were
handed out and have run out; the rest are the documents of a result.

| code | actions |
|---|---|
| poll, claim, renew, acknowledge, fail | `Poll`, `Claim`, `Renew`, `Ack`, `FailTask` |
| `ElasticsearchRepository.upsert` | `Fetch`, then `Index` or `Put` |
| `submit_result` | `Submit`, `Lookup`, `Snapshot`, `UpsertAsset`, `Audit`, `StoreResponse` |
| clock, process end | `Expire`, `Fail` |

`upsert` re-reads the document and makes its write conditional on what it re-read, so the
version the request was computed from is never compared; `clobbered` becomes true when a
write replaces a version its request had not seen.

## 4. Runs

| run | question | result |
|---|---|---|
| `execution_safety` | two workers, a reconciler, a verifier, one crash, one execution | all eight properties hold, among them the refinement of `ExecutionContract` (531,898 states) |
| `execution_liveness` | one worker, one reconciler, a configured and an unconfigured execution, one crash | every execution moves on, pending evidence is repaired (30,190 states) |
| `double_submission` | is an accepted operation ever submitted again? | yes: a takeover from a stale `CLAIMED` copy |
| `approval_safety` | two handlers, a reconciler, expiry, one crash of any of them, under fairness | three invariants and the finality of decisions hold, `ApprovalContract` is implemented, reservations are resolved, decisions delivered (187,747 states) |
| `pathway` | a worker, a replay, three spans in any order, three leases, expiry and crashes at any step, under fairness | tokens, watermark and late spans are safe, `CheckpointContract` is implemented, an abandoned lease is taken over (1,373,851 states) |
| `product_operation` | two rival requests, a handler, a worker, an edit in between, a crash or a stall, under fairness | the contract is implemented, evidence is complete and immutable, no operation stays open (about 528,000 states) |
| `incident_ingest` | two of three reports in two processes, two operators, a lagging search, a crash at any step | nothing merged is lost, the lifecycle is legal, the timeline true (431,679 states) |
| `incident_correlation` | three incidents of one group, an API process and the worker, a window that can be replaced and others that cannot, one failure, one replay of what is done, under fairness | members and suppressions count once; what returned is recorded but for the event of a replaced window; the oldest deferred evaluations are processed (976,455 states) |
| `stream_reliability` | two workers, one definition, an edit, one failure, leases that run out at any step | checkpoints are backed, no transition is lost and the status moves on but for the named races (3,867,973 states) |
| `provider_run` | two overlapping runs, two queries, partial bulks, two failures | checkpoints are backed and in turn, what is skipped fell into one of four gaps (1,920,897 states) |
| `terminal_update` | is the terminal observation of a job stored? | no: it has the identity of the earlier one and its conflict counts as written |
| `collection_tasks` | two API replicas, two scanners, two results, three leases, one failure | leases are exclusive but for stale writes, results are recorded before they are answered (1,718,721 states) |

The two runs with a negative answer state a sentence of the repository's documentation,
quoted under `findings` in `PROJECT.json`.

**Bounds.** `MaxToken` = 3 allows a claim, a takeover and a second claim, the shortest sequence
in which an operation can be submitted twice; with `MaxAttempts` = 2 there is a retry and an
attempt that must not be retried. One execution suffices for safety because no action relates
two. `MaxRevision` = 5 lets an approval be decided, delivered, reserved, released and reserved
again. In `PathwayWorker` three timestamps with `Window` = 1 are the fewest with a span in time
that later falls out of reach, and `MaxToken` = 3 is the fewest leases: one moves the watermark
so that the span arrives in time, one reads or misses it, one puts it out of reach, and any of
the three may be lost to an expiry or a crash and taken over. The worker's pages hold all three
spans and the replay's two, so there are full and short pages. In
`ProductOperation` `MaxAttempts` = 3 leaves two attempts that do the work and one that closes
the operation; three revisions let a request be overtaken. In `IncidentIngest` the three reports
are a finding, a later observation of it without evidence, and a second finding on one more
asset; two of them and two changes of an operator meet on one document. `SampleSize` = 2 with
three incidents exceeds the sample, `Elevated` = 1 and `Flooding` = 2 reach every flood state;
`First` = {1} has one window that can be replaced next to two that cannot. `Batch` = 1 is full
with the first deferred evaluation, so that a second one waits behind it, and `MaxReplays` = 1
lets the worker come back to what is done and race the API with it.
In `StreamReliability` three cycles are the fewest in which a worker that lost its lease meets a
successor's evaluation and a third resumes; `Required` = `Recovery` = 1 makes every change of
observation a transition, and the observations are a breach and a met threshold: missing and
stale ones are branches of `Evaluate` that differ only in the status they give. `Limit` =
`BulkSize` = 1 in `ProviderRun` with two queries cuts rows off and splits nothing larger; four
ticks leave room before, during and after a collection. Three leases in `CollectionTasks` allow
a takeover and one more. `MaxCrashes` bounds crashes where there is such a constant; in
`PathwayWorker` they are unlimited, and so are stalls and lost leases everywhere. Deadlock is not checked: each system comes to rest when everything is settled, or
when a bound is reached.

**Fairness.** A process that is up takes its next step, and a dead one is restarted: a
supervisor's promise, which `docs/architecture/safe-remediation-control-plane.md` leaves to
the deployment. Polls and reconcile passes select all eligible documents oldest first, so
one that is eligible again and again is picked (strong fairness on the reads). A reservation
passes its five minutes (strong fairness on `CheckReleases`) and a lease its 60 seconds.
A data-product claim expires, a search index is refreshed at its interval, and the worker
loops of the data products and of the correlation (`runtime.py`) come back to whatever
their listing shows. Requests, edits, crashes and stalls are never fair.
Nothing obliges people to decide, the provider to answer well, a replay to be run, or a
verifier to act.

## 5. Proofs

The theorems hold for every value of the constants, finite or not where the specification
does not ask for a finite set, under the named assumptions of the specifications. Each rests on an inductive
invariant; TLC has checked the invariant on the instance of the model's run before it was
proved. In every module the proof that a step keeps the invariant has one lemma or step per action.

**RemediationExecutionProofs.** Three layers and the refinement. `TypeCorrect` rests on
`TypeInv`, which adds to `TypeOK` that a process past its read has a document, and that whoever
is about to start an attempt still has one left (`HasBudget`): without it the attempt counter of
a stale copy could leave its range. `OneEffect`, `RetryBudget` and `FailedIsHonest` rest on
`EffectInv`, stated for the executions outside `clobbered`. It says, for each state of the
document, how many calls and effects there can have been; that a process whose token is the
document's holds the document itself; and that only the holder of the current token can be about
to call the provider. The last part is what makes the counts inductive: a takeover turns every
other holder into one whose writes fail, while its provider call, already counted as possible by
`running`, may still come. `ExclusiveFence`, `VerifiedHadEffect`, `EvidenceKept` and
`TerminalStates` rest on `RecordInv`, which needs no exception for `clobbered` but the one its
properties state: tokens, effects and events only grow, so what was true of a copy when it was
read stays true; every token held is at most the document's; and a write whose copy is terminal
keeps the state and the evidence slot. `ExecutionImplemented` rests on all three: outside
`clobbered` a process about to write holds the document itself, so what its write does to the
answer is what the contract allows of the document, and a provider call is possible only while
the answer is open, no effect has happened and an attempt is left.

**RemediationApprovalProofs.** `ApprovalTypeCorrect` rests on `TypeInv`. The other four rest on
`GovInv`: each document is lawful by itself (`Lawful`: decided by an authorised person other
than the requester, evidence present or pending, consumed only when published); a copy is at
most as new as its document, and if equally new differs from it only by the change its step
prepares (`CopyInv`); and what a process verified before (`Known`) stays true, because decisions
never change and published executions never vanish. Compare-and-swap then makes each write one
of seven lawful changes, and `DecisionsStay` follows as an action property.
`ApprovalImplemented` needs a third layer for the evidence, which is appended some steps after
the change it tells of: `ToldInv` says that a process about to append still stands before what
it tells (`Told`), and that a rejected request is one a decision rejected (`Refused`).

**PathwayWorkerProofs.** `PathwayTypeCorrect`: `TypeOK` is inductive by itself; the one fact it
needs is that a page has a last timestamp, from the well-foundedness of the naturals.
`UniqueTokens` and `FencedWatermark` rest on `TokenInv`: a process between two cycles does not
own the lease, so that acquiring always issues a new token; what a process read is no newer than
the document; and if it is still current, its token is the document's next one (while acquiring)
or the one in force (while projecting). The last part is what the compare-and-swap on the
sequence number buys. `LateSpans` (`InTimeUnlessOvertaken`) rests on `LateInv`: only the process
in force can commit, so the watermark stands still from its load to its commit; what a page
leaves out was out of reach, has been overtaken, or is no older than the page's last position
(`Covers`); and watermark, scan position and cursors are timestamps of spans that arrived, so
that a span that comes in time is in reach. `CheckpointImplemented` adds `LeaseInv`: as long as
the sequence number is the one a process read, the lease is still as it read it (`AsRead`), so
the expiry tested at the read holds at the write.

**CollectionTasksProofs.** `IInv` has four parts. `TypeInv`; `ResultInv`, what a submission has
written by the step it is at, which is what `ResultIsRecorded` needs when it crashes
between two writes; `OnceInv`, that a result no repetition touched comes from one
submission; and `LeaseInv`, what a request is about to write as long as the task is the version it
read. `LeaseInv` is stated outside `clobbered`: the version test of the repository compares
what it has just read, so a grant may replace one it never saw, and `LeaseIsExclusive` says
nothing of such a task.

**ProviderRunProofs.** `IInv` joins `RunInv`, what a run has seen and written by its step, with
`VersionInv`: the versions of a checkpoint are the work of saved runs in turn. They give
`AdvanceIsBacked`. `SkippedIsExplained` needs `WindowInv` too: a collected run misses only jobs
older than the watermark it loaded or in one of the named gaps, at every version of the
checkpoint. The theorem covers both ways of querying. A history read from the watermark leaves a
gap at its row limit; one read over a lookback window (SageMaker's) is not cut off there but
leaves a gap whenever two runs are further apart than the lookback, because the window moves
with the clock. The run has the first kind; the second was checked by setting `FromWatermark` to
`FALSE` in the same configuration.

**StreamReliabilityProofs.** `IInv` (tokens, what a cycle holds, what each evaluation at work
has read, that checkpoints and edits are backed by events) gives `CheckpointIsBacked`. The other
two are statements about the past, and each has a layer of its own over the ghost history:
`LostInv`, as long as `raced` does not name the transition, says that an evaluation is signalled
or is the newest and not yet checkpointed; `OrderInv`, as long as it does not name the status,
that the status ascends, that whoever replaces it brings a later evaluation, and that the latest
cycle leads.

**IncidentProofs, ingestion.** `IInv` has the type; `LogInv`, that each version of the incident
is a legal continuation of the one before and that findings and assets are only gained;
`HandlerInv`, what a delivery has saved and merged by its step; `Contained` and `Kept`, that an
answered report is in the incident and in the register; `OperatorInv`, that a change about to be
written was judged legal on the version it replaces; and `RecordInv`, that the record of an
operation names the version the operation wrote. From these follow all four invariants of the
run.

**IncidentProofs, correlation.** The second part of the module is about `IncidentCorrelation`,
taken as the instance `Corr` over the documents of `CorrelationDocuments`, which the module
extends: the theorems state the very properties the run checks (`SameProperties`). Each names
the model's own `CorrelationAssumption` as its hypothesis, which every run of that model
evaluates. `CorrInv` has the type, the three invariants of the run, that a decision names a
group that exists and a deferred evaluation an incident that does (`NamesInv`), and `Settled`:
what a process has written by its step is there, and the versions it read exist. Two facts make
it inductive. Group documents, decisions and stream entries only grow, and so do the events of
a window together with the one that `InWindow` excepts (`CorrGrows`), so `Settled` survives the
steps of all others, and so does `CompleteIsRecorded`. The step that replaces a window is the
one to look at: it meets a window with one version, and the version that created a window has
one event (`CreatedInv`), so that event is the only one that can go. And, but for that step, a write that is accepted replaces the very version that was read: the count then grows
exactly when the sample gains a member, as long as there is room (`SampleKeeps`), and a window
suppresses only for an event it did not have (`EvaluatedWindow`).

**ProductOperationProofs.** `IInv` has the type, `ProofInv` (a terminal event names the result
it reports), `ClosedIsBacked` itself and `Sound`, what a process relies on at its step: what it
has found or written before is there and stays, and an operation is closed as what it became.
Each step lemma proves, next to `IInv'`, that documents only grow; this carries `Sound` for all
other processes. `ContractImplemented` is the refinement step by step: each action opens an
operation of `OperationContract`, closes one, or is a stutter of it.

**Only model-checked.** The liveness properties (fairness and ENABLED are outside the prover's
reach). Every invariant and action property of a passing run is also a theorem. `TypeOK`
of each model is part of what is proved, and no run lists it.

## 6. Hazards

`PROJECT.json` lists the main places where a test would hardly reach what can go wrong, each with
the properties that notice it. Where the code leaves a race open, the property is stated
around it with a ghost or a predicate that names the race (`clobbered`, `overtaken`, `raced`,
`repeated`, the second case of `InWindow`, the four gaps of `SkippedIsExplained`): it says that nothing else goes wrong, and its weaker form says
exactly when the stronger one fails.

## 7. What the code does not keep

Met while modelling. The models have these behaviours, no property of a passing run denies
them, and the first two are the runs with a negative answer.

- An execution taken over from a stale copy may be submitted twice (`execution.py:326`,
  `double_submission`).
- A terminal observation is dropped as a duplicate (`provider_elasticsearch.py:134`,
  `terminal_update`).
- `_record_failure` lets `Conflict` escape and ends the batch, against the comment "Losing a
  fence is per-item safety, not worker failure" (`execution.py:99`, `:266`).
- The one evidence slot is overwritten when a transition follows one whose append failed; for
  transitions other than failures the event is then lost (`execution.py:181`).
- A verification event whose append failed is replayed into the action stream
  (`reconciliation.py:27` of `automation`).
- A reservation can be released between the lookup of its execution and the write, next to
  the execution published meanwhile (`reconciliation.py:69`).
- `execution_queued` is appended last with no pending descriptor: after a crash before it, or
  when a reconciler consumes the reservation first, nothing repairs it (`coordinator.py:305`).
- Spans that arrive within the overlap while pages come back full are passed by
  (`pathway_worker/service.py:42`), and projections are written after one look at the fence
  (`repository.py:188`).
- A takeover of an applied data-product operation whose product was edited since closes it as
  superseded or failed (`data_products/reconciliation.py:452`); handler and worker may give the
  terminal event two times (`service.py:93`), after which it cannot be finished.
- A correlation decision whose attachment failed is never attached
  (`correlation/coordinator.py:142`); after a lost race for the flood window a notification is
  recorded as coalesced that the window has not counted (`:291`).
- A flood window that was not found is written under sequence number 0 and primary term 1
  (`correlation/coordinator.py:247`, `:287`). If another process has created it meanwhile and it is
  the first document of its shard, the update is accepted and the other's event is lost, although
  its evaluation has returned.
- `mark_reconciled` updates by the wildcard pattern `logs-dataobs.correlation_event-*`
  (`correlation/elasticsearch_repository.py:232`), which Elasticsearch refuses for a write, and
  `reconcile` counts the exception as a failed item (`coordinator.py:179`). No deferred evaluation
  is ever closed: the oldest batch (at most 100) is replayed at every pass, and what is deferred
  behind it is not reached, against "Deferred work is reconciled after incident persistence"
  (`docs/architecture/incident-correlation.md:7`).
- A provider run that failed in part advances its checkpoint (`provider_runtime.py:109`), against
  `docs/operations/aws-data-platform-collector.md:13`.
- Two runs of the SageMaker history further apart than its lookback pass the jobs between them
  by: the query starts at the clock less the lookback and never at the watermark
  (a gap of `SkippedIsExplained`).
- Observations and run documents go to data streams (`elastic_store/manifest.py:1647`), but an
  observation carries no `@timestamp`, and the run document is indexed without `op_type=create`
  (`provider_elasticsearch.py:169`). A data stream refuses both. `ProviderRun` models the targets
  as plain indices, which is what its properties are about; behind the declared data streams every
  bulk and every run document would fail before the checkpoint is written.
- The version test of the collection repository compares a version it has just read
  (`collection_manager/elasticsearch_repository.py:69`).

## 8. Not modelled

Within the modelled components: the batch limits of the polls (a batch is items in turn, with
the process stalling between reading and acting); where a model has no `shown` variable, the
refresh delay of Elasticsearch queries, which the stale reads already include; the window
between the read and the conditional write inside one repository call, in which a conflict is
an exception like a crash there; approval previews, their expiry and revision checks, which
only refuse; event payloads and audit texts; `renew_lease` of the pathway repository, which
nothing calls; the content of nodes, edges and pathways; membership and dependency operations
of data products; providers other than the two histories of `ProviderRun`, and the demands of
data streams on what it writes (section 7); the intelligence
and schema runtimes of the Kafka observer; external case systems.

The larger part of the repository keeps no state of its own or changes it in single
unconditional writes: some two thousand lines of routes, as many of index manifests,
connectors to two dozen platforms, scoring and query code, schemas, the UI and the
deployment. Models of it would restate assignments. The mapped lines are therefore a small
share of all lines, although they hold most of the places where two processes or two writes
can get in each other's way. The components without a module are listed with the reason in
`PROJECT.json`.
