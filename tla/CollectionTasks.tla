--------------------------- MODULE CollectionTasks --------------------------
(***************************************************************************)
(* Scanner tasks of the collection manager (services/collection_manager/   *)
(* leases.py, service.py, elasticsearch_repository.py and the task routes  *)
(* of src/api/app.py): a scanner polls for the task of a policy, claims    *)
(* it, renews its lease, submits results and acknowledges or fails it.     *)
(* Requests are handled by replicas of the API, each a sequence of calls   *)
(* to Elasticsearch.                                                       *)
(*                                                                         *)
(* What is abstracted:                                                     *)
(*   - one task.  Leases are numbered as they are issued, all for the same *)
(*     time: they run out in order, at any time.                           *)
(*   - a result is its idempotency key: equal keys carry equal payloads,   *)
(*     as they do when the key is derived from the payload.                *)
(*   - all results describe one asset, whose document says which of them   *)
(*     was written last.                                                   *)
(*   - the task's version is its sequence number.                          *)
(***************************************************************************)
EXTENDS Naturals, FiniteSets

CONSTANTS Scanners,   \* scanners of a tenant
          Home,       \* the scanner whose policy task it is
          Requests,   \* requests in flight
          Results,    \* results, by idempotency key
          Nobody,     \* no scanner
          NoResult,   \* no result
          MaxLeases,  \* bound: leases issued
          MaxCalls,   \* bound: requests
          MaxFaults   \* bound: failures of a request

ASSUME TasksAssumption ==
  /\ Home \in Scanners /\ Nobody \notin Scanners /\ NoResult \notin Results
  /\ MaxLeases \in Nat /\ MaxCalls \in Nat /\ MaxFaults \in Nat

VARIABLES
  task,       \* durable: the task and its version, 0 if it does not exist
  expired,    \* leases up to this one have run out
  snapshots,  \* durable: result -> number of schema snapshots
  asset,      \* durable: the result the asset document shows
  audits,     \* durable: result -> number of audit events
  responses,  \* durable: the results whose response is stored
  rq,         \* request -> its step and what it works with:
              \*   op, scanner  of a request that writes the task
              \*   new, seen    the document to write and the version it was made from
              \*   seq          the version it may replace
              \*   result       of a submission
  issued,     \* history: leases issued, with the scanner told to have them
  clobbered,  \* history: a document made from an older version has been written
  repeated,   \* history: results submitted again before the first was stored
  leases,     \* leases issued so far
  calls,      \* requests so far
  faults      \* failures so far

results == <<snapshots, asset, audits, responses>>
history == <<issued, clobbered, repeated>>
vars == <<task, expired, results, rq, history, leases, calls, faults>>

Statuses == {"available", "leased", "acknowledged", "failed"}
Task == [status: Statuses, scanner: Scanners, owner: Scanners \cup {Nobody},
         lease: 0..MaxLeases, ver: Nat]
Available == [status |-> "available", scanner |-> Home, owner |-> Nobody, lease |-> 0, ver |-> 0]
Steps == {"idle", "fetch", "index", "put", "lookup", "snapshot", "asset", "audit", "response"}
Idle == [pc |-> "idle", op |-> "none", scanner |-> Nobody, new |-> Available, seen |-> 0,
         seq |-> 0, result |-> NoResult]

RequestState ==
  [pc: Steps, op: {"none", "poll", "claim", "renew", "ack", "fail", "submit"},
   scanner: Scanners \cup {Nobody}, new: Task, seen: Nat, seq: Nat,
   result: Results \cup {NoResult}]

TypeOK ==
  /\ task \in Task
  /\ expired \in 0..leases
  /\ snapshots \in [Results -> Nat] /\ audits \in [Results -> Nat]
  /\ asset \in Results \cup {NoResult}
  /\ responses \subseteq Results
  /\ rq \in [Requests -> RequestState]
  /\ issued \subseteq Scanners \X (1..MaxLeases)
  /\ clobbered \in BOOLEAN /\ repeated \subseteq Results
  /\ leases \in 0..MaxLeases /\ calls \in 0..MaxCalls /\ faults \in 0..MaxFaults

Init ==
  /\ task = Available
  /\ expired = 0
  /\ snapshots = [k \in Results |-> 0]
  /\ asset = NoResult
  /\ audits = [k \in Results |-> 0]
  /\ responses = {}
  /\ rq = [r \in Requests |-> Idle]
  /\ issued = {} /\ clobbered = FALSE /\ repeated = {}
  /\ leases = 0 /\ calls = 0 /\ faults = 0

-----------------------------------------------------------------------------
Exists == task.ver # 0
Expired(l) == l # 0 /\ l <= expired
Begin(r) == rq[r].pc = "idle" /\ calls < MaxCalls /\ calls' = calls + 1
At(r, step) == rq[r].pc = step

\* The first call of a request reads the task; its conditions, if they fail,
\* end the request.  What it will write is made from what it has read.
Plan(r, step, op, s, new) ==
  rq' = [rq EXCEPT ![r] = [Idle EXCEPT !.pc = step, !.op = op, !.scanner = s, !.new = new,
                                       !.seen = task.ver]]

Expire ==
  /\ expired < leases /\ expired' = expired + 1
  /\ UNCHANGED <<task, results, rq, history, leases, calls, faults>>

\* tasks_for_scanner: the task is made for its policy and scanner once, by
\* a write without conditions.
Poll(r) ==
  /\ Begin(r)
  /\ ~Exists
  /\ Plan(r, "put", "poll", Home, Available)
  /\ UNCHANGED <<task, expired, results, history, leases, faults>>

\* Defect: a lease may be claimed over whether or not it has run out.
ClaimableAnyway == task.status \in {"available", "leased"}

Claimable ==
  \/ task.status = "available"
  \/ task.status = "leased" /\ Expired(task.lease)

Claim(r, s) ==
  /\ Begin(r)
  /\ Exists /\ Claimable
  /\ leases < MaxLeases /\ leases' = leases + 1
  /\ Plan(r, "fetch", "claim", s, [task EXCEPT !.status = "leased", !.scanner = s, !.owner = s,
                                               !.lease = leases'])
  /\ UNCHANGED <<task, expired, results, history, faults>>

Renew(r, s) ==
  /\ Begin(r)
  /\ Exists /\ task.owner = s /\ ~Expired(task.lease)
  /\ leases < MaxLeases /\ leases' = leases + 1
  /\ Plan(r, "fetch", "renew", s, [task EXCEPT !.lease = leases'])
  /\ UNCHANGED <<task, expired, results, history, faults>>

Ack(r, s) ==
  /\ Begin(r)
  /\ Exists /\ task.scanner = s
  /\ Plan(r, "fetch", "ack", s, [task EXCEPT !.status = "acknowledged"])
  /\ UNCHANGED <<task, expired, results, history, leases, faults>>

\* scanner_task_fail asks for nothing but the task, and writes without conditions.
FailTask(r, s) ==
  /\ Begin(r)
  /\ Exists
  /\ Plan(r, "put", "fail", s, [task EXCEPT !.status = "failed"])
  /\ UNCHANGED <<task, expired, results, history, leases, faults>>

\* upsert with an expected version reads the task again and takes the sequence
\* number it finds.
Fetch(r) ==
  /\ At(r, "fetch")
  /\ rq' = [rq EXCEPT ![r].pc = "index", ![r].seq = task.ver]
  /\ UNCHANGED <<task, expired, results, history, leases, calls, faults>>

Written(r) ==
  /\ task' = [rq[r].new EXCEPT !.ver = task.ver + 1]
  /\ issued' = IF rq[r].op \in {"claim", "renew"}
               THEN issued \cup {<<rq[r].scanner, rq[r].new.lease>>} ELSE issued
  /\ clobbered' = (clobbered \/ task.ver # rq[r].seen)

Index(r) ==
  /\ At(r, "index")
  /\ IF task.ver = rq[r].seq THEN Written(r) ELSE UNCHANGED <<task, issued, clobbered>>
  /\ rq' = [rq EXCEPT ![r] = Idle]
  /\ UNCHANGED <<expired, results, repeated, leases, calls, faults>>

Put(r) ==
  /\ At(r, "put")
  /\ Written(r)
  /\ rq' = [rq EXCEPT ![r] = Idle]
  /\ UNCHANGED <<expired, results, repeated, leases, calls, faults>>

-----------------------------------------------------------------------------
(* submit_result.                                                          *)

Submitting(k) == {r \in Requests : rq[r].result = k}
Submit(r, s, k) ==
  /\ Begin(r)
  /\ Exists /\ task.scanner = s
  /\ rq' = [rq EXCEPT ![r] = [Idle EXCEPT !.pc = "lookup", !.op = "submit", !.scanner = s,
                                          !.result = k]]
  /\ repeated' = IF Submitting(k) # {} THEN repeated \cup {k} ELSE repeated
  /\ UNCHANGED <<task, expired, results, issued, clobbered, leases, faults>>

\* Defect: the stored response is not looked for.
LookupNothing(r) ==
  /\ At(r, "lookup")
  /\ rq' = [rq EXCEPT ![r].pc = "snapshot"]
  /\ UNCHANGED <<task, expired, results, history, leases, calls, faults>>

\* A stored response is the answer.
Lookup(r) ==
  /\ At(r, "lookup")
  /\ rq' = [rq EXCEPT ![r] = IF @.result \in responses THEN Idle
                             ELSE [@ EXCEPT !.pc = "snapshot"]]
  /\ UNCHANGED <<task, expired, results, history, leases, calls, faults>>

\* Events have no id of their own: each call adds one.
Snapshot(r) ==
  /\ At(r, "snapshot")
  /\ snapshots' = [snapshots EXCEPT ![rq[r].result] = @ + 1]
  /\ rq' = [rq EXCEPT ![r].pc = "asset"]
  /\ UNCHANGED <<task, expired, asset, audits, responses, history, leases, calls, faults>>

UpsertAsset(r) ==
  /\ At(r, "asset")
  /\ asset' = rq[r].result
  /\ rq' = [rq EXCEPT ![r].pc = "audit"]
  /\ UNCHANGED <<task, expired, snapshots, audits, responses, history, leases, calls, faults>>

Audit(r) ==
  /\ At(r, "audit")
  /\ audits' = [audits EXCEPT ![rq[r].result] = @ + 1]
  /\ rq' = [rq EXCEPT ![r].pc = "response"]
  /\ UNCHANGED <<task, expired, snapshots, asset, responses, history, leases, calls, faults>>

StoreResponse(r) ==
  /\ At(r, "response")
  /\ responses' = responses \cup {rq[r].result}
  /\ rq' = [rq EXCEPT ![r] = Idle]
  /\ UNCHANGED <<task, expired, snapshots, asset, audits, history, leases, calls, faults>>

\* A call fails or the replica dies: the request ends, and is made again at most
\* as another request.
Fail(r) ==
  /\ ~At(r, "idle")
  /\ faults < MaxFaults /\ faults' = faults + 1
  /\ repeated' = repeated \cup ({rq[r].result} \ {NoResult})
  /\ rq' = [rq EXCEPT ![r] = Idle]
  /\ UNCHANGED <<task, expired, results, issued, clobbered, leases, calls>>

Request(r, s) ==
  Claim(r, s) \/ Renew(r, s) \/ Ack(r, s) \/ FailTask(r, s) \/ \E k \in Results : Submit(r, s, k)
Step(r) ==
  \/ Fetch(r) \/ Index(r) \/ Put(r)
  \/ Lookup(r) \/ Snapshot(r) \/ UpsertAsset(r) \/ Audit(r) \/ StoreResponse(r)

Next ==
  \/ \E r \in Requests : Poll(r) \/ Step(r) \/ Fail(r) \/ \E s \in Scanners : Request(r, s)
  \/ Expire
Spec == Init /\ [][Next]_vars

-----------------------------------------------------------------------------
\* Leases that have not run out are one scanner's, unless a request has written
\* what it made from a version that was no longer the task's.
LeaseIsExclusive ==
  clobbered \/ \A i, j \in issued : ~Expired(i[2]) /\ ~Expired(j[2]) => i[1] = j[1]

\* The asset never shows a result without its schema snapshot.
AssetHasSnapshot == asset # NoResult => snapshots[asset] > 0

\* A stored response, which answers every later submission, stands for a result
\* that has its snapshot and its audit event.
ResponseIsRecorded == \A k \in responses : snapshots[k] > 0 /\ audits[k] > 0

\* A result has one snapshot and one audit event, unless it was submitted again
\* before its first submission had ended, or that failed.
RecordedOnce == \A k \in Results \ repeated : snapshots[k] <= 1 /\ audits[k] <= 1

\* Together: the calls of submit_result are in an order, and the lookup of the
\* key in a place, that no failure, repetition or other submission can upset.
ResultIsRecorded == AssetHasSnapshot /\ ResponseIsRecorded /\ RecordedOnce
=============================================================================
