-------------------------- MODULE ProductOperation --------------------------
(***************************************************************************)
(* Lifecycle transitions of one data product (services/data_products).     *)
(* A request handler reserves the idempotency key, saves an executable     *)
(* plan and a pending operation state, updates the product by compare-and- *)
(* swap and then reconciles its own operation; reconciliation workers do   *)
(* the same for operations whose handler died.  A reconciler claims the    *)
(* operation for a limited time and a new generation, repairs whatever is  *)
(* missing and closes the operation, its state document last.              *)
(*                                                                         *)
(* What is abstracted:                                                     *)
(*   - a product revision is its number and its lifecycle state, and so is *)
(*     its ETag (a hash of the content without updated_at); an edit keeps  *)
(*     the lifecycle state, and one that loses its race is left out.       *)
(*   - attempt_count and claim_generation are one number: claimed() raises *)
(*     both and nothing else writes either.                                *)
(*   - a fenced write (get, compare owner, generation and expiry, write by *)
(*     compare-and-swap) is one step; losing its race is an exception like *)
(*     any other, which leaves the claim to expire, as a crash does.       *)
(*   - renewals and checkpoints change nothing but the claim's document,   *)
(*     so what is kept of them is that they fail without the claim; a      *)
(*     claim that needs no renewal has not expired.                        *)
(*   - timestamps: a result is named after the generation that built it,   *)
(*     the revision evidence after the clock it carries.                   *)
(***************************************************************************)
EXTENDS Naturals, Sequences

CONSTANTS Requests,     \* idempotency keys, each with the request it stands for
          Target,       \* request -> the lifecycle state it asks for
          Handlers,     \* threads that serve requests
          Workers,      \* processes that reconcile
          Nobody,       \* no request
          MaxAttempts,  \* max_attempts
          MaxRevision,  \* bound: revisions of the product
          MaxArrivals,  \* bound: requests that arrive, retries included
          MaxFaults     \* bound: crashes, and claims that expire under their holder

Lives == {"draft", "active", "deprecated", "archived"}
Revs == 2..MaxRevision
Ops == Revs \X Requests     \* events.operation_id: of the revision and the key
Procs == Handlers \cup Workers

ASSUME ProductAssumption ==
  /\ Target \in [Requests -> Lives \ {"draft"}]
  /\ Handlers \cap Workers = {}
  /\ Nobody \notin Requests
  /\ MaxAttempts \in Nat /\ MaxRevision \in Nat \ {0}
  /\ MaxArrivals \in Nat /\ MaxFaults \in Nat

VARIABLES
  lives,   \* durable: the lifecycle state of every revision of the product
  seen,    \* request -> the revision whose ETag is its If-Match; 0: not sent
  idem,    \* durable: request -> its idempotency record
  plans,   \* durable: operation -> plans saved for it (2: more than one)
  status,  \* durable: operation -> status of its state document
  gens,    \* durable: operation -> its claim_generation and attempt_count
  live,    \* operation -> its claim has not expired
  event,   \* durable: operation -> its revision event, with its applied_at
  revdoc,  \* durable: operation -> the applied event in the revisions index
  newest,  \* durable: revision -> the request of its latest revision event
  shown,   \* the same, as a search sees it
  result,  \* durable: operation -> the generation that built its result; 0: none
  proof,   \* durable: operation -> its terminal history events
  pr,      \* process -> the step it is about to take, and what it works with:
           \*   job    the operation
           \*   gen    the generation of its claim; 0: none
           \*   tok    applied_at of the event it is about to finish
           \*   res    the result it is about to save
           \*   known  the terminal "applied" event it has read; 0: none
           \*   out    how it is about to close the operation, err the error
  arrivals,  \* requests that have arrived
  faults   \* crashes and early expiries so far

claims == <<status, gens, live>>
events == <<event, revdoc, newest, shown>>
evidence == <<idem, result, proof>>
store == <<lives, seen, plans, claims, events, evidence>>
vars == <<store, pr, arrivals, faults>>

Errors == {"projection_diverged", "revision_event_missing",
           "revision_snapshot_missing"}
Steps == {"idle", "plan", "state", "update", "product", "finish", "revdoc",
          "claim", "load", "project", "mark", "event", "snapshot", "result",
          "save", "append", "repair", "final"}
Terminal == {"applied", "superseded", "failed"}
NoRecord == [state |-> "none", rev |-> 0, res |-> 0, err |-> "none"]
Idle == [pc |-> "idle", job |-> <<0, Nobody>>, gen |-> 0, tok |-> "none",
         res |-> 0, known |-> 0, out |-> "none", err |-> "none"]

\* DataProduct.revision of the current product; operation_id's two parts.
Revision == Len(lives)
RevOf(o) == o[1]
ReqOf(o) == o[2]

IdemRecord == [state: {"none", "pending", "completed", "superseded", "failed"},
               rev: 0..MaxRevision, res: Nat, err: Errors \cup {"none"}]
History == [applied: Nat, superseded: BOOLEAN, failed: Errors \cup {"none"}]
Process == [pc: Steps, job: Ops \cup {<<0, Nobody>>}, gen: Nat,
            tok: {"none", "api", "occurred"}, res: Nat, known: Nat,
            out: Terminal \cup {"none"}, err: Errors \cup {"none"}]

StoreOK ==
  /\ lives \in Seq(Lives) /\ Len(lives) \in 1..MaxRevision
  /\ seen \in [Requests -> 0..(MaxRevision - 1)]
  /\ idem \in [Requests -> IdemRecord]
  /\ plans \in [Ops -> 0..2]
  /\ status \in [Ops -> {"none", "pending", "claimed"} \cup Terminal]
  /\ gens \in [Ops -> Nat]
  /\ live \in [Ops -> BOOLEAN]
  /\ event \in [Ops -> {"none", "pending", "api", "occurred"}]
  /\ revdoc \in [Ops -> {"none", "api", "occurred"}]
  /\ newest \in [Revs -> Requests \cup {Nobody}]
  /\ shown \in [Revs -> Requests \cup {Nobody}]
  /\ result \in [Ops -> Nat]
  /\ proof \in [Ops -> History]
ProcessOK ==
  /\ pr \in [Procs -> Process]
  /\ \A p \in Procs : pr[p].pc # "idle" => pr[p].job \in Ops
TypeOK ==
  /\ StoreOK /\ ProcessOK
  /\ arrivals \in 0..MaxArrivals /\ faults \in 0..MaxFaults

Init ==
  /\ lives = <<"draft">>
  /\ seen = [k \in Requests |-> 0]
  /\ idem = [k \in Requests |-> NoRecord]
  /\ plans = [o \in Ops |-> 0]
  /\ status = [o \in Ops |-> "none"]
  /\ gens = [o \in Ops |-> 0]
  /\ live = [o \in Ops |-> FALSE]
  /\ event = [o \in Ops |-> "none"]
  /\ revdoc = [o \in Ops |-> "none"]
  /\ newest = [r \in Revs |-> Nobody]
  /\ shown = [r \in Revs |-> Nobody]
  /\ result = [o \in Ops |-> 0]
  /\ proof = [o \in Ops |-> [applied |-> 0, superseded |-> FALSE, failed |-> "none"]]
  /\ pr = [p \in Procs |-> Idle]
  /\ arrivals = 0 /\ faults = 0

-----------------------------------------------------------------------------
\* The step p takes next.  Back to "idle" is a return, or an exception that
\* nothing in the services catches.
At(p, step) == pr[p].pc = step
Go(p, step) == pr' = [pr EXCEPT ![p].pc = step]
Quit(p) == pr' = [pr EXCEPT ![p] = Idle]

\* _owned_state: the claim in force is p's, and it has not expired.
Owned(p) ==
  /\ status[pr[p].job] = "claimed" /\ live[pr[p].job]
  /\ gens[pr[p].job] = pr[p].gen

\* Defect: an expired claim is not taken over.
ClaimableOnce(o) == status[o] = "pending"
\* The state document could be claimed: pending, or its claim has expired.
Claimable(o) == status[o] = "pending" \/ (status[o] = "claimed" /\ ~live[o])

-----------------------------------------------------------------------------
(* The request handler: DataProductService._transition and update.         *)

\* allowed, in _transition.
Allowed(from, to) ==
  \/ from = "draft" /\ to \in {"active", "archived"}
  \/ from = "active" /\ to \in {"deprecated", "archived"}
  \/ from = "deprecated" /\ to = "archived"

\* A request arrives, for the first time with the ETag of a revision its
\* client has read, or again with the same.  The key is reserved; a completed
\* one is replayed.  (A pending record with a bound operation would be
\* reconciled, but a transition binds its record only when it completes it.)
\* Then the current product is read and the transition judged.
Submit(h, k, r) ==
  /\ At(h, "idle")
  /\ arrivals < MaxArrivals /\ arrivals' = arrivals + 1
  /\ IF seen[k] = 0 THEN r \in 1..Revision ELSE r = seen[k]
  /\ idem[k].state # "completed"
  /\ Revision < MaxRevision
  /\ seen' = [seen EXCEPT ![k] = r]
  /\ idem' = [idem EXCEPT ![k].state = IF @ = "none" THEN "pending" ELSE @]
  /\ IF Allowed(lives[Revision], Target[k])
     THEN pr' = [pr EXCEPT ![h] = [Idle EXCEPT !.pc = "plan", !.job = <<Revision + 1, k>>]]
     ELSE UNCHANGED pr
  /\ UNCHANGED <<lives, plans, claims, events, result, proof, faults>>

\* persist_pending_operation: the plan's reference is its checksum, and its
\* payload holds the time of this request, so a retry saves another plan.
SavePlan(h) ==
  /\ At(h, "plan")
  /\ plans' = [plans EXCEPT ![pr[h].job] = IF @ < 2 THEN @ + 1 ELSE @]
  /\ Go(h, "state")
  /\ UNCHANGED <<lives, seen, claims, events, evidence, arrivals, faults>>

\* Defect: the state document is indexed, not created.
FreshAlways(o) == TRUE
\* client.create of the state document goes through.
Fresh(o) == status[o] = "none"

\* create_operation_state; a retry's document has another timestamp and is
\* refused ("divergent operation state").
CreateState(h) ==
  /\ At(h, "state")
  /\ IF Fresh(pr[h].job)
     THEN /\ status' = [status EXCEPT ![pr[h].job] = "pending"]
          /\ Go(h, "update")
     ELSE /\ Quit(h)
          /\ UNCHANGED status
  /\ UNCHANGED <<lives, seen, plans, gens, live, events, evidence, arrivals, faults>>

\* If-Match is the ETag of the current product.
Current(k) == seen[k] = Revision

\* update: If-Match must be the current ETag; begin_operation then creates
\* the revision event, which no search sees before the next refresh.
BeginOperation(h) ==
  /\ At(h, "update")
  /\ IF Current(ReqOf(pr[h].job))
     THEN /\ event' = [event EXCEPT ![pr[h].job] = IF @ = "none" THEN "pending" ELSE @]
          /\ newest' = [newest EXCEPT ![RevOf(pr[h].job)] = ReqOf(pr[h].job)]
          /\ Go(h, "product")
     ELSE /\ Quit(h)
          /\ UNCHANGED <<event, newest>>
  /\ UNCHANGED <<lives, seen, plans, claims, revdoc, shown, evidence, arrivals, faults>>

\* update_product: compare-and-swap on the ETag and the revision.
UpdateProduct(h) ==
  /\ At(h, "product")
  /\ IF Current(ReqOf(pr[h].job))
     THEN /\ lives' = Append(lives, Target[ReqOf(pr[h].job)])
          /\ pr' = [pr EXCEPT ![h].pc = "finish", ![h].tok = "api"]
     ELSE /\ Quit(h)
          /\ UNCHANGED lives
  /\ UNCHANGED <<seen, plans, claims, events, evidence, arrivals, faults>>

\* finish_operation, first write: the event is marked applied, unless it is.
FinishEvent(p) ==
  /\ At(p, "finish")
  /\ event' = [event EXCEPT ![pr[p].job] = IF @ = "pending" THEN pr[p].tok ELSE @]
  /\ Go(p, "revdoc")
  /\ UNCHANGED <<lives, seen, plans, claims, revdoc, newest, shown, evidence, arrivals, faults>>

\* finish_operation, second write: the same event, created in the revisions
\* index; one with another applied_at is refused ("divergent operation
\* outcome").
FinishRevision(p) ==
  /\ At(p, "revdoc")
  /\ IF revdoc[pr[p].job] \in {"none", pr[p].tok}
     THEN /\ revdoc' = [revdoc EXCEPT ![pr[p].job] = pr[p].tok]
          /\ Go(p, IF pr[p].gen = 0 THEN "claim" ELSE "snapshot")
     ELSE /\ Quit(p)
          /\ UNCHANGED revdoc
  /\ UNCHANGED <<lives, seen, plans, claims, event, newest, shown, evidence, arrivals, faults>>

-----------------------------------------------------------------------------
(* Reconciliation: DataProductOperationService.reconcile_operation with the *)
(* ProductLifecycleReconciliationHandler.                                   *)

\* A handler comes to its own operation; a worker picks one that is listed.
Comes(p, o) ==
  \/ p \in Handlers /\ At(p, "claim") /\ o = pr[p].job
  \/ p \in Workers /\ At(p, "idle")

\* claim_operation: compare-and-swap on the document that was read.
Claim(p, o) ==
  /\ Comes(p, o) /\ Claimable(o)
  /\ status' = [status EXCEPT ![o] = "claimed"]
  /\ live' = [live EXCEPT ![o] = TRUE]
  /\ gens' = [gens EXCEPT ![o] = @ + 1]
  /\ pr' = [pr EXCEPT ![p] = [Idle EXCEPT !.pc = "load", !.job = o, !.gen = gens[o] + 1]]
  /\ UNCHANGED <<lives, seen, plans, events, evidence, arrivals, faults>>

\* What repair_idempotency_terminal makes of the record of request k, and
\* whether it may: a record that is already closed must say the same.
Repaired(o, s, err, rs) ==
  IF s = "applied"
  THEN [state |-> "completed", rev |-> RevOf(o), res |-> rs, err |-> "none"]
  ELSE [state |-> s, rev |-> 0, res |-> 0, err |-> err]
\* Defect: a record that is closed otherwise is overwritten.
RepairableAlways(o, rec) == TRUE
\* A record that is closed must be the same.
Repairable(o, rec) == idem[ReqOf(o)].state = "pending" \/ idem[ReqOf(o)] = rec

\* _repair_terminal_revisit: a closed operation is reconciled again.  Its one
\* plan and the history event of its outcome must be there.
Proven(o) ==
  CASE status[o] = "applied" -> proof[o].applied # 0 /\ proof[o].applied = result[o]
    [] status[o] = "superseded" -> proof[o].superseded
    [] OTHER -> proof[o].failed # "none"
ErrorOf(o) == IF status[o] = "failed" THEN proof[o].failed ELSE "none"
Revisit(p, o) ==
  /\ Comes(p, o) /\ status[o] \in Terminal
  /\ Quit(p)
  /\ LET rec == Repaired(o, status[o], ErrorOf(o), result[o])
     IN  IF plans[o] = 1 /\ Proven(o) /\ Repairable(o, rec)
         THEN idem' = [idem EXCEPT ![ReqOf(o)] = rec]
         ELSE UNCHANGED idem
  /\ UNCHANGED <<lives, seen, plans, claims, events, result, proof, arrivals, faults>>

\* The handler's own operation is claimed by another: "retry".
Yield(h) ==
  /\ h \in Handlers /\ At(h, "claim")
  /\ status[pr[h].job] = "claimed" /\ live[pr[h].job]
  /\ Quit(h) /\ UNCHANGED <<store, arrivals, faults>>

\* _finalize_operation: the state document, only with the claim, which ends.
CloseState(p, s) ==
  IF Owned(p)
  THEN /\ status' = [status EXCEPT ![pr[p].job] = s]
       /\ live' = [live EXCEPT ![pr[p].job] = FALSE]
  ELSE UNCHANGED <<status, live>>

\* The claimed state is read again: at max_attempts the operation is failed
\* and nothing else is written.
Exhaust(p) ==
  /\ At(p, "load") /\ gens[pr[p].job] >= MaxAttempts
  /\ Quit(p) /\ CloseState(p, "failed")
  /\ UNCHANGED <<lives, seen, plans, gens, events, evidence, arrivals, faults>>

\* load_operation_plan (two plans are "ambiguous", an exception), the
\* operation's history, and the handler's assert_owned.
Load(p) ==
  /\ At(p, "load") /\ gens[pr[p].job] < MaxAttempts
  /\ IF plans[pr[p].job] = 1 /\ Owned(p)
     THEN pr' = [pr EXCEPT ![p].pc = "project", ![p].known = proof[pr[p].job].applied]
     ELSE Quit(p)
  /\ UNCHANGED <<store, arrivals, faults>>

\* OperationConsistencyError: the operation is to be closed as failed.
Raise(p, err) ==
  pr' = [pr EXCEPT ![p].pc = "append", ![p].out = "failed", ![p].err = err]

\* Defect: the product of the target revision is taken for the target.
AtTargetUnchecked(o) == TRUE
\* The product of the target revision has the target's lifecycle and ETag.
AtTarget(o) == lives[RevOf(o)] = Target[ReqOf(o)]

\* The handler looks at the product.  Behind the target, it must be the one
\* the plan was made for, and is updated from the plan; past the target, the
\* operation is superseded, which the service may say only with the claim.
Project(p) ==
  LET k == ReqOf(pr[p].job)
      r == RevOf(pr[p].job)
  IN  /\ At(p, "project")
      /\ \/ /\ Revision = r - 1 /\ Current(k)
            /\ lives' = Append(lives, Target[k])
            /\ Go(p, "mark")
         \/ /\ Revision < r /\ ~(Revision = r - 1 /\ Current(k))
            /\ Raise(p, "projection_diverged") /\ UNCHANGED lives
         \/ /\ Revision = r /\ AtTarget(pr[p].job)
            /\ Go(p, "event") /\ UNCHANGED lives
         \/ /\ Revision = r /\ ~AtTarget(pr[p].job)
            /\ Raise(p, "projection_diverged") /\ UNCHANGED lives
         \/ /\ Revision > r /\ Owned(p)
            /\ pr' = [pr EXCEPT ![p].pc = "append", ![p].out = "superseded"]
            /\ UNCHANGED lives
         \/ /\ Revision > r /\ ~Owned(p)
            /\ Quit(p) /\ UNCHANGED lives
      /\ UNCHANGED <<seen, plans, claims, events, evidence, arrivals, faults>>

\* The checkpoint after the product update.
Mark(p) ==
  /\ At(p, "mark")
  /\ IF Owned(p) THEN Go(p, "event") ELSE Quit(p)
  /\ UNCHANGED <<store, arrivals, faults>>

\* get_operation: without a revision event the operation fails; with one, its
\* terminal time is the event's own, and the claim is renewed.
ReadEvent(p) ==
  /\ At(p, "event")
  /\ \/ event[pr[p].job] = "none" /\ Raise(p, "revision_event_missing")
     \/ /\ event[pr[p].job] # "none" /\ Owned(p)
        /\ pr' = [pr EXCEPT ![p].pc = "finish",
                            ![p].tok = IF event[pr[p].job] = "pending" THEN "occurred"
                                       ELSE event[pr[p].job]]
     \/ event[pr[p].job] # "none" /\ ~Owned(p) /\ Quit(p)
  /\ UNCHANGED <<store, arrivals, faults>>

\* get_product_revision: the latest event of the revision that a search sees,
\* whichever operation it belongs to, must have the product's ETag.
Snapshot(p) ==
  LET r == RevOf(pr[p].job)
      k == ReqOf(pr[p].job)
      right == shown[r] # Nobody /\ Target[shown[r]] = Target[k]
  IN  /\ At(p, "snapshot")
      /\ \/ ~right /\ Raise(p, "revision_snapshot_missing")
         \/ right /\ Owned(p) /\ Go(p, "result")
         \/ right /\ ~Owned(p) /\ Quit(p)
      /\ UNCHANGED <<store, arrivals, faults>>

\* The result that exists, or a new one; the result_ready checkpoint.
ReadResult(p) ==
  /\ At(p, "result")
  /\ IF Owned(p)
     THEN pr' = [pr EXCEPT ![p].pc = "save",
                           ![p].res = IF result[pr[p].job] = 0 THEN pr[p].gen
                                      ELSE result[pr[p].job]]
     ELSE Quit(p)
  /\ UNCHANGED <<store, arrivals, faults>>

\* save_operation_result: created, or equal to the one that is there.
SaveResult(p) ==
  /\ At(p, "save")
  /\ IF result[pr[p].job] \in {0, pr[p].res}
     THEN /\ result' = [result EXCEPT ![pr[p].job] = pr[p].res]
          /\ pr' = [pr EXCEPT ![p].pc = "append", ![p].out = "applied"]
     ELSE /\ Quit(p)
          /\ UNCHANGED result
  /\ UNCHANGED <<lives, seen, plans, claims, events, idem, proof, arrivals, faults>>

\* append_operation_history of the terminal event.  It holds the time of the
\* append, so one written since this process read the history is divergent.
\* _append_terminal_history reads just before and accepts the same error.
MayAppend(p) ==
  CASE pr[p].out = "applied" -> proof[pr[p].job].applied \in {0, pr[p].known}
    [] pr[p].out = "superseded" -> TRUE
    [] OTHER -> proof[pr[p].job].failed \in {"none", pr[p].err}
Appended(p) ==
  LET old == proof[pr[p].job]
  IN  CASE pr[p].out = "applied" ->
             [old EXCEPT !.applied = IF old.applied = 0 THEN pr[p].res ELSE old.applied]
        [] pr[p].out = "superseded" -> [old EXCEPT !.superseded = TRUE]
        [] OTHER -> [old EXCEPT !.failed = pr[p].err]
AppendHistory(p) ==
  /\ At(p, "append")
  /\ IF MayAppend(p)
     THEN /\ proof' = [proof EXCEPT ![pr[p].job] = Appended(p)]
          /\ Go(p, "repair")
     ELSE /\ Quit(p)
          /\ UNCHANGED proof
  /\ UNCHANGED <<lives, seen, plans, claims, events, idem, result, arrivals, faults>>

\* repair_idempotency_terminal.
Repair(p) ==
  LET o == pr[p].job
      rec == Repaired(o, pr[p].out, pr[p].err, pr[p].res)
  IN  /\ At(p, "repair")
      /\ IF Repairable(o, rec)
         THEN /\ idem' = [idem EXCEPT ![ReqOf(o)] = rec]
              /\ Go(p, "final")
         ELSE /\ Quit(p)
              /\ UNCHANGED idem
      /\ UNCHANGED <<lives, seen, plans, claims, events, result, proof, arrivals, faults>>

\* complete_operation, supersede_operation, fail_operation: the state
\* document is written last, and only with the claim.
Finalize(p) ==
  /\ At(p, "final")
  /\ Quit(p) /\ CloseState(p, pr[p].out)
  /\ UNCHANGED <<lives, seen, plans, gens, events, evidence, arrivals, faults>>

-----------------------------------------------------------------------------
(* The surroundings.                                                       *)

\* Another client edits the product (DataProductService.update).
Edit ==
  /\ Revision < MaxRevision
  /\ lives' = Append(lives, lives[Revision])
  /\ UNCHANGED <<seen, plans, claims, events, evidence, pr, arrivals, faults>>

\* A refresh of the operations index.
Refresh ==
  /\ shown # newest
  /\ shown' = newest
  /\ UNCHANGED <<lives, seen, plans, claims, event, revdoc, newest, evidence, pr, arrivals, faults>>

\* claim_ttl_seconds pass.  Under a process that still works on it this is a
\* stall, and counted.
Held(o) == \E p \in Procs : pr[p].pc # "idle" /\ pr[p].job = o /\ pr[p].gen = gens[o]
Expire(o) ==
  /\ status[o] = "claimed" /\ live[o]
  /\ IF Held(o) THEN faults < MaxFaults /\ faults' = faults + 1
               ELSE UNCHANGED faults
  /\ live' = [live EXCEPT ![o] = FALSE]
  /\ UNCHANGED <<lives, seen, plans, status, gens, events, evidence, pr, arrivals>>

\* A process dies, or its call to the store is lost.
Crash(p) ==
  /\ ~At(p, "idle") /\ faults < MaxFaults
  /\ faults' = faults + 1
  /\ Quit(p)
  /\ UNCHANGED <<store, arrivals>>

HandlerStep(h) ==
  SavePlan(h) \/ CreateState(h) \/ BeginOperation(h) \/ UpdateProduct(h) \/ Yield(h)

ReconcileStep(p) ==
  \/ \E o \in Ops : Claim(p, o) \/ Revisit(p, o)
  \/ Exhaust(p) \/ Load(p) \/ Project(p) \/ Mark(p) \/ ReadEvent(p)
  \/ FinishEvent(p) \/ FinishRevision(p) \/ Snapshot(p) \/ ReadResult(p)
  \/ SaveResult(p) \/ AppendHistory(p) \/ Repair(p) \/ Finalize(p)

Next ==
  \/ \E h \in Handlers, k \in Requests, r \in 1..MaxRevision : Submit(h, k, r)
  \/ \E h \in Handlers : HandlerStep(h)
  \/ \E p \in Procs : ReconcileStep(p)
  \/ Edit \/ Refresh
  \/ \E o \in Ops : Expire(o)
  \/ \E p \in Procs : Crash(p)

Spec == Init /\ [][Next]_vars

\* A process that runs comes to its next step; a worker takes up what is
\* listed; a claim whose holder is gone expires; the index is refreshed.
Fairness ==
  /\ \A h \in Handlers : WF_vars(HandlerStep(h))
  /\ \A p \in Procs : WF_vars(ReconcileStep(p))
  /\ \A o \in Ops : WF_vars(Expire(o))
  /\ WF_vars(Refresh)

FairSpec == Spec /\ Fairness

-----------------------------------------------------------------------------
(* Properties.                                                             *)

\* The product reached the operation's revision in the state it asked for.
Reached(o) == Revision >= RevOf(o) /\ lives[RevOf(o)] = Target[ReqOf(o)]

\* All evidence that an applied operation leaves: the immutable result, the
\* terminal history event that names it, the event in both indices.
Evidenced(o) ==
  /\ result[o] # 0 /\ proof[o].applied = result[o]
  /\ event[o] \in {"api", "occurred"} /\ revdoc[o] # "none"

\* An operation whose state says applied has all its evidence, the product
\* did reach its target, and its idempotency record replays just that.
AppliedIsComplete ==
  \A o \in Ops : status[o] = "applied" =>
    /\ Reached(o) /\ Evidenced(o)
    /\ idem[ReqOf(o)] = Repaired(o, "applied", "none", result[o])

\* A record that a retry will be answered from (completed, _transition) was
\* never written ahead of what it promises.
CompletedIsBacked ==
  \A k \in Requests : idem[k].state = "completed" =>
    LET o == <<idem[k].rev, k>> IN o \in Ops /\ Reached(o) /\ Evidenced(o)

\* No crash, stalled worker or takeover between the writes of
\* reconcile_operation closes an operation with a part missing, nor its
\* idempotency record, which may be completed while the state is still open
\* or was failed by another worker.
ClosedIsBacked == AppliedIsComplete /\ CompletedIsBacked

\* Operations are opened and closed as the contract says, whatever the
\* interleaving of handlers and reconcilers.
outcomeBar == [o \in Ops |-> IF status[o] \in {"pending", "claimed"} THEN "open"
                             ELSE status[o]]
Contract == INSTANCE OperationContract WITH outcome <- outcomeBar
ImplementsContract == Contract!CSpec

\* An idempotency record that is closed, a result and a terminal event are
\* never rewritten, by whichever generation.
EvidenceIsImmutable ==
  [][/\ \A k \in Requests : idem[k].state \in {"completed", "superseded", "failed"}
                              => idem'[k] = idem[k]
     /\ \A o \in Ops : /\ result[o] # 0 => result'[o] = result[o]
                       /\ proof[o].applied # 0 => proof'[o].applied = proof[o].applied
    ]_vars

\* Requests stop arriving at some point, and from some point on no operation
\* is open, although handlers and workers died and stalled (max_attempts,
\* claim expiry).
OpenIsClosed == <>[](\A o \in Ops : status[o] \notin {"pending", "claimed"})
=============================================================================
