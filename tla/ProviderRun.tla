----------------------------- MODULE ProviderRun ----------------------------
(***************************************************************************)
(* The provider runtime of the collection manager                          *)
(* (services/collection_manager/provider_*.py, packages/collectors/sdk):   *)
(* a run loads the integration's checkpoint, collects through a provider   *)
(* with bounded retries, writes its observations in bulks, its run         *)
(* document and then the next version of the checkpoint.  Runs of one      *)
(* integration may overlap; nothing excludes them but the checkpoint.      *)
(*                                                                         *)
(* Two providers that collect the history of jobs are modelled: Snowflake  *)
(* asks for the queries that started since the watermark, SageMaker for    *)
(* the jobs created within a lookback.                                     *)
(*                                                                         *)
(* What is abstracted:                                                     *)
(*   - a job is running or done, and is observed under one stable          *)
(*     identity, its canonical_id; observations are created under it.      *)
(*   - time is counted in ticks; jobs that start in one tick have the same *)
(*     start time.  A lookback that reaches past the watermark changes     *)
(*     nothing, as the statement asks for start times from the watermark   *)
(*     on; it bounds the first run only.                                   *)
(*   - SageMaker's maximum_history_items is not reached, and checkpoints   *)
(*     are enabled.                                                        *)
(*   - observations and run documents go to plain indices.  Of the data    *)
(*     streams the manifest declares for them, the demand for @timestamp   *)
(*     and for op_type create is left out.                                 *)
(*   - the checkpoint's versions are kept; its version and its sequence    *)
(*     number both count them.                                             *)
(***************************************************************************)
EXTENDS Naturals, FiniteSets, Sequences

CONSTANTS Runs,           \* executions of the runtime for one integration
          Jobs,           \* jobs of the platform
          FromWatermark,  \* Snowflake's window, else SageMaker's
          Lookback,       \* query_lookback_seconds or history_lookback_seconds
          Limit,          \* maximum_query_rows
          BulkSize,       \* documents in a bulk request
          MaxAttempts,    \* maximum_attempts of the retry policy
          MaxTime,        \* bound: ticks
          MaxFaults       \* bound: failures of a run

ASSUME ProviderAssumption ==
  /\ IsFiniteSet(Jobs) /\ FromWatermark \in BOOLEAN
  /\ Lookback \in Nat \ {0} /\ Limit \in Nat \ {0} /\ BulkSize \in Nat \ {0}
  /\ MaxAttempts \in Nat \ {0} /\ MaxTime \in Nat \ {0} /\ MaxFaults \in Nat

VARIABLES
  clock,       \* the time
  jobs,        \* the platform: job -> its start (0: not yet) and whether it is done
  checkpoint,  \* durable: the versions of the checkpoint
  stored,      \* durable: job -> its observation
  rundocs,     \* durable: runs with a run document
  rn,          \* run -> its step and what it works with:
               \*   before   the checkpoint version loaded, 0 if none
               \*   attempt  of the collection
               \*   end      time of the collection
               \*   rows     observations collected, and partial: some failed
               \*   after    the watermark to be saved
               \*   left     observations to be written
  faults       \* failures so far

vars == <<clock, jobs, checkpoint, stored, rundocs, rn, faults>>

Steps == {"new", "collect", "stamp", "bulk", "document", "save", "write", "saved", "failed"}
States == {"running", "done"}
NewRun == [pc |-> "new", before |-> 0, attempt |-> 1, end |-> 0, rows |-> {}, partial |-> FALSE,
           after |-> 0, left |-> {}]

RunState ==
  [pc: Steps, before: Nat, attempt: 1..MaxAttempts, end: 0..MaxTime,
   rows: SUBSET (Jobs \X States), partial: BOOLEAN, after: 0..MaxTime,
   left: SUBSET (Jobs \X States)]

TypeOK ==
  /\ clock \in 1..MaxTime
  /\ jobs \in [Jobs -> [at: 0..MaxTime, done: BOOLEAN]]
  /\ checkpoint \in Seq([run: Runs, watermark: 1..MaxTime])
  /\ stored \in [Jobs -> States \cup {"none"}]
  /\ rundocs \subseteq Runs
  /\ rn \in [Runs -> RunState]
  /\ faults \in 0..MaxFaults

Init ==
  /\ clock = 1
  /\ jobs = [j \in Jobs |-> [at |-> 0, done |-> FALSE]]
  /\ checkpoint = <<>>
  /\ stored = [j \in Jobs |-> "none"]
  /\ rundocs = {}
  /\ rn = [r \in Runs |-> NewRun]
  /\ faults = 0

-----------------------------------------------------------------------------
(* The platform.                                                           *)

Tick ==
  /\ clock < MaxTime /\ clock' = clock + 1
  /\ UNCHANGED <<jobs, checkpoint, stored, rundocs, rn, faults>>

Start(j) ==
  /\ jobs[j].at = 0
  /\ jobs' = [jobs EXCEPT ![j].at = clock]
  /\ UNCHANGED <<clock, checkpoint, stored, rundocs, rn, faults>>

End(j) ==
  /\ jobs[j].at # 0 /\ ~jobs[j].done
  /\ jobs' = [jobs EXCEPT ![j].done = TRUE]
  /\ UNCHANGED <<clock, checkpoint, stored, rundocs, rn, faults>>

-----------------------------------------------------------------------------
(* A run.                                                                  *)

At(r, step) == rn[r].pc = step

Load(r) ==
  /\ At(r, "new")
  /\ rn' = [rn EXCEPT ![r].pc = "collect", ![r].before = Len(checkpoint)]
  /\ UNCHANGED <<clock, jobs, checkpoint, stored, rundocs, faults>>

\* The jobs a provider asks for: with no checkpoint the watermark is a lookback ago.
Recent(j) == jobs[j].at # 0 /\ jobs[j].at + Lookback >= clock

\* Defect: a job that started at the watermark is taken for collected.
AfterWatermark(r, j) ==
  IF rn[r].before = 0 THEN Recent(j) ELSE jobs[j].at > checkpoint[rn[r].before].watermark

SinceWatermark(r, j) ==
  IF rn[r].before = 0 THEN Recent(j) ELSE jobs[j].at >= checkpoint[rn[r].before].watermark

Asked(r) ==
  IF FromWatermark
  THEN {j \in Jobs : jobs[j].at # 0 /\ jobs[j].at < clock /\ SinceWatermark(r, j)}
  ELSE {j \in Jobs : Recent(j)}

\* The oldest of them, at most Limit; fewer if the provider fails on the way,
\* which it reports among its observations.
Oldest(J, W) == J \subseteq W /\ \A j \in J, k \in W \ J : jobs[j].at <= jobs[k].at
Size(W) == IF FromWatermark /\ Limit < Cardinality(W) THEN Limit ELSE Cardinality(W)
Observed(J) == {<<j, IF jobs[j].done THEN "done" ELSE "running">> : j \in J}

Collect(r, J, partial) ==
  /\ At(r, "collect")
  /\ Oldest(J, Asked(r))
  /\ IF partial THEN Cardinality(J) < Size(Asked(r)) ELSE Cardinality(J) = Size(Asked(r))
  /\ rn' = [rn EXCEPT ![r].pc = "stamp", ![r].end = clock, ![r].rows = Observed(J),
                      ![r].partial = partial]
  /\ UNCHANGED <<clock, jobs, checkpoint, stored, rundocs, faults>>

\* with_retry: a retryable error of the provider as a whole.
Retry(r) ==
  /\ At(r, "collect")
  /\ faults < MaxFaults /\ faults' = faults + 1
  /\ rn' = IF rn[r].attempt < MaxAttempts THEN [rn EXCEPT ![r].attempt = @ + 1]
           ELSE [rn EXCEPT ![r].pc = "failed"]
  /\ UNCHANGED <<clock, jobs, checkpoint, stored, rundocs>>

\* The next checkpoint carries the time after the collection.
Stamp(r) ==
  /\ At(r, "stamp")
  /\ rn' = [rn EXCEPT ![r].pc = "bulk", ![r].after = clock, ![r].left = rn[r].rows]
  /\ UNCHANGED <<clock, jobs, checkpoint, stored, rundocs, faults>>

\* A bulk creates the observations whose identities are new; the others it leaves.
Create(B) ==
  stored' = [j \in Jobs |-> IF stored[j] = "none" /\ \E s \in States : <<j, s>> \in B
                            THEN CHOOSE s \in States : <<j, s>> \in B ELSE stored[j]]
Batch(r, B) ==
  /\ B \subseteq rn[r].left
  /\ Cardinality(B) = IF BulkSize < Cardinality(rn[r].left) THEN BulkSize
                      ELSE Cardinality(rn[r].left)

Bulk(r, B) ==
  /\ At(r, "bulk") /\ rn[r].left # {} /\ Batch(r, B)
  /\ Create(B)
  /\ rn' = [rn EXCEPT ![r].left = @ \ B]
  /\ UNCHANGED <<clock, jobs, checkpoint, rundocs, faults>>

\* Defect: documents of a bulk that were not written are passed over.
BulkIgnores(r, B, C) ==
  /\ At(r, "bulk") /\ Batch(r, B) /\ C \subseteq B /\ C # B
  /\ faults < MaxFaults /\ faults' = faults + 1
  /\ Create(C)
  /\ rn' = [rn EXCEPT ![r].left = @ \ B]
  /\ UNCHANGED <<clock, jobs, checkpoint, rundocs>>

\* Some of a bulk fail: the run fails.
BulkFails(r, B, C) ==
  /\ At(r, "bulk") /\ Batch(r, B) /\ C \subseteq B /\ C # B
  /\ faults < MaxFaults /\ faults' = faults + 1
  /\ Create(C)
  /\ rn' = [rn EXCEPT ![r].pc = "failed"]
  /\ UNCHANGED <<clock, jobs, checkpoint, rundocs>>

Persisted(r) ==
  /\ At(r, "bulk") /\ rn[r].left = {}
  /\ rn' = [rn EXCEPT ![r].pc = "document"]
  /\ UNCHANGED <<clock, jobs, checkpoint, stored, rundocs, faults>>

PersistRun(r) ==
  /\ At(r, "document")
  /\ rundocs' = rundocs \cup {r}
  /\ rn' = [rn EXCEPT ![r].pc = "save"]
  /\ UNCHANGED <<clock, jobs, checkpoint, stored, faults>>

\* save: a first checkpoint is created; a later one must be the one loaded.
Expect(r) ==
  /\ At(r, "save")
  /\ rn' = [rn EXCEPT ![r] = IF @.before # 0 /\ Len(checkpoint) # @.before
                             THEN [@ EXCEPT !.pc = "failed"]
                             ELSE [@ EXCEPT !.pc = "write"]]
  /\ UNCHANGED <<clock, jobs, checkpoint, stored, rundocs, faults>>

\* The write takes effect if no other version has been written meanwhile.
WriteCheckpoint(r) ==
  /\ At(r, "write")
  /\ IF Len(checkpoint) = rn[r].before
     THEN /\ checkpoint' = Append(checkpoint, [run |-> r, watermark |-> rn[r].after])
          /\ rn' = [rn EXCEPT ![r].pc = "saved"]
     ELSE rn' = [rn EXCEPT ![r].pc = "failed"] /\ UNCHANGED checkpoint
  /\ UNCHANGED <<clock, jobs, stored, rundocs, faults>>

\* A call fails, the deadline passes, or the process dies, before or after the
\* step in hand took effect.
Abort(r) ==
  /\ rn[r].pc \notin {"new", "failed", "saved"}
  /\ faults < MaxFaults /\ faults' = faults + 1
  /\ rn' = [rn EXCEPT ![r].pc = "failed"]
  /\ UNCHANGED <<clock, jobs, checkpoint, stored, rundocs>>

Execute(r) ==
  \/ Load(r)
  \/ \E J \in SUBSET Jobs, partial \in BOOLEAN : Collect(r, J, partial)
  \/ Retry(r) \/ Stamp(r) \/ Persisted(r) \/ PersistRun(r)
  \/ \E B \in SUBSET rn[r].left :
       \/ Bulk(r, B)
       \/ \E C \in SUBSET B : BulkFails(r, B, C)
  \/ Expect(r) \/ WriteCheckpoint(r)

Next ==
  \/ \E r \in Runs : Execute(r) \/ Abort(r)
  \/ Tick
  \/ \E j \in Jobs : Start(j) \/ End(j)
Spec == Init /\ [][Next]_vars

-----------------------------------------------------------------------------
\* Evidence and run state are durable before the cursor: a version of the
\* checkpoint is the work of a run that has left its run document and an
\* observation of everything it collected.
AdvanceHasEvidence ==
  \A n \in 1..Len(checkpoint) :
    LET r == checkpoint[n].run IN
    /\ r \in rundocs
    /\ \A row \in rn[r].rows : stored[row[1]] # "none"

\* However runs overlap, each version of the checkpoint is made by one run that
\* has loaded the version before it, and the watermark never moves back.
AdvanceIsInTurn ==
  \A n \in 1..Len(checkpoint) :
    /\ rn[checkpoint[n].run].before = n - 1
    /\ n > 1 => checkpoint[n - 1].watermark <= checkpoint[n].watermark

\* Both: whatever fails and whoever overlaps, the checkpoint moves on evidence
\* and in turn (execute, save_checkpoint).
AdvanceIsBacked == AdvanceHasEvidence /\ AdvanceIsInTurn

\* A job that started before the watermark and was never observed, and that no
\* later run asks for, fell into one of four gaps of a run that has advanced the
\* checkpoint: it started while the run was collecting, the provider had failed,
\* the rows were cut off, or the run looked back from its own time and not so far:
\* a first run, and every run of a provider that never asks from the watermark on
\* (two SageMaker runs further apart than the lookback).
Explains(r, j) ==
  \/ rn[r].end <= jobs[j].at /\ jobs[j].at < rn[r].after
  \/ rn[r].partial
  \/ FromWatermark /\ Cardinality(rn[r].rows) = Limit
     /\ \A row \in rn[r].rows : jobs[row[1]].at <= jobs[j].at
  \/ (rn[r].before = 0 \/ ~FromWatermark) /\ jobs[j].at + Lookback < rn[r].end
SkippedIsExplained ==
  \A j \in Jobs :
    /\ checkpoint # <<>> /\ stored[j] = "none"
    /\ jobs[j].at # 0 /\ jobs[j].at < checkpoint[Len(checkpoint)].watermark
    => \E n \in 1..Len(checkpoint) : Explains(checkpoint[n].run, j)

\* "history lookbacks overlap to capture terminal updates and deduplicate on
\* stable AWS IDs": what a run that advanced the checkpoint has seen done is
\* stored as done.
TerminalUpdateStored ==
  \A n \in 1..Len(checkpoint) : \A j \in Jobs :
    <<j, "done">> \in rn[checkpoint[n].run].rows => stored[j] = "done"
=============================================================================
