--------------------------- MODULE IncidentIngest ---------------------------
(***************************************************************************)
(* Ingestion of findings into one incident, and the operators' changes to  *)
(* that incident (services/incident_manager).  API processes save a        *)
(* finding in a compare-and-swap register, look the incident up with a     *)
(* search, merge the finding and write the incident by compare-and-swap or *)
(* create it, three times at most; operators move the same document along  *)
(* its lifecycle and leave an idempotency record and a timeline event.     *)
(*                                                                         *)
(* What is abstracted:                                                     *)
(*   - one deduplication key, so one incident: every report below has it.  *)
(*     Incidents of different keys share no document.                      *)
(*   - a document is kept with all its versions, and its sequence number   *)
(*     is the number of its writes; a copy somebody holds is the number of *)
(*     the version.                                                        *)
(*   - severity is the report whose inputs it was last calculated from;    *)
(*     evidence is its rank in the order of its canonical text, 0 for none.*)
(*     Titles, owners and summaries follow the same writes and are dropped.*)
(*   - an error answer and a crash leave the same documents: Crash is both.*)
(***************************************************************************)
EXTENDS Naturals, Sequences, FiniteSets

CONSTANTS Reports,      \* finding events that sources send
          Findings,     \* finding identifiers
          Assets,       \* asset identifiers
          FindingOf,    \* report -> its finding
          ObservedAt,   \* report -> its last_observed_at
          EvidenceOf,   \* report -> its evidence
          AssetsOf,     \* report -> its asset and the assets downstream
          Keys,         \* idempotency keys of the workbench
          ChangeOf,     \* key -> the change asked for
          Direct,       \* changes asked for without a key
          Handlers,     \* API processes that ingest
          Operators,    \* API processes that serve a change
          Nobody,       \* no report, no key
          MaxAttempts,  \* MAX_CONFLICT_ATTEMPTS; also the tries of save_finding
          MaxArrivals,  \* bound: reports that arrive, replays included
          MaxRequests   \* bound: changes that are asked for, retries included

States == {"open", "acknowledged", "investigating", "mitigating",
           "waiting_for_approval", "monitoring_recovery", "resolved",
           "suppressed", "closed", "reopened"}
Changes == States \cup {"assign", "comment"}

ASSUME IngestAssumption ==
  /\ FindingOf \in [Reports -> Findings] /\ IsFiniteSet(Reports)
  /\ ObservedAt \in [Reports -> Nat \ {0}]
  /\ EvidenceOf \in [Reports -> Nat]
  /\ AssetsOf \in [Reports -> SUBSET Assets]
  /\ ChangeOf \in [Keys -> Changes]
  /\ Direct \subseteq States \cup {"assign"}
  /\ Nobody \notin Reports \cup Keys /\ Reports \cap Keys = {}
  /\ MaxAttempts \in Nat \ {0} /\ MaxArrivals \in Nat /\ MaxRequests \in Nat

VARIABLES
  register,  \* durable: finding -> the reports saved for it, the last in force
  log,       \* durable: the versions of the incident, each with its writer;
             \* an incident that does not exist has none
  shown,     \* the version a search sees; 0: none
  ops,       \* durable: key -> its record: the revision in its fingerprint and
             \* the revision its event names; 0: none
  events,    \* durable: key -> the revision its timeline event names; 0: none
  in,        \* ingest process -> its step, its report, the races it has lost
             \* and the version it has read
  op,        \* operator process -> its step, its key, the change, the revision
             \* its client has seen and the version it has read or written
  answered,  \* reports whose client was told that they are ingested
  arrivals,  \* reports that have arrived
  requests   \* changes that were asked for

incident == <<log, shown>>
workbench == <<ops, events, op, requests>>
ingest == <<register, in, answered, arrivals>>
vars == <<incident, workbench, ingest>>

Incident == [found: SUBSET Findings, count: Nat, last: Nat, evidence: Nat,
              assets: SUBSET Assets, graded: Reports, state: States]
Writers == Reports \cup Keys \cup {Nobody}
Version == [by: Writers, doc: Incident]
HandlerState ==
  [pc: {"idle", "get", "save", "search", "write", "refresh", "answer"},
   rep: Reports \cup {Nobody}, lost: 0..(MaxAttempts - 1), seq: Nat]
OperatorState ==
  [pc: {"idle", "look", "read", "update", "record", "append"},
   key: Keys \cup {Nobody}, change: Changes, rev: Nat, seq: Nat]
Idle == [pc |-> "idle", rep |-> Nobody, lost |-> 0, seq |-> 0]
NoOne == [pc |-> "idle", key |-> Nobody, change |-> "comment", rev |-> 0, seq |-> 0]
SeqNo == Len(log)
Doc(n) == log[n].doc

TypeOK ==
  /\ register \in [Findings -> Seq(Reports)]
  /\ log \in Seq(Version) /\ shown \in 0..SeqNo
  /\ ops \in [Keys -> [rev: Nat, at: Nat]]
  /\ events \in [Keys -> Nat]
  /\ in \in [Handlers -> HandlerState]
  /\ op \in [Operators -> OperatorState]
  /\ answered \subseteq Reports
  /\ arrivals \in 0..MaxArrivals /\ requests \in 0..MaxRequests

Init ==
  /\ register = [f \in Findings |-> <<>>]
  /\ log = <<>> /\ shown = 0
  /\ ops = [k \in Keys |-> [rev |-> 0, at |-> 0]]
  /\ events = [k \in Keys |-> 0]
  /\ in = [h \in Handlers |-> Idle]
  /\ op = [o \in Operators |-> NoOne]
  /\ answered = {} /\ arrivals = 0 /\ requests = 0

-----------------------------------------------------------------------------
(* Saving the finding: ElasticsearchIncidentRepository.save_finding.       *)

Go(h, step) == in' = [in EXCEPT ![h].pc = step]
Stored(h) == register[FindingOf[in[h].rep]]

\* Defect: after the last attempt the report is answered all the same.
LoseRaceSwallowed(h, again) ==
  in' = [in EXCEPT ![h].pc = IF in[h].lost + 1 = MaxAttempts THEN "answer" ELSE again,
                   ![h].lost = IF @ + 1 = MaxAttempts THEN 0 ELSE @ + 1]

\* A lost race: once more, or VersionConflict after the last attempt.
LoseRace(h, again) ==
  in' = IF in[h].lost + 1 = MaxAttempts THEN [in EXCEPT ![h] = Idle]
        ELSE [in EXCEPT ![h].pc = again, ![h].lost = @ + 1]

\* A report arrives, for the first time or again.
Report(h, r) ==
  /\ in[h].pc = "idle"
  /\ arrivals < MaxArrivals /\ arrivals' = arrivals + 1
  /\ in' = [in EXCEPT ![h] = [Idle EXCEPT !.pc = "get", !.rep = r]]
  /\ UNCHANGED <<register, answered, incident, workbench>>

\* The stored finding is newer than the report, or it is the report's.
Superseded(stored, r) ==
  stored # <<>> /\ LET s == stored[Len(stored)]
                   IN ObservedAt[r] < ObservedAt[s] \/ s = r

\* Read the stored finding and decide whether there is anything to write.
GetFinding(h) ==
  /\ in[h].pc = "get"
  /\ IF Superseded(Stored(h), in[h].rep)
     THEN in' = [in EXCEPT ![h].pc = "search", ![h].lost = 0]
     ELSE in' = [in EXCEPT ![h].pc = "save", ![h].seq = Len(Stored(h))]
  /\ UNCHANGED <<register, answered, arrivals, incident, workbench>>

\* The finding read is still the stored one.
SaveUnraced(h) == Len(Stored(h)) = in[h].seq

\* Create the finding or replace the one read; a conflict starts over.
SaveFinding(h) ==
  /\ in[h].pc = "save"
  /\ IF SaveUnraced(h)
     THEN /\ register' = [register EXCEPT ![FindingOf[in[h].rep]] = Append(@, in[h].rep)]
          /\ in' = [in EXCEPT ![h].pc = "search", ![h].lost = 0, ![h].seq = 0]
     ELSE /\ LoseRace(h, "get")
          /\ UNCHANGED register
  /\ UNCHANGED <<answered, arrivals, incident, workbench>>

-----------------------------------------------------------------------------
(* Merging it: IncidentManagerService.ingest.                              *)

\* Defect: the observation that comes last is taken for the latest.
NewerAlways(d, r) == TRUE
\* decide_finding_merge.
Newer(d, r) == ObservedAt[r] > d.last
Enriches(d, r) ==
  \/ Newer(d, r)
  \/ EvidenceOf[r] # 0 /\ d.evidence = 0
  \/ ObservedAt[r] = d.last /\ EvidenceOf[r] > d.evidence
IsNew(d, r) == FindingOf[r] \notin d.found
Merge(d, r) ==
  [d EXCEPT !.found = @ \cup {FindingOf[r]},
            !.count = IF IsNew(d, r) THEN @ + 1 ELSE @,
            !.assets = @ \cup AssetsOf[r],
            !.last = IF Newer(d, r) THEN ObservedAt[r] ELSE @,
            !.evidence = IF Enriches(d, r) THEN EvidenceOf[r] ELSE @,
            !.graded = IF IsNew(d, r) \/ Enriches(d, r) THEN r ELSE @]

\* The incident a first report creates.
Create(r) == [found |-> {FindingOf[r]}, count |-> 1, last |-> ObservedAt[r],
              evidence |-> EvidenceOf[r], assets |-> AssetsOf[r],
              graded |-> r, state |-> "open"]

\* find_incident_by_dedup: the version the search shows, and the decision.
Search(h) ==
  /\ in[h].pc = "search"
  /\ in' = [in EXCEPT ![h].seq = shown,
                      ![h].pc = IF shown # 0 /\ Merge(Doc(shown), in[h].rep) = Doc(shown)
                                THEN "answer" ELSE "write"]
  /\ UNCHANGED <<register, answered, arrivals, incident, workbench>>

\* The version read is the current one (op_type=create: there is none).
Unraced(seq) == SeqNo = seq
Write(by, d) == log' = Append(log, [by |-> by, doc |-> d])

\* create_incident or update_incident, both with refresh=wait_for.
WriteIncident(h) ==
  LET r == in[h].rep IN
  /\ in[h].pc = "write"
  /\ IF Unraced(in[h].seq)
     THEN /\ Write(r, IF in[h].seq = 0 THEN Create(r) ELSE Merge(Doc(in[h].seq), r))
          /\ in' = [in EXCEPT ![h].pc = "refresh", ![h].seq = SeqNo + 1]
     ELSE /\ LoseRace(h, "search")
          /\ UNCHANGED log
  /\ UNCHANGED <<register, answered, arrivals, shown, workbench>>

\* The index is refreshed, by its interval or for a writer that waits.
Refresh ==
  /\ shown # SeqNo
  /\ shown' = SeqNo
  /\ UNCHANGED <<log, workbench, ingest>>

Refreshed(h) ==
  /\ in[h].pc = "refresh" /\ shown >= in[h].seq
  /\ Go(h, "answer")
  /\ UNCHANGED <<register, answered, arrivals, incident, workbench>>

\* The correlation runtime has processed the incident or deferred it, which
\* changes neither document (module IncidentCorrelation), and ingest returns.
Answer(h) ==
  /\ in[h].pc = "answer"
  /\ answered' = answered \cup {in[h].rep}
  /\ in' = [in EXCEPT ![h] = Idle]
  /\ UNCHANGED <<register, arrivals, incident, workbench>>

\* The process dies, or Elasticsearch fails: the client learns nothing.
Crash(h) ==
  /\ in[h].pc # "idle"
  /\ in' = [in EXCEPT ![h] = Idle]
  /\ UNCHANGED <<register, answered, arrivals, incident, workbench>>

-----------------------------------------------------------------------------
(* Operators' changes: IncidentWorkbenchService.mutate, and the routes     *)
(* that change an incident without a key.                                  *)

LegalTransitions ==
  [s \in States |->
    CASE s = "open" -> {"acknowledged", "resolved", "suppressed"}
      [] s = "acknowledged" -> {"investigating", "resolved", "suppressed"}
      [] s = "investigating" -> {"mitigating", "waiting_for_approval",
                                 "monitoring_recovery", "suppressed"}
      [] s = "mitigating" -> {"waiting_for_approval", "monitoring_recovery", "investigating"}
      [] s = "waiting_for_approval" -> {"mitigating", "investigating"}
      [] s = "monitoring_recovery" -> {"resolved", "investigating"}
      [] s = "resolved" -> {"closed", "reopened"}
      [] s = "reopened" -> {"investigating", "acknowledged"}
      [] s = "suppressed" -> {"open", "reopened"}
      [] s = "closed" -> {"reopened"}]

Step(o, step) == op' = [op EXCEPT ![o].pc = step]
Return(o) == op' = [op EXCEPT ![o] = NoOne]

\* A change is asked for with a key and the revision of a version its client
\* has read.
Ask(o, k, n) ==
  /\ op[o].pc = "idle" /\ n \in 1..SeqNo
  /\ requests < MaxRequests /\ requests' = requests + 1
  /\ op' = [op EXCEPT ![o] = [pc |-> "look", key |-> k, change |-> ChangeOf[k],
                              rev |-> n, seq |-> 0]]
  /\ UNCHANGED <<ops, events, incident, ingest>>

\* ... or without: /acknowledge, /suppress and the others, and /assign.
AskDirectly(o, c) ==
  /\ op[o].pc = "idle" /\ c \in Direct /\ SeqNo # 0
  /\ requests < MaxRequests /\ requests' = requests + 1
  /\ op' = [op EXCEPT ![o] = [NoOne EXCEPT !.pc = "read", !.change = c]]
  /\ UNCHANGED <<ops, events, incident, ingest>>

\* get_operation: a key used for another request is refused, one that is
\* recorded only has its event appended.
LookUp(o) ==
  LET found == ops[op[o].key] IN
  /\ op[o].pc = "look"
  /\ \/ found.rev = 0 /\ Step(o, "read")
     \/ found.rev # 0 /\ found.rev # op[o].rev /\ Return(o)
     \/ found.rev # 0 /\ found.rev = op[o].rev
        /\ op' = [op EXCEPT ![o].pc = "append", ![o].seq = found.at]
  /\ UNCHANGED <<ops, events, requests, incident, ingest>>

\* Defect: the client's revision is not compared.
RevisionUnchecked(o) == TRUE
\* The client's revision is still the incident's.
RevisionIsCurrent(o) == op[o].key = Nobody \/ op[o].rev = SeqNo
\* Defect: any other state may follow.
LegalIfOther(d, c) == c # d.state
\* transition: the table is consulted for a change of state.
Legal(d, c) == c \in {"assign", "comment"} \/ c \in LegalTransitions[d.state]

\* get_incident (a realtime get) and what is judged on it; a comment changes
\* nothing but the timeline.
Read(o) ==
  /\ op[o].pc = "read"
  /\ IF RevisionIsCurrent(o) /\ Legal(Doc(SeqNo), op[o].change)
     THEN op' = [op EXCEPT ![o].seq = SeqNo,
                           ![o].pc = IF op[o].change = "comment" THEN "record" ELSE "update"]
     ELSE Return(o)
  /\ UNCHANGED <<ops, events, requests, incident, ingest>>

\* update_incident; a conflict is not retried.
Changed(d, c) == IF c = "assign" THEN d ELSE [d EXCEPT !.state = c]
Update(o) ==
  /\ op[o].pc = "update"
  /\ IF Unraced(op[o].seq)
     THEN /\ Write(op[o].key, Changed(Doc(op[o].seq), op[o].change))
          /\ IF op[o].key = Nobody THEN Return(o)
             ELSE op' = [op EXCEPT ![o].pc = "record", ![o].seq = SeqNo + 1]
     ELSE Return(o) /\ UNCHANGED log
  /\ UNCHANGED <<shown, ops, events, requests, ingest>>

\* save_operation: create-only, and an earlier record must be the same.
Record(o) ==
  LET k == op[o].key IN
  /\ op[o].pc = "record"
  /\ \/ /\ ops[k].rev = 0
        /\ ops' = [ops EXCEPT ![k] = [rev |-> op[o].rev, at |-> op[o].seq]]
        /\ Step(o, "append")
     \/ /\ ops[k].rev # 0 /\ UNCHANGED ops
        /\ IF ops[k].rev = op[o].rev THEN Step(o, "append") ELSE Return(o)
  /\ UNCHANGED <<events, requests, incident, ingest>>

\* append_event: create-only; then the answer.
AppendEvent(o) ==
  /\ op[o].pc = "append"
  /\ events' = [events EXCEPT ![op[o].key] = IF @ = 0 THEN op[o].seq ELSE @]
  /\ Return(o)
  /\ UNCHANGED <<ops, requests, incident, ingest>>

CrashOperator(o) ==
  /\ op[o].pc # "idle"
  /\ Return(o)
  /\ UNCHANGED <<ops, events, requests, incident, ingest>>

-----------------------------------------------------------------------------
HandlerStep(h) ==
  \/ \E r \in Reports : Report(h, r)
  \/ GetFinding(h) \/ SaveFinding(h) \/ Search(h) \/ WriteIncident(h)
  \/ Refreshed(h) \/ Answer(h) \/ Crash(h)
OperatorStep(o) ==
  \/ \E k \in Keys, n \in 1..SeqNo : Ask(o, k, n)
  \/ \E c \in Direct : AskDirectly(o, c)
  \/ LookUp(o) \/ Read(o) \/ Update(o) \/ Record(o) \/ AppendEvent(o)
  \/ CrashOperator(o)
Next ==
  \/ \E h \in Handlers : HandlerStep(h)
  \/ \E o \in Operators : OperatorStep(o)
  \/ Refresh
Spec == Init /\ [][Next]_vars

-----------------------------------------------------------------------------
\* Reports that were written into the incident.
Merged == {log[n].by : n \in 1..SeqNo} \cap Reports

\* Whatever the races between reports, replays and operators, the incident
\* is the union of the reports written into it: each finding counts as one
\* occurrence, no asset is lost, and last_observed_at is the latest.
ProjectionIsComplete ==
  SeqNo # 0 =>
    LET d == Doc(SeqNo) IN
    /\ d.found = {FindingOf[r] : r \in Merged}
    /\ d.count = Cardinality(d.found)
    /\ d.assets = UNION {AssetsOf[r] : r \in Merged}
    /\ \A r \in Merged : ObservedAt[r] <= d.last
    /\ \E r \in Merged : ObservedAt[r] = d.last

\* A report whose client was told that it is ingested is in the incident for
\* good: its finding, its assets, and an observation time no earlier.  This
\* covers the reports answered without a write, on what a search showed.
\* The stored finding, a register in which newer observations win
\* (save_finding), is never older than the report either.
AnsweredIsMerged ==
  \A r \in answered :
    /\ SeqNo # 0
    /\ FindingOf[r] \in Doc(SeqNo).found
    /\ AssetsOf[r] \subseteq Doc(SeqNo).assets
    /\ ObservedAt[r] <= Doc(SeqNo).last
    /\ LET stored == register[FindingOf[r]]
       IN stored # <<>> /\ ObservedAt[r] <= ObservedAt[stored[Len(stored)]]

\* Each version's lifecycle state follows from the version before by a legal
\* transition, and ingestion never moves it: a report merged into an older
\* copy cannot reopen a resolved incident.
HistoryIsLegal ==
  \A n \in 2..SeqNo :
    Doc(n).state # Doc(n - 1).state =>
      /\ log[n].by \notin Reports
      /\ Doc(n).state \in LegalTransitions[Doc(n - 1).state]

\* A recorded operation is the write that came right after the revision its
\* client had seen, and its timeline event names that write: nobody's change
\* slipped in between, and no event tells of a change that was not made.
TimelineIsTrue ==
  \A k \in Keys :
    /\ ops[k].rev # 0 /\ ChangeOf[k] # "comment" =>
         /\ ops[k].at = ops[k].rev + 1 /\ ops[k].at <= SeqNo
         /\ log[ops[k].at].by = k
    /\ events[k] # 0 => ops[k].rev # 0 /\ events[k] = ops[k].at
=============================================================================
