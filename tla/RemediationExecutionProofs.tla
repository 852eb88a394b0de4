--------------------- MODULE RemediationExecutionProofs ---------------------
(***************************************************************************)
(* Theorems about RemediationExecution, for every set of executions and    *)
(* processes and every bound.                                              *)
(***************************************************************************)
EXTENDS RemediationExecution, TLAPS

(* The first inductive layer: types, what each step knows of its copy, and  *)
(* the retry budget that a queued or claimed document still has.            *)

Incomplete == {"claimed", "running", "reconciliation_required"}

\* What a process at step s knows of its copy d and of the outcome o.
Knows(s, d, o) ==
  /\ s \in {"polled", "recovering"} => d.token < MaxToken
  /\ s = "polled" => d.state = "queued"
  /\ s = "claimed" => d.state = "claimed"
  /\ s \in {"started", "executed"} => d.state = "running"
  /\ s \in {"recovering", "taken_over"} => d.state \in Incomplete
  /\ s = "looked_up" => d.state \in Incomplete \ {"claimed"} /\ o \in Lookups
  /\ s = "executed" => o \in Outcomes
  /\ s = "verifying" => d.state = "verification_pending"

HasBudget(d) == d.state \in {"queued", "claimed"} => d.attempt < MaxAttempts

StoreType ==
  /\ doc \in [Executions -> Document]
  /\ events \subseteq [id : Executions, stream : Streams, event : EventIds]
  /\ calls \in [Executions -> Nat]
  /\ accepted \in [Executions -> Nat]
  /\ promised \subseteq [id : Executions, stream : Streams, event : EventIds]
  /\ clobbered \subseteq Executions
  /\ crashes \in 0..MaxCrashes
  /\ \A e \in Executions : HasBudget(doc[e])

LocalType ==
  /\ pc \in [Procs -> Steps]
  /\ job \in [Procs -> Executions \cup {NoExecution}]
  /\ copy \in [Procs -> Document \cup {NoDocument}]
  /\ outcome \in [Procs -> Outcomes \cup Lookups \cup {"none"}]
  /\ \A p \in Procs : pc[p] \notin {"idle", "dead"} =>
       /\ job[p] \in Executions /\ copy[p] \in Document
       /\ HasBudget(copy[p]) /\ Knows(pc[p], copy[p], outcome[p])

TypeInv == StoreType /\ LocalType

-----------------------------------------------------------------------------
(* The documents that the actions write are documents.                     *)

LEMMA DocumentFields ==
  ASSUME NEW d \in Document
  PROVE  /\ d.state \in ExecutionState /\ d.token \in 0..MaxToken
         /\ d.attempt \in 0..MaxAttempts /\ d.lease \in BOOLEAN
         /\ d.pending \in BOOLEAN /\ d.event \in EventIds
  BY DEF Document

LEMMA ClaimedType ==
  ASSUME NEW d \in Document, d.token < MaxToken, d.state = "queued", HasBudget(d)
  PROVE  /\ ClaimedDocument(d) \in Document
         /\ ClaimedDocument(d).state = "claimed"
         /\ HasBudget(ClaimedDocument(d))
  <1> DEFINE t == d.token + 1
  <1>1. t \in 0..MaxToken
    BY ExecutionAssumption DEF Document
  <1> HIDE DEF t
  <1>2. [d EXCEPT !.state = "claimed", !.token = t, !.lease = TRUE] \in Document
    BY <1>1 DEF Document, ExecutionState
  <1>3. [d EXCEPT !.state = "claimed", !.token = t, !.lease = TRUE].state = "claimed"
    BY DEF Document
  <1>4. HasBudget([d EXCEPT !.state = "claimed", !.token = t, !.lease = TRUE])
    BY DEF Document, HasBudget
  <1>5. QED
    BY <1>2, <1>3, <1>4 DEF ClaimedDocument, t

LEMMA StartedType ==
  ASSUME NEW d \in Document, d.state = "claimed", HasBudget(d)
  PROVE  /\ StartedDocument(d) \in Document
         /\ StartedDocument(d).state = "running"
         /\ HasBudget(StartedDocument(d))
  <1> DEFINE a == d.attempt + 1
  <1>1. a \in 0..MaxAttempts
    BY ExecutionAssumption DEF Document, HasBudget
  <1> HIDE DEF a
  <1>2. [d EXCEPT !.state = "running", !.attempt = a] \in Document
    BY <1>1 DEF Document, ExecutionState
  <1>3. [d EXCEPT !.state = "running", !.attempt = a].state = "running"
    BY DEF Document
  <1>4. HasBudget([d EXCEPT !.state = "running", !.attempt = a])
    BY <1>3 DEF HasBudget
  <1>5. QED
    BY <1>2, <1>3, <1>4 DEF StartedDocument, a

LEMMA NextStateType ==
  ASSUME NEW d \in Document, NEW o \in Outcomes
  PROVE  /\ NextState(d, o) \in {"verification_pending", "queued",
                                 "reconciliation_required", "failed"}
         /\ NextState(d, o) = "queued" => d.attempt < MaxAttempts
         /\ NextState(d, o) = "queued" => o \in Retryable
         /\ NextState(d, o) = "verification_pending" => o = "accepted"
         /\ NextState(d, o) = "failed" => o \in Retryable \cup {"rejected", "non_retryable"}
  BY DEF NextState, Outcomes, Returned, Retryable, Uncertain

LEMMA RecordedType ==
  ASSUME NEW d \in Document, NEW o \in Outcomes
  PROVE  /\ RecordedDocument(d, o) \in Document
         /\ HasBudget(RecordedDocument(d, o))
  <1> DEFINE s == NextState(d, o)
  <1>1. s \in {"verification_pending", "queued", "reconciliation_required", "failed"}
        /\ (s = "queued" => d.attempt < MaxAttempts)
    BY NextStateType
  <1>2. [kind |-> s, attempt |-> d.attempt] \in EventIds
    BY <1>1 DEF EventIds, ExecutionState, Document
  <1>3. ((s # "queued") /\ d.lease) \in BOOLEAN
    OBVIOUS
  <1> HIDE DEF s
  <1>4. [d EXCEPT !.state = s, !.lease = (s # "queued") /\ d.lease, !.pending = TRUE,
                  !.event = [kind |-> s, attempt |-> d.attempt]] \in Document
    BY <1>1, <1>2, <1>3 DEF Document, ExecutionState
  <1>5. HasBudget([d EXCEPT !.state = s, !.lease = (s # "queued") /\ d.lease,
                  !.pending = TRUE, !.event = [kind |-> s, attempt |-> d.attempt]])
    BY <1>1, <1>2, <1>3 DEF Document, HasBudget
  <1>6. QED
    BY <1>4, <1>5 DEF RecordedDocument, s

LEMMA VerifiedType ==
  ASSUME NEW d \in Document, NEW verdict \in Verdicts
  PROVE  /\ VerifiedDocument(d, verdict) \in Document
         /\ HasBudget(VerifiedDocument(d, verdict))
  <1> DEFINE ev == [kind |-> verdict, attempt |-> 0]
  <1>1. ev \in EventIds /\ verdict \in ExecutionState
        /\ verdict \notin {"queued", "claimed"}
    BY ExecutionAssumption DEF EventIds, ExecutionState, Verdicts
  <1> HIDE DEF ev
  <1>2. [d EXCEPT !.state = verdict, !.pending = TRUE, !.event = ev] \in Document
    BY <1>1 DEF Document
  <1>3. [d EXCEPT !.state = verdict, !.pending = TRUE, !.event = ev].state = verdict
    BY DEF Document
  <1>4. HasBudget([d EXCEPT !.state = verdict, !.pending = TRUE, !.event = ev])
    BY <1>1, <1>3 DEF HasBudget
  <1>5. QED
    BY <1>2, <1>4 DEF VerifiedDocument, ev

LEMMA TakenOverType ==
  ASSUME NEW d \in Document, d.token < MaxToken, HasBudget(d)
  PROVE  /\ TakenOverDocument(d) \in Document
         /\ TakenOverDocument(d).state = d.state
         /\ HasBudget(TakenOverDocument(d))
  <1> DEFINE t == d.token + 1
  <1>1. t \in 0..MaxToken
    BY ExecutionAssumption DEF Document
  <1> HIDE DEF t
  <1>2. [d EXCEPT !.token = t, !.lease = TRUE] \in Document
    BY <1>1 DEF Document
  <1>3. /\ [d EXCEPT !.token = t, !.lease = TRUE].state = d.state
        /\ [d EXCEPT !.token = t, !.lease = TRUE].attempt = d.attempt
    BY DEF Document
  <1>4. HasBudget([d EXCEPT !.token = t, !.lease = TRUE])
    BY <1>3 DEF HasBudget
  <1>5. QED
    BY <1>2, <1>3, <1>4 DEF TakenOverDocument, t

LEMMA QueuedType == Queued \in Document /\ HasBudget(Queued)
  BY ExecutionAssumption DEF Document, Queued, HasBudget, ExecutionState, EventIds, NoEvent

-----------------------------------------------------------------------------
(* A step of process p that leaves it at step s with job j, copy d and      *)
(* outcome o.                                                               *)

Moves(p, s, j, d, o) ==
  /\ pc' = [pc EXCEPT ![p] = s]
  /\ job' = [job EXCEPT ![p] = j]
  /\ copy' = [copy EXCEPT ![p] = d]
  /\ outcome' = [outcome EXCEPT ![p] = o]

LEMMA MoveType ==
  ASSUME LocalType, NEW p \in Procs, NEW s \in Steps, NEW j \in Executions,
         NEW d \in Document, NEW o \in Outcomes \cup Lookups \cup {"none"},
         HasBudget(d), Knows(s, d, o), Moves(p, s, j, d, o)
  PROVE  LocalType'
  BY DEF LocalType, Moves

LEMMA LeaveType ==
  ASSUME LocalType, NEW p \in Procs, NEW s \in {"idle", "dead"}, Leave(p, s)
  PROVE  LocalType'
  BY DEF LocalType, Leave, Steps

LEMMA GotoMoves ==
  ASSUME LocalType, NEW p \in Procs, NEW s, NEW d, Goto(p, s, d), UNCHANGED outcome
  PROVE  Moves(p, s, job[p], d, outcome[p])
  BY DEF LocalType, Goto, Moves

\* A durable write of document d.
LEMMA UpdateType ==
  ASSUME StoreType, NEW p \in Procs, job[p] \in Executions, NEW d \in Document,
         HasBudget(d), Update(p, d)
  PROVE  /\ doc' \in [Executions -> Document] /\ clobbered' \subseteq Executions
         /\ \A e \in Executions : HasBudget(doc'[e])
  BY DEF StoreType, Update

\* The event of a document can be appended and promised.
LEMMA EventType ==
  ASSUME StoreType, NEW p \in Procs, job[p] \in Executions, NEW st \in Streams,
         NEW d \in Document
  PROVE  /\ Promise(p, st, d) =>
              promised' \subseteq [id : Executions, stream : Streams, event : EventIds]
         /\ copy[p] = d /\ Append(p, st) =>
              events' \subseteq [id : Executions, stream : Streams, event : EventIds]
  BY DEF StoreType, Promise, Append, Document

LEMMA StateChangeType ==
  ASSUME NEW d \in Document, NEW st \in ExecutionState \ {"queued", "claimed"}
  PROVE  /\ [d EXCEPT !.state = st] \in Document
         /\ HasBudget([d EXCEPT !.state = st])
  BY DEF Document, HasBudget, ExecutionState

LEMMA RequeueType ==
  ASSUME NEW d \in Document, d.state = "claimed", HasBudget(d)
  PROVE  /\ [d EXCEPT !.state = "queued", !.lease = FALSE] \in Document
         /\ HasBudget([d EXCEPT !.state = "queued", !.lease = FALSE])
  BY DEF Document, HasBudget, ExecutionState

LEMMA ClearType ==
  ASSUME NEW d \in Document, HasBudget(d)
  PROVE  /\ [d EXCEPT !.pending = FALSE] \in Document
         /\ HasBudget([d EXCEPT !.pending = FALSE])
  BY DEF Document, HasBudget

\* A process that is not idle holds an execution and a document.
LEMMA Holds ==
  ASSUME TypeInv, NEW p \in Procs, pc[p] \notin {"idle", "dead"}
  PROVE  /\ job[p] \in Executions /\ copy[p] \in Document /\ HasBudget(copy[p])
         /\ Knows(pc[p], copy[p], outcome[p])
         /\ outcome[p] \in Outcomes \cup Lookups \cup {"none"}
  BY DEF TypeInv, LocalType

-----------------------------------------------------------------------------
(* The steps of the type invariant, one lemma per action.                  *)

LEMMA LoadTypeInv ==
  ASSUME TypeInv, NEW p \in Procs, NEW e \in Executions, NEW s \in Steps,
         Load(p, e, s), \A o \in Outcomes \cup Lookups \cup {"none"} : Knows(s, doc[e], o)
  PROVE  TypeInv'
  <1>1. StoreType'
    BY DEF TypeInv, StoreType, Load, store, provider
  <1>2. doc[e] \in Document /\ HasBudget(doc[e])
        /\ outcome[p] \in Outcomes \cup Lookups \cup {"none"}
    BY DEF TypeInv, StoreType, LocalType
  <1>3. Moves(p, s, e, doc[e], outcome[p])
    BY DEF Load, Moves, TypeInv, LocalType
  <1>4. LocalType'
    BY <1>2, <1>3, MoveType DEF TypeInv
  <1>5. QED
    BY <1>1, <1>4 DEF TypeInv

LEMMA ReadTypeInv ==
  ASSUME TypeInv, NEW p \in Procs, NEW e \in Executions,
         PollQueued(p, e) \/ VerifyRead(p, e) \/ RepairRead(p, e) \/ RecoverRead(p, e)
  PROVE  TypeInv'
  <1>1. CASE PollQueued(p, e)
    BY <1>1, LoadTypeInv DEF PollQueued, Knows, Steps
  <1>2. CASE VerifyRead(p, e)
    BY <1>2, LoadTypeInv DEF VerifyRead, Knows, Steps
  <1>3. CASE RepairRead(p, e)
    BY <1>3, LoadTypeInv DEF RepairRead, Knows, Steps
  <1>4. CASE RecoverRead(p, e)
    BY <1>4, LoadTypeInv DEF RecoverRead, Knows, Steps, Incomplete
  <1>5. QED
    BY <1>1, <1>2, <1>3, <1>4

\* A write after which the process goes on, and one after which it is done.
LEMMA WriteGotoTypeInv ==
  ASSUME TypeInv, NEW p \in Procs, NEW s \in Steps, NEW d \in Document,
         pc[p] \notin {"idle", "dead"}, HasBudget(d), Knows(s, d, outcome[p]),
         Update(p, d), Goto(p, s, d),
         promised' \subseteq [id : Executions, stream : Streams, event : EventIds],
         UNCHANGED <<events, provider, outcome, crashes>>
  PROVE  TypeInv'
  <1>1. StoreType'
    BY Holds, UpdateType DEF TypeInv, StoreType, provider
  <1>2. Moves(p, s, job[p], d, outcome[p])
    BY GotoMoves DEF TypeInv
  <1>3. LocalType'
    BY <1>2, Holds, MoveType DEF TypeInv
  <1>4. QED
    BY <1>1, <1>3 DEF TypeInv

LEMMA WriteLeaveTypeInv ==
  ASSUME TypeInv, NEW p \in Procs, NEW d \in Document,
         pc[p] \notin {"idle", "dead"}, HasBudget(d),
         Update(p, d), Leave(p, "idle"),
         UNCHANGED <<events, promised, provider, crashes>>
  PROVE  TypeInv'
  <1>1. StoreType'
    BY Holds, UpdateType DEF TypeInv, StoreType, provider
  <1>2. LocalType'
    BY LeaveType DEF TypeInv
  <1>3. QED
    BY <1>1, <1>2 DEF TypeInv

LEMMA LeaveTypeInv ==
  ASSUME TypeInv, NEW p \in Procs, NEW s \in {"idle", "dead"}, Leave(p, s),
         crashes' \in 0..MaxCrashes, UNCHANGED <<store, provider>>
  PROVE  TypeInv'
  BY LeaveType DEF TypeInv, StoreType, store, provider

LEMMA ClaimTypeInv ==
  ASSUME TypeInv, NEW p \in Procs, Claim(p)
  PROVE  TypeInv'
  <1>1. /\ copy[p] \in Document /\ copy[p].token < MaxToken
        /\ copy[p].state = "queued" /\ HasBudget(copy[p])
    BY Holds DEF Claim, Knows
  <1>2. promised' \subseteq [id : Executions, stream : Streams, event : EventIds]
    BY DEF Claim, TypeInv, StoreType
  <1>3. QED
    BY <1>1, <1>2, ClaimedType, WriteGotoTypeInv DEF Claim, Knows, Steps

LEMMA FailUnconfiguredTypeInv ==
  ASSUME TypeInv, NEW p \in Procs, FailUnconfigured(p)
  PROVE  TypeInv'
  <1>1. copy[p] \in Document
    BY Holds DEF FailUnconfigured
  <1>2. QED
    BY <1>1, StateChangeType, WriteLeaveTypeInv DEF FailUnconfigured, ExecutionState

LEMMA StartTypeInv ==
  ASSUME TypeInv, NEW p \in Procs, Start(p)
  PROVE  TypeInv'
  <1>1. copy[p] \in Document /\ copy[p].state = "claimed" /\ HasBudget(copy[p])
    BY Holds DEF Start, Knows
  <1>2. promised' \subseteq [id : Executions, stream : Streams, event : EventIds]
    BY DEF Start, TypeInv, StoreType
  <1>3. QED
    BY <1>1, <1>2, StartedType, WriteGotoTypeInv DEF Start, Knows, Steps

LEMMA EffectType == ASSUME NEW o PROVE Effect(o) \subseteq {0, 1}
  BY DEF Effect

LEMMA ExecuteTypeInv ==
  ASSUME TypeInv, NEW p \in Procs, Execute(p)
  PROVE  TypeInv'
  <1>1. /\ job[p] \in Executions /\ copy[p] \in Document
        /\ HasBudget(copy[p]) /\ copy[p].state = "running"
    BY Holds DEF Execute, Knows
  <1>2. PICK o \in Outcomes : \E n \in Effect(o) :
          /\ outcome' = [outcome EXCEPT ![p] = o]
          /\ calls' = [calls EXCEPT ![job[p]] = @ + 1]
          /\ accepted' = [accepted EXCEPT ![job[p]] = @ + n]
    BY DEF Execute
  <1>3. PICK n \in {0, 1} :
          /\ outcome' = [outcome EXCEPT ![p] = o]
          /\ calls' = [calls EXCEPT ![job[p]] = @ + 1]
          /\ accepted' = [accepted EXCEPT ![job[p]] = @ + n]
    BY <1>2, EffectType
  <1>4. StoreType'
    BY <1>1, <1>3 DEF TypeInv, StoreType, Execute, store
  <1>5. Moves(p, "executed", job[p], copy[p], o)
    BY <1>3 DEF Execute, Goto, Moves, TypeInv, LocalType
  <1>6. LocalType'
    BY <1>1, <1>5, MoveType DEF TypeInv, Knows, Steps
  <1>7. QED
    BY <1>4, <1>6 DEF TypeInv

LEMMA RecordOutcomeTypeInv ==
  ASSUME TypeInv, NEW p \in Procs, RecordOutcome(p)
  PROVE  TypeInv'
  <1> DEFINE d == RecordedDocument(copy[p], outcome[p])
  <1>1. job[p] \in Executions /\ copy[p] \in Document /\ outcome[p] \in Outcomes
    BY Holds DEF RecordOutcome, Knows
  <1>2. d \in Document /\ HasBudget(d)
    BY <1>1, RecordedType
  <1>3. /\ Update(p, d) /\ Promise(p, "remediation_action", d) /\ Goto(p, "recorded", d)
        /\ UNCHANGED <<events, provider, outcome, crashes>> /\ pc[p] = "executed"
    BY DEF RecordOutcome
  <1> HIDE DEF d
  <1>4. promised' \subseteq [id : Executions, stream : Streams, event : EventIds]
    BY <1>1, <1>2, <1>3, EventType DEF TypeInv, Streams
  <1>5. QED
    BY <1>2, <1>3, <1>4, WriteGotoTypeInv DEF Knows, Steps

LEMMA VerifyRecordTypeInv ==
  ASSUME TypeInv, NEW p \in Procs, VerifyRecord(p)
  PROVE  TypeInv'
  <1>1. job[p] \in Executions /\ copy[p] \in Document
    BY Holds DEF VerifyRecord
  <1>2. PICK verdict \in Verdicts :
          /\ Update(p, VerifiedDocument(copy[p], verdict))
          /\ Promise(p, "verification_event", VerifiedDocument(copy[p], verdict))
          /\ Goto(p, "recorded", VerifiedDocument(copy[p], verdict))
    BY DEF VerifyRecord
  <1> DEFINE d == VerifiedDocument(copy[p], verdict)
  <1>3. d \in Document /\ HasBudget(d)
    BY <1>1, VerifiedType
  <1>4. /\ Update(p, d) /\ Promise(p, "verification_event", d) /\ Goto(p, "recorded", d)
        /\ UNCHANGED <<events, provider, outcome, crashes>> /\ pc[p] = "verifying"
    BY <1>2 DEF VerifyRecord
  <1> HIDE DEF d
  <1>5. promised' \subseteq [id : Executions, stream : Streams, event : EventIds]
    BY <1>1, <1>3, <1>4, EventType DEF TypeInv, Streams
  <1>6. QED
    BY <1>3, <1>4, <1>5, WriteGotoTypeInv DEF Knows, Steps

LEMMA AppendTypeInv ==
  ASSUME TypeInv, NEW p \in Procs, AppendEvent(p) \/ RepairAppend(p)
  PROVE  TypeInv'
  <1>1. job[p] \in Executions /\ copy[p] \in Document /\ HasBudget(copy[p])
        /\ outcome[p] \in Outcomes \cup Lookups \cup {"none"}
    BY Holds DEF AppendEvent, RepairAppend
  <1>2. events' \subseteq [id : Executions, stream : Streams, event : EventIds]
    BY <1>1, EventType DEF AppendEvent, RepairAppend, TypeInv, Streams, StreamOf
  <1>3. StoreType'
    BY <1>2 DEF AppendEvent, RepairAppend, TypeInv, StoreType, provider
  <1>4. \E s \in {"appended", "repaired"} : Moves(p, s, job[p], copy[p], outcome[p])
    BY GotoMoves DEF AppendEvent, RepairAppend, TypeInv
  <1>5. LocalType'
    BY <1>1, <1>4, MoveType DEF TypeInv, Knows, Steps
  <1>6. QED
    BY <1>3, <1>5 DEF TypeInv

LEMMA ClearPendingTypeInv ==
  ASSUME TypeInv, NEW p \in Procs, ClearPending(p)
  PROVE  TypeInv'
  <1>1. copy[p] \in Document /\ HasBudget(copy[p])
    BY Holds DEF ClearPending
  <1>2. QED
    BY <1>1, ClearType, WriteLeaveTypeInv DEF ClearPending

LEMMA TakeOverTypeInv ==
  ASSUME TypeInv, NEW p \in Procs, TakeOver(p)
  PROVE  TypeInv'
  <1>1. /\ copy[p] \in Document /\ copy[p].token < MaxToken
        /\ copy[p].state \in Incomplete /\ HasBudget(copy[p])
    BY Holds DEF TakeOver, Knows
  <1>2. promised' \subseteq [id : Executions, stream : Streams, event : EventIds]
    BY DEF TakeOver, TypeInv, StoreType
  <1>3. QED
    BY <1>1, <1>2, TakenOverType, WriteGotoTypeInv DEF TakeOver, Knows, Steps

LEMMA LookupTypeInv ==
  ASSUME TypeInv, NEW p \in Procs, Lookup(p)
  PROVE  TypeInv'
  <1>1. /\ job[p] \in Executions /\ copy[p] \in Document /\ HasBudget(copy[p])
        /\ copy[p].state \in Incomplete \ {"claimed"}
    BY Holds DEF Lookup, Knows
  <1>2. PICK o \in Lookups : outcome' = [outcome EXCEPT ![p] = o]
    BY DEF Lookup, LookupAnswers, Lookups
  <1>3. StoreType'
    BY DEF Lookup, TypeInv, StoreType, store, provider
  <1>4. Moves(p, "looked_up", job[p], copy[p], o)
    BY <1>2 DEF Lookup, Goto, Moves, TypeInv, LocalType
  <1>5. LocalType'
    BY <1>1, <1>4, MoveType DEF TypeInv, Knows, Steps
  <1>6. QED
    BY <1>3, <1>5 DEF TypeInv

LEMMA RequeueClaimedTypeInv ==
  ASSUME TypeInv, NEW p \in Procs, RequeueClaimed(p)
  PROVE  TypeInv'
  <1>1. copy[p] \in Document /\ HasBudget(copy[p])
    BY Holds DEF RequeueClaimed
  <1>2. QED
    BY <1>1, RequeueType, WriteLeaveTypeInv DEF RequeueClaimed

LEMMA FinishRecoveryTypeInv ==
  ASSUME TypeInv, NEW p \in Procs, FinishRecovery(p)
  PROVE  TypeInv'
  <1>1. copy[p] \in Document
    BY Holds DEF FinishRecovery
  <1>2. RecoveredState(outcome[p]) \in ExecutionState \ {"queued", "claimed"}
    BY DEF RecoveredState, ExecutionState
  <1>3. QED
    BY <1>1, <1>2, StateChangeType, WriteLeaveTypeInv DEF FinishRecovery

LEMMA DropTypeInv ==
  ASSUME TypeInv, NEW p \in Procs,
         HeartbeatLost(p) \/ AppendFails(p) \/ FenceConflict(p) \/ Restart(p) \/ Crash(p)
  PROVE  TypeInv'
  <1>1. crashes \in 0..MaxCrashes
    BY DEF TypeInv, StoreType
  <1>2. CASE Crash(p)
    <2>1. crashes' \in 0..MaxCrashes
      BY <1>1, <1>2, ExecutionAssumption DEF Crash
    <2>2. QED
      BY <1>2, <2>1, LeaveTypeInv DEF Crash
  <1>3. CASE FenceConflict(p)
    BY <1>1, <1>3, LeaveTypeInv DEF FenceConflict
  <1>4. CASE HeartbeatLost(p) \/ AppendFails(p) \/ Restart(p)
    BY <1>1, <1>4, LeaveTypeInv DEF HeartbeatLost, AppendFails, Restart
  <1>5. QED
    BY <1>2, <1>3, <1>4

LEMMA InitTypeInv == Init => TypeInv
  BY QueuedType, ExecutionAssumption
     DEF Init, TypeInv, StoreType, LocalType, Steps

\* Every step of the specification is one of these, by some process.
ProcStep(p) ==
  \/ p \in Workers /\ \E e \in Executions : PollQueued(p, e)
  \/ \E e \in Executions : VerifyRead(p, e) \/ RepairRead(p, e) \/ RecoverRead(p, e)
  \/ WorkerStep(p) \/ VerifyRecord(p) \/ ReconcilerStep(p) \/ EvidenceStep(p)
  \/ FenceConflict(p) \/ Restart(p) \/ Crash(p)

LEMMA NextIsProcStep == Next => \E p \in Procs : ProcStep(p)
  BY DEF Next, ProcStep, Procs

LEMMA NextTypeInv == TypeInv /\ [Next]_vars => TypeInv'
  <1> SUFFICES ASSUME TypeInv, [Next]_vars PROVE TypeInv'
    OBVIOUS
  <1>1. CASE UNCHANGED vars
    BY <1>1 DEF TypeInv, StoreType, LocalType, vars, store, provider, local
  <1>2. CASE Next
    <2>1. PICK p \in Procs : ProcStep(p)
      BY <1>2, NextIsProcStep
    <2>2. QED
      BY <2>1, ReadTypeInv, ClaimTypeInv, FailUnconfiguredTypeInv, StartTypeInv,
         ExecuteTypeInv, RecordOutcomeTypeInv, VerifyRecordTypeInv, AppendTypeInv,
         ClearPendingTypeInv, TakeOverTypeInv, LookupTypeInv, RequeueClaimedTypeInv,
         FinishRecoveryTypeInv, DropTypeInv
         DEF ProcStep, WorkerStep, ReconcilerStep, EvidenceStep
  <1>3. QED
    BY <1>1, <1>2

LEMMA TypeInvAlways == Spec => []TypeInv
  BY InitTypeInv, NextTypeInv, PTL DEF Spec

\* Every reachable state is well typed: in particular no document counts more
\* attempts than max_attempts or carries a token nobody issued, however
\* claims, retries, takeovers and stale writes interleave.
THEOREM TypeCorrect == Spec => []TypeOK
  <1>1. TypeInv => TypeOK
    BY DEF TypeInv, StoreType, LocalType, TypeOK
  <1>2. QED
    BY <1>1, TypeInvAlways, PTL

-----------------------------------------------------------------------------
(* The second layer: an execution whose writes all started from the current *)
(* document.  While a process is at the provider, the document has left the *)
(* queue, no second process is there, and nothing has been carried out      *)
(* before the call.                                                         *)

AtProvider(p, e) == pc[p] \in {"started", "executed"} /\ job[p] = e

\* p's part in the history of e.
CleanProc(p, e) ==
  /\ pc[p] \notin {"idle", "dead"} /\ job[p] = e => copy[p].attempt <= doc[e].attempt
  /\ AtProvider(p, e) => doc[e].state \notin {"queued", "claimed"}
  /\ AtProvider(p, e) /\ pc[p] = "started" =>
       accepted[e] = 0 /\ calls[e] < doc[e].attempt /\ doc[e].state # "failed"
  /\ AtProvider(p, e) /\ pc[p] = "executed"
       /\ outcome[p] \notin Uncertain \cup {"accepted"} => accepted[e] = 0
  /\ pc[p] = "looked_up" /\ job[p] = e /\ outcome[p] = "found_terminal"
       /\ copy[p].attempt = doc[e].attempt =>
       accepted[e] = 0 /\ calls[e] >= doc[e].attempt

Clean(e) ==
  /\ accepted[e] <= 1
  /\ calls[e] <= doc[e].attempt
  /\ doc[e].state \in {"queued", "claimed", "failed"} => accepted[e] = 0
  /\ \A p \in Procs : CleanProc(p, e)
  /\ \A p, q \in Procs : AtProvider(p, e) /\ AtProvider(q, e) => p = q

EffectInv == \A e \in Executions : e \notin clobbered => Clean(e)

\* A write by p that keeps e clean started from the current document of e.
LEMMA CleanUpdate ==
  ASSUME TypeInv, EffectInv, NEW p \in Procs, pc[p] \notin {"idle", "dead"},
         NEW d, Update(p, d), NEW e \in Executions, e \notin clobbered'
  PROVE  /\ Clean(e)
         /\ e = job[p] => copy[p] = doc[e] /\ doc'[e] = d
         /\ e # job[p] => doc'[e] = doc[e]
  BY Holds DEF Update, EffectInv, TypeInv, StoreType

\* A step of p leaves the other processes alone.
OthersSame(p) ==
  \A q \in Procs \ {p} : /\ pc'[q] = pc[q] /\ job'[q] = job[q]
                         /\ copy'[q] = copy[q] /\ outcome'[q] = outcome[q]

LEMMA MoveOthers ==
  ASSUME LocalType, NEW p \in Procs, NEW s, NEW j, NEW d, NEW o, Moves(p, s, j, d, o)
  PROVE  /\ pc'[p] = s /\ job'[p] = j /\ copy'[p] = d /\ outcome'[p] = o
         /\ OthersSame(p)
  BY DEF LocalType, Moves, OthersSame

LEMMA LeaveOthers ==
  ASSUME LocalType, NEW p \in Procs, NEW s, Leave(p, s)
  PROVE  pc'[p] = s /\ OthersSame(p)
  BY DEF LocalType, Leave, OthersSame

\* The outcomes after which the provider has certainly done nothing.
NoEffect(p) == pc[p] = "executed" /\ outcome[p] \notin Uncertain \cup {"accepted"}

\* Every write but the one that starts a provider call.
LEMMA WriteEffectInv ==
  ASSUME TypeInv, EffectInv, NEW p \in Procs, pc[p] \notin {"idle", "dead"},
         NEW d, Update(p, d), OthersSame(p), UNCHANGED provider,
         d.attempt = copy[p].attempt,
         \/ pc'[p] = "idle"
         \/ /\ pc'[p] \in {"claimed", "recorded", "taken_over"}
            /\ job'[p] = job[p] /\ copy'[p] = d,
         d.state \in {"queued", "claimed"} =>
           copy[p].state \in {"queued", "claimed"} \/ NoEffect(p),
         d.state = "failed" =>
           \/ copy[p].state \in {"claimed", "failed"} \/ NoEffect(p)
           \/ pc[p] = "looked_up" /\ outcome[p] = "found_terminal"
  PROVE  EffectInv'
  <1> SUFFICES ASSUME NEW e \in Executions, e \notin clobbered' PROVE Clean(e)'
    BY DEF EffectInv
  <1>1. /\ Clean(e)
        /\ e = job[p] => copy[p] = doc[e] /\ doc'[e] = d
        /\ e # job[p] => doc'[e] = doc[e]
    BY CleanUpdate
  <1>2. doc[e].attempt \in Nat /\ calls[e] \in Nat /\ accepted[e] \in Nat
    BY DEF TypeInv, StoreType, Document
  <1>3. accepted' = accepted /\ calls' = calls
    BY DEF provider
  <1>4. AtProvider(p, e) => \A q \in Procs : AtProvider(q, e) => q = p
    BY <1>1 DEF Clean
  <1>5. doc'[e].attempt = doc[e].attempt
    BY <1>1
  <1>6. NoEffect(p) /\ e = job[p] => AtProvider(p, e) /\ accepted[e] = 0
    BY <1>1 DEF Clean, CleanProc, AtProvider, NoEffect
  <1>7. doc'[e].state \in {"queued", "claimed", "failed"} => accepted[e] = 0
    BY <1>1, <1>6 DEF Clean, CleanProc
  <1>8. \A q \in Procs \ {p} : AtProvider(q, e) => doc'[e].state \notin {"queued", "claimed"}
    BY <1>1, <1>4, <1>6 DEF Clean, CleanProc
  <1>9. \A q \in Procs \ {p} : AtProvider(q, e) /\ pc[q] = "started" => doc'[e].state # "failed"
    BY <1>1, <1>2, <1>4, <1>6 DEF Clean, CleanProc
  <1>10. \A q \in Procs \ {p} : CleanProc(q, e)'
    BY <1>1, <1>2, <1>3, <1>5, <1>8, <1>9 DEF Clean, CleanProc, AtProvider, OthersSame
  <1>11. CleanProc(p, e)'
    BY <1>1, <1>2, <1>3, <1>5 DEF Clean, CleanProc, AtProvider
  <1>12. \A q, r \in Procs : AtProvider(q, e)' /\ AtProvider(r, e)' => q = r
    BY <1>1 DEF Clean, AtProvider, OthersSame
  <1>13. QED
    BY <1>1, <1>3, <1>5, <1>7, <1>10, <1>11, <1>12 DEF Clean

LEMMA ClaimEffectInv ==
  ASSUME TypeInv, EffectInv, NEW p \in Procs, Claim(p)
  PROVE  EffectInv'
  <1> DEFINE d == ClaimedDocument(copy[p])
  <1>1. copy[p] \in Document /\ copy[p].state = "queued"
    BY Holds DEF Claim, Knows
  <1>2. d.state = "claimed" /\ d.attempt = copy[p].attempt
    BY <1>1 DEF Document, ClaimedDocument
  <1>3. /\ Update(p, d) /\ Moves(p, "claimed", job[p], d, outcome[p])
        /\ UNCHANGED provider /\ pc[p] = "polled"
    BY GotoMoves DEF Claim, TypeInv
  <1> HIDE DEF d
  <1>4. QED
    BY <1>1, <1>2, <1>3, MoveOthers, WriteEffectInv DEF TypeInv

LEMMA TakeOverEffectInv ==
  ASSUME TypeInv, EffectInv, NEW p \in Procs, TakeOver(p)
  PROVE  EffectInv'
  <1> DEFINE d == TakenOverDocument(copy[p])
  <1>1. copy[p] \in Document
    BY Holds DEF TakeOver
  <1>2. d.state = copy[p].state /\ d.attempt = copy[p].attempt
    BY <1>1 DEF Document, TakenOverDocument
  <1>3. /\ Update(p, d) /\ Moves(p, "taken_over", job[p], d, outcome[p])
        /\ UNCHANGED provider /\ pc[p] = "recovering"
    BY GotoMoves DEF TakeOver, TypeInv
  <1> HIDE DEF d
  <1>4. QED
    BY <1>1, <1>2, <1>3, MoveOthers, WriteEffectInv DEF TypeInv

LEMMA RecordOutcomeEffectInv ==
  ASSUME TypeInv, EffectInv, NEW p \in Procs, RecordOutcome(p)
  PROVE  EffectInv'
  <1> DEFINE d == RecordedDocument(copy[p], outcome[p])
  <1>1. copy[p] \in Document /\ outcome[p] \in Outcomes /\ pc[p] = "executed"
    BY Holds DEF RecordOutcome, Knows
  <1>2. d.state = NextState(copy[p], outcome[p]) /\ d.attempt = copy[p].attempt
    BY <1>1 DEF Document, RecordedDocument
  <1>3. d.state \in {"queued", "claimed", "failed"} => NoEffect(p)
    BY <1>1, <1>2, NextStateType DEF NoEffect, Outcomes, Returned, Retryable, Uncertain
  <1>4. /\ Update(p, d) /\ Moves(p, "recorded", job[p], d, outcome[p])
        /\ UNCHANGED provider
    BY GotoMoves DEF RecordOutcome, TypeInv
  <1> HIDE DEF d
  <1>5. QED
    BY <1>1, <1>2, <1>3, <1>4, MoveOthers, WriteEffectInv DEF TypeInv

LEMMA VerifyRecordEffectInv ==
  ASSUME TypeInv, EffectInv, NEW p \in Procs, VerifyRecord(p)
  PROVE  EffectInv'
  <1>1. copy[p] \in Document
    BY Holds DEF VerifyRecord
  <1>2. PICK verdict \in Verdicts :
          /\ Update(p, VerifiedDocument(copy[p], verdict))
          /\ Goto(p, "recorded", VerifiedDocument(copy[p], verdict))
    BY DEF VerifyRecord
  <1> DEFINE d == VerifiedDocument(copy[p], verdict)
  <1>3. d.state \in Verdicts /\ d.attempt = copy[p].attempt
    BY <1>1 DEF Document, VerifiedDocument
  <1>4. /\ Update(p, d) /\ Moves(p, "recorded", job[p], d, outcome[p])
        /\ UNCHANGED provider /\ pc[p] = "verifying"
    BY <1>2, GotoMoves DEF VerifyRecord, TypeInv
  <1> HIDE DEF d
  <1>5. QED
    BY <1>3, <1>4, MoveOthers, WriteEffectInv DEF TypeInv, Verdicts

LEMMA LastWriteEffectInv ==
  ASSUME TypeInv, EffectInv, NEW p \in Procs,
         FailUnconfigured(p) \/ ClearPending(p) \/ RequeueClaimed(p) \/ FinishRecovery(p)
  PROVE  EffectInv'
  <1>1. copy[p] \in Document /\ Knows(pc[p], copy[p], outcome[p])
    BY Holds DEF FailUnconfigured, ClearPending, RequeueClaimed, FinishRecovery
  <1>2. /\ UNCHANGED provider /\ Leave(p, "idle") /\ pc[p] \notin {"idle", "dead"}
    BY DEF FailUnconfigured, ClearPending, RequeueClaimed, FinishRecovery
  <1>3. pc'[p] = "idle" /\ OthersSame(p)
    BY <1>2, LeaveOthers DEF TypeInv
  <1>4. CASE FailUnconfigured(p)
    <2> DEFINE d == [copy[p] EXCEPT !.state = "failed"]
    <2>1. /\ d.state = "failed" /\ d.attempt = copy[p].attempt
          /\ copy[p].state = "claimed" /\ Update(p, d)
      BY <1>1, <1>4 DEF FailUnconfigured, Document, Knows
    <2> HIDE DEF d
    <2>2. QED
      BY <1>2, <1>3, <2>1, WriteEffectInv
  <1>5. CASE ClearPending(p)
    <2> DEFINE d == [copy[p] EXCEPT !.pending = FALSE]
    <2>1. /\ d.state = copy[p].state /\ d.attempt = copy[p].attempt /\ Update(p, d)
      BY <1>1, <1>5 DEF ClearPending, Document
    <2> HIDE DEF d
    <2>2. QED
      BY <1>2, <1>3, <2>1, WriteEffectInv
  <1>6. CASE RequeueClaimed(p)
    <2> DEFINE d == [copy[p] EXCEPT !.state = "queued", !.lease = FALSE]
    <2>1. /\ d.state = "queued" /\ d.attempt = copy[p].attempt
          /\ copy[p].state = "claimed" /\ Update(p, d)
      BY <1>1, <1>6 DEF RequeueClaimed, Document
    <2> HIDE DEF d
    <2>2. QED
      BY <1>2, <1>3, <2>1, WriteEffectInv
  <1>7. CASE FinishRecovery(p)
    <2> DEFINE d == [copy[p] EXCEPT !.state = RecoveredState(outcome[p])]
    <2>1. /\ d.state = RecoveredState(outcome[p]) /\ d.attempt = copy[p].attempt
          /\ Update(p, d) /\ pc[p] = "looked_up"
      BY <1>1, <1>7 DEF FinishRecovery, Document
    <2>2. /\ RecoveredState(outcome[p]) \notin {"queued", "claimed"}
          /\ RecoveredState(outcome[p]) = "failed" => outcome[p] = "found_terminal"
      BY DEF RecoveredState
    <2> HIDE DEF d
    <2>3. QED
      BY <1>2, <1>3, <2>1, <2>2, WriteEffectInv
  <1>8. QED
    BY <1>4, <1>5, <1>6, <1>7

LEMMA StartEffectInv ==
  ASSUME TypeInv, EffectInv, NEW p \in Procs, Start(p)
  PROVE  EffectInv'
  <1> SUFFICES ASSUME NEW e \in Executions, e \notin clobbered' PROVE Clean(e)'
    BY DEF EffectInv
  <1> DEFINE d == StartedDocument(copy[p])
  <1>1. copy[p] \in Document /\ copy[p].state = "claimed"
    BY Holds DEF Start, Knows
  <1>2. d.state = "running" /\ d.attempt = copy[p].attempt + 1
    BY <1>1 DEF Document, StartedDocument
  <1>3. /\ Update(p, d) /\ Moves(p, "started", job[p], d, outcome[p])
        /\ accepted' = accepted /\ calls' = calls /\ pc[p] = "claimed"
    BY GotoMoves DEF Start, TypeInv, provider
  <1> HIDE DEF d
  <1>4. /\ Clean(e)
        /\ e = job[p] => copy[p] = doc[e] /\ doc'[e] = d
        /\ e # job[p] => doc'[e] = doc[e]
    BY <1>3, CleanUpdate
  <1>5. /\ pc'[p] = "started" /\ job'[p] = job[p] /\ copy'[p] = d /\ OthersSame(p)
    BY <1>3, MoveOthers DEF TypeInv
  <1>6. doc[e].attempt \in Nat /\ calls[e] \in Nat /\ accepted[e] \in Nat
        /\ \A q \in Procs : pc[q] \notin {"idle", "dead"} => copy[q].attempt \in Nat
    BY DEF TypeInv, StoreType, LocalType, Document
  <1>7. CASE e # job[p]
    <2>1. doc'[e] = doc[e]
      BY <1>4, <1>7
    <2>2. \A q \in Procs : CleanProc(q, e)'
      BY <1>3, <1>4, <1>5, <1>7, <2>1 DEF Clean, CleanProc, AtProvider, OthersSame
    <2>3. \A q, r \in Procs : AtProvider(q, e)' /\ AtProvider(r, e)' => q = r
      BY <1>4, <1>5, <1>7 DEF Clean, AtProvider, OthersSame
    <2>4. QED
      BY <1>3, <1>4, <2>1, <2>2, <2>3 DEF Clean
  <1>8. CASE e = job[p]
    <2>1. /\ doc[e].state = "claimed" /\ doc'[e].state = "running"
          /\ doc'[e].attempt = doc[e].attempt + 1 /\ accepted[e] = 0
          /\ calls[e] <= doc[e].attempt
      BY <1>1, <1>2, <1>4, <1>8 DEF Clean
    <2>2. \A q \in Procs : ~AtProvider(q, e)
      BY <1>4, <2>1 DEF Clean, CleanProc
    <2>3. \A q \in Procs \ {p} : CleanProc(q, e)'
      BY <1>3, <1>4, <1>5, <1>6, <2>1, <2>2 DEF Clean, CleanProc, AtProvider, OthersSame
    <2>4. CleanProc(p, e)'
      BY <1>2, <1>3, <1>4, <1>5, <1>6, <1>8, <2>1 DEF CleanProc, AtProvider
    <2>5. \A q, r \in Procs : AtProvider(q, e)' /\ AtProvider(r, e)' => q = r
      BY <1>5, <2>2 DEF AtProvider, OthersSame
    <2>6. QED
      BY <1>3, <1>6, <2>1, <2>3, <2>4, <2>5 DEF Clean
  <1>9. QED
    BY <1>7, <1>8

\* A step that writes no document and calls no provider, and after which p
\* is idle, dead, or holds e at a step away from the provider.
LEMMA QuietEffectInv ==
  ASSUME TypeInv, EffectInv, NEW p \in Procs, OthersSame(p),
         UNCHANGED <<doc, clobbered, provider>>,
         \/ pc'[p] \in {"idle", "dead"}
         \/ /\ pc'[p] \notin {"started", "executed", "looked_up"}
            /\ \/ copy'[p] = doc[job'[p]]
               \/ /\ job'[p] = job[p] /\ copy'[p] = copy[p]
                  /\ pc[p] \notin {"idle", "dead"}
  PROVE  EffectInv'
  <1> SUFFICES ASSUME NEW e \in Executions, e \notin clobbered PROVE Clean(e)'
    BY DEF EffectInv
  <1>1. /\ Clean(e) /\ doc[e].attempt \in Nat
        /\ doc' = doc /\ accepted' = accepted /\ calls' = calls
    BY DEF EffectInv, TypeInv, StoreType, Document, provider
  <1>2. CleanProc(p, e)'
    BY <1>1 DEF Clean, CleanProc, AtProvider
  <1>3. \A q \in Procs \ {p} : CleanProc(q, e)'
    BY <1>1 DEF Clean, CleanProc, AtProvider, OthersSame
  <1>4. \A q, r \in Procs : AtProvider(q, e)' /\ AtProvider(r, e)' => q = r
    BY <1>1 DEF Clean, AtProvider, OthersSame
  <1>5. QED
    BY <1>1, <1>2, <1>3, <1>4 DEF Clean

LEMMA ReadEffectInv ==
  ASSUME TypeInv, EffectInv, NEW p \in Procs, NEW e \in Executions,
         PollQueued(p, e) \/ VerifyRead(p, e) \/ RepairRead(p, e) \/ RecoverRead(p, e)
  PROVE  EffectInv'
  <1>1. PICK s \in {"polled", "verifying", "repairing", "recovering"} : Load(p, e, s)
    BY DEF PollQueued, VerifyRead, RepairRead, RecoverRead
  <1>2. Moves(p, s, e, doc[e], outcome[p])
    BY <1>1 DEF Load, Moves, TypeInv, LocalType
  <1>3. UNCHANGED <<doc, clobbered, provider>>
    BY <1>1 DEF Load, store
  <1>4. QED
    BY <1>2, <1>3, MoveOthers, QuietEffectInv DEF TypeInv

LEMMA AppendEffectInv ==
  ASSUME TypeInv, EffectInv, NEW p \in Procs, AppendEvent(p) \/ RepairAppend(p)
  PROVE  EffectInv'
  <1>1. PICK s \in {"appended", "repaired"} : Moves(p, s, job[p], copy[p], outcome[p])
    BY GotoMoves DEF AppendEvent, RepairAppend, TypeInv
  <1>2. UNCHANGED <<doc, clobbered, provider>> /\ pc[p] \notin {"idle", "dead"}
    BY DEF AppendEvent, RepairAppend
  <1>3. QED
    BY <1>1, <1>2, MoveOthers, QuietEffectInv DEF TypeInv

LEMMA DropEffectInv ==
  ASSUME TypeInv, EffectInv, NEW p \in Procs,
         HeartbeatLost(p) \/ AppendFails(p) \/ FenceConflict(p) \/ Restart(p) \/ Crash(p)
  PROVE  EffectInv'
  <1>1. PICK s \in {"idle", "dead"} : Leave(p, s)
    BY DEF HeartbeatLost, AppendFails, FenceConflict, Restart, Crash
  <1>2. UNCHANGED <<doc, clobbered, provider>>
    BY DEF HeartbeatLost, AppendFails, FenceConflict, Restart, Crash, store
  <1>3. QED
    BY <1>1, <1>2, LeaveOthers, QuietEffectInv DEF TypeInv

LEMMA LookupEffectInv ==
  ASSUME TypeInv, EffectInv, NEW p \in Procs, Lookup(p)
  PROVE  EffectInv'
  <1> SUFFICES ASSUME NEW e \in Executions, e \notin clobbered' PROVE Clean(e)'
    BY DEF EffectInv
  <1>1. PICK o \in LookupAnswers(p) : outcome' = [outcome EXCEPT ![p] = o]
    BY DEF Lookup
  <1>2. Moves(p, "looked_up", job[p], copy[p], o)
    BY <1>1 DEF Lookup, Goto, Moves, TypeInv, LocalType
  <1>3. /\ pc'[p] = "looked_up" /\ job'[p] = job[p] /\ copy'[p] = copy[p]
        /\ outcome'[p] = o /\ OthersSame(p) /\ pc[p] = "taken_over"
    BY <1>2, MoveOthers DEF TypeInv, Lookup
  <1>4. /\ doc' = doc /\ clobbered' = clobbered /\ accepted' = accepted /\ calls' = calls
    BY DEF Lookup, store, provider
  <1>5. /\ Clean(e) /\ doc[e].attempt \in Nat /\ calls[e] \in Nat /\ accepted[e] \in Nat
    BY <1>4 DEF EffectInv, TypeInv, StoreType, Document
  <1>6. o = "found_terminal" /\ job[p] = e =>
          accepted[e] = 0 /\ calls[e] >= copy[p].attempt
    BY <1>5 DEF LookupAnswers
  <1>7. CleanProc(p, e)'
    BY <1>3, <1>4, <1>5, <1>6 DEF Clean, CleanProc, AtProvider
  <1>8. \A q \in Procs \ {p} : CleanProc(q, e)'
    BY <1>3, <1>4, <1>5 DEF Clean, CleanProc, AtProvider, OthersSame
  <1>9. \A q, r \in Procs : AtProvider(q, e)' /\ AtProvider(r, e)' => q = r
    BY <1>3, <1>5 DEF Clean, AtProvider, OthersSame
  <1>10. QED
    BY <1>4, <1>5, <1>7, <1>8, <1>9 DEF Clean

LEMMA ExecuteEffectInv ==
  ASSUME TypeInv, EffectInv, NEW p \in Procs, Execute(p)
  PROVE  EffectInv'
  <1> SUFFICES ASSUME NEW e \in Executions, e \notin clobbered' PROVE Clean(e)'
    BY DEF EffectInv
  <1>1. PICK o \in Outcomes : \E n \in Effect(o) :
          /\ outcome' = [outcome EXCEPT ![p] = o]
          /\ calls' = [calls EXCEPT ![job[p]] = @ + 1]
          /\ accepted' = [accepted EXCEPT ![job[p]] = @ + n]
    BY DEF Execute
  <1>2. PICK n \in Effect(o) :
          /\ outcome' = [outcome EXCEPT ![p] = o]
          /\ calls' = [calls EXCEPT ![job[p]] = @ + 1]
          /\ accepted' = [accepted EXCEPT ![job[p]] = @ + n]
    BY <1>1
  <1>3. n \in {0, 1} /\ (o \notin Uncertain \cup {"accepted"} => n = 0)
    BY DEF Effect
  <1>4. Moves(p, "executed", job[p], copy[p], o)
    BY <1>2 DEF Execute, Goto, Moves, TypeInv, LocalType
  <1>5. /\ pc'[p] = "executed" /\ job'[p] = job[p] /\ copy'[p] = copy[p]
        /\ outcome'[p] = o /\ OthersSame(p) /\ pc[p] = "started"
    BY <1>4, MoveOthers DEF TypeInv, Execute
  <1>6. doc' = doc /\ clobbered' = clobbered
    BY DEF Execute, store
  <1>7. /\ Clean(e) /\ doc[e].attempt \in Nat /\ calls[e] \in Nat /\ accepted[e] \in Nat
    BY <1>6 DEF EffectInv, TypeInv, StoreType, Document
  <1>8. CASE e # job[p]
    <2>1. accepted'[e] = accepted[e] /\ calls'[e] = calls[e]
      BY <1>2, <1>8 DEF TypeInv, StoreType
    <2>2. \A q \in Procs : CleanProc(q, e)'
      BY <1>5, <1>6, <1>7, <1>8, <2>1 DEF Clean, CleanProc, AtProvider, OthersSame
    <2>3. \A q, r \in Procs : AtProvider(q, e)' /\ AtProvider(r, e)' => q = r
      BY <1>5, <1>7, <1>8 DEF Clean, AtProvider, OthersSame
    <2>4. QED
      BY <1>6, <1>7, <2>1, <2>2, <2>3 DEF Clean
  <1>9. CASE e = job[p]
    <2>1. accepted'[e] = accepted[e] + n /\ calls'[e] = calls[e] + 1
      BY <1>2, <1>9 DEF TypeInv, StoreType
    <2>2. /\ AtProvider(p, e) /\ accepted[e] = 0 /\ calls[e] < doc[e].attempt
          /\ doc[e].state \notin {"queued", "claimed", "failed"}
          /\ \A q \in Procs : AtProvider(q, e) => q = p
      BY <1>5, <1>7, <1>9 DEF Clean, CleanProc, AtProvider
    <2>3. \A q \in Procs \ {p} : CleanProc(q, e)'
      BY <1>5, <1>6, <1>7, <2>1, <2>2 DEF Clean, CleanProc, AtProvider, OthersSame
    <2>4. CleanProc(p, e)'
      BY <1>3, <1>5, <1>6, <1>7, <1>9, <2>1, <2>2 DEF Clean, CleanProc, AtProvider
    <2>5. \A q, r \in Procs : AtProvider(q, e)' /\ AtProvider(r, e)' => q = r
      BY <1>5, <2>2 DEF AtProvider, OthersSame
    <2>6. QED
      BY <1>3, <1>6, <1>7, <2>1, <2>2, <2>3, <2>4, <2>5 DEF Clean
  <1>10. QED
    BY <1>8, <1>9

LEMMA InitEffectInv == Init => EffectInv
  BY ExecutionAssumption
     DEF Init, EffectInv, Clean, CleanProc, AtProvider, Queued

LEMMA NextEffectInv == TypeInv /\ EffectInv /\ [Next]_vars => EffectInv'
  <1> SUFFICES ASSUME TypeInv, EffectInv, [Next]_vars PROVE EffectInv'
    OBVIOUS
  <1>1. CASE UNCHANGED vars
    BY <1>1 DEF EffectInv, Clean, CleanProc, AtProvider, vars, store, provider, local
  <1>2. CASE Next
    <2>1. PICK p \in Procs : ProcStep(p)
      BY <1>2, NextIsProcStep
    <2>2. QED
      BY <2>1, ReadEffectInv, ClaimEffectInv, StartEffectInv, ExecuteEffectInv,
         RecordOutcomeEffectInv, VerifyRecordEffectInv, AppendEffectInv,
         TakeOverEffectInv, LookupEffectInv, LastWriteEffectInv, DropEffectInv
         DEF ProcStep, WorkerStep, ReconcilerStep, EvidenceStep
  <1>3. QED
    BY <1>1, <1>2

LEMMA EffectInvAlways == Spec => [](TypeInv /\ EffectInv)
  <1>1. Init => TypeInv /\ EffectInv
    BY InitTypeInv, InitEffectInv
  <1>2. TypeInv /\ EffectInv /\ [Next]_vars => (TypeInv /\ EffectInv)'
    BY NextTypeInv, NextEffectInv
  <1>3. QED
    BY <1>1, <1>2, PTL DEF Spec

\* The provider carries an operation out at most once, unless some write
\* replaced a version of the document that its writer had not seen: the
\* token fence of update_execution would be enough if it also compared the
\* version that was read.
THEOREM OneEffect == Spec => []OneEffectUnlessClobbered
  <1>1. EffectInv => OneEffectUnlessClobbered
    BY DEF EffectInv, Clean, OneEffectUnlessClobbered
  <1>2. QED
    BY <1>1, EffectInvAlways, PTL

\* Under the same condition execute() is called at most max_attempts times.
THEOREM RetryBudget == Spec => []RetryBudgetUnlessClobbered
  <1>1. TypeInv /\ EffectInv => RetryBudgetUnlessClobbered
    <2> SUFFICES ASSUME TypeInv, EffectInv, NEW e \in Executions, e \notin clobbered
                 PROVE  calls[e] <= MaxAttempts
      BY DEF RetryBudgetUnlessClobbered
    <2>1. calls[e] <= doc[e].attempt
      BY DEF EffectInv, Clean
    <2>2. doc[e].attempt \in 0..MaxAttempts /\ calls[e] \in Nat
      BY DEF TypeInv, StoreType, Document
    <2>3. QED
      BY <2>1, <2>2, ExecutionAssumption
  <1>2. QED
    BY <1>1, EffectInvAlways, PTL

\* Under the same condition an execution reported FAILED had no effect.
THEOREM FailedIsHonest == Spec => []FailedHasNoEffect
  <1>1. EffectInv => FailedHasNoEffect
    BY DEF EffectInv, Clean, FailedHasNoEffect
  <1>2. QED
    BY <1>1, EffectInvAlways, PTL


-----------------------------------------------------------------------------
(* The third layer: what a document and every copy of it have behind them.  *)
(* Tokens, effects and delivered events only grow, so what was true of a    *)
(* copy when it was made stays true, however stale the copy becomes.        *)

VerificationStates == {"verification_pending", "verified", "verification_failed"}

Delivered(e, d) == [id |-> e, stream |-> "remediation_action", event |-> d.event] \in events

\* Document d of e announces its worker transition or has delivered it.
Told(e, d) == ~d.pending /\ d.event.kind \notin Verdicts \cup {"none"} => Delivered(e, d)

Backed(e, d) ==
  /\ d.token <= doc[e].token
  /\ d.state \in VerificationStates => accepted[e] > 0
  /\ Told(e, d)

\* What process p has seen and done.
Witnessed(p) ==
  /\ Backed(job[p], copy[p])
  /\ (pc[p] = "executed" /\ outcome[p] = "accepted")
     \/ (pc[p] = "looked_up" /\ outcome[p] = "found_accepted") => accepted[job[p]] > 0
  /\ pc[p] \in {"polled", "claimed", "started", "executed"} => p \in Workers
  /\ pc[p] \in {"recorded", "appended"} /\ p \in Verifiers => copy[p].event.kind \in Verdicts
  /\ pc[p] = "repaired" \/ (pc[p] = "appended" /\ p \notin Verifiers)
       => Delivered(job[p], copy[p])

\* A final failure that was promised is final, and its evidence is kept.
FailureKept(d) ==
  /\ d.stream = "remediation_action"
  /\ doc[d.id].state = "failed"
  /\ d \in events \/ (doc[d.id].pending /\ doc[d.id].event = d.event)

RecordInv ==
  /\ \A e \in Executions : Backed(e, doc[e])
  /\ \A p \in Procs : pc[p] \notin {"idle", "dead"} => Witnessed(p)
  /\ FenceIsExclusive
  /\ \A d \in promised : d.event.kind = "failed" /\ d.id \notin clobbered => FailureKept(d)

\* A step after which no token, effect or event is taken back.
Grows ==
  /\ \A e \in Executions : doc[e].token <= doc'[e].token /\ accepted[e] <= accepted'[e]
  /\ events \subseteq events'

LEMMA BackedStays ==
  ASSUME TypeInv, TypeInv', Grows, NEW e \in Executions, NEW d \in Document, Backed(e, d)
  PROVE  Backed(e, d)'
  <1>1. /\ d.token \in Nat /\ doc[e].token \in Nat /\ doc'[e].token \in Nat
        /\ accepted[e] \in Nat /\ accepted'[e] \in Nat
    BY DEF TypeInv, StoreType, Document
  <1>2. d.token <= doc'[e].token
    BY <1>1 DEF Backed, Grows
  <1>3. d.state \in VerificationStates => accepted'[e] > 0
    BY <1>1 DEF Backed, Grows
  <1>4. Told(e, d)'
    BY DEF Backed, Told, Delivered, Grows
  <1>5. QED
    BY <1>2, <1>3, <1>4 DEF Backed

\* What the other processes have witnessed stays true.
LEMMA OthersWitness ==
  ASSUME TypeInv, TypeInv', RecordInv, Grows, NEW p \in Procs, OthersSame(p),
         NEW q \in Procs \ {p}, pc'[q] \notin {"idle", "dead"}
  PROVE  Witnessed(q)'
  <1>1. /\ pc'[q] = pc[q] /\ job'[q] = job[q] /\ copy'[q] = copy[q]
        /\ outcome'[q] = outcome[q] /\ Witnessed(q)
    BY DEF OthersSame, RecordInv
  <1>2. PICK e \in Executions, d \in Document : job[q] = e /\ copy[q] = d
    BY <1>1, Holds
  <1>3. Backed(job[q], copy[q])'
    BY <1>1, <1>2, BackedStays DEF Witnessed
  <1>4. accepted[e] \in Nat /\ accepted'[e] \in Nat /\ accepted[e] <= accepted'[e]
    BY DEF TypeInv, StoreType, Grows
  <1>5. Delivered(e, d) => Delivered(e, d)'
    BY DEF Delivered, Grows
  <1>6. QED
    BY <1>1, <1>2, <1>3, <1>4, <1>5 DEF Witnessed

\* No step but a stale write changes a terminal state.
TerminalStep ==
  \A e \in Executions :
    doc[e].state \in Terminal => doc'[e].state = doc[e].state \/ e \in clobbered'

\* A step that writes no document: what p holds after it is either a fresh
\* read or what it held before.
LEMMA QuietRecordInv ==
  ASSUME TypeInv, TypeInv', RecordInv, NEW p \in Procs, OthersSame(p), Grows,
         UNCHANGED <<doc, clobbered, promised>>,
         pc'[p] \notin {"idle", "dead"} => Witnessed(p)',
         pc'[p] \in OwnerSteps =>
           pc[p] \in OwnerSteps /\ job'[p] = job[p] /\ copy'[p] = copy[p]
  PROVE  RecordInv' /\ TerminalStep
  <1>1. \A e \in Executions : Backed(e, doc[e])'
    <2> SUFFICES ASSUME NEW e \in Executions PROVE Backed(e, doc[e])'
      OBVIOUS
    <2>1. PICK d \in Document : doc[e] = d
      BY DEF TypeInv, StoreType
    <2>2. QED
      BY <2>1, BackedStays DEF RecordInv
  <1>2. \A q \in Procs : pc'[q] \notin {"idle", "dead"} => Witnessed(q)'
    BY OthersWitness
  <1>3. FenceIsExclusive'
    BY DEF RecordInv, FenceIsExclusive, OthersSame
  <1>4. \A d \in promised : FailureKept(d) => FailureKept(d)'
    BY DEF FailureKept, Grows
  <1>5. QED
    BY <1>1, <1>2, <1>3, <1>4 DEF RecordInv, TerminalStep

\* Document d may replace document c.
Replaces(e, c, d) ==
  /\ d.token \in {c.token, c.token + 1}
  /\ d.state \in VerificationStates => accepted[e] > 0
  /\ Told(e, d)
  /\ c.state \in Terminal =>
       /\ d.state = c.state /\ d.event = c.event
       /\ d.pending = c.pending \/ Delivered(e, c) \/ c.event.kind \in Verdicts

\* A durable write of d by p.
LEMMA WriteRecordInv ==
  ASSUME TypeInv, TypeInv', RecordInv, NEW p \in Procs, pc[p] \notin {"idle", "dead"},
         Fenced(p), NEW d \in Document, Update(p, d), OthersSame(p),
         UNCHANGED <<events, provider>>,
         Replaces(job[p], copy[p], d),
         \/ pc'[p] = "idle"
         \/ pc'[p] \in {"claimed", "started", "taken_over", "recorded"}
            /\ job'[p] = job[p] /\ copy'[p] = d,
         pc'[p] \in OwnerSteps => pc[p] \in OwnerSteps \/ d.token = copy[p].token + 1,
         pc'[p] \in {"claimed", "started"} => p \in Workers,
         pc'[p] = "recorded" /\ p \in Verifiers => d.event.kind \in Verdicts,
         \A x \in promised' : x \in promised \/
           (x.id = job[p] /\ x.event = d.event /\
              (x.event.kind = "failed" =>
                 x.stream = "remediation_action" /\ d.state = "failed" /\ d.pending))
  PROVE  RecordInv' /\ TerminalStep
  <1>1. PICK j \in Executions, c \in Document : job[p] = j /\ copy[p] = c
    BY Holds
  <1>2. /\ doc' = [doc EXCEPT ![j] = d] /\ doc'[j] = d
        /\ \A e \in Executions \ {j} : doc'[e] = doc[e]
        /\ clobbered \subseteq clobbered'
        /\ j \notin clobbered' => c = doc[j]
        /\ doc[j].token = c.token
    BY <1>1 DEF Update, TypeInv, StoreType, Fenced
  <1>3. events' = events /\ accepted' = accepted
    BY DEF provider
  <1>4. /\ c.token \in Nat /\ d.token \in Nat
        /\ \A e \in Executions : doc[e] \in Document /\ doc[e].token \in Nat /\ accepted[e] \in Nat
    BY DEF TypeInv, StoreType, Document
  <1>5. Replaces(j, c, d)
    BY <1>1
  <1>6. Grows
    BY <1>2, <1>3, <1>4, <1>5 DEF Grows, Replaces
  <1>7. Backed(j, d)'
    BY <1>2, <1>3, <1>4, <1>5 DEF Backed, Replaces, Told, Delivered
  <1>8. \A e \in Executions : Backed(e, doc[e])'
    <2> SUFFICES ASSUME NEW e \in Executions PROVE Backed(e, doc[e])'
      OBVIOUS
    <2>1. CASE e = j
      BY <1>2, <1>7, <2>1
    <2>2. CASE e # j
      <3>1. PICK o \in Document : doc[e] = o
        BY <1>4
      <3>2. doc'[e] = o
        BY <1>2, <2>2, <3>1
      <3>3. QED
        BY <1>6, <3>1, <3>2, BackedStays DEF RecordInv
    <2>3. QED
      BY <2>1, <2>2
  <1>9. pc'[p] # "idle" => Witnessed(p)'
    BY <1>1, <1>7 DEF Witnessed
  <1>10. \A q \in Procs : pc'[q] \notin {"idle", "dead"} => Witnessed(q)'
    BY <1>6, <1>9, OthersWitness
  <1>11. FenceIsExclusive'
    <2>1. \A q \in Procs \ {p} : pc'[q] \in OwnerSteps /\ pc'[p] \in OwnerSteps
                                  /\ job'[q] = job'[p] => copy'[q].token # copy'[p].token
      <3> SUFFICES ASSUME NEW q \in Procs \ {p}, pc'[q] \in OwnerSteps,
                          pc'[p] \in OwnerSteps, job'[q] = job'[p]
                   PROVE  copy'[q].token # copy'[p].token
        OBVIOUS
      <3>1. /\ pc[q] \in OwnerSteps /\ job[q] = j /\ copy'[q] = copy[q] /\ copy'[p] = d
        BY <1>1 DEF OthersSame, OwnerSteps
      <3>2. copy[q].token <= doc[j].token /\ copy[q].token \in Nat
        BY <3>1, Holds DEF RecordInv, Witnessed, Backed, OwnerSteps, Document
      <3>3. CASE d.token = c.token + 1
        BY <1>2, <1>4, <3>1, <3>2, <3>3
      <3>4. CASE d.token = c.token /\ pc[p] \in OwnerSteps
        BY <1>1, <3>1, <3>4 DEF RecordInv, FenceIsExclusive
      <3>5. QED
        BY <1>1, <1>4, <1>5, <3>3, <3>4 DEF Replaces
    <2>2. \A q, r \in Procs \ {p} : q # r /\ pc'[q] \in OwnerSteps /\ pc'[r] \in OwnerSteps
                                     /\ job'[q] = job'[r] => copy'[q].token # copy'[r].token
      BY DEF OthersSame, RecordInv, FenceIsExclusive
    <2>3. QED
      BY <2>1, <2>2 DEF FenceIsExclusive
  <1>12. \A x \in promised' : x.event.kind = "failed" /\ x.id \notin clobbered' => FailureKept(x)'
    <2> SUFFICES ASSUME NEW x \in promised', x.event.kind = "failed", x.id \notin clobbered'
                 PROVE  FailureKept(x)'
      OBVIOUS
    <2>1. x \in [id : Executions, stream : Streams, event : EventIds]
      BY DEF TypeInv, StoreType
    <2>2. CASE x \notin promised
      BY <1>1, <1>2, <2>2 DEF FailureKept
    <2>3. CASE x \in promised /\ x.id # j
      BY <1>2, <1>3, <2>1, <2>3 DEF RecordInv, FailureKept
    <2>4. CASE x \in promised /\ x.id = j
      <3>1. FailureKept(x) /\ c = doc[j] /\ c.state = "failed"
        BY <1>2, <2>4 DEF RecordInv, FailureKept
      <3>2. d.state = "failed" /\ d.event = c.event
        BY <1>5, <3>1 DEF Replaces, Terminal
      <3>3. x \in events \/ (c.pending /\ c.event = x.event)
        BY <2>4, <3>1 DEF FailureKept
      <3>4. x = [id |-> j, stream |-> "remediation_action", event |-> x.event]
        BY <2>1, <2>4, <3>1 DEF FailureKept
      <3>5. c.event = x.event => c.event.kind \notin Verdicts
        BY DEF Verdicts
      <3>6. c.event = x.event /\ Delivered(j, c) => x \in events
        BY <3>4 DEF Delivered
      <3>7. x \in events \/ (d.pending /\ d.event = x.event)
        BY <1>5, <3>1, <3>2, <3>3, <3>5, <3>6 DEF Replaces, Terminal
      <3>8. QED
        BY <1>2, <1>3, <2>4, <3>1, <3>2, <3>7 DEF FailureKept
    <2>5. QED
      BY <2>2, <2>3, <2>4
  <1>13. TerminalStep
    BY <1>2, <1>5 DEF TerminalStep, Replaces
  <1>14. QED
    BY <1>8, <1>10, <1>11, <1>12, <1>13 DEF RecordInv

\* The fields of the documents that the writes prepare.
LEMMA WriteFields ==
  ASSUME NEW d \in Document
  PROVE  /\ ClaimedDocument(d).token = d.token + 1
         /\ ClaimedDocument(d).pending = d.pending /\ ClaimedDocument(d).event = d.event
         /\ ClaimedDocument(d).state = "claimed"
         /\ StartedDocument(d).token = d.token /\ StartedDocument(d).state = "running"
         /\ StartedDocument(d).pending = d.pending /\ StartedDocument(d).event = d.event
         /\ TakenOverDocument(d).token = d.token + 1
         /\ TakenOverDocument(d).state = d.state
         /\ TakenOverDocument(d).pending = d.pending /\ TakenOverDocument(d).event = d.event
  BY DEF Document, ClaimedDocument, StartedDocument, TakenOverDocument

\* A write that keeps the evidence slot and does not start from a terminal
\* state.
LEMMA SlotKept ==
  ASSUME NEW e \in Executions, NEW c \in Document, NEW d \in Document, Told(e, c),
         d.pending = c.pending, d.event = c.event,
         d.token \in {c.token, c.token + 1},
         d.state \in VerificationStates => accepted[e] > 0,
         c.state \notin Terminal
  PROVE  Replaces(e, c, d)
  BY DEF Replaces, Told, Delivered

\* The witness of a process that is about to write.
LEMMA WriterWitness ==
  ASSUME TypeInv, RecordInv, NEW p \in Procs, pc[p] \notin {"idle", "dead"}
  PROVE  /\ job[p] \in Executions /\ copy[p] \in Document
         /\ Knows(pc[p], copy[p], outcome[p]) /\ Witnessed(p) /\ Told(job[p], copy[p])
  BY Holds DEF RecordInv, Witnessed, Backed

LEMMA ClaimRecordInv ==
  ASSUME TypeInv, TypeInv', RecordInv, NEW p \in Procs, Claim(p)
  PROVE  RecordInv' /\ TerminalStep
  <1> DEFINE d == ClaimedDocument(copy[p])
  <1>1. /\ job[p] \in Executions /\ copy[p] \in Document /\ Told(job[p], copy[p])
        /\ Witnessed(p) /\ copy[p].state = "queued" /\ copy[p].token < MaxToken
        /\ HasBudget(copy[p])
    BY WriterWitness, Holds DEF Claim, Knows
  <1>2. /\ d \in Document /\ d.token = copy[p].token + 1 /\ d.state = "claimed"
        /\ d.pending = copy[p].pending /\ d.event = copy[p].event
    BY <1>1, ClaimedType, WriteFields
  <1>3. /\ Update(p, d) /\ Moves(p, "claimed", job[p], d, outcome[p])
        /\ UNCHANGED <<events, provider>> /\ promised' = promised
        /\ pc[p] = "polled" /\ Fenced(p)
    BY GotoMoves DEF Claim, TypeInv
  <1> HIDE DEF d
  <1>4. Replaces(job[p], copy[p], d)
    BY <1>1, <1>2, SlotKept DEF VerificationStates, Terminal
  <1>5. p \in Workers
    BY <1>1, <1>3 DEF Witnessed
  <1>6. QED
    BY <1>2, <1>3, <1>4, <1>5, MoveOthers, WriteRecordInv DEF TypeInv

LEMMA StartRecordInv ==
  ASSUME TypeInv, TypeInv', RecordInv, NEW p \in Procs, Start(p)
  PROVE  RecordInv' /\ TerminalStep
  <1> DEFINE d == StartedDocument(copy[p])
  <1>1. /\ job[p] \in Executions /\ copy[p] \in Document /\ Told(job[p], copy[p])
        /\ Witnessed(p) /\ copy[p].state = "claimed" /\ HasBudget(copy[p])
    BY WriterWitness, Holds DEF Start, Knows
  <1>2. /\ d \in Document /\ d.token = copy[p].token /\ d.state = "running"
        /\ d.pending = copy[p].pending /\ d.event = copy[p].event
    BY <1>1, StartedType, WriteFields
  <1>3. /\ Update(p, d) /\ Moves(p, "started", job[p], d, outcome[p])
        /\ UNCHANGED <<events, provider>> /\ promised' = promised
        /\ pc[p] = "claimed" /\ Fenced(p)
    BY GotoMoves DEF Start, TypeInv
  <1> HIDE DEF d
  <1>4. Replaces(job[p], copy[p], d)
    BY <1>1, <1>2, SlotKept DEF VerificationStates, Terminal
  <1>5. p \in Workers
    BY <1>1, <1>3 DEF Witnessed
  <1>6. QED
    BY <1>2, <1>3, <1>4, <1>5, MoveOthers, WriteRecordInv DEF TypeInv, OwnerSteps

LEMMA TakeOverRecordInv ==
  ASSUME TypeInv, TypeInv', RecordInv, NEW p \in Procs, TakeOver(p)
  PROVE  RecordInv' /\ TerminalStep
  <1> DEFINE d == TakenOverDocument(copy[p])
  <1>1. /\ job[p] \in Executions /\ copy[p] \in Document /\ Told(job[p], copy[p])
        /\ copy[p].state \in Incomplete /\ copy[p].token < MaxToken
        /\ HasBudget(copy[p])
    BY WriterWitness, Holds DEF TakeOver, Knows
  <1>2. /\ d \in Document /\ d.token = copy[p].token + 1 /\ d.state = copy[p].state
        /\ d.pending = copy[p].pending /\ d.event = copy[p].event
    BY <1>1, TakenOverType, WriteFields
  <1>3. /\ Update(p, d) /\ Moves(p, "taken_over", job[p], d, outcome[p])
        /\ UNCHANGED <<events, provider>> /\ promised' = promised
        /\ pc[p] = "recovering" /\ Fenced(p)
    BY GotoMoves DEF TakeOver, TypeInv
  <1> HIDE DEF d
  <1>4. Replaces(job[p], copy[p], d)
    BY <1>1, <1>2, SlotKept DEF VerificationStates, Terminal, Incomplete
  <1>5. QED
    BY <1>2, <1>3, <1>4, MoveOthers, WriteRecordInv DEF TypeInv

LEMMA RecordOutcomeRecordInv ==
  ASSUME TypeInv, TypeInv', RecordInv, NEW p \in Procs, RecordOutcome(p)
  PROVE  RecordInv' /\ TerminalStep
  <1> DEFINE d == RecordedDocument(copy[p], outcome[p])
             s == NextState(copy[p], outcome[p])
  <1>1. /\ job[p] \in Executions /\ copy[p] \in Document /\ Witnessed(p)
        /\ copy[p].state = "running" /\ outcome[p] \in Outcomes
    BY WriterWitness DEF RecordOutcome, Knows
  <1>2. /\ d \in Document /\ d.token = copy[p].token /\ d.state = s
        /\ d.pending = TRUE /\ d.event = [kind |-> s, attempt |-> copy[p].attempt]
    BY <1>1, RecordedType DEF RecordedDocument, Document
  <1>3. /\ s \in {"verification_pending", "queued", "reconciliation_required", "failed"}
        /\ s = "verification_pending" => outcome[p] = "accepted"
    BY <1>1, NextStateType
  <1>4. /\ Update(p, d) /\ Moves(p, "recorded", job[p], d, outcome[p])
        /\ Promise(p, "remediation_action", d)
        /\ UNCHANGED <<events, provider>> /\ pc[p] = "executed" /\ Fenced(p)
    BY GotoMoves DEF RecordOutcome, TypeInv
  <1> HIDE DEF d, s
  <1>5. Replaces(job[p], copy[p], d)
    BY <1>1, <1>2, <1>3, <1>4 DEF Replaces, Told, Witnessed, VerificationStates, Terminal
  <1>6. p \notin Verifiers
    BY <1>1, <1>4, ExecutionAssumption DEF Witnessed
  <1>7. \A x \in promised' : x \in promised \/
           (x.id = job[p] /\ x.event = d.event /\
              (x.event.kind = "failed" =>
                 x.stream = "remediation_action" /\ d.state = "failed" /\ d.pending))
    BY <1>2, <1>4 DEF Promise
  <1>8. QED
    BY <1>2, <1>4, <1>5, <1>6, <1>7, MoveOthers, WriteRecordInv DEF TypeInv, OwnerSteps

LEMMA VerifyRecordRecordInv ==
  ASSUME TypeInv, TypeInv', RecordInv, NEW p \in Procs, VerifyRecord(p)
  PROVE  RecordInv' /\ TerminalStep
  <1>1. /\ job[p] \in Executions /\ copy[p] \in Document /\ Witnessed(p)
        /\ copy[p].state = "verification_pending"
    BY WriterWitness DEF VerifyRecord, Knows
  <1>2. PICK verdict \in Verdicts :
          /\ Update(p, VerifiedDocument(copy[p], verdict))
          /\ Promise(p, "verification_event", VerifiedDocument(copy[p], verdict))
          /\ Goto(p, "recorded", VerifiedDocument(copy[p], verdict))
    BY DEF VerifyRecord
  <1> DEFINE d == VerifiedDocument(copy[p], verdict)
  <1>3. /\ d \in Document /\ d.token = copy[p].token
        /\ d.pending = TRUE /\ d.event = [kind |-> verdict, attempt |-> 0]
    BY <1>1, VerifiedType DEF VerifiedDocument, Document
  <1>4. /\ Update(p, d) /\ Moves(p, "recorded", job[p], d, outcome[p])
        /\ Promise(p, "verification_event", d)
        /\ UNCHANGED <<events, provider>> /\ pc[p] = "verifying" /\ Fenced(p)
    BY <1>2, GotoMoves DEF VerifyRecord, TypeInv
  <1> HIDE DEF d
  <1>5. Replaces(job[p], copy[p], d)
    BY <1>1, <1>3 DEF Replaces, Told, Witnessed, Backed, VerificationStates, Terminal
  <1>6. \A x \in promised' : x \in promised \/
           (x.id = job[p] /\ x.event = d.event /\ x.event.kind # "failed")
    BY <1>3, <1>4 DEF Promise, Verdicts
  <1>7. QED
    BY <1>3, <1>4, <1>5, <1>6, MoveOthers, WriteRecordInv DEF TypeInv, OwnerSteps

LEMMA LastWriteRecordInv ==
  ASSUME TypeInv, TypeInv', RecordInv, NEW p \in Procs,
         FailUnconfigured(p) \/ ClearPending(p) \/ RequeueClaimed(p) \/ FinishRecovery(p)
  PROVE  RecordInv' /\ TerminalStep
  <1>1. /\ job[p] \in Executions /\ copy[p] \in Document /\ HasBudget(copy[p])
        /\ Knows(pc[p], copy[p], outcome[p]) /\ Witnessed(p) /\ Told(job[p], copy[p])
    BY WriterWitness, Holds DEF FailUnconfigured, ClearPending, RequeueClaimed, FinishRecovery
  <1>2. /\ UNCHANGED <<events, provider>> /\ Leave(p, "idle") /\ promised' = promised
        /\ pc[p] \notin {"idle", "dead"} /\ Fenced(p)
    BY DEF FailUnconfigured, ClearPending, RequeueClaimed, FinishRecovery
  <1>3. pc'[p] = "idle" /\ OthersSame(p)
    BY <1>2, LeaveOthers DEF TypeInv
  <1>4. ASSUME NEW d \in Document, Update(p, d), Replaces(job[p], copy[p], d)
        PROVE  RecordInv' /\ TerminalStep
    BY <1>2, <1>3, <1>4, WriteRecordInv DEF OwnerSteps
  <1>5. CASE FailUnconfigured(p)
    <2> DEFINE d == [copy[p] EXCEPT !.state = "failed"]
    <2>1. /\ d.state = "failed" /\ d.token = copy[p].token /\ copy[p].state = "claimed"
          /\ d.pending = copy[p].pending /\ d.event = copy[p].event
          /\ d \in Document /\ Update(p, d)
      BY <1>1, <1>5, StateChangeType DEF FailUnconfigured, Document, Knows, ExecutionState
    <2> HIDE DEF d
    <2>2. Replaces(job[p], copy[p], d)
      BY <1>1, <2>1, SlotKept DEF VerificationStates, Terminal
    <2>3. QED
      BY <1>4, <2>1, <2>2
  <1>6. CASE RequeueClaimed(p)
    <2> DEFINE d == [copy[p] EXCEPT !.state = "queued", !.lease = FALSE]
    <2>1. copy[p].state = "claimed" /\ d \in Document /\ Update(p, d)
      BY <1>1, <1>6, RequeueType DEF RequeueClaimed
    <2>2. /\ d.state = "queued" /\ d.token = copy[p].token
          /\ d.pending = copy[p].pending /\ d.event = copy[p].event
      BY <1>1 DEF Document
    <2> HIDE DEF d
    <2>3. Replaces(job[p], copy[p], d)
      BY <1>1, <2>1, <2>2, SlotKept DEF VerificationStates, Terminal
    <2>4. QED
      BY <1>4, <2>1, <2>3
  <1>7. CASE FinishRecovery(p)
    <2> DEFINE s == RecoveredState(outcome[p])
               d == [copy[p] EXCEPT !.state = s]
    <2>1. /\ copy[p].state \in Incomplete /\ pc[p] = "looked_up"
          /\ s \in {"verification_pending", "failed", "reconciliation_required"}
          /\ s = "verification_pending" => outcome[p] = "found_accepted"
      BY <1>1, <1>7 DEF FinishRecovery, Knows, RecoveredState
    <2>2. d \in Document /\ Update(p, d)
      BY <1>1, <1>7, <2>1, StateChangeType DEF FinishRecovery, ExecutionState
    <2>3. /\ d.state = s /\ d.token = copy[p].token
          /\ d.pending = copy[p].pending /\ d.event = copy[p].event
      BY <1>1 DEF Document
    <2>4. s = "verification_pending" => accepted[job[p]] > 0
      BY <1>1, <2>1 DEF Witnessed
    <2> HIDE DEF d, s
    <2>5. Replaces(job[p], copy[p], d)
      BY <1>1, <2>1, <2>2, <2>3, <2>4, SlotKept DEF VerificationStates, Terminal, Incomplete
    <2>6. QED
      BY <1>4, <2>2, <2>5
  <1>8. CASE ClearPending(p)
    <2> DEFINE d == [copy[p] EXCEPT !.pending = FALSE]
    <2>1. d \in Document /\ Update(p, d)
      BY <1>1, <1>8, ClearType DEF ClearPending
    <2>2. /\ d.state = copy[p].state /\ d.token = copy[p].token
          /\ d.pending = FALSE /\ d.event = copy[p].event
      BY <1>1 DEF Document
    <2>3. Delivered(job[p], copy[p]) \/ copy[p].event.kind \in Verdicts
      BY <1>1, <1>8 DEF ClearPending, Witnessed
    <2>4. d.state \in VerificationStates => accepted[job[p]] > 0
      BY <1>1, <2>2 DEF Witnessed, Backed
    <2> HIDE DEF d
    <2>5. Replaces(job[p], copy[p], d)
      BY <2>2, <2>3, <2>4 DEF Replaces, Told, Delivered
    <2>6. QED
      BY <1>4, <2>1, <2>5
  <1>9. QED
    BY <1>5, <1>6, <1>7, <1>8

LEMMA ReadRecordInv ==
  ASSUME TypeInv, TypeInv', RecordInv, NEW p \in Procs, NEW e \in Executions,
         \/ p \in Workers /\ PollQueued(p, e)
         \/ VerifyRead(p, e) \/ RepairRead(p, e) \/ RecoverRead(p, e)
  PROVE  RecordInv' /\ TerminalStep
  <1>1. PICK s \in {"polled", "verifying", "repairing", "recovering"} :
          Load(p, e, s) /\ (s = "polled" => p \in Workers)
    BY DEF PollQueued, VerifyRead, RepairRead, RecoverRead
  <1>2. Moves(p, s, e, doc[e], outcome[p])
    BY <1>1 DEF Load, Moves, TypeInv, LocalType
  <1>3. /\ UNCHANGED <<doc, clobbered, promised>> /\ events' = events /\ accepted' = accepted
    BY <1>1 DEF Load, store, provider
  <1>4. Grows
    BY <1>3 DEF Grows, TypeInv, StoreType, Document
  <1>5. /\ pc'[p] = s /\ job'[p] = e /\ copy'[p] = doc[e] /\ OthersSame(p)
    BY <1>2, MoveOthers DEF TypeInv
  <1>6. PICK d \in Document : doc[e] = d
    BY DEF TypeInv, StoreType
  <1>7. Backed(e, d)'
    BY <1>4, <1>6, BackedStays DEF RecordInv
  <1>8. Witnessed(p)'
    BY <1>1, <1>5, <1>6, <1>7 DEF Witnessed
  <1>9. QED
    BY <1>3, <1>4, <1>5, <1>8, QuietRecordInv DEF OwnerSteps

\* A step of p that writes no document and keeps its copy.
LEMMA StayRecordInv ==
  ASSUME TypeInv, TypeInv', RecordInv, NEW p \in Procs, Grows,
         pc[p] \notin {"idle", "dead"},
         NEW s \in Steps, NEW o \in Outcomes \cup Lookups \cup {"none"},
         Moves(p, s, job[p], copy[p], o),
         UNCHANGED <<doc, clobbered, promised>>,
         s \notin {"polled", "claimed", "started", "recorded"},
         s \in OwnerSteps => pc[p] \in OwnerSteps,
         s = "executed" => pc[p] = "started",
         (s = "executed" /\ o = "accepted") \/ (s = "looked_up" /\ o = "found_accepted")
           => accepted'[job[p]] > 0,
         s = "appended" => pc[p] = "recorded",
         s = "repaired" \/ (s = "appended" /\ p \notin Verifiers)
           => [id |-> job[p], stream |-> "remediation_action",
               event |-> copy[p].event] \in events'
  PROVE  RecordInv' /\ TerminalStep
  <1>1. PICK e \in Executions, d \in Document : job[p] = e /\ copy[p] = d
    BY Holds
  <1>2. /\ pc'[p] = s /\ job'[p] = e /\ copy'[p] = d /\ outcome'[p] = o /\ OthersSame(p)
        /\ Witnessed(p)
    BY <1>1, MoveOthers DEF TypeInv, RecordInv
  <1>3. Backed(e, d)'
    BY <1>1, <1>2, BackedStays DEF Witnessed
  <1>4. Witnessed(p)'
    BY <1>1, <1>2, <1>3 DEF Witnessed, Delivered
  <1>5. QED
    BY <1>1, <1>2, <1>4, QuietRecordInv

LEMMA AppendRecordInv ==
  ASSUME TypeInv, TypeInv', RecordInv, NEW p \in Procs, AppendEvent(p) \/ RepairAppend(p)
  PROVE  RecordInv' /\ TerminalStep
  <1>1. /\ UNCHANGED <<doc, clobbered, promised>> /\ accepted' = accepted
        /\ events \subseteq events' /\ pc[p] \notin {"idle", "dead"}
        /\ outcome[p] \in Outcomes \cup Lookups \cup {"none"}
    BY Holds DEF AppendEvent, RepairAppend, Append, provider
  <1>2. Grows
    BY <1>1 DEF Grows, TypeInv, StoreType, Document
  <1>3. CASE AppendEvent(p)
    <2>1. /\ Moves(p, "appended", job[p], copy[p], outcome[p]) /\ pc[p] = "recorded"
          /\ p \notin Verifiers => [id |-> job[p], stream |-> "remediation_action",
                                    event |-> copy[p].event] \in events'
      BY <1>3, GotoMoves DEF AppendEvent, Append, StreamOf, TypeInv
    <2>2. QED
      BY <1>1, <1>2, <2>1, StayRecordInv DEF OwnerSteps, Steps
  <1>4. CASE RepairAppend(p)
    <2>1. /\ Moves(p, "repaired", job[p], copy[p], outcome[p])
          /\ [id |-> job[p], stream |-> "remediation_action",
              event |-> copy[p].event] \in events'
      BY <1>4, GotoMoves DEF RepairAppend, Append, TypeInv
    <2>2. QED
      BY <1>1, <1>2, <2>1, StayRecordInv DEF OwnerSteps, Steps
  <1>5. QED
    BY <1>3, <1>4

LEMMA LookupRecordInv ==
  ASSUME TypeInv, TypeInv', RecordInv, NEW p \in Procs, Lookup(p)
  PROVE  RecordInv' /\ TerminalStep
  <1>1. PICK o \in LookupAnswers(p) : outcome' = [outcome EXCEPT ![p] = o]
    BY DEF Lookup
  <1>2. Moves(p, "looked_up", job[p], copy[p], o) /\ pc[p] = "taken_over"
    BY <1>1 DEF Lookup, Goto, Moves, TypeInv, LocalType
  <1>3. /\ UNCHANGED <<doc, clobbered, promised>> /\ accepted' = accepted /\ events' = events
    BY DEF Lookup, store, provider
  <1>4. Grows
    BY <1>3 DEF Grows, TypeInv, StoreType, Document
  <1>5. o = "found_accepted" => accepted'[job[p]] > 0
    BY <1>3 DEF LookupAnswers
  <1>6. o \in Lookups
    BY DEF LookupAnswers, Lookups
  <1>7. QED
    BY <1>2, <1>3, <1>4, <1>5, <1>6, StayRecordInv DEF OwnerSteps, Steps

LEMMA ExecuteRecordInv ==
  ASSUME TypeInv, TypeInv', RecordInv, NEW p \in Procs, Execute(p)
  PROVE  RecordInv' /\ TerminalStep
  <1>1. PICK o \in Outcomes : \E n \in Effect(o) :
          /\ outcome' = [outcome EXCEPT ![p] = o]
          /\ accepted' = [accepted EXCEPT ![job[p]] = @ + n]
    BY DEF Execute
  <1>2. PICK n \in Effect(o) :
          /\ outcome' = [outcome EXCEPT ![p] = o]
          /\ accepted' = [accepted EXCEPT ![job[p]] = @ + n]
    BY <1>1
  <1>3. n \in {0, 1} /\ (o = "accepted" => n = 1)
    BY DEF Effect, Uncertain
  <1>4. Moves(p, "executed", job[p], copy[p], o) /\ pc[p] = "started"
        /\ job[p] \in Executions
    BY <1>2, Holds DEF Execute, Goto, Moves, TypeInv, LocalType
  <1>5. /\ UNCHANGED <<doc, clobbered, promised>> /\ events' = events
    BY DEF Execute, store
  <1>6. /\ \A e \in Executions : accepted[e] <= accepted'[e]
        /\ accepted'[job[p]] = accepted[job[p]] + n /\ accepted[job[p]] \in Nat
    BY <1>2, <1>3, <1>4 DEF TypeInv, StoreType
  <1>7. Grows
    BY <1>5, <1>6 DEF Grows, TypeInv, StoreType, Document
  <1>8. o = "accepted" => accepted'[job[p]] > 0
    BY <1>3, <1>6
  <1>9. QED
    BY <1>4, <1>5, <1>7, <1>8, StayRecordInv DEF OwnerSteps, Steps

LEMMA DropRecordInv ==
  ASSUME TypeInv, TypeInv', RecordInv, NEW p \in Procs,
         HeartbeatLost(p) \/ AppendFails(p) \/ FenceConflict(p) \/ Restart(p) \/ Crash(p)
  PROVE  RecordInv' /\ TerminalStep
  <1>1. PICK s \in {"idle", "dead"} : Leave(p, s)
    BY DEF HeartbeatLost, AppendFails, FenceConflict, Restart, Crash
  <1>2. UNCHANGED <<doc, clobbered, promised>> /\ events' = events /\ accepted' = accepted
    BY DEF HeartbeatLost, AppendFails, FenceConflict, Restart, Crash, store, provider
  <1>3. Grows
    BY <1>2 DEF Grows, TypeInv, StoreType, Document
  <1>4. pc'[p] = s /\ OthersSame(p)
    BY <1>1, LeaveOthers DEF TypeInv
  <1>5. QED
    BY <1>2, <1>3, <1>4, QuietRecordInv DEF OwnerSteps

LEMMA InitRecordInv == Init => RecordInv
  BY ExecutionAssumption
     DEF Init, RecordInv, Backed, Told, VerificationStates, Queued, NoEvent,
         FenceIsExclusive, OwnerSteps

LEMMA NextRecordInv ==
  TypeInv /\ TypeInv' /\ RecordInv /\ [Next]_vars => RecordInv' /\ TerminalStep
  <1> SUFFICES ASSUME TypeInv, TypeInv', RecordInv, [Next]_vars
               PROVE  RecordInv' /\ TerminalStep
    OBVIOUS
  <1>1. CASE UNCHANGED vars
    BY <1>1 DEF RecordInv, Witnessed, Backed, Told, Delivered, FailureKept, FenceIsExclusive,
                TerminalStep, vars, store, provider, local
  <1>2. CASE Next
    <2>1. PICK p \in Procs : ProcStep(p)
      BY <1>2, NextIsProcStep
    <2>2. QED
      BY <2>1, ReadRecordInv, ClaimRecordInv, StartRecordInv, ExecuteRecordInv,
         RecordOutcomeRecordInv, VerifyRecordRecordInv, AppendRecordInv,
         TakeOverRecordInv, LookupRecordInv, LastWriteRecordInv, DropRecordInv
         DEF ProcStep, WorkerStep, ReconcilerStep, EvidenceStep
  <1>3. QED
    BY <1>1, <1>2

LEMMA RecordInvAlways == Spec => [](TypeInv /\ RecordInv)
  <1>1. Init => TypeInv /\ RecordInv
    BY InitTypeInv, InitRecordInv
  <1>2. TypeInv /\ RecordInv /\ [Next]_vars => (TypeInv /\ RecordInv)'
    BY NextTypeInv, NextRecordInv
  <1>3. QED
    BY <1>1, <1>2, PTL DEF Spec

\* No two processes ever act on one execution under the same fence token:
\* claim and recover_expired issue a token above every token that is held.
THEOREM ExclusiveFence == Spec => []FenceIsExclusive
  <1>1. RecordInv => FenceIsExclusive
    BY DEF RecordInv
  <1>2. QED
    BY <1>1, RecordInvAlways, PTL

\* An execution reaches verification only if the provider carried it out,
\* even where stale copies overwrite newer documents.
THEOREM VerifiedHadEffect == Spec => []VerificationNeedsEffect
  <1>1. RecordInv => VerificationNeedsEffect
    BY DEF RecordInv, Backed, VerificationNeedsEffect, VerificationStates
  <1>2. QED
    BY <1>1, RecordInvAlways, PTL

\* Evidence that a document announced and stops announcing was delivered,
\* and the evidence of a final failure is never overwritten before.
THEOREM EvidenceKept == Spec => []EvidenceIsKept
  <1>1. RecordInv => EvidenceIsKept
    <2>1. RecordInv => ClearedMeansDelivered
      BY DEF RecordInv, Backed, Told, Delivered, ClearedMeansDelivered
    <2>2. RecordInv => FailureEvidenceSurvives
      BY DEF RecordInv, FailureKept, FailureEvidenceSurvives
    <2>3. QED
      BY <2>1, <2>2 DEF EvidenceIsKept
  <1>2. QED
    BY <1>1, RecordInvAlways, PTL

\* A terminal state is left only by a write from a stale copy.
THEOREM TerminalStates == Spec => TerminalStableUnlessClobbered
  <1>1. TypeInv /\ TypeInv' /\ RecordInv /\ [Next]_vars =>
          [\A e \in Executions : doc[e].state \in Terminal =>
             doc'[e].state = doc[e].state \/ e \in clobbered']_vars
    BY NextRecordInv DEF TerminalStep
  <1>2. QED
    BY <1>1, RecordInvAlways, PTL DEF Spec, TerminalStableUnlessClobbered

-----------------------------------------------------------------------------
(* The refinement: each step opens, submits, concludes or forgets an        *)
(* execution of ExecutionContract, or does nothing there.                   *)

Implements == [Contract!CNext]_(Contract!cvars)

\* How a write that starts from the current document changes its state.
Lawful(old, new) ==
  \/ new = old
  \/ old \notin Answered /\ new \notin Verdicts
  \/ old = "verification_pending" /\ new \in Verdicts

LEMMA BarStutters ==
  ASSUME UNCHANGED <<doc, clobbered, provider>>
  PROVE  Implements
  BY DEF Implements, Contract!cvars, answerBar, Unless, provider

LEMMA Cleanly ==
  ASSUME TypeInv, EffectInv, RecordInv, NEW e \in Executions, e \notin clobbered
  PROVE  /\ accepted[e] \in {0, 1} /\ calls[e] \in Nat
         /\ doc[e].state \in VerificationStates => accepted[e] = 1
         /\ doc[e].state = "failed" => accepted[e] = 0
  <1>1. accepted[e] \in Nat /\ calls[e] \in Nat /\ accepted[e] <= 1
    BY DEF TypeInv, StoreType, EffectInv, Clean
  <1>2. doc[e].state \in VerificationStates => accepted[e] > 0
    BY DEF RecordInv, Backed
  <1>3. QED
    BY <1>1, <1>2 DEF EffectInv, Clean

\* A write concludes the execution, forgets it, or leaves its answer.
LEMMA WriteImplements ==
  ASSUME TypeInv, EffectInv, RecordInv, TypeInv', EffectInv', RecordInv',
         NEW p \in Procs, pc[p] \notin {"idle", "dead"},
         NEW d, Update(p, d), UNCHANGED provider, Lawful(copy[p].state, d.state)
  PROVE  Implements
  <1>1. PICK e \in Executions : e = job[p]
    BY Holds
  <1>2. /\ doc' = [doc EXCEPT ![e] = d] /\ doc'[e] = d
        /\ \A x \in Executions \ {e} : doc'[x] = doc[x]
        /\ clobbered' = IF copy[p] = doc[e] THEN clobbered ELSE clobbered \cup {e}
    BY <1>1 DEF Update, TypeInv, StoreType
  <1>3. calls' = calls /\ accepted' = accepted
    BY DEF provider
  <1>4. CASE e \in clobbered
    <2>1. clobbered' = clobbered
      BY <1>2, <1>4
    <2>2. answerBar' = answerBar
      BY <1>2, <1>4, <2>1 DEF answerBar
    <2>3. Unless(calls)' = Unless(calls) /\ Unless(accepted)' = Unless(accepted)
      BY <1>3, <2>1 DEF Unless
    <2>4. QED
      BY <2>2, <2>3 DEF Implements, Contract!cvars
  <1>5. CASE e \notin clobbered /\ e \in clobbered'
    <2>1. answerBar' = [answerBar EXCEPT ![e] = "unknown"]
      <3>1. \A x \in Executions \ {e} : x \in clobbered' <=> x \in clobbered
        BY <1>2
      <3>2. \A x \in Executions : answerBar'[x] = IF x = e THEN "unknown" ELSE answerBar[x]
        BY <1>2, <1>5, <3>1 DEF answerBar
      <3>3. QED
        BY <3>2 DEF answerBar
    <2>2. /\ Unless(calls)' = [Unless(calls) EXCEPT ![e] = 0]
          /\ Unless(accepted)' = [Unless(accepted) EXCEPT ![e] = 0]
      BY <1>2, <1>3, <1>5 DEF Unless
    <2>3. Contract!Forget(e)
      BY <2>1, <2>2 DEF Contract!Forget
    <2>4. QED
      BY <2>3 DEF Implements, Contract!CNext
  <1>6. CASE e \notin clobbered'
    <2>1. clobbered' = clobbered /\ copy[p] = doc[e]
      BY <1>2, <1>6
    <2>2. Lawful(doc[e].state, d.state)
      BY <2>1
    <2>3. Unless(calls)' = Unless(calls) /\ Unless(accepted)' = Unless(accepted)
      BY <1>3, <2>1 DEF Unless
    <2>4. /\ answerBar[e] = IF doc[e].state \in Answered THEN doc[e].state ELSE "open"
          /\ answerBar' = [answerBar EXCEPT ![e] = IF d.state \in Answered THEN d.state ELSE "open"]
      <3>1. \A x \in Executions :
              answerBar'[x] = IF x = e THEN IF d.state \in Answered THEN d.state ELSE "open"
                              ELSE answerBar[x]
        BY <1>2, <1>6, <2>1 DEF answerBar
      <3>2. QED
        BY <1>6, <2>1, <3>1 DEF answerBar
    <2>5. /\ Unless(accepted)[e] = accepted[e] /\ accepted'[e] = accepted[e]
          /\ accepted[e] \in {0, 1}
          /\ d.state \in VerificationStates => accepted[e] = 1
          /\ d.state = "failed" => accepted[e] = 0
      <3>1. accepted[e] \in {0, 1} /\ e \notin clobbered
        BY <1>6, <2>1, Cleanly
      <3>2. d.state \in VerificationStates => accepted'[e] > 0
        BY <1>2 DEF RecordInv, Backed
      <3>3. d.state = "failed" => accepted'[e] = 0
        BY <1>2, <1>6 DEF EffectInv, Clean
      <3>4. QED
        BY <1>3, <3>1, <3>2, <3>3 DEF Unless
    <2>6. CASE answerBar' = answerBar
      BY <2>3, <2>6 DEF Implements, Contract!cvars
    <2>7. CASE answerBar' # answerBar
      <3>1. d.state \in Answered /\ d.state # doc[e].state
        <4>1. CASE d.state = doc[e].state
          <5>1. answerBar' = [answerBar EXCEPT ![e] = answerBar[e]]
            BY <2>4, <4>1
          <5>2. QED
            BY <2>7, <5>1 DEF answerBar
        <4>2. CASE d.state \notin Answered
          <5>1. d.state = doc[e].state \/ doc[e].state \notin Answered
            BY <2>2, <4>2 DEF Lawful, Answered, Terminal, Verdicts
          <5>2. answerBar' = [answerBar EXCEPT ![e] = answerBar[e]]
            BY <2>4, <4>2, <5>1
          <5>3. QED
            BY <2>7, <5>2 DEF answerBar
        <4>3. QED
          BY <4>1, <4>2
      <3>2. answerBar' = [answerBar EXCEPT ![e] = d.state]
        BY <2>4, <3>1
      <3>3. \/ answerBar[e] = "open" /\ d.state = "verification_pending" /\ accepted[e] = 1
            \/ answerBar[e] = "open" /\ d.state = "failed" /\ accepted[e] = 0
            \/ answerBar[e] = "verification_pending" /\ d.state \in Verdicts
        BY <2>2, <2>4, <2>5, <3>1 DEF Lawful, Answered, Terminal, Verdicts, VerificationStates
      <3>4. Contract!Conclude(e, d.state)
        BY <2>3, <2>5, <3>2, <3>3 DEF Contract!Conclude, Verdicts
      <3>5. d.state \in {"verification_pending", "failed", "verified", "verification_failed"}
        BY <3>1 DEF Answered, Terminal
      <3>6. QED
        BY <3>4, <3>5 DEF Implements, Contract!CNext
    <2>8. QED
      BY <2>6, <2>7
  <1>7. QED
    BY <1>4, <1>5, <1>6

\* A call of the provider is a submission: its worker has left RUNNING behind it,
\* and nobody has called for this attempt before or concluded anything.
LEMMA ExecuteImplements ==
  ASSUME TypeInv, EffectInv, RecordInv, NEW p \in Procs, Execute(p)
  PROVE  Implements
  <1>1. PICK e \in Executions : e = job[p]
    BY Holds DEF Execute
  <1>2. PICK o \in Outcomes : \E n \in Effect(o) :
          /\ calls' = [calls EXCEPT ![job[p]] = @ + 1]
          /\ accepted' = [accepted EXCEPT ![job[p]] = @ + n]
    BY DEF Execute
  <1>3. PICK n \in {0, 1} : /\ calls' = [calls EXCEPT ![e] = @ + 1]
                            /\ accepted' = [accepted EXCEPT ![e] = @ + n]
    BY <1>1, <1>2, EffectType
  <1>4. doc' = doc /\ clobbered' = clobbered /\ pc[p] = "started"
    BY DEF Execute, store
  <1>5. answerBar' = answerBar
    BY <1>4 DEF answerBar
  <1>6. calls \in [Executions -> Nat] /\ accepted \in [Executions -> Nat]
    BY DEF TypeInv, StoreType
  <1>7. CASE e \in clobbered
    <2>1. Unless(calls)' = Unless(calls) /\ Unless(accepted)' = Unless(accepted)
      BY <1>3, <1>4, <1>6, <1>7 DEF Unless
    <2>2. QED
      BY <1>5, <2>1 DEF Implements, Contract!cvars
  <1>8. CASE e \notin clobbered
    <2>1. AtProvider(p, e) /\ CleanProc(p, e)
      BY <1>1, <1>4, <1>8 DEF AtProvider, EffectInv, Clean
    <2>2. accepted[e] = 0 /\ calls[e] < doc[e].attempt /\ doc[e].state # "failed"
      BY <1>4, <2>1 DEF CleanProc
    <2>3. doc[e].state \notin Answered
      BY <1>8, <2>2, Cleanly DEF Answered, Terminal, VerificationStates
    <2>4. answerBar[e] = "open" /\ Unless(accepted)[e] = 0 /\ Unless(calls)[e] = calls[e]
      BY <1>8, <2>2, <2>3 DEF answerBar, Unless
    <2>5. calls[e] < MaxAttempts
      BY <1>6, <2>2, ExecutionAssumption DEF TypeInv, StoreType, Document
    <2>6. Unless(calls)' = [Unless(calls) EXCEPT ![e] = @ + 1]
      BY <1>3, <1>4, <1>6, <1>8 DEF Unless
    <2>7. accepted'[e] = n
      BY <1>3, <1>6, <2>2
    <2>8. Unless(accepted)' = [Unless(accepted) EXCEPT ![e] = n]
      BY <1>3, <1>4, <1>6, <1>8, <2>7 DEF Unless
    <2>9. Contract!Submit(e, n)
      BY <1>5, <2>4, <2>5, <2>6, <2>8 DEF Contract!Submit
    <2>10. QED
      BY <2>9 DEF Implements, Contract!CNext
  <1>9. QED
    BY <1>7, <1>8

\* Every other step writes a document lawfully, or none.
LEMMA StepWrites ==
  ASSUME TypeInv, NEW p \in Procs, ProcStep(p)
  PROVE  \/ Execute(p)
         \/ UNCHANGED <<doc, clobbered, provider>>
         \/ /\ pc[p] \notin {"idle", "dead"} /\ UNCHANGED provider
            /\ \E d : Update(p, d) /\ Lawful(copy[p].state, d.state)
  <1> DEFINE Writes == /\ pc[p] \notin {"idle", "dead"} /\ UNCHANGED provider
                       /\ \E d : Update(p, d) /\ Lawful(copy[p].state, d.state)
  <1>1. CASE Claim(p) \/ Start(p) \/ RecordOutcome(p) \/ VerifyRecord(p) \/ TakeOver(p)
             \/ FailUnconfigured(p) \/ ClearPending(p) \/ RequeueClaimed(p) \/ FinishRecovery(p)
    <2>0. pc[p] \notin {"idle", "dead"} /\ UNCHANGED provider
      BY <1>1 DEF Claim, Start, RecordOutcome, VerifyRecord, TakeOver, FailUnconfigured, ClearPending,
         RequeueClaimed, FinishRecovery
    <2>1. copy[p] \in Document /\ Knows(pc[p], copy[p], outcome[p]) /\ HasBudget(copy[p])
      BY <2>0, Holds
    <2>2. CASE Claim(p)
      <3>1. copy[p].state = "queued" /\ copy[p].token < MaxToken /\ Update(p, ClaimedDocument(copy[p]))
        BY <2>1, <2>2 DEF Claim, Knows
      <3>2. Lawful("queued", ClaimedDocument(copy[p]).state)
        BY <2>1, <3>1, ClaimedType DEF Lawful, Answered, Terminal, Verdicts
      <3>3. QED
        BY <2>0, <3>1, <3>2
    <2>3. CASE Start(p)
      <3>1. copy[p].state = "claimed" /\ Update(p, StartedDocument(copy[p]))
        BY <2>1, <2>3 DEF Start, Knows
      <3>2. Lawful("claimed", StartedDocument(copy[p]).state)
        BY <2>1, <3>1, StartedType DEF Lawful, Answered, Terminal, Verdicts
      <3>3. QED
        BY <2>0, <3>1, <3>2
    <2>4. CASE RecordOutcome(p)
      <3>1. /\ copy[p].state = "running" /\ outcome[p] \in Outcomes
            /\ Update(p, RecordedDocument(copy[p], outcome[p]))
        BY <2>1, <2>4 DEF RecordOutcome, Knows
      <3>2. RecordedDocument(copy[p], outcome[p]).state = NextState(copy[p], outcome[p])
        BY <2>1 DEF RecordedDocument, Document
      <3>3. Lawful("running", NextState(copy[p], outcome[p]))
        BY <2>1, <3>1, NextStateType DEF Lawful, Answered, Terminal, Verdicts
      <3>4. QED
        BY <2>0, <3>1, <3>2, <3>3
    <2>5. CASE VerifyRecord(p)
      <3>1. PICK verdict \in Verdicts : Update(p, VerifiedDocument(copy[p], verdict))
        BY <2>5 DEF VerifyRecord
      <3>2. copy[p].state = "verification_pending"
        BY <2>1, <2>5 DEF VerifyRecord, Knows
      <3>3. VerifiedDocument(copy[p], verdict).state = verdict
        BY <2>1 DEF VerifiedDocument, Document
      <3>4. QED
        BY <2>0, <3>1, <3>2, <3>3 DEF Lawful
    <2>6. CASE TakeOver(p)
      <3>1. copy[p].token < MaxToken /\ Update(p, TakenOverDocument(copy[p]))
        BY <2>1, <2>6 DEF TakeOver, Knows
      <3>2. QED
        BY <2>0, <2>1, <3>1, TakenOverType DEF Lawful
    <2>7. CASE FailUnconfigured(p)
      <3>1. copy[p].state = "claimed" /\ Update(p, [copy[p] EXCEPT !.state = "failed"])
        BY <2>1, <2>7 DEF FailUnconfigured, Knows
      <3>2. [copy[p] EXCEPT !.state = "failed"].state = "failed"
        BY <2>1 DEF Document
      <3>3. QED
        BY <2>0, <3>1, <3>2 DEF Lawful, Answered, Terminal, Verdicts
    <2>8. CASE ClearPending(p)
      <3>1. Update(p, [copy[p] EXCEPT !.pending = FALSE])
        BY <2>8 DEF ClearPending
      <3>2. [copy[p] EXCEPT !.pending = FALSE].state = copy[p].state
        BY <2>1 DEF Document
      <3>3. QED
        BY <2>0, <3>1, <3>2 DEF Lawful
    <2>9. CASE RequeueClaimed(p)
      <3>1. copy[p].state = "claimed" /\ Update(p, [copy[p] EXCEPT !.state = "queued", !.lease = FALSE])
        BY <2>9 DEF RequeueClaimed
      <3>2. [copy[p] EXCEPT !.state = "queued", !.lease = FALSE].state = "queued"
        BY <2>1 DEF Document
      <3>3. QED
        BY <2>0, <3>1, <3>2 DEF Lawful, Answered, Terminal, Verdicts
    <2>10. CASE FinishRecovery(p)
      <3>1. /\ copy[p].state \in Incomplete
            /\ Update(p, [copy[p] EXCEPT !.state = RecoveredState(outcome[p])])
        BY <2>1, <2>10 DEF FinishRecovery, Knows
      <3>2. [copy[p] EXCEPT !.state = RecoveredState(outcome[p])].state = RecoveredState(outcome[p])
        BY <2>1 DEF Document
      <3>3. RecoveredState(outcome[p]) \in {"verification_pending", "failed", "reconciliation_required"}
        BY DEF RecoveredState
      <3>4. QED
        BY <2>0, <3>1, <3>2, <3>3 DEF Lawful, Answered, Terminal, Verdicts, Incomplete
    <2>11. QED
      BY <1>1, <2>2, <2>3, <2>4, <2>5, <2>6, <2>7, <2>8, <2>9, <2>10
  <1>2. CASE \/ \E e \in Executions : PollQueued(p, e) \/ VerifyRead(p, e) \/ RepairRead(p, e)
                                      \/ RecoverRead(p, e)
             \/ AppendEvent(p) \/ RepairAppend(p) \/ Lookup(p) \/ HeartbeatLost(p) \/ AppendFails(p)
             \/ FenceConflict(p) \/ Restart(p) \/ Crash(p)
    BY <1>2 DEF PollQueued, VerifyRead, RepairRead, RecoverRead, Load, AppendEvent, RepairAppend, Lookup,
       HeartbeatLost, AppendFails, FenceConflict, Restart, Crash, store
  <1>3. QED
    BY <1>1, <1>2 DEF ProcStep, WorkerStep, ReconcilerStep, EvidenceStep

\* The runtime implements ExecutionContract: an execution whose writers all saw
\* what they replaced is submitted within its budget and never after an effect,
\* and is concluded once, as the provider's side says.
THEOREM ExecutionImplemented == Spec => ImplementsContract
  <1>1. Init => Contract!CInit
    BY DEF Init, Contract!CInit, answerBar, Unless, Queued, Answered, Terminal
  <1>2. ASSUME TypeInv, EffectInv, RecordInv, TypeInv', EffectInv', RecordInv', [Next]_vars
        PROVE  Implements
    <2>1. CASE UNCHANGED vars
      BY <2>1, BarStutters DEF vars, store
    <2>2. CASE Next
      <3>1. PICK p \in Procs : ProcStep(p)
        BY <2>2, NextIsProcStep
      <3>2. CASE Execute(p)
        BY <1>2, <3>2, ExecuteImplements
      <3>3. CASE UNCHANGED <<doc, clobbered, provider>>
        BY <3>3, BarStutters
      <3>4. CASE /\ pc[p] \notin {"idle", "dead"} /\ UNCHANGED provider
                 /\ \E d : Update(p, d) /\ Lawful(copy[p].state, d.state)
        BY <1>2, <3>4, WriteImplements
      <3>5. QED
        BY <1>2, <3>1, <3>2, <3>3, <3>4, StepWrites
    <2>3. QED
      BY <1>2, <2>1, <2>2
  <1>3. /\ TypeInv /\ EffectInv /\ RecordInv /\ (TypeInv /\ EffectInv /\ RecordInv)' /\ [Next]_vars
        => [Contract!CNext]_(Contract!cvars)
    BY <1>2 DEF Implements
  <1>4. QED
    BY <1>1, <1>3, EffectInvAlways, RecordInvAlways, PTL DEF Spec, ImplementsContract, Contract!CSpec
=============================================================================
