---------------------- MODULE RemediationApprovalProofs ----------------------
(***************************************************************************)
(* Theorems about RemediationApproval, for every set of requests, people   *)
(* and processes and every bound.                                          *)
(***************************************************************************)
EXTENDS RemediationApproval, TLAPS

(* The first inductive layer: types, which step works on which request, and *)
(* that a pending event always names the decision it stands for.            *)

Named(d) == d.pending => d.decision # "none"

JobType(p) ==
  /\ pc[p] # "idle" => job[p] \in Requests
  /\ pc[p] \notin {"idle", "publishing", "announcing"} => job[p] \in Approvals
  /\ pc[p] \in {"deciding", "delivering"} => copy[p].pending

TypeInv ==
  /\ TypeOK
  /\ \A a \in Approvals : Named(approval[a])
  /\ \A p \in Procs : JobType(p) /\ Named(copy[p])

-----------------------------------------------------------------------------
(* The documents that the actions prepare.                                 *)

\* d and c agree on who asked and who decided what.
SameDecision(c, d) ==
  /\ c.requester = d.requester /\ c.decidedBy = d.decidedBy
  /\ c.decision = d.decision

LEMMA Fields ==
  ASSUME NEW d \in Approval
  PROVE  /\ d.state \in ApprovalState /\ d.requester \in People \cup {Nobody}
         /\ d.decidedBy \in People \cup {Nobody}
         /\ d.decision \in Decisions \cup {"none"}
         /\ d.pending \in BOOLEAN /\ d.revision \in Nat
  BY DEF Approval

LEMMA AbsentFields ==
  /\ Absent \in Approval /\ Absent.state = "absent" /\ Absent.revision = 0
  /\ Absent.decision = "none" /\ Absent.pending = FALSE /\ Named(Absent)
  BY DEF Absent, Approval, ApprovalState, Named

LEMMA DecidedFields ==
  ASSUME NEW d \in Approval, NEW u \in People, NEW v \in Decisions
  PROVE  /\ Decided(d, u, v) \in Approval
         /\ Decided(d, u, v).state = v /\ Decided(d, u, v).decision = v
         /\ Decided(d, u, v).decidedBy = u /\ Decided(d, u, v).pending = TRUE
         /\ Decided(d, u, v).requester = d.requester
         /\ Decided(d, u, v).revision = d.revision
         /\ Named(Decided(d, u, v))
  BY DEF Decided, Approval, ApprovalState, Decisions, Named

\* c is d moved to another state.
Moved(c, d, s) ==
  /\ c \in Approval /\ c.state = s /\ SameDecision(c, d)
  /\ c.pending = d.pending /\ c.revision = d.revision
  /\ (Named(d) => Named(c))

LEMMA ChangedState ==
  ASSUME NEW d \in Approval, NEW s \in ApprovalState
  PROVE  Moved([d EXCEPT !.state = s], d, s)
  BY DEF Moved, Approval, SameDecision, Named

LEMMA StateFields ==
  ASSUME NEW d \in Approval
  PROVE  /\ Moved(ExpiredDocument(d), d, "expired")
         /\ Moved(ReservedDocument(d), d, "reserved")
         /\ Moved(ConsumedDocument(d), d, "consumed")
         /\ Moved(ReleasedDocument(d), d, "approved")
  <1>1. {"expired", "reserved", "consumed", "approved"} \subseteq ApprovalState
    BY DEF ApprovalState
  <1>2. QED
    BY <1>1, ChangedState
       DEF ExpiredDocument, ReservedDocument, ConsumedDocument, ReleasedDocument

LEMMA ClearedFields ==
  ASSUME NEW d \in Approval
  PROVE  /\ Cleared(d) \in Approval /\ Cleared(d).state = d.state
         /\ SameDecision(Cleared(d), d) /\ Cleared(d).pending = FALSE
         /\ Cleared(d).revision = d.revision /\ Named(Cleared(d))
  BY DEF Cleared, Approval, SameDecision, Named

LEMMA NextRevisionFields ==
  ASSUME NEW d \in Approval
  PROVE  /\ NextRevision(d) \in Approval /\ NextRevision(d).state = d.state
         /\ SameDecision(NextRevision(d), d)
         /\ NextRevision(d).pending = d.pending
         /\ NextRevision(d).revision = d.revision + 1
         /\ (Named(d) => Named(NextRevision(d)))
  <1> DEFINE n == d.revision + 1
  <1>1. n \in Nat
    BY Fields
  <1> HIDE DEF n
  <1>2. LET c == [d EXCEPT !.revision = n]
        IN  /\ c \in Approval /\ c.state = d.state /\ SameDecision(c, d)
            /\ c.pending = d.pending /\ c.revision = n /\ (Named(d) => Named(c))
    BY <1>1 DEF Approval, SameDecision, Named
  <1>3. QED
    BY <1>2 DEF NextRevision, n

LEMMA RequestedFields ==
  ASSUME NEW u \in People
  PROVE  LET c == [Absent EXCEPT !.state = "requested", !.requester = u]
         IN  /\ c \in Approval /\ c.state = "requested" /\ c.requester = u
             /\ c.decision = "none" /\ c.pending = FALSE /\ c.revision = 0
             /\ Named(c)
  BY DEF Absent, Approval, ApprovalState, Named

LEMMA AfterWriteSteps ==
  /\ AfterWrite["deciding"] = "delivering"
  /\ AfterWrite["expiring"] = "announcing_expiry"
  /\ AfterWrite["reserving"] = "publishing"
  /\ AfterWrite["consuming"] = "announcing"
  /\ AfterWrite["consuming_existing"] = "idle"
  /\ AfterWrite["releasing"] = "idle"
  /\ AfterWrite["clearing"] = "idle"
  BY DEF AfterWrite

-----------------------------------------------------------------------------
(* Process p moves; every other process keeps what it has.                 *)

Others(p) ==
  \A q \in Procs : q # p =>
    pc'[q] = pc[q] /\ job'[q] = job[q] /\ copy'[q] = copy[q]

LocalType ==
  /\ pc \in [Procs -> Steps]
  /\ job \in [Procs -> Requests \cup {NoRequest}]
  /\ copy \in [Procs -> Approval]

LEMMA BeginMoves ==
  ASSUME LocalType, NEW p \in Procs, NEW s \in Steps, NEW a \in Requests,
         NEW d \in Approval, Begin(p, s, a, d)
  PROVE  /\ LocalType' /\ Others(p) /\ pc[p] = "idle"
         /\ pc'[p] = s /\ job'[p] = a /\ copy'[p] = d
  BY DEF LocalType, Begin, Others

LEMMA GotoMoves ==
  ASSUME LocalType, NEW p \in Procs, NEW s \in Steps, NEW d \in Approval,
         Goto(p, s, d)
  PROVE  /\ LocalType' /\ Others(p)
         /\ pc'[p] = s /\ job'[p] = job[p] /\ copy'[p] = d
  BY DEF LocalType, Goto, Others

LEMMA DoneMoves ==
  ASSUME LocalType, NEW p \in Procs, Done(p)
  PROVE  /\ LocalType' /\ Others(p)
         /\ pc'[p] = "idle" /\ job'[p] = NoRequest /\ copy'[p] = Absent
  <1>1. "idle" \in Steps
    BY DEF Steps
  <1>2. QED
    BY <1>1, AbsentFields DEF LocalType, Done, Others

\* The parts of TypeInv that a step of p can disturb, when the approvals
\* stay as they are.
LEMMA TypeFrame ==
  ASSUME TypeInv, NEW p \in Procs, LocalType', Others(p),
         UNCHANGED approval,
         published' \subseteq Requests, expired' \subseteq Approvals,
         events' \subseteq [id : Requests, kind : EventKinds],
         crashes' \in 0..MaxCrashes,
         JobType(p)', Named(copy[p])'
  PROVE  TypeInv'
  <1>1. TypeOK'
    BY DEF TypeInv, TypeOK, LocalType
  <1>2. \A a \in Approvals : Named(approval[a])'
    BY DEF TypeInv, Named
  <1>3. ASSUME NEW q \in Procs PROVE JobType(q)' /\ Named(copy[q])'
    <2>1. CASE q = p
      BY <2>1
    <2>2. CASE q # p
      BY <2>2 DEF TypeInv, JobType, Named, Others
    <2>3. QED
      BY <2>1, <2>2
  <1>4. QED
    BY <1>1, <1>2, <1>3 DEF TypeInv

\* The same, for the steps that touch nothing but p and the clock.
LEMMA TypeQuiet ==
  ASSUME TypeInv, NEW p \in Procs, LocalType', Others(p),
         UNCHANGED durable, UNCHANGED expired, UNCHANGED crashes,
         JobType(p)', Named(copy[p])'
  PROVE  TypeInv'
  <1>1. /\ UNCHANGED approval /\ published' \subseteq Requests
        /\ expired' \subseteq Approvals
        /\ events' \subseteq [id : Requests, kind : EventKinds]
        /\ crashes' \in 0..MaxCrashes
    BY DEF durable, TypeInv, TypeOK
  <1>2. QED
    BY <1>1, TypeFrame

LEMMA TypeIdle ==
  ASSUME NEW p \in Procs, pc'[p] = "idle", copy'[p] = Absent
  PROVE  JobType(p)' /\ Named(copy[p])'
  <1>1. JobType(p)'
    BY DEF JobType
  <1>2. Named(copy'[p])
    BY AbsentFields
  <1>3. QED
    BY <1>1, <1>2 DEF Named

LEMMA StepNames ==
  /\ WriteSteps \subseteq Steps
  /\ {"idle", "announcing_request", "delivering", "announcing_expiry", "resuming",
      "publishing", "announcing", "checking"} \subseteq Steps
  /\ {"deciding", "expiring", "reserving", "consuming", "consuming_existing",
      "releasing", "clearing"} \subseteq WriteSteps
  BY DEF Steps, WriteSteps

-----------------------------------------------------------------------------
(* Type correctness.                                                       *)

LEMMA TypeInit == Init => TypeInv
  <1> SUFFICES ASSUME Init PROVE TypeInv
    OBVIOUS
  <1>1. TypeOK
    BY ApprovalAssumption, AbsentFields, StepNames DEF Init, TypeOK
  <1>2. QED
    BY <1>1, AbsentFields DEF Init, TypeInv, JobType

\* Work begins on an approval, on a copy d derived from its document.
LEMMA TypeBegins ==
  ASSUME TypeInv, NEW p \in Procs, NEW a \in Approvals, NEW s \in Steps,
         NEW d \in Approval, Named(d),
         s \in {"deciding", "delivering"} => d.pending,
         Begin(p, s, a, d), UNCHANGED <<durable, expired, crashes>>
  PROVE  TypeInv'
  <1>1. LocalType /\ a \in Requests
    BY DEF TypeInv, TypeOK, LocalType, Requests
  <1>2. /\ LocalType' /\ Others(p) /\ pc'[p] = s /\ job'[p] = a /\ copy'[p] = d
    BY <1>1, BeginMoves
  <1>3. JobType(p)' /\ Named(copy[p])'
    BY <1>1, <1>2 DEF JobType, Named
  <1>4. QED
    BY <1>2, <1>3, TypeQuiet

LEMMA TypeHandlerBegins ==
  ASSUME TypeInv, NEW h \in Handlers, HandlerBegins(h)
  PROVE  TypeInv'
  <1>1. h \in Procs /\ LocalType
    BY DEF Procs, TypeInv, TypeOK, LocalType
  <1>2. ASSUME NEW a \in Approvals, NEW u \in People, Request(h, a, u)
        PROVE  TypeInv'
    <2>1. /\ approval' \in [Approvals -> Approval] /\ Named(approval'[a])
          /\ \A b \in Approvals : Named(approval'[b])
      BY <1>2, RequestedFields DEF TypeInv, TypeOK, Request
    <2>2. /\ LocalType' /\ Others(h) /\ pc'[h] = "announcing_request"
          /\ job'[h] = a /\ copy'[h] = approval'[a]
      BY <1>1, <1>2, <2>1, BeginMoves, StepNames DEF Request, Requests
    <2>3. TypeOK'
      BY <1>2, <2>1, <2>2 DEF Request, TypeInv, TypeOK, LocalType
    <2>4. ASSUME NEW q \in Procs PROVE JobType(q)' /\ Named(copy[q])'
      <3>1. CASE q = h
        BY <2>1, <2>2, <3>1 DEF JobType, Named, Requests
      <3>2. CASE q # h
        BY <2>2, <3>2 DEF TypeInv, JobType, Named, Others
      <3>3. QED
        BY <3>1, <3>2
    <2>5. \A b \in Approvals : Named(approval[b])'
      BY <2>1 DEF Named
    <2>6. QED
      BY <2>3, <2>4, <2>5 DEF TypeInv
  <1>3. ASSUME NEW a \in Approvals PROVE approval[a] \in Approval /\ Named(approval[a])
    BY DEF TypeInv, TypeOK
  <1>4. ASSUME NEW a \in Approvals, NEW u \in People, NEW v \in Decisions,
               Decide(h, a, u, v)
        PROVE  TypeInv'
    <2>1. /\ Decided(approval[a], u, v) \in Approval
          /\ Named(Decided(approval[a], u, v)) /\ Decided(approval[a], u, v).pending
      BY <1>3, DecidedFields
    <2>2. QED
      BY <1>1, <1>4, <2>1, TypeBegins, StepNames DEF Decide
  <1>5. ASSUME NEW a \in Approvals, NEW u \in People, NEW v \in Decisions,
               DecideAgain(h, a, u, v)
        PROVE  TypeInv'
    BY <1>1, <1>3, <1>5, TypeBegins, StepNames DEF DecideAgain
  <1>6. ASSUME NEW a \in Approvals, DecideTooLate(h, a) \/ QueueTooLate(h, a)
        PROVE  TypeInv'
    <2>1. ExpiredDocument(approval[a]) \in Approval /\ Named(ExpiredDocument(approval[a]))
      BY <1>3, StateFields DEF Moved
    <2>2. QED
      BY <1>1, <1>6, <2>1, TypeBegins, StepNames DEF DecideTooLate, QueueTooLate
  <1>7. ASSUME NEW a \in Approvals, QueueApproved(h, a)
        PROVE  TypeInv'
    <2>1. ReservedDocument(approval[a]) \in Approval /\ Named(ReservedDocument(approval[a]))
      BY <1>3, StateFields DEF Moved
    <2>2. QED
      BY <1>1, <1>7, <2>1, TypeBegins, StepNames DEF QueueApproved
  <1>8. ASSUME NEW a \in Approvals, QueueReserved(h, a)
        PROVE  TypeInv'
    BY <1>1, <1>3, <1>8, TypeBegins, StepNames DEF QueueReserved
  <1>9. ASSUME NEW x \in Direct, QueueDirect(h, x)
        PROVE  TypeInv'
    <2>1. /\ LocalType' /\ Others(h) /\ pc'[h] = "publishing" /\ job'[h] = x
          /\ copy'[h] = Absent /\ x \in Requests
      BY <1>1, <1>9, BeginMoves, StepNames, AbsentFields DEF QueueDirect, Requests
    <2>2. Named(copy'[h])
      BY <2>1, AbsentFields
    <2>3. JobType(h)' /\ Named(copy[h])'
      BY <2>1, <2>2 DEF JobType, Named
    <2>4. QED
      BY <1>1, <1>9, <2>1, <2>3, TypeQuiet DEF QueueDirect
  <1>10. QED
    BY <1>2, <1>4, <1>5, <1>6, <1>7, <1>8, <1>9 DEF HandlerBegins

LEMMA TypeHandlerStep ==
  ASSUME TypeInv, NEW h \in Handlers, HandlerStep(h)
  PROVE  TypeInv'
  <1>1. h \in Procs /\ LocalType /\ copy[h] \in Approval /\ Named(copy[h])
        /\ JobType(h)
    BY DEF Procs, TypeInv, TypeOK, LocalType
  <1>2. CASE AnnounceRequest(h) \/ Announce(h)
    <2>1. LocalType' /\ Others(h) /\ pc'[h] = "idle" /\ copy'[h] = Absent
      BY <1>1, <1>2, DoneMoves DEF AnnounceRequest, Announce
    <2>2. job[h] \in Requests
      BY <1>1, <1>2 DEF JobType, AnnounceRequest, Announce
    <2>3. events' \subseteq [id : Requests, kind : EventKinds]
      BY <1>2, <2>2 DEF AnnounceRequest, Announce, Append, EventKinds, TypeInv, TypeOK
    <2>4. QED
      BY <1>1, <1>2, <2>1, <2>3, TypeIdle, TypeFrame
         DEF AnnounceRequest, Announce, TypeInv, TypeOK
  <1>3. CASE Resume(h)
    <2>1. ConsumedDocument(copy[h]) \in Approval /\ Named(ConsumedDocument(copy[h]))
      BY <1>1, StateFields DEF Moved
    <2>2. job[h] \in Approvals
      BY <1>1, <1>3 DEF JobType, Resume
    <2>3. /\ LocalType' /\ Others(h) /\ job'[h] = job[h]
          /\ pc'[h] \in {"consuming_existing", "publishing"} /\ Named(copy'[h])
      <3>1. CASE job[h] \in published
        BY <1>1, <1>3, <2>1, <3>1, GotoMoves, StepNames DEF Resume
      <3>2. CASE job[h] \notin published
        BY <1>1, <1>3, <3>2, GotoMoves, StepNames DEF Resume
      <3>3. QED
        BY <3>1, <3>2
    <2>4. JobType(h)' /\ Named(copy[h])'
      BY <2>2, <2>3 DEF JobType, Named, Requests
    <2>5. QED
      BY <1>1, <1>3, <2>3, <2>4, TypeQuiet DEF Resume
  <1>4. CASE Publish(h)
    <2>1. ConsumedDocument(copy[h]) \in Approval /\ Named(ConsumedDocument(copy[h]))
      BY <1>1, StateFields DEF Moved
    <2>2. job[h] \in Requests
      BY <1>1, <1>4 DEF JobType, Publish
    <2>3. /\ LocalType' /\ Others(h) /\ job'[h] = job[h] /\ Named(copy'[h])
          /\ \/ pc'[h] = "announcing"
             \/ pc'[h] = "consuming" /\ job[h] \in Approvals
      <3>1. CASE job[h] \in Direct
        BY <1>1, <1>4, <3>1, GotoMoves, StepNames DEF Publish
      <3>2. CASE job[h] \notin Direct
        <4>1. LocalType' /\ Others(h) /\ pc'[h] = "consuming" /\ job'[h] = job[h]
              /\ copy'[h] = ConsumedDocument(copy[h])
          BY <1>1, <1>4, <2>1, <3>2, GotoMoves, StepNames DEF Publish
        <4>2. QED
          BY <2>1, <2>2, <3>2, <4>1 DEF Requests
      <3>3. QED
        BY <3>1, <3>2
    <2>4. JobType(h)' /\ Named(copy[h])'
      BY <2>2, <2>3 DEF JobType, Named
    <2>5. published' \subseteq Requests
      BY <1>4, <2>2 DEF Publish, TypeInv, TypeOK
    <2>6. QED
      BY <1>1, <1>4, <2>3, <2>4, <2>5, TypeFrame DEF Publish, TypeInv, TypeOK
  <1>5. QED
    BY <1>2, <1>3, <1>4 DEF HandlerStep

LEMMA TypeReconcilerBegins ==
  ASSUME TypeInv, NEW r \in Reconcilers, NEW a \in Approvals, ReconcilerBegins(r, a)
  PROVE  TypeInv'
  <1>1. r \in Procs /\ approval[a] \in Approval /\ Named(approval[a])
    BY DEF Procs, TypeInv, TypeOK
  <1>2. CASE ReconcilePending(r, a)
    BY <1>1, <1>2, TypeBegins, StepNames DEF ReconcilePending
  <1>3. CASE ReconcileExpired(r, a)
    <2>1. ExpiredDocument(approval[a]) \in Approval /\ Named(ExpiredDocument(approval[a]))
      BY <1>1, StateFields DEF Moved
    <2>2. QED
      BY <1>1, <1>3, <2>1, TypeBegins, StepNames DEF ReconcileExpired
  <1>4. CASE ReconcileReserved(r, a)
    BY <1>1, <1>4, TypeBegins, StepNames DEF ReconcileReserved
  <1>5. QED
    BY <1>2, <1>3, <1>4 DEF ReconcilerBegins

LEMMA TypeReconcilerStep ==
  ASSUME TypeInv, NEW r \in Reconcilers, ReconcilerStep(r)
  PROVE  TypeInv'
  <1>1. r \in Procs /\ LocalType /\ copy[r] \in Approval /\ Named(copy[r])
        /\ JobType(r)
    BY DEF Procs, TypeInv, TypeOK, LocalType
  <1>2. CASE CheckFound(r) \/ CheckReleases(r)
    <2>1. /\ ConsumedDocument(copy[r]) \in Approval /\ Named(ConsumedDocument(copy[r]))
          /\ ReleasedDocument(copy[r]) \in Approval /\ Named(ReleasedDocument(copy[r]))
      BY <1>1, StateFields DEF Moved
    <2>2. job[r] \in Approvals
      BY <1>1, <1>2 DEF JobType, CheckFound, CheckReleases
    <2>3. /\ LocalType' /\ Others(r) /\ job'[r] = job[r] /\ Named(copy'[r])
          /\ pc'[r] \in {"consuming_existing", "releasing"}
      <3>1. CASE CheckFound(r)
        BY <1>1, <2>1, <3>1, GotoMoves, StepNames DEF CheckFound
      <3>2. CASE CheckReleases(r)
        BY <1>1, <2>1, <3>2, GotoMoves, StepNames DEF CheckReleases
      <3>3. QED
        BY <1>2, <3>1, <3>2
    <2>4. JobType(r)' /\ Named(copy[r])'
      BY <2>2, <2>3 DEF JobType, Named, Requests
    <2>5. QED
      BY <1>1, <1>2, <2>3, <2>4, TypeQuiet DEF CheckFound, CheckReleases
  <1>3. CASE CheckWaits(r)
    <2>1. LocalType' /\ Others(r) /\ pc'[r] = "idle" /\ copy'[r] = Absent
      BY <1>1, <1>3, DoneMoves DEF CheckWaits
    <2>2. QED
      BY <1>1, <1>3, <2>1, TypeIdle, TypeQuiet DEF CheckWaits
  <1>4. QED
    BY <1>2, <1>3 DEF ReconcilerStep

\* Where a compare-and-swap leads its process.
LEMMA WriteMoves ==
  ASSUME TypeInv, NEW p \in Procs, WriteApproval(p)
  PROVE  /\ LocalType' /\ Others(p) /\ job[p] \in Approvals
         /\ \/ pc'[p] = "idle" /\ copy'[p] = Absent
            \/ /\ job'[p] = job[p] /\ copy'[p] = NextRevision(copy[p])
               /\ \/ pc[p] = "deciding" /\ pc'[p] = "delivering"
                  \/ pc[p] = "expiring" /\ pc'[p] = "announcing_expiry"
                  \/ pc[p] = "reserving" /\ pc'[p] = "publishing"
                  \/ pc[p] = "consuming" /\ pc'[p] = "announcing"
  <1>1. LocalType /\ NextRevision(copy[p]) \in Approval /\ JobType(p)
    BY NextRevisionFields DEF TypeInv, TypeOK, LocalType
  <1>2. job[p] \in Approvals
    BY <1>1 DEF WriteApproval, WriteSteps, JobType
  <1>3. CASE pc[p] \in {"consuming_existing", "releasing", "clearing"}
    <2>1. Done(p)
      BY <1>3, AfterWriteSteps DEF WriteApproval, Finish
    <2>2. QED
      BY <1>1, <1>2, <2>1, DoneMoves
  <1>4. CASE pc[p] \in {"deciding", "expiring", "reserving", "consuming"}
    <2>1. /\ AfterWrite[pc[p]] \in Steps /\ AfterWrite[pc[p]] # "idle"
          /\ \/ pc[p] = "deciding" /\ AfterWrite[pc[p]] = "delivering"
             \/ pc[p] = "expiring" /\ AfterWrite[pc[p]] = "announcing_expiry"
             \/ pc[p] = "reserving" /\ AfterWrite[pc[p]] = "publishing"
             \/ pc[p] = "consuming" /\ AfterWrite[pc[p]] = "announcing"
      BY <1>4, AfterWriteSteps, StepNames
    <2>2. Goto(p, AfterWrite[pc[p]], NextRevision(copy[p]))
      BY <2>1 DEF WriteApproval, Finish
    <2>3. /\ LocalType' /\ Others(p) /\ pc'[p] = AfterWrite[pc[p]]
          /\ job'[p] = job[p] /\ copy'[p] = NextRevision(copy[p])
      BY <1>1, <2>1, <2>2, GotoMoves
    <2>4. QED
      BY <1>2, <2>1, <2>3
  <1>5. QED
    BY <1>3, <1>4 DEF WriteApproval, WriteSteps

LEMMA TypeWrite ==
  ASSUME TypeInv, NEW p \in Procs, WriteApproval(p)
  PROVE  TypeInv'
  <1> DEFINE n == NextRevision(copy[p])
  <1>1. /\ copy[p] \in Approval /\ Named(copy[p]) /\ n \in Approval /\ Named(n)
        /\ n.pending = copy[p].pending /\ JobType(p)
    BY NextRevisionFields DEF TypeInv, TypeOK
  <1>2. /\ approval' = [approval EXCEPT ![job[p]] = n]
        /\ UNCHANGED <<published, events, expired, crashes>>
    BY DEF WriteApproval
  <1> HIDE DEF n
  <1>3. job[p] \in Approvals /\ LocalType' /\ Others(p)
    BY WriteMoves
  <1>4. /\ approval' \in [Approvals -> Approval]
        /\ \A b \in Approvals : Named(approval'[b])
    BY <1>1, <1>2, <1>3 DEF TypeInv, TypeOK
  <1>5. TypeOK'
    BY <1>2, <1>3, <1>4 DEF TypeInv, TypeOK, LocalType
  <1>6. JobType(p)' /\ Named(copy[p])'
    <2>1. CASE pc'[p] = "idle" /\ copy'[p] = Absent
      BY <2>1, TypeIdle
    <2>2. CASE /\ job'[p] = job[p] /\ copy'[p] = n
               /\ \/ pc[p] = "deciding" /\ pc'[p] = "delivering"
                  \/ pc'[p] \in {"announcing_expiry", "publishing", "announcing"}
      BY <1>1, <1>3, <2>2 DEF JobType, Named, Requests
    <2>3. QED
      BY <2>1, <2>2, WriteMoves DEF n
  <1>7. ASSUME NEW q \in Procs PROVE JobType(q)' /\ Named(copy[q])'
    <2>1. CASE q = p
      BY <1>6, <2>1
    <2>2. CASE q # p
      BY <1>3, <2>2 DEF TypeInv, JobType, Named, Others
    <2>3. QED
      BY <2>1, <2>2
  <1>8. \A b \in Approvals : Named(approval[b])'
    BY <1>4 DEF Named
  <1>9. QED
    BY <1>5, <1>7, <1>8 DEF TypeInv

LEMMA TypeShared ==
  ASSUME TypeInv, NEW p \in Procs, SharedStep(p)
  PROVE  TypeInv'
  <1>1. LocalType /\ copy[p] \in Approval /\ Named(copy[p]) /\ JobType(p)
    BY DEF TypeInv, TypeOK, LocalType
  <1>2. CASE WriteApproval(p)
    BY <1>2, TypeWrite
  <1>3. CASE WriteConflict(p)
    <2>1. LocalType' /\ Others(p) /\ pc'[p] = "idle" /\ copy'[p] = Absent
      BY <1>1, <1>3, DoneMoves DEF WriteConflict
    <2>2. QED
      BY <1>3, <2>1, TypeIdle, TypeQuiet DEF WriteConflict
  <1>4. CASE Deliver(p)
    <2>1. Cleared(copy[p]) \in Approval /\ Named(Cleared(copy[p]))
      BY <1>1, ClearedFields
    <2>2. LocalType' /\ Others(p) /\ pc'[p] = "clearing" /\ job'[p] = job[p]
          /\ copy'[p] = Cleared(copy[p])
      BY <1>1, <1>4, <2>1, GotoMoves, StepNames DEF Deliver
    <2>3. job[p] \in Approvals /\ copy[p].decision \in Decisions
      BY <1>1, <1>4, Fields DEF Deliver, JobType, Named
    <2>4. JobType(p)' /\ Named(copy[p])'
      BY <2>1, <2>2, <2>3 DEF JobType, Named, Requests
    <2>5. events' \subseteq [id : Requests, kind : EventKinds]
      BY <1>4, <2>3 DEF Deliver, Append, EventKinds, Requests, TypeInv, TypeOK
    <2>6. QED
      BY <1>4, <2>2, <2>4, <2>5, TypeFrame DEF Deliver, TypeInv, TypeOK
  <1>5. CASE AnnounceExpiry(p)
    <2>1. LocalType' /\ Others(p) /\ pc'[p] = "idle" /\ copy'[p] = Absent
      BY <1>1, <1>5, DoneMoves DEF AnnounceExpiry
    <2>2. job[p] \in Requests
      BY <1>1, <1>5 DEF JobType, AnnounceExpiry
    <2>3. events' \subseteq [id : Requests, kind : EventKinds]
      BY <1>5, <2>2 DEF AnnounceExpiry, Append, EventKinds, TypeInv, TypeOK
    <2>4. QED
      BY <1>5, <2>1, <2>3, TypeIdle, TypeFrame DEF AnnounceExpiry, TypeInv, TypeOK
  <1>6. QED
    BY <1>2, <1>3, <1>4, <1>5 DEF SharedStep

LEMMA TypeCrash ==
  ASSUME TypeInv, NEW p \in Procs, Crash(p)
  PROVE  TypeInv'
  <1>1. LocalType /\ crashes' \in 0..MaxCrashes
    BY ApprovalAssumption DEF TypeInv, TypeOK, LocalType, Crash
  <1>2. LocalType' /\ Others(p) /\ pc'[p] = "idle" /\ copy'[p] = Absent
    BY <1>1, DoneMoves DEF Crash
  <1>3. QED
    BY <1>1, <1>2, TypeIdle, TypeFrame DEF Crash, durable, TypeInv, TypeOK

LEMMA TypeStep == TypeInv /\ [Next]_vars => TypeInv'
  <1> SUFFICES ASSUME TypeInv, [Next]_vars PROVE TypeInv'
    OBVIOUS
  <1>1. CASE \E h \in Handlers : HandlerBegins(h) \/ HandlerStep(h)
    BY <1>1, TypeHandlerBegins, TypeHandlerStep
  <1>2. CASE \E r \in Reconcilers :
               ReconcilerStep(r) \/ \E a \in Approvals : ReconcilerBegins(r, a)
    BY <1>2, TypeReconcilerStep, TypeReconcilerBegins
  <1>3. CASE \E p \in Procs : SharedStep(p) \/ Crash(p)
    BY <1>3, TypeShared, TypeCrash
  <1>4. CASE \E a \in Approvals : Expire(a)
    BY <1>4 DEF Expire, durable, local, TypeInv, TypeOK, JobType, Named
  <1>5. CASE UNCHANGED vars
    BY <1>5 DEF vars, durable, local, TypeInv, TypeOK, JobType, Named
  <1>6. QED
    BY <1>1, <1>2, <1>3, <1>4, <1>5 DEF Next

LEMMA TypeInvariant == Spec => []TypeInv
  <1>1. Init => TypeInv
    BY TypeInit
  <1>2. TypeInv /\ [Next]_vars => TypeInv'
    BY TypeStep
  <1>3. QED
    BY <1>1, <1>2, PTL DEF Spec

\* Every reachable state is well typed: in particular the event that a
\* delivery appends is always one of the two decision events, also when the
\* approval was reserved, expired or consumed before the delivery.
THEOREM ApprovalTypeCorrect == Spec => []TypeOK
  <1>1. TypeInv => TypeOK
    BY DEF TypeInv
  <1>2. QED
    BY <1>1, TypeInvariant, PTL

-----------------------------------------------------------------------------
(* The second layer relates each document to the executions and events, and *)
(* each prepared write to the document: a copy whose revision is still the  *)
(* document's was made from exactly that document, so update_approval only  *)
(* ever performs the change its caller decided on.                          *)

\* Two people stand behind the execution of a.
Authorised(a) ==
  /\ approval[a].decision = "approved"
  /\ approval[a].decidedBy \in Approvers \ {approval[a].requester, PreviewActor[a]}

Evidence(a) == [id |-> a, kind |-> approval[a].decision] \in events

Lawful(a) ==
  /\ approval[a].state \in {"absent", "requested"} => approval[a].decision = "none"
  /\ approval[a].state = "approved" =>
       /\ approval[a].decision = "approved"
       /\ approval[a].decidedBy \in Approvers \ {approval[a].requester}
  /\ approval[a].state \in {"reserved", "consumed"} => Authorised(a)
  /\ approval[a].state = "consumed" => a \in published
  /\ a \in published => Authorised(a)
  /\ approval[a].decision # "none" /\ ~approval[a].pending => Evidence(a)

\* At step s, the copy c is the change of document d that update_approval is
\* to carry out, or d itself.
Prepared(s, c, d) ==
  /\ s = "deciding" =>
       /\ d.state = "requested"
       /\ \E u \in Approvers \ {d.requester}, v \in Decisions : c = Decided(d, u, v)
  /\ s = "expiring" =>
       d.state \in {"requested", "approved"} /\ c = ExpiredDocument(d)
  /\ s = "reserving" => d.state = "approved" /\ c = ReservedDocument(d)
  /\ s \in {"consuming", "consuming_existing"} =>
       d.state = "reserved" /\ c = ConsumedDocument(d)
  /\ s = "releasing" => d.state = "reserved" /\ c = ReleasedDocument(d)
  /\ s = "clearing" => c = Cleared(d)
  /\ s = "delivering" => c = d
  /\ s \in {"publishing", "resuming", "checking"} => d.state = "reserved" /\ c = d

\* What p has established before it got to its step, and keeps.
Known(p) ==
  /\ pc[p] \in {"reserving", "resuming", "publishing"} => Authorised(job[p])
  /\ pc[p] \in {"consuming", "consuming_existing"} => job[p] \in published
  /\ pc[p] = "clearing" => [id |-> job[p], kind |-> copy[p].decision] \in events

CopyInv(p) ==
  pc[p] # "idle" /\ job[p] \in Approvals =>
    /\ approval[job[p]].state # "absent"
    /\ copy[p].revision <= approval[job[p]].revision
    /\ copy[p].revision = approval[job[p]].revision =>
         Prepared(pc[p], copy[p], approval[job[p]])
    /\ Known(p)

GovInv == (\A a \in Approvals : Lawful(a)) /\ (\A p \in Procs : CopyInv(p))

LEMMA GovInit == Init => GovInv
  <1> SUFFICES ASSUME Init PROVE GovInv
    OBVIOUS
  <1>1. \A a \in Approvals : Lawful(a)
    BY AbsentFields DEF Init, Lawful
  <1>2. \A p \in Procs : CopyInv(p)
    BY DEF Init, CopyInv
  <1>3. QED
    BY <1>1, <1>2 DEF GovInv

\* A step of p that leaves the approvals alone.
LEMMA GovFrame ==
  ASSUME TypeInv, GovInv, NEW p \in Procs, Others(p), UNCHANGED approval,
         published \subseteq published', events \subseteq events',
         \A a \in published' \cap Approvals : Authorised(a), CopyInv(p)'
  PROVE  GovInv'
  <1>1. ASSUME NEW a \in Approvals PROVE Authorised(a)' <=> Authorised(a)
    BY DEF Authorised
  <1>2. ASSUME NEW a \in Approvals PROVE Evidence(a) => Evidence(a)'
    BY DEF Evidence
  <1>3. ASSUME NEW a \in Approvals PROVE Lawful(a)'
    BY <1>1, <1>2 DEF GovInv, Lawful
  <1>4. ASSUME NEW q \in Procs PROVE CopyInv(q)'
    <2>1. CASE q = p
      BY <2>1
    <2>2. CASE q # p
      <3> SUFFICES ASSUME pc[q] # "idle", job[q] \in Approvals PROVE CopyInv(q)'
        BY <2>2 DEF Others, CopyInv
      <3>1. /\ pc'[q] = pc[q] /\ job'[q] = job[q] /\ copy'[q] = copy[q] /\ CopyInv(q)
        BY <2>2 DEF Others, GovInv
      <3>2. Known(q) => Known(q)'
        BY <3>1, <1>1 DEF Known
      <3>3. QED
        BY <3>1, <3>2 DEF CopyInv
    <2>3. QED
      BY <2>1, <2>2
  <1>5. QED
    BY <1>3, <1>4 DEF GovInv

\* The same, for the steps that touch nothing but p.
LEMMA GovQuiet ==
  ASSUME TypeInv, GovInv, NEW p \in Procs, Others(p), UNCHANGED durable, CopyInv(p)'
  PROVE  GovInv'
  <1>1. /\ UNCHANGED approval /\ published \subseteq published' /\ events \subseteq events'
        /\ \A a \in published' \cap Approvals : Authorised(a)
    BY DEF durable, GovInv, Lawful
  <1>2. QED
    BY <1>1, GovFrame

\* Work begins on the document of a as it is now.
LEMMA GovBegins ==
  ASSUME TypeInv, GovInv, NEW p \in Procs, NEW a \in Approvals,
         NEW s \in Steps \ {"consuming", "consuming_existing", "clearing"},
         NEW d \in Approval, d.revision = approval[a].revision,
         approval[a].state # "absent",
         Begin(p, s, a, d), UNCHANGED durable,
         Prepared(s, d, approval[a]),
         s \in {"reserving", "resuming", "publishing"} => Authorised(a)
  PROVE  GovInv'
  <1>1. LocalType /\ a \in Requests /\ approval[a] \in Approval
    BY DEF TypeInv, TypeOK, LocalType, Requests
  <1>2. Others(p) /\ pc'[p] = s /\ job'[p] = a /\ copy'[p] = d
    BY <1>1, BeginMoves
  <1>3. approval' = approval
    BY DEF durable
  <1>4. Authorised(a) => Authorised(a)'
    BY <1>3 DEF Authorised
  <1>5. Known(p)'
    BY <1>2, <1>4 DEF Known
  <1>6. CopyInv(p)'
    BY <1>1, <1>2, <1>3, <1>5, Fields DEF CopyInv
  <1>7. QED
    BY <1>2, <1>6, GovQuiet

LEMMA GovIdle ==
  ASSUME NEW p \in Procs, pc'[p] = "idle"
  PROVE  CopyInv(p)'
  BY DEF CopyInv

LEMMA GovRequest ==
  ASSUME TypeInv, GovInv, NEW h \in Handlers, NEW a \in Approvals, NEW u \in People,
         Request(h, a, u)
  PROVE  GovInv'
  <1> DEFINE new == [Absent EXCEPT !.state = "requested", !.requester = u]
  <1>1. /\ h \in Procs /\ LocalType /\ approval \in [Approvals -> Approval]
        /\ a \in Requests
    BY DEF Procs, Requests, TypeInv, TypeOK, LocalType
  <1>2. /\ new \in Approval /\ new.state = "requested" /\ new.decision = "none"
        /\ new.revision = 0
    BY RequestedFields
  <1>3. /\ published' = published /\ events' = events
        /\ approval' = IF approval[a].state # "absent" THEN approval
                       ELSE [approval EXCEPT ![a] = new]
        /\ Begin(h, "announcing_request", a, approval'[a])
    BY DEF Request
  <1> HIDE DEF new
  <1>4. approval'[a] \in Approval /\ approval'[a].state # "absent"
    BY <1>1, <1>2, <1>3
  <1>5. /\ Others(h) /\ pc'[h] = "announcing_request" /\ job'[h] = a
        /\ copy'[h] = approval'[a]
    BY <1>1, <1>3, <1>4, BeginMoves, StepNames
  <1>6. CopyInv(h)'
    BY <1>4, <1>5, Fields DEF CopyInv, Prepared, Known
  <1>7. CASE approval[a].state # "absent"
    BY <1>1, <1>3, <1>5, <1>6, <1>7, GovQuiet DEF durable
  <1>8. CASE approval[a].state = "absent"
    <2>1. approval' = [approval EXCEPT ![a] = new]
      BY <1>3, <1>8
    <2>2. ASSUME NEW b \in Approvals PROVE Lawful(b)'
      <3>1. CASE b = a
        <4>1. a \notin published
          BY <1>8 DEF GovInv, Lawful, Authorised
        <4>2. approval'[a] = new
          BY <1>1, <2>1
        <4>3. QED
          BY <1>2, <1>3, <3>1, <4>1, <4>2 DEF Lawful
      <3>2. CASE b # a
        BY <1>1, <1>3, <2>1, <3>2 DEF GovInv, Lawful, Authorised, Evidence
      <3>3. QED
        BY <3>1, <3>2
    <2>3. ASSUME NEW q \in Procs, q # h PROVE CopyInv(q)'
      <3> SUFFICES ASSUME pc[q] # "idle", job[q] \in Approvals PROVE CopyInv(q)'
        BY <1>5, <2>3 DEF Others, CopyInv
      <3>1. CopyInv(q) /\ job[q] # a
        BY <1>8 DEF GovInv, CopyInv
      <3>2. pc'[q] = pc[q] /\ job'[q] = job[q] /\ copy'[q] = copy[q]
            /\ approval'[job[q]] = approval[job[q]]
        BY <1>1, <1>5, <2>1, <2>3, <3>1 DEF Others
      <3>3. QED
        BY <1>3, <3>1, <3>2 DEF CopyInv, Known, Authorised
    <2>4. QED
      BY <1>6, <2>2, <2>3 DEF GovInv
  <1>9. QED
    BY <1>7, <1>8

LEMMA GovHandlerBegins ==
  ASSUME TypeInv, GovInv, NEW h \in Handlers, HandlerBegins(h)
  PROVE  GovInv'
  <1>1. h \in Procs /\ LocalType
    BY DEF Procs, TypeInv, TypeOK, LocalType
  <1>2. ASSUME NEW a \in Approvals PROVE approval[a] \in Approval /\ Lawful(a)
    BY DEF TypeInv, TypeOK, GovInv
  <1>3. ASSUME NEW a \in Approvals, NEW u \in People, Request(h, a, u)
        PROVE  GovInv'
    BY <1>3, GovRequest
  <1>4. ASSUME NEW a \in Approvals, NEW u \in People, NEW v \in Decisions,
               Decide(h, a, u, v)
        PROVE  GovInv'
    <2>1. /\ Decided(approval[a], u, v) \in Approval
          /\ Decided(approval[a], u, v).revision = approval[a].revision
      <3>1. approval[a] \in Approval
        BY <1>2
      <3>2. QED
        BY <3>1 DEF Decided, Approval, ApprovalState, Decisions
    <2>2. Prepared("deciding", Decided(approval[a], u, v), approval[a])
      BY <1>4 DEF Decide, MayDecide, Prepared
    <2>3. QED
      BY <1>1, <1>4, <2>1, <2>2, GovBegins, StepNames DEF Decide
  <1>5. ASSUME NEW a \in Approvals, NEW u \in People, NEW v \in Decisions,
               DecideAgain(h, a, u, v)
        PROVE  GovInv'
    <2>1. Prepared("delivering", approval[a], approval[a])
      BY <1>5 DEF DecideAgain, Prepared
    <2>2. QED
      BY <1>1, <1>2, <1>5, <2>1, GovBegins, StepNames DEF DecideAgain, Decisions
  <1>6. ASSUME NEW a \in Approvals, DecideTooLate(h, a) \/ QueueTooLate(h, a)
        PROVE  GovInv'
    <2>1. /\ ExpiredDocument(approval[a]) \in Approval
          /\ ExpiredDocument(approval[a]).revision = approval[a].revision
      BY <1>2, StateFields DEF Moved
    <2>2. Prepared("expiring", ExpiredDocument(approval[a]), approval[a])
      BY <1>6 DEF DecideTooLate, QueueTooLate, Prepared
    <2>3. QED
      BY <1>1, <1>6, <2>1, <2>2, GovBegins, StepNames DEF DecideTooLate, QueueTooLate
  <1>7. ASSUME NEW a \in Approvals, QueueApproved(h, a)
        PROVE  GovInv'
    <2>1. /\ ReservedDocument(approval[a]) \in Approval
          /\ ReservedDocument(approval[a]).revision = approval[a].revision
      BY <1>2, StateFields DEF Moved
    <2>2. Authorised(a)
      BY <1>2, <1>7 DEF QueueApproved, MayExecute, Lawful, Authorised
    <2>3. Prepared("reserving", ReservedDocument(approval[a]), approval[a])
      BY <1>7 DEF QueueApproved, Prepared
    <2>4. QED
      BY <1>1, <1>7, <2>1, <2>2, <2>3, GovBegins, StepNames DEF QueueApproved
  <1>8. ASSUME NEW a \in Approvals, QueueReserved(h, a)
        PROVE  GovInv'
    <2>1. Prepared("resuming", approval[a], approval[a]) /\ Authorised(a)
      BY <1>2, <1>8 DEF QueueReserved, Prepared, Lawful
    <2>2. QED
      BY <1>1, <1>2, <1>8, <2>1, GovBegins, StepNames DEF QueueReserved
  <1>9. ASSUME NEW x \in Direct, QueueDirect(h, x)
        PROVE  GovInv'
    <2>1. Others(h) /\ job'[h] = x
      BY <1>1, <1>9, BeginMoves, StepNames, AbsentFields DEF QueueDirect, Requests
    <2>2. CopyInv(h)'
      BY <2>1, ApprovalAssumption DEF CopyInv
    <2>3. QED
      BY <1>1, <1>9, <2>1, <2>2, GovQuiet DEF QueueDirect
  <1>10. QED
    BY <1>3, <1>4, <1>5, <1>6, <1>7, <1>8, <1>9 DEF HandlerBegins

\* The steps of a process that hand its copy on, at step s, changed to c.
LEMMA GovGoes ==
  ASSUME TypeInv, GovInv, NEW p \in Procs, pc[p] # "idle", job[p] \in Approvals,
         NEW s \in Steps, NEW c \in Approval, c.revision = copy[p].revision,
         Goto(p, s, c), UNCHANGED approval,
         published \subseteq published', events \subseteq events',
         \A a \in published' \cap Approvals : Authorised(a),
         copy[p].revision = approval[job[p]].revision =>
           Prepared(s, c, approval[job[p]]),
         s \in {"reserving", "resuming", "publishing"} => Authorised(job[p]),
         s \in {"consuming", "consuming_existing"} => job[p] \in published',
         s = "clearing" => [id |-> job[p], kind |-> c.decision] \in events'
  PROVE  GovInv'
  <1>1. LocalType /\ CopyInv(p)
    BY DEF TypeInv, TypeOK, LocalType, GovInv
  <1>2. Others(p) /\ pc'[p] = s /\ job'[p] = job[p] /\ copy'[p] = c
    BY <1>1, GotoMoves
  <1>3. Authorised(job[p]) => Authorised(job[p])'
    BY <1>2 DEF Authorised
  <1>4. Known(p)'
    BY <1>2, <1>3 DEF Known
  <1>5. CopyInv(p)'
    BY <1>1, <1>2, <1>4 DEF CopyInv
  <1>6. QED
    BY <1>2, <1>5, GovFrame

LEMMA GovEnds ==
  ASSUME TypeInv, GovInv, NEW p \in Procs, Done(p), UNCHANGED approval,
         UNCHANGED published, events \subseteq events'
  PROVE  GovInv'
  <1>1. LocalType /\ \A a \in published' \cap Approvals : Authorised(a)
    BY DEF TypeInv, TypeOK, LocalType, GovInv, Lawful
  <1>2. Others(p) /\ pc'[p] = "idle"
    BY <1>1, DoneMoves
  <1>3. QED
    BY <1>1, <1>2, GovIdle, GovFrame

LEMMA GovHandlerStep ==
  ASSUME TypeInv, GovInv, NEW h \in Handlers, HandlerStep(h)
  PROVE  GovInv'
  <1>1. /\ h \in Procs /\ LocalType /\ copy[h] \in Approval /\ JobType(h) /\ CopyInv(h)
        /\ \A a \in published \cap Approvals : Authorised(a)
    BY DEF Procs, TypeInv, TypeOK, LocalType, GovInv, Lawful
  <1>2. CASE AnnounceRequest(h) \/ Announce(h)
    BY <1>1, <1>2, GovEnds DEF AnnounceRequest, Announce, Append
  <1>3. ConsumedDocument(copy[h]) \in Approval
        /\ ConsumedDocument(copy[h]).revision = copy[h].revision
    BY <1>1, StateFields DEF Moved
  <1>4. CASE Resume(h)
    <2>1. job[h] \in Approvals /\ pc[h] = "resuming" /\ Authorised(job[h])
          /\ approval' = approval /\ published' = published /\ events' = events
      BY <1>1, <1>4 DEF Resume, JobType, CopyInv, Known, durable
    <2>2. CASE job[h] \in published
      <3>1. copy[h].revision = approval[job[h]].revision =>
              Prepared("consuming_existing", ConsumedDocument(copy[h]),
                       approval[job[h]])
        BY <1>1, <2>1, <2>2 DEF CopyInv, Prepared, ConsumedDocument
      <3>2. QED
        BY <1>1, <1>3, <1>4, <2>1, <2>2, <3>1, GovGoes, StepNames DEF Resume
    <2>3. CASE job[h] \notin published
      <3>1. copy[h].revision = approval[job[h]].revision =>
              Prepared("publishing", copy[h], approval[job[h]])
        BY <1>1, <2>1 DEF CopyInv, Prepared
      <3>2. QED
        BY <1>1, <1>4, <2>1, <2>3, <3>1, GovGoes, StepNames DEF Resume
    <2>4. QED
      BY <2>2, <2>3
  <1>5. CASE Publish(h)
    <2>1. /\ approval' = approval /\ published' = published \cup {job[h]}
          /\ events' = events /\ pc[h] = "publishing" /\ job[h] \in Requests
      BY <1>1, <1>5 DEF Publish, JobType
    <2>2. CASE job[h] \in Direct
      <3>1. Others(h) /\ job'[h] = job[h]
        BY <1>1, <1>5, <2>2, GotoMoves, StepNames DEF Publish
      <3>2. CopyInv(h)'
        BY <2>2, <3>1, ApprovalAssumption DEF CopyInv
      <3>3. \A a \in published' \cap Approvals : Authorised(a)
        BY <1>1, <2>1, <2>2, ApprovalAssumption
      <3>4. QED
        BY <1>1, <2>1, <3>1, <3>2, <3>3, GovFrame
    <2>3. CASE job[h] \notin Direct
      <3>1. job[h] \in Approvals /\ Authorised(job[h])
        BY <1>1, <2>1, <2>3 DEF Requests, CopyInv, Known
      <3>2. copy[h].revision = approval[job[h]].revision =>
              Prepared("consuming", ConsumedDocument(copy[h]),
                       approval[job[h]])
        BY <1>1, <1>5, <2>1, <3>1 DEF CopyInv, Prepared, ConsumedDocument
      <3>3. \A a \in published' \cap Approvals : Authorised(a)
        BY <1>1, <2>1, <3>1
      <3>4. Goto(h, "consuming", ConsumedDocument(copy[h]))
        BY <1>5, <2>3 DEF Publish
      <3>5. QED
        BY <1>1, <1>3, <2>1, <3>1, <3>2, <3>3, <3>4, GovGoes, StepNames
    <2>4. QED
      BY <2>2, <2>3
  <1>6. QED
    BY <1>2, <1>4, <1>5 DEF HandlerStep

LEMMA GovReconcilerBegins ==
  ASSUME TypeInv, GovInv, NEW r \in Reconcilers, NEW a \in Approvals,
         ReconcilerBegins(r, a)
  PROVE  GovInv'
  <1>1. r \in Procs /\ approval[a] \in Approval /\ Named(approval[a]) /\ Lawful(a)
    BY DEF Procs, TypeInv, TypeOK, GovInv
  <1>2. CASE ReconcilePending(r, a)
    <2>1. approval[a].state # "absent"
      BY <1>1, <1>2 DEF ReconcilePending, Named, Lawful
    <2>2. Prepared("delivering", approval[a], approval[a])
      BY <1>2 DEF ReconcilePending, Prepared
    <2>3. QED
      BY <1>1, <1>2, <2>1, <2>2, GovBegins, StepNames DEF ReconcilePending
  <1>3. CASE ReconcileExpired(r, a)
    <2>1. /\ ExpiredDocument(approval[a]) \in Approval
          /\ ExpiredDocument(approval[a]).revision = approval[a].revision
      BY <1>1, StateFields DEF Moved
    <2>2. Prepared("expiring", ExpiredDocument(approval[a]), approval[a])
      BY <1>3 DEF ReconcileExpired, Prepared
    <2>3. QED
      BY <1>1, <1>3, <2>1, <2>2, GovBegins, StepNames DEF ReconcileExpired
  <1>4. CASE ReconcileReserved(r, a)
    <2>1. Prepared("checking", approval[a], approval[a])
      BY <1>4 DEF ReconcileReserved, Prepared
    <2>2. QED
      BY <1>1, <1>4, <2>1, GovBegins, StepNames DEF ReconcileReserved
  <1>5. QED
    BY <1>2, <1>3, <1>4 DEF ReconcilerBegins

LEMMA GovReconcilerStep ==
  ASSUME TypeInv, GovInv, NEW r \in Reconcilers, ReconcilerStep(r)
  PROVE  GovInv'
  <1>1. /\ r \in Procs /\ copy[r] \in Approval /\ JobType(r) /\ CopyInv(r)
        /\ \A a \in published \cap Approvals : Authorised(a)
    BY DEF Procs, TypeInv, TypeOK, GovInv, Lawful
  <1>2. /\ approval' = approval /\ published' = published /\ events' = events
        /\ pc[r] = "checking" /\ job[r] \in Approvals
    BY <1>1 DEF ReconcilerStep, CheckFound, CheckReleases, CheckWaits, durable, JobType
  <1>3. /\ ConsumedDocument(copy[r]) \in Approval
        /\ ConsumedDocument(copy[r]).revision = copy[r].revision
        /\ ReleasedDocument(copy[r]) \in Approval
        /\ ReleasedDocument(copy[r]).revision = copy[r].revision
    BY <1>1, StateFields DEF Moved
  <1>4. CASE CheckFound(r)
    <2>1. copy[r].revision = approval[job[r]].revision =>
            Prepared("consuming_existing", ConsumedDocument(copy[r]),
                     approval[job[r]])
      BY <1>1, <1>2, <1>4 DEF CheckFound, CopyInv, Prepared, ConsumedDocument
    <2>2. QED
      BY <1>1, <1>2, <1>3, <1>4, <2>1, GovGoes, StepNames DEF CheckFound
  <1>5. CASE CheckReleases(r)
    <2>1. copy[r].revision = approval[job[r]].revision =>
            Prepared("releasing", ReleasedDocument(copy[r]), approval[job[r]])
      BY <1>1, <1>2, <1>5 DEF CheckReleases, CopyInv, Prepared, ReleasedDocument
    <2>2. QED
      BY <1>1, <1>2, <1>3, <1>5, <2>1, GovGoes, StepNames DEF CheckReleases
  <1>6. CASE CheckWaits(r)
    BY <1>1, <1>2, <1>6, GovEnds DEF CheckWaits
  <1>7. QED
    BY <1>4, <1>5, <1>6 DEF ReconcilerStep

\* What a compare-and-swap makes of the document d.
Succeeds(n, d) ==
  /\ n.revision = d.revision + 1 /\ n.requester = d.requester
  /\ n.state # "absent"
  /\ d.decision # "none" => SameDecision(n, d)
  /\ d.state \in {"rejected", "expired", "consumed"} => n.state = d.state

LEMMA PreparedSucceeds ==
  ASSUME NEW d \in Approval, NEW c \in Approval, NEW s \in WriteSteps,
         Prepared(s, c, d), c.revision = d.revision, d.state # "absent",
         d.state = "requested" => d.decision = "none"
  PROVE  Succeeds(NextRevision(c), d)
  <1>1. /\ NextRevision(c).state = c.state /\ NextRevision(c).revision = d.revision + 1
        /\ SameDecision(NextRevision(c), c)
    BY NextRevisionFields
  <1>2. CASE s = "deciding"
    <2>1. PICK u \in Approvers \ {d.requester}, v \in Decisions : c = Decided(d, u, v)
      BY <1>2 DEF Prepared
    <2>2. u \in People
      BY ApprovalAssumption
    <2>3. c.state \in Decisions /\ c.requester = d.requester
      BY <2>1, <2>2 DEF Decided, Approval
    <2>4. QED
      BY <1>1, <1>2, <2>3 DEF Prepared, Succeeds, SameDecision, Decisions
  <1>3. CASE s # "deciding"
    <2>1. /\ SameDecision(c, d)
          /\ \/ c.state = d.state
             \/ /\ c.state # "absent"
                /\ d.state \in {"requested", "approved", "reserved"}
      <3>1. CASE s = "clearing"
        BY <3>1, ClearedFields DEF Prepared
      <3>2. CASE s # "clearing"
        BY <1>3, <3>2, StateFields DEF Prepared, Moved, WriteSteps
      <3>3. QED
        BY <3>1, <3>2
    <2>2. QED
      BY <1>1, <2>1 DEF Succeeds, SameDecision
  <1>4. QED
    BY <1>2, <1>3

\* The facts that hold whenever update_approval passes its revision test.
LEMMA WriteFacts ==
  ASSUME TypeInv, GovInv, NEW p \in Procs, WriteApproval(p)
  PROVE  /\ job[p] \in Approvals
         /\ approval'[job[p]] = NextRevision(copy[p])
         /\ \A b \in Approvals : b # job[p] => approval'[b] = approval[b]
         /\ Succeeds(approval'[job[p]], approval[job[p]])
         /\ Prepared(pc[p], copy[p], approval[job[p]])
         /\ Known(p) /\ Others(p)
         /\ published' = published /\ events' = events
  <1>1. /\ job[p] \in Approvals /\ Others(p)
    BY WriteMoves
  <1>2. /\ approval \in [Approvals -> Approval] /\ copy[p] \in Approval
        /\ CopyInv(p) /\ Lawful(job[p])
    BY <1>1 DEF TypeInv, TypeOK, GovInv
  <1>3. /\ pc[p] \in WriteSteps /\ pc[p] # "idle"
        /\ copy[p].revision = approval[job[p]].revision
        /\ approval' = [approval EXCEPT ![job[p]] = NextRevision(copy[p])]
        /\ published' = published /\ events' = events
    BY DEF WriteApproval, Current, WriteSteps
  <1>4. /\ Prepared(pc[p], copy[p], approval[job[p]]) /\ Known(p)
        /\ approval[job[p]].state # "absent"
    BY <1>1, <1>2, <1>3 DEF CopyInv
  <1>5. Succeeds(NextRevision(copy[p]), approval[job[p]])
    <2>1. approval[job[p]].state = "requested" => approval[job[p]].decision = "none"
      BY <1>2 DEF Lawful
    <2>2. approval[job[p]] \in Approval
      BY <1>1, <1>2
    <2>3. QED
      BY <1>2, <1>3, <1>4, <2>1, <2>2, PreparedSucceeds
  <1>6. approval'[job[p]] = NextRevision(copy[p])
    BY <1>1, <1>2, <1>3
  <1>7. \A b \in Approvals : b # job[p] => approval'[b] = approval[b]
    BY <1>2, <1>3
  <1>8. QED
    BY <1>1, <1>3, <1>4, <1>5, <1>6, <1>7

\* Who authorised an execution does not change once it is authorised.
LEMMA AuthorisedKept ==
  ASSUME TypeInv, GovInv, NEW p \in Procs, WriteApproval(p), NEW b \in Approvals,
         Authorised(b)
  PROVE  Authorised(b)'
  <1>1. CASE b = job[p]
    BY <1>1, WriteFacts DEF Authorised, Succeeds, SameDecision
  <1>2. CASE b # job[p]
    BY <1>2, WriteFacts DEF Authorised
  <1>3. QED
    BY <1>1, <1>2

LEMMA WriteLawful ==
  ASSUME TypeInv, GovInv, NEW p \in Procs, WriteApproval(p), NEW b \in Approvals
  PROVE  Lawful(b)'
  <1>1. Lawful(b) /\ approval[b] \in Approval /\ copy[p] \in Approval /\ JobType(p)
    BY DEF GovInv, TypeInv, TypeOK
  <1>2. CASE b # job[p]
    BY <1>1, <1>2, WriteFacts DEF Lawful, Authorised, Evidence
  <1>3. CASE b = job[p]
    <2> DEFINE d == approval[b]
               c == copy[p]
    <2>1. /\ approval'[b] = NextRevision(c) /\ Prepared(pc[p], c, d) /\ Known(p)
          /\ published' = published /\ events' = events
      BY <1>3, WriteFacts
    <2>2. /\ approval'[b].state = c.state /\ approval'[b].pending = c.pending
          /\ SameDecision(approval'[b], c)
      BY <1>1, <2>1, NextRevisionFields
    <2>3. b \in published => Authorised(b)'
      BY <1>1, AuthorisedKept DEF Lawful
    <2>4. CASE pc[p] = "deciding"
      <3>1. PICK u \in Approvers \ {d.requester}, v \in Decisions : c = Decided(d, u, v)
        BY <2>1, <2>4 DEF Prepared
      <3>2. /\ c.state = v /\ c.decision = v /\ c.decidedBy = u
            /\ c.requester = d.requester
        BY <1>1, <3>1, ApprovalAssumption DEF Decided, Approval
      <3>3. c.pending
        BY <1>1, <2>4 DEF JobType
      <3>4. QED
        BY <2>1, <2>2, <2>3, <3>1, <3>2, <3>3 DEF Lawful, SameDecision, Decisions
    <2>5. CASE pc[p] = "clearing"
      <3>1. c.state = d.state /\ SameDecision(c, d)
        BY <1>1, <2>1, <2>5, ClearedFields DEF Prepared
      <3>2. Evidence(b)'
        BY <1>3, <2>1, <2>2, <2>5 DEF Known, Evidence, SameDecision
      <3>3. Authorised(b) => Authorised(b)'
        BY <2>2, <3>1 DEF Authorised, SameDecision
      <3>4. QED
        BY <1>1, <2>1, <2>2, <2>3, <3>1, <3>2, <3>3 DEF Lawful, SameDecision
    <2>6. CASE pc[p] \in WriteSteps \ {"deciding", "clearing"}
      <3>1. /\ SameDecision(c, d) /\ c.pending = d.pending
            /\ pc[p] = "expiring" => c.state = "expired"
            /\ pc[p] = "reserving" => c.state = "reserved"
            /\ pc[p] \in {"consuming", "consuming_existing"} =>
                 c.state = "consumed" /\ d.state = "reserved"
            /\ pc[p] = "releasing" => c.state = "approved" /\ d.state = "reserved"
        BY <1>1, <2>1, <2>6, StateFields DEF Prepared, Moved, WriteSteps
      <3>2. Authorised(b) => Authorised(b)'
        BY <2>2, <3>1 DEF Authorised, SameDecision
      <3>3. d.decision # "none" /\ ~c.pending => Evidence(b)'
        BY <1>1, <2>1, <2>2, <3>1 DEF Lawful, Evidence, SameDecision
      <3>4. c.state \in {"reserved", "consumed", "approved"} => Authorised(b)'
        BY <1>1, <1>3, <2>1, <2>6, <3>1, <3>2 DEF Lawful, Known, WriteSteps
      <3>5. c.state = "consumed" => b \in published'
        BY <1>3, <2>1, <2>6, <3>1 DEF Known, WriteSteps
      <3>6. c.state = "approved" =>
              /\ approval'[b].decision = "approved"
              /\ approval'[b].decidedBy \in Approvers \ {approval'[b].requester}
        BY <3>4 DEF Authorised
      <3>7. c.state \notin {"absent", "requested"}
        BY <2>6, <3>1 DEF WriteSteps
      <3>8. QED
        BY <2>1, <2>2, <2>3, <3>1, <3>3, <3>4, <3>5, <3>6, <3>7
           DEF Lawful, SameDecision
    <2>7. QED
      BY <2>4, <2>5, <2>6 DEF WriteApproval
  <1>4. QED
    BY <1>2, <1>3

LEMMA WriteCopies ==
  ASSUME TypeInv, GovInv, NEW p \in Procs, WriteApproval(p), NEW q \in Procs
  PROVE  CopyInv(q)'
  <1>1. /\ approval \in [Approvals -> Approval] /\ copy \in [Procs -> Approval]
        /\ job[p] \in Approvals /\ Succeeds(approval'[job[p]], approval[job[p]])
        /\ approval'[job[p]] = NextRevision(copy[p])
        /\ Prepared(pc[p], copy[p], approval[job[p]]) /\ Known(p) /\ Others(p)
        /\ published' = published /\ events' = events
        /\ \A b \in Approvals : b # job[p] => approval'[b] = approval[b]
    BY WriteFacts DEF TypeInv, TypeOK
  <1>2. CASE q # p
    <2> SUFFICES ASSUME pc[q] # "idle", job[q] \in Approvals PROVE CopyInv(q)'
      BY <1>1, <1>2 DEF Others, CopyInv
    <2>1. /\ pc'[q] = pc[q] /\ job'[q] = job[q] /\ copy'[q] = copy[q] /\ CopyInv(q)
      BY <1>1, <1>2 DEF Others, GovInv
    <2>2. Known(q)'
      <3>1. Authorised(job[q]) => Authorised(job[q])'
        <4>1. ASSUME NEW b \in Approvals, Authorised(b), b = job[q]
              PROVE  b = job'[q] /\ Authorised(b)'
          BY <2>1, <4>1, AuthorisedKept
        <4>2. QED
          BY <2>1, <4>1 DEF Authorised
      <3>2. Known(q)
        BY <2>1 DEF CopyInv
      <3>3. QED
        BY <1>1, <2>1, <3>1, <3>2 DEF Known
    <2>3. CASE job[q] # job[p]
      BY <1>1, <2>1, <2>2, <2>3 DEF CopyInv
    <2>4. CASE job[q] = job[p]
      <3>1. /\ copy[q].revision \in Nat /\ approval[job[p]].revision \in Nat
            /\ copy[q].revision <= approval[job[p]].revision
            /\ approval'[job[p]].revision = approval[job[p]].revision + 1
            /\ approval'[job[p]].state # "absent"
        BY <1>1, <2>1, <2>4, Fields DEF CopyInv, Succeeds
      <3>2. /\ copy[q].revision <= approval'[job[p]].revision
            /\ copy[q].revision # approval'[job[p]].revision
        BY <3>1
      <3>3. QED
        BY <2>1, <2>2, <2>4, <3>1, <3>2 DEF CopyInv
    <2>5. QED
      BY <2>3, <2>4
  <1>3. CASE q = p
    <2>1. CASE pc'[p] = "idle"
      BY <1>3, <2>1, GovIdle
    <2>2. CASE /\ job'[p] = job[p] /\ copy'[p] = NextRevision(copy[p])
               /\ \/ pc[p] = "reserving" /\ pc'[p] = "publishing"
                  \/ pc'[p] \in {"delivering", "announcing_expiry", "announcing"}
      <3>1. /\ copy'[p] = approval'[job[p]] /\ approval'[job[p]].state # "absent"
            /\ copy'[p].revision \in Nat
        BY <1>1, <2>2, NextRevisionFields, Fields DEF Succeeds
      <3>2. pc'[p] = "publishing" => approval'[job[p]].state = "reserved"
        BY <1>1, <2>2, StateFields, NextRevisionFields DEF Prepared, Moved
      <3>3. Prepared(pc'[p], copy'[p], approval'[job[p]])
        BY <2>2, <3>1, <3>2 DEF Prepared
      <3>4. pc'[p] = "publishing" => Authorised(job[p])'
        <4>1. ASSUME NEW b \in Approvals, Authorised(b), b = job[p]
              PROVE  b = job'[p] /\ Authorised(b)'
          BY <2>2, <4>1, AuthorisedKept
        <4>2. QED
          BY <1>1, <2>2, <4>1 DEF Authorised, Known
      <3>5. Known(p)'
        BY <2>2, <3>4 DEF Known
      <3>6. QED
        BY <1>1, <1>3, <2>2, <3>1, <3>3, <3>5 DEF CopyInv
    <2>3. QED
      BY <2>1, <2>2, WriteMoves
  <1>4. QED
    BY <1>2, <1>3

LEMMA GovShared ==
  ASSUME TypeInv, GovInv, NEW p \in Procs, SharedStep(p)
  PROVE  GovInv'
  <1>1. CASE WriteApproval(p)
    BY <1>1, WriteLawful, WriteCopies DEF GovInv
  <1>2. CASE WriteConflict(p) \/ AnnounceExpiry(p)
    BY <1>2, GovEnds DEF WriteConflict, AnnounceExpiry, Append, durable
  <1>3. CASE Deliver(p)
    <2>1. /\ copy[p] \in Approval /\ JobType(p) /\ CopyInv(p)
          /\ \A a \in published \cap Approvals : Authorised(a)
      BY DEF TypeInv, TypeOK, GovInv, Lawful
    <2>2. /\ pc[p] = "delivering" /\ job[p] \in Approvals
          /\ approval' = approval /\ published' = published
          /\ events' = events \cup {[id |-> job[p], kind |-> copy[p].decision]}
      BY <1>3, <2>1 DEF Deliver, JobType, Append
    <2>3. /\ Cleared(copy[p]) \in Approval
          /\ Cleared(copy[p]).revision = copy[p].revision
          /\ Cleared(copy[p]).decision = copy[p].decision
      BY <2>1, ClearedFields DEF SameDecision
    <2>4. copy[p].revision = approval[job[p]].revision =>
            Prepared("clearing", Cleared(copy[p]), approval[job[p]])
      BY <2>1, <2>2 DEF CopyInv, Prepared, Cleared
    <2>5. QED
      BY <1>3, <2>1, <2>2, <2>3, <2>4, GovGoes, StepNames DEF Deliver
  <1>4. QED
    BY <1>1, <1>2, <1>3 DEF SharedStep

LEMMA GovStep == TypeInv /\ GovInv /\ [Next]_vars => GovInv'
  <1> SUFFICES ASSUME TypeInv, GovInv, [Next]_vars PROVE GovInv'
    OBVIOUS
  <1>1. CASE \E h \in Handlers : HandlerBegins(h) \/ HandlerStep(h)
    BY <1>1, GovHandlerBegins, GovHandlerStep
  <1>2. CASE \E r \in Reconcilers :
               ReconcilerStep(r) \/ \E a \in Approvals : ReconcilerBegins(r, a)
    BY <1>2, GovReconcilerStep, GovReconcilerBegins
  <1>3. CASE \E p \in Procs : SharedStep(p)
    BY <1>3, GovShared
  <1>4. CASE \E p \in Procs : Crash(p)
    BY <1>4, GovEnds DEF Crash, durable
  <1>5. CASE (\E a \in Approvals : Expire(a)) \/ UNCHANGED vars
    BY <1>5 DEF Expire, vars, durable, local, GovInv, Lawful, CopyInv, Known,
                Authorised, Evidence
  <1>6. QED
    BY <1>1, <1>2, <1>3, <1>4, <1>5 DEF Next

LEMMA GovInvariant == Spec => [](TypeInv /\ GovInv)
  <1>1. Init => GovInv
    BY GovInit
  <1>2. TypeInv /\ GovInv /\ [Next]_vars => GovInv'
    BY GovStep
  <1>3. QED
    BY <1>1, <1>2, TypeInvariant, PTL DEF Spec

-----------------------------------------------------------------------------
\* The two-person rule of decide_approval and queue_execution holds for every
\* execution that is ever published, although publication happens after the
\* approval was read, and possibly after it was released, expired or consumed
\* by somebody else.
THEOREM TwoPersonRule == Spec => []SeparationOfDuties
  <1>1. TypeInv /\ GovInv => SeparationOfDuties
    BY DEF GovInv, Lawful, Authorised, SeparationOfDuties
  <1>2. QED
    BY <1>1, GovInvariant, PTL

\* Neither queue_execution nor the reconciler ever consumes an approval whose
\* execution is not durable.
THEOREM PublishBeforeConsume == Spec => []ConsumedIsPublished
  <1>1. TypeInv /\ GovInv => ConsumedIsPublished
    BY DEF GovInv, Lawful, ConsumedIsPublished
  <1>2. QED
    BY <1>1, GovInvariant, PTL

\* The decision of an approval is in the evidence stream or still marked
\* pending in the document, whichever of reservation, release, expiry and
\* consumption rewrites that document in between.
THEOREM DecisionEvidence == Spec => []DecisionHasEvidence
  <1>1. TypeInv /\ GovInv => DecisionHasEvidence
    BY DEF GovInv, Lawful, Evidence, DecisionHasEvidence
  <1>2. QED
    BY <1>1, GovInvariant, PTL

\* Only Request and WriteApproval touch approval documents.
LEMMA WhoWrites ==
  ASSUME [Next]_vars, approval' # approval
  PROVE  \/ \E p \in Procs : WriteApproval(p)
         \/ \E h \in Handlers, a \in Approvals, u \in People : Request(h, a, u)
  BY DEF Next, vars, durable, HandlerBegins, HandlerStep, ReconcilerBegins,
         ReconcilerStep, SharedStep, Decide, DecideAgain, DecideTooLate,
         QueueApproved, QueueTooLate, QueueReserved, QueueDirect, AnnounceRequest,
         Resume, Publish, Announce, ReconcilePending, ReconcileExpired,
         ReconcileReserved, CheckFound, CheckReleases, CheckWaits, WriteConflict,
         Deliver, AnnounceExpiry, Crash, Expire

Final(a) ==
  /\ approval[a].state \in {"rejected", "expired", "consumed"} =>
       approval'[a].state = approval[a].state
  /\ approval[a].decision # "none" =>
       /\ approval'[a].decision = approval[a].decision
       /\ approval'[a].decidedBy = approval[a].decidedBy

LEMMA FinalStep ==
  ASSUME TypeInv, GovInv, [Next]_vars, NEW a \in Approvals
  PROVE  Final(a)
  <1>1. CASE approval' = approval
    BY <1>1 DEF Final
  <1>2. ASSUME NEW p \in Procs, WriteApproval(p) PROVE Final(a)
    <2>1. CASE a = job[p]
      BY <1>2, <2>1, WriteFacts DEF Final, Succeeds, SameDecision
    <2>2. CASE a # job[p]
      BY <1>2, <2>2, WriteFacts DEF Final
    <2>3. QED
      BY <2>1, <2>2
  <1>3. ASSUME NEW h \in Handlers, NEW b \in Approvals, NEW u \in People,
               Request(h, b, u)
        PROVE  Final(a)
    <2>1. CASE approval[b].state # "absent" \/ a # b
      <3>1. approval'[a] = approval[a]
        BY <1>3, <2>1 DEF Request, TypeInv, TypeOK
      <3>2. QED
        BY <3>1 DEF Final
    <2>2. CASE approval[b].state = "absent" /\ a = b
      BY <2>2 DEF GovInv, Lawful, Final
    <2>3. QED
      BY <2>1, <2>2
  <1>4. QED
    BY <1>1, <1>2, <1>3, WhoWrites

\* A decision, once written, is never replaced, and a rejected, expired or
\* consumed approval stays so: every update_approval that passes the revision
\* test was prepared from a document that still allowed the change.
THEOREM DecisionsStay == Spec => DecisionsAreFinal
  <1>1. TypeInv /\ GovInv /\ [Next]_vars => [\A a \in Approvals : Final(a)]_vars
    BY FinalStep
  <1>2. Spec => [][\A a \in Approvals : Final(a)]_vars
    BY <1>1, GovInvariant, PTL DEF Spec
  <1>3. QED
    BY <1>2 DEF DecisionsAreFinal, Final

-----------------------------------------------------------------------------
(* The third layer: a process that is about to append evidence still stands *)
(* before what it tells, however long ago it wrote or read the document.    *)

Told(p) ==
  /\ pc[p] = "delivering" =>
       copy[p].decision # "none" /\ copy[p].decision = approval[job[p]].decision
  /\ pc[p] = "announcing_expiry" => approval[job[p]].state = "expired"
  /\ pc[p] = "announcing_request" => approval[job[p]].state # "absent"
  /\ pc[p] = "announcing" => job[p] \in published

Refused(a) == approval[a].state = "rejected" => approval[a].decision = "rejected"

ToldInv == (\A p \in Procs : Told(p)) /\ (\A a \in Approvals : Refused(a))

LEMMA RequestMakes ==
  ASSUME TypeInv, NEW h \in Handlers, NEW a \in Approvals, NEW u \in People, Request(h, a, u)
  PROVE  /\ approval'[a] \in Approval
         /\ \A b \in Approvals : b # a => approval'[b] = approval[b]
         /\ approval[a].state # "absent" => approval' = approval
         /\ approval[a].state = "absent" =>
              /\ approval'[a].state = "requested" /\ approval'[a].requester = u
              /\ approval'[a].decidedBy = Nobody /\ approval'[a].decision = "none"
  <1> DEFINE new == [Absent EXCEPT !.state = "requested", !.requester = u]
  <1>1. /\ new \in Approval /\ new.state = "requested" /\ new.requester = u
        /\ new.decision = "none" /\ new.decidedBy = Nobody
    BY DEF Absent, Approval, ApprovalState
  <1>2. approval \in [Approvals -> Approval]
    BY DEF TypeInv, TypeOK
  <1>3. approval' = IF approval[a].state # "absent" THEN approval
                    ELSE [approval EXCEPT ![a] = new]
    BY DEF Request
  <1> HIDE DEF new
  <1>4. QED
    BY <1>1, <1>2, <1>3

\* Only Publish touches the executions.
LEMMA WhoPublishes ==
  ASSUME [Next]_vars, published' # published
  PROVE  \E h \in Handlers : Publish(h)
  <1>1. ASSUME NEW h \in Handlers, HandlerBegins(h) PROVE FALSE
    <2>1. ASSUME NEW a \in Approvals, NEW u \in People, Request(h, a, u) PROVE FALSE
      BY <2>1 DEF Request
    <2>2. ASSUME NEW a \in Approvals, NEW u \in People, NEW v \in Decisions,
                 Decide(h, a, u, v) \/ DecideAgain(h, a, u, v)
          PROVE  FALSE
      BY <2>2 DEF Decide, DecideAgain, durable
    <2>3. ASSUME NEW a \in Approvals,
                 \/ DecideTooLate(h, a) \/ QueueApproved(h, a)
                 \/ QueueTooLate(h, a) \/ QueueReserved(h, a)
          PROVE  FALSE
      BY <2>3 DEF DecideTooLate, QueueApproved, QueueTooLate, QueueReserved, durable
    <2>4. ASSUME NEW x \in Direct, QueueDirect(h, x) PROVE FALSE
      BY <2>4 DEF QueueDirect, durable
    <2>5. QED
      BY <1>1, <2>1, <2>2, <2>3, <2>4 DEF HandlerBegins
  <1>2. ASSUME NEW h \in Handlers, HandlerStep(h) PROVE Publish(h)
    BY <1>2 DEF HandlerStep, AnnounceRequest, Resume, Announce, durable
  <1>3. ASSUME NEW r \in Reconcilers, ReconcilerStep(r) PROVE FALSE
    BY <1>3 DEF ReconcilerStep, CheckFound, CheckReleases, CheckWaits, durable
  <1>4. ASSUME NEW r \in Reconcilers, NEW a \in Approvals, ReconcilerBegins(r, a) PROVE FALSE
    BY <1>4 DEF ReconcilerBegins, ReconcilePending, ReconcileExpired, ReconcileReserved, durable
  <1>5. ASSUME NEW p \in Procs, SharedStep(p) PROVE FALSE
    BY <1>5 DEF SharedStep, WriteApproval, WriteConflict, Deliver, AnnounceExpiry, durable
  <1>6. ASSUME UNCHANGED vars \/ (\E p \in Procs : Crash(p)) \/ (\E a \in Approvals : Expire(a))
        PROVE  FALSE
    BY <1>6 DEF vars, Crash, Expire, durable
  <1>7. QED
    BY <1>1, <1>2, <1>3, <1>4, <1>5, <1>6 DEF Next

\* Decisions, expiries and executions do not go away.
LEMMA TruthKept ==
  ASSUME TypeInv, GovInv, [Next]_vars
  PROVE  /\ \A a \in Approvals : Final(a)
         /\ \A a \in Approvals : approval[a].state # "absent" => approval'[a].state # "absent"
         /\ published \subseteq published'
  <1>1. \A a \in Approvals : Final(a)
    BY FinalStep
  <1>2. ASSUME NEW a \in Approvals, approval[a].state # "absent"
        PROVE  approval'[a].state # "absent"
    <2> DEFINE Present == approval'[a].state # "absent"
    <2>1. CASE approval' = approval
      BY <1>2, <2>1
    <2>2. ASSUME NEW p \in Procs, WriteApproval(p) PROVE approval'[a].state # "absent"
      BY <1>2, <2>2, WriteFacts DEF Succeeds
    <2>3. ASSUME NEW h \in Handlers, NEW b \in Approvals, NEW u \in People, Request(h, b, u)
          PROVE  approval'[a].state # "absent"
      BY <1>2, <2>3, RequestMakes
    <2> HIDE DEF Present
    <2>4. Present
      BY <2>1, <2>2, <2>3, WhoWrites DEF Present
    <2>5. QED
      BY <2>4 DEF Present
  <1>3. published \subseteq published'
    BY WhoPublishes DEF Publish
  <1>4. QED
    BY <1>1, <1>2, <1>3

\* A rejected approval is one that a decision rejected.
LEMMA RefusedStep ==
  ASSUME TypeInv, GovInv, \A a \in Approvals : Refused(a), [Next]_vars, NEW a \in Approvals
  PROVE  Refused(a)'
  <1>1. CASE approval' = approval
    BY <1>1 DEF Refused
  <1>2. ASSUME NEW p \in Procs, WriteApproval(p) PROVE Refused(a)'
    <2>1. CASE a # job[p]
      BY <1>2, <2>1, WriteFacts DEF Refused
    <2>2. CASE a = job[p]
      <3>1. /\ copy[p] \in Approval /\ approval[a] \in Approval /\ pc[p] \in WriteSteps
        BY <1>2 DEF TypeInv, TypeOK, WriteApproval
      <3>2. /\ Prepared(pc[p], copy[p], approval[a])
            /\ approval'[a].state = copy[p].state /\ approval'[a].decision = copy[p].decision
        BY <1>2, <2>2, <3>1, WriteFacts, NextRevisionFields DEF SameDecision
      <3>3. CASE pc[p] = "deciding"
        <4>1. PICK u \in Approvers, v \in Decisions : copy[p] = Decided(approval[a], u, v)
          BY <3>2, <3>3 DEF Prepared
        <4>2. u \in People
          BY ApprovalAssumption
        <4>3. copy[p].state = v /\ copy[p].decision = v
          BY <3>1, <4>1, <4>2 DEF Decided, Approval
        <4>4. QED
          BY <3>2, <4>3 DEF Refused
      <3>4. CASE pc[p] = "clearing"
        BY <3>1, <3>2, <3>4, ClearedFields DEF Prepared, SameDecision, Refused
      <3>5. CASE pc[p] \in WriteSteps \ {"deciding", "clearing"}
        <4>1. copy[p].state # "rejected"
          BY <3>1, <3>2, <3>5, StateFields DEF Prepared, Moved, WriteSteps
        <4>2. QED
          BY <3>2, <4>1 DEF Refused
      <3>6. QED
        BY <3>1, <3>3, <3>4, <3>5
    <2>3. QED
      BY <2>1, <2>2
  <1>3. ASSUME NEW h \in Handlers, NEW b \in Approvals, NEW u \in People, Request(h, b, u)
        PROVE  Refused(a)'
    <2>1. approval'[a] = approval[a] \/ approval'[a].state = "requested"
      BY <1>3, RequestMakes
    <2>2. QED
      BY <2>1 DEF Refused
  <1>4. QED
    BY <1>1, <1>2, <1>3, WhoWrites

\* A step of p keeps what every other process is about to tell.
LEMMA ToldFrame ==
  ASSUME TypeInv, GovInv, ToldInv, [Next]_vars, NEW p \in Procs, Others(p), Told(p)'
  PROVE  ToldInv'
  <1> SUFFICES ASSUME NEW q \in Procs, q # p PROVE Told(q)'
    BY RefusedStep DEF ToldInv
  <1>1. Told(q) /\ JobType(q) /\ pc'[q] = pc[q] /\ job'[q] = job[q] /\ copy'[q] = copy[q]
    BY DEF ToldInv, TypeInv, Others
  <1>2. pc[q] \in {"delivering", "announcing_expiry", "announcing_request"} => job[q] \in Approvals
    BY <1>1 DEF JobType
  <1>3. pc[q] = "delivering" =>
          copy[q].decision # "none" /\ copy[q].decision = approval'[job[q]].decision
    BY <1>1, <1>2, TruthKept DEF Told, Final
  <1>4. pc[q] = "announcing_expiry" => approval'[job[q]].state = "expired"
    BY <1>1, <1>2, TruthKept DEF Told, Final
  <1>5. pc[q] = "announcing_request" => approval'[job[q]].state # "absent"
    BY <1>1, <1>2, TruthKept DEF Told
  <1>6. pc[q] = "announcing" => job[q] \in published'
    BY <1>1, TruthKept DEF Told
  <1>7. QED
    BY <1>1, <1>3, <1>4, <1>5, <1>6 DEF Told

\* The steps at which a process tells something.
Telling == {"delivering", "announcing_expiry", "announcing_request", "announcing"}

LEMMA ToldSilent ==
  ASSUME NEW p \in Procs, pc'[p] \notin Telling
  PROVE  Told(p)'
  BY DEF Told, Telling

LEMMA ToldHandlerBegins ==
  ASSUME TypeInv, GovInv, ToldInv, [Next]_vars, NEW h \in Handlers, HandlerBegins(h)
  PROVE  ToldInv'
  <1>1. h \in Procs /\ LocalType
    BY DEF Procs, TypeInv, TypeOK, LocalType
  <1>2. ASSUME NEW a \in Approvals, NEW u \in People, Request(h, a, u) PROVE ToldInv'
    <2>1. approval'[a] \in Approval /\ approval'[a].state # "absent" /\ a \in Requests
      BY <1>2, RequestMakes DEF Requests
    <2>2. Others(h) /\ pc'[h] = "announcing_request" /\ job'[h] = a
      BY <1>1, <1>2, <2>1, BeginMoves, StepNames DEF Request
    <2>3. Told(h)'
      BY <2>1, <2>2 DEF Told
    <2>4. QED
      BY <1>1, <2>2, <2>3, ToldFrame
  <1>3. ASSUME NEW a \in Approvals, NEW u \in People, NEW v \in Decisions, DecideAgain(h, a, u, v)
        PROVE  ToldInv'
    <2>1. a \in Requests /\ approval[a] \in Approval /\ approval'[a] = approval[a]
          /\ approval[a].decision # "none"
      BY <1>3 DEF DecideAgain, Requests, TypeInv, TypeOK, Named, durable
    <2>2. Others(h) /\ pc'[h] = "delivering" /\ job'[h] = a /\ copy'[h] = approval[a]
      BY <1>1, <1>3, <2>1, BeginMoves, StepNames DEF DecideAgain
    <2>3. Told(h)'
      BY <2>1, <2>2 DEF Told
    <2>4. QED
      BY <1>1, <2>2, <2>3, ToldFrame
  <1>4. ASSUME NEW a \in Requests, NEW s \in Steps \ Telling, NEW d \in Approval,
               Begin(h, s, a, d)
        PROVE  ToldInv'
    <2>1. Others(h) /\ pc'[h] = s
      BY <1>1, <1>4, BeginMoves
    <2>2. QED
      BY <1>1, <1>4, <2>1, ToldSilent, ToldFrame
  <1>5. {"deciding", "expiring", "reserving", "resuming", "publishing"} \subseteq Steps \ Telling
    BY DEF Steps, WriteSteps, Telling
  <1>6. ASSUME NEW a \in Approvals, NEW u \in People, NEW v \in Decisions, Decide(h, a, u, v)
        PROVE  ToldInv'
    <2>1. a \in Requests /\ Decided(approval[a], u, v) \in Approval
      BY DecidedFields DEF Requests, TypeInv, TypeOK
    <2>2. QED
      BY <1>4, <1>5, <1>6, <2>1 DEF Decide
  <1>7. ASSUME NEW a \in Approvals,
               \/ DecideTooLate(h, a) \/ QueueApproved(h, a)
               \/ QueueTooLate(h, a) \/ QueueReserved(h, a)
        PROVE  ToldInv'
    <2>1. a \in Requests /\ approval[a] \in Approval /\ ExpiredDocument(approval[a]) \in Approval
          /\ ReservedDocument(approval[a]) \in Approval
      BY StateFields DEF Requests, TypeInv, TypeOK, Moved
    <2>2. QED
      BY <1>4, <1>5, <1>7, <2>1 DEF DecideTooLate, QueueApproved, QueueTooLate, QueueReserved
  <1>8. ASSUME NEW x \in Direct, QueueDirect(h, x) PROVE ToldInv'
    <2>1. x \in Requests /\ Absent \in Approval
      BY AbsentFields DEF Requests
    <2>2. QED
      BY <1>4, <1>5, <1>8, <2>1 DEF QueueDirect
  <1>9. QED
    BY <1>2, <1>3, <1>6, <1>7, <1>8 DEF HandlerBegins

LEMMA ToldReconcilerBegins ==
  ASSUME TypeInv, GovInv, ToldInv, [Next]_vars, NEW r \in Reconcilers, NEW a \in Approvals,
         ReconcilerBegins(r, a)
  PROVE  ToldInv'
  <1>1. r \in Procs /\ LocalType /\ a \in Requests /\ approval[a] \in Approval
        /\ ExpiredDocument(approval[a]) \in Approval
    BY StateFields DEF Procs, TypeInv, TypeOK, LocalType, Requests, Moved
  <1>2. CASE ReconcilePending(r, a)
    <2>1. approval'[a] = approval[a] /\ approval[a].decision # "none"
      BY <1>2 DEF ReconcilePending, durable, TypeInv, Named
    <2>2. Others(r) /\ pc'[r] = "delivering" /\ job'[r] = a /\ copy'[r] = approval[a]
      BY <1>1, <1>2, BeginMoves, StepNames DEF ReconcilePending
    <2>3. Told(r)'
      BY <2>1, <2>2 DEF Told
    <2>4. QED
      BY <1>1, <2>2, <2>3, ToldFrame
  <1>3. CASE ReconcileExpired(r, a) \/ ReconcileReserved(r, a)
    <2>1. Others(r) /\ pc'[r] \in {"expiring", "checking"}
      BY <1>1, <1>3, BeginMoves, StepNames DEF ReconcileExpired, ReconcileReserved
    <2>2. QED
      BY <1>1, <2>1, ToldSilent, ToldFrame DEF Telling
  <1>4. QED
    BY <1>2, <1>3 DEF ReconcilerBegins

\* The steps of handlers and reconcilers between their writes.
LEMMA ToldSteps ==
  ASSUME TypeInv, GovInv, ToldInv, [Next]_vars, NEW p \in Procs,
         HandlerStep(p) \/ ReconcilerStep(p) \/ WriteConflict(p) \/ Deliver(p)
           \/ AnnounceExpiry(p) \/ Crash(p)
  PROVE  ToldInv'
  <1>1. LocalType /\ copy[p] \in Approval
    BY DEF TypeInv, TypeOK, LocalType
  <1>2. /\ ConsumedDocument(copy[p]) \in Approval /\ ReleasedDocument(copy[p]) \in Approval
        /\ Cleared(copy[p]) \in Approval
    BY <1>1, StateFields, ClearedFields DEF Moved
  <1>3. ASSUME Done(p) PROVE ToldInv'
    BY <1>1, <1>3, DoneMoves, ToldSilent, ToldFrame DEF Telling
  <1>4. ASSUME NEW s \in Steps \ Telling, NEW d \in Approval, Goto(p, s, d) PROVE ToldInv'
    BY <1>1, <1>4, GotoMoves, ToldSilent, ToldFrame
  <1>5. {"consuming_existing", "publishing", "consuming", "releasing", "clearing"}
          \subseteq Steps \ Telling
    BY DEF Steps, WriteSteps, Telling
  <1>6. CASE Publish(p)
    <2>1. CASE job[p] \in Direct
      <3>1. Others(p) /\ pc'[p] = "announcing" /\ job'[p] = job[p] /\ job[p] \in published'
        BY <1>1, <1>6, <2>1, GotoMoves, StepNames DEF Publish
      <3>2. Told(p)'
        BY <3>1 DEF Told
      <3>3. QED
        BY <3>1, <3>2, ToldFrame
    <2>2. CASE job[p] \notin Direct
      BY <1>2, <1>4, <1>5, <1>6, <2>2 DEF Publish
    <2>3. QED
      BY <2>1, <2>2
  <1>7. CASE AnnounceRequest(p) \/ Announce(p) \/ CheckWaits(p) \/ WriteConflict(p)
             \/ AnnounceExpiry(p) \/ Crash(p)
    BY <1>3, <1>7 DEF AnnounceRequest, Announce, CheckWaits, WriteConflict, AnnounceExpiry, Crash
  <1>8. CASE Resume(p) \/ CheckFound(p) \/ CheckReleases(p) \/ Deliver(p)
    BY <1>1, <1>2, <1>4, <1>5, <1>8 DEF Resume, CheckFound, CheckReleases, Deliver
  <1>9. QED
    BY <1>6, <1>7, <1>8 DEF HandlerStep, ReconcilerStep

LEMMA ToldWrite ==
  ASSUME TypeInv, GovInv, ToldInv, [Next]_vars, NEW p \in Procs, WriteApproval(p)
  PROVE  ToldInv'
  <1>1. /\ copy[p] \in Approval /\ JobType(p) /\ pc[p] \in WriteSteps
        /\ Named(copy[p])
    BY DEF TypeInv, TypeOK, WriteApproval
  <1>2. /\ Others(p) /\ Known(p) /\ Prepared(pc[p], copy[p], approval[job[p]])
        /\ approval'[job[p]] = NextRevision(copy[p]) /\ published' = published
        /\ job[p] \in Approvals /\ approval[job[p]] \in Approval
    BY WriteFacts DEF TypeInv, TypeOK
  <1>3. LocalType /\ NextRevision(copy[p]) \in Approval
        /\ NextRevision(copy[p]).state = copy[p].state
        /\ NextRevision(copy[p]).decision = copy[p].decision
    BY <1>1, NextRevisionFields DEF TypeInv, TypeOK, LocalType, SameDecision
  <1>4. Finish(p, AfterWrite[pc[p]], NextRevision(copy[p]))
    BY DEF WriteApproval
  <1>5. CASE pc[p] \in {"consuming_existing", "releasing", "clearing"}
    BY <1>2, <1>3, <1>4, <1>5, AfterWriteSteps, DoneMoves, ToldSilent, ToldFrame DEF Finish, Telling
  <1>6. CASE pc[p] \in {"deciding", "expiring", "reserving", "consuming"}
    <2>1. /\ AfterWrite[pc[p]] \in Steps /\ AfterWrite[pc[p]] # "idle"
      BY <1>6, AfterWriteSteps, StepNames
    <2>2. /\ pc'[p] = AfterWrite[pc[p]] /\ job'[p] = job[p] /\ copy'[p] = NextRevision(copy[p])
      BY <1>3, <1>4, <2>1, GotoMoves DEF Finish
    <2>3. pc[p] = "deciding" => copy[p].decision # "none"
      BY <1>1 DEF JobType, Named
    <2>4. pc[p] = "expiring" => copy[p].state = "expired"
      BY <1>2, StateFields DEF Prepared, Moved
    <2>5. pc[p] = "consuming" => job[p] \in published'
      BY <1>2 DEF Known
    <2>6. Told(p)'
      BY <1>2, <1>3, <1>6, <2>2, <2>3, <2>4, <2>5, AfterWriteSteps DEF Told
    <2>7. QED
      BY <1>2, <2>6, ToldFrame
  <1>7. QED
    BY <1>1, <1>5, <1>6 DEF WriteSteps

LEMMA ToldStep == TypeInv /\ GovInv /\ ToldInv /\ [Next]_vars => ToldInv'
  <1> SUFFICES ASSUME TypeInv, GovInv, ToldInv, [Next]_vars PROVE ToldInv'
    OBVIOUS
  <1>1. CASE \E h \in Handlers : HandlerBegins(h)
    BY <1>1, ToldHandlerBegins
  <1>2. CASE \E h \in Handlers : HandlerStep(h)
    BY <1>2, ToldSteps DEF Procs
  <1>3. CASE \E r \in Reconcilers : ReconcilerStep(r) \/ \E a \in Approvals : ReconcilerBegins(r, a)
    BY <1>3, ToldSteps, ToldReconcilerBegins DEF Procs
  <1>4. CASE \E p \in Procs : SharedStep(p) \/ Crash(p)
    BY <1>4, ToldSteps, ToldWrite DEF SharedStep
  <1>5. CASE UNCHANGED <<durable, local>>
    BY <1>5 DEF ToldInv, Told, Refused, durable, local
  <1>6. CASE \E a \in Approvals : Expire(a)
    BY <1>5, <1>6 DEF Expire
  <1>7. QED
    BY <1>1, <1>2, <1>3, <1>4, <1>5, <1>6 DEF Next, vars

LEMMA ToldInvariant == Spec => [](TypeInv /\ GovInv /\ ToldInv)
  <1>1. Init => ToldInv
    BY AbsentFields DEF Init, ToldInv, Told, Refused
  <1>2. TypeInv /\ GovInv /\ ToldInv /\ [Next]_vars => ToldInv'
    BY ToldStep
  <1>3. QED
    BY <1>1, <1>2, GovInvariant, PTL DEF Spec

-----------------------------------------------------------------------------
(* The refinement.                                                          *)

Implements == [Contract!CNext]_(Contract!cvars)

LEMMA Stages ==
  /\ StageOf["absent"] = "absent" /\ StageOf["requested"] = "open"
  /\ StageOf["approved"] = "granted" /\ StageOf["reserved"] = "granted"
  /\ StageOf["rejected"] = "refused" /\ StageOf["expired"] = "lapsed"
  /\ StageOf["consumed"] = "spent"
  BY DEF StageOf

\* The contract's view of the request a.
LEMMA View ==
  ASSUME NEW a \in Approvals
  PROVE  /\ stageBar[a] = StageOf[approval[a].state]
         /\ rulingBar[a] = [requester |-> approval[a].requester, by |-> approval[a].decidedBy,
                            verdict |-> approval[a].decision]
         /\ rulingBar[a].requester = approval[a].requester
         /\ rulingBar[a].by = approval[a].decidedBy
         /\ rulingBar[a].verdict = approval[a].decision
  BY DEF stageBar, rulingBar

\* What a write of a alone does to the contract.
LEMMA ViewChanged ==
  ASSUME NEW a \in Approvals, \A b \in Approvals : b # a => approval'[b] = approval[b]
  PROVE  /\ stageBar' = [stageBar EXCEPT ![a] = StageOf[approval'[a].state]]
         /\ rulingBar' = [rulingBar EXCEPT
              ![a] = [requester |-> approval'[a].requester, by |-> approval'[a].decidedBy,
                      verdict |-> approval'[a].decision]]
         /\ SameDecision(approval'[a], approval[a]) => rulingBar' = rulingBar
         /\ approval'[a].state = approval[a].state => stageBar' = stageBar
         /\ StageOf[approval'[a].state] = StageOf[approval[a].state] => stageBar' = stageBar
  BY DEF stageBar, rulingBar, SameDecision

\* Only Publish creates executions, and every event is true when it is told.
LEMMA TellImplements ==
  ASSUME TypeInv, GovInv, ToldInv, NEW p \in Procs,
         AnnounceRequest(p) \/ Announce(p) \/ Deliver(p) \/ AnnounceExpiry(p)
  PROVE  Implements
  <1>1. Told(p) /\ JobType(p) /\ copy[p] \in Approval /\ UNCHANGED <<approval, published>>
        /\ pc[p] \in Telling
    BY DEF ToldInv, TypeInv, TypeOK, AnnounceRequest, Announce, Deliver, AnnounceExpiry, Telling
  <1>2. UNCHANGED <<stageBar, rulingBar, published>>
    BY <1>1 DEF stageBar, rulingBar
  <1>3. job[p] \in Approvals \cup Direct /\ (pc[p] # "announcing" => job[p] \in Approvals)
    BY <1>1 DEF JobType, Telling, Requests
  <1>4. copy[p].decision \in {"none", "approved", "rejected"}
    BY <1>1, Fields DEF Decisions
  <1>5. ASSUME NEW kind \in {"requested", "approved", "rejected", "expired", "queued"},
               Append(p, kind), Contract!IsTrue(job[p], kind)
        PROVE  Implements
    <2>1. Contract!Tell(job[p], kind)
      BY <1>2, <1>5 DEF Contract!Tell, Append
    <2>2. QED
      BY <1>3, <2>1 DEF Implements, Contract!CNext
  <1>6. CASE AnnounceRequest(p)
    <2>1. job[p] \in Approvals /\ approval[job[p]].state # "absent"
      BY <1>1, <1>3, <1>6 DEF AnnounceRequest, Told
    <2>2. approval[job[p]].state \in ApprovalState
      BY <2>1 DEF TypeInv, TypeOK, Approval
    <2>3. stageBar[job[p]] # "absent"
      BY <2>1, <2>2, Stages, View DEF ApprovalState
    <2>4. Contract!IsTrue(job[p], "requested")
      BY <2>1, <2>3 DEF Contract!IsTrue
    <2>5. QED
      BY <1>5, <1>6, <2>4 DEF AnnounceRequest
  <1>7. CASE Announce(p)
    <2>1. Contract!IsTrue(job[p], "queued")
      BY <1>1, <1>7 DEF Announce, Told, Contract!IsTrue
    <2>2. QED
      BY <1>5, <1>7, <2>1 DEF Announce
  <1>8. CASE Deliver(p)
    <2>1. /\ job[p] \in Approvals /\ copy[p].decision \in {"approved", "rejected"}
          /\ rulingBar[job[p]].verdict = copy[p].decision
      BY <1>1, <1>3, <1>4, <1>8, View DEF Deliver, Told
    <2>2. Contract!IsTrue(job[p], copy[p].decision)
      BY <2>1 DEF Contract!IsTrue
    <2>3. QED
      BY <1>5, <1>8, <2>1, <2>2 DEF Deliver
  <1>9. CASE AnnounceExpiry(p)
    <2>1. job[p] \in Approvals /\ stageBar[job[p]] = "lapsed"
      BY <1>1, <1>3, <1>9, View, Stages DEF AnnounceExpiry, Told
    <2>2. Contract!IsTrue(job[p], "expired")
      BY <2>1 DEF Contract!IsTrue
    <2>3. QED
      BY <1>5, <1>9, <2>2 DEF AnnounceExpiry
  <1>10. QED
    BY <1>6, <1>7, <1>8, <1>9

\* The execution of a granted request, of a lapsed one that was reserved in
\* time, of one that has its execution already, or of an ungoverned one.
LEMMA PublishImplements ==
  ASSUME TypeInv, GovInv, ToldInv, NEW h \in Handlers, Publish(h)
  PROVE  Implements
  <1>1. /\ h \in Procs /\ JobType(h) /\ CopyInv(h) /\ pc[h] = "publishing"
        /\ published' = published \cup {job[h]} /\ UNCHANGED <<approval, events>>
    BY DEF Procs, TypeInv, GovInv, Publish
  <1>2. UNCHANGED <<stageBar, rulingBar, events>> /\ job[h] \in Approvals \cup Direct
    BY <1>1 DEF stageBar, rulingBar, JobType, Requests
  <1>3. CASE job[h] \in Direct
    <2>1. Contract!Execute(job[h])
      BY <1>1, <1>2, <1>3 DEF Contract!Execute
    <2>2. QED
      BY <1>2, <2>1 DEF Implements, Contract!CNext
  <1>4. CASE job[h] \notin Direct
    <2>1. /\ job[h] \in Approvals /\ Authorised(job[h]) /\ approval[job[h]].state # "absent"
          /\ Lawful(job[h]) /\ approval[job[h]].state \in ApprovalState
      BY <1>1, <1>2, <1>4 DEF CopyInv, Known, GovInv, TypeInv, TypeOK, Approval
    <2>2. CASE approval[job[h]].state \in {"approved", "reserved", "expired"}
      <3>1. stageBar[job[h]] \in {"granted", "lapsed"}
        BY <2>1, <2>2, View, Stages
      <3>2. rulingBar[job[h]].verdict = "approved" /\ rulingBar[job[h]].by # PreviewActor[job[h]]
        BY <2>1, View DEF Authorised
      <3>3. Contract!Execute(job[h])
        BY <1>1, <1>2, <3>1, <3>2 DEF Contract!Execute
      <3>4. QED
        BY <1>2, <3>3 DEF Implements, Contract!CNext
    <2>3. CASE approval[job[h]].state = "consumed"
      <3>1. published' = published
        BY <1>1, <2>1, <2>3 DEF Lawful
      <3>2. QED
        BY <1>2, <3>1 DEF Implements, Contract!cvars
    <2>4. approval[job[h]].state \notin {"requested", "rejected"}
      BY <2>1 DEF Lawful, Authorised, ToldInv, Refused
    <2>5. QED
      BY <2>1, <2>2, <2>3, <2>4 DEF ApprovalState
  <1>5. QED
    BY <1>3, <1>4

\* The approval document changes as a request is opened, ruled on, lapses or is
\* spent; reservations, releases and the pending flag are not seen.
LEMMA RequestImplements ==
  ASSUME TypeInv, NEW h \in Handlers, NEW a \in Approvals, NEW u \in People, Request(h, a, u)
  PROVE  Implements
  <1>1. UNCHANGED <<published, events>>
    BY DEF Request
  <1>2. CASE approval' = approval
    BY <1>1, <1>2 DEF Implements, Contract!cvars, stageBar, rulingBar
  <1>3. CASE approval' # approval
    <2>1. /\ approval[a].state = "absent" /\ \A b \in Approvals : b # a => approval'[b] = approval[b]
          /\ approval'[a].state = "requested" /\ approval'[a].requester = u
          /\ approval'[a].decidedBy = Nobody /\ approval'[a].decision = "none"
      BY <1>3, RequestMakes
    <2>2. stageBar[a] = "absent"
      BY <2>1, View, Stages
    <2>3. stageBar' = [stageBar EXCEPT ![a] = "open"]
      BY <2>1, ViewChanged, Stages
    <2>4. rulingBar' = [rulingBar EXCEPT
            ![a] = [requester |-> u, by |-> Nobody, verdict |-> "none"]]
      BY <2>1, ViewChanged
    <2>5. Contract!Open(a, u)
      BY <1>1, <2>2, <2>3, <2>4 DEF Contract!Open
    <2>6. QED
      BY <2>5 DEF Implements, Contract!CNext
  <1>4. QED
    BY <1>2, <1>3

LEMMA WriteImplements ==
  ASSUME TypeInv, GovInv, NEW p \in Procs, WriteApproval(p)
  PROVE  Implements
  <1>1. PICK a \in Approvals : a = job[p]
    BY WriteFacts
  <1>2. /\ copy[p] \in Approval /\ approval[a] \in Approval /\ pc[p] \in WriteSteps
    BY <1>1 DEF TypeInv, TypeOK, WriteApproval
  <1>3. /\ Prepared(pc[p], copy[p], approval[a]) /\ Known(p) /\ UNCHANGED <<published, events>>
        /\ \A b \in Approvals : b # a => approval'[b] = approval[b]
        /\ approval'[a].state = copy[p].state /\ SameDecision(approval'[a], copy[p])
    BY <1>1, <1>2, WriteFacts, NextRevisionFields
  <1>4. /\ stageBar' = [stageBar EXCEPT ![a] = StageOf[approval'[a].state]]
        /\ rulingBar' = [rulingBar EXCEPT
             ![a] = [requester |-> approval'[a].requester, by |-> approval'[a].decidedBy,
                     verdict |-> approval'[a].decision]]
        /\ SameDecision(approval'[a], approval[a]) => rulingBar' = rulingBar
        /\ StageOf[approval'[a].state] = StageOf[approval[a].state] => stageBar' = stageBar
        /\ stageBar[a] = StageOf[approval[a].state]
    BY <1>3, View, ViewChanged
  <1>5. CASE pc[p] = "deciding"
    <2>1. PICK u \in Approvers \ {approval[a].requester}, v \in Decisions :
            copy[p] = Decided(approval[a], u, v)
      BY <1>3, <1>5 DEF Prepared
    <2>2. u \in People
      BY ApprovalAssumption
    <2>3. /\ approval'[a].state = v /\ approval'[a].decision = v /\ approval'[a].decidedBy = u
          /\ approval'[a].requester = approval[a].requester /\ approval[a].state = "requested"
      <3>1. /\ copy[p].state = v /\ copy[p].decision = v /\ copy[p].decidedBy = u
            /\ copy[p].requester = approval[a].requester
        BY <1>2, <2>1, <2>2 DEF Decided, Approval
      <3>2. QED
        BY <1>3, <1>5, <3>1 DEF Prepared, SameDecision
    <2>4. v \in {"approved", "rejected"}
      BY DEF Decisions
    <2>5. stageBar[a] = "open" /\ u \in Approvers \ {rulingBar[a].requester}
      BY <1>4, <2>3, View, Stages
    <2>6. stageBar' = [stageBar EXCEPT ![a] = IF v = "approved" THEN "granted" ELSE "refused"]
      <3>1. StageOf[approval'[a].state] = IF v = "approved" THEN "granted" ELSE "refused"
        BY <2>3, <2>4, Stages
      <3>2. QED
        BY <1>4, <3>1
    <2>7. rulingBar' = [rulingBar EXCEPT
            ![a] = [requester |-> rulingBar[a].requester, by |-> u, verdict |-> v]]
      <3>1. rulingBar[a].requester = approval[a].requester
        BY View
      <3>2. QED
        BY <1>4, <2>3, <3>1
    <2>8. Contract!Rule(a, u, v)
      BY <1>3, <2>5, <2>6, <2>7 DEF Contract!Rule
    <2>9. QED
      BY <2>4, <2>8 DEF Implements, Contract!CNext
  <1>6. CASE pc[p] = "clearing"
    <2>1. approval'[a].state = approval[a].state /\ SameDecision(approval'[a], approval[a])
      <3>1. copy[p] = Cleared(approval[a])
        BY <1>3, <1>6 DEF Prepared
      <3>2. copy[p].state = approval[a].state /\ SameDecision(copy[p], approval[a])
        BY <1>2, <3>1, ClearedFields
      <3>3. QED
        BY <1>3, <3>2 DEF SameDecision
    <2>2. QED
      BY <1>3, <1>4, <2>1 DEF Implements, Contract!cvars
  <1>7. CASE pc[p] \in WriteSteps \ {"deciding", "clearing"}
    <2>1. SameDecision(approval'[a], approval[a])
      BY <1>2, <1>3, <1>7, StateFields DEF Prepared, Moved, SameDecision, WriteSteps
    <2>2. rulingBar' = rulingBar
      BY <1>4, <2>1
    <2>3. CASE pc[p] = "expiring"
      <3>1. approval'[a].state = "expired" /\ approval[a].state \in {"requested", "approved"}
        BY <1>2, <1>3, <2>3, StateFields DEF Prepared, Moved
      <3>2. Contract!Lapse(a)
        BY <1>3, <1>4, <2>2, <3>1, Stages DEF Contract!Lapse
      <3>3. QED
        BY <3>2 DEF Implements, Contract!CNext
    <2>4. CASE pc[p] \in {"consuming", "consuming_existing"}
      <3>1. /\ approval'[a].state = "consumed" /\ approval[a].state = "reserved"
            /\ a \in published
        BY <1>1, <1>2, <1>3, <2>4, StateFields DEF Prepared, Moved, Known
      <3>2. Contract!Spend(a)
        BY <1>3, <1>4, <2>2, <3>1, Stages DEF Contract!Spend
      <3>3. QED
        BY <3>2 DEF Implements, Contract!CNext
    <2>5. CASE pc[p] \in {"reserving", "releasing"}
      <3>1. /\ approval'[a].state \in {"approved", "reserved"}
            /\ approval[a].state \in {"approved", "reserved"}
        BY <1>2, <1>3, <2>5, StateFields DEF Prepared, Moved
      <3>2. stageBar' = stageBar
        BY <1>4, <3>1, Stages
      <3>3. QED
        BY <1>3, <2>2, <3>2 DEF Implements, Contract!cvars
    <2>6. QED
      BY <1>7, <2>3, <2>4, <2>5 DEF WriteSteps
  <1>8. QED
    BY <1>2, <1>5, <1>6, <1>7

LEMMA QuietImplements ==
  ASSUME UNCHANGED durable
  PROVE  Implements
  BY DEF Implements, Contract!cvars, durable, stageBar, rulingBar

LEMMA StepImplements ==
  ASSUME TypeInv, GovInv, ToldInv, [Next]_vars
  PROVE  Implements
  <1>1. ASSUME NEW h \in Handlers, HandlerBegins(h) PROVE Implements
    <2>1. (\E a \in Approvals, u \in People : Request(h, a, u)) \/ UNCHANGED durable
      BY <1>1 DEF HandlerBegins, Decide, DecideAgain, DecideTooLate, QueueApproved,
         QueueTooLate, QueueReserved, QueueDirect
    <2>2. QED
      BY <2>1, RequestImplements, QuietImplements
  <1>2. ASSUME NEW h \in Handlers, HandlerStep(h) PROVE Implements
    <2>1. AnnounceRequest(h) \/ Announce(h) \/ Publish(h) \/ UNCHANGED durable
      BY <1>2 DEF HandlerStep, Resume
    <2>2. QED
      BY <2>1, TellImplements, PublishImplements, QuietImplements DEF Procs
  <1>3. ASSUME NEW r \in Reconcilers,
               ReconcilerStep(r) \/ \E a \in Approvals : ReconcilerBegins(r, a)
        PROVE  Implements
    BY <1>3, QuietImplements DEF ReconcilerStep, ReconcilerBegins, CheckFound, CheckReleases,
       CheckWaits, ReconcilePending, ReconcileExpired, ReconcileReserved
  <1>4. ASSUME NEW p \in Procs, SharedStep(p) PROVE Implements
    <2>1. WriteApproval(p) \/ Deliver(p) \/ AnnounceExpiry(p) \/ UNCHANGED durable
      BY <1>4 DEF SharedStep, WriteConflict
    <2>2. QED
      BY <2>1, WriteImplements, TellImplements, QuietImplements
  <1>5. ASSUME UNCHANGED vars \/ (\E p \in Procs : Crash(p)) \/ (\E a \in Approvals : Expire(a))
        PROVE  Implements
    BY <1>5, QuietImplements DEF vars, Crash, Expire
  <1>6. QED
    BY <1>1, <1>2, <1>3, <1>4, <1>5 DEF Next

\* The approval runtime implements its contract: for every set of requests,
\* people and processes, whatever crashes and compare-and-swap conflicts
\* interleave, each request lives its life once and no process ever appends
\* evidence of what is not so.
THEOREM ApprovalImplemented == Spec => ImplementsContract
  <1>1. Init => Contract!CInit
    BY AbsentFields, Stages DEF Init, Contract!CInit, stageBar, rulingBar, Absent
  <1>2. TypeInv /\ GovInv /\ ToldInv /\ [Next]_vars => Implements
    BY StepImplements
  <1>3. QED
    BY <1>1, <1>2, ToldInvariant, PTL DEF Spec, ImplementsContract, Implements, Contract!CSpec

=============================================================================
