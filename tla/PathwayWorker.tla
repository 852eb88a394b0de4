---------------------------- MODULE PathwayWorker ----------------------------
(***************************************************************************)
(* The pathway worker (services/pathway_worker): processes that share one  *)
(* checkpoint document, which holds both the lease with its fencing token  *)
(* and the event watermark.  A cycle acquires the lease, reads a page of   *)
(* spans, projects it and moves the watermark by compare-and-swap on the   *)
(* document's sequence number.                                             *)
(*                                                                         *)
(* What is abstracted:                                                     *)
(*   - a compare-and-swap succeeds only if the document is the one that    *)
(*     was read, so a process keeps its sequence number and no copy.       *)
(*   - wall-clock time: the lease expires at some point after it is taken, *)
(*     and the first cycle, which starts from the clock, may start         *)
(*     anywhere.                                                           *)
(*   - _shard_doc, the tie-break of the page order: its values belong to   *)
(*     one point in time and the cursor is used in the next, so among the  *)
(*     spans at the cursor's own timestamp any may be passed by.           *)
(*   - the node and pathway upserts, which are made with those of the      *)
(*     edges from the same page and under the same fence.                  *)
(***************************************************************************)
EXTENDS Naturals, FiniteSets

CONSTANTS Spans,      \* source documents
          At,         \* span -> its @timestamp
          EdgeOf,     \* span -> the edge it is evidence for, or NoEdge
          Edges, NoEdge,
          Workers,    \* processes of the commands "run" and "process-once"
          Replayers,  \* processes of the command "replay"
          Nobody,     \* owner_id None
          Former,     \* the worker_id of a process that is gone
          Window,     \* late_arrival_seconds
          PageSize,   \* process -> min(500, max_documents) of its repository
          MaxTime,    \* bound: timestamps
          MaxToken    \* bound: fencing tokens that are issued

Procs == Workers \cup Replayers
Times == 1..MaxTime

ASSUME PathwayAssumption ==
  /\ IsFiniteSet(Spans)
  /\ MaxTime \in Nat /\ MaxToken \in Nat
  /\ Window \in Nat /\ PageSize \in [Procs -> Nat \ {0}]
  /\ At \in [Spans -> Times]
  /\ NoEdge \notin Edges /\ EdgeOf \in [Spans -> Edges \cup {NoEdge}]
  /\ Workers \cap Replayers = {}
  /\ Nobody \notin Procs /\ Former \notin Procs

VARIABLES
  ckpt,       \* durable: the checkpoint document
  arrived,    \* durable: spans in the source index
  seen,       \* durable: spans whose edge was upserted from a page with them
  inTime,     \* ghost: spans that came at most Window behind the newest one
  overtaken,  \* ghost: spans that a cursor or a replay has passed by
  pc,         \* process -> the step it is about to take
  token,      \* process -> its fencing token
  readSeq,    \* process -> sequence number of the document it read
  since,      \* process -> lower bound of the page it is about to read
  cursor,     \* process -> its search_after, then the position it read to; 0: none
  page,       \* process -> the spans it read
  todo        \* process -> edges it still has to write

ghosts == <<inTime, overtaken>>
cycle == <<since, cursor, page, todo>>
vars == <<ckpt, arrived, seen, ghosts, pc, token, readSeq, cycle>>

-----------------------------------------------------------------------------
\* owner, token, live: the lease and whether its expiry is still ahead.
\* mark, markToken, scan: last_event_timestamp (0: none yet), the watermark's
\* fencing_token, scan_position (0: none).  seq: _seq_no, 0 before creation.
Checkpoint == [owner : Procs \cup {Nobody, Former}, token : 0..MaxToken,
               live : BOOLEAN, mark : 0..MaxTime, markToken : 0..MaxToken,
               scan : 0..MaxTime, seq : Nat]

Steps == {"idle", "acquiring", "leased", "loaded", "read", "projecting",
          "releasing", "aborting", "dead"}

TypeOK ==
  /\ ckpt \in Checkpoint
  /\ arrived \subseteq Spans /\ seen \subseteq arrived
  /\ inTime \subseteq arrived /\ overtaken \subseteq arrived
  /\ pc \in [Procs -> Steps]
  /\ token \in [Procs -> 0..MaxToken]
  /\ readSeq \in [Procs -> Nat]
  /\ since \in [Procs -> 0..MaxTime]
  /\ cursor \in [Procs -> 0..MaxTime]
  /\ page \in [Procs -> SUBSET arrived]
  /\ todo \in [Procs -> SUBSET Edges]

Init ==
  /\ ckpt = [owner |-> Nobody, token |-> 0, live |-> FALSE, mark |-> 0,
             markToken |-> 0, scan |-> 0, seq |-> 0]
  /\ arrived = {} /\ seen = {} /\ inTime = {} /\ overtaken = {}
  /\ pc = [p \in Procs |-> "idle"]
  /\ token = [p \in Procs |-> 0] /\ readSeq = [p \in Procs |-> 0]
  /\ since = [p \in Procs |-> 0] /\ cursor = [p \in Procs |-> 0]
  /\ page = [p \in Procs |-> {}] /\ todo = [p \in Procs |-> {}]

\* A span is indexed, in any order.
Arrive(s) ==
  /\ s \notin arrived
  /\ arrived' = arrived \cup {s}
  /\ inTime' = IF ckpt.mark > 0 /\ \A t \in arrived : At[t] <= At[s] + Window
               THEN inTime \cup {s} ELSE inTime
  /\ UNCHANGED <<ckpt, seen, overtaken, pc, token, readSeq, cycle>>

-----------------------------------------------------------------------------
Goto(p, s) == pc' = [pc EXCEPT ![p] = s]

\* The cycle is over, with or without an exception.
End(p, s) ==
  /\ Goto(p, s)
  /\ token' = [token EXCEPT ![p] = 0] /\ readSeq' = [readSeq EXCEPT ![p] = 0]
  /\ since' = [since EXCEPT ![p] = 0] /\ cursor' = [cursor EXCEPT ![p] = 0]
  /\ page' = [page EXCEPT ![p] = {}] /\ todo' = [todo EXCEPT ![p] = {}]

Unchanged(p) == ckpt.seq = readSeq[p]

(* acquire_lease.                                                          *)

\* Defect: a foreign lease is respected even after its expiry.
HeldByAnotherForever(p) == ckpt.owner \notin {p, Nobody}

HeldByAnother(p) == ckpt.owner # p /\ ckpt.live

\* Defect: a lease that was released or has expired keeps its token.
NextTokenSame(p) == IF ckpt.seq = 0 THEN 1 ELSE ckpt.token

NextToken(p) == IF ckpt.owner = p /\ ckpt.live THEN ckpt.token
                ELSE ckpt.token + 1

AcquireRead(p) ==
  /\ pc[p] = "idle" /\ ~HeldByAnother(p)
  /\ ckpt.token < MaxToken
  /\ Goto(p, "acquiring")
  /\ token' = [token EXCEPT ![p] = NextToken(p)]
  /\ readSeq' = [readSeq EXCEPT ![p] = ckpt.seq]
  /\ UNCHANGED <<ckpt, arrived, seen, ghosts, cycle>>

AcquireWrite(p) ==
  /\ pc[p] = "acquiring" /\ Unchanged(p)
  /\ ckpt' = [ckpt EXCEPT !.owner = p, !.token = token[p], !.live = TRUE,
                          !.seq = @ + 1]
  /\ Goto(p, "leased")
  /\ UNCHANGED <<arrived, seen, ghosts, token, readSeq, cycle>>

\* LeaseConflict, on the read or on the write: nothing catches it.
AcquireConflict(p) ==
  /\ \/ pc[p] = "idle" /\ HeldByAnother(p)
     \/ pc[p] = "acquiring" /\ ~Unchanged(p)
  /\ End(p, "dead")
  /\ UNCHANGED <<ckpt, arrived, seen, ghosts>>

-----------------------------------------------------------------------------
(* process_once between acquire_lease and save.                            *)

\* Defect: the scan starts at the watermark itself.
OverlapStartNone == ckpt.mark

OverlapStart == IF ckpt.mark > Window THEN ckpt.mark - Window ELSE 0

LoadCheckpoint(p) ==
  /\ pc[p] = "leased"
  /\ \E t \in IF p \in Replayers \/ ckpt.mark = 0 THEN Times
              ELSE {OverlapStart} :
       since' = [since EXCEPT ![p] = t]
  /\ cursor' = [cursor EXCEPT ![p] = IF p \in Replayers THEN 0 ELSE ckpt.scan]
  /\ Goto(p, "loaded")
  /\ UNCHANGED <<ckpt, arrived, seen, ghosts, token, readSeq, page, todo>>

\* What read_spans may return: the first PageSize spans past the cursor in
\* timestamp order, with an arbitrary part of those at the cursor.
Beyond(p) == {s \in arrived : At[s] >= since[p] /\ At[s] > cursor[p]}
Ties(p) == {s \in arrived : At[s] >= since[p] /\ At[s] = cursor[p]}

IsPage(p, P) ==
  /\ Cardinality(P) <= PageSize[p]
  /\ \A s \in P : \A t \in Beyond(p) : At[t] < At[s] => t \in P
  /\ Cardinality(P) < PageSize[p] => Beyond(p) \subseteq P

\* The last sort value of the page, or the cursor if the page is empty.
Position(p, P) ==
  IF P = {} THEN cursor[p]
  ELSE CHOOSE t \in {At[s] : s \in P} : \A s \in P : At[s] <= t

\* Spans within the interval that the cursor leaves out, and spans before
\* the interval of a manual replay.
PassedBy(p, P) ==
  {s \in arrived \ P : \/ since[p] <= At[s] /\ At[s] <= cursor[p]
                       \/ p \in Replayers /\ At[s] < since[p]}

ReadSpans(p) ==
  /\ pc[p] = "loaded"
  /\ \E P \in SUBSET (Beyond(p) \cup Ties(p)) :
       /\ IsPage(p, P)
       /\ page' = [page EXCEPT ![p] = P]
       /\ cursor' = [cursor EXCEPT ![p] = Position(p, P)]
       /\ overtaken' = overtaken \cup PassedBy(p, P)
  /\ since' = [since EXCEPT ![p] = 0]
  /\ Goto(p, "read")
  /\ UNCHANGED <<ckpt, arrived, seen, inTime, token, readSeq, todo>>

-----------------------------------------------------------------------------
(* save.                                                                   *)

HoldsLease(p) == ckpt.owner = p /\ ckpt.token = token[p] /\ ckpt.live

\* The fence is tested once, before the first projection is written.
SaveBegins(p) ==
  /\ pc[p] = "read" /\ HoldsLease(p)
  /\ readSeq' = [readSeq EXCEPT ![p] = ckpt.seq]
  /\ todo' = [todo EXCEPT ![p] = {EdgeOf[s] : s \in page[p]} \ {NoEdge}]
  /\ Goto(p, "projecting")
  /\ UNCHANGED <<ckpt, arrived, seen, ghosts, token, since, cursor, page>>

SaveRejected(p) ==
  /\ pc[p] = "read" /\ ~HoldsLease(p)
  /\ Goto(p, "aborting")
  /\ UNCHANGED <<ckpt, arrived, seen, ghosts, token, readSeq, cycle>>

\* The upsert of one edge, with its create-only observation.
Project(p, e) ==
  /\ pc[p] = "projecting" /\ e \in todo[p]
  /\ todo' = [todo EXCEPT ![p] = @ \ {e}]
  /\ seen' = seen \cup {s \in page[p] : EdgeOf[s] = e}
  /\ UNCHANGED <<ckpt, arrived, ghosts, pc, token, readSeq, since, cursor, page>>

\* Defect: the watermark follows the page, forwards or backwards.
CommittedAnywhere(p) == cursor[p]

\* Defect: the watermark is put past the last event of the page.
CommittedPast(p) == IF cursor[p] > ckpt.mark THEN cursor[p] + 1 ELSE ckpt.mark

\* EventWatermark.committed: never behind the watermark it replaces.
Committed(p) == IF cursor[p] > ckpt.mark THEN cursor[p] ELSE ckpt.mark

Commit(p) ==
  /\ pc[p] = "projecting" /\ todo[p] = {} /\ Unchanged(p)
  /\ ckpt' = [ckpt EXCEPT
                !.mark = Committed(p),
                !.markToken = IF cursor[p] = 0 THEN @ ELSE token[p],
                !.scan = IF Cardinality(page[p]) = PageSize[p] THEN cursor[p] ELSE 0,
                !.seq = @ + 1]
  /\ Goto(p, "releasing")
  /\ UNCHANGED <<arrived, seen, ghosts, token, readSeq, cycle>>

CommitConflict(p) ==
  /\ pc[p] = "projecting" /\ todo[p] = {} /\ ~Unchanged(p)
  /\ Goto(p, "aborting")
  /\ UNCHANGED <<ckpt, arrived, seen, ghosts, token, readSeq, cycle>>

-----------------------------------------------------------------------------
(* release_lease in the finally clause, and the end of the process.        *)

IsOwner(p) == ckpt.owner = p /\ ckpt.token = token[p]

\* An exception that is on its way ends the process after the release.
Release(p) ==
  /\ pc[p] \in {"releasing", "aborting"} /\ IsOwner(p)
  /\ ckpt' = [ckpt EXCEPT !.owner = Nobody, !.live = FALSE, !.seq = @ + 1]
  /\ End(p, IF pc[p] = "releasing" THEN "idle" ELSE "dead")
  /\ UNCHANGED <<arrived, seen, ghosts>>

\* StaleWriter: nothing catches it.
ReleaseRejected(p) ==
  /\ pc[p] \in {"releasing", "aborting"} /\ ~IsOwner(p)
  /\ End(p, "dead")
  /\ UNCHANGED <<ckpt, arrived, seen, ghosts>>

\* A new process draws a new worker_id; a lease under the old one is now
\* nobody's.
Restart(p) ==
  /\ pc[p] = "dead"
  /\ ckpt' = IF ckpt.owner = p THEN [ckpt EXCEPT !.owner = Former] ELSE ckpt
  /\ Goto(p, "idle")
  /\ UNCHANGED <<arrived, seen, ghosts, token, readSeq, cycle>>

\* A process dies.  Before it has written the lease nothing of it is left, and
\* it might as well not have begun.
Crash(p) ==
  /\ pc[p] \notin {"idle", "acquiring", "dead"}
  /\ End(p, "dead")
  /\ UNCHANGED <<ckpt, arrived, seen, ghosts>>

LeaseExpires ==
  /\ ckpt.live
  /\ ckpt' = [ckpt EXCEPT !.live = FALSE]
  /\ UNCHANGED <<arrived, seen, ghosts, pc, token, readSeq, cycle>>

-----------------------------------------------------------------------------
CycleStep(p) ==
  \/ AcquireWrite(p) \/ LoadCheckpoint(p) \/ ReadSpans(p)
  \/ SaveBegins(p) \/ SaveRejected(p) \/ \E e \in Edges : Project(p, e)
  \/ Commit(p) \/ CommitConflict(p) \/ Release(p) \/ ReleaseRejected(p)

Next ==
  \/ \E s \in Spans : Arrive(s)
  \/ \E p \in Procs : \/ AcquireRead(p) \/ AcquireConflict(p) \/ CycleStep(p)
                      \/ Restart(p) \/ Crash(p)
  \/ LeaseExpires

Spec == Init /\ [][Next]_vars

(* The run loop goes on, a dead worker is restarted by its Deployment, and  *)
(* 60 seconds pass; nobody is obliged to run a replay.                      *)
Fairness ==
  /\ \A p \in Workers :
       WF_vars(AcquireRead(p) \/ AcquireConflict(p) \/ CycleStep(p) \/ Restart(p))
  /\ WF_vars(LeaseExpires)

FairSpec == Spec /\ Fairness

-----------------------------------------------------------------------------
(* Properties.                                                             *)

Holding == {"leased", "loaded", "read", "projecting", "releasing", "aborting"}

\* Each acquired lease has a token of its own: no two processes are ever in
\* a cycle under the same token, and none has a token the document has not
\* reached (acquire_lease).
TokensAreUnique ==
  \A p \in Procs : pc[p] \in Holding =>
    /\ token[p] <= ckpt.token
    /\ \A q \in Procs \ {p} : pc[q] \in Holding => token[p] # token[q]

\* The watermark never goes back, not even when a replay or a stale process
\* commits, and each commit carries the token of the lease in force: an
\* expired owner cannot commit once another has taken over (save).
WatermarkIsFenced ==
  [][/\ ckpt'.mark >= ckpt.mark
     /\ ckpt'.markToken >= ckpt.markToken
     /\ ckpt'.mark # ckpt.mark => ckpt'.markToken = ckpt.token]_vars

\* Seen through its fields alone, the checkpoint is a fenced lease around a
\* watermark: whatever expires, dies, stalls or conflicts between a process's
\* reads and writes of it, no process takes a lease that is still in force, and
\* only the lease's holder moves the watermark, to a time at which something
\* happened (acquire_lease, save, release_lease).
Contract == INSTANCE CheckpointContract WITH
  holder <- ckpt.owner, token <- ckpt.token, live <- ckpt.live, mark <- ckpt.mark,
  markToken <- ckpt.markToken, times <- {At[s] : s \in arrived}
ImplementsContract == Contract!CSpec

\* Behind the watermark by more than the overlap, so out of the reach of
\* every later cycle.
Unreachable(s) == At[s] + Window < ckpt.mark

\* A span that came in time is projected before the watermark puts it out of
\* reach, unless a cursor or a manual replay has passed it by: crashes,
\* takeovers and commits that raced its arrival never lose it.
InTimeUnlessOvertaken ==
  \A s \in inTime \ overtaken :
    Unreachable(s) /\ EdgeOf[s] # NoEdge => s \in seen

\* A lease changes hands although its owner died or stalled: again and again
\* it is free, until the last token is issued.
LeaseChangesHands == []<>(ckpt.owner = Nobody \/ ckpt.token = MaxToken)
=============================================================================
