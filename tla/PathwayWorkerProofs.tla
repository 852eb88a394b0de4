------------------------- MODULE PathwayWorkerProofs -------------------------
(***************************************************************************)
(* Theorems about PathwayWorker, for every set of spans, edges and         *)
(* processes and every value of the bounds.                                *)
(***************************************************************************)
EXTENDS PathwayWorker, WellFoundedInduction, TLAPS

(* The position of a page is a timestamp: CHOOSE finds the last sort value. *)

LEMMA HasLatest ==
  ASSUME NEW S \in SUBSET Times, S # {}
  PROVE  \E t \in S : \A u \in S : u <= t
<1> DEFINE Less == OpToRel(<, Nat)
           T == {n \in Nat : MaxTime - n \in S}
<1>1. PICK s \in S : s \in 1..MaxTime
  BY DEF Times
<1>2. MaxTime - s \in T
  BY <1>1, PathwayAssumption
<1>3. PICK x \in T : \A y \in T : <<y, x>> \notin Less
  <2>1. IsWellFoundedOn(Less, Nat)
    BY NatLessThanWellFounded, Zenon
  <2>2. T \subseteq Nat /\ T # {}
    BY <1>2
  <2> QED
    BY <2>1, <2>2, WFMin
<1>4. \A y \in T : ~(y < x)
  BY <1>3 DEF OpToRel
<1>5. ASSUME NEW u \in S
      PROVE  u <= MaxTime - x
  <2>1. u \in 1..MaxTime /\ MaxTime \in Nat
    BY PathwayAssumption DEF Times
  <2>2. MaxTime - u \in T
    BY <2>1
  <2>3. x \in Nat /\ ~(MaxTime - u < x)
    BY <1>4, <2>2
  <2> QED
    BY <2>1, <2>3
<1>6. MaxTime - x \in S
  BY <1>3
<1> QED
  BY <1>5, <1>6

LEMMA PositionType ==
  ASSUME NEW p \in Procs, NEW P \in SUBSET Spans, cursor[p] \in 0..MaxTime
  PROVE  Position(p, P) \in 0..MaxTime
<1> DEFINE S == {At[s] : s \in P}
<1>1. S \in SUBSET Times
  BY PathwayAssumption
<1>2. CASE P = {}
  BY <1>2 DEF Position
<1>3. CASE P # {}
  <2>1. S # {}
    BY <1>3
  <2>2. \E t \in S : \A u \in S : u <= t
    <3> HIDE DEF S
    <3> QED
      BY <1>1, <2>1, HasLatest
  <2>3. \E t \in S : \A s \in P : At[s] <= t
    BY <2>2
  <2>4. Position(p, P) \in S
    BY <1>3, <2>3 DEF Position
  <2> QED
    BY <1>1, <2>4, PathwayAssumption DEF Times
<1> QED
  BY <1>2, <1>3

-----------------------------------------------------------------------------
(* Types.                                                                  *)

LEMMA Fields ==
  ASSUME NEW c \in Checkpoint
  PROVE  /\ c.owner \in Procs \cup {Nobody, Former}
         /\ c.token \in 0..MaxToken /\ c.live \in BOOLEAN
         /\ c.mark \in 0..MaxTime /\ c.markToken \in 0..MaxToken
         /\ c.scan \in 0..MaxTime /\ c.seq \in Nat
  BY DEF Checkpoint

\* The writes of the checkpoint document, field by field.
SameMark == /\ ckpt'.mark = ckpt.mark /\ ckpt'.markToken = ckpt.markToken
            /\ ckpt'.scan = ckpt.scan

LEMMA AcquireWritten ==
  ASSUME TypeOK, NEW p \in Procs, AcquireWrite(p)
  PROVE  /\ ckpt' \in Checkpoint /\ SameMark
         /\ ckpt'.owner = p /\ ckpt'.token = token[p] /\ ckpt'.seq = ckpt.seq + 1
         /\ ckpt'.live = TRUE
<1> DEFINE n == ckpt.seq + 1
<1>1. n \in Nat /\ ckpt \in Checkpoint /\ token[p] \in 0..MaxToken
  BY Fields DEF TypeOK
<1>2. ckpt' = [ckpt EXCEPT !.owner = p, !.token = token[p], !.live = TRUE, !.seq = n]
  BY DEF AcquireWrite
<1> HIDE DEF n
<1>3. ckpt' \in Checkpoint /\ SameMark
      /\ ckpt'.owner = p /\ ckpt'.token = token[p] /\ ckpt'.seq = n /\ ckpt'.live = TRUE
  BY <1>1, <1>2 DEF Checkpoint, SameMark
<1> QED
  BY <1>3 DEF n

LEMMA CommitWritten ==
  ASSUME TypeOK, NEW p \in Procs, Commit(p)
  PROVE  /\ ckpt' \in Checkpoint
         /\ ckpt'.mark = Committed(p)
         /\ ckpt'.markToken = IF cursor[p] = 0 THEN ckpt.markToken ELSE token[p]
         /\ ckpt'.owner = ckpt.owner /\ ckpt'.token = ckpt.token
         /\ ckpt'.seq = ckpt.seq + 1 /\ ckpt'.scan \in {cursor[p], 0}
         /\ ckpt'.live = ckpt.live
<1> DEFINE n == ckpt.seq + 1
           k == Committed(p)
           t == IF cursor[p] = 0 THEN ckpt.markToken ELSE token[p]
           v == IF Cardinality(page[p]) = PageSize[p] THEN cursor[p] ELSE 0
<1>1. /\ n \in Nat /\ ckpt \in Checkpoint /\ k \in 0..MaxTime
      /\ t \in 0..MaxToken /\ v \in 0..MaxTime
  BY Fields, PathwayAssumption DEF TypeOK, Committed
<1>2. ckpt' = [ckpt EXCEPT !.mark = k, !.markToken = t, !.scan = v, !.seq = n]
  BY DEF Commit
<1> HIDE DEF n, k, t, v
<1>3. ckpt' \in Checkpoint /\ ckpt'.mark = k /\ ckpt'.markToken = t
      /\ ckpt'.owner = ckpt.owner /\ ckpt'.token = ckpt.token /\ ckpt'.seq = n
      /\ ckpt'.scan = v /\ ckpt'.live = ckpt.live
  BY <1>1, <1>2 DEF Checkpoint
<1> QED
  BY <1>3 DEF n, k, t, v

LEMMA ReleaseWritten ==
  ASSUME TypeOK, NEW p \in Procs, Release(p)
  PROVE  /\ ckpt' \in Checkpoint /\ SameMark
         /\ ckpt'.owner = Nobody /\ ckpt'.token = ckpt.token
         /\ ckpt'.seq = ckpt.seq + 1 /\ ckpt'.live = FALSE
<1> DEFINE n == ckpt.seq + 1
<1>1. n \in Nat /\ ckpt \in Checkpoint
  BY Fields DEF TypeOK
<1>2. ckpt' = [ckpt EXCEPT !.owner = Nobody, !.live = FALSE, !.seq = n]
  BY DEF Release
<1> HIDE DEF n
<1>3. ckpt' \in Checkpoint /\ SameMark
      /\ ckpt'.owner = Nobody /\ ckpt'.token = ckpt.token /\ ckpt'.seq = n
      /\ ckpt'.live = FALSE
  BY <1>1, <1>2 DEF Checkpoint, SameMark
<1> QED
  BY <1>3 DEF n

LEMMA RestartWritten ==
  ASSUME TypeOK, NEW p \in Procs, Restart(p)
  PROVE  /\ ckpt' \in Checkpoint /\ SameMark
         /\ ckpt'.owner = IF ckpt.owner = p THEN Former ELSE ckpt.owner
         /\ ckpt'.token = ckpt.token /\ ckpt'.seq = ckpt.seq /\ ckpt'.live = ckpt.live
  BY DEF TypeOK, Restart, Checkpoint, SameMark

LEMMA ExpiryWritten ==
  ASSUME TypeOK, LeaseExpires
  PROVE  /\ ckpt' \in Checkpoint /\ SameMark
         /\ ckpt'.owner = ckpt.owner
         /\ ckpt'.token = ckpt.token /\ ckpt'.seq = ckpt.seq /\ ckpt'.live = FALSE
  BY DEF TypeOK, LeaseExpires, Checkpoint, SameMark

LEMMA InitType == Init => TypeOK
  BY PathwayAssumption DEF Init, TypeOK, Checkpoint, Steps

\* What every end of a cycle leaves behind is well typed.
LEMMA EndType ==
  ASSUME TypeOK, NEW p \in Procs, NEW s \in Steps, End(p, s), arrived' = arrived
  PROVE  /\ pc' \in [Procs -> Steps] /\ token' \in [Procs -> 0..MaxToken]
         /\ readSeq' \in [Procs -> Nat] /\ since' \in [Procs -> 0..MaxTime]
         /\ cursor' \in [Procs -> 0..MaxTime]
         /\ page' \in [Procs -> SUBSET arrived'] /\ todo' \in [Procs -> SUBSET Edges]
  BY PathwayAssumption DEF TypeOK, End, Goto

LEMMA NextType == TypeOK /\ [Next]_vars => TypeOK'
<1> SUFFICES ASSUME TypeOK, [Next]_vars PROVE TypeOK'
  OBVIOUS
<1> USE PathwayAssumption
<1>f. /\ ckpt.owner \in Procs \cup {Nobody, Former}
      /\ ckpt.token \in 0..MaxToken /\ ckpt.live \in BOOLEAN
      /\ ckpt.mark \in 0..MaxTime /\ ckpt.markToken \in 0..MaxToken
      /\ ckpt.scan \in 0..MaxTime /\ ckpt.seq \in Nat
  BY Fields DEF TypeOK
<1>1. ASSUME NEW s \in Spans, Arrive(s) PROVE TypeOK'
  BY <1>1 DEF TypeOK, Arrive, cycle
<1>2. ASSUME NEW p \in Procs, AcquireRead(p) PROVE TypeOK'
  BY <1>2, <1>f DEF TypeOK, AcquireRead, NextToken, Goto, Steps, ghosts, cycle
<1>3. ASSUME NEW p \in Procs, AcquireConflict(p) PROVE TypeOK'
  BY <1>3, EndType DEF TypeOK, AcquireConflict, Steps, ghosts
<1>4. ASSUME NEW p \in Procs, AcquireWrite(p) PROVE TypeOK'
  <2>1. ckpt' \in Checkpoint
    BY <1>4, AcquireWritten
  <2> QED
    BY <1>4, <2>1 DEF TypeOK, AcquireWrite, Goto, Steps, ghosts, cycle
<1>5. ASSUME NEW p \in Procs, LoadCheckpoint(p) PROVE TypeOK'
  BY <1>5, <1>f
     DEF TypeOK, LoadCheckpoint, OverlapStart, Times, Goto, Steps, ghosts
<1>6. ASSUME NEW p \in Procs, ReadSpans(p) PROVE TypeOK'
  <2>1. PICK P \in SUBSET (Beyond(p) \cup Ties(p)) :
          /\ page' = [page EXCEPT ![p] = P]
          /\ cursor' = [cursor EXCEPT ![p] = Position(p, P)]
          /\ overtaken' = overtaken \cup PassedBy(p, P)
    BY <1>6 DEF ReadSpans
  <2>2. P \in SUBSET arrived /\ PassedBy(p, P) \subseteq arrived
    BY DEF Beyond, Ties, PassedBy
  <2>3. Position(p, P) \in 0..MaxTime
    BY <2>2, PositionType DEF TypeOK
  <2> QED
    BY <1>6, <2>1, <2>2, <2>3 DEF TypeOK, ReadSpans, Goto, Steps
<1>7. ASSUME NEW p \in Procs, SaveBegins(p) PROVE TypeOK'
  <2>1. {EdgeOf[s] : s \in page[p]} \ {NoEdge} \subseteq Edges
    BY DEF TypeOK
  <2> QED
    BY <1>7, <1>f, <2>1 DEF TypeOK, SaveBegins, Goto, Steps, ghosts
<1>8. ASSUME NEW p \in Procs, SaveRejected(p) PROVE TypeOK'
  BY <1>8 DEF TypeOK, SaveRejected, Goto, Steps, ghosts, cycle
<1>9. ASSUME NEW p \in Procs, NEW e \in Edges, Project(p, e) PROVE TypeOK'
  BY <1>9 DEF TypeOK, Project, ghosts
<1>10. ASSUME NEW p \in Procs, Commit(p) PROVE TypeOK'
  <2>1. ckpt' \in Checkpoint
    BY <1>10, CommitWritten
  <2> QED
    BY <1>10, <2>1 DEF TypeOK, Commit, Goto, Steps, ghosts, cycle
<1>11. ASSUME NEW p \in Procs, CommitConflict(p) PROVE TypeOK'
  BY <1>11 DEF TypeOK, CommitConflict, Goto, Steps, ghosts, cycle
<1>12. ASSUME NEW p \in Procs, Release(p) PROVE TypeOK'
  <2>1. ckpt' \in Checkpoint
    BY <1>12, ReleaseWritten
  <2> QED
    BY <1>12, <2>1, EndType DEF TypeOK, Release, Steps, ghosts
<1>13. ASSUME NEW p \in Procs, ReleaseRejected(p) PROVE TypeOK'
  BY <1>13, EndType DEF TypeOK, ReleaseRejected, Steps, ghosts
<1>14. ASSUME NEW p \in Procs, Restart(p) PROVE TypeOK'
  <2>1. ckpt' \in Checkpoint
    BY <1>14, RestartWritten
  <2> QED
    BY <1>14, <2>1 DEF TypeOK, Restart, Goto, Steps, ghosts, cycle
<1>15. ASSUME NEW p \in Procs, Crash(p) PROVE TypeOK'
  BY <1>15, EndType DEF TypeOK, Crash, Steps, ghosts
<1>16. CASE LeaseExpires
  <2>1. ckpt' \in Checkpoint
    BY <1>16, ExpiryWritten
  <2> QED
    BY <1>16, <2>1 DEF TypeOK, LeaseExpires, ghosts, cycle
<1>17. CASE UNCHANGED vars
  BY <1>17 DEF TypeOK, vars, ghosts, cycle
<1> QED
  BY <1>1, <1>2, <1>3, <1>4, <1>5, <1>6, <1>7, <1>8, <1>9, <1>10, <1>11,
     <1>12, <1>13, <1>14, <1>15, <1>16, <1>17 DEF Next, CycleStep

\* Every reachable state of the pathway worker is well typed: the fencing
\* token, the watermark and the cursor stay in their ranges, and pages and
\* projections come from spans that have arrived.
THEOREM PathwayTypeCorrect == Spec => []TypeOK
<1>1. TypeOK /\ [Next]_vars => TypeOK'
  BY NextType
<1> QED
  BY InitType, <1>1, PTL DEF Spec

-----------------------------------------------------------------------------
(* The lease and its tokens.                                               *)

\* The document is not leased to a process between two cycles, so a lease is
\* always taken under a new token.
FreeIsNotOwner(p) == pc[p] \in {"idle", "acquiring"} => ckpt.owner # p

\* What a process read is no newer than the document, and if it is current,
\* the token it is about to write, or wrote, is still the right one.
ReadIsOld(p) ==
  /\ pc[p] \in {"acquiring", "projecting"} => readSeq[p] <= ckpt.seq
  /\ pc[p] = "acquiring" /\ readSeq[p] = ckpt.seq => token[p] = ckpt.token + 1
  /\ pc[p] = "projecting" /\ readSeq[p] = ckpt.seq => token[p] = ckpt.token

Issued(p) == pc[p] \in Holding => token[p] <= ckpt.token

Distinct(p, q) ==
  p # q /\ pc[p] \in Holding /\ pc[q] \in Holding => token[p] # token[q]

TokenInv ==
  /\ ckpt.markToken <= ckpt.token
  /\ \A p \in Procs : FreeIsNotOwner(p) /\ ReadIsOld(p) /\ Issued(p)
  /\ \A p, q \in Procs : Distinct(p, q)

LEMMA InitToken == Init => TokenInv
  BY PathwayAssumption
     DEF Init, TokenInv, FreeIsNotOwner, ReadIsOld, Issued, Distinct, Holding

\* A step of p to s that issues no token, after which p holds no lease that it
\* did not hold before.
Plain(p, s) ==
  /\ ckpt' \in Checkpoint /\ ckpt'.token = ckpt.token
  /\ ckpt'.markToken <= ckpt'.token /\ ckpt'.seq >= ckpt.seq
  /\ ckpt'.owner \in {ckpt.owner, Nobody, Former}
  /\ pc' = [pc EXCEPT ![p] = s]
  /\ \A q \in Procs \ {p} : token'[q] = token[q] /\ readSeq'[q] = readSeq[q]
  /\ \/ s = "dead"
     \/ s = "idle" /\ ckpt'.owner # p
     \/ s \in Holding \ {"projecting"} /\ pc[p] \in Holding /\ token'[p] = token[p]

LEMMA PlainStep ==
  ASSUME TypeOK, TokenInv, NEW p \in Procs, NEW s \in Steps, Plain(p, s)
  PROVE  TokenInv'
<1> USE DEF Plain
<1>1. \A q \in Procs : pc'[q] = IF q = p THEN s ELSE pc[q]
  BY DEF TypeOK
<1>t. /\ ckpt.seq \in Nat /\ ckpt'.seq \in Nat /\ \A q \in Procs : readSeq[q] \in Nat
      /\ \A q \in Procs : q # Nobody /\ q # Former
  BY Fields, PathwayAssumption DEF TypeOK
<1>2. \A q \in Procs : FreeIsNotOwner(q)'
  BY <1>1, <1>t DEF TokenInv, FreeIsNotOwner, Holding
<1>3. \A q \in Procs : ReadIsOld(q)'
  BY <1>1, <1>t DEF TokenInv, ReadIsOld, Holding
<1>4. \A q \in Procs : Issued(q)'
  BY <1>1 DEF TokenInv, Issued, Holding
<1>5. \A q, r \in Procs : Distinct(q, r)'
  BY <1>1 DEF TokenInv, Distinct, Holding
<1> QED
  BY <1>2, <1>3, <1>4, <1>5 DEF TokenInv

\* The commit is made under the token in force and only moves forward.
LEMMA CommitIsFenced ==
  ASSUME TypeOK, TokenInv, NEW p \in Procs, Commit(p)
  PROVE  /\ token[p] = ckpt.token
         /\ ckpt'.mark >= ckpt.mark
         /\ ckpt'.markToken >= ckpt.markToken /\ ckpt'.markToken <= ckpt.token
         /\ ckpt'.mark # ckpt.mark => ckpt'.markToken = ckpt.token
<1>1. token[p] = ckpt.token
  BY DEF Commit, Unchanged, TokenInv, ReadIsOld
<1>2. /\ ckpt.mark \in Nat /\ cursor[p] \in Nat /\ ckpt.token \in Nat
      /\ ckpt.markToken \in Nat /\ ckpt.markToken <= ckpt.token
  BY Fields, PathwayAssumption DEF TypeOK, TokenInv
<1> QED
  BY <1>1, <1>2, CommitWritten DEF Committed

LEMMA NextTokenInv == TypeOK /\ TokenInv /\ [Next]_vars => TokenInv'
<1> SUFFICES ASSUME TypeOK, TokenInv, [Next]_vars PROVE TokenInv'
  OBVIOUS
<1>k. /\ ckpt \in Checkpoint /\ ckpt.seq \in Nat /\ ckpt.token \in Nat
      /\ ckpt.markToken \in Nat /\ ckpt.markToken <= ckpt.token
  BY Fields, PathwayAssumption DEF TypeOK, TokenInv
<1>p. /\ \A q \in Procs : /\ q # Nobody /\ q # Former
                          /\ token[q] \in Nat /\ readSeq[q] \in Nat
      /\ token \in [Procs -> 0..MaxToken] /\ readSeq \in [Procs -> Nat]
      /\ pc \in [Procs -> Steps]
  BY PathwayAssumption DEF TypeOK
<1>1. ASSUME NEW s \in Spans, Arrive(s) PROVE TokenInv'
  BY <1>1 DEF Arrive, TokenInv, FreeIsNotOwner, ReadIsOld, Issued, Distinct
<1>2. ASSUME NEW p \in Procs, AcquireRead(p) PROVE TokenInv'
  <2>1. NextToken(p) = ckpt.token + 1
    BY <1>2 DEF AcquireRead, NextToken, TokenInv, FreeIsNotOwner
  <2>2. \A q \in Procs :
          /\ pc'[q] = IF q = p THEN "acquiring" ELSE pc[q]
          /\ token'[q] = IF q = p THEN ckpt.token + 1 ELSE token[q]
          /\ readSeq'[q] = IF q = p THEN ckpt.seq ELSE readSeq[q]
    BY <1>2, <1>p, <2>1 DEF AcquireRead, Goto
  <2>3. ckpt' = ckpt /\ pc[p] = "idle"
    BY <1>2 DEF AcquireRead
  <2>4. \A q \in Procs : FreeIsNotOwner(q)' /\ ReadIsOld(q)' /\ Issued(q)'
    BY <1>k, <2>2, <2>3 DEF TokenInv, FreeIsNotOwner, ReadIsOld, Issued, Holding
  <2>5. \A q, r \in Procs : Distinct(q, r)'
    BY <2>2, <2>3 DEF TokenInv, Distinct, Holding
  <2> QED
    BY <2>3, <2>4, <2>5 DEF TokenInv
<1>3. ASSUME NEW p \in Procs, AcquireConflict(p) PROVE TokenInv'
  <2>1. Plain(p, "dead")
    BY <1>3, <1>k, <1>p
       DEF Plain, AcquireConflict, End, Goto
  <2> QED
    BY <2>1, PlainStep DEF Steps
<1>4. ASSUME NEW p \in Procs, AcquireWrite(p) PROVE TokenInv'
  <2>1. token[p] = ckpt.token + 1
    BY <1>4 DEF AcquireWrite, Unchanged, TokenInv, ReadIsOld
  <2>2. /\ ckpt'.owner = p /\ ckpt'.token = ckpt.token + 1
        /\ ckpt'.seq = ckpt.seq + 1 /\ ckpt'.markToken = ckpt.markToken
    BY <1>4, <2>1, AcquireWritten DEF SameMark
  <2>3. /\ \A q \in Procs : pc'[q] = IF q = p THEN "leased" ELSE pc[q]
        /\ token' = token /\ readSeq' = readSeq
    BY <1>4, <1>p DEF AcquireWrite, Goto
  <2>4. \A q \in Procs : FreeIsNotOwner(q)' /\ Issued(q)'
    BY <1>k, <1>p, <2>1, <2>2, <2>3 DEF TokenInv, FreeIsNotOwner, Issued, Holding
  <2>5. \A q \in Procs : ReadIsOld(q)'
    BY <1>k, <1>p, <2>2, <2>3 DEF TokenInv, ReadIsOld
  <2>6. \A q, r \in Procs : Distinct(q, r)'
    BY <1>k, <1>p, <2>1, <2>3 DEF TokenInv, Distinct, Issued, Holding
  <2> QED
    BY <1>k, <2>2, <2>4, <2>5, <2>6 DEF TokenInv
<1>5. ASSUME NEW p \in Procs, LoadCheckpoint(p) PROVE TokenInv'
  <2>1. Plain(p, "loaded")
    BY <1>5, <1>k, <1>p
       DEF Plain, LoadCheckpoint, Goto, Holding
  <2> QED
    BY <2>1, PlainStep DEF Steps
<1>6. ASSUME NEW p \in Procs, ReadSpans(p) PROVE TokenInv'
  <2>1. Plain(p, "read")
    BY <1>6, <1>k, <1>p
       DEF Plain, ReadSpans, Goto, Holding
  <2> QED
    BY <2>1, PlainStep DEF Steps
<1>7. ASSUME NEW p \in Procs, SaveBegins(p) PROVE TokenInv'
  <2>1. \A q \in Procs :
          /\ pc'[q] = IF q = p THEN "projecting" ELSE pc[q]
          /\ readSeq'[q] = IF q = p THEN ckpt.seq ELSE readSeq[q]
    BY <1>7, <1>p DEF SaveBegins, Goto
  <2>2. /\ ckpt' = ckpt /\ token' = token
        /\ pc[p] = "read" /\ token[p] = ckpt.token
    BY <1>7 DEF SaveBegins, HoldsLease
  <2>3. \A q \in Procs : FreeIsNotOwner(q)' /\ ReadIsOld(q)' /\ Issued(q)'
    BY <1>k, <2>1, <2>2 DEF TokenInv, FreeIsNotOwner, ReadIsOld, Issued, Holding
  <2>4. \A q, r \in Procs : Distinct(q, r)'
    BY <2>1, <2>2 DEF TokenInv, Distinct, Holding
  <2> QED
    BY <2>2, <2>3, <2>4 DEF TokenInv
<1>8. ASSUME NEW p \in Procs, SaveRejected(p) PROVE TokenInv'
  <2>1. Plain(p, "aborting")
    BY <1>8, <1>k, <1>p
       DEF Plain, SaveRejected, Goto, Holding
  <2> QED
    BY <2>1, PlainStep DEF Steps
<1>9. ASSUME NEW p \in Procs, NEW e \in Edges, Project(p, e) PROVE TokenInv'
  BY <1>9 DEF Project, TokenInv, FreeIsNotOwner, ReadIsOld, Issued, Distinct
<1>10. ASSUME NEW p \in Procs, Commit(p) PROVE TokenInv'
  <2>1. /\ ckpt' \in Checkpoint /\ ckpt'.token = ckpt.token
        /\ ckpt'.markToken <= ckpt.token /\ ckpt'.seq >= ckpt.seq
        /\ ckpt'.owner = ckpt.owner
    BY <1>10, <1>k, <1>p, CommitWritten, CommitIsFenced
  <2>2. /\ pc' = [pc EXCEPT ![p] = "releasing"] /\ pc[p] = "projecting"
        /\ token' = token /\ readSeq' = readSeq
    BY <1>10 DEF Commit, Goto
  <2>3. Plain(p, "releasing")
    BY <1>p, <2>1, <2>2 DEF Plain, Holding
  <2> QED
    BY <2>3, PlainStep DEF Steps
<1>11. ASSUME NEW p \in Procs, CommitConflict(p) PROVE TokenInv'
  <2>1. Plain(p, "aborting")
    BY <1>11, <1>k, <1>p
       DEF Plain, CommitConflict, Goto, Holding
  <2> QED
    BY <2>1, PlainStep DEF Steps
<1>12. ASSUME NEW p \in Procs, Release(p) PROVE TokenInv'
  <2> DEFINE s == IF pc[p] = "releasing" THEN "idle" ELSE "dead"
  <2>1. /\ ckpt' \in Checkpoint /\ ckpt'.token = ckpt.token
        /\ ckpt'.markToken <= ckpt.token /\ ckpt'.seq >= ckpt.seq
        /\ ckpt'.owner = Nobody
    <3>1. /\ ckpt' \in Checkpoint /\ SameMark /\ ckpt'.owner = Nobody
          /\ ckpt'.token = ckpt.token /\ ckpt'.seq = ckpt.seq + 1
      BY <1>12, ReleaseWritten
    <3> QED
      BY <1>k, <3>1 DEF SameMark
  <2>2. /\ pc' = [pc EXCEPT ![p] = s]
        /\ token' = [token EXCEPT ![p] = 0] /\ readSeq' = [readSeq EXCEPT ![p] = 0]
    BY <1>12 DEF Release, End, Goto
  <2>3. Plain(p, s)
    BY <1>p, <2>1, <2>2 DEF Plain
  <2> QED
    BY <2>3, PlainStep DEF Steps
<1>13. ASSUME NEW p \in Procs, ReleaseRejected(p) PROVE TokenInv'
  <2>1. Plain(p, "dead")
    BY <1>13, <1>k, <1>p
       DEF Plain, ReleaseRejected, End, Goto
  <2> QED
    BY <2>1, PlainStep DEF Steps
<1>14. ASSUME NEW p \in Procs, Restart(p) PROVE TokenInv'
  <2>1. /\ ckpt' \in Checkpoint /\ ckpt'.token = ckpt.token
        /\ ckpt'.markToken <= ckpt.token /\ ckpt'.seq >= ckpt.seq
        /\ ckpt'.owner = IF ckpt.owner = p THEN Former ELSE ckpt.owner
    BY <1>14, <1>k, <1>p, RestartWritten DEF SameMark
  <2>2. /\ pc' = [pc EXCEPT ![p] = "idle"]
        /\ token' = token /\ readSeq' = readSeq
    BY <1>14 DEF Restart, Goto
  <2>3. Plain(p, "idle")
    BY <1>p, <2>1, <2>2 DEF Plain
  <2> QED
    BY <2>3, PlainStep DEF Steps
<1>15. ASSUME NEW p \in Procs, Crash(p) PROVE TokenInv'
  <2>1. Plain(p, "dead")
    BY <1>15, <1>k, <1>p
       DEF Plain, Crash, End, Goto
  <2> QED
    BY <2>1, PlainStep DEF Steps
<1>16. CASE LeaseExpires
  BY <1>16, ExpiryWritten
     DEF LeaseExpires, SameMark, TokenInv, FreeIsNotOwner, ReadIsOld, Issued, Distinct
<1>17. CASE UNCHANGED vars
  BY <1>17 DEF vars, TokenInv, FreeIsNotOwner, ReadIsOld, Issued, Distinct
<1> QED
  BY <1>1, <1>2, <1>3, <1>4, <1>5, <1>6, <1>7, <1>8, <1>9, <1>10, <1>11,
     <1>12, <1>13, <1>14, <1>15, <1>16, <1>17 DEF Next, CycleStep

\* No two processes are ever in a cycle under the same fencing token, and the
\* document has reached every token in use (acquire_lease).
THEOREM UniqueTokens == Spec => []TokensAreUnique
<1>1. TypeOK /\ TokenInv /\ [Next]_vars => TypeOK' /\ TokenInv'
  BY NextType, NextTokenInv
<1>2. TokenInv => TokensAreUnique
  BY DEF TokenInv, Issued, Distinct, TokensAreUnique
<1> QED
  BY InitType, InitToken, <1>1, <1>2, PTL DEF Spec

\* No step moves the watermark back, and a step that moves it forward does so
\* under the token in force: an expired owner cannot commit once another
\* process has taken over (save, EventWatermark.committed).
THEOREM FencedWatermark == Spec => WatermarkIsFenced
<1> DEFINE Forward == /\ ckpt'.mark >= ckpt.mark
                      /\ ckpt'.markToken >= ckpt.markToken
                      /\ ckpt'.mark # ckpt.mark => ckpt'.markToken = ckpt.token
<1>1. TypeOK /\ TokenInv /\ [Next]_vars => TypeOK' /\ TokenInv'
  BY NextType, NextTokenInv
<1>2. TypeOK /\ TokenInv /\ [Next]_vars => [Forward]_vars
  <2> SUFFICES ASSUME TypeOK, TokenInv, [Next]_vars PROVE Forward
    OBVIOUS
  <2>1. ckpt.mark \in Nat /\ ckpt.markToken \in Nat
    BY Fields, PathwayAssumption DEF TypeOK
  <2>2. ASSUME SameMark PROVE Forward
    BY <2>1, <2>2 DEF SameMark
  <2>3. ASSUME ckpt' = ckpt PROVE Forward
    BY <2>2, <2>3 DEF SameMark
  <2>4. ASSUME NEW p \in Procs, Commit(p) PROVE Forward
    BY <2>4, CommitIsFenced
  <2>5. ASSUME NEW p \in Procs, AcquireWrite(p) \/ Release(p) \/ Restart(p)
        PROVE  SameMark
    BY <2>5, AcquireWritten, ReleaseWritten, RestartWritten
  <2>6. CASE LeaseExpires
    BY <2>2, <2>6, ExpiryWritten
  <2>7. CASE \E s \in Spans : Arrive(s)
    BY <2>3, <2>7 DEF Arrive
  <2>8. CASE \E p \in Procs : AcquireRead(p) \/ AcquireConflict(p) \/ Crash(p)
    BY <2>3, <2>8 DEF AcquireRead, AcquireConflict, Crash
  <2>9. CASE \E p \in Procs : \/ LoadCheckpoint(p) \/ ReadSpans(p)
                              \/ SaveBegins(p) \/ SaveRejected(p)
                              \/ \E e \in Edges : Project(p, e)
                              \/ CommitConflict(p) \/ ReleaseRejected(p)
    BY <2>3, <2>9 DEF LoadCheckpoint, ReadSpans, SaveBegins, SaveRejected,
       Project, CommitConflict, ReleaseRejected
  <2>10. CASE UNCHANGED vars
    BY <2>3, <2>10 DEF vars
  <2> QED
    BY <2>2, <2>4, <2>5, <2>6, <2>7, <2>8, <2>9, <2>10 DEF Next, CycleStep
<1> QED
  BY InitType, InitToken, <1>1, <1>2, PTL DEF Spec, WatermarkIsFenced

-----------------------------------------------------------------------------
(* Late spans.  Only the process whose token is in force can commit, so     *)
(* from its load to its commit the watermark stands still: what its page    *)
(* leaves out is out of reach already, overtaken, or no older than its      *)
(* position allows.  Watermark, scan position and cursors are timestamps of *)
(* spans that have arrived, so a span that comes in time is in their reach. *)

Attained(t) == t = 0 \/ \E u \in arrived : At[u] = t

InForce(p) == pc[p] \in {"loaded", "read", "projecting"} /\ token[p] = ckpt.token

Expected(s) == s \in inTime \ overtaken /\ EdgeOf[s] # NoEdge /\ ~Unreachable(s)

Covers(p) ==
  /\ pc[p] = "loaded" => p \in Replayers \/ ckpt.mark = 0 \/ since[p] = OverlapStart
  /\ pc[p] \in {"read", "projecting"} =>
       \A s \in Spans : Expected(s) => s \in page[p] \/ cursor[p] <= At[s] + Window
  /\ pc[p] = "projecting" =>
       \A s \in page[p] : EdgeOf[s] \in todo[p] \cup {NoEdge} \/ s \in seen

LateInv ==
  /\ ckpt.mark = 0 => inTime = {}
  /\ Attained(ckpt.mark) /\ Attained(ckpt.scan)
  /\ \A p \in Procs : Attained(cursor[p])
  /\ \A p \in Procs : InForce(p) => Covers(p)
  /\ InTimeUnlessOvertaken

\* The position of a page that is not empty is the timestamp of one of its
\* spans.
LEMMA PositionAttained ==
  ASSUME NEW p \in Procs, NEW P \in SUBSET Spans, P # {}
  PROVE  \E s \in P : Position(p, P) = At[s]
<1> DEFINE S == {At[s] : s \in P}
<1>1. S \in SUBSET Times /\ S # {}
  BY PathwayAssumption
<1>2. \E t \in S : \A u \in S : u <= t
  <2> HIDE DEF S
  <2> QED
    BY <1>1, HasLatest
<1>3. \E t \in S : \A s \in P : At[s] <= t
  BY <1>2
<1>4. Position(p, P) \in S
  BY <1>3 DEF Position
<1> QED
  BY <1>4

\* The numbers that the proof compares.
LEMMA Numbers ==
  ASSUME TypeOK
  PROVE  /\ Window \in Nat /\ ckpt.mark \in Nat /\ ckpt.scan \in Nat /\ ckpt.token \in Nat
         /\ arrived \subseteq Spans /\ \A s \in Spans : At[s] \in Nat /\ At[s] > 0
         /\ \A p \in Procs : /\ cursor[p] \in Nat /\ since[p] \in Nat /\ token[p] \in Nat
                             /\ page[p] \subseteq arrived
  BY Fields, PathwayAssumption DEF TypeOK, Times

\* The other processes stay as they are.
Apart(p) ==
  \A q \in Procs \ {p} :
    /\ pc'[q] = pc[q] /\ token'[q] = token[q] /\ since'[q] = since[q]
    /\ cursor'[q] = cursor[q] /\ page'[q] = page[q] /\ todo'[q] = todo[q]

\* A step of p that leaves watermark and spans alone.
LEMMA QuietLate ==
  ASSUME TypeOK, LateInv, NEW p \in Procs, Apart(p),
         SameMark, ckpt'.token = ckpt.token, arrived' = arrived, inTime' = inTime,
         seen \subseteq seen', overtaken \subseteq overtaken',
         Attained(cursor'[p]), InForce(p)' => Covers(p)'
  PROVE  LateInv'
<1>1. \A t : Attained(t) => Attained(t)'
  BY DEF Attained
<1>2. /\ Attained(ckpt.mark)' /\ Attained(ckpt.scan)'
      /\ ckpt'.mark = 0 => inTime' = {}
  BY DEF LateInv, Attained, SameMark
<1>3. ASSUME NEW q \in Procs
      PROVE  Attained(cursor[q])'
  BY DEF LateInv, Attained, Apart
<1>4. ASSUME NEW s \in Spans
      PROVE  Expected(s)' => Expected(s)
  BY DEF Expected, Unreachable, SameMark
<1>5. ASSUME NEW q \in Procs, InForce(q)'
      PROVE  Covers(q)'
  <2>1. CASE q = p
    BY <1>5, <2>1
  <2>2. CASE q # p
    <3>1. Covers(q)
      BY <1>5, <2>2 DEF InForce, LateInv, Apart
    <3>2. OverlapStart' = OverlapStart
      BY DEF OverlapStart, SameMark
    <3>3. /\ pc'[q] = pc[q] /\ since'[q] = since[q] /\ cursor'[q] = cursor[q]
          /\ page'[q] = page[q] /\ todo'[q] = todo[q] /\ ckpt'.mark = ckpt.mark
      BY <2>2 DEF Apart, SameMark
    <3>4. pc'[q] = "loaded" => q \in Replayers \/ ckpt'.mark = 0 \/ since'[q] = OverlapStart'
      BY <3>1, <3>2, <3>3 DEF Covers
    <3>5. pc'[q] \in {"read", "projecting"} =>
            \A s \in Spans : Expected(s)' => s \in page'[q] \/ cursor'[q] <= At[s] + Window
      BY <1>4, <3>1, <3>3 DEF Covers
    <3>6. pc'[q] = "projecting" =>
            \A s \in page'[q] : EdgeOf[s] \in todo'[q] \cup {NoEdge} \/ s \in seen'
      BY <3>1, <3>3 DEF Covers
    <3>7. QED
      BY <3>4, <3>5, <3>6 DEF Covers
  <2> QED
    BY <2>1, <2>2
<1>6. InTimeUnlessOvertaken'
  BY DEF LateInv, InTimeUnlessOvertaken, Unreachable, SameMark
<1> QED
  BY <1>2, <1>3, <1>5, <1>6 DEF LateInv

LEMMA ArriveLate ==
  ASSUME TypeOK, LateInv, NEW s \in Spans, Arrive(s)
  PROVE  LateInv'
<1>n. /\ Window \in Nat /\ ckpt.mark \in Nat /\ arrived \subseteq Spans
      /\ \A u \in Spans : At[u] \in Nat
      /\ \A p \in Procs : cursor[p] \in Nat /\ page[p] \subseteq arrived
  BY Numbers
<1>1. /\ s \notin arrived /\ arrived' = arrived \cup {s}
      /\ inTime' \in {inTime, inTime \cup {s}}
      /\ s \in inTime' => /\ ckpt.mark > 0
                          /\ \A t \in arrived : At[t] <= At[s] + Window
      /\ ckpt' = ckpt /\ seen' = seen /\ overtaken' = overtaken /\ pc' = pc
      /\ token' = token /\ since' = since /\ cursor' = cursor /\ page' = page
      /\ todo' = todo
  BY DEF Arrive, cycle, TypeOK
<1>2. ASSUME NEW t \in Nat, Attained(t)
      PROVE  Attained(t)' /\ (s \in inTime' => t <= At[s] + Window)
  BY <1>n, <1>1, <1>2 DEF Attained
<1>3. Attained(ckpt.mark)' /\ Attained(ckpt.scan)' /\ \A p \in Procs : Attained(cursor[p])'
  BY <1>1 DEF LateInv, Attained
<1>4. ckpt'.mark = 0 => inTime' = {}
  BY <1>1 DEF LateInv
<1>5. ASSUME NEW p \in Procs, InForce(p)'
      PROVE  Covers(p)'
  <2>1. Covers(p)
    BY <1>1, <1>5 DEF LateInv, InForce
  <2>2. s \in inTime' => cursor[p] <= At[s] + Window
    BY <1>n, <1>2 DEF LateInv
  <2>3. ASSUME NEW u \in Spans, Expected(u)'
        PROVE  (u = s /\ s \in inTime') \/ Expected(u)
    BY <1>1, <2>3 DEF Expected, Unreachable
  <2>4. pc[p] \in {"read", "projecting"} =>
          \A u \in Spans : Expected(u)' => u \in page[p] \/ cursor[p] <= At[u] + Window
    BY <2>1, <2>2, <2>3 DEF Covers
  <2>5. OverlapStart' = OverlapStart
    BY <1>1 DEF OverlapStart
  <2> QED
    BY <1>1, <2>1, <2>4, <2>5 DEF Covers
<1>6. InTimeUnlessOvertaken'
  <2> SUFFICES ASSUME NEW u \in inTime' \ overtaken', Unreachable(u)', EdgeOf[u] # NoEdge
               PROVE  u \in seen'
    BY DEF InTimeUnlessOvertaken
  <2>1. CASE u \in inTime
    BY <1>1, <2>1 DEF LateInv, InTimeUnlessOvertaken, Unreachable
  <2>2. CASE u = s /\ s \in inTime'
    <3>1. ckpt.mark <= At[s] + Window
      BY <1>n, <1>2, <2>2 DEF LateInv
    <3> QED
      BY <1>n, <1>1, <2>2, <3>1 DEF Unreachable
  <2> QED
    BY <1>1, <2>1, <2>2
<1> QED
  BY <1>3, <1>4, <1>5, <1>6 DEF LateInv

\* A new token puts no process into force: p has not loaded yet.
LEMMA AcquireWriteLate ==
  ASSUME TypeOK, TokenInv, LateInv, NEW p \in Procs, AcquireWrite(p)
  PROVE  LateInv'
<1>1. token[p] = ckpt.token + 1 /\ ckpt'.token = token[p] /\ SameMark
  BY AcquireWritten DEF AcquireWrite, Unchanged, TokenInv, ReadIsOld
<1>2. /\ \A q \in Procs : pc'[q] = IF q = p THEN "leased" ELSE pc[q]
      /\ token' = token /\ arrived' = arrived /\ inTime' = inTime /\ seen' = seen
      /\ overtaken' = overtaken /\ cursor' = cursor
  BY DEF AcquireWrite, Goto, cycle, ghosts, TypeOK
<1>3. \A q \in Procs : ~InForce(q)'
  <2> SUFFICES ASSUME NEW q \in Procs, InForce(q)' PROVE FALSE
    OBVIOUS
  <2>1. pc[q] \in Holding /\ token[q] = ckpt'.token
    BY <1>2 DEF InForce, Holding
  <2>2. token[q] <= ckpt.token /\ ckpt.token \in Nat
    BY <2>1, Numbers DEF TokenInv, Issued
  <2> QED
    BY <1>1, <2>1, <2>2
<1>4. InTimeUnlessOvertaken'
  BY <1>1, <1>2 DEF LateInv, InTimeUnlessOvertaken, Unreachable, SameMark
<1>5. Attained(ckpt.mark)' /\ Attained(ckpt.scan)' /\ \A q \in Procs : Attained(cursor[q])'
  BY <1>1, <1>2 DEF LateInv, Attained, SameMark
<1> QED
  BY <1>1, <1>2, <1>3, <1>4, <1>5 DEF LateInv, SameMark

\* The commit: nothing that the new watermark puts out of reach was left
\* unprojected, and no process stays in force.
LEMMA CommitLate ==
  ASSUME TypeOK, TokenInv, LateInv, NEW p \in Procs, Commit(p)
  PROVE  LateInv'
<1>n. /\ Window \in Nat /\ ckpt.mark \in Nat /\ \A u \in Spans : At[u] \in Nat
      /\ cursor[p] \in Nat /\ inTime \subseteq Spans
  BY Numbers DEF TypeOK
<1>1. /\ token[p] = ckpt.token /\ ckpt'.token = ckpt.token
      /\ ckpt'.mark = Committed(p) /\ ckpt'.scan \in {cursor[p], 0}
  BY CommitIsFenced, CommitWritten
<1>2. /\ pc[p] = "projecting" /\ todo[p] = {}
      /\ \A q \in Procs : pc'[q] = IF q = p THEN "releasing" ELSE pc[q]
      /\ token' = token /\ arrived' = arrived /\ inTime' = inTime /\ seen' = seen
      /\ overtaken' = overtaken /\ cursor' = cursor
  BY DEF Commit, Goto, cycle, ghosts, TypeOK
<1>3. \A q \in Procs : ~InForce(q)'
  <2> SUFFICES ASSUME NEW q \in Procs, InForce(q)' PROVE FALSE
    OBVIOUS
  <2>1. q # p /\ pc[q] \in Holding /\ token[q] = ckpt.token /\ pc[p] \in Holding
    BY <1>1, <1>2 DEF InForce, Holding
  <2> QED
    BY <1>1, <2>1 DEF TokenInv, Distinct
<1>4. Covers(p)
  BY <1>1, <1>2 DEF LateInv, InForce
<1>5. InTimeUnlessOvertaken'
  <2> SUFFICES ASSUME NEW s \in inTime \ overtaken, Unreachable(s)', EdgeOf[s] # NoEdge
               PROVE  s \in seen
    BY <1>2 DEF InTimeUnlessOvertaken
  <2>1. CASE Unreachable(s)
    BY <2>1 DEF LateInv, InTimeUnlessOvertaken
  <2>2. CASE ~Unreachable(s)
    <3>1. Expected(s) /\ s \in Spans
      BY <1>n, <2>2 DEF Expected
    <3>2. ~(Committed(p) <= At[s] + Window)
      BY <1>n, <1>1, <3>1 DEF Unreachable, Committed
    <3>3. ~(cursor[p] <= At[s] + Window)
      BY <1>n, <2>2, <3>1, <3>2 DEF Unreachable, Committed
    <3>4. s \in page[p]
      BY <1>2, <1>4, <3>1, <3>3 DEF Covers
    <3> QED
      BY <1>2, <1>4, <3>4 DEF Covers
  <2> QED
    BY <2>1, <2>2
<1>6. Attained(ckpt.mark)' /\ Attained(ckpt.scan)' /\ \A q \in Procs : Attained(cursor[q])'
  BY <1>1, <1>2 DEF LateInv, Attained, Committed
<1>7. ckpt'.mark = 0 => inTime' = {}
  BY <1>n, <1>1, <1>2 DEF LateInv, Committed
<1> QED
  BY <1>3, <1>5, <1>6, <1>7 DEF LateInv

\* The load: a worker's page starts where the watermark's reach starts.
LEMMA LoadLate ==
  ASSUME TypeOK, LateInv, NEW p \in Procs, LoadCheckpoint(p)
  PROVE  LateInv'
<1>1. PICK t \in IF p \in Replayers \/ ckpt.mark = 0 THEN Times ELSE {OverlapStart} :
        since' = [since EXCEPT ![p] = t]
  BY DEF LoadCheckpoint
<1>2. /\ ckpt' = ckpt /\ arrived' = arrived /\ inTime' = inTime /\ seen' = seen
      /\ overtaken' = overtaken /\ pc'[p] = "loaded" /\ since'[p] = t
      /\ cursor'[p] \in {0, ckpt.scan} /\ Apart(p)
  BY <1>1 DEF LoadCheckpoint, Goto, ghosts, TypeOK, Apart
<1>3. Attained(cursor'[p])
  BY <1>2 DEF LateInv, Attained
<1>4. p \in Replayers \/ ckpt.mark = 0 \/ t = OverlapStart
  OBVIOUS
<1>5. Covers(p)'
  BY <1>2, <1>4 DEF Covers, OverlapStart
<1> QED
  BY <1>2, <1>3, <1>5, QuietLate DEF SameMark

\* What a page leaves out.
LEMMA ReadLate ==
  ASSUME TypeOK, LateInv, NEW p \in Procs, ReadSpans(p)
  PROVE  LateInv'
<1>n. /\ Window \in Nat /\ ckpt.mark \in Nat /\ arrived \subseteq Spans
      /\ \A u \in Spans : At[u] \in Nat
      /\ cursor[p] \in Nat /\ since[p] \in Nat /\ inTime \subseteq arrived
  BY Numbers DEF TypeOK
<1>1. PICK P \in SUBSET (Beyond(p) \cup Ties(p)) :
        /\ IsPage(p, P)
        /\ page' = [page EXCEPT ![p] = P]
        /\ cursor' = [cursor EXCEPT ![p] = Position(p, P)]
        /\ overtaken' = overtaken \cup PassedBy(p, P)
  BY DEF ReadSpans
<1> DEFINE k == Position(p, P)
<1>2. P \in SUBSET arrived
  BY DEF Beyond, Ties
<1>3. (P = {} /\ k = cursor[p]) \/ \E u \in P : k = At[u]
  BY <1>n, <1>2, PositionAttained, ZenonT(40) DEF Position
<1> HIDE DEF k
<1>4. /\ ckpt' = ckpt /\ token' = token /\ arrived' = arrived /\ inTime' = inTime
      /\ seen' = seen /\ overtaken \subseteq overtaken' /\ pc[p] = "loaded"
      /\ pc'[p] = "read" /\ page'[p] = P /\ cursor'[p] = k /\ Apart(p)
  BY <1>1 DEF ReadSpans, Goto, TypeOK, Apart, k
<1>5. Attained(k)
  BY <1>2, <1>3 DEF LateInv, Attained
<1>6. ASSUME InForce(p)', NEW s \in Spans, Expected(s)', s \notin P
      PROVE  k <= At[s] + Window
  <2>1. /\ s \in inTime /\ s \in arrived /\ s \notin overtaken' /\ EdgeOf[s] # NoEdge
        /\ ckpt.mark <= At[s] + Window /\ ckpt.mark # 0
    BY <1>n, <1>4, <1>6 DEF Expected, Unreachable, LateInv
  <2>2. s \notin PassedBy(p, P)
    BY <1>1, <2>1
  <2>3. Covers(p)
    BY <1>4, <1>6 DEF LateInv, InForce
  <2>4. since[p] <= At[s]
    <3>1. CASE p \in Replayers
      BY <1>n, <1>6, <2>1, <2>2, <3>1 DEF PassedBy
    <3>2. CASE since[p] = OverlapStart
      BY <1>n, <2>1, <3>2 DEF OverlapStart
    <3> QED
      BY <1>4, <2>1, <2>3, <3>1, <3>2 DEF Covers
  <2>5. cursor[p] < At[s]
    BY <1>n, <1>6, <2>1, <2>2, <2>4 DEF PassedBy
  <2>6. s \in Beyond(p)
    BY <2>1, <2>4, <2>5 DEF Beyond
  <2>7. \A u \in P : At[u] <= At[s]
    BY <1>n, <1>1, <1>2, <1>6, <2>6 DEF IsPage
  <2>8. k <= At[s] /\ k \in Nat
    BY <1>n, <1>2, <1>3, <2>5, <2>7
  <2> QED
    BY <1>n, <2>8
<1>7. InForce(p)' => Covers(p)'
  BY <1>4, <1>6 DEF Covers
<1> QED
  BY <1>4, <1>5, <1>7, QuietLate DEF SameMark

\* The projection: an edge of the page is to be written or has been.
LEMMA SaveLate ==
  ASSUME TypeOK, LateInv, NEW p \in Procs,
         SaveBegins(p) \/ \E e \in Edges : Project(p, e)
  PROVE  LateInv'
<1>1. CASE SaveBegins(p)
  <2>1. /\ ckpt' = ckpt /\ token' = token /\ arrived' = arrived /\ inTime' = inTime
        /\ seen' = seen /\ overtaken' = overtaken /\ pc[p] = "read"
        /\ pc'[p] = "projecting" /\ page' = page /\ cursor' = cursor /\ Apart(p)
        /\ todo'[p] = {EdgeOf[s] : s \in page[p]} \ {NoEdge}
    BY <1>1 DEF SaveBegins, Goto, ghosts, TypeOK, Apart
  <2>2. InForce(p)' => Covers(p)'
    BY <2>1 DEF InForce, LateInv, Covers, Expected, Unreachable
  <2>3. Attained(cursor'[p])
    BY <2>1 DEF LateInv
  <2> QED
    BY <2>1, <2>2, <2>3, QuietLate DEF SameMark
<1>2. ASSUME NEW e \in Edges, Project(p, e)
      PROVE  LateInv'
  <2>1. /\ ckpt' = ckpt /\ token' = token /\ arrived' = arrived /\ inTime' = inTime
        /\ seen' = seen \cup {s \in page[p] : EdgeOf[s] = e} /\ overtaken' = overtaken
        /\ pc' = pc /\ pc[p] = "projecting" /\ page' = page /\ cursor' = cursor
        /\ since' = since /\ todo'[p] = todo[p] \ {e} /\ Apart(p)
    BY <1>2 DEF Project, ghosts, TypeOK, Apart
  <2>2. InForce(p)' => Covers(p)'
    BY <2>1 DEF InForce, LateInv, Covers, Expected, Unreachable
  <2>3. Attained(cursor'[p])
    BY <2>1 DEF LateInv
  <2> QED
    BY <2>1, <2>2, <2>3, QuietLate DEF SameMark
<1> QED
  BY <1>1, <1>2

\* The steps before and after: p has not loaded, or has finished.
LEMMA OutsideLate ==
  ASSUME TypeOK, LateInv, NEW p \in Procs,
         \/ AcquireRead(p) \/ AcquireConflict(p) \/ SaveRejected(p) \/ CommitConflict(p)
         \/ Release(p) \/ ReleaseRejected(p) \/ Restart(p) \/ Crash(p)
  PROVE  LateInv'
<1>1. SameMark /\ ckpt'.token = ckpt.token
  BY ReleaseWritten, RestartWritten
     DEF AcquireRead, AcquireConflict, SaveRejected, CommitConflict, ReleaseRejected,
         Crash, SameMark
<1>2. /\ arrived' = arrived /\ inTime' = inTime /\ seen' = seen /\ overtaken' = overtaken
  BY DEF AcquireRead, AcquireConflict, SaveRejected, CommitConflict, Release,
         ReleaseRejected, Restart, Crash, ghosts
<1>3. \/ AcquireRead(p) \/ SaveRejected(p) \/ CommitConflict(p) \/ Restart(p)
      \/ \E s \in {"idle", "dead"} : End(p, s)
  BY DEF AcquireConflict, Release, ReleaseRejected, Crash
<1>4. /\ pc'[p] \in {"acquiring", "aborting", "idle", "dead"}
      /\ cursor'[p] \in {cursor[p], 0} /\ Apart(p)
  BY <1>3 DEF AcquireRead, SaveRejected, CommitConflict, Restart, End, Goto, cycle,
              TypeOK, Apart
<1>5. ~InForce(p)'
  BY <1>4 DEF InForce
<1>6. Attained(cursor'[p])
  BY <1>4 DEF LateInv, Attained
<1> QED
  BY <1>1, <1>2, <1>4, <1>5, <1>6, QuietLate

LEMMA InitLate == Init => LateInv
  BY DEF Init, LateInv, Attained, InForce, InTimeUnlessOvertaken

LEMMA NextLate == TypeOK /\ TokenInv /\ LateInv /\ [Next]_vars => LateInv'
<1> SUFFICES ASSUME TypeOK, TokenInv, LateInv, [Next]_vars PROVE LateInv'
  OBVIOUS
<1>1. ASSUME SameMark, ckpt'.token = ckpt.token,
             UNCHANGED <<arrived, seen, ghosts, pc, token, cycle>>
      PROVE  LateInv'
  <2>1. /\ ckpt'.mark = ckpt.mark /\ ckpt'.scan = ckpt.scan /\ ckpt'.token = ckpt.token
        /\ arrived' = arrived /\ inTime' = inTime /\ seen' = seen
        /\ overtaken' = overtaken /\ pc' = pc /\ token' = token /\ since' = since
        /\ cursor' = cursor /\ page' = page /\ todo' = todo
    BY <1>1 DEF SameMark, ghosts, cycle
  <2> QED
    BY <2>1 DEF LateInv, Attained, InForce, Covers, OverlapStart, Expected, Unreachable,
                InTimeUnlessOvertaken
<1>2. CASE LeaseExpires
  BY <1>1, <1>2, ExpiryWritten DEF LeaseExpires
<1>3. CASE UNCHANGED vars
  BY <1>1, <1>3 DEF vars, SameMark
<1>4. CASE Next /\ ~LeaseExpires
  BY <1>4, ArriveLate, AcquireWriteLate, LoadLate, ReadLate, SaveLate, CommitLate,
     OutsideLate DEF Next, CycleStep
<1> QED
  BY <1>2, <1>3, <1>4

\* A span that comes in time is projected before the watermark puts it out of
\* reach, unless a cursor or a manual replay has passed it by: crashes,
\* takeovers and commits that raced its arrival never lose it (process_once,
\* save).
THEOREM LateSpans == Spec => []InTimeUnlessOvertaken
<1>1. TypeOK /\ TokenInv /\ LateInv /\ [Next]_vars => (TypeOK /\ TokenInv /\ LateInv)'
  BY NextType, NextTokenInv, NextLate
<1>2. LateInv => InTimeUnlessOvertaken
  BY DEF LateInv
<1> QED
  BY InitType, InitToken, InitLate, <1>1, <1>2, PTL DEF Spec

-----------------------------------------------------------------------------
(* The refinement.  What a process read of the lease still holds as long as *)
(* the document has the sequence number that it read: the lease it is about *)
(* to take is not in force, and the lease it is about to commit under is    *)
(* its own.                                                                 *)

AsRead(p) ==
  /\ pc[p] = "acquiring" /\ readSeq[p] = ckpt.seq => ~ckpt.live
  /\ pc[p] = "projecting" /\ readSeq[p] = ckpt.seq => ckpt.owner = p

LeaseInv == \A p \in Procs : AsRead(p)

\* A write that leaves the sequence number alone takes a lease from nobody who
\* is at work, and a write that does not makes every earlier read an old one.
Gentle ==
  /\ ckpt'.seq = ckpt.seq /\ (ckpt'.live => ckpt.live)
  /\ \A q \in Procs : pc[q] = "projecting" /\ ckpt.owner = q => ckpt'.owner = q

LEMMA LeaseFrame ==
  ASSUME TypeOK, TokenInv, LeaseInv, NEW p \in Procs, Gentle \/ ckpt'.seq = ckpt.seq + 1,
         \A q \in Procs \ {p} : pc'[q] = pc[q] /\ readSeq'[q] = readSeq[q],
         pc'[p] \in {"acquiring", "projecting"} =>
           AsRead(p)' \/ (pc'[p] = pc[p] /\ readSeq'[p] = readSeq[p])
  PROVE  LeaseInv'
<1> SUFFICES ASSUME NEW q \in Procs, pc'[q] \in {"acquiring", "projecting"},
                    pc'[q] = pc[q], readSeq'[q] = readSeq[q]
             PROVE  AsRead(q)'
  BY DEF LeaseInv, AsRead
<1>1. AsRead(q) /\ readSeq[q] <= ckpt.seq /\ readSeq[q] \in Nat /\ ckpt.seq \in Nat
  BY Fields DEF LeaseInv, TokenInv, ReadIsOld, TypeOK
<1>2. CASE Gentle
  BY <1>1, <1>2 DEF AsRead, Gentle
<1>3. CASE ckpt'.seq = ckpt.seq + 1
  BY <1>1, <1>3 DEF AsRead
<1> QED
  BY <1>2, <1>3

LEMMA NextLease == TypeOK /\ TokenInv /\ LeaseInv /\ [Next]_vars => LeaseInv'
<1> SUFFICES ASSUME TypeOK, TokenInv, LeaseInv, [Next]_vars PROVE LeaseInv'
  OBVIOUS
<1>p. pc \in [Procs -> Steps] /\ readSeq \in [Procs -> Nat]
  BY DEF TypeOK
<1>s. ckpt' = ckpt => Gentle
  BY DEF Gentle
<1>1. ASSUME NEW p \in Procs, AcquireRead(p) PROVE LeaseInv'
  <2>1. ~ckpt.live /\ ckpt' = ckpt
    BY <1>1 DEF AcquireRead, HeldByAnother, TokenInv, FreeIsNotOwner
  <2>2. pc' = [pc EXCEPT ![p] = "acquiring"] /\ readSeq' = [readSeq EXCEPT ![p] = ckpt.seq]
    BY <1>1 DEF AcquireRead, Goto
  <2>3. AsRead(p)'
    BY <1>p, <2>1, <2>2 DEF AsRead
  <2> QED
    BY <1>p, <1>s, <2>1, <2>2, <2>3, LeaseFrame
<1>2. ASSUME NEW p \in Procs, SaveBegins(p) PROVE LeaseInv'
  <2>1. ckpt.owner = p /\ ckpt' = ckpt
    BY <1>2 DEF SaveBegins, HoldsLease
  <2>2. pc' = [pc EXCEPT ![p] = "projecting"] /\ readSeq' = [readSeq EXCEPT ![p] = ckpt.seq]
    BY <1>2 DEF SaveBegins, Goto
  <2>3. AsRead(p)'
    BY <1>p, <2>1, <2>2 DEF AsRead
  <2> QED
    BY <1>p, <1>s, <2>1, <2>2, <2>3, LeaseFrame
<1>3. ASSUME NEW p \in Procs, NEW s \in Steps \ {"acquiring", "projecting"},
             pc' = [pc EXCEPT ![p] = s],
             readSeq' = readSeq \/ readSeq' = [readSeq EXCEPT ![p] = 0],
             Gentle \/ ckpt'.seq = ckpt.seq + 1
      PROVE  LeaseInv'
  BY <1>p, <1>3, LeaseFrame
<1>4. ASSUME NEW p \in Procs, AcquireWrite(p) PROVE LeaseInv'
  BY <1>3, <1>4, AcquireWritten DEF AcquireWrite, Goto, Steps
<1>5. ASSUME NEW p \in Procs, Commit(p) PROVE LeaseInv'
  BY <1>3, <1>5, CommitWritten DEF Commit, Goto, Steps
<1>6. ASSUME NEW p \in Procs, Release(p) PROVE LeaseInv'
  <2> DEFINE s == IF pc[p] = "releasing" THEN "idle" ELSE "dead"
  <2>1. s \in Steps \ {"acquiring", "projecting"}
    BY DEF Steps
  <2>2. pc' = [pc EXCEPT ![p] = s] /\ readSeq' = [readSeq EXCEPT ![p] = 0]
    BY <1>6 DEF Release, End, Goto
  <2> QED
    BY <1>3, <1>6, <2>1, <2>2, ReleaseWritten
<1>7. ASSUME NEW p \in Procs, Restart(p) PROVE LeaseInv'
  <2>1. Gentle
    BY <1>7, RestartWritten DEF Gentle, Restart
  <2> QED
    BY <1>3, <1>7, <2>1 DEF Restart, Goto, Steps
<1>8. ASSUME NEW p \in Procs,
             \/ AcquireConflict(p) \/ LoadCheckpoint(p) \/ ReadSpans(p) \/ SaveRejected(p)
             \/ CommitConflict(p) \/ ReleaseRejected(p) \/ Crash(p)
      PROVE  LeaseInv'
  <2>1. ckpt' = ckpt
    BY <1>8 DEF AcquireConflict, LoadCheckpoint, ReadSpans, SaveRejected, CommitConflict,
       ReleaseRejected, Crash
  <2>2. \E s \in Steps \ {"acquiring", "projecting"} : pc' = [pc EXCEPT ![p] = s]
    BY <1>8 DEF AcquireConflict, LoadCheckpoint, ReadSpans, SaveRejected, CommitConflict,
       ReleaseRejected, Crash, End, Goto, Steps
  <2>3. readSeq' = readSeq \/ readSeq' = [readSeq EXCEPT ![p] = 0]
    BY <1>8 DEF AcquireConflict, LoadCheckpoint, ReadSpans, SaveRejected, CommitConflict,
       ReleaseRejected, Crash, End
  <2> QED
    BY <1>3, <1>s, <2>1, <2>2, <2>3
<1>9. ASSUME Gentle, UNCHANGED <<pc, readSeq>> PROVE LeaseInv'
  BY <1>9 DEF LeaseInv, AsRead, Gentle
<1>10. ASSUME NEW p \in Procs, NEW e \in Edges, Project(p, e) PROVE LeaseInv'
  BY <1>9, <1>10, <1>s DEF Project
<1>11. ASSUME NEW s \in Spans, Arrive(s) PROVE LeaseInv'
  BY <1>9, <1>11, <1>s DEF Arrive
<1>12. CASE LeaseExpires
  <2>1. Gentle
    BY <1>12, ExpiryWritten DEF Gentle
  <2> QED
    BY <1>9, <1>12, <2>1 DEF LeaseExpires
<1>13. CASE UNCHANGED vars
  BY <1>9, <1>13, <1>s DEF vars
<1> QED
  BY <1>1, <1>2, <1>4, <1>5, <1>6, <1>7, <1>8, <1>10, <1>11, <1>12, <1>13 DEF Next, CycleStep

Implements == [Contract!CNext]_(Contract!cvars)

\* A commit moves or confirms the watermark under the committer's own lease,
\* or, if it has no position to commit, leaves both alone.
LEMMA CommitImplements ==
  ASSUME TypeOK, TokenInv, LateInv, LeaseInv, NEW p \in Procs, Commit(p)
  PROVE  Implements
<1>1. /\ ckpt.owner = p /\ token[p] = ckpt.token /\ arrived' = arrived
  BY CommitIsFenced DEF Commit, Unchanged, LeaseInv, AsRead
<1>2. /\ ckpt'.owner = ckpt.owner /\ ckpt'.token = ckpt.token /\ ckpt'.live = ckpt.live
      /\ ckpt'.mark = Committed(p)
      /\ ckpt'.markToken = IF cursor[p] = 0 THEN ckpt.markToken ELSE token[p]
  BY CommitWritten
<1>3. /\ ckpt.mark \in Nat /\ cursor[p] \in Nat /\ Attained(cursor[p])
      /\ ckpt.mark \in {0} \cup Times /\ cursor[p] \in {0} \cup Times
  BY Fields, PathwayAssumption DEF TypeOK, LateInv, Times
<1>4. CASE cursor[p] = 0
  <2>1. ckpt'.mark = ckpt.mark /\ ckpt'.markToken = ckpt.markToken
    BY <1>2, <1>3, <1>4 DEF Committed
  <2> QED
    BY <1>1, <1>2, <2>1 DEF Implements, Contract!cvars, Contract!lease
<1>5. CASE cursor[p] # 0
  <2>1. cursor[p] \in {At[s] : s \in arrived}
    BY <1>3, <1>5 DEF Attained
  <2>2. /\ Committed(p) \in {0} \cup Times
        /\ Committed(p) = ckpt.mark \/ (Committed(p) \in {At[s] : s \in arrived} /\ Committed(p) > ckpt.mark)
    BY <1>3, <2>1 DEF Committed
  <2>3. Contract!Advance(p, Committed(p))
    BY <1>1, <1>2, <1>5, <2>2 DEF Contract!Advance, Contract!lease
  <2> QED
    BY <2>2, <2>3 DEF Implements, Contract!CNext
<1> QED
  BY <1>4, <1>5

LEMMA LeaseImplements ==
  ASSUME TypeOK, TokenInv, LeaseInv, NEW p \in Procs,
         AcquireWrite(p) \/ Release(p) \/ Restart(p)
  PROVE  Implements
<1>1. CASE AcquireWrite(p)
  <2>1. ~ckpt.live /\ token[p] = ckpt.token + 1 /\ arrived' = arrived
    BY <1>1 DEF AcquireWrite, Unchanged, LeaseInv, AsRead, TokenInv, ReadIsOld
  <2>2. Contract!Take(p)
    BY <1>1, <2>1, AcquireWritten DEF Contract!Take, SameMark
  <2> QED
    BY <2>2 DEF Implements, Contract!CNext
<1>2. CASE Release(p)
  <2>1. ckpt.owner = p /\ arrived' = arrived
    BY <1>2 DEF Release, IsOwner
  <2>2. Contract!Leave(p, Nobody)
    BY <1>2, <2>1, ReleaseWritten DEF Contract!Leave, SameMark
  <2> QED
    BY <2>2 DEF Implements, Contract!CNext
<1>3. CASE Restart(p)
  <2>1. arrived' = arrived /\ (ckpt.owner # p => ckpt' = ckpt)
    BY <1>3 DEF Restart
  <2>2. CASE ckpt.owner # p
    BY <2>1, <2>2 DEF Implements, Contract!cvars, Contract!lease
  <2>3. CASE ckpt.owner = p
    <3>1. Contract!Leave(p, Former)
      BY <1>3, <2>1, <2>3, RestartWritten DEF Contract!Leave, SameMark
    <3> QED
      BY <3>1 DEF Implements, Contract!CNext
  <2> QED
    BY <2>2, <2>3
<1> QED
  BY <1>1, <1>2, <1>3

LEMMA StepImplements ==
  ASSUME TypeOK, TokenInv, LateInv, LeaseInv, [Next]_vars
  PROVE  Implements
<1>1. ASSUME ckpt' = ckpt, arrived' = arrived PROVE Implements
  BY <1>1 DEF Implements, Contract!cvars, Contract!lease
<1>2. ASSUME NEW s \in Spans, Arrive(s) PROVE Implements
  <2>1. At[s] \in Times /\ ckpt' = ckpt
        /\ {At[u] : u \in arrived'} = {At[u] : u \in arrived} \cup {At[s]}
    BY <1>2, PathwayAssumption DEF Arrive
  <2>2. Contract!Occur(At[s])
    BY <2>1 DEF Contract!Occur, Contract!lease
  <2> QED
    BY <2>1, <2>2 DEF Implements, Contract!CNext
<1>3. CASE LeaseExpires
  <2>1. Contract!Expire
    BY <1>3, ExpiryWritten DEF LeaseExpires, Contract!Expire, SameMark
  <2> QED
    BY <2>1 DEF Implements, Contract!CNext
<1>4. ASSUME NEW p \in Procs,
             \/ AcquireRead(p) \/ AcquireConflict(p) \/ LoadCheckpoint(p) \/ ReadSpans(p)
             \/ SaveBegins(p) \/ SaveRejected(p) \/ (\E e \in Edges : Project(p, e))
             \/ CommitConflict(p) \/ ReleaseRejected(p) \/ Crash(p)
      PROVE  Implements
  BY <1>1, <1>4 DEF AcquireRead, AcquireConflict, LoadCheckpoint, ReadSpans, SaveBegins,
     SaveRejected, Project, CommitConflict, ReleaseRejected, Crash
<1>5. CASE UNCHANGED vars
  BY <1>1, <1>5 DEF vars
<1> QED
  BY <1>2, <1>3, <1>4, <1>5, CommitImplements, LeaseImplements DEF Next, CycleStep

\* The checkpoint is a fenced lease around a watermark, for every set of spans
\* and processes: a lease in force is taken from nobody, and only its holder
\* moves the watermark, forwards and to a time at which an event arrived
\* (acquire_lease, save, release_lease).
THEOREM CheckpointImplemented == Spec => ImplementsContract
<1>1. Init => Contract!CInit
  BY DEF Init, Contract!CInit
<1>2. TypeOK /\ TokenInv /\ LateInv /\ LeaseInv /\ [Next]_vars =>
        (TypeOK /\ TokenInv /\ LateInv /\ LeaseInv)'
  BY NextType, NextTokenInv, NextLate, NextLease
<1>3. TypeOK /\ TokenInv /\ LateInv /\ LeaseInv /\ [Next]_vars => Implements
  BY StepImplements
<1>4. Init => LeaseInv
  BY DEF Init, LeaseInv, AsRead
<1> QED
  BY InitType, InitToken, InitLate, <1>1, <1>2, <1>3, <1>4, PTL
     DEF Spec, ImplementsContract, Implements, Contract!CSpec
=============================================================================
