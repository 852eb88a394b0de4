--------------------------- MODULE IncidentProofs ---------------------------
(***************************************************************************)
(* Theorems about the two incident models.  First IncidentIngest, for      *)
(* every set of reports, findings, assets, keys and processes, every       *)
(* change a key stands for and every bound.  Then IncidentCorrelation, as  *)
(* the instance Corr, for every set of incidents and processes, every      *)
(* relation of incidents, every policy and every bound.                    *)
(***************************************************************************)
EXTENDS IncidentIngest, CorrelationDocuments, FiniteSetTheorems, TLAPS

\* What a report leaves in a document, in the incident and in the register.
Within(r, d) ==
  FindingOf[r] \in d.found /\ AssetsOf[r] \subseteq d.assets /\ ObservedAt[r] <= d.last
Contained(r) == SeqNo # 0 /\ Within(r, Doc(SeqNo))
Kept(r) ==
  LET stored == register[FindingOf[r]]
  IN stored # <<>> /\ ObservedAt[r] <= ObservedAt[stored[Len(stored)]]

\* A process that ingests: its finding is saved before it searches, it writes
\* a version it has read, and it answers what is in the incident.
HandlerInv(h) ==
  /\ in[h].pc # "idle" => in[h].rep \in Reports
  /\ in[h].pc = "save" =>
       /\ in[h].seq <= Len(Stored(h))
       /\ in[h].seq = Len(Stored(h)) => ~Superseded(Stored(h), in[h].rep)
  /\ in[h].pc \in {"search", "write", "refresh", "answer"} => Kept(in[h].rep)
  /\ in[h].pc = "write" => in[h].seq <= SeqNo
  /\ in[h].pc \in {"refresh", "answer"} => Contained(in[h].rep)

\* The incident only gains findings and assets, and time goes forward.
LogInv ==
  /\ \A n \in 1..SeqNo : /\ Doc(n).found \subseteq Doc(SeqNo).found
                         /\ Doc(n).assets \subseteq Doc(SeqNo).assets
                         /\ Doc(n).last <= Doc(SeqNo).last
  /\ ProjectionIsComplete /\ HistoryIsLegal

\* The version a recorded operation names.
After(k, n) == IF ChangeOf[k] = "comment" THEN n ELSE n + 1
Wrote(k, n) == ChangeOf[k] # "comment" => n \in 1..SeqNo /\ log[n].by = k

\* A process that serves a change: the change it has judged legal, of the
\* version it has read, which is the one its client has seen.
OperatorInv(o) ==
  /\ op[o].pc # "idle" =>
       /\ SeqNo # 0
       /\ op[o].key \in Keys => op[o].change = ChangeOf[op[o].key] /\ op[o].rev # 0
       /\ op[o].key \notin Keys => op[o].pc \in {"read", "update"} /\ op[o].change # "comment"
  /\ op[o].pc = "update" =>
       /\ op[o].seq \in 1..SeqNo /\ op[o].change # "comment"
       /\ Legal(Doc(op[o].seq), op[o].change)
       /\ op[o].key \in Keys => op[o].seq = op[o].rev
  /\ op[o].pc = "record" =>
       op[o].seq = After(op[o].key, op[o].rev) /\ Wrote(op[o].key, op[o].seq)
  /\ op[o].pc = "append" => ops[op[o].key].rev # 0 /\ op[o].seq = ops[op[o].key].at

RecordInv(k) ==
  /\ ops[k].rev # 0 => ops[k].at = After(k, ops[k].rev) /\ Wrote(k, ops[k].at)
  /\ events[k] # 0 => ops[k].rev # 0 /\ events[k] = ops[k].at

IInv ==
  /\ TypeOK /\ LogInv
  /\ \A h \in Handlers : HandlerInv(h)
  /\ \A r \in answered : Contained(r) /\ Kept(r)
  /\ \A o \in Operators : OperatorInv(o)
  /\ \A k \in Keys : RecordInv(k)

-----------------------------------------------------------------------------
(* The documents: what a merge and a change make of one.                   *)

LEMMA ReportFields ==
  ASSUME NEW r \in Reports
  PROVE  /\ FindingOf[r] \in Findings /\ ObservedAt[r] \in Nat /\ EvidenceOf[r] \in Nat
         /\ AssetsOf[r] \subseteq Assets
  BY IngestAssumption

LEMMA IncidentFields ==
  ASSUME NEW d \in Incident
  PROVE  /\ d.found \subseteq Findings /\ d.count \in Nat /\ d.last \in Nat /\ d.evidence \in Nat
         /\ d.assets \subseteq Assets /\ d.graded \in Reports /\ d.state \in States
  BY DEF Incident

LEMMA CreateEffect ==
  ASSUME NEW r \in Reports
  PROVE  /\ Create(r) \in Incident /\ Create(r).found = {FindingOf[r]} /\ Create(r).count = 1
         /\ Create(r).last = ObservedAt[r] /\ Create(r).assets = AssetsOf[r]
<1> DEFINE f == FindingOf[r]
           t == ObservedAt[r]
           v == EvidenceOf[r]
           a == AssetsOf[r]
<1>1. f \in Findings /\ t \in Nat /\ v \in Nat /\ a \in SUBSET Assets
  BY ReportFields
<1>2. Create(r) = [found |-> {f}, count |-> 1, last |-> t, evidence |-> v, assets |-> a,
                   graded |-> r, state |-> "open"]
  BY DEF Create
<1> HIDE DEF f, t, v, a
<1>3. /\ Create(r) \in Incident /\ Create(r).found = {f} /\ Create(r).count = 1
      /\ Create(r).last = t /\ Create(r).assets = a
  BY <1>1, <1>2 DEF Incident, States
<1> QED
  BY <1>3 DEF f, t, a

LEMMA MergeEffect ==
  ASSUME NEW r \in Reports, NEW d \in Incident
  PROVE  /\ Merge(d, r) \in Incident
         /\ Merge(d, r).found = d.found \cup {FindingOf[r]}
         /\ Merge(d, r).count = (IF FindingOf[r] \notin d.found THEN d.count + 1 ELSE d.count)
         /\ Merge(d, r).assets = d.assets \cup AssetsOf[r]
         /\ Merge(d, r).last = (IF ObservedAt[r] > d.last THEN ObservedAt[r] ELSE d.last)
         /\ Merge(d, r).state = d.state
<1> DEFINE f == d.found \cup {FindingOf[r]}
           c == IF FindingOf[r] \notin d.found THEN d.count + 1 ELSE d.count
           a == d.assets \cup AssetsOf[r]
           t == IF ObservedAt[r] > d.last THEN ObservedAt[r] ELSE d.last
           v == IF Enriches(d, r) THEN EvidenceOf[r] ELSE d.evidence
           g == IF IsNew(d, r) \/ Enriches(d, r) THEN r ELSE d.graded
<1>1. /\ f \in SUBSET Findings /\ c \in Nat /\ a \in SUBSET Assets /\ t \in Nat /\ v \in Nat
      /\ g \in Reports
  BY ReportFields, IncidentFields
<1>2. Merge(d, r) = [d EXCEPT !.found = f, !.count = c, !.assets = a, !.last = t, !.evidence = v,
                              !.graded = g]
  BY DEF Merge, IsNew, Newer, Incident
<1> HIDE DEF f, c, a, t, v, g
<1>3. /\ Merge(d, r) \in Incident /\ Merge(d, r).found = f /\ Merge(d, r).count = c
      /\ Merge(d, r).assets = a /\ Merge(d, r).last = t /\ Merge(d, r).state = d.state
  BY <1>1, <1>2 DEF Incident
<1> QED
  BY <1>3 DEF f, c, a, t

\* A document that a merge leaves as it is holds the report already.
LEMMA MergedHolds ==
  ASSUME NEW r \in Reports, NEW d \in Incident
  PROVE  Within(r, Merge(d, r)) /\ (Merge(d, r) = d => Within(r, d))
<1>1. /\ Merge(d, r).found = d.found \cup {FindingOf[r]}
      /\ Merge(d, r).assets = d.assets \cup AssetsOf[r]
      /\ Merge(d, r).last = (IF ObservedAt[r] > d.last THEN ObservedAt[r] ELSE d.last)
  BY MergeEffect
<1>2. ObservedAt[r] \in Nat /\ d.last \in Nat
  BY ReportFields, IncidentFields
<1>3. Within(r, Merge(d, r))
  BY <1>1, <1>2 DEF Within
<1> QED
  BY <1>3

LEMMA ChangedEffect ==
  ASSUME NEW d \in Incident, NEW c \in Changes \ {"comment"}
  PROVE  /\ Changed(d, c) \in Incident
         /\ Changed(d, c).found = d.found /\ Changed(d, c).count = d.count
         /\ Changed(d, c).assets = d.assets /\ Changed(d, c).last = d.last
         /\ Changed(d, c).state = d.state \/ Changed(d, c).state = c
         /\ c = "assign" => Changed(d, c).state = d.state
<1>1. CASE c = "assign"
  BY <1>1 DEF Changed
<1>2. CASE c # "assign"
  <2>1. c \in States /\ Changed(d, c) = [d EXCEPT !.state = c]
    BY <1>2 DEF Changes, Changed
  <2> QED
    BY <1>2, <2>1 DEF Incident
<1> QED
  BY <1>1, <1>2

-----------------------------------------------------------------------------
(* What grows: the versions of the incident and the stored findings.       *)

LogGrows ==
  /\ SeqNo \in Nat /\ SeqNo' \in Nat /\ SeqNo <= SeqNo'
  /\ \A n \in 1..SeqNo : log'[n] = log[n]
IncidentGrows ==
  /\ LogGrows
  /\ SeqNo # 0 => /\ Doc(SeqNo).found \subseteq log'[SeqNo'].doc.found
                  /\ Doc(SeqNo).assets \subseteq log'[SeqNo'].doc.assets
                  /\ Doc(SeqNo).last <= log'[SeqNo'].doc.last
                  /\ Doc(SeqNo).last \in Nat /\ log'[SeqNo'].doc.last \in Nat
RegisterGrows ==
  \A f \in Findings :
    \/ register'[f] = register[f]
    \/ /\ Len(register[f]) \in Nat /\ Len(register'[f]) = Len(register[f]) + 1
       /\ \E r, s \in Reports :
            /\ register'[f] # <<>> /\ register'[f][Len(register'[f])] = r
            /\ register[f] # <<>> =>
                 register[f][Len(register[f])] = s /\ ObservedAt[s] <= ObservedAt[r]

LEMMA LogSame ==
  ASSUME TypeOK, log' = log
  PROVE  IncidentGrows
<1>1. SeqNo \in Nat /\ SeqNo' = SeqNo
  BY DEF TypeOK, SeqNo
<1>2. SeqNo # 0 => log[SeqNo] \in Version
  BY <1>1 DEF TypeOK, SeqNo
<1>3. SeqNo # 0 => Doc(SeqNo) \in Incident
  BY <1>2 DEF Version, Doc
<1>4. SeqNo # 0 => Doc(SeqNo).last \in Nat
  BY <1>3, IncidentFields
<1> QED
  BY <1>1, <1>4 DEF IncidentGrows, LogGrows, Doc

LEMMA DocType ==
  ASSUME TypeOK, NEW n \in 1..SeqNo
  PROVE  log[n] \in Version /\ Doc(n) \in Incident /\ log[n].by \in Writers
<1>1. log[n] \in Version
  BY DEF TypeOK, SeqNo
<1> QED
  BY <1>1 DEF Version, Doc

LEMMA LogAdded ==
  ASSUME TypeOK, NEW b \in Writers, NEW d \in Incident, Write(b, d)
  PROVE  /\ log' \in Seq(Version) /\ SeqNo \in Nat /\ SeqNo' = SeqNo + 1 /\ LogGrows
         /\ log'[SeqNo + 1].by = b /\ log'[SeqNo + 1].doc = d
<1> DEFINE v == [by |-> b, doc |-> d]
<1>1. v \in Version /\ v.by = b /\ v.doc = d
  BY DEF Version
<1>2. log \in Seq(Version) /\ log' = Append(log, v)
  BY DEF TypeOK, Write
<1> HIDE DEF v
<1>3. /\ log' \in Seq(Version) /\ Len(log) \in Nat /\ Len(log') = Len(log) + 1
      /\ \A n \in 1..Len(log) : log'[n] = log[n]
      /\ log'[Len(log) + 1] = v
  BY <1>1, <1>2
<1> QED
  BY <1>1, <1>3 DEF SeqNo, LogGrows

LEMMA ContainedStays ==
  ASSUME IncidentGrows, NEW r \in Reports, Contained(r)
  PROVE  Contained(r)'
<1>1. /\ SeqNo' # 0 /\ ObservedAt[r] \in Nat
      /\ FindingOf[r] \in log'[SeqNo'].doc.found /\ AssetsOf[r] \subseteq log'[SeqNo'].doc.assets
      /\ ObservedAt[r] <= log'[SeqNo'].doc.last
  BY ReportFields DEF IncidentGrows, LogGrows, Contained, Within
<1> QED
  BY <1>1 DEF Contained, Within, Doc

LEMMA KeptStays ==
  ASSUME RegisterGrows, NEW r \in Reports, Kept(r)
  PROVE  Kept(r)'
<1> DEFINE f == FindingOf[r]
<1>0. f \in Findings
  BY ReportFields
<1>1. CASE register'[f] = register[f]
  BY <1>1 DEF Kept
<1>2. CASE register'[f] # register[f]
  <2>1. PICK q, s \in Reports :
            /\ register'[f] # <<>> /\ register'[f][Len(register'[f])] = q
            /\ register[f] # <<>> =>
                 register[f][Len(register[f])] = s /\ ObservedAt[s] <= ObservedAt[q]
    BY <1>0, <1>2 DEF RegisterGrows
  <2>2. register[f][Len(register[f])] = s /\ ObservedAt[r] <= ObservedAt[s] /\ ObservedAt[s] <= ObservedAt[q]
    BY <2>1 DEF Kept
  <2>3. ObservedAt[r] <= ObservedAt[q]
    BY <2>2, ReportFields
  <2> QED
    BY <2>1, <2>3 DEF Kept
<1> QED
  BY <1>1, <1>2

LEMMA HandlerStays ==
  ASSUME TypeOK, RegisterGrows, IncidentGrows, NEW h \in Handlers, HandlerInv(h), in'[h] = in[h]
  PROVE  HandlerInv(h)'
<1>0. in[h].seq \in Nat /\ (in[h].pc # "idle" => in[h].rep \in Reports /\ FindingOf[in[h].rep] \in Findings)
  BY ReportFields DEF TypeOK, HandlerInv, HandlerState
<1>1. in[h].pc = "save" =>
       /\ in[h].seq <= Len(Stored(h)')
       /\ in[h].seq = Len(Stored(h)') => ~Superseded(Stored(h)', in[h].rep)
  <2> SUFFICES ASSUME in[h].pc = "save"
               PROVE  /\ in[h].seq <= Len(Stored(h)')
                      /\ in[h].seq = Len(Stored(h)') => ~Superseded(Stored(h)', in[h].rep)
    OBVIOUS
  <2>1. PICK f \in Findings : f = FindingOf[in[h].rep]
    BY <1>0
  <2>2. Stored(h) = register[f] /\ Stored(h)' = register'[f]
    BY <2>1 DEF Stored
  <2>3. in[h].seq <= Len(register[f]) /\ (in[h].seq = Len(register[f]) => ~Superseded(register[f], in[h].rep))
    BY <2>2 DEF HandlerInv
  <2>4. CASE register'[f] = register[f]
    BY <2>2, <2>3, <2>4
  <2>5. CASE register'[f] # register[f]
    <3>1. Len(register[f]) \in Nat /\ Len(register'[f]) = Len(register[f]) + 1
      BY <2>5 DEF RegisterGrows
    <3> QED
      BY <1>0, <2>2, <2>3, <3>1
  <2> QED
    BY <2>4, <2>5
<1>2. in[h].pc \in {"search", "write", "refresh", "answer"} => Kept(in[h].rep)'
  <2> SUFFICES ASSUME in[h].pc \in {"search", "write", "refresh", "answer"} PROVE Kept(in[h].rep)'
    OBVIOUS
  <2>1. PICK r \in Reports : r = in[h].rep
    BY <1>0
  <2>2. Kept(r)'
    BY <2>1, KeptStays DEF HandlerInv
  <2> QED
    BY <2>1, <2>2 DEF Kept
<1>3. in[h].pc \in {"refresh", "answer"} => Contained(in[h].rep)'
  <2> SUFFICES ASSUME in[h].pc \in {"refresh", "answer"} PROVE Contained(in[h].rep)'
    OBVIOUS
  <2>1. PICK r \in Reports : r = in[h].rep
    BY <1>0
  <2>2. Contained(r)'
    BY <2>1, ContainedStays DEF HandlerInv
  <2> QED
    BY <2>1, <2>2 DEF Contained, Within
<1>4. in[h].pc = "write" => in[h].seq <= SeqNo'
  BY <1>0 DEF HandlerInv, IncidentGrows, LogGrows
<1> QED
  BY <1>0, <1>1, <1>2, <1>3, <1>4 DEF HandlerInv

\* A record stays; so does what an operator has found out.
OpsGrow == \A k \in Keys : ops[k].rev # 0 => ops'[k] = ops[k]

LEMMA WroteStays ==
  ASSUME LogGrows, NEW k, NEW n, Wrote(k, n)
  PROVE  Wrote(k, n)'
  BY DEF Wrote, LogGrows

LEMMA OperatorStays ==
  ASSUME TypeOK, LogGrows, OpsGrow, NEW o \in Operators, OperatorInv(o), op'[o] = op[o]
  PROVE  OperatorInv(o)'
<1>1. op[o].pc # "idle" => SeqNo' # 0
  BY DEF OperatorInv, LogGrows
<1>2. op[o].pc = "update" => op[o].seq \in 1..SeqNo' /\ Legal(Doc(op[o].seq), op[o].change)'
  BY DEF OperatorInv, LogGrows, Doc, Legal
<1>3. op[o].pc = "record" => Wrote(op[o].key, op[o].seq)'
  <2> SUFFICES ASSUME op[o].pc = "record" PROVE Wrote(op[o].key, op[o].seq)'
    OBVIOUS
  <2>1. PICK k : k = op[o].key
    OBVIOUS
  <2>2. PICK n : n = op[o].seq
    OBVIOUS
  <2>3. Wrote(k, n)'
    BY <2>1, <2>2, WroteStays DEF OperatorInv
  <2> QED
    BY <2>1, <2>2, <2>3 DEF Wrote
<1>4. op[o].pc = "append" => op[o].key \in Keys /\ ops'[op[o].key] = ops[op[o].key]
  BY DEF OperatorInv, OpsGrow
<1> QED
  BY <1>1, <1>2, <1>3, <1>4 DEF OperatorInv, After

LEMMA RecordStays ==
  ASSUME LogGrows, NEW k \in Keys, RecordInv(k), ops'[k] = ops[k], events'[k] = events[k]
  PROVE  RecordInv(k)'
<1>1. ops[k].rev # 0 => Wrote(k, ops[k].at)'
  <2> SUFFICES ASSUME ops[k].rev # 0 PROVE Wrote(k, ops[k].at)'
    OBVIOUS
  <2>1. PICK n : n = ops[k].at
    OBVIOUS
  <2>2. Wrote(k, n)'
    BY <2>1, WroteStays DEF RecordInv
  <2> QED
    BY <2>1, <2>2 DEF Wrote
<1> QED
  BY <1>1 DEF RecordInv, After

-----------------------------------------------------------------------------
(* A new version of the incident.                                          *)

LEMMA MergedType == Merged \subseteq Reports /\ IsFiniteSet(Merged)
<1>1. Merged \subseteq Reports
  BY DEF Merged
<1> QED
  BY <1>1, IngestAssumption, FS_Subset

LEMMA MergedGrows ==
  ASSUME TypeOK, NEW b \in Writers, NEW d \in Incident, Write(b, d)
  PROVE  Merged' = Merged \cup ({b} \cap Reports)
<1>1. /\ SeqNo \in Nat /\ SeqNo' = SeqNo + 1 /\ LogGrows /\ log'[SeqNo + 1].by = b
  BY LogAdded
<1>2. \A n \in 1..SeqNo' : n \in 1..SeqNo \/ n = SeqNo + 1
  BY <1>1
<1>3. \A n \in 1..SeqNo : n \in 1..SeqNo' /\ log'[n].by = log[n].by
  BY <1>1 DEF LogGrows
<1>4. SeqNo + 1 \in 1..SeqNo'
  BY <1>1
<1>5. \A x : x \in Merged' <=> x \in Reports /\ \E n \in 1..SeqNo' : log'[n].by = x
  BY DEF Merged
<1>6. \A x : x \in Merged <=> x \in Reports /\ \E n \in 1..SeqNo : log[n].by = x
  BY DEF Merged
<1>7. \A x : x \in Merged' <=> x \in Merged \cup ({b} \cap Reports)
  BY <1>1, <1>2, <1>3, <1>4, <1>5, <1>6
<1> QED
  BY <1>7

\* The history, and the growth of the document, when its successor is e.
LEMMA VersionAdded ==
  ASSUME TypeOK, LogInv, NEW b \in Writers, NEW e \in Incident, Write(b, e),
         SeqNo # 0 => /\ Doc(SeqNo).found \subseteq e.found
                      /\ Doc(SeqNo).assets \subseteq e.assets
                      /\ Doc(SeqNo).last <= e.last
                      /\ e.state # Doc(SeqNo).state =>
                           b \notin Reports /\ e.state \in LegalTransitions[Doc(SeqNo).state]
  PROVE  /\ IncidentGrows /\ HistoryIsLegal'
         /\ \A n \in 1..SeqNo' : /\ Doc(n)'.found \subseteq Doc(SeqNo)'.found
                                 /\ Doc(n)'.assets \subseteq Doc(SeqNo)'.assets
                                 /\ Doc(n)'.last <= Doc(SeqNo)'.last
<1>1. /\ SeqNo \in Nat /\ SeqNo' = SeqNo + 1 /\ LogGrows
      /\ log'[SeqNo + 1].by = b /\ log'[SeqNo + 1].doc = e
  BY LogAdded
<1>2. e.last \in Nat
  BY IncidentFields
<1>3. \A n \in 1..SeqNo : Doc(n) \in Incident /\ Doc(n).last \in Nat /\ log'[n] = log[n]
  BY <1>1, DocType, IncidentFields DEF LogGrows
<1>4. SeqNo # 0 => SeqNo \in 1..SeqNo
  BY <1>1
<1>5. IncidentGrows
  BY <1>1, <1>2, <1>3, <1>4 DEF IncidentGrows
<1>6. ASSUME NEW n \in 1..SeqNo'
      PROVE  /\ log'[n].doc.found \subseteq e.found /\ log'[n].doc.assets \subseteq e.assets
             /\ log'[n].doc.last <= e.last
  <2>1. CASE n = SeqNo + 1
    BY <1>1, <1>2, <2>1
  <2>2. CASE n # SeqNo + 1
    <3>1. n \in 1..SeqNo /\ SeqNo # 0
      BY <1>1, <2>2
    <3>2. /\ Doc(n).found \subseteq Doc(SeqNo).found /\ Doc(n).assets \subseteq Doc(SeqNo).assets
          /\ Doc(n).last <= Doc(SeqNo).last /\ log'[n].doc = Doc(n)
      BY <1>3, <3>1 DEF LogInv, Doc
    <3> QED
      BY <1>2, <1>3, <1>4, <3>1, <3>2
  <2> QED
    BY <2>1, <2>2
<1>7. HistoryIsLegal'
  <2> SUFFICES ASSUME NEW n \in 2..SeqNo', log'[n].doc.state # log'[n - 1].doc.state
               PROVE  log'[n].by \notin Reports /\ log'[n].doc.state \in LegalTransitions[log'[n - 1].doc.state]
    BY DEF HistoryIsLegal, Doc
  <2>1. CASE n = SeqNo + 1
    <3>1. n - 1 = SeqNo /\ SeqNo # 0 /\ SeqNo \in 1..SeqNo
      BY <1>1, <2>1
    <3>2. log'[n - 1].doc = Doc(SeqNo)
      BY <1>3, <3>1 DEF Doc
    <3> QED
      BY <1>1, <2>1, <3>1, <3>2
  <2>2. CASE n # SeqNo + 1
    <3>1. n \in 2..SeqNo /\ n \in 1..SeqNo /\ n - 1 \in 1..SeqNo
      BY <1>1, <2>2
    <3>2. log'[n] = log[n] /\ log'[n - 1] = log[n - 1]
      BY <1>3, <3>1
    <3> QED
      BY <3>1, <3>2 DEF LogInv, HistoryIsLegal, Doc
  <2> QED
    BY <2>1, <2>2
<1>8. \A n \in 1..SeqNo' : /\ Doc(n)'.found \subseteq Doc(SeqNo)'.found
                           /\ Doc(n)'.assets \subseteq Doc(SeqNo)'.assets
                           /\ Doc(n)'.last <= Doc(SeqNo)'.last
  BY <1>1, <1>6 DEF Doc
<1> QED
  BY <1>5, <1>7, <1>8

\* The document is the union of the reports of a set.
Projects(d, M) ==
  /\ d.found = {FindingOf[r] : r \in M}
  /\ d.count = Cardinality(d.found)
  /\ d.assets = UNION {AssetsOf[r] : r \in M}
  /\ \A r \in M : ObservedAt[r] <= d.last
  /\ \E r \in M : ObservedAt[r] = d.last

LEMMA CreateProjects ==
  ASSUME NEW r \in Reports
  PROVE  Projects(Create(r), {r})
<1>1. /\ Create(r).found = {FindingOf[r]} /\ Create(r).count = 1
      /\ Create(r).last = ObservedAt[r] /\ Create(r).assets = AssetsOf[r]
  BY CreateEffect
<1>2. Cardinality({FindingOf[r]}) = 1
  BY FS_Singleton
<1>3. ObservedAt[r] <= ObservedAt[r]
  BY ReportFields
<1> QED
  BY <1>1, <1>2, <1>3 DEF Projects

LEMMA MergeProjects ==
  ASSUME NEW r \in Reports, NEW d \in Incident, NEW M \in SUBSET Reports, IsFiniteSet(M),
         Projects(d, M)
  PROVE  Projects(Merge(d, r), M \cup {r})
<1> DEFINE e == Merge(d, r)
<1>1. /\ e.found = d.found \cup {FindingOf[r]}
      /\ e.count = (IF FindingOf[r] \notin d.found THEN d.count + 1 ELSE d.count)
      /\ e.assets = d.assets \cup AssetsOf[r]
      /\ e.last = (IF ObservedAt[r] > d.last THEN ObservedAt[r] ELSE d.last)
  BY MergeEffect
<1>2. ObservedAt[r] \in Nat /\ d.last \in Nat /\ \A q \in M : ObservedAt[q] \in Nat
  BY ReportFields, IncidentFields
<1> HIDE DEF e
<1>3. e.found = {FindingOf[q] : q \in M \cup {r}}
  BY <1>1 DEF Projects
<1>4. IsFiniteSet(d.found)
  <2>1. d.found = {FindingOf[q] : q \in M}
    BY DEF Projects
  <2>2. IsFiniteSet({FindingOf[q] : q \in M})
    <3> DEFINE g == [q \in M |-> FindingOf[q]]
               T == {FindingOf[q] : q \in M}
    <3>1. g \in Surjection(M, T)
      BY DEF Surjection
    <3> QED
      BY <3>1, FS_Surjection
  <2> QED
    BY <2>1, <2>2
<1>5. e.count = Cardinality(e.found)
  <2>1. Cardinality(d.found \cup {FindingOf[r]}) =
          IF FindingOf[r] \in d.found THEN Cardinality(d.found) ELSE Cardinality(d.found) + 1
    BY <1>4, FS_AddElement
  <2> QED
    BY <1>1, <2>1 DEF Projects
<1>6. e.assets = UNION {AssetsOf[q] : q \in M \cup {r}}
  BY <1>1 DEF Projects
<1>7. \A q \in M \cup {r} : ObservedAt[q] <= e.last
  BY <1>1, <1>2 DEF Projects
<1>8. \E q \in M \cup {r} : ObservedAt[q] = e.last
  BY <1>1 DEF Projects
<1>9. Projects(e, M \cup {r})
  BY <1>3, <1>5, <1>6, <1>7, <1>8 DEF Projects
<1> QED
  BY <1>9 DEF e

LEMMA ProjectionMeans ==
  ProjectionIsComplete <=> (SeqNo # 0 => Projects(Doc(SeqNo), Merged))
  BY DEF ProjectionIsComplete, Projects

LEMMA ProjectionNext ==
  ASSUME TypeOK, NEW b \in Writers, NEW e \in Incident, Write(b, e),
         Projects(e, Merged \cup ({b} \cap Reports))
  PROVE  ProjectionIsComplete'
<1>1. SeqNo \in Nat /\ SeqNo' = SeqNo + 1 /\ log'[SeqNo + 1].doc = e
  BY LogAdded
<1>2. PICK M : M = Merged \cup ({b} \cap Reports)
  OBVIOUS
<1>3. Merged' = M
  BY <1>2, MergedGrows
<1>4. Doc(SeqNo)' = e /\ SeqNo' # 0
  BY <1>1 DEF Doc
<1>5. Projects(Doc(SeqNo)', Merged')
  BY <1>2, <1>3, <1>4
<1> QED
  BY <1>5 DEF Projects, ProjectionIsComplete

\* create_incident, and update_incident after a merge.
LEMMA IngestLog ==
  ASSUME TypeOK, LogInv, NEW r \in Reports,
         Write(r, IF SeqNo = 0 THEN Create(r) ELSE Merge(Doc(SeqNo), r))
  PROVE  /\ LogInv' /\ IncidentGrows /\ Contained(r)' /\ SeqNo' = SeqNo + 1 /\ SeqNo \in Nat
         /\ log' \in Seq(Version)
<1>0. r \in Writers /\ {r} \cap Reports = {r} /\ SeqNo \in Nat
  BY DEF Writers, TypeOK, SeqNo
<1>1. ASSUME NEW e \in Incident, Write(r, e), Projects(e, Merged \cup {r}), Within(r, e),
             SeqNo # 0 => /\ Doc(SeqNo).found \subseteq e.found
                          /\ Doc(SeqNo).assets \subseteq e.assets
                          /\ Doc(SeqNo).last <= e.last
                          /\ e.state = Doc(SeqNo).state
      PROVE  /\ LogInv' /\ IncidentGrows /\ Contained(r)' /\ SeqNo' = SeqNo + 1
             /\ log' \in Seq(Version)
  <2>1. ProjectionIsComplete'
    BY <1>0, <1>1, ProjectionNext
  <2>2. /\ IncidentGrows /\ HistoryIsLegal'
        /\ \A n \in 1..SeqNo' : /\ Doc(n)'.found \subseteq Doc(SeqNo)'.found
                                /\ Doc(n)'.assets \subseteq Doc(SeqNo)'.assets
                                /\ Doc(n)'.last <= Doc(SeqNo)'.last
    BY <1>0, <1>1, VersionAdded
  <2>3. log' \in Seq(Version) /\ SeqNo' = SeqNo + 1 /\ log'[SeqNo + 1].doc = e
    BY <1>0, <1>1, LogAdded
  <2>4. Contained(r)'
    BY <1>0, <1>1, <2>3 DEF Contained, Within, Doc
  <2> QED
    BY <2>1, <2>2, <2>3, <2>4 DEF LogInv
<1>2. CASE SeqNo = 0
  <2>1. Merged = {}
    BY <1>2 DEF Merged
  <2>2. Projects(Create(r), Merged \cup {r})
    BY <2>1, CreateProjects
  <2>3. Create(r) \in Incident /\ Within(r, Create(r)) /\ Write(r, Create(r))
    BY <1>2, CreateEffect, ReportFields DEF Within
  <2> QED
    BY <1>0, <1>1, <1>2, <2>2, <2>3
<1>3. CASE SeqNo # 0
  <2>1. SeqNo \in 1..SeqNo
    BY <1>0, <1>3
  <2>2. PICK d \in Incident : d = Doc(SeqNo)
    BY <2>1, DocType
  <2>3. Projects(d, Merged) /\ Merged \in SUBSET Reports /\ IsFiniteSet(Merged)
    BY <1>3, <2>2, ProjectionMeans, MergedType DEF LogInv
  <2>4. Projects(Merge(d, r), Merged \cup {r})
    BY <2>3, MergeProjects
  <2>5. /\ Merge(d, r) \in Incident /\ d.found \subseteq Merge(d, r).found
        /\ d.assets \subseteq Merge(d, r).assets /\ d.last <= Merge(d, r).last
        /\ Merge(d, r).state = d.state
    BY MergeEffect, IncidentFields, ReportFields
  <2>6. Within(r, Merge(d, r)) /\ Write(r, Merge(d, r))
    BY <1>3, <2>2, MergedHolds
  <2> QED
    BY <1>0, <1>1, <2>2, <2>4, <2>5, <2>6
<1> QED
  BY <1>2, <1>3

\* update_incident for an operator.
LEMMA ChangeLog ==
  ASSUME TypeOK, LogInv, SeqNo # 0, NEW k \in Keys \cup {Nobody}, NEW c \in Changes \ {"comment"},
         Legal(Doc(SeqNo), c), Write(k, Changed(Doc(SeqNo), c))
  PROVE  /\ LogInv' /\ IncidentGrows /\ SeqNo' = SeqNo + 1 /\ SeqNo \in Nat
         /\ log' \in Seq(Version) /\ log'[SeqNo + 1].by = k
<1>0. k \in Writers /\ k \notin Reports /\ SeqNo \in Nat
  BY IngestAssumption DEF Writers, TypeOK, SeqNo
<1>1. SeqNo \in 1..SeqNo
  BY <1>0
<1>2. PICK d \in Incident : d = Doc(SeqNo)
  BY <1>1, DocType
<1>3. PICK e \in Incident : e = Changed(d, c)
  BY ChangedEffect
<1>4. /\ e.found = d.found /\ e.count = d.count /\ e.assets = d.assets /\ e.last = d.last
      /\ e.state # d.state => e.state \in LegalTransitions[d.state]
  BY <1>2, <1>3, ChangedEffect DEF Legal
<1>5. Write(k, e)
  BY <1>2, <1>3
<1>6. Projects(e, Merged \cup ({k} \cap Reports))
  <2>1. Merged \cup ({k} \cap Reports) = Merged /\ Projects(d, Merged)
    BY <1>0, <1>2, ProjectionMeans DEF LogInv
  <2> QED
    BY <1>4, <2>1 DEF Projects
<1>7. ProjectionIsComplete'
  BY <1>0, <1>5, <1>6, ProjectionNext
<1>8. d.last <= e.last
  BY <1>4, IncidentFields
<1>9. /\ IncidentGrows /\ HistoryIsLegal'
      /\ \A n \in 1..SeqNo' : /\ Doc(n)'.found \subseteq Doc(SeqNo)'.found
                              /\ Doc(n)'.assets \subseteq Doc(SeqNo)'.assets
                              /\ Doc(n)'.last <= Doc(SeqNo)'.last
  BY <1>0, <1>2, <1>4, <1>5, <1>8, VersionAdded
<1>10. log' \in Seq(Version) /\ SeqNo' = SeqNo + 1 /\ log'[SeqNo + 1].by = k
  BY <1>0, <1>5, LogAdded
<1> QED
  BY <1>0, <1>7, <1>9, <1>10 DEF LogInv

-----------------------------------------------------------------------------
(* What a step changes of a process.                                       *)

OtherHandlers(h) == \A g \in Handlers : g # h => in'[g] = in[g]

LEMMA HandlerType == TypeOK => in \in [Handlers -> HandlerState]
  BY DEF TypeOK

LEMMA HandlerFields ==
  ASSUME TypeOK, NEW h \in Handlers
  PROVE  /\ in[h] \in HandlerState /\ in[h].rep \in Reports \cup {Nobody}
         /\ in[h].lost \in 0..(MaxAttempts - 1) /\ in[h].seq \in Nat
<1>1. in[h] \in HandlerState
  BY HandlerType
<1> QED
  BY <1>1 DEF HandlerState

LEMMA HandlerMoved ==
  ASSUME TypeOK, NEW h \in Handlers, NEW x \in HandlerState, in' = [in EXCEPT ![h] = x]
  PROVE  in' \in [Handlers -> HandlerState] /\ in'[h] = x /\ OtherHandlers(h)
  BY HandlerType DEF OtherHandlers

LEMMA IdleType == Idle \in HandlerState /\ Idle.pc = "idle"
  BY IngestAssumption DEF Idle, HandlerState

\* It is at step p with the same report.
Comes(h, p) ==
  /\ in' \in [Handlers -> HandlerState] /\ OtherHandlers(h)
  /\ in'[h].pc = p /\ in'[h].rep = in[h].rep
Stops(h) == in' \in [Handlers -> HandlerState] /\ OtherHandlers(h) /\ in'[h].pc = "idle"

LEMMA Stopped ==
  ASSUME TypeOK, NEW h \in Handlers, in' = [in EXCEPT ![h] = Idle]
  PROVE  Stops(h)
  BY HandlerMoved, IdleType DEF Stops

LEMMA Reported ==
  ASSUME TypeOK, NEW h \in Handlers, NEW r \in Reports, Report(h, r)
  PROVE  /\ in' \in [Handlers -> HandlerState] /\ OtherHandlers(h)
         /\ in'[h].pc = "get" /\ in'[h].rep = r
<1> DEFINE x == [Idle EXCEPT !.pc = "get", !.rep = r]
<1>1. x \in HandlerState /\ x.pc = "get" /\ x.rep = r
  BY IdleType DEF HandlerState
<1>2. in' = [in EXCEPT ![h] = x]
  BY DEF Report
<1> HIDE DEF x
<1> QED
  BY <1>1, <1>2, HandlerMoved

LEMMA Found ==
  ASSUME TypeOK, NEW h \in Handlers, NEW s \in Nat, GetFinding(h), s = Len(Stored(h))
  PROVE  \/ Superseded(Stored(h), in[h].rep) /\ Comes(h, "search")
         \/ ~Superseded(Stored(h), in[h].rep) /\ Comes(h, "save") /\ in'[h].seq = s
<1>0. in[h] \in HandlerState /\ 0 \in 0..(MaxAttempts - 1)
  BY HandlerFields, IngestAssumption
<1>1. CASE Superseded(Stored(h), in[h].rep)
  <2> DEFINE x == [in[h] EXCEPT !.pc = "search", !.lost = 0]
  <2>1. x \in HandlerState /\ x.pc = "search" /\ x.rep = in[h].rep
    BY <1>0 DEF HandlerState
  <2>2. in' = [in EXCEPT ![h] = x]
    BY <1>1, HandlerType DEF GetFinding
  <2> HIDE DEF x
  <2> QED
    BY <1>1, <2>1, <2>2, HandlerMoved DEF Comes
<1>2. CASE ~Superseded(Stored(h), in[h].rep)
  <2> DEFINE x == [in[h] EXCEPT !.pc = "save", !.seq = s]
  <2>1. x \in HandlerState /\ x.pc = "save" /\ x.rep = in[h].rep /\ x.seq = s
    BY <1>0 DEF HandlerState
  <2>2. in' = [in EXCEPT ![h] = x]
    BY <1>2, HandlerType DEF GetFinding
  <2> HIDE DEF x
  <2> QED
    BY <1>2, <2>1, <2>2, HandlerMoved DEF Comes
<1> QED
  BY <1>1, <1>2

LEMMA LostRace ==
  ASSUME TypeOK, NEW h \in Handlers, NEW p \in {"get", "search"}, LoseRace(h, p)
  PROVE  Stops(h) \/ Comes(h, p)
<1>1. CASE in[h].lost + 1 = MaxAttempts
  BY <1>1, Stopped DEF LoseRace
<1>2. CASE in[h].lost + 1 # MaxAttempts
  <2> DEFINE n == in[h].lost + 1
             x == [in[h] EXCEPT !.pc = p, !.lost = n]
  <2>1. in[h] \in HandlerState /\ n \in 0..(MaxAttempts - 1)
    BY <1>2, HandlerFields, IngestAssumption
  <2>2. in' = [in EXCEPT ![h] = x]
    BY <1>2, HandlerType DEF LoseRace
  <2> HIDE DEF n
  <2>3. x \in HandlerState /\ x.pc = p /\ x.rep = in[h].rep
    BY <2>1 DEF HandlerState
  <2> HIDE DEF x
  <2> QED
    BY <2>2, <2>3, HandlerMoved DEF Comes
<1> QED
  BY <1>1, <1>2

LEMMA Saved ==
  ASSUME TypeOK, NEW h \in Handlers, in' = [in EXCEPT ![h].pc = "search", ![h].lost = 0, ![h].seq = 0]
  PROVE  Comes(h, "search")
<1> DEFINE x == [in[h] EXCEPT !.pc = "search", !.lost = 0, !.seq = 0]
<1>0. in[h] \in HandlerState /\ 0 \in 0..(MaxAttempts - 1)
  BY HandlerFields, IngestAssumption
<1>1. x \in HandlerState /\ x.pc = "search" /\ x.rep = in[h].rep
  BY <1>0 DEF HandlerState
<1>2. in' = [in EXCEPT ![h] = x]
  BY HandlerType
<1> HIDE DEF x
<1> QED
  BY <1>1, <1>2, HandlerMoved DEF Comes

LEMMA Sought ==
  ASSUME TypeOK, NEW h \in Handlers, NEW n \in Nat, n = shown, NEW r, r = in[h].rep, Search(h)
  PROVE  /\ in'[h].seq = n
         /\ Comes(h, IF n # 0 /\ Merge(Doc(n), r) = Doc(n) THEN "answer" ELSE "write")
<1> DEFINE p == IF n # 0 /\ Merge(Doc(n), r) = Doc(n) THEN "answer" ELSE "write"
           x == [in[h] EXCEPT !.seq = n, !.pc = p]
<1>0. in[h] \in HandlerState
  BY HandlerFields
<1>1. in' = [in EXCEPT ![h] = x]
  BY HandlerType DEF Search
<1>2. p \in {"answer", "write"}
  OBVIOUS
<1> HIDE DEF p
<1>3. x \in HandlerState /\ x.pc = p /\ x.rep = in[h].rep /\ x.seq = n
  BY <1>0, <1>2 DEF HandlerState
<1> HIDE DEF x
<1>4. Comes(h, p) /\ in'[h].seq = n
  BY <1>1, <1>3, HandlerMoved DEF Comes
<1> QED
  BY <1>4 DEF p

LEMMA WentWith ==
  ASSUME TypeOK, NEW h \in Handlers, NEW p \in {"refresh"}, NEW n \in Nat,
         in' = [in EXCEPT ![h].pc = p, ![h].seq = n]
  PROVE  Comes(h, p) /\ in'[h].seq = n
<1> DEFINE x == [in[h] EXCEPT !.pc = p, !.seq = n]
<1>0. in[h] \in HandlerState
  BY HandlerFields
<1>1. x \in HandlerState /\ x.pc = p /\ x.rep = in[h].rep /\ x.seq = n
  BY <1>0 DEF HandlerState
<1>2. in' = [in EXCEPT ![h] = x]
  BY HandlerType
<1> HIDE DEF x
<1> QED
  BY <1>1, <1>2, HandlerMoved DEF Comes

LEMMA Went ==
  ASSUME TypeOK, NEW h \in Handlers, NEW p \in {"answer"}, in' = [in EXCEPT ![h].pc = p]
  PROVE  Comes(h, p)
<1> DEFINE x == [in[h] EXCEPT !.pc = p]
<1>0. in[h] \in HandlerState
  BY HandlerFields
<1>1. x \in HandlerState /\ x.pc = p /\ x.rep = in[h].rep
  BY <1>0 DEF HandlerState
<1>2. in' = [in EXCEPT ![h] = x]
  BY HandlerType
<1> HIDE DEF x
<1> QED
  BY <1>1, <1>2, HandlerMoved DEF Comes

-----------------------------------------------------------------------------
(* The steps of ingestion.                                                 *)

LEMMA LogInvSame ==
  ASSUME LogInv, log' = log
  PROVE  LogInv'
  BY DEF LogInv, ProjectionIsComplete, HistoryIsLegal, Doc, SeqNo, Merged

LEMMA IngestKeeps ==
  ASSUME IInv, NEW h \in Handlers, RegisterGrows, IncidentGrows, LogInv',
         register' \in [Findings -> Seq(Reports)], log' \in Seq(Version), shown' = shown,
         in' \in [Handlers -> HandlerState], OtherHandlers(h), HandlerInv(h)',
         arrivals' \in 0..MaxArrivals, answered' \subseteq Reports,
         \A r \in answered' : r \in answered \/ (Contained(r) /\ Kept(r)),
         UNCHANGED <<ops, events, op, requests>>
  PROVE  IInv'
<1>0. TypeOK /\ LogInv /\ LogGrows
  BY DEF IInv, IncidentGrows
<1>1. TypeOK'
  <2>1. shown' \in 0..SeqNo'
    BY <1>0 DEF TypeOK, LogGrows
  <2> QED
    BY <1>0, <2>1 DEF TypeOK
<1>2. \A g \in Handlers : HandlerInv(g)'
  BY <1>0, HandlerStays DEF IInv, OtherHandlers
<1>3. \A r \in answered' : Contained(r)' /\ Kept(r)'
  BY ContainedStays, KeptStays DEF IInv
<1>4. \A o \in Operators : OperatorInv(o)'
  BY <1>0, OperatorStays DEF IInv, OpsGrow
<1>5. \A k \in Keys : RecordInv(k)'
  BY <1>0, RecordStays DEF IInv
<1> QED
  BY <1>1, <1>2, <1>3, <1>4, <1>5 DEF IInv

\* A step that changes the process alone, and what was answered.
LEMMA QuietKeeps ==
  ASSUME IInv, NEW h \in Handlers, register' = register, UNCHANGED <<incident, workbench>>,
         in' \in [Handlers -> HandlerState], OtherHandlers(h), HandlerInv(h)',
         arrivals' \in 0..MaxArrivals, answered' \subseteq Reports,
         \A r \in answered' : r \in answered \/ (Contained(r) /\ Kept(r))
  PROVE  IInv'
<1>1. TypeOK /\ LogInv /\ log' = log /\ shown' = shown /\ UNCHANGED <<ops, events, op, requests>>
  BY DEF IInv, incident, workbench
<1>2. IncidentGrows /\ LogInv' /\ RegisterGrows
  BY <1>1, LogSame, LogInvSame DEF RegisterGrows
<1> QED
  BY <1>1, <1>2, IngestKeeps DEF TypeOK

LEMMA StopKeeps ==
  ASSUME IInv, NEW h \in Handlers, Stops(h), UNCHANGED <<register, incident, workbench, arrivals>>,
         answered' \subseteq Reports,
         \A r \in answered' : r \in answered \/ (Contained(r) /\ Kept(r))
  PROVE  IInv'
<1>1. HandlerInv(h)'
  BY DEF Stops, HandlerInv
<1>2. arrivals' \in 0..MaxArrivals
  BY DEF IInv, TypeOK
<1> QED
  BY <1>1, <1>2, QuietKeeps DEF Stops

LEMMA ReportIInv ==
  ASSUME IInv, NEW h \in Handlers, NEW r \in Reports, Report(h, r)
  PROVE  IInv'
<1>0. TypeOK /\ register' = register /\ answered' = answered /\ UNCHANGED <<incident, workbench>>
  BY DEF IInv, Report
<1>1. in' \in [Handlers -> HandlerState] /\ OtherHandlers(h) /\ in'[h].pc = "get" /\ in'[h].rep = r
  BY <1>0, Reported
<1>2. HandlerInv(h)'
  BY <1>1 DEF HandlerInv
<1>3. arrivals' \in 0..MaxArrivals
  BY <1>0, IngestAssumption DEF Report, TypeOK
<1>4. answered \subseteq Reports
  BY <1>0 DEF TypeOK
<1> QED
  BY <1>0, <1>1, <1>2, <1>3, <1>4, QuietKeeps

LEMMA RegisterFields ==
  ASSUME TypeOK, NEW f \in Findings
  PROVE  /\ register[f] \in Seq(Reports) /\ Len(register[f]) \in Nat
         /\ register[f] # <<>> => register[f][Len(register[f])] \in Reports
<1>1. register[f] \in Seq(Reports)
  BY DEF TypeOK
<1>2. register[f] # <<>> => Len(register[f]) \in 1..Len(register[f])
  BY <1>1
<1> QED
  BY <1>1, <1>2

LEMMA GetFindingIInv ==
  ASSUME IInv, NEW h \in Handlers, GetFinding(h)
  PROVE  IInv'
<1>0. /\ TypeOK /\ HandlerInv(h) /\ register' = register /\ answered' = answered /\ arrivals' = arrivals
      /\ UNCHANGED <<incident, workbench>> /\ in[h].pc = "get"
  BY DEF IInv, GetFinding
<1>1. PICK r \in Reports : r = in[h].rep
  BY <1>0 DEF HandlerInv
<1>2. PICK f \in Findings : f = FindingOf[r]
  BY ReportFields
<1>3. Stored(h) = register[f] /\ register[f] \in Seq(Reports) /\ Len(register[f]) \in Nat
  BY <1>0, <1>1, <1>2, RegisterFields DEF Stored
<1>4. PICK s \in Nat : s = Len(Stored(h))
  BY <1>3
<1>5. CASE Superseded(Stored(h), in[h].rep) /\ Comes(h, "search")
  <2>1. Kept(r)
    <3>1. /\ register[f] # <<>>
          /\ \/ ObservedAt[r] < ObservedAt[register[f][Len(register[f])]]
             \/ register[f][Len(register[f])] = r
      BY <1>1, <1>3, <1>5 DEF Superseded
    <3>2. ObservedAt[r] <= ObservedAt[register[f][Len(register[f])]]
      BY <1>0, <3>1, RegisterFields, ReportFields
    <3> QED
      BY <1>2, <3>1, <3>2 DEF Kept
  <2>2. in'[h].pc = "search" /\ in'[h].rep = r
    BY <1>1, <1>5 DEF Comes
  <2>3. HandlerInv(h)'
    BY <1>0, <2>1, <2>2 DEF HandlerInv, Kept
  <2> QED
    BY <1>0, <1>5, <2>3, QuietKeeps DEF Comes, TypeOK
<1>6. CASE ~Superseded(Stored(h), in[h].rep) /\ Comes(h, "save") /\ in'[h].seq = s
  <2>1. in'[h].pc = "save" /\ in'[h].rep = r /\ in'[h].seq = s
    BY <1>1, <1>6 DEF Comes
  <2>2. Stored(h)' = Stored(h)
    BY <1>0, <1>1, <2>1 DEF Stored
  <2>3. s <= s
    OBVIOUS
  <2>4. ~Superseded(Stored(h)', r)
    BY <1>1, <1>6, <2>2
  <2>5. HandlerInv(h)'
    BY <1>4, <2>1, <2>2, <2>3, <2>4 DEF HandlerInv
  <2> QED
    BY <1>0, <1>6, <2>5, QuietKeeps DEF Comes, TypeOK
<1> QED
  BY <1>0, <1>4, <1>5, <1>6, Found

\* A newer observation replaces the stored finding, or one as new.
LEMMA SaveFindingIInv ==
  ASSUME IInv, NEW h \in Handlers, SaveFinding(h)
  PROVE  IInv'
<1>0. /\ TypeOK /\ LogInv /\ HandlerInv(h) /\ answered' = answered /\ arrivals' = arrivals
      /\ UNCHANGED <<incident, workbench>> /\ in[h].pc = "save"
  BY DEF IInv, SaveFinding
<1>1. PICK r \in Reports : r = in[h].rep
  BY <1>0 DEF HandlerInv
<1>2. PICK f \in Findings : f = FindingOf[r]
  BY ReportFields
<1>3. Stored(h) = register[f] /\ register[f] \in Seq(Reports) /\ Len(register[f]) \in Nat
  BY <1>0, <1>1, <1>2, RegisterFields DEF Stored
<1>4. CASE SaveUnraced(h)
  <2>1. /\ register' = [register EXCEPT ![f] = Append(@, r)] /\ Comes(h, "search")
    BY <1>0, <1>1, <1>2, <1>4, Saved DEF SaveFinding
  <2> DEFINE s == Append(register[f], r)
  <2>2. s \in Seq(Reports) /\ Len(s) = Len(register[f]) + 1 /\ s # <<>> /\ s[Len(s)] = r
    BY <1>3
  <2>3. register \in [Findings -> Seq(Reports)] /\ register' = [register EXCEPT ![f] = s]
    BY <1>0, <2>1 DEF TypeOK
  <2> HIDE DEF s
  <2>4. /\ register' \in [Findings -> Seq(Reports)] /\ register'[f] = s
        /\ \A g \in Findings : g # f => register'[g] = register[g]
    BY <2>2, <2>3
  <2>5. ~Superseded(register[f], r)
    BY <1>0, <1>1, <1>3, <1>4 DEF HandlerInv, SaveUnraced
  <2>6. register[f] # <<>> => /\ register[f][Len(register[f])] \in Reports
                              /\ ObservedAt[register[f][Len(register[f])]] <= ObservedAt[r]
    BY <1>0, <2>5, RegisterFields, ReportFields DEF Superseded
  <2>7. RegisterGrows
    <3>1. ASSUME NEW g \in Findings, register'[g] # register[g]
          PROVE  /\ Len(register[g]) \in Nat /\ Len(register'[g]) = Len(register[g]) + 1
                 /\ \E q, t \in Reports :
                      /\ register'[g] # <<>> /\ register'[g][Len(register'[g])] = q
                      /\ register[g] # <<>> =>
                           register[g][Len(register[g])] = t /\ ObservedAt[t] <= ObservedAt[q]
      BY <1>3, <2>2, <2>4, <2>6, <3>1
    <3> QED
      BY <3>1 DEF RegisterGrows
  <2>8. Kept(r)'
    BY <1>2, <2>2, <2>4, ReportFields DEF Kept
  <2>9. in'[h].pc = "search" /\ in'[h].rep = r
    BY <1>1, <2>1 DEF Comes
  <2>10. HandlerInv(h)'
    BY <2>8, <2>9 DEF HandlerInv, Kept
  <2>11. IncidentGrows /\ LogInv' /\ log' = log /\ shown' = shown
    BY <1>0, LogSame, LogInvSame DEF incident
  <2>12. arrivals' \in 0..MaxArrivals /\ answered' \subseteq Reports /\ log' \in Seq(Version)
    BY <1>0, <2>11 DEF TypeOK
  <2> QED
    BY <1>0, <2>1, <2>4, <2>7, <2>10, <2>11, <2>12, IngestKeeps DEF Comes, workbench
<1>5. CASE ~SaveUnraced(h)
  <2>1. register' = register /\ (Stops(h) \/ Comes(h, "get"))
    BY <1>0, <1>5, LostRace DEF SaveFinding
  <2>2. CASE Stops(h)
    BY <1>0, <2>1, <2>2, StopKeeps DEF TypeOK
  <2>3. CASE Comes(h, "get")
    <3>1. in'[h].pc = "get" /\ in'[h].rep = r
      BY <1>1, <2>3 DEF Comes
    <3>2. HandlerInv(h)'
      BY <3>1 DEF HandlerInv
    <3> QED
      BY <1>0, <2>1, <2>3, <3>2, QuietKeeps DEF Comes, TypeOK
  <2> QED
    BY <2>1, <2>2, <2>3
<1> QED
  BY <1>4, <1>5

\* What a search shows is in the incident still.
LEMMA SearchIInv ==
  ASSUME IInv, NEW h \in Handlers, Search(h)
  PROVE  IInv'
<1>0. /\ TypeOK /\ LogInv /\ HandlerInv(h) /\ register' = register /\ answered' = answered
      /\ arrivals' = arrivals /\ UNCHANGED <<incident, workbench>> /\ in[h].pc = "search"
      /\ SeqNo \in Nat /\ shown \in 0..SeqNo
  BY DEF IInv, Search, TypeOK, SeqNo
<1>1. PICK r \in Reports : r = in[h].rep
  BY <1>0 DEF HandlerInv
<1>2. Kept(r) /\ log' = log
  BY <1>0, <1>1 DEF HandlerInv, incident
<1>3. PICK n \in Nat : n = shown /\ n \in 0..SeqNo
  BY <1>0
<1>31. TypeOK /\ n = shown /\ r = in[h].rep /\ Search(h)
  BY <1>0, <1>1, <1>3
<1>32. /\ in'[h].seq = n
       /\ Comes(h, IF n # 0 /\ Merge(Doc(n), r) = Doc(n) THEN "answer" ELSE "write")
  BY ONLY <1>31, n \in Nat, h \in Handlers, Sought
<1>4. CASE n # 0 /\ Merge(Doc(n), r) = Doc(n)
  <2>2. Comes(h, "answer")
    BY <1>32, <1>4
  <2>3. n \in 1..SeqNo /\ SeqNo # 0 /\ SeqNo \in 1..SeqNo
    BY <1>0, <1>3, <1>4
  <2>4. Doc(n) \in Incident /\ Doc(SeqNo) \in Incident
    BY <1>0, <2>3, DocType
  <2>5. Within(r, Doc(n))
    BY <1>4, <2>4, MergedHolds
  <2>6. Contained(r)
    <3>1. ObservedAt[r] \in Nat /\ Doc(n).last \in Nat /\ Doc(SeqNo).last \in Nat
      BY <2>4, ReportFields, IncidentFields
    <3>2. /\ Doc(n).found \subseteq Doc(SeqNo).found /\ Doc(n).assets \subseteq Doc(SeqNo).assets
          /\ Doc(n).last <= Doc(SeqNo).last
      BY <1>0, <2>3 DEF LogInv
    <3> QED
      BY <2>3, <2>5, <3>1, <3>2 DEF Contained, Within
  <2>7. in'[h].pc = "answer" /\ in'[h].rep = r
    BY <1>1, <2>2 DEF Comes
  <2>8. HandlerInv(h)'
    BY <1>0, <1>2, <2>6, <2>7 DEF HandlerInv, Kept, Contained, Within, Doc, SeqNo
  <2> QED
    BY <1>0, <2>2, <2>8, QuietKeeps DEF Comes, TypeOK
<1>5. CASE ~(n # 0 /\ Merge(Doc(n), r) = Doc(n))
  <2>2. Comes(h, "write") /\ in'[h].seq = n
    BY <1>32, <1>5
  <2>3. in'[h].pc = "write" /\ in'[h].rep = r /\ n <= SeqNo'
    BY <1>0, <1>3, <1>1, <1>2, <2>2 DEF Comes, SeqNo
  <2>4. HandlerInv(h)'
    BY <1>0, <1>2, <2>2, <2>3 DEF HandlerInv, Kept
  <2> QED
    BY <1>0, <2>2, <2>4, QuietKeeps DEF Comes, TypeOK
<1> QED
  BY <1>4, <1>5

LEMMA WriteIncidentIInv ==
  ASSUME IInv, NEW h \in Handlers, WriteIncident(h)
  PROVE  IInv'
<1>0. /\ TypeOK /\ LogInv /\ HandlerInv(h) /\ register' = register /\ answered' = answered
      /\ arrivals' = arrivals /\ shown' = shown /\ UNCHANGED <<ops, events, op, requests>>
      /\ in[h].pc = "write" /\ UNCHANGED workbench
  BY DEF IInv, WriteIncident, workbench
<1>1. PICK r \in Reports : r = in[h].rep
  BY <1>0 DEF HandlerInv
<1>2. Kept(r) /\ Kept(r)'
  BY <1>0, <1>1 DEF HandlerInv, Kept
<1>3. CASE Unraced(in[h].seq)
  <2>1. Write(r, IF SeqNo = 0 THEN Create(r) ELSE Merge(Doc(SeqNo), r))
    BY <1>1, <1>3 DEF WriteIncident, Unraced
  <2>2. /\ LogInv' /\ IncidentGrows /\ Contained(r)' /\ SeqNo' = SeqNo + 1 /\ SeqNo \in Nat
        /\ log' \in Seq(Version)
    BY <1>0, <2>1, IngestLog
  <2>3. PICK n \in Nat : n = SeqNo + 1
    BY <2>2
  <2>31. in' = [in EXCEPT ![h].pc = "refresh", ![h].seq = n]
    BY <1>3, <2>3 DEF WriteIncident
  <2>4. Comes(h, "refresh")
    BY <1>0, <2>31, WentWith
  <2>5. in'[h].pc = "refresh" /\ in'[h].rep = r
    BY <1>1, <2>4 DEF Comes
  <2>6. HandlerInv(h)'
    BY <1>2, <2>2, <2>5 DEF HandlerInv, Kept, Contained, Within
  <2>7. RegisterGrows /\ register' \in [Findings -> Seq(Reports)] /\ arrivals' \in 0..MaxArrivals
        /\ answered' \subseteq Reports
    BY <1>0 DEF RegisterGrows, TypeOK
  <2> QED
    BY <1>0, <2>2, <2>4, <2>6, <2>7, IngestKeeps DEF Comes
<1>4. CASE ~Unraced(in[h].seq)
  <2>1. log' = log /\ (Stops(h) \/ Comes(h, "search"))
    BY <1>0, <1>4, LostRace DEF WriteIncident
  <2>2. UNCHANGED incident
    BY <1>0, <2>1 DEF incident
  <2>3. CASE Stops(h)
    BY <1>0, <2>2, <2>3, StopKeeps DEF TypeOK
  <2>4. CASE Comes(h, "search")
    <3>1. in'[h].pc = "search" /\ in'[h].rep = r
      BY <1>1, <2>4 DEF Comes
    <3>2. HandlerInv(h)'
      BY <1>2, <3>1 DEF HandlerInv, Kept
    <3> QED
      BY <1>0, <2>2, <2>4, <3>2, QuietKeeps DEF Comes, TypeOK
  <2> QED
    BY <2>1, <2>3, <2>4
<1> QED
  BY <1>3, <1>4

LEMMA AnswerIInv ==
  ASSUME IInv, NEW h \in Handlers, Refreshed(h) \/ Answer(h) \/ Crash(h)
  PROVE  IInv'
<1>0. TypeOK /\ HandlerInv(h) /\ answered \subseteq Reports
  BY DEF IInv, TypeOK
<1>1. CASE Refreshed(h)
  <2>1. /\ register' = register /\ answered' = answered /\ arrivals' = arrivals /\ in[h].pc = "refresh"
        /\ UNCHANGED <<incident, workbench>> /\ log' = log
    BY <1>1 DEF Refreshed, incident
  <2>2. Comes(h, "answer")
    BY <1>0, <1>1, Went DEF Refreshed, Go
  <2>3. /\ in'[h].pc = "answer" /\ in'[h].rep = in[h].rep /\ in[h].rep \in Reports
        /\ Kept(in[h].rep) /\ Contained(in[h].rep)
    BY <1>0, <2>1, <2>2 DEF Comes, HandlerInv
  <2>4. HandlerInv(h)'
    BY <2>1, <2>3 DEF HandlerInv, Kept, Contained, Within, Doc, SeqNo
  <2> QED
    BY <1>0, <2>1, <2>2, <2>4, QuietKeeps DEF Comes, TypeOK
<1>2. CASE Answer(h)
  <2>1. /\ UNCHANGED <<register, incident, workbench, arrivals>> /\ answered' = answered \cup {in[h].rep}
        /\ in[h].pc = "answer" /\ Stops(h)
    BY <1>0, <1>2, Stopped DEF Answer
  <2>2. in[h].rep \in Reports /\ Kept(in[h].rep) /\ Contained(in[h].rep)
    BY <1>0, <2>1 DEF HandlerInv
  <2> QED
    BY <1>0, <2>1, <2>2, StopKeeps
<1>3. CASE Crash(h)
  <2>1. UNCHANGED <<register, incident, workbench, arrivals>> /\ answered' = answered /\ Stops(h)
    BY <1>0, <1>3, Stopped DEF Crash
  <2> QED
    BY <1>0, <2>1, StopKeeps
<1> QED
  BY <1>1, <1>2, <1>3

-----------------------------------------------------------------------------
(* What becomes of a process that serves a change.                         *)

OtherOperators(o) == \A q \in Operators : q # o => op'[q] = op[q]

LEMMA OperatorType == TypeOK => op \in [Operators -> OperatorState]
  BY DEF TypeOK

LEMMA OperatorFields ==
  ASSUME TypeOK, NEW o \in Operators
  PROVE  /\ op[o] \in OperatorState /\ op[o].key \in Keys \cup {Nobody}
         /\ op[o].change \in Changes /\ op[o].rev \in Nat /\ op[o].seq \in Nat
<1>1. op[o] \in OperatorState
  BY OperatorType
<1> QED
  BY <1>1 DEF OperatorState

LEMMA OperatorMoved ==
  ASSUME TypeOK, NEW o \in Operators, NEW x \in OperatorState, op' = [op EXCEPT ![o] = x]
  PROVE  op' \in [Operators -> OperatorState] /\ op'[o] = x /\ OtherOperators(o)
  BY OperatorType DEF OtherOperators

LEMMA NoOneType == NoOne \in OperatorState /\ NoOne.pc = "idle" /\ NoOne.key = Nobody
  BY DEF NoOne, OperatorState, Changes

\* It is at step p with the same request; it has returned.
Proceeds(o, p) ==
  /\ op' \in [Operators -> OperatorState] /\ OtherOperators(o)
  /\ op'[o].pc = p /\ op'[o].key = op[o].key /\ op'[o].change = op[o].change
  /\ op'[o].rev = op[o].rev
Leaves(o) == op' \in [Operators -> OperatorState] /\ OtherOperators(o) /\ op'[o].pc = "idle"

LEMMA Returned ==
  ASSUME TypeOK, NEW o \in Operators, Return(o)
  PROVE  Leaves(o)
  BY OperatorMoved, NoOneType DEF Leaves, Return

LEMMA Stepped ==
  ASSUME TypeOK, NEW o \in Operators, NEW p \in {"read", "append"}, Step(o, p)
  PROVE  Proceeds(o, p) /\ op'[o].seq = op[o].seq
<1> DEFINE x == [op[o] EXCEPT !.pc = p]
<1>1. op[o] \in OperatorState
  BY OperatorFields
<1>2. /\ x \in OperatorState /\ x.pc = p /\ x.key = op[o].key /\ x.change = op[o].change
      /\ x.rev = op[o].rev /\ x.seq = op[o].seq
  BY <1>1 DEF OperatorState
<1>3. op' = [op EXCEPT ![o] = x]
  BY OperatorType DEF Step
<1> HIDE DEF x
<1> QED
  BY <1>2, <1>3, OperatorMoved DEF Proceeds

LEMMA SteppedWith ==
  ASSUME TypeOK, NEW o \in Operators, NEW p \in {"append", "record", "update"}, NEW n \in Nat,
         op' = [op EXCEPT ![o].pc = p, ![o].seq = n]
  PROVE  Proceeds(o, p) /\ op'[o].seq = n
<1> DEFINE x == [op[o] EXCEPT !.pc = p, !.seq = n]
<1>1. op[o] \in OperatorState
  BY OperatorFields
<1>2. /\ x \in OperatorState /\ x.pc = p /\ x.key = op[o].key /\ x.change = op[o].change
      /\ x.rev = op[o].rev /\ x.seq = n
  BY <1>1 DEF OperatorState
<1>3. op' = [op EXCEPT ![o] = x]
  BY OperatorType
<1> HIDE DEF x
<1> QED
  BY <1>2, <1>3, OperatorMoved DEF Proceeds

LEMMA JudgedFit ==
  ASSUME TypeOK, NEW o \in Operators, NEW n \in Nat, n = SeqNo, Read(o),
         RevisionIsCurrent(o) /\ Legal(Doc(SeqNo), op[o].change)
  PROVE  /\ op'[o].seq = n
         /\ Proceeds(o, IF op[o].change = "comment" THEN "record" ELSE "update")
<1> DEFINE p == IF op[o].change = "comment" THEN "record" ELSE "update"
           x == [op[o] EXCEPT !.seq = n, !.pc = p]
<1>1. op[o] \in OperatorState /\ p \in {"record", "update"}
  BY OperatorFields
<1>2. op' = [op EXCEPT ![o] = x]
  BY OperatorType DEF Read
<1> HIDE DEF p
<1>3. /\ x \in OperatorState /\ x.pc = p /\ x.key = op[o].key /\ x.change = op[o].change
      /\ x.rev = op[o].rev /\ x.seq = n
  BY <1>1 DEF OperatorState
<1> HIDE DEF x
<1>4. Proceeds(o, p) /\ op'[o].seq = n
  BY <1>2, <1>3, OperatorMoved DEF Proceeds
<1> QED
  BY <1>4 DEF p

LEMMA Asked ==
  ASSUME TypeOK, NEW o \in Operators, NEW k \in Keys, NEW n \in 1..SeqNo, Ask(o, k, n)
  PROVE  /\ op' \in [Operators -> OperatorState] /\ OtherOperators(o)
         /\ op'[o].pc = "look" /\ op'[o].key = k /\ op'[o].change = ChangeOf[k] /\ op'[o].rev = n
<1> DEFINE c == ChangeOf[k]
           x == [pc |-> "look", key |-> k, change |-> c, rev |-> n, seq |-> 0]
<1>1. c \in Changes /\ n \in Nat
  BY IngestAssumption DEF TypeOK, SeqNo
<1>2. op' = [op EXCEPT ![o] = x]
  BY DEF Ask
<1> HIDE DEF c
<1>3. x \in OperatorState /\ x.pc = "look" /\ x.key = k /\ x.change = c /\ x.rev = n
  BY <1>1 DEF OperatorState
<1> HIDE DEF x
<1> QED
  BY <1>2, <1>3, OperatorMoved DEF c

LEMMA AskedDirectly ==
  ASSUME TypeOK, NEW o \in Operators, NEW c \in Direct, AskDirectly(o, c)
  PROVE  /\ op' \in [Operators -> OperatorState] /\ OtherOperators(o)
         /\ op'[o].pc = "read" /\ op'[o].key = Nobody /\ op'[o].change = c
<1> DEFINE x == [NoOne EXCEPT !.pc = "read", !.change = c]
<1>1. c \in Changes
  BY IngestAssumption DEF Changes
<1>2. op' = [op EXCEPT ![o] = x]
  BY DEF AskDirectly
<1>3. x \in OperatorState /\ x.pc = "read" /\ x.key = Nobody /\ x.change = c
  BY <1>1, NoOneType DEF OperatorState
<1> HIDE DEF x
<1> QED
  BY <1>2, <1>3, OperatorMoved

-----------------------------------------------------------------------------
(* The steps of the workbench.                                             *)

LEMMA OperatorKeeps ==
  ASSUME IInv, NEW o \in Operators, OpsGrow, IncidentGrows, LogInv', log' \in Seq(Version),
         shown' = shown, op' \in [Operators -> OperatorState], OtherOperators(o), OperatorInv(o)',
         ops' \in [Keys -> [rev: Nat, at: Nat]], events' \in [Keys -> Nat],
         requests' \in 0..MaxRequests, \A k \in Keys : RecordInv(k)', UNCHANGED ingest
  PROVE  IInv'
<1>0. TypeOK /\ LogInv /\ LogGrows /\ UNCHANGED <<register, in, answered, arrivals>> /\ RegisterGrows
  BY DEF IInv, IncidentGrows, ingest, RegisterGrows
<1>1. TypeOK'
  <2>1. shown' \in 0..SeqNo'
    BY <1>0 DEF TypeOK, LogGrows
  <2> QED
    BY <1>0, <2>1 DEF TypeOK
<1>2. \A h \in Handlers : HandlerInv(h)'
  BY <1>0, HandlerStays DEF IInv
<1>3. \A r \in answered' : Contained(r)' /\ Kept(r)'
  <2>1. \A r \in answered : r \in Reports /\ Contained(r) /\ Kept(r)
    BY <1>0 DEF IInv, TypeOK
  <2> QED
    BY <1>0, <2>1, ContainedStays, KeptStays
<1>4. \A q \in Operators : OperatorInv(q)'
  BY <1>0, OperatorStays DEF IInv, OtherOperators
<1> QED
  BY <1>1, <1>2, <1>3, <1>4 DEF IInv

\* A step that changes the process alone.
LEMMA AskingKeeps ==
  ASSUME IInv, NEW o \in Operators, UNCHANGED <<ops, events, incident, ingest>>,
         op' \in [Operators -> OperatorState], OtherOperators(o), OperatorInv(o)',
         requests' \in 0..MaxRequests
  PROVE  IInv'
<1>1. TypeOK /\ LogInv /\ log' = log /\ shown' = shown /\ ops' = ops /\ events' = events
      /\ UNCHANGED ingest
  BY DEF IInv, incident
<1>2. IncidentGrows /\ LogGrows /\ LogInv' /\ OpsGrow
  BY <1>1, LogSame, LogInvSame DEF OpsGrow, IncidentGrows
<1>3. \A k \in Keys : RecordInv(k)'
  BY <1>1, <1>2, RecordStays DEF IInv
<1>4. /\ log' \in Seq(Version) /\ ops' \in [Keys -> [rev: Nat, at: Nat]] /\ events' \in [Keys -> Nat]
  BY <1>1 DEF TypeOK
<1> QED
  BY <1>1, <1>2, <1>3, <1>4, OperatorKeeps

LEMMA LeavingKeeps ==
  ASSUME IInv, NEW o \in Operators, UNCHANGED <<ops, events, requests, incident, ingest>>, Leaves(o)
  PROVE  IInv'
<1>1. OperatorInv(o)' /\ requests' \in 0..MaxRequests
  BY DEF Leaves, OperatorInv, IInv, TypeOK
<1> QED
  BY <1>1, AskingKeeps DEF Leaves

LEMMA AskIInv ==
  ASSUME IInv, NEW o \in Operators, NEW k \in Keys, NEW n \in 1..SeqNo, Ask(o, k, n)
  PROVE  IInv'
<1>0. TypeOK /\ UNCHANGED <<ops, events, incident, ingest>> /\ log' = log
  BY DEF IInv, Ask, incident
<1>1. /\ op' \in [Operators -> OperatorState] /\ OtherOperators(o)
      /\ op'[o].pc = "look" /\ op'[o].key = k /\ op'[o].change = ChangeOf[k] /\ op'[o].rev = n
  BY <1>0, Asked
<1>2. SeqNo' # 0 /\ n # 0
  BY <1>0 DEF TypeOK, SeqNo
<1>3. OperatorInv(o)'
  BY <1>1, <1>2 DEF OperatorInv
<1>4. requests' \in 0..MaxRequests
  BY <1>0, IngestAssumption DEF Ask, TypeOK
<1> QED
  BY <1>0, <1>1, <1>3, <1>4, AskingKeeps

LEMMA AskDirectlyIInv ==
  ASSUME IInv, NEW o \in Operators, NEW c \in Direct, AskDirectly(o, c)
  PROVE  IInv'
<1>0. TypeOK /\ UNCHANGED <<ops, events, incident, ingest>> /\ log' = log /\ SeqNo # 0
  BY DEF IInv, AskDirectly, incident
<1>1. /\ op' \in [Operators -> OperatorState] /\ OtherOperators(o)
      /\ op'[o].pc = "read" /\ op'[o].key = Nobody /\ op'[o].change = c
  BY <1>0, AskedDirectly
<1>2. SeqNo' # 0 /\ Nobody \notin Keys /\ c # "comment"
  BY <1>0, IngestAssumption DEF SeqNo, States
<1>3. OperatorInv(o)'
  BY <1>1, <1>2 DEF OperatorInv
<1>4. requests' \in 0..MaxRequests
  BY <1>0, IngestAssumption DEF AskDirectly, TypeOK
<1> QED
  BY <1>0, <1>1, <1>3, <1>4, AskingKeeps

LEMMA LookUpIInv ==
  ASSUME IInv, NEW o \in Operators, LookUp(o)
  PROVE  IInv'
<1>0. /\ TypeOK /\ OperatorInv(o) /\ UNCHANGED <<ops, events, requests, incident, ingest>>
      /\ log' = log /\ op[o].pc = "look" /\ requests' \in 0..MaxRequests
  BY DEF IInv, LookUp, TypeOK, incident
<1>1. PICK k \in Keys : k = op[o].key
  BY <1>0 DEF OperatorInv
<1>2. SeqNo' # 0 /\ op[o].change = ChangeOf[k] /\ op[o].rev # 0
  BY <1>0, <1>1 DEF OperatorInv, SeqNo
<1>3. CASE ops[k].rev = 0 /\ Step(o, "read")
  <2>1. Proceeds(o, "read")
    BY <1>0, <1>3, Stepped
  <2>2. op'[o].pc = "read" /\ op'[o].key = k /\ op'[o].change = ChangeOf[k] /\ op'[o].rev # 0
    BY <1>1, <1>2, <2>1 DEF Proceeds
  <2>3. OperatorInv(o)'
    BY <1>2, <2>2 DEF OperatorInv
  <2> QED
    BY <1>0, <2>1, <2>3, AskingKeeps DEF Proceeds
<1>4. CASE Return(o)
  BY <1>0, <1>4, Returned, LeavingKeeps
<1>5. CASE ops[k].rev # 0 /\ op' = [op EXCEPT ![o].pc = "append", ![o].seq = ops[k].at]
  <2>1. PICK n \in Nat : n = ops[k].at
    BY <1>0 DEF TypeOK
  <2>2. Proceeds(o, "append") /\ op'[o].seq = n
    BY <1>0, <1>5, <2>1, SteppedWith
  <2>3. op'[o].pc = "append" /\ op'[o].key = k /\ op'[o].change = ChangeOf[k] /\ op'[o].rev # 0
    BY <1>1, <1>2, <2>2 DEF Proceeds
  <2>4. OperatorInv(o)'
    BY <1>0, <1>2, <1>5, <2>1, <2>2, <2>3 DEF OperatorInv
  <2> QED
    BY <1>0, <2>2, <2>4, AskingKeeps DEF Proceeds
<1> QED
  BY <1>1, <1>3, <1>4, <1>5 DEF LookUp

\* The change is judged on the version that is current.
LEMMA ReadIInv ==
  ASSUME IInv, NEW o \in Operators, Read(o)
  PROVE  IInv'
<1>0. /\ TypeOK /\ OperatorInv(o) /\ UNCHANGED <<ops, events, requests, incident, ingest>>
      /\ log' = log /\ op[o].pc = "read" /\ requests' \in 0..MaxRequests
  BY DEF IInv, Read, TypeOK, incident
<1>1. CASE RevisionIsCurrent(o) /\ Legal(Doc(SeqNo), op[o].change)
  <2>1. PICK n \in Nat : n = SeqNo
    BY <1>0 DEF TypeOK, SeqNo
  <2>2. /\ op'[o].seq = n
        /\ Proceeds(o, IF op[o].change = "comment" THEN "record" ELSE "update")
    BY <1>0, <1>1, <2>1, JudgedFit
  <2>3. PICK k : k = op[o].key
    OBVIOUS
  <2>4. PICK c : c = op[o].change
    OBVIOUS
  <2>5. /\ n # 0 /\ SeqNo' = n /\ n \in 1..n /\ (k \in Keys => c = ChangeOf[k] /\ op[o].rev = n)
        /\ (k \notin Keys => c # "comment")
    <3>1. k \in Keys => op[o].rev = n
      BY <1>1, <2>1, <2>3, IngestAssumption DEF RevisionIsCurrent
    <3> QED
      BY <1>0, <2>1, <2>3, <2>4, <3>1 DEF OperatorInv, SeqNo
  <2>6. /\ op' \in [Operators -> OperatorState] /\ OtherOperators(o)
        /\ op'[o].pc = (IF c = "comment" THEN "record" ELSE "update")
        /\ op'[o].key = k /\ op'[o].change = c /\ op'[o].rev = op[o].rev
    BY <2>2, <2>3, <2>4 DEF Proceeds
  <2>7. CASE c = "comment"
    <3>1. op'[o].pc = "record" /\ k \in Keys /\ ChangeOf[k] = "comment"
      BY <2>5, <2>6, <2>7
    <3>2. OperatorInv(o)'
      BY <2>2, <2>5, <2>6, <3>1 DEF OperatorInv, After, Wrote
    <3> QED
      BY <1>0, <2>6, <3>2, AskingKeeps
  <2>8. CASE c # "comment"
    <3>1. op'[o].pc = "update" /\ Legal(Doc(n), c)'
      BY <1>0, <1>1, <2>1, <2>4, <2>6, <2>8 DEF Legal, Doc
    <3>2. OperatorInv(o)'
      BY <2>2, <2>5, <2>6, <2>8, <3>1 DEF OperatorInv
    <3> QED
      BY <1>0, <2>6, <3>2, AskingKeeps
  <2> QED
    BY <2>7, <2>8
<1>2. CASE ~(RevisionIsCurrent(o) /\ Legal(Doc(SeqNo), op[o].change))
  <2>1. Return(o)
    BY <1>2 DEF Read
  <2> QED
    BY <1>0, <2>1, Returned, LeavingKeeps
<1> QED
  BY <1>1, <1>2

\* The write follows the version judged: nobody's came in between.
LEMMA UpdateIInv ==
  ASSUME IInv, NEW o \in Operators, Update(o)
  PROVE  IInv'
<1>0. /\ TypeOK /\ LogInv /\ OperatorInv(o) /\ UNCHANGED <<shown, ops, events, requests, ingest>>
      /\ op[o].pc = "update" /\ requests' \in 0..MaxRequests
  BY DEF IInv, Update, TypeOK
<1>1. CASE Unraced(op[o].seq)
  <2>1. PICK k \in Keys \cup {Nobody} : k = op[o].key
    BY <1>0, OperatorFields
  <2>2. PICK c \in Changes \ {"comment"} : c = op[o].change
    BY <1>0, OperatorFields DEF OperatorInv
  <2>3. SeqNo # 0 /\ Legal(Doc(SeqNo), c) /\ (k \in Keys => op[o].rev = SeqNo /\ c = ChangeOf[k] /\ op[o].rev # 0)
    BY <1>0, <1>1, <2>1, <2>2 DEF OperatorInv, Unraced
  <2>4. Write(k, Changed(Doc(SeqNo), c))
    BY <1>1, <2>1, <2>2 DEF Update, Unraced
  <2>5. /\ LogInv' /\ IncidentGrows /\ SeqNo' = SeqNo + 1 /\ SeqNo \in Nat
        /\ log' \in Seq(Version) /\ log'[SeqNo + 1].by = k
    BY <1>0, <2>3, <2>4, ChangeLog
  <2>6. PICK n \in Nat : n = SeqNo + 1
    BY <2>5
  <2>7. op' \in [Operators -> OperatorState] /\ OtherOperators(o) /\ OperatorInv(o)'
    <3>1. CASE k = Nobody
      <4>1. Leaves(o)
        BY <1>0, <1>1, <2>1, <3>1, Returned DEF Update
      <4> QED
        BY <4>1 DEF Leaves, OperatorInv
    <3>2. CASE k # Nobody
      <4>1. op' = [op EXCEPT ![o].pc = "record", ![o].seq = n]
        BY <1>1, <2>1, <2>6, <3>2 DEF Update
      <4>2. Proceeds(o, "record") /\ op'[o].seq = n
        BY <1>0, <4>1, SteppedWith
      <4>3. /\ op'[o].pc = "record" /\ op'[o].key = k /\ op'[o].change = c /\ k \in Keys
            /\ op'[o].rev = SeqNo /\ c = ChangeOf[k] /\ op'[o].rev # 0
        BY <2>1, <2>2, <2>3, <3>2, <4>2 DEF Proceeds
      <4>4. SeqNo' # 0 /\ n \in 1..SeqNo' /\ log'[n].by = k /\ n = op'[o].rev + 1
        BY <2>5, <2>6, <4>3
      <4>5. OperatorInv(o)'
        BY <4>2, <4>3, <4>4 DEF OperatorInv, After, Wrote
      <4> QED
        BY <4>2, <4>5 DEF Proceeds
    <3> QED
      BY <3>1, <3>2
  <2>8. LogGrows /\ OpsGrow
    BY <1>0, <2>5 DEF IncidentGrows, OpsGrow
  <2>9. \A j \in Keys : RecordInv(j)'
    BY <1>0, <2>8, RecordStays DEF IInv
  <2>10. ops' \in [Keys -> [rev: Nat, at: Nat]] /\ events' \in [Keys -> Nat]
    BY <1>0 DEF TypeOK
  <2> QED
    BY <1>0, <2>5, <2>7, <2>8, <2>9, <2>10, OperatorKeeps
<1>2. CASE ~Unraced(op[o].seq)
  <2>1. Return(o) /\ log' = log
    BY <1>2 DEF Update
  <2>2. UNCHANGED incident
    BY <1>0, <2>1 DEF incident
  <2> QED
    BY <1>0, <2>1, <2>2, Returned, LeavingKeeps
<1> QED
  BY <1>1, <1>2

\* A record stands for one write only, whoever makes it.
LEMMA RecordIInv ==
  ASSUME IInv, NEW o \in Operators, Record(o)
  PROVE  IInv'
<1>0. /\ TypeOK /\ LogInv /\ OperatorInv(o) /\ UNCHANGED <<events, requests, incident, ingest>>
      /\ log' = log /\ shown' = shown /\ op[o].pc = "record" /\ requests' \in 0..MaxRequests
  BY DEF IInv, Record, TypeOK, incident
<1>1. PICK k \in Keys : k = op[o].key
  BY <1>0 DEF OperatorInv
<1>2. PICK n \in Nat, m \in Nat : n = op[o].seq /\ m = op[o].rev
  BY <1>0, OperatorFields
<1>3. /\ m # 0 /\ n = After(k, m) /\ Wrote(k, n) /\ op[o].change = ChangeOf[k] /\ SeqNo' # 0
      /\ IncidentGrows /\ LogGrows /\ LogInv'
  BY <1>0, <1>1, <1>2, LogSame, LogInvSame DEF OperatorInv, IncidentGrows, SeqNo
<1>4. CASE ops[k].rev = 0 /\ ops' = [ops EXCEPT ![k] = [rev |-> m, at |-> n]] /\ Step(o, "append")
  <2>1. Proceeds(o, "append") /\ op'[o].seq = n
    BY <1>0, <1>2, <1>4, Stepped
  <2>2. /\ op'[o].pc = "append" /\ op'[o].key = k /\ op'[o].change = ChangeOf[k] /\ op'[o].rev = m
    BY <1>1, <1>2, <1>3, <2>1 DEF Proceeds
  <2> DEFINE x == [rev |-> m, at |-> n]
  <2>3. x \in [rev: Nat, at: Nat] /\ x.rev = m /\ x.at = n
    OBVIOUS
  <2>4. ops \in [Keys -> [rev: Nat, at: Nat]] /\ events \in [Keys -> Nat] /\ ops' = [ops EXCEPT ![k] = x]
    BY <1>0, <1>4 DEF TypeOK
  <2> HIDE DEF x
  <2>5. /\ ops' \in [Keys -> [rev: Nat, at: Nat]] /\ ops'[k] = x
        /\ \A j \in Keys : j # k => ops'[j] = ops[j]
    BY <2>3, <2>4
  <2>6. OpsGrow
    BY <1>4, <2>5 DEF OpsGrow
  <2>7. OperatorInv(o)'
    BY <1>3, <2>1, <2>2, <2>3, <2>5 DEF OperatorInv
  <2>8. Wrote(k, n)'
    BY <1>3, WroteStays
  <2>9. \A j \in Keys : RecordInv(j)'
    <3>1. RecordInv(k)'
      <4>1. events[k] = 0
        BY <1>4 DEF IInv, RecordInv
      <4> QED
        BY <1>0, <1>3, <2>3, <2>5, <2>8, <4>1 DEF RecordInv, After, Wrote
    <3>2. ASSUME NEW j \in Keys, j # k PROVE RecordInv(j)'
      BY <1>0, <1>3, <2>5, <3>2, RecordStays DEF IInv
    <3> QED
      BY <3>1, <3>2
  <2> QED
    BY <1>0, <1>3, <2>1, <2>4, <2>5, <2>6, <2>7, <2>9, OperatorKeeps DEF Proceeds, TypeOK
<1>5. CASE ops[k].rev # 0 /\ ops' = ops /\ ops[k].rev = m /\ Step(o, "append")
  <2>1. Proceeds(o, "append") /\ op'[o].seq = n
    BY <1>0, <1>2, <1>5, Stepped
  <2>2. /\ op'[o].pc = "append" /\ op'[o].key = k /\ op'[o].change = ChangeOf[k] /\ op'[o].rev = m
    BY <1>1, <1>2, <1>3, <2>1 DEF Proceeds
  <2>3. ops[k].at = n
    BY <1>3, <1>5 DEF IInv, RecordInv
  <2>4. OperatorInv(o)'
    BY <1>3, <1>5, <2>1, <2>2, <2>3 DEF OperatorInv
  <2> QED
    BY <1>0, <1>5, <2>1, <2>4, AskingKeeps DEF Proceeds
<1>6. CASE ops' = ops /\ Return(o)
  BY <1>0, <1>6, Returned, LeavingKeeps
<1> QED
  BY <1>1, <1>2, <1>4, <1>5, <1>6 DEF Record

LEMMA AppendEventIInv ==
  ASSUME IInv, NEW o \in Operators, AppendEvent(o)
  PROVE  IInv'
<1>0. /\ TypeOK /\ LogInv /\ OperatorInv(o) /\ UNCHANGED <<ops, requests, incident, ingest>>
      /\ log' = log /\ shown' = shown /\ op[o].pc = "append" /\ requests' \in 0..MaxRequests
      /\ log' \in Seq(Version) /\ ops' \in [Keys -> [rev: Nat, at: Nat]]
  BY DEF IInv, AppendEvent, TypeOK, incident
<1>1. PICK k \in Keys : k = op[o].key
  BY <1>0 DEF OperatorInv
<1>2. PICK n \in Nat : n = op[o].seq
  BY <1>0, OperatorFields
<1>3. /\ ops[k].rev # 0 /\ n = ops[k].at /\ IncidentGrows /\ LogGrows /\ LogInv' /\ OpsGrow
  BY <1>0, <1>1, <1>2, LogSame, LogInvSame DEF OperatorInv, IncidentGrows, OpsGrow
<1>4. Leaves(o)
  BY <1>0, Returned DEF AppendEvent
<1> DEFINE x == IF events[k] = 0 THEN n ELSE events[k]
<1>5. events \in [Keys -> Nat] /\ x \in Nat /\ events' = [events EXCEPT ![k] = x]
  BY <1>0, <1>1, <1>2 DEF TypeOK, AppendEvent
<1>6. x = ops[k].at
  BY <1>3 DEF IInv, RecordInv
<1> HIDE DEF x
<1>7. /\ events' \in [Keys -> Nat] /\ events'[k] = x
      /\ \A j \in Keys : j # k => events'[j] = events[j]
  BY <1>5
<1>8. RecordInv(k)'
  BY <1>0, <1>3, <1>6, <1>7 DEF IInv, RecordInv, Wrote, After, SeqNo
<1>9. ASSUME NEW j \in Keys, j # k PROVE RecordInv(j)'
  BY <1>0, <1>3, <1>7, <1>9, RecordStays DEF IInv
<1>10. OperatorInv(o)'
  BY <1>4 DEF Leaves, OperatorInv
<1> QED
  BY <1>0, <1>3, <1>4, <1>7, <1>8, <1>9, <1>10, OperatorKeeps DEF Leaves

LEMMA CrashOperatorIInv ==
  ASSUME IInv, NEW o \in Operators, CrashOperator(o)
  PROVE  IInv'
<1>1. TypeOK /\ UNCHANGED <<ops, events, requests, incident, ingest>> /\ Return(o)
  BY DEF IInv, CrashOperator
<1> QED
  BY <1>1, Returned, LeavingKeeps

\* A step that changes no document, register or process.
LEMMA StillKeeps ==
  ASSUME IInv, UNCHANGED <<log, workbench, ingest>>, shown' \in 0..SeqNo
  PROVE  IInv'
<1>0. /\ TypeOK /\ LogInv /\ UNCHANGED <<register, log, ops, events, in, op, answered, arrivals, requests>>
  BY DEF IInv, workbench, ingest
<1>1. IncidentGrows /\ LogGrows /\ LogInv' /\ RegisterGrows /\ OpsGrow
  BY <1>0, LogSame, LogInvSame DEF RegisterGrows, OpsGrow, IncidentGrows
<1>2. TypeOK'
  BY <1>0 DEF TypeOK, SeqNo
<1>3. \A h \in Handlers : HandlerInv(h)'
  BY <1>0, <1>1, HandlerStays DEF IInv
<1>4. \A r \in answered' : Contained(r)' /\ Kept(r)'
  <2>1. \A r \in answered : r \in Reports /\ Contained(r) /\ Kept(r)
    BY <1>0 DEF IInv, TypeOK
  <2> QED
    BY <1>0, <1>1, <2>1, ContainedStays, KeptStays
<1>5. \A o \in Operators : OperatorInv(o)'
  BY <1>0, <1>1, OperatorStays DEF IInv
<1>6. \A k \in Keys : RecordInv(k)'
  BY <1>0, <1>1, RecordStays DEF IInv
<1> QED
  BY <1>1, <1>2, <1>3, <1>4, <1>5, <1>6 DEF IInv

-----------------------------------------------------------------------------
(* The theorems.                                                           *)

LEMMA InitIInv == Init => IInv
<1> SUFFICES ASSUME Init PROVE IInv
  OBVIOUS
<1>1. SeqNo = 0 /\ log = <<>> /\ shown = 0 /\ answered = {}
  BY DEF Init, SeqNo
<1>2. TypeOK
  <2>1. register \in [Findings -> Seq(Reports)]
    BY DEF Init
  <2>2. in \in [Handlers -> HandlerState] /\ op \in [Operators -> OperatorState]
    BY IdleType, NoOneType DEF Init
  <2>3. ops \in [Keys -> [rev: Nat, at: Nat]] /\ events \in [Keys -> Nat]
    BY DEF Init
  <2>4. log \in Seq(Version) /\ shown \in 0..SeqNo
    BY <1>1
  <2>5. arrivals \in 0..MaxArrivals /\ requests \in 0..MaxRequests
    BY IngestAssumption DEF Init
  <2> QED
    BY <1>1, <2>1, <2>2, <2>3, <2>4, <2>5 DEF TypeOK
<1>3. LogInv
  <2>1. 1..SeqNo = {} /\ 2..SeqNo = {}
    BY <1>1
  <2> QED
    BY <1>1, <2>1 DEF LogInv, ProjectionIsComplete, HistoryIsLegal
<1>4. \A h \in Handlers : HandlerInv(h)
  BY IdleType DEF Init, HandlerInv
<1>5. \A o \in Operators : OperatorInv(o)
  BY NoOneType DEF Init, OperatorInv
<1>6. \A k \in Keys : RecordInv(k)
  BY DEF Init, RecordInv
<1> QED
  BY <1>1, <1>2, <1>3, <1>4, <1>5, <1>6 DEF IInv

LEMMA NextIInv ==
  ASSUME IInv, [Next]_vars
  PROVE  IInv'
<1>1. ASSUME NEW h \in Handlers, HandlerStep(h) PROVE IInv'
  <2>1. CASE \E r \in Reports : Report(h, r)
    BY <2>1, ReportIInv
  <2>2. CASE GetFinding(h)
    BY <2>2, GetFindingIInv
  <2>3. CASE SaveFinding(h)
    BY <2>3, SaveFindingIInv
  <2>4. CASE Search(h)
    BY <2>4, SearchIInv
  <2>5. CASE WriteIncident(h)
    BY <2>5, WriteIncidentIInv
  <2>6. CASE Refreshed(h) \/ Answer(h) \/ Crash(h)
    BY <2>6, AnswerIInv
  <2> QED
    BY <1>1, <2>1, <2>2, <2>3, <2>4, <2>5, <2>6 DEF HandlerStep
<1>2. ASSUME NEW o \in Operators, OperatorStep(o) PROVE IInv'
  <2>1. CASE \E k \in Keys, n \in 1..SeqNo : Ask(o, k, n)
    BY <2>1, AskIInv
  <2>2. CASE \E c \in Direct : AskDirectly(o, c)
    BY <2>2, AskDirectlyIInv
  <2>3. CASE LookUp(o)
    BY <2>3, LookUpIInv
  <2>4. CASE Read(o)
    BY <2>4, ReadIInv
  <2>5. CASE Update(o)
    BY <2>5, UpdateIInv
  <2>6. CASE Record(o)
    BY <2>6, RecordIInv
  <2>7. CASE AppendEvent(o)
    BY <2>7, AppendEventIInv
  <2>8. CASE CrashOperator(o)
    BY <2>8, CrashOperatorIInv
  <2> QED
    BY <1>2, <2>1, <2>2, <2>3, <2>4, <2>5, <2>6, <2>7, <2>8 DEF OperatorStep
<1>3. CASE Refresh
  <2>1. SeqNo \in 0..SeqNo
    BY DEF IInv, TypeOK, SeqNo
  <2> QED
    BY <1>3, <2>1, StillKeeps DEF Refresh
<1>4. CASE UNCHANGED vars
  <2>1. UNCHANGED <<log, workbench, ingest>> /\ shown' = shown
    BY <1>4 DEF vars, incident
  <2> QED
    BY <2>1, StillKeeps DEF IInv, TypeOK
<1> QED
  BY <1>1, <1>2, <1>3, <1>4 DEF Next

\* Every reachable state satisfies the inductive invariant.
THEOREM Invariance == Spec => []IInv
<1>1. IInv /\ [Next]_vars => IInv'
  BY NextIInv
<1> QED
  BY InitIInv, <1>1, PTL DEF Spec

\* The registers, the versions and the processes keep their types, whatever
\* the number of races lost (IncidentManagerService, IncidentWorkbenchService).
THEOREM IngestTypeCorrect == Spec => []TypeOK
<1>1. IInv => TypeOK
  BY DEF IInv
<1> QED
  BY <1>1, Invariance, PTL

\* The incident is the union of the reports written into it, with one
\* occurrence for each finding and the latest observation time: no
\* interleaving of ingest, replays and changes loses or doubles one.
THEOREM ProjectionsComplete == Spec => []ProjectionIsComplete
<1>1. IInv => ProjectionIsComplete
  BY DEF IInv, LogInv
<1> QED
  BY <1>1, Invariance, PTL

\* What ingest() answers is in the incident and in the stored findings for
\* good, whether it was written or only found by the search.
THEOREM AnsweredMerged == Spec => []AnsweredIsMerged
<1>1. IInv => AnsweredIsMerged
  BY DEF IInv, AnsweredIsMerged, Contained, Kept, Within
<1> QED
  BY <1>1, Invariance, PTL

\* Each change of lifecycle state follows the transition table from the
\* version before, and is an operator's: transition() judges the version
\* that update_incident replaces.
THEOREM HistoriesLegal == Spec => []HistoryIsLegal
<1>1. IInv => HistoryIsLegal
  BY DEF IInv, LogInv
<1> QED
  BY <1>1, Invariance, PTL

\* A recorded operation is the write right after the revision its client had
\* seen, and the timeline event names that write, whatever is retried.
THEOREM TimelinesTrue == Spec => []TimelineIsTrue
<1>1. ASSUME IInv PROVE TimelineIsTrue
  <2> SUFFICES ASSUME NEW k \in Keys
               PROVE  /\ ops[k].rev # 0 /\ ChangeOf[k] # "comment" =>
                           /\ ops[k].at = ops[k].rev + 1 /\ ops[k].at <= SeqNo
                           /\ log[ops[k].at].by = k
                      /\ events[k] # 0 => ops[k].rev # 0 /\ events[k] = ops[k].at
    BY DEF TimelineIsTrue
  <2> QED
    BY <1>1 DEF IInv, RecordInv, Wrote, After
<1> QED
  BY <1>1, Invariance, PTL

-----------------------------------------------------------------------------
(* The correlation: its incidents and policy, its documents and processes. *)
(* The API processes are those that ingest; the bound on arrivals has the  *)
(* same name in both models.                                               *)

CONSTANTS Related, SeenAt, Workers, Elevated, Flooding, Hysteresis, Observation,
          MaxRetries, Batch, MaxReplays, MaxFaults
VARIABLES revs, shownGroups, shownDecisions, deferred, pr, handed, replays, faults

Corr == INSTANCE IncidentCorrelation WITH shown <- shownDecisions, arrivals <- handed

\* The instance has its own copy of what FiniteSets defines.
LEMMA SameFinite ==
  ASSUME NEW S
  PROVE  Corr!IsFiniteSet(S) = IsFiniteSet(S)
  BY DEF Corr!IsFiniteSet, IsFiniteSet
LEMMA SameCardinality ==
  ASSUME NEW S
  PROVE  Corr!Cardinality(S) = Cardinality(S)
  BY DEF Corr!Cardinality, Cardinality

\* The documents are those of the instance, and so is what must hold of them.
LEMMA SameProperties ==
  /\ Corr!MembersCountOnce <=> MembersCountOnce
  /\ Corr!CompleteIsRecorded <=> CompleteIsRecorded
  /\ Corr!SuppressedOnce <=> SuppressedOnce
<1>1. Corr!MembersCountOnce <=> MembersCountOnce
  BY SameCardinality DEF Corr!MembersCountOnce, MembersCountOnce, Corr!Current, Current
<1>2. Corr!CompleteIsRecorded <=> CompleteIsRecorded
  BY DEF Corr!CompleteIsRecorded, CompleteIsRecorded, Corr!InWindow, InWindow, Corr!WindowAt, WindowAt,
     Corr!NoWindow, NoWindow, Corr!Actions, Actions
<1>3. Corr!SuppressedOnce <=> SuppressedOnce
  BY SameCardinality DEF Corr!SuppressedOnce, SuppressedOnce, Corr!WindowAt, WindowAt,
     Corr!NoWindow, NoWindow
<1> QED
  BY <1>1, <1>2, <1>3

\* What IncidentCorrelation assumes of its constants.
LEMMA Constants ==
  ASSUME Corr!CorrelationAssumption
  PROVE  /\ Incidents \subseteq Nat \ {0} /\ IsFiniteSet(Incidents)
         /\ SeenAt \in [Incidents -> [Corr!Revisions -> Nat]]
         /\ SampleSize \in Nat \ {0} /\ MaxRetries \in Nat \ {0}
         /\ MaxRevision \in Nat /\ MaxArrivals \in Nat
         /\ MaxReplays \in Nat /\ MaxFaults \in Nat
  BY SameFinite DEF Corr!CorrelationAssumption

\* The events that a group's window has, or has lost with its first version.
Held(g) == {e \in Corr!FloodEvents : Corr!InWindow(g, e)}
Placed == {"append", "attach", "flood", "window", "transition", "notify"}
Decided == Placed \ {"append"}

\* A process that evaluates an incident, with the fields x: the incident
\* exists, the group it has selected has the version it has read, and what its
\* earlier steps have written is there.
Settled(x) ==
  /\ x.pc # "idle" => x.inc \in Incidents /\ x.rev # 0 /\ revs[x.inc] # 0
  /\ x.pc = "create" => x.grp = x.inc
  /\ x.pc \in Placed => x.grp \in Incidents
  /\ x.pc \in {"append", "attach"} => x.ver \in 1..Corr!Current(x.grp)
  /\ x.pc \in Decided => <<x.inc, x.rev, x.grp>> \in decisions
  /\ x.pc \in {"transition", "notify"} => <<x.inc, x.rev>> \in Held(x.grp)

\* A decision names a group that exists, a deferred evaluation an incident.
NamesInv ==
  /\ \A d \in decisions : Corr!Current(d[3]) # 0
  /\ \A k \in 1..Len(deferred) : revs[deferred[k][1]] # 0

\* The version that created a window has one event: what replaces it can lose
\* no other.
CreatedInv ==
  \A g \in Incidents :
    Len(windows[g]) # 0 => \E e \in Corr!FloodEvents : windows[g][1].events = {e}
WindowsInv == CreatedInv /\ Corr!SuppressedOnce

BoundsOK == handed \in 0..MaxArrivals /\ replays \in 0..MaxReplays /\ faults \in 0..MaxFaults

CorrInv ==
  /\ Corr!TypeOK /\ NamesInv
  /\ Corr!MembersCountOnce /\ Corr!CompleteIsRecorded /\ WindowsInv
  /\ \A p \in Corr!Procs : Settled(pr[p])

-----------------------------------------------------------------------------
(* Documents and events only grow, and a step is one process's.            *)

CorrGrows ==
  /\ \A g \in Incidents : Corr!Current(g) <= Corr!Current(g)' /\ Held(g) \subseteq Held(g)'
  /\ \A i \in Incidents : revs[i] # 0 => revs'[i] # 0
  /\ decisions \subseteq decisions' /\ stream \subseteq stream'

LEMMA IdleRun ==
  ASSUME Corr!CorrelationAssumption
  PROVE  Corr!Idle \in Corr!Run
  BY Constants DEF Corr!Idle, Corr!Run, Corr!Steps, Corr!FloodStates, Corr!Actions

LEMMA RunFields ==
  ASSUME NEW x \in Corr!Run
  PROVE  /\ x.pc \in Corr!Steps /\ x.inc \in Incidents \cup {0} /\ x.rev \in 0..MaxRevision
         /\ x.grp \in Incidents \cup {0} /\ x.ver \in Nat /\ x.lost \in 0..(MaxRetries - 1)
         /\ x.win \in Nat /\ x.act \in Corr!Actions
         /\ x.shift \in Corr!FloodStates \X Corr!FloodStates
  BY DEF Corr!Run

LEMMA SettledStays ==
  ASSUME NEW x \in Corr!Run, Settled(x), Corr!StoreOK, Corr!StoreOK', CorrGrows
  PROVE  Settled(x)'
<1>1. x.inc \in Incidents \cup {0} /\ x.ver \in Nat
  BY RunFields
<1>2. \A g \in Incidents : Corr!Current(g) \in Nat /\ Corr!Current(g)' \in Nat
  BY DEF Corr!StoreOK, Corr!Current
<1> QED
  BY <1>1, <1>2 DEF Settled, CorrGrows, Placed, Decided

\* A step of p that leaves it with the fields x.
LEMMA CorrStep ==
  ASSUME CorrInv, NEW p \in Corr!Procs, NEW x \in Corr!Run, pr' = [pr EXCEPT ![p] = x],
         Corr!StoreOK', BoundsOK',
         NamesInv', Corr!MembersCountOnce', Corr!CompleteIsRecorded', WindowsInv',
         CorrGrows, Settled(x)'
  PROVE  CorrInv'
<1>1. pr' \in [Corr!Procs -> Corr!Run] /\ pr'[p] = x
  BY DEF CorrInv, Corr!TypeOK
<1>2. ASSUME NEW q \in Corr!Procs
      PROVE  Settled(pr[q])'
  <2>1. CASE q = p
    BY <1>1, <2>1 DEF Settled
  <2>2. CASE q # p
    <3>1. pr'[q] = pr[q] /\ pr[q] \in Corr!Run
      BY <2>2 DEF CorrInv, Corr!TypeOK
    <3>2. PICK y \in Corr!Run : y = pr[q]
      BY <3>1
    <3>3. Settled(y)'
      BY <3>2, SettledStays DEF CorrInv, Corr!TypeOK
    <3> QED
      BY <3>1, <3>2, <3>3 DEF Settled
  <2> QED
    BY <2>1, <2>2
<1>3. \A q \in Corr!Procs : pr'[q].pc # "idle" => pr'[q].inc \in Incidents /\ pr'[q].rev # 0
  BY <1>2 DEF Settled
<1> QED
  BY <1>1, <1>2, <1>3 DEF CorrInv, Corr!TypeOK, BoundsOK

\* What a step keeps that does not write the documents in question.
LEMMA StillNamed ==
  ASSUME CorrInv, CorrGrows, Corr!StoreOK', decisions' = decisions, deferred' = deferred
  PROVE  NamesInv'
<1>1. \A d \in decisions : d[3] \in Incidents
  BY DEF CorrInv, Corr!TypeOK, Corr!StoreOK, Corr!Decisions
<1>2. \A g \in Incidents : Corr!Current(g) \in Nat /\ Corr!Current(g)' \in Nat
  BY DEF CorrInv, Corr!TypeOK, Corr!StoreOK, Corr!Current
<1>3. \A k \in 1..Len(deferred) : deferred[k][1] \in Incidents
  <2>1. deferred \in Seq(Corr!FloodEvents)
    BY DEF CorrInv, Corr!TypeOK, Corr!StoreOK
  <2>2. \A k \in 1..Len(deferred) : deferred[k] \in Corr!FloodEvents
    BY <2>1
  <2>3. \A e \in Corr!FloodEvents : e[1] \in Incidents
    BY DEF Corr!FloodEvents
  <2> QED
    BY <2>2, <2>3
<1> QED
  BY <1>1, <1>2, <1>3 DEF CorrInv, NamesInv, CorrGrows

LEMMA StillComplete ==
  ASSUME CorrInv, CorrGrows, complete' = complete
  PROVE  Corr!CompleteIsRecorded'
<1>1. \A e \in complete : e \in Corr!FloodEvents
  BY DEF CorrInv, Corr!TypeOK, Corr!StoreOK
<1>2. \A g \in Incidents, e \in complete : Corr!InWindow(g, e) => Corr!InWindow(g, e)'
  BY <1>1 DEF CorrGrows, Held
<1> QED
  BY <1>2 DEF CorrInv, Corr!CompleteIsRecorded, CorrGrows

LEMMA StillCounted ==
  ASSUME Corr!MembersCountOnce, groups' = groups
  PROVE  Corr!MembersCountOnce'
  BY DEF Corr!MembersCountOnce, Corr!Current

LEMMA StillSuppressed ==
  ASSUME WindowsInv, windows' = windows
  PROVE  WindowsInv'
  BY DEF WindowsInv, CreatedInv, Corr!SuppressedOnce, Corr!WindowAt

\* A step that writes no document but the incident.
LEMMA CorrLocal ==
  ASSUME CorrInv, NEW p \in Corr!Procs, NEW x \in Corr!Run, pr' = [pr EXCEPT ![p] = x],
         UNCHANGED <<Corr!grouping, Corr!flood, deferred, complete>>,
         revs' \in [Incidents -> 0..MaxRevision],
         \A i \in Incidents : revs[i] # 0 => revs'[i] # 0,
         BoundsOK', Settled(x)'
  PROVE  CorrInv'
<1>1. Corr!StoreOK'
  BY DEF CorrInv, Corr!TypeOK, Corr!StoreOK, Corr!grouping, Corr!flood
<1>2. CorrGrows
  <2>1. \A g \in Incidents : Corr!Current(g) \in Nat /\ Corr!Current(g)' = Corr!Current(g) /\ Held(g)' = Held(g)
    BY DEF CorrInv, Corr!TypeOK, Corr!StoreOK, Corr!grouping, Corr!flood, Corr!Current, Held, Corr!InWindow, Corr!WindowAt
  <2> QED
    BY <2>1 DEF CorrGrows, Corr!grouping, Corr!flood
<1>3. NamesInv' /\ Corr!MembersCountOnce' /\ Corr!CompleteIsRecorded' /\ WindowsInv'
  BY <1>1, <1>2, StillNamed, StillComplete, StillCounted, StillSuppressed DEF CorrInv, Corr!grouping, Corr!flood
<1> QED
  BY <1>1, <1>2, <1>3, CorrStep

\* A process that has nothing to do is settled.
LEMMA IdleSettled == Settled(Corr!Idle)'
  BY DEF Settled, Corr!Idle, Placed, Decided

LEMMA RunOf ==
  ASSUME CorrInv, NEW p \in Corr!Procs
  PROVE  /\ pr[p] \in Corr!Run /\ Settled(pr[p])
         /\ pr \in [Corr!Procs -> Corr!Run] /\ Corr!StoreOK
         /\ BoundsOK /\ (UNCHANGED Corr!bounds => BoundsOK')
  BY DEF CorrInv, Corr!TypeOK, BoundsOK, Corr!bounds

LEMMA RaisedRun ==
  ASSUME Corr!CorrelationAssumption,
         CorrInv, NEW p \in Corr!Procs, pr[p].pc # "idle", NEW x, x = Corr!Raised(p), revs' = revs
  PROVE  x \in Corr!Run /\ Settled(x)'
<1>1. CASE p \in Handlers
  <2>1. x = [pr[p] EXCEPT !.pc = "defer"]
    BY <1>1 DEF Corr!Raised
  <2>2. x \in Corr!Run /\ x.pc = "defer" /\ x.inc = pr[p].inc /\ x.rev = pr[p].rev
    <3>1. pr[p] \in Corr!Run
      BY RunOf
    <3> QED
      BY <2>1, <3>1 DEF Corr!Run, Corr!Steps
  <2> QED
    BY <2>2, RunOf DEF Settled, Placed, Decided
<1>2. CASE p \notin Handlers
  BY <1>2, IdleRun, IdleSettled DEF Corr!Raised
<1> QED
  BY <1>1, <1>2

LEMMA IngestCorr ==
  ASSUME Corr!CorrelationAssumption,
         CorrInv, NEW h \in Handlers, NEW i \in Incidents, NEW n \in Corr!Revisions, Corr!Ingest(h, i, n)
  PROVE  CorrInv'
<1> DEFINE x == [Corr!Idle EXCEPT !.pc = "find", !.inc = i, !.rev = n]
<1>1. h \in Corr!Procs
  BY DEF Corr!Procs
<1>2. /\ x \in Corr!Run /\ x.pc = "find" /\ x.inc = i /\ x.rev = n /\ n # 0
      /\ n \in 0..MaxRevision
  <2>1. n # 0 /\ n \in 0..MaxRevision
    BY Constants DEF Corr!Revisions
  <2> QED
    BY <2>1, IdleRun DEF Corr!Run, Corr!Steps
<1>3. pr' = [pr EXCEPT ![h] = x] /\ revs' = [revs EXCEPT ![i] = n]
  BY DEF Corr!Ingest
<1> HIDE DEF x
<1>4. /\ revs' \in [Incidents -> 0..MaxRevision] /\ revs'[i] = n
      /\ \A j \in Incidents : revs[j] # 0 => revs'[j] # 0
  BY <1>1, <1>2, <1>3, RunOf DEF Corr!StoreOK
<1>5. BoundsOK'
  BY <1>1, RunOf, Constants DEF Corr!Ingest, BoundsOK
<1>6. Settled(x)'
  BY <1>2, <1>4 DEF Settled, Placed, Decided
<1> QED
  BY <1>1, <1>2, <1>3, <1>4, <1>5, <1>6, CorrLocal DEF Corr!Ingest

LEMMA ReconcileCorr ==
  ASSUME Corr!CorrelationAssumption,
         CorrInv, NEW w \in Workers, NEW e \in Corr!FloodEvents, Corr!Reconcile(w, e)
  PROVE  CorrInv'
<1> DEFINE x == [Corr!Idle EXCEPT !.pc = "find", !.inc = e[1], !.rev = revs[e[1]]]
<1>1. w \in Corr!Procs
  BY DEF Corr!Procs
<1>2. /\ e[1] \in Incidents /\ e[2] \in 0..MaxRevision
      /\ revs[e[1]] \in 0..MaxRevision /\ revs[e[1]] # 0
  <2>1. e[1] \in Incidents /\ e[2] \in 0..MaxRevision
    BY Constants DEF Corr!FloodEvents, Corr!Revisions
  <2>2. revs[e[1]] # 0
    BY DEF Corr!Reconcile, Corr!Listed, CorrInv, NamesInv
  <2> QED
    BY <1>1, <2>1, <2>2, RunOf DEF Corr!StoreOK
<1>3. x \in Corr!Run /\ x.pc = "find" /\ x.inc = e[1] /\ x.rev = revs[e[1]]
  BY <1>2, IdleRun DEF Corr!Run, Corr!Steps
<1>4. pr' = [pr EXCEPT ![w] = x]
  BY DEF Corr!Reconcile
<1> HIDE DEF x
<1>5. PICK y \in Corr!Run : y = x
  BY <1>3
<1>6. Settled(y)'
  BY <1>2, <1>3, <1>5 DEF Settled, Placed, Decided, Corr!Reconcile
<1>7. BoundsOK'
  BY <1>1, RunOf, Constants DEF Corr!Reconcile, BoundsOK
<1> QED
  BY <1>1, <1>4, <1>5, <1>6, <1>7, CorrLocal, RunOf DEF Corr!Reconcile, Corr!StoreOK

LEMMA FailCorr ==
  ASSUME Corr!CorrelationAssumption,
         CorrInv, NEW p \in Corr!Procs, Corr!Fail(p) \/ Corr!Crash(p)
  PROVE  CorrInv'
<1>1. PICK x \in Corr!Run : pr' = [pr EXCEPT ![p] = x] /\ Settled(x)'
  <2>1. CASE Corr!Fail(p)
    <3>1. PICK x : x = Corr!Raised(p)
      OBVIOUS
    <3>2. x \in Corr!Run /\ Settled(x)'
      BY <2>1, <3>1, RaisedRun DEF Corr!Fail
    <3> QED
      BY <2>1, <3>1, <3>2 DEF Corr!Fail
  <2>2. CASE Corr!Crash(p)
    BY <2>2, IdleRun, IdleSettled DEF Corr!Crash
  <2> QED
    BY <2>1, <2>2
<1>2. BoundsOK'
  BY RunOf, Constants DEF Corr!Fail, Corr!Crash, BoundsOK
<1> QED
  BY <1>1, <1>2, CorrLocal, RunOf DEF Corr!Fail, Corr!Crash, Corr!StoreOK

\* What Go leaves of a process.
LEMMA WentTo ==
  ASSUME CorrInv, NEW p \in Corr!Procs, NEW s \in Corr!Steps, Corr!Go(p, s)
  PROVE  \E x \in Corr!Run : /\ pr' = [pr EXCEPT ![p] = x] /\ x.pc = s
                        /\ x.inc = pr[p].inc /\ x.rev = pr[p].rev /\ x.grp = pr[p].grp
                        /\ x.ver = pr[p].ver /\ x.act = pr[p].act
<1> DEFINE x == [pr[p] EXCEPT !.pc = s]
<1>1. pr \in [Corr!Procs -> Corr!Run] /\ pr[p] \in Corr!Run
  BY RunOf
<1>2. /\ x \in Corr!Run /\ x.pc = s
      /\ x.inc = pr[p].inc /\ x.rev = pr[p].rev /\ x.grp = pr[p].grp
      /\ x.ver = pr[p].ver /\ x.act = pr[p].act
  BY <1>1 DEF Corr!Run
<1>3. pr' = [pr EXCEPT ![p] = x]
  BY <1>1 DEF Corr!Go
<1> HIDE DEF x
<1> QED
  BY <1>2, <1>3

\* The group is chosen, with the version of it that was read.
LEMMA ChosenCorr ==
  ASSUME CorrInv, NEW p \in Corr!Procs, pr[p].pc # "idle", NEW g \in Incidents,
         NEW v \in 1..Corr!Current(g),
         Corr!Take(p, g, v), UNCHANGED <<revs, Corr!grouping, Corr!flood, deferred, complete, Corr!bounds>>
  PROVE  CorrInv'
<1> DEFINE x == [pr[p] EXCEPT !.pc = "append", !.grp = g, !.ver = v]
<1>1. pr \in [Corr!Procs -> Corr!Run] /\ pr[p] \in Corr!Run /\ v \in Nat
  BY RunOf
<1>2. /\ x \in Corr!Run /\ x.pc = "append" /\ x.inc = pr[p].inc /\ x.rev = pr[p].rev
      /\ x.grp = g /\ x.ver = v
  BY <1>1 DEF Corr!Run, Corr!Steps
<1>3. pr' = [pr EXCEPT ![p] = x]
  BY <1>1 DEF Corr!Take
<1> HIDE DEF x
<1>4. PICK y \in Corr!Run : y = x
  BY <1>2
<1>5. Settled(y)'
  BY <1>2, <1>4, RunOf DEF Settled, Placed, Decided, Corr!Current, Corr!grouping
<1> QED
  BY <1>3, <1>4, <1>5, CorrLocal, RunOf DEF Corr!StoreOK

LEMMA FindCorr ==
  ASSUME CorrInv, NEW p \in Corr!Procs, Corr!Find(p)
  PROVE  CorrInv'
<1>1. pr[p].pc = "find"
  BY DEF Corr!Find, Corr!At
<1>2. CASE Corr!Go(p, "select")
  <2>1. PICK x \in Corr!Run : /\ pr' = [pr EXCEPT ![p] = x] /\ x.pc = "select"
                         /\ x.inc = pr[p].inc /\ x.rev = pr[p].rev
    BY <1>2, WentTo DEF Corr!Steps
  <2>2. Settled(x)'
    BY <1>1, <2>1, RunOf DEF Settled, Placed, Decided, Corr!Find
  <2> QED
    BY <2>1, <2>2, CorrLocal, RunOf DEF Corr!Find, Corr!StoreOK
<1>3. CASE \E d \in shownDecisions : Corr!Take(p, d[3], Corr!Current(d[3]))
  <2>1. PICK d \in shownDecisions : Corr!Take(p, d[3], Corr!Current(d[3]))
    BY <1>3
  <2>2. d \in decisions /\ d[3] \in Incidents
    BY RunOf DEF Corr!StoreOK, Corr!Decisions
  <2>3. Corr!Current(d[3]) \in Nat /\ Corr!Current(d[3]) # 0
    BY <2>2, RunOf DEF Corr!StoreOK, Corr!Current, CorrInv, NamesInv
  <2>4. PICK g \in Incidents : g = d[3]
    BY <2>2
  <2>5. PICK v \in 1..Corr!Current(g) : v = Corr!Current(g)
    BY <2>3, <2>4
  <2> QED
    BY <1>1, <2>1, <2>4, <2>5, ChosenCorr DEF Corr!Find
<1> QED
  BY <1>2, <1>3 DEF Corr!Find

LEMMA SelectCorr ==
  ASSUME CorrInv, NEW p \in Corr!Procs, Corr!Select(p)
  PROVE  CorrInv'
<1>1. pr[p].pc = "select"
  BY DEF Corr!Select, Corr!At
<1>2. CASE \E g \in Corr!Candidates(p) : Corr!Take(p, g, shownGroups[g])
  <2>1. PICK g \in Corr!Candidates(p) : Corr!Take(p, g, shownGroups[g])
    BY <1>2
  <2>2. g \in Incidents /\ shownGroups[g] # 0
    BY DEF Corr!Candidates
  <2>3. PICK v \in 1..Corr!Current(g) : v = shownGroups[g]
    BY <2>2, RunOf DEF Corr!StoreOK, Corr!Current
  <2> QED
    BY <1>1, <2>1, <2>2, <2>3, ChosenCorr DEF Corr!Select
<1>3. CASE pr' = [pr EXCEPT ![p].pc = "create", ![p].grp = pr[p].inc]
  <2> DEFINE x == [pr[p] EXCEPT !.pc = "create", !.grp = pr[p].inc]
  <2>1. pr \in [Corr!Procs -> Corr!Run] /\ pr[p] \in Corr!Run
    BY RunOf
  <2>2. x \in Corr!Run /\ x.pc = "create" /\ x.inc = pr[p].inc /\ x.rev = pr[p].rev /\ x.grp = pr[p].inc
    BY <2>1 DEF Corr!Run, Corr!Steps
  <2>3. pr' = [pr EXCEPT ![p] = x]
    BY <1>3, <2>1
  <2> HIDE DEF x
  <2>4. PICK y \in Corr!Run : y = x
    BY <2>2
  <2>5. Settled(y)'
    BY <1>1, <2>2, <2>4, RunOf DEF Settled, Placed, Decided, Corr!Select
  <2> QED
    BY <2>3, <2>4, <2>5, CorrLocal, RunOf DEF Corr!Select, Corr!StoreOK
<1> QED
  BY <1>2, <1>3 DEF Corr!Select

\* The decision on a window changes nothing but the process.
LEMMA EvaluatedState ==
  ASSUME NEW w, NEW e
  PROVE  Corr!Evaluated(w, e).state \in Corr!FloodStates /\ Corr!Action(w, e) \in Corr!Actions
  BY DEF Corr!Evaluated, Corr!NextState, Corr!FloodStates, Corr!Action, Corr!Actions

LEMMA WindowType ==
  ASSUME Corr!StoreOK, NEW g \in Incidents
  PROVE  /\ Len(windows[g]) \in Nat
         /\ Corr!WindowAt(g, Len(windows[g])) \in Corr!Window
<1>1. windows[g] \in Seq(Corr!Window)
  BY DEF Corr!StoreOK
<1>2. CASE Len(windows[g]) = 0
  BY <1>1, <1>2 DEF Corr!WindowAt, Corr!NoWindow, Corr!Window, Corr!FloodStates
<1>3. CASE Len(windows[g]) # 0
  BY <1>1, <1>3 DEF Corr!WindowAt
<1> QED
  BY <1>1, <1>2, <1>3

LEMMA ReadWindowCorr ==
  ASSUME CorrInv, NEW p \in Corr!Procs, Corr!ReadWindow(p)
  PROVE  CorrInv'
<1>1. pr[p].pc = "flood" /\ pr \in [Corr!Procs -> Corr!Run] /\ pr[p] \in Corr!Run /\ Corr!StoreOK
  BY RunOf DEF Corr!ReadWindow, Corr!At
<1>2. pr[p].grp \in Incidents
  BY <1>1, RunOf DEF Settled, Placed
<1>3. PICK g \in Incidents : g = pr[p].grp
  BY <1>2
<1>4. PICK w \in Corr!Window : w = Corr!WindowAt(g, Len(windows[g]))
  BY <1>1, WindowType
<1>5. w.state \in Corr!FloodStates
  BY DEF Corr!Window
<1>6. PICK e : e = Corr!Event(p)
  OBVIOUS
<1>7. PICK n \in Nat, sh \in Corr!FloodStates \X Corr!FloodStates, a \in Corr!Actions :
        n = Len(windows[g]) /\ sh = <<w.state, Corr!Evaluated(w, e).state>> /\ a = Corr!Action(w, e)
  BY <1>1, <1>5, WindowType, EvaluatedState
<1> DEFINE x == [pr[p] EXCEPT !.pc = "window", !.win = n, !.shift = sh, !.act = a]
<1>8. pr' = [pr EXCEPT ![p].pc = "window", ![p].win = n, ![p].shift = sh, ![p].act = a]
  BY <1>3, <1>4, <1>6, <1>7 DEF Corr!ReadWindow
<1>9. pr' = [pr EXCEPT ![p] = x]
  BY <1>1, <1>8
<1>10. /\ x \in Corr!Run /\ x.pc = "window" /\ x.inc = pr[p].inc /\ x.rev = pr[p].rev
       /\ x.grp = pr[p].grp
  BY <1>1 DEF Corr!Run, Corr!Steps
<1> HIDE DEF x
<1>11. PICK y \in Corr!Run : y = x
  BY <1>10
<1>12. Settled(y)'
  BY <1>1, <1>10, <1>11, RunOf DEF Settled, Placed, Decided, Corr!ReadWindow, Corr!grouping
<1> QED
  BY <1>9, <1>11, <1>12, CorrLocal, RunOf DEF Corr!ReadWindow, Corr!StoreOK

-----------------------------------------------------------------------------
(* The group and the decisions.                                            *)

\* A sample that has room keeps every member.
LEMMA SampleKeeps ==
  ASSUME Corr!CorrelationAssumption,
         NEW S \in SUBSET Incidents, Corr!Cardinality(S) <= SampleSize
  PROVE  Corr!Sample(S) = S
<1>1. IsFiniteSet(S) /\ SampleSize \in Nat
  BY Constants, FS_Subset
<1>2. ASSUME NEW i \in S
      PROVE  Corr!Cardinality({j \in S : j < i}) < SampleSize
  <2>1. i \in Nat
    BY Constants
  <2>2. PICK T \in SUBSET S : T = {j \in S : j < i}
    OBVIOUS
  <2>n. i \notin T /\ T # S
    BY <2>1, <2>2
  <2>3. /\ Corr!Cardinality(T) \in Nat /\ Corr!Cardinality(S) \in Nat
        /\ Corr!Cardinality(T) <= Corr!Cardinality(S) /\ Corr!Cardinality(T) # Corr!Cardinality(S)
    BY <1>1, <2>n, FS_Subset, FS_CardinalityType, SameCardinality
  <2> QED
    BY <1>1, <2>2, <2>3
<1> QED
  BY <1>2 DEF Corr!Sample

LEMMA AttachedCounts ==
  ASSUME Corr!CorrelationAssumption,
         NEW v \in Corr!Group, NEW i \in Incidents, i \notin v.members, NEW n,
         v.count <= SampleSize => v.count = Corr!Cardinality(v.members)
  PROVE  LET w == Corr!Attached(v, i, n)
         IN  w.count <= SampleSize => w.count = Corr!Cardinality(w.members)
<1>1. /\ v.members \in SUBSET Incidents /\ v.count \in Nat /\ SampleSize \in Nat
      /\ IsFiniteSet(v.members)
  BY Constants, FS_Subset DEF Corr!Group
<1>2. Corr!Cardinality(v.members \cup {i}) = Corr!Cardinality(v.members) + 1
  BY <1>1, FS_AddElement, SameCardinality
<1>3. SUFFICES ASSUME v.count + 1 <= SampleSize
               PROVE  v.count + 1 = Corr!Cardinality(Corr!Sample(v.members \cup {i}))
  BY DEF Corr!Attached
<1>4. Corr!Cardinality(v.members \cup {i}) = v.count + 1
  BY <1>1, <1>2, <1>3
<1>5. Corr!Sample(v.members \cup {i}) = v.members \cup {i}
  BY <1>1, <1>3, <1>4, SampleKeeps
<1> QED
  BY <1>4, <1>5

LEMMA AttachedType ==
  ASSUME Corr!CorrelationAssumption,
         NEW v \in Corr!Group, NEW i \in Incidents, NEW n \in Corr!Revisions
  PROVE  Corr!Attached(v, i, n) \in Corr!Group
<1>1. v.members \in SUBSET Incidents /\ v.count \in Nat /\ v.last \in Nat
  BY DEF Corr!Group
<1>2. SeenAt[i][n] \in Nat /\ Corr!Sample(v.members \cup {i}) \in SUBSET Incidents
  BY <1>1, Constants DEF Corr!Sample
<1>3. Corr!Later(v.last, SeenAt[i][n]) \in Nat
  BY <1>1, <1>2 DEF Corr!Later
<1> QED
  <2>1. Corr!Attached(v, i, n) =
          [members |-> Corr!Sample(v.members \cup {i}), count |-> v.count + 1,
           last |-> Corr!Later(v.last, SeenAt[i][n])]
    BY DEF Corr!Attached
  <2>2. v.count + 1 \in Nat
    BY <1>1
  <2>3. PICK M \in SUBSET Incidents, c \in Nat, l \in Nat :
          /\ M = Corr!Sample(v.members \cup {i}) /\ c = v.count + 1
          /\ l = Corr!Later(v.last, SeenAt[i][n])
    BY <1>2, <1>3, <2>2
  <2>4. [members |-> M, count |-> c, last |-> l] \in Corr!Group
    BY DEF Corr!Group
  <2> QED
    BY <2>1, <2>3, <2>4

\* A version is added to a group: it is of the type, and counts its members.
LEMMA GroupAdded ==
  ASSUME CorrInv, NEW g \in Incidents, NEW v \in Corr!Group,
         v.count <= SampleSize => v.count = Corr!Cardinality(v.members),
         groups' = [groups EXCEPT ![g] = Append(groups[g], v)]
  PROVE  /\ groups' \in [Incidents -> Seq(Corr!Group)] /\ Corr!MembersCountOnce'
         /\ \A f \in Incidents : Corr!Current(f) \in Nat /\ Corr!Current(f) <= Corr!Current(f)'
         /\ Corr!Current(g)' = Corr!Current(g) + 1
<1>1. groups \in [Incidents -> Seq(Corr!Group)] /\ groups[g] \in Seq(Corr!Group)
  BY DEF CorrInv, Corr!TypeOK, Corr!StoreOK
<1>2. /\ groups' \in [Incidents -> Seq(Corr!Group)] /\ groups'[g] = Append(groups[g], v)
      /\ \A f \in Incidents : f # g => groups'[f] = groups[f]
  BY <1>1
<1>3. /\ Len(groups[g]) \in Nat /\ Len(groups'[g]) = Len(groups[g]) + 1
      /\ \A n \in 1..Len(groups[g]) : groups'[g][n] = groups[g][n]
      /\ groups'[g][Len(groups[g]) + 1] = v
  BY <1>1, <1>2
<1>4. \A f \in Incidents : Corr!Current(f) \in Nat /\ Corr!Current(f) <= Corr!Current(f)'
  BY <1>1, <1>2, <1>3 DEF Corr!Current
<1>5. ASSUME NEW f \in Incidents, NEW n \in 1..Corr!Current(f)'
      PROVE  groups'[f][n].count <= SampleSize =>
               groups'[f][n].count = Corr!Cardinality(groups'[f][n].members)
  <2>1. CASE f # g
    BY <1>2, <1>5, <2>1 DEF CorrInv, Corr!MembersCountOnce, Corr!Current
  <2>2. CASE f = g /\ n \in 1..Len(groups[g])
    <3>1. groups'[f][n] = groups[g][n]
      BY <1>3, <2>2
    <3> QED
      BY <2>2, <3>1 DEF CorrInv, Corr!MembersCountOnce, Corr!Current
  <2>3. CASE f = g /\ n = Len(groups[g]) + 1
    <3>1. groups'[f][n] = v
      BY <1>3, <2>3
    <3> QED
      BY <3>1
  <2>4. f = g => n \in 1..Len(groups[g]) \/ n = Len(groups[g]) + 1
    BY <1>3, <1>5 DEF Corr!Current
  <2> QED
    BY <2>1, <2>2, <2>3, <2>4
<1>6. Corr!MembersCountOnce'
  BY <1>5 DEF Corr!MembersCountOnce
<1> QED
  BY <1>2, <1>3, <1>4, <1>6 DEF Corr!Current

\* A step that writes a version of a group and leaves the process at x.
LEMMA GroupStep ==
  ASSUME CorrInv, NEW p \in Corr!Procs, NEW x \in Corr!Run, pr' = [pr EXCEPT ![p] = x],
         NEW g \in Incidents, NEW v \in Corr!Group,
         v.count <= SampleSize => v.count = Corr!Cardinality(v.members),
         groups' = [groups EXCEPT ![g] = Append(groups[g], v)],
         UNCHANGED <<revs, shownGroups, decisions, shownDecisions, Corr!flood, deferred, complete,
                     Corr!bounds>>,
         Settled(x)'
  PROVE  CorrInv'
<1>1. /\ groups' \in [Incidents -> Seq(Corr!Group)] /\ Corr!MembersCountOnce'
      /\ \A f \in Incidents : Corr!Current(f) \in Nat /\ Corr!Current(f) <= Corr!Current(f)'
  BY GroupAdded
<1>2. Corr!StoreOK'
  <2>1. \A f \in Incidents : shownGroups[f] \in Nat /\ shownGroups[f] <= Len(groups'[f])
    <3>1. ASSUME NEW f \in Incidents
          PROVE  shownGroups[f] \in Nat /\ shownGroups[f] <= Len(groups'[f])
      <4>1. /\ shownGroups[f] \in Nat /\ shownGroups[f] <= Corr!Current(f)
            /\ Corr!Current(f) \in Nat /\ Corr!Current(f) <= Corr!Current(f)' /\ Len(groups'[f]) \in Nat
        BY <1>1, RunOf DEF Corr!StoreOK, Corr!Current
      <4> QED
        BY <4>1 DEF Corr!Current
    <3> QED
      BY <3>1
  <2> QED
    BY <1>1, <2>1, RunOf DEF Corr!StoreOK, Corr!flood
<1>3. CorrGrows
  BY <1>1 DEF CorrGrows, Held, Corr!InWindow, Corr!WindowAt, Corr!flood
<1>4. NamesInv' /\ Corr!CompleteIsRecorded' /\ WindowsInv'
  BY <1>2, <1>3, StillNamed, StillComplete, StillSuppressed DEF CorrInv, Corr!flood
<1> QED
  BY <1>1, <1>2, <1>3, <1>4, CorrStep, RunOf

LEMMA CreateCorr ==
  ASSUME Corr!CorrelationAssumption,
         CorrInv, NEW p \in Corr!Procs, Corr!CreateGroup(p)
  PROVE  CorrInv'
<1>1. /\ pr[p].pc = "create" /\ pr \in [Corr!Procs -> Corr!Run] /\ pr[p] \in Corr!Run /\ Corr!StoreOK
      /\ Settled(pr[p])
  BY RunOf DEF Corr!CreateGroup, Corr!At
<1>2. PICK i \in Incidents, n \in Corr!Revisions : i = pr[p].inc /\ n = pr[p].rev /\ pr[p].grp = i
  <2>1. pr[p].inc \in Incidents /\ pr[p].rev # 0 /\ pr[p].grp = pr[p].inc
    BY <1>1 DEF Settled
  <2>2. pr[p].rev \in 0..MaxRevision
    BY <1>1 DEF Corr!Run
  <2>3. pr[p].rev \in Corr!Revisions
    BY <2>1, <2>2, Constants DEF Corr!Revisions
  <2> QED
    BY <2>1, <2>3
<1>3. PICK v \in Nat : v = (IF Corr!Current(i) = 0 THEN 1 ELSE Corr!Current(i))
  <2>1. Corr!Current(i) \in Nat
    BY <1>1 DEF Corr!StoreOK, Corr!Current
  <2> QED
    BY <2>1
<1> DEFINE x == [pr[p] EXCEPT !.pc = "append", !.ver = v]
<1>4. pr' = [pr EXCEPT ![p].pc = "append", ![p].ver = v]
  BY <1>2, <1>3 DEF Corr!CreateGroup
<1>5. pr' = [pr EXCEPT ![p] = x]
  BY <1>1, <1>4
<1>6. /\ x \in Corr!Run /\ x.pc = "append" /\ x.inc = i /\ x.rev = n
      /\ x.grp = i /\ x.ver = v
  BY <1>1, <1>2 DEF Corr!Run, Corr!Steps
<1> HIDE DEF x
<1>7. PICK y \in Corr!Run : y = x
  BY <1>6
<1>8. revs[i] # 0 /\ n # 0
  BY <1>1, <1>2 DEF Settled
<1>9. CASE Corr!Current(i) # 0
  <2>1. groups' = groups /\ v \in 1..Corr!Current(i)
    BY <1>1, <1>2, <1>3, <1>9 DEF Corr!CreateGroup, Corr!StoreOK, Corr!Current
  <2>2. Settled(y)'
    BY <1>6, <1>7, <1>8, <2>1 DEF Settled, Placed, Decided, Corr!CreateGroup, Corr!Current
  <2> QED
    BY <1>5, <1>7, <2>1, <2>2, CorrLocal, RunOf DEF Corr!CreateGroup, Corr!StoreOK, Corr!grouping
<1>10. CASE Corr!Current(i) = 0
  <2> DEFINE c == [members |-> {i}, count |-> 1, last |-> SeenAt[i][n]]
  <2>1. SeenAt[i][n] \in Nat
    BY Constants
  <2>2. c \in Corr!Group /\ c.count = Corr!Cardinality(c.members)
    BY <2>1, FS_Singleton, SameCardinality DEF Corr!Group
  <2>3. groups' = [groups EXCEPT ![i] = <<c>>]
    BY <1>2, <1>10 DEF Corr!CreateGroup
  <2> HIDE DEF c
  <2>4. groups[i] = <<>> /\ Append(groups[i], c) = <<c>>
    BY <1>1, <1>10, <2>2 DEF Corr!StoreOK, Corr!Current
  <2>5. groups' = [groups EXCEPT ![i] = Append(groups[i], c)]
    BY <2>3, <2>4
  <2>6. Corr!Current(i)' = 1 /\ v = 1
    <3>1. Corr!Current(i)' = Corr!Current(i) + 1
      BY <2>2, <2>5, GroupAdded
    <3> QED
      BY <1>3, <1>10, <3>1
  <2>7. Settled(y)'
    BY <1>6, <1>7, <1>8, <2>6 DEF Settled, Placed, Decided, Corr!CreateGroup
  <2> QED
    BY <1>5, <1>7, <2>2, <2>5, <2>7, GroupStep DEF Corr!CreateGroup
<1> QED
  BY <1>9, <1>10

LEMMA AppendDecisionCorr ==
  ASSUME Corr!CorrelationAssumption,
         CorrInv, NEW p \in Corr!Procs, Corr!AppendDecision(p)
  PROVE  CorrInv'
<1>1. /\ pr[p].pc = "append" /\ pr \in [Corr!Procs -> Corr!Run] /\ pr[p] \in Corr!Run /\ Corr!StoreOK
      /\ Settled(pr[p])
  BY RunOf DEF Corr!AppendDecision, Corr!At
<1>2. /\ pr[p].inc \in Incidents /\ pr[p].rev \in Corr!Revisions /\ pr[p].grp \in Incidents
      /\ pr[p].ver \in 1..Corr!Current(pr[p].grp) /\ revs[pr[p].inc] # 0 /\ pr[p].rev # 0
  <2>1. pr[p].rev \in 0..MaxRevision
    BY <1>1 DEF Corr!Run
  <2> QED
    BY <1>1, <2>1, Constants DEF Settled, Corr!Revisions, Placed
<1>3. PICK d \in Corr!Decisions : d = Corr!Decision(p)
  BY <1>2 DEF Corr!Decision, Corr!Decisions
<1>4. PICK b \in BOOLEAN : b = (d \notin decisions)
  OBVIOUS
<1> DEFINE x == [pr[p] EXCEPT !.new = b, !.pc = "attach"]
<1>5. pr' = [pr EXCEPT ![p].new = b, ![p].pc = "attach"]
  BY <1>3, <1>4 DEF Corr!AppendDecision
<1>6. pr' = [pr EXCEPT ![p] = x]
  BY <1>1, <1>5
<1>7. /\ x \in Corr!Run /\ x.pc = "attach" /\ x.inc = pr[p].inc /\ x.rev = pr[p].rev
      /\ x.grp = pr[p].grp /\ x.ver = pr[p].ver
  BY <1>1 DEF Corr!Run, Corr!Steps
<1> HIDE DEF x
<1>8. PICK y \in Corr!Run : y = x
  BY <1>7
<1>9. decisions' = decisions \cup {d} /\ UNCHANGED <<revs, groups, shownGroups, shownDecisions, Corr!flood,
                                                   deferred, complete, Corr!bounds>>
  BY <1>3 DEF Corr!AppendDecision
<1>10. Corr!StoreOK'
  BY <1>1, <1>9 DEF Corr!StoreOK, Corr!flood
<1>11. CorrGrows
  <2>1. \A g \in Incidents : Corr!Current(g) \in Nat /\ Corr!Current(g)' = Corr!Current(g) /\ Held(g)' = Held(g)
    BY <1>1, <1>9 DEF Corr!StoreOK, Corr!flood, Corr!Current, Held, Corr!InWindow, Corr!WindowAt
  <2> QED
    BY <1>9, <2>1 DEF CorrGrows, Corr!flood
<1>12. NamesInv'
  <2>1. d[3] = pr[p].grp /\ Corr!Current(pr[p].grp) # 0
    <3>1. Corr!Current(pr[p].grp) \in Nat
      BY <1>1, <1>2 DEF Corr!StoreOK, Corr!Current
    <3> QED
      BY <1>2, <1>3, <3>1 DEF Corr!Decision
  <2> QED
    BY <1>9, <2>1 DEF CorrInv, NamesInv, Corr!Current
<1>13. Corr!MembersCountOnce' /\ Corr!CompleteIsRecorded' /\ WindowsInv'
  BY <1>9, <1>11, StillComplete, StillCounted, StillSuppressed DEF CorrInv, Corr!flood
<1>14. Settled(y)'
  BY <1>2, <1>3, <1>7, <1>8, <1>9 DEF Settled, Placed, Decided, Corr!Decision, Corr!Current
<1> QED
  BY <1>6, <1>8, <1>9, <1>10, <1>11, <1>12, <1>13, <1>14, CorrStep, RunOf

LEMMA AttachCorr ==
  ASSUME Corr!CorrelationAssumption,
         CorrInv, NEW p \in Corr!Procs, Corr!Attach(p)
  PROVE  CorrInv'
<1>1. /\ pr[p].pc = "attach" /\ pr \in [Corr!Procs -> Corr!Run] /\ pr[p] \in Corr!Run /\ Corr!StoreOK
      /\ Settled(pr[p])
      /\ UNCHANGED <<revs, shownGroups, decisions, shownDecisions, Corr!flood, deferred, complete,
                     Corr!bounds>>
  BY RunOf DEF Corr!Attach, Corr!At
<1>2. /\ pr[p].inc \in Incidents /\ pr[p].rev \in Corr!Revisions /\ pr[p].grp \in Incidents
      /\ pr[p].ver \in 1..Corr!Current(pr[p].grp) /\ revs[pr[p].inc] # 0 /\ pr[p].rev # 0
      /\ <<pr[p].inc, pr[p].rev, pr[p].grp>> \in decisions
      /\ pr[p].lost \in 0..(MaxRetries - 1)
  <2>1. pr[p].rev \in 0..MaxRevision /\ pr[p].lost \in 0..(MaxRetries - 1)
    BY <1>1 DEF Corr!Run
  <2> QED
    BY <1>1, <2>1, Constants DEF Settled, Corr!Revisions, Placed, Decided
<1>3. PICK i \in Incidents, n \in Corr!Revisions, g \in Incidents :
        i = pr[p].inc /\ n = pr[p].rev /\ g = pr[p].grp
  BY <1>2
<1>4. Corr!Current(g) \in Nat /\ groups[g] \in Seq(Corr!Group) /\ Corr!Current(g) = Len(groups[g])
  <2>1. groups[g] \in Seq(Corr!Group)
    BY <1>1 DEF Corr!StoreOK
  <2> QED
    BY <2>1 DEF Corr!Current
<1>5. ASSUME NEW x \in Corr!Run, pr' = [pr EXCEPT ![p] = x], groups' = groups, Settled(x)'
      PROVE  CorrInv'
  BY <1>1, <1>5, CorrLocal, RunOf DEF Corr!StoreOK, Corr!grouping
<1>6. ASSUME Corr!Go(p, "flood")
      PROVE  \E x \in Corr!Run : pr' = [pr EXCEPT ![p] = x] /\ Settled(x)'
  <2>1. PICK x \in Corr!Run : /\ pr' = [pr EXCEPT ![p] = x] /\ x.pc = "flood"
                         /\ x.inc = pr[p].inc /\ x.rev = pr[p].rev /\ x.grp = pr[p].grp
    BY <1>6, WentTo DEF Corr!Steps
  <2>2. Settled(x)'
    BY <1>1, <1>2, <2>1 DEF Settled, Placed, Decided
  <2> QED
    BY <2>1, <2>2
<1>7. CASE Corr!Go(p, "flood") /\ groups' = groups
  BY <1>5, <1>6, <1>7
<1>8. CASE /\ ~Corr!IsMember(i, groups[g][pr[p].ver]) /\ pr[p].ver = Corr!Current(g)
           /\ groups' = [groups EXCEPT ![g] = Append(groups[g], Corr!Attached(groups[g][Len(groups[g])], i, n))]
           /\ Corr!Go(p, "flood")
  <2>1. Corr!Current(g) \in 1..Len(groups[g])
    BY <1>2, <1>3, <1>4, <1>8
  <2>2. PICK v \in Corr!Group : v = groups[g][Len(groups[g])]
    BY <1>4, <2>1
  <2>3. i \notin v.members
    BY <1>4, <1>8, <2>2 DEF Corr!IsMember
  <2>4. v.count <= SampleSize => v.count = Corr!Cardinality(v.members)
    BY <1>4, <2>1, <2>2 DEF CorrInv, Corr!MembersCountOnce
  <2>5. PICK w \in Corr!Group : w = Corr!Attached(v, i, n)
    BY AttachedType
  <2>6. w.count <= SampleSize => w.count = Corr!Cardinality(w.members)
    BY <2>3, <2>4, <2>5, AttachedCounts
  <2>7. PICK x \in Corr!Run : pr' = [pr EXCEPT ![p] = x] /\ Settled(x)'
    BY <1>6, <1>8
  <2>8. groups' = [groups EXCEPT ![g] = Append(groups[g], w)]
    BY <1>8, <2>2, <2>5
  <2> QED
    BY <1>1, <2>6, <2>7, <2>8, GroupStep
<1>9. CASE /\ pr[p].ver # Corr!Current(g) /\ groups' = groups
           /\ pr' = [pr EXCEPT ![p] =
                IF Corr!IsMember(i, groups[g][Corr!Current(g)])
                THEN [pr[p] EXCEPT !.pc = "flood"]
                ELSE IF pr[p].lost + 1 = MaxRetries THEN Corr!Raised(p)
                ELSE [pr[p] EXCEPT !.ver = Corr!Current(g), !.lost = pr[p].lost + 1]]
  <2>1. CASE Corr!IsMember(i, groups[g][Corr!Current(g)])
    <3>1. Corr!Go(p, "flood")
      BY <1>1, <1>9, <2>1 DEF Corr!Go
    <3> QED
      BY <1>7, <1>9, <3>1
  <2>2. CASE ~Corr!IsMember(i, groups[g][Corr!Current(g)]) /\ pr[p].lost + 1 = MaxRetries
    <3>1. PICK x : x = Corr!Raised(p)
      OBVIOUS
    <3>2. x \in Corr!Run /\ Settled(x)'
      BY <1>1, <3>1, RaisedRun
    <3> QED
      BY <1>5, <1>9, <2>2, <3>1, <3>2
  <2>3. CASE ~Corr!IsMember(i, groups[g][Corr!Current(g)]) /\ pr[p].lost + 1 # MaxRetries
    <3> DEFINE x == [pr[p] EXCEPT !.ver = Corr!Current(g), !.lost = pr[p].lost + 1]
    <3>1. pr' = [pr EXCEPT ![p] = x]
      BY <1>9, <2>3
    <3>2. pr[p].lost + 1 \in 0..(MaxRetries - 1)
      <4>1. PICK k \in 0..(MaxRetries - 1) : k = pr[p].lost
        BY <1>2
      <4>2. k + 1 # MaxRetries /\ MaxRetries \in Nat
        BY <2>3, <4>1, Constants
      <4>3. k + 1 \in 0..(MaxRetries - 1)
        BY <4>2
      <4> QED
        BY <4>1, <4>3
    <3>3. /\ x \in Corr!Run /\ x.pc = "attach" /\ x.inc = i /\ x.rev = n /\ x.grp = g
          /\ x.ver = Corr!Current(g)
      BY <1>1, <1>3, <1>4, <3>2 DEF Corr!Run
    <3> HIDE DEF x
    <3>4. PICK y \in Corr!Run : y = x
      BY <3>3
    <3>5. Corr!Current(g) \in 1..Corr!Current(g) /\ Corr!Current(g)' = Corr!Current(g)
      <4>1. pr[p].ver \in 1..Corr!Current(g)
        BY <1>2, <1>3
      <4>2. Corr!Current(g) \in 1..Corr!Current(g)
        BY <1>4, <4>1
      <4> QED
        BY <1>9, <4>2 DEF Corr!Current
    <3>6. Settled(y)'
      BY <1>1, <1>2, <1>3, <3>3, <3>4, <3>5 DEF Settled, Placed, Decided
    <3> QED
      BY <1>5, <1>9, <3>1, <3>4, <3>6
  <2> QED
    BY <2>1, <2>2, <2>3
<1> QED
  BY <1>3, <1>7, <1>8, <1>9 DEF Corr!Attach

-----------------------------------------------------------------------------
(* The flood window, the stream and the deferred evaluations.              *)

LEMMA FloodEventsFinite ==
  ASSUME Corr!CorrelationAssumption
  PROVE  IsFiniteSet(Corr!FloodEvents)
<1>1. IsFiniteSet(Incidents) /\ IsFiniteSet(Corr!Revisions)
  <2>1. IsFiniteSet(1..MaxRevision)
    BY Constants, FS_Interval
  <2> QED
    BY <2>1, Constants DEF Corr!Revisions
<1> QED
  BY <1>1, FS_Product DEF Corr!FloodEvents

\* An evaluation adds the event, and suppresses it at most once.
Notified(w) == {e \in w.events : e[1] \notin Bypass}
LEMMA EvaluatedWindow ==
  ASSUME Corr!CorrelationAssumption,
         NEW w \in Corr!Window, NEW e \in Corr!FloodEvents,
         w.suppressed <= Corr!Cardinality(Notified(w))
  PROVE  LET v == Corr!Evaluated(w, e)
         IN  /\ v \in Corr!Window /\ v.events = w.events \cup {e}
             /\ v.suppressed <= Corr!Cardinality(Notified(v))
<1> DEFINE v == Corr!Evaluated(w, e)
<1>1. /\ w.events \in SUBSET Corr!FloodEvents /\ w.suppressed \in Nat
  BY DEF Corr!Window
<1>2. /\ v.state \in Corr!FloodStates /\ v.events = w.events \cup {e}
      /\ v.suppressed = IF Corr!Coalesced(w, e) THEN w.suppressed + 1 ELSE w.suppressed
  BY EvaluatedState DEF Corr!Evaluated
<1>3. v \in Corr!Window
  <2>1. v.suppressed \in Nat
    BY <1>1, <1>2
  <2>2. v = [state |-> v.state, events |-> v.events, suppressed |-> v.suppressed]
    BY DEF Corr!Evaluated
  <2> QED
    BY <1>1, <1>2, <2>1, <2>2 DEF Corr!Window
<1> HIDE DEF v
<1>4. PICK N, M : N = Notified(w) /\ M = Notified(v)
  OBVIOUS
<1>5. IsFiniteSet(N) /\ IsFiniteSet(M) /\ N \subseteq M
  <2>1. N \subseteq Corr!FloodEvents /\ M \subseteq Corr!FloodEvents /\ N \subseteq M
    BY <1>1, <1>2, <1>4 DEF Notified
  <2> QED
    BY <2>1, FloodEventsFinite, FS_Subset
<1>6. /\ Corr!Cardinality(N) \in Nat /\ Corr!Cardinality(M) \in Nat /\ Corr!Cardinality(N) <= Corr!Cardinality(M)
  BY <1>5, FS_Subset, FS_CardinalityType, SameCardinality
<1>7. CASE Corr!Coalesced(w, e)
  <2>1. M = N \cup {e} /\ e \notin N
    BY <1>2, <1>4, <1>7 DEF Notified, Corr!Coalesced
  <2>2. Corr!Cardinality(M) = Corr!Cardinality(N) + 1
    BY <1>5, <2>1, FS_AddElement, SameCardinality
  <2>3. v.suppressed <= Corr!Cardinality(M)
    BY <1>1, <1>2, <1>4, <1>6, <1>7, <2>2
  <2> QED
    BY <1>2, <1>3, <1>4, <2>3 DEF v
<1>8. CASE ~Corr!Coalesced(w, e)
  <2>1. v.suppressed <= Corr!Cardinality(M)
    BY <1>1, <1>2, <1>4, <1>6, <1>8
  <2> QED
    BY <1>2, <1>3, <1>4, <2>1 DEF v
<1> QED
  BY <1>7, <1>8

\* A version is added to a window: to the one that was read, or in the place
\* of the one that created it.
Replaced(g) == g \in First /\ Len(windows[g]) = 1
LEMMA WindowAdded ==
  ASSUME Corr!CorrelationAssumption,
         CorrInv, NEW g \in Incidents, NEW e \in Corr!FloodEvents, NEW n \in Nat,
         n = Len(windows[g]) \/ (n = 0 /\ Replaced(g)),
         windows' = [windows EXCEPT ![g] =
           Append(windows[g], Corr!Evaluated(Corr!WindowAt(g, n), e))]
  PROVE  /\ windows' \in [Incidents -> Seq(Corr!Window)] /\ WindowsInv'
         /\ \A f \in Incidents : Held(f) \subseteq Held(f)'
         /\ e \in Held(g)'
<1>1. /\ windows \in [Incidents -> Seq(Corr!Window)] /\ windows[g] \in Seq(Corr!Window)
      /\ Corr!StoreOK /\ CreatedInv /\ Corr!SuppressedOnce
  BY DEF CorrInv, WindowsInv, Corr!TypeOK, Corr!StoreOK
<1>2. PICK w \in Corr!Window : /\ w = Corr!WindowAt(g, n)
                               /\ w.suppressed <= Corr!Cardinality(Notified(w))
  <2>1. CASE n = Len(windows[g])
    BY <1>1, <2>1, WindowType DEF Corr!SuppressedOnce, Notified
  <2>2. CASE n = 0
    <3>1. Corr!WindowAt(g, n) = Corr!NoWindow /\ Corr!NoWindow \in Corr!Window
      BY <2>2 DEF Corr!WindowAt, Corr!NoWindow, Corr!Window, Corr!FloodStates
    <3>2. Corr!NoWindow.suppressed = 0 /\ Notified(Corr!NoWindow) = {}
      BY DEF Corr!NoWindow, Notified
    <3>3. Corr!Cardinality({}) = 0
      BY FS_EmptySet, SameCardinality
    <3>4. Corr!NoWindow.suppressed <= Corr!Cardinality(Notified(Corr!NoWindow))
      BY <3>2, <3>3
    <3> QED
      BY <3>1, <3>4, Zenon
  <2> QED
    BY <2>1, <2>2
<1>3. PICK v \in Corr!Window : /\ v = Corr!Evaluated(w, e) /\ v.events = w.events \cup {e}
                               /\ v.suppressed <= Corr!Cardinality(Notified(v))
  BY <1>2, EvaluatedWindow
<1>4. windows' = [windows EXCEPT ![g] = Append(windows[g], v)]
  BY <1>2, <1>3
<1>5. /\ windows' \in [Incidents -> Seq(Corr!Window)]
      /\ windows'[g] = Append(windows[g], v)
      /\ \A f \in Incidents : f # g => windows'[f] = windows[f]
  BY <1>1, <1>4
<1>6. /\ Len(windows[g]) \in Nat /\ Len(windows'[g]) = Len(windows[g]) + 1
      /\ windows'[g][Len(windows'[g])] = v
      /\ Len(windows[g]) # 0 => windows'[g][1] = windows[g][1]
  BY <1>1, <1>5
<1>7. Corr!WindowAt(g, Len(windows[g]))' = v
  BY <1>6 DEF Corr!WindowAt
<1>8. \A f \in Incidents : f # g => Corr!WindowAt(f, Len(windows[f]))' = Corr!WindowAt(f, Len(windows[f]))
  BY <1>5 DEF Corr!WindowAt
<1>9. Corr!SuppressedOnce'
  <2>1. ASSUME NEW f \in Incidents
        PROVE  LET u == Corr!WindowAt(f, Len(windows[f]))' IN
               u.suppressed <= Corr!Cardinality({x \in u.events : x[1] \notin Bypass})
    <3>1. CASE f = g
      BY <1>3, <1>7, <3>1 DEF Notified
    <3>2. CASE f # g
      BY <1>1, <1>8, <3>2 DEF Corr!SuppressedOnce
    <3> QED
      BY <3>1, <3>2
  <2> QED
    BY <2>1 DEF Corr!SuppressedOnce
<1>10. CreatedInv'
  <2>1. ASSUME Len(windows[g]) = 0
        PROVE  windows'[g][1].events = {e}
    <3>1. windows'[g][1] = v /\ n = 0
      BY <1>6, <2>1 DEF Replaced
    <3>2. w.events = {}
      BY <1>2, <3>1 DEF Corr!WindowAt, Corr!NoWindow
    <3> QED
      BY <1>3, <3>1, <3>2
  <2>2. ASSUME NEW f \in Incidents, Len(windows'[f]) # 0
        PROVE  \E c \in Corr!FloodEvents : windows'[f][1].events = {c}
    <3>1. CASE f # g
      <4>1. windows'[f] = windows[f]
        BY <1>5, <3>1
      <4> QED
        BY <1>1, <2>2, <4>1 DEF CreatedInv
    <3>2. CASE f = g /\ Len(windows[g]) = 0
      BY <2>1, <3>2
    <3>3. CASE f = g /\ Len(windows[g]) # 0
      <4>1. windows'[f][1] = windows[g][1]
        BY <1>6, <3>3
      <4> QED
        BY <1>1, <3>3, <4>1 DEF CreatedInv
    <3> QED
      BY <3>1, <3>2, <3>3
  <2> QED
    BY <2>2 DEF CreatedInv
<1>11. \A f \in Incidents : f # g => Held(f)' = Held(f)
  BY <1>5, <1>8 DEF Held, Corr!InWindow
<1>12. e \in Held(g)'
  BY <1>3, <1>7 DEF Held, Corr!InWindow
<1>13. ASSUME NEW x \in Held(g)
       PROVE  x \in Held(g)'
  <2>1. x \in Corr!FloodEvents /\ Corr!InWindow(g, x)
    BY DEF Held
  <2>2. CASE g \in First /\ Len(windows[g]) > 1 /\ windows[g][1].events = {x}
    BY <1>6, <2>1, <2>2 DEF Held, Corr!InWindow
  <2>3. CASE x \in Corr!WindowAt(g, Len(windows[g])).events /\ n = Len(windows[g])
    BY <1>2, <1>3, <1>7, <2>1, <2>3 DEF Held, Corr!InWindow
  <2>4. CASE x \in Corr!WindowAt(g, Len(windows[g])).events /\ Replaced(g)
    <3>1. Len(windows[g]) = 1 /\ x \in windows[g][1].events
      BY <2>4 DEF Replaced, Corr!WindowAt
    <3>2. PICK c \in Corr!FloodEvents : windows[g][1].events = {c}
      <4>1. Len(windows[g]) # 0
        BY <3>1
      <4> QED
        BY <1>1, <4>1, Zenon DEF CreatedInv
    <3>3. windows[g][1].events = {x}
      BY <3>1, <3>2
    <3>4. Len(windows'[g]) > 1 /\ windows'[g][1].events = {x}
      <4>1. Len(windows'[g]) = 2 /\ windows'[g][1] = windows[g][1]
        BY <1>6, <3>1
      <4> QED
        BY <3>3, <4>1
    <3>5. g \in First
      BY <2>4 DEF Replaced
    <3>6. Corr!InWindow(g, x)'
      BY <3>4, <3>5 DEF Corr!InWindow
    <3> QED
      BY <2>1, <3>6 DEF Held
  <2> QED
    BY <2>1, <2>2, <2>3, <2>4 DEF Corr!InWindow
<1> QED
  BY <1>5, <1>9, <1>10, <1>11, <1>12, <1>13 DEF WindowsInv

LEMMA WriteWindowCorr ==
  ASSUME Corr!CorrelationAssumption,
         CorrInv, NEW p \in Corr!Procs, Corr!WriteWindow(p)
  PROVE  CorrInv'
<1>1. /\ pr[p].pc = "window" /\ pr \in [Corr!Procs -> Corr!Run] /\ pr[p] \in Corr!Run /\ Corr!StoreOK
      /\ Settled(pr[p])
      /\ UNCHANGED <<revs, Corr!grouping, stream, deferred, complete, Corr!bounds>>
  BY RunOf DEF Corr!WriteWindow, Corr!At
<1>2. /\ pr[p].inc \in Incidents /\ pr[p].rev \in Corr!Revisions /\ pr[p].grp \in Incidents
      /\ revs[pr[p].inc] # 0 /\ pr[p].rev # 0
      /\ <<pr[p].inc, pr[p].rev, pr[p].grp>> \in decisions
  <2>1. pr[p].rev \in 0..MaxRevision
    BY <1>1 DEF Corr!Run
  <2> QED
    BY <1>1, <2>1, Constants DEF Settled, Corr!Revisions, Placed, Decided
<1>3. PICK g \in Incidents, e \in Corr!FloodEvents : g = pr[p].grp /\ e = Corr!Event(p)
  BY <1>2 DEF Corr!Event, Corr!FloodEvents
<1>4. ASSUME Corr!Go(p, "transition"), decisions' = decisions, revs' = revs, e \in Held(g)'
      PROVE  \E x \in Corr!Run : pr' = [pr EXCEPT ![p] = x] /\ Settled(x)'
  <2>1. PICK x \in Corr!Run : /\ pr' = [pr EXCEPT ![p] = x] /\ x.pc = "transition"
                         /\ x.inc = pr[p].inc /\ x.rev = pr[p].rev /\ x.grp = pr[p].grp
    BY <1>4, WentTo DEF Corr!Steps
  <2>2. <<x.inc, x.rev>> = e /\ x.grp = g
    BY <1>3, <2>1 DEF Corr!Event
  <2>3. Settled(x)'
    BY <1>2, <1>4, <2>1, <2>2 DEF Settled, Placed, Decided
  <2> QED
    BY <2>1, <2>3
<1>5. CASE /\ Len(windows[g]) = pr[p].win \/ (pr[p].win = 0 /\ Replaced(g))
           /\ Corr!Go(p, "transition")
           /\ windows' = [windows EXCEPT ![g] =
                 Append(windows[g], Corr!Evaluated(Corr!WindowAt(g, pr[p].win), e))]
  <2>1. /\ windows' \in [Incidents -> Seq(Corr!Window)] /\ WindowsInv'
        /\ \A f \in Incidents : Held(f) \subseteq Held(f)'
        /\ e \in Held(g)'
    BY <1>1, <1>5, WindowAdded DEF Corr!Run
  <2>2. PICK x \in Corr!Run : pr' = [pr EXCEPT ![p] = x] /\ Settled(x)'
    BY <1>1, <1>4, <1>5, <2>1 DEF Corr!grouping
  <2>3. Corr!StoreOK'
    BY <1>1, <2>1 DEF Corr!StoreOK, Corr!grouping
  <2>4. CorrGrows
    <3>1. \A f \in Incidents : Corr!Current(f) \in Nat /\ Corr!Current(f)' = Corr!Current(f)
      BY <1>1 DEF Corr!StoreOK, Corr!Current, Corr!grouping
    <3> QED
      BY <1>1, <2>1, <3>1 DEF CorrGrows, Corr!grouping
  <2>5. NamesInv' /\ Corr!MembersCountOnce' /\ Corr!CompleteIsRecorded'
    BY <1>1, <2>3, <2>4, StillNamed, StillComplete, StillCounted DEF CorrInv, Corr!grouping
  <2> QED
    BY <1>1, <2>1, <2>2, <2>3, <2>4, <2>5, CorrStep, RunOf
<1>6. CASE /\ windows' = windows
           /\ pr' = [pr EXCEPT ![p] = IF e \in Corr!WindowAt(g, Len(windows[g])).events
                                      THEN [pr[p] EXCEPT !.pc = "transition"] ELSE Corr!Raised(p)]
  <2>1. PICK x \in Corr!Run : pr' = [pr EXCEPT ![p] = x] /\ Settled(x)'
    <3>1. CASE e \in Corr!WindowAt(g, Len(windows[g])).events
      <4>1. Corr!Go(p, "transition")
        BY <1>1, <1>6, <3>1 DEF Corr!Go
      <4>2. e \in Held(g)'
        BY <1>6, <3>1 DEF Held, Corr!InWindow, Corr!WindowAt
      <4> QED
        BY <1>1, <1>4, <4>1, <4>2 DEF Corr!grouping
    <3>2. CASE e \notin Corr!WindowAt(g, Len(windows[g])).events
      <4>1. PICK x : x = Corr!Raised(p)
        OBVIOUS
      <4> QED
        BY <1>1, <1>6, <3>2, <4>1, RaisedRun
    <3> QED
      BY <3>1, <3>2
  <2> QED
    BY <1>1, <1>6, <2>1, CorrLocal, RunOf DEF Corr!StoreOK, Corr!flood
<1> QED
  BY <1>3, <1>5, <1>6 DEF Corr!WriteWindow, Corr!WindowUnraced, Corr!WindowUnseen, Replaced

\* What does not change where only the stream or the evaluations are written.
LEMMA StreamGrows ==
  ASSUME CorrInv, UNCHANGED <<revs, Corr!grouping, windows>>, stream \subseteq stream'
  PROVE  CorrGrows /\ Corr!MembersCountOnce' /\ WindowsInv'
<1>1. \A g \in Incidents : Corr!Current(g) \in Nat /\ Corr!Current(g)' = Corr!Current(g) /\ Held(g)' = Held(g)
  BY DEF CorrInv, Corr!TypeOK, Corr!StoreOK, Corr!grouping, Corr!Current, Held, Corr!InWindow, Corr!WindowAt
<1> QED
  BY <1>1, StillCounted, StillSuppressed DEF CorrInv, CorrGrows, Corr!grouping

LEMMA EventOf ==
  ASSUME Corr!CorrelationAssumption,
         CorrInv, NEW p \in Corr!Procs, pr[p].pc # "idle"
  PROVE  Corr!Event(p) \in Corr!FloodEvents
<1>1. pr[p].inc \in Incidents /\ pr[p].rev # 0 /\ pr[p].rev \in 0..MaxRevision
  BY RunOf DEF Settled, Corr!Run
<1>2. pr[p].rev \in Corr!Revisions
  BY <1>1, Constants DEF Corr!Revisions
<1> QED
  BY <1>1, <1>2 DEF Corr!Event, Corr!FloodEvents

LEMMA TransitionCorr ==
  ASSUME Corr!CorrelationAssumption,
         CorrInv, NEW p \in Corr!Procs, Corr!AppendTransition(p)
  PROVE  CorrInv'
<1>1. /\ pr[p].pc = "transition" /\ pr[p] \in Corr!Run /\ Corr!StoreOK /\ Settled(pr[p])
      /\ UNCHANGED <<revs, Corr!grouping, windows, deferred, complete, Corr!bounds>>
  BY RunOf DEF Corr!AppendTransition, Corr!At
<1>2. PICK x \in Corr!Run : /\ pr' = [pr EXCEPT ![p] = x] /\ x.pc = "notify"
                       /\ x.inc = pr[p].inc /\ x.rev = pr[p].rev /\ x.grp = pr[p].grp
  BY WentTo DEF Corr!AppendTransition, Corr!Steps
<1>3. Settled(x)'
  BY <1>1, <1>2 DEF Settled, Placed, Decided, Held, Corr!InWindow, Corr!WindowAt, Corr!grouping
<1>4. <<"transition", pr[p].grp, Corr!Event(p), pr[p].shift>> \in
        {"transition"} \X Incidents \X Corr!FloodEvents \X (Corr!FloodStates \X Corr!FloodStates)
  BY <1>1, EventOf DEF Settled, Placed, Corr!Run
<1>5. Corr!StoreOK'
  <2>1. stream' = stream \cup {<<"transition", pr[p].grp, Corr!Event(p), pr[p].shift>>}
    BY DEF Corr!AppendTransition
  <2> QED
    BY <1>1, <1>4, <2>1 DEF Corr!StoreOK, Corr!grouping
<1>6. CorrGrows /\ Corr!MembersCountOnce' /\ WindowsInv'
  BY <1>1, StreamGrows DEF Corr!AppendTransition
<1>7. NamesInv' /\ Corr!CompleteIsRecorded'
  BY <1>1, <1>5, <1>6, StillNamed, StillComplete DEF CorrInv, Corr!grouping
<1> QED
  BY <1>1, <1>2, <1>3, <1>5, <1>6, <1>7, CorrStep, RunOf

LEMMA NotificationCorr ==
  ASSUME Corr!CorrelationAssumption,
         CorrInv, NEW p \in Corr!Procs, Corr!AppendNotification(p)
  PROVE  CorrInv'
<1>1. /\ pr[p].pc = "notify" /\ pr[p] \in Corr!Run /\ Corr!StoreOK /\ Settled(pr[p])
      /\ UNCHANGED <<revs, Corr!grouping, windows, deferred, Corr!bounds>>
  BY RunOf DEF Corr!AppendNotification, Corr!At
<1>2. PICK x \in Corr!Run : pr' = [pr EXCEPT ![p] = x] /\ Settled(x)'
  <2>1. CASE p \in Handlers
    BY <2>1, IdleRun, IdleSettled DEF Corr!AppendNotification
  <2>2. CASE p \notin Handlers
    <3>1. Corr!Go(p, "mark")
      BY <2>2, RunOf DEF Corr!AppendNotification, Corr!Go
    <3>2. PICK x \in Corr!Run : /\ pr' = [pr EXCEPT ![p] = x] /\ x.pc = "mark"
                           /\ x.inc = pr[p].inc /\ x.rev = pr[p].rev
      BY <3>1, WentTo DEF Corr!Steps
    <3> QED
      BY <1>1, <3>2 DEF Settled, Placed, Decided
  <2> QED
    BY <2>1, <2>2
<1>3. PICK g \in Incidents, e \in Corr!FloodEvents, a \in Corr!Actions :
        g = pr[p].grp /\ e = Corr!Event(p) /\ a = pr[p].act
  BY <1>1, EventOf DEF Settled, Placed, Corr!Run
<1>4. /\ stream' = stream \cup {<<"notification", g, e, a>>}
      /\ complete' = complete \cup {e}
  BY <1>3 DEF Corr!AppendNotification
<1>5. Corr!StoreOK'
  BY <1>1, <1>4 DEF Corr!StoreOK, Corr!grouping
<1>6. CorrGrows /\ Corr!MembersCountOnce' /\ WindowsInv'
  BY <1>1, <1>4, StreamGrows
<1>7. NamesInv'
  BY <1>1, <1>5, <1>6, StillNamed DEF Corr!grouping
<1>8. <<e[1], e[2], g>> \in decisions /\ e \in Held(g)
  BY <1>1, <1>3 DEF Settled, Placed, Decided, Corr!Event
<1>9. Corr!CompleteIsRecorded'
  <2>1. ASSUME NEW f \in complete'
        PROVE  \E h \in Incidents :
                 /\ <<f[1], f[2], h>> \in decisions'
                 /\ Corr!InWindow(h, f)'
                 /\ \E b \in Corr!Actions : <<"notification", h, f, b>> \in stream'
    <3>1. CASE f = e
      BY <1>4, <1>6, <1>8, <3>1 DEF CorrGrows, Held
    <3>2. CASE f \in complete
      <4>1. f \in Corr!FloodEvents
        BY <1>1, <3>2 DEF Corr!StoreOK
      <4> QED
        BY <1>6, <3>2, <4>1 DEF CorrInv, Corr!CompleteIsRecorded, CorrGrows, Held
    <3> QED
      BY <1>4, <2>1, <3>1, <3>2
  <2> QED
    BY <2>1 DEF Corr!CompleteIsRecorded
<1> QED
  BY <1>1, <1>2, <1>5, <1>6, <1>7, <1>9, CorrStep, RunOf

\* An evaluation that is deferred is of an incident that exists.
LEMMA DeferCorr ==
  ASSUME Corr!CorrelationAssumption,
         CorrInv, NEW h \in Handlers, Corr!Defer(h)
  PROVE  CorrInv'
<1>1. /\ h \in Corr!Procs /\ pr[h].pc = "defer" /\ pr' = [pr EXCEPT ![h] = Corr!Idle]
      /\ UNCHANGED <<revs, Corr!grouping, Corr!flood, complete, Corr!bounds>>
  BY DEF Corr!Procs, Corr!Defer, Corr!At
<1>2. PICK d \in Corr!FloodEvents : d = Corr!Event(h) /\ revs[d[1]] # 0
  <2>1. pr[h].inc \in Incidents /\ revs[pr[h].inc] # 0
    BY <1>1, RunOf DEF Settled
  <2>2. Corr!Event(h) \in Corr!FloodEvents /\ Corr!Event(h)[1] = pr[h].inc
    BY <1>1, EventOf DEF Corr!Event
  <2> QED
    BY <2>1, <2>2
<1>3. deferred \in Seq(Corr!FloodEvents)
  BY <1>1, RunOf DEF Corr!StoreOK
<1>4. /\ deferred' \in Seq(Corr!FloodEvents)
      /\ \A k \in 1..Len(deferred') : revs[deferred'[k][1]] # 0
  <2>1. CASE deferred' = deferred
    BY <1>3, <2>1 DEF CorrInv, NamesInv
  <2>2. CASE deferred' = Append(deferred, d)
    <3>1. /\ deferred' \in Seq(Corr!FloodEvents) /\ Len(deferred') = Len(deferred) + 1
          /\ \A k \in 1..Len(deferred) : deferred'[k] = deferred[k]
          /\ deferred'[Len(deferred) + 1] = d
      BY <1>3, <2>2
    <3>2. \A k \in 1..Len(deferred') : k \in 1..Len(deferred) \/ k = Len(deferred) + 1
      BY <1>3, <3>1
    <3> QED
      BY <1>2, <3>1, <3>2 DEF CorrInv, NamesInv
  <2> QED
    BY <1>2, <2>1, <2>2 DEF Corr!Defer
<1>5. Corr!StoreOK'
  BY <1>1, <1>4, RunOf DEF Corr!StoreOK, Corr!grouping, Corr!flood
<1>6. CorrGrows /\ Corr!MembersCountOnce' /\ WindowsInv'
  BY <1>1, StreamGrows DEF Corr!flood
<1>7. Corr!CompleteIsRecorded'
  BY <1>1, <1>6, StillComplete
<1>8. NamesInv'
  BY <1>1, <1>4 DEF CorrInv, NamesInv, Corr!grouping, Corr!Current
<1> QED
  BY <1>1, <1>5, <1>6, <1>7, <1>8, IdleRun, IdleSettled, CorrStep, RunOf

LEMMA MarkCorr ==
  ASSUME Corr!CorrelationAssumption,
         CorrInv, NEW w \in Workers, Corr!MarkReconciled(w)
  PROVE  CorrInv'
<1>1. w \in Corr!Procs
  BY DEF Corr!Procs
<1> QED
  BY <1>1, IdleRun, IdleSettled, CorrLocal, RunOf DEF Corr!MarkReconciled, Corr!StoreOK

LEMMA RefreshCorr ==
  ASSUME CorrInv, Corr!Refresh
  PROVE  CorrInv'
<1>1. /\ UNCHANGED <<revs, groups, decisions, windows, stream, deferred, complete, pr,
                     Corr!bounds>>
      /\ Corr!StoreOK
  BY DEF CorrInv, Corr!TypeOK, Corr!Refresh, Corr!RefreshGroups, Corr!RefreshDecisions, Corr!flood
<1>2. Corr!StoreOK'
  <2>1. CASE Corr!RefreshGroups
    <3>1. \A g \in Incidents : Corr!Current(g) \in Nat
      BY <1>1 DEF Corr!StoreOK, Corr!Current
    <3>2. /\ shownGroups' \in [Incidents -> Nat] /\ shownDecisions' = shownDecisions
          /\ \A g \in Incidents : shownGroups'[g] <= Len(groups'[g])
      BY <1>1, <2>1, <3>1 DEF Corr!RefreshGroups, Corr!Current
    <3> QED
      BY <1>1, <3>2 DEF Corr!StoreOK
  <2>2. CASE Corr!RefreshDecisions
    BY <1>1, <2>2 DEF Corr!RefreshDecisions, Corr!StoreOK
  <2> QED
    BY <2>1, <2>2 DEF Corr!Refresh
<1>3. Corr!TypeOK'
  BY <1>1, <1>2 DEF CorrInv, Corr!TypeOK, Corr!bounds
<1>4. NamesInv' /\ (\A p \in Corr!Procs : Settled(pr[p])')
  BY <1>1 DEF CorrInv, NamesInv, Settled, Corr!Current, Held, Corr!InWindow, Corr!WindowAt
<1>5. Corr!CompleteIsRecorded' /\ Corr!MembersCountOnce' /\ WindowsInv'
  BY <1>1, StillCounted, StillSuppressed DEF CorrInv, Corr!CompleteIsRecorded, Corr!InWindow, Corr!WindowAt
<1> QED
  BY <1>3, <1>4, <1>5 DEF CorrInv

-----------------------------------------------------------------------------
LEMMA InitCorr ==
  ASSUME Corr!CorrelationAssumption, Corr!Init
  PROVE  CorrInv
<1>1. \A g \in Incidents : groups[g] = <<>> /\ Corr!Current(g) = 0 /\ Corr!WindowAt(g, Len(windows[g])) = Corr!NoWindow
  BY DEF Corr!Init, Corr!Current, Corr!WindowAt
<1>2. Corr!StoreOK
  <2>1. <<>> \in Seq(Corr!Group) /\ <<>> \in Seq(Corr!Window) /\ <<>> \in Seq(Corr!FloodEvents)
    OBVIOUS
  <2> QED
    BY <1>1, <2>1, Constants DEF Corr!Init, Corr!StoreOK
<1>3. Corr!TypeOK
  BY <1>2, IdleRun, Constants DEF Corr!TypeOK, Corr!Init, Corr!Idle
<1>4. NamesInv /\ Corr!MembersCountOnce /\ Corr!CompleteIsRecorded
  BY <1>1 DEF NamesInv, Corr!MembersCountOnce, Corr!CompleteIsRecorded, Corr!Init
<1>5. WindowsInv
  <2>1. Corr!NoWindow.suppressed = 0 /\ {e \in Corr!NoWindow.events : e[1] \notin Bypass} = {}
    BY DEF Corr!NoWindow
  <2>2. Corr!Cardinality({e \in Corr!NoWindow.events : e[1] \notin Bypass}) = 0
    BY <2>1, FS_EmptySet, SameCardinality
  <2>3. ASSUME NEW g \in Incidents
        PROVE  LET w == Corr!WindowAt(g, Len(windows[g])) IN
               w.suppressed <= Corr!Cardinality({e \in w.events : e[1] \notin Bypass})
    <3>1. Corr!WindowAt(g, Len(windows[g])) = Corr!NoWindow
      BY <1>1
    <3> QED
      BY <2>1, <2>2, <3>1
  <2>4. CreatedInv
    BY DEF CreatedInv, Corr!Init
  <2> QED
    BY <2>3, <2>4 DEF WindowsInv, Corr!SuppressedOnce
<1>6. \A p \in Corr!Procs : Settled(pr[p])
  BY DEF Corr!Init, Settled, Corr!Idle, Placed, Decided
<1> QED
  BY <1>3, <1>4, <1>5, <1>6 DEF CorrInv

LEMMA NextCorr ==
  ASSUME Corr!CorrelationAssumption,
         CorrInv, [Corr!Next]_(Corr!vars)
  PROVE  CorrInv'
<1>1. ASSUME NEW h \in Handlers, NEW i \in Incidents, NEW n \in Corr!Revisions, Corr!Ingest(h, i, n)
      PROVE  CorrInv'
  BY <1>1, IngestCorr
<1>2. ASSUME NEW p \in Corr!Procs, Corr!Process(p)
      PROVE  CorrInv'
  BY <1>2, FindCorr, SelectCorr, CreateCorr, AppendDecisionCorr, AttachCorr, ReadWindowCorr,
     WriteWindowCorr, TransitionCorr, NotificationCorr DEF Corr!Process
<1>3. ASSUME NEW p \in Corr!Procs, Corr!Work(p) \/ Corr!Fail(p) \/ Corr!Crash(p)
      PROVE  CorrInv'
  BY <1>2, <1>3, DeferCorr, MarkCorr, ReconcileCorr, FailCorr DEF Corr!Work
<1>4. CASE Corr!Refresh
  BY <1>4, RefreshCorr
<1>5. CASE UNCHANGED Corr!vars
  <2>1. UNCHANGED <<revs, groups, shownGroups, decisions, shownDecisions, windows, stream, deferred,
                    complete, pr, handed, replays, faults>>
    BY <1>5 DEF Corr!vars, Corr!grouping, Corr!flood, Corr!bounds
  <2>2. Corr!TypeOK'
    BY <2>1 DEF CorrInv, Corr!TypeOK, Corr!StoreOK
  <2>3. NamesInv' /\ (\A p \in Corr!Procs : Settled(pr[p])')
    BY <2>1 DEF CorrInv, NamesInv, Settled, Corr!Current, Held, Corr!InWindow, Corr!WindowAt
  <2>4. Corr!CompleteIsRecorded' /\ Corr!MembersCountOnce' /\ WindowsInv'
    BY <2>1, StillCounted, StillSuppressed DEF CorrInv, Corr!CompleteIsRecorded, Corr!InWindow, Corr!WindowAt
  <2> QED
    BY <2>2, <2>3, <2>4 DEF CorrInv
<1>6. CASE Corr!Next
  BY <1>1, <1>3, <1>4, <1>6 DEF Corr!Next
<1> QED
  BY <1>5, <1>6

\* The invariant of the correlation holds in every reachable state.
THEOREM CorrInvariance ==
  ASSUME Corr!CorrelationAssumption
  PROVE  Corr!Spec => []CorrInv
<1>1. Corr!Init => CorrInv
  BY InitCorr
<1>2. CorrInv /\ [Corr!Next]_(Corr!vars) => CorrInv'
  BY NextCorr
<1> QED
  BY <1>1, <1>2, PTL DEF Corr!Spec

\* The documents of the correlation, and what its processes hold of them, are
\* of the declared shape, whatever races, failures and crashes they meet.
THEOREM CorrelationTypeCorrect ==
  ASSUME Corr!CorrelationAssumption
  PROVE  Corr!Spec => []Corr!TypeOK
<1>1. CorrInv => Corr!TypeOK
  BY DEF CorrInv
<1> QED
  BY <1>1, CorrInvariance, PTL

\* _attach_with_occ counts a member once, whoever races for the group.
THEOREM MembersOnce ==
  ASSUME Corr!CorrelationAssumption
  PROVE  Corr!Spec => []MembersCountOnce
<1>1. CorrInv => MembersCountOnce
  BY SameProperties DEF CorrInv
<1> QED
  BY <1>1, CorrInvariance, PTL

\* When process has returned for a revision, its decision, its event in the
\* window and its notification decision are stored, and stay; the one event that
\* may go is the event that created a window, and the window then is the first
\* document of its shard and has been replaced by a process that had not found it.
THEOREM CompleteRecorded ==
  ASSUME Corr!CorrelationAssumption
  PROVE  Corr!Spec => []CompleteIsRecorded
<1>1. CorrInv => CompleteIsRecorded
  BY SameProperties DEF CorrInv
<1> QED
  BY <1>1, CorrInvariance, PTL

\* evaluate_flood suppresses an event once, whoever replays it or races for
\* the window.
THEOREM SuppressedAtMostOnce ==
  ASSUME Corr!CorrelationAssumption
  PROVE  Corr!Spec => []SuppressedOnce
<1>1. CorrInv => SuppressedOnce
  BY SameProperties DEF CorrInv, WindowsInv
<1> QED
  BY <1>1, CorrInvariance, PTL
=============================================================================
