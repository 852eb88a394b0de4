----------------------- MODULE ProductOperationProofs -----------------------
(***************************************************************************)
(* Theorems about ProductOperation, for every set of requests, handlers    *)
(* and workers, whatever the requests ask for and whatever the bounds: a   *)
(* closed operation has all its evidence, the evidence is immutable, and   *)
(* the operations implement OperationContract.                             *)
(***************************************************************************)
EXTENDS ProductOperation, TLAPS

Marked(o) == event[o] \in {"api", "occurred"}
Closing == {"append", "repair", "final"}

\* What a process at work, with the fields x, relies on.  The part of a
\* request handler ends when the product is updated; what a reconciler has
\* found or written before a step is there, and stays, until the step.
\* The operation is closed as what it became.
AtWork(x) ==
  /\ x.pc \in {"plan", "state", "update", "product"} => x.gen = 0
  /\ x.pc \in {"plan", "state"} => Revision >= RevOf(x.job) - 1
  /\ x.pc \in {"load", "project", "mark", "event", "snapshot", "result"} => x.gen # 0
  /\ x.pc \in {"finish", "revdoc"} => x.tok # "none"
  /\ x.pc \in {"mark", "event"} => Reached(x.job)
  /\ x.pc = "finish" /\ x.gen # 0 => Reached(x.job) /\ event[x.job] # "none"
  /\ x.pc = "revdoc" /\ x.gen # 0 => Reached(x.job) /\ Marked(x.job)
  /\ x.pc \in {"snapshot", "result", "save"} =>
       Reached(x.job) /\ Marked(x.job) /\ revdoc[x.job] # "none"
  /\ x.pc = "save" => x.res # 0
InClosing(x) ==
  x.pc \in Closing =>
    /\ x.out \in Terminal
    /\ x.out = "superseded" => Revision > RevOf(x.job)
    /\ x.out = "applied" =>
         /\ Reached(x.job) /\ Marked(x.job) /\ revdoc[x.job] # "none"
         /\ x.res # 0 /\ result[x.job] = x.res
         /\ x.pc # "append" => proof[x.job].applied = x.res
         /\ x.pc = "final" => idem[ReqOf(x.job)] = Repaired(x.job, "applied", "none", x.res)
Sound(x) == x.pc # "idle" => AtWork(x) /\ InClosing(x)

\* The terminal event of an operation names its result.
ProofInv == \A o \in Ops : proof[o].applied # 0 => proof[o].applied = result[o]

IInv ==
  /\ TypeOK /\ ProofInv /\ ClosedIsBacked
  /\ \A p \in Procs : Sound(pr[p])

-----------------------------------------------------------------------------
(* Operations, records and what only grows.                                *)

LEMMA OpFields ==
  ASSUME NEW o \in Ops
  PROVE  /\ RevOf(o) \in 2..MaxRevision /\ RevOf(o) \in Nat /\ ReqOf(o) \in Requests
         /\ o = <<RevOf(o), ReqOf(o)>>
  BY ProductAssumption DEF Ops, Revs, RevOf, ReqOf

LEMMA NoOp == <<0, Nobody>> \notin Ops
  BY ProductAssumption DEF Ops, Revs

LEMMA TargetType == \A k \in Requests : Target[k] \in Lives
  BY ProductAssumption

LEMMA RepairedFields ==
  ASSUME NEW o \in Ops, NEW s \in Terminal, NEW e \in Errors \cup {"none"}, NEW n \in Nat
  PROVE  /\ Repaired(o, s, e, n) \in IdemRecord /\ Repaired(o, s, e, n).state # "none"
         /\ Repaired(o, s, e, n).state # "pending"
         /\ Repaired(o, s, e, n).state = "completed" => s = "applied"
         /\ s = "applied" => Repaired(o, s, e, n).rev = RevOf(o)
         /\ s = "applied" => Repaired(o, s, e, n) = Repaired(o, "applied", "none", n)
<1>1. RevOf(o) \in 0..MaxRevision /\ 0 \in 0..MaxRevision
  BY OpFields, ProductAssumption
<1>2. "none" \in Errors \cup {"none"}
  OBVIOUS
<1> QED
  BY <1>1, <1>2 DEF Repaired, IdemRecord, Terminal

LivesGrow ==
  /\ Revision \in Nat /\ Revision' \in Nat /\ Revision <= Revision'
  /\ \A r \in 1..Revision : lives'[r] = lives[r]
Closed(k) == idem[k].state \in {"completed", "superseded", "failed"}
EvidenceStays ==
  /\ \A k \in Requests : Closed(k) => idem'[k] = idem[k]
  /\ \A o \in Ops : /\ result[o] # 0 => result'[o] = result[o]
                    /\ proof[o].applied # 0 => proof'[o].applied = proof[o].applied
EventsStay ==
  \A o \in Ops : /\ event[o] # "none" => event'[o] # "none"
                 /\ Marked(o) => event'[o] = event[o]
                 /\ revdoc[o] # "none" => revdoc'[o] # "none"
StoreGrows == LivesGrow /\ EvidenceStays /\ EventsStay

LEMMA LivesType ==
  ASSUME StoreOK
  PROVE  Revision \in Nat /\ Revision \in 1..MaxRevision /\ lives \in Seq(Lives)
  BY DEF StoreOK, Revision

LEMMA LivesSame ==
  ASSUME StoreOK, lives' = lives
  PROVE  LivesGrow
  BY LivesType DEF LivesGrow, Revision

LEMMA LivesAdded ==
  ASSUME StoreOK, NEW s \in Lives, lives' = Append(lives, s), Revision < MaxRevision
  PROVE  /\ LivesGrow /\ lives' \in Seq(Lives) /\ Len(lives') \in 1..MaxRevision
         /\ Revision' = Revision + 1 /\ lives'[Revision + 1] = s
<1>1. Revision \in 1..MaxRevision /\ lives \in Seq(Lives) /\ MaxRevision \in Nat
  BY LivesType, ProductAssumption
<1>2. /\ lives' \in Seq(Lives) /\ Len(lives') = Len(lives) + 1
      /\ \A r \in 1..Len(lives) : lives'[r] = lives[r]
      /\ lives'[Len(lives) + 1] = s
  BY <1>1
<1> QED
  BY <1>1, <1>2 DEF Revision, LivesGrow

LEMMA ReachedStays ==
  ASSUME LivesGrow, NEW o \in Ops, Reached(o)
  PROVE  Reached(o)'
<1>1. RevOf(o) \in 1..Revision /\ RevOf(o) <= Revision'
  BY OpFields DEF Reached, LivesGrow
<1> QED
  BY <1>1 DEF Reached, LivesGrow, RevOf, ReqOf

LEMMA SoundStays ==
  ASSUME StoreGrows, NEW x \in Process, x.pc # "idle" => x.job \in Ops, Sound(x)
  PROVE  Sound(x)'
<1> SUFFICES ASSUME x.pc # "idle" PROVE AtWork(x)' /\ InClosing(x)'
  BY DEF Sound
<1>1. PICK o \in Ops : o = x.job
  OBVIOUS
<1>2. /\ Reached(o) => Reached(o)'
      /\ event[o] # "none" => event'[o] # "none"
      /\ Marked(o) => Marked(o)'
      /\ revdoc[o] # "none" => revdoc'[o] # "none"
  BY ReachedStays DEF StoreGrows, EventsStay, Marked
<1>3. Revision \in Nat /\ Revision' \in Nat /\ Revision <= Revision' /\ RevOf(o) \in Nat
  BY OpFields DEF StoreGrows, LivesGrow
<1>4. AtWork(x) /\ InClosing(x)
  BY DEF Sound
<1>5. AtWork(x)'
  BY <1>1, <1>2, <1>3, <1>4 DEF AtWork
<1>6. ASSUME x.pc \in Closing, x.out = "applied"
      PROVE  /\ Reached(o)' /\ Marked(o)' /\ revdoc'[o] # "none" /\ x.res # 0 /\ result'[o] = x.res
             /\ x.pc # "append" => proof'[o].applied = x.res
             /\ x.pc = "final" => idem'[ReqOf(o)] = Repaired(o, "applied", "none", x.res)
  <2>1. /\ Reached(o) /\ Marked(o) /\ revdoc[o] # "none" /\ x.res # 0 /\ result[o] = x.res
        /\ x.pc # "append" => proof[o].applied = x.res
        /\ x.pc = "final" => idem[ReqOf(o)] = Repaired(o, "applied", "none", x.res)
    BY <1>1, <1>4, <1>6 DEF InClosing
  <2>2. result'[o] = x.res /\ (x.pc # "append" => proof'[o].applied = x.res)
    BY <2>1 DEF StoreGrows, EvidenceStays
  <2>3. ASSUME x.pc = "final" PROVE idem'[ReqOf(o)] = Repaired(o, "applied", "none", x.res)
    <3>1. idem[ReqOf(o)].state = "completed" /\ ReqOf(o) \in Requests
      BY <2>1, <2>3, OpFields DEF Repaired
    <3> QED
      BY <2>1, <2>3, <3>1 DEF StoreGrows, EvidenceStays, Closed
  <2> QED
    BY <1>2, <2>1, <2>2, <2>3
<1>7. InClosing(x)'
  <2>1. x.pc \in Closing /\ x.out = "superseded" => Revision' > RevOf(o)
    BY <1>1, <1>3, <1>4 DEF InClosing
  <2>2. x.pc \in Closing => x.out \in Terminal
    BY <1>4 DEF InClosing
  <2> QED
    BY <1>1, <1>6, <2>1, <2>2 DEF InClosing, Repaired, RevOf, ReqOf
<1> QED
  BY <1>5, <1>7

-----------------------------------------------------------------------------
(* What a step of one process has to establish.                            *)

Backed(o) ==
  Reached(o) /\ Evidenced(o) /\ idem[ReqOf(o)] = Repaired(o, "applied", "none", result[o])
Promised(k) ==
  LET o == <<idem[k].rev, k>> IN o \in Ops /\ Reached(o) /\ Evidenced(o)

LEMMA ClosedMeans ==
  ClosedIsBacked <=> /\ \A o \in Ops : status[o] = "applied" => Backed(o)
                     /\ \A k \in Requests : idem[k].state = "completed" => Promised(k)
  BY DEF ClosedIsBacked, AppliedIsComplete, CompletedIsBacked, Backed, Promised

LEMMA EvidencedStays ==
  ASSUME StoreGrows, NEW o \in Ops, Reached(o), Evidenced(o)
  PROVE  Reached(o)' /\ Evidenced(o)' /\ result'[o] = result[o]
<1>1. Reached(o)'
  BY ReachedStays DEF StoreGrows
<1>2. /\ result'[o] = result[o] /\ proof'[o].applied = proof[o].applied
      /\ event'[o] = event[o] /\ revdoc'[o] # "none"
  BY DEF Evidenced, StoreGrows, EvidenceStays, EventsStay, Marked
<1> QED
  BY <1>1, <1>2 DEF Evidenced

LEMMA BackedStays ==
  ASSUME StoreGrows, NEW o \in Ops, Backed(o)
  PROVE  Backed(o)'
<1>1. Reached(o)' /\ Evidenced(o)' /\ result'[o] = result[o]
  BY EvidencedStays DEF Backed
<1>2. idem[ReqOf(o)].state = "completed" /\ ReqOf(o) \in Requests
  BY OpFields DEF Backed, Repaired
<1>3. idem'[ReqOf(o)] = Repaired(o, "applied", "none", result'[o])
  BY <1>1, <1>2 DEF Backed, StoreGrows, EvidenceStays, Closed
<1> QED
  BY <1>1, <1>3 DEF Backed, Repaired, RevOf, ReqOf

LEMMA PromisedStays ==
  ASSUME StoreGrows, NEW k \in Requests, idem[k].state = "completed", Promised(k)
  PROVE  Promised(k)'
<1>1. idem'[k] = idem[k]
  BY DEF StoreGrows, EvidenceStays, Closed
<1>2. PICK o \in Ops : o = <<idem[k].rev, k>> /\ Reached(o) /\ Evidenced(o)
  BY DEF Promised
<1>3. Reached(o)' /\ Evidenced(o)' /\ o = <<idem'[k].rev, k>>
  BY <1>1, <1>2, EvidencedStays
<1> QED
  BY <1>3 DEF Promised, Reached, Evidenced

LEMMA ClosedStays ==
  ASSUME ClosedIsBacked, StoreGrows,
         \A o \in Ops : status'[o] = "applied" => status[o] = "applied" \/ Backed(o)',
         \A k \in Requests : idem'[k].state = "completed" =>
           idem[k].state = "completed" \/ Promised(k)'
  PROVE  ClosedIsBacked'
<1>1. ASSUME NEW o \in Ops, status'[o] = "applied" PROVE Backed(o)'
  BY <1>1, ClosedMeans, BackedStays
<1>2. ASSUME NEW k \in Requests, idem'[k].state = "completed" PROVE Promised(k)'
  BY <1>2, ClosedMeans, PromisedStays
<1>3. /\ \A o \in Ops : status'[o] = "applied" => Backed(o)'
      /\ \A k \in Requests : idem'[k].state = "completed" => Promised(k)'
  BY <1>1, <1>2
<1> QED
  BY <1>3 DEF ClosedIsBacked, AppliedIsComplete, CompletedIsBacked, Backed, Promised

LEMMA ProofStays ==
  ASSUME ProofInv, StoreGrows, proof' = proof
  PROVE  ProofInv'
  BY DEF ProofInv, StoreGrows, EvidenceStays

\* What is to be shown of the documents: they are well typed, they grow, and
\* what is closed is backed.
StoreStep == StoreGrows /\ StoreOK' /\ ProofInv' /\ ClosedIsBacked'

LEMMA Keeps ==
  ASSUME IInv, NEW p \in Procs, NEW x \in Process, pr' = [pr EXCEPT ![p] = x],
         x.pc # "idle" => x.job \in Ops, Sound(x)', StoreStep,
         arrivals' \in 0..MaxArrivals, faults' \in 0..MaxFaults
  PROVE  IInv' /\ StoreStep
<1>1. /\ pr \in [Procs -> Process] /\ \A q \in Procs : pr[q].pc # "idle" => pr[q].job \in Ops
  BY DEF IInv, TypeOK, ProcessOK
<1>2. pr' \in [Procs -> Process] /\ pr'[p] = x /\ \A q \in Procs : q # p => pr'[q] = pr[q]
  BY <1>1
<1>3. ASSUME NEW q \in Procs PROVE Sound(pr[q])' /\ (pr'[q].pc # "idle" => pr'[q].job \in Ops)
  <2>1. CASE q = p
    BY <1>2, <2>1 DEF Sound, AtWork, InClosing, Reached, Marked
  <2>2. CASE q # p
    <3>1. PICK y \in Process : y = pr[q]
      BY <1>1
    <3>2. Sound(y) /\ (y.pc # "idle" => y.job \in Ops)
      BY <1>1, <3>1 DEF IInv
    <3>3. Sound(y)'
      BY <3>1, <3>2, SoundStays DEF StoreStep
    <3> QED
      BY <1>2, <2>2, <3>1, <3>2, <3>3 DEF Sound, AtWork, InClosing, Reached, Marked
  <2> QED
    BY <2>1, <2>2
<1> QED
  BY <1>2, <1>3 DEF IInv, StoreStep, TypeOK, ProcessOK

LEMMA StoreKeeps ==
  ASSUME IInv, pr' = pr, StoreStep, arrivals' \in 0..MaxArrivals, faults' \in 0..MaxFaults
  PROVE  IInv' /\ StoreStep
<1>1. ProcessOK /\ ProcessOK'
  BY DEF IInv, TypeOK, ProcessOK
<1>2. ASSUME NEW q \in Procs PROVE Sound(pr[q])'
  <2>1. PICK y \in Process : y = pr[q]
    BY <1>1 DEF ProcessOK
  <2>2. Sound(y) /\ (y.pc # "idle" => y.job \in Ops)
    BY <1>1, <2>1 DEF IInv, ProcessOK
  <2>3. Sound(y)'
    BY <2>1, <2>2, SoundStays DEF StoreStep
  <2> QED
    BY <2>1, <2>3 DEF Sound, AtWork, InClosing, Reached, Marked
<1> QED
  BY <1>1, <1>2 DEF IInv, StoreStep, TypeOK

LEMMA StoreSame ==
  ASSUME IInv, UNCHANGED store
  PROVE  StoreStep
<1>1. /\ StoreOK /\ ProofInv /\ ClosedIsBacked /\ lives' = lives /\ UNCHANGED <<seen, idem, plans, status>>
      /\ UNCHANGED <<gens, live, event, revdoc, newest, shown, result, proof>>
  BY DEF IInv, TypeOK, store, claims, events, evidence
<1>2. StoreGrows
  BY <1>1, LivesSame DEF StoreGrows, EvidenceStays, EventsStay
<1>3. StoreOK'
  BY <1>1 DEF StoreOK
<1> QED
  BY <1>1, <1>2, <1>3, ProofStays, ClosedStays DEF StoreStep

\* A process that returns.
LEMMA LeavingKeeps ==
  ASSUME IInv, NEW p \in Procs, Quit(p), StoreStep, arrivals' = arrivals, faults' \in 0..MaxFaults
  PROVE  IInv' /\ StoreStep
<1>1. Idle \in Process /\ Idle.pc = "idle"
  BY DEF Idle, Process, Steps
<1>2. Sound(Idle)'
  BY <1>1 DEF Sound
<1>3. arrivals' \in 0..MaxArrivals /\ pr' = [pr EXCEPT ![p] = Idle]
  BY DEF IInv, TypeOK, Quit
<1> QED
  BY <1>1, <1>2, <1>3, Keeps

-----------------------------------------------------------------------------
(* What becomes of a process.                                              *)

Becomes(p, x) == pr' = [pr EXCEPT ![p] = x]
SameJob(p, x) == x.job = pr[p].job /\ x.gen = pr[p].gen

LEMMA ProcessFields ==
  ASSUME ProcessOK, NEW p \in Procs
  PROVE  /\ pr \in [Procs -> Process] /\ pr[p] \in Process
         /\ pr[p].pc # "idle" => pr[p].job \in Ops
         /\ pr[p].gen \in Nat /\ pr[p].res \in Nat /\ pr[p].known \in Nat
         /\ pr[p].out \in Terminal \cup {"none"} /\ pr[p].err \in Errors \cup {"none"}
         /\ pr[p].tok \in {"none", "api", "occurred"}
<1>1. pr \in [Procs -> Process] /\ pr[p] \in Process /\ (pr[p].pc # "idle" => pr[p].job \in Ops)
  BY DEF ProcessOK
<1> QED
  BY <1>1 DEF Process

LEMMA Went ==
  ASSUME ProcessOK, NEW p \in Procs, NEW s \in Steps,
         Go(p, s)
  PROVE  \E x \in Process : /\ Becomes(p, x) /\ SameJob(p, x)
                            /\ x.tok = pr[p].tok /\ x.res = pr[p].res /\ x.out = pr[p].out /\ x.pc = s
<1> DEFINE y == [pr[p] EXCEPT !.pc = s]
<1>1. pr \in [Procs -> Process] /\ pr[p] \in Process
  BY ProcessFields
<1>2. /\ y \in Process /\ SameJob(p, y)
      /\ y.tok = pr[p].tok /\ y.res = pr[p].res /\ y.out = pr[p].out /\ y.pc = s
  BY <1>1 DEF Process, SameJob, Steps, Terminal, Errors
<1>3. Becomes(p, y)
  BY <1>1 DEF Becomes, Go, Raise
<1> HIDE DEF y
<1> QED
  BY <1>2, <1>3

LEMMA WentWithToken ==
  ASSUME ProcessOK, NEW p \in Procs, NEW t \in {"none", "api", "occurred"},
         pr' = [pr EXCEPT ![p].pc = "finish", ![p].tok = t]
  PROVE  \E x \in Process : /\ Becomes(p, x) /\ SameJob(p, x)
                            /\ x.pc = "finish" /\ x.tok = t
<1> DEFINE y == [pr[p] EXCEPT !.pc = "finish", !.tok = t]
<1>1. pr \in [Procs -> Process] /\ pr[p] \in Process
  BY ProcessFields
<1>2. /\ y \in Process /\ SameJob(p, y)
      /\ y.pc = "finish" /\ y.tok = t
  BY <1>1, ZenonT(40) DEF Process, SameJob, Steps, Terminal, Errors
<1>3. Becomes(p, y)
  BY <1>1 DEF Becomes, Go, Raise
<1> HIDE DEF y
<1> QED
  BY <1>2, <1>3

LEMMA WentWithOutcome ==
  ASSUME ProcessOK, NEW p \in Procs, NEW s \in Terminal,
         pr' = [pr EXCEPT ![p].pc = "append", ![p].out = s]
  PROVE  \E x \in Process : /\ Becomes(p, x) /\ SameJob(p, x)
                            /\ x.res = pr[p].res /\ x.pc = "append" /\ x.out = s
<1> DEFINE y == [pr[p] EXCEPT !.pc = "append", !.out = s]
<1>1. pr \in [Procs -> Process] /\ pr[p] \in Process
  BY ProcessFields
<1>2. /\ y \in Process /\ SameJob(p, y)
      /\ y.res = pr[p].res /\ y.pc = "append" /\ y.out = s
  BY <1>1 DEF Process, SameJob, Steps, Terminal, Errors
<1>3. Becomes(p, y)
  BY <1>1 DEF Becomes, Go, Raise
<1> HIDE DEF y
<1> QED
  BY <1>2, <1>3

LEMMA Raised ==
  ASSUME ProcessOK, NEW p \in Procs, NEW e \in Errors,
         Raise(p, e)
  PROVE  \E x \in Process : /\ Becomes(p, x) /\ SameJob(p, x)
                            /\ x.pc = "append" /\ x.out = "failed"
<1> DEFINE y == [pr[p] EXCEPT !.pc = "append", !.out = "failed", !.err = e]
<1>1. pr \in [Procs -> Process] /\ pr[p] \in Process
  BY ProcessFields
<1>2. /\ y \in Process /\ SameJob(p, y)
      /\ y.pc = "append" /\ y.out = "failed"
  BY <1>1 DEF Process, SameJob, Steps, Terminal, Errors
<1>3. Becomes(p, y)
  BY <1>1 DEF Becomes, Go, Raise
<1> HIDE DEF y
<1> QED
  BY <1>2, <1>3

LEMMA WentWithKnown ==
  ASSUME ProcessOK, NEW p \in Procs, NEW n \in Nat,
         pr' = [pr EXCEPT ![p].pc = "project", ![p].known = n]
  PROVE  \E x \in Process : /\ Becomes(p, x) /\ SameJob(p, x)
                            /\ x.pc = "project"
<1> DEFINE y == [pr[p] EXCEPT !.pc = "project", !.known = n]
<1>1. pr \in [Procs -> Process] /\ pr[p] \in Process
  BY ProcessFields
<1>2. /\ y \in Process /\ SameJob(p, y)
      /\ y.pc = "project"
  BY <1>1 DEF Process, SameJob, Steps, Terminal, Errors
<1>3. Becomes(p, y)
  BY <1>1 DEF Becomes, Go, Raise
<1> HIDE DEF y
<1> QED
  BY <1>2, <1>3

LEMMA WentWithResult ==
  ASSUME ProcessOK, NEW p \in Procs, NEW n \in Nat,
         pr' = [pr EXCEPT ![p].pc = "save", ![p].res = n]
  PROVE  \E x \in Process : /\ Becomes(p, x) /\ SameJob(p, x)
                            /\ x.pc = "save" /\ x.res = n
<1> DEFINE y == [pr[p] EXCEPT !.pc = "save", !.res = n]
<1>1. pr \in [Procs -> Process] /\ pr[p] \in Process
  BY ProcessFields
<1>2. /\ y \in Process /\ SameJob(p, y)
      /\ y.pc = "save" /\ y.res = n
  BY <1>1 DEF Process, SameJob, Steps, Terminal, Errors
<1>3. Becomes(p, y)
  BY <1>1 DEF Becomes, Go, Raise
<1> HIDE DEF y
<1> QED
  BY <1>2, <1>3

LEMMA Submitted ==
  ASSUME ProcessOK, NEW p \in Procs, NEW o \in Ops,
         pr' = [pr EXCEPT ![p] = [Idle EXCEPT !.pc = "plan", !.job = o]]
  PROVE  \E x \in Process : Becomes(p, x) /\ x.pc = "plan" /\ x.job = o /\ x.gen = 0
<1> DEFINE y == [Idle EXCEPT !.pc = "plan", !.job = o]
<1>1. y \in Process /\ y.pc = "plan" /\ y.job = o /\ y.gen = 0
  BY DEF Process, Idle, Steps
<1>2. Becomes(p, y)
  BY DEF Becomes
<1> HIDE DEF y
<1> QED
  BY <1>1, <1>2

LEMMA Claimed ==
  ASSUME ProcessOK, NEW p \in Procs, NEW o \in Ops, NEW g \in Nat,
         pr' = [pr EXCEPT ![p] = [Idle EXCEPT !.pc = "load", !.job = o, !.gen = g]]
  PROVE  \E x \in Process : Becomes(p, x) /\ x.pc = "load" /\ x.job = o /\ x.gen = g
<1> DEFINE y == [Idle EXCEPT !.pc = "load", !.job = o, !.gen = g]
<1>1. y \in Process /\ y.pc = "load" /\ y.job = o /\ y.gen = g
  BY DEF Process, Idle, Steps
<1>2. Becomes(p, y)
  BY DEF Becomes
<1> HIDE DEF y
<1> QED
  BY <1>1, <1>2

LEMMA AtStep ==
  ASSUME IInv, NEW p \in Procs, pr[p].pc # "idle"
  PROVE  /\ StoreOK /\ ProcessOK /\ ProofInv /\ ClosedIsBacked /\ pr[p].job \in Ops
         /\ AtWork(pr[p]) /\ InClosing(pr[p])
         /\ arrivals \in 0..MaxArrivals /\ faults \in 0..MaxFaults
  BY DEF IInv, TypeOK, ProcessOK, Sound

\* A step that changes no document.
LEMMA ProcessKeeps ==
  ASSUME IInv, NEW p \in Procs, NEW x \in Process, Becomes(p, x), x.pc # "idle" => x.job \in Ops,
         Sound(x), UNCHANGED <<store, arrivals, faults>>
  PROVE  IInv' /\ StoreStep
<1>1. StoreStep /\ arrivals' \in 0..MaxArrivals /\ faults' \in 0..MaxFaults
  BY StoreSame DEF IInv, TypeOK
<1>2. Sound(x)'
  BY <1>1, SoundStays DEF StoreStep
<1> QED
  BY <1>1, <1>2, Keeps DEF Becomes

\* The steps of a reconciler that only read, of one that gives way, and a crash.
LEMMA LeaveIInv ==
  ASSUME IInv, NEW p \in Procs, Quit(p), UNCHANGED <<store, arrivals>>, faults' \in 0..MaxFaults
  PROVE  IInv' /\ StoreStep
  BY StoreSame, LeavingKeeps

LEMMA LoadIInv ==
  ASSUME IInv, NEW p \in Procs, Load(p)
  PROVE  IInv' /\ StoreStep
<1>0. UNCHANGED <<store, arrivals, faults>> /\ pr[p].pc = "load"
  BY DEF Load, At
<1>1. /\ StoreOK /\ ProcessOK /\ pr[p].job \in Ops /\ AtWork(pr[p]) /\ faults \in 0..MaxFaults
  BY <1>0, AtStep
<1>2. CASE Quit(p)
  BY <1>0, <1>1, <1>2, LeaveIInv
<1>3. CASE ~Quit(p)
  <2>1. PICK n \in Nat : n = proof[pr[p].job].applied
    BY <1>1 DEF StoreOK, History
  <2>2. pr' = [pr EXCEPT ![p].pc = "project", ![p].known = n]
    BY <1>3, <2>1 DEF Load
  <2>3. PICK x \in Process : Becomes(p, x) /\ SameJob(p, x) /\ x.pc = "project"
    BY <1>1, <2>2, WentWithKnown
  <2>4. Sound(x)
    BY <1>0, <1>1, <2>3 DEF Sound, AtWork, InClosing, SameJob, Closing
  <2> QED
    BY <1>0, <1>1, <2>3, <2>4, ProcessKeeps DEF SameJob
<1> QED
  BY <1>2, <1>3

LEMMA MarkIInv ==
  ASSUME IInv, NEW p \in Procs, Mark(p)
  PROVE  IInv' /\ StoreStep
<1>0. UNCHANGED <<store, arrivals, faults>> /\ pr[p].pc = "mark"
  BY DEF Mark, At
<1>1. /\ StoreOK /\ ProcessOK /\ pr[p].job \in Ops /\ AtWork(pr[p]) /\ faults \in 0..MaxFaults
  BY <1>0, AtStep
<1>2. CASE Quit(p)
  BY <1>0, <1>1, <1>2, LeaveIInv
<1>3. CASE Go(p, "event")
  <2>1. PICK x \in Process : Becomes(p, x) /\ SameJob(p, x) /\ x.pc = "event"
    BY <1>1, <1>3, Went DEF Steps
  <2>2. Sound(x)
    BY <1>0, <1>1, <2>1 DEF Sound, AtWork, InClosing, SameJob, Closing
  <2> QED
    BY <1>0, <1>1, <2>1, <2>2, ProcessKeeps DEF SameJob
<1> QED
  BY <1>2, <1>3 DEF Mark

\* An operation that is found inconsistent is closed as failed.
LEMMA RaiseKeeps ==
  ASSUME IInv, NEW p \in Procs, pr[p].pc # "idle", NEW e \in Errors, Raise(p, e),
         UNCHANGED <<store, arrivals, faults>>
  PROVE  IInv' /\ StoreStep
<1>1. ProcessOK /\ pr[p].job \in Ops
  BY AtStep
<1>2. PICK x \in Process : Becomes(p, x) /\ SameJob(p, x) /\ x.pc = "append" /\ x.out = "failed"
  BY <1>1, Raised
<1>3. Sound(x)
  BY <1>2 DEF Sound, AtWork, InClosing, Terminal
<1> QED
  BY <1>1, <1>2, <1>3, ProcessKeeps DEF SameJob

LEMMA ReadEventIInv ==
  ASSUME IInv, NEW p \in Procs, ReadEvent(p)
  PROVE  IInv' /\ StoreStep
<1>0. UNCHANGED <<store, arrivals, faults>> /\ pr[p].pc = "event"
  BY DEF ReadEvent, At
<1>1. /\ StoreOK /\ ProcessOK /\ pr[p].job \in Ops /\ AtWork(pr[p]) /\ faults \in 0..MaxFaults
  BY <1>0, AtStep
<1>2. CASE Quit(p)
  BY <1>0, <1>1, <1>2, LeaveIInv
<1>3. CASE Raise(p, "revision_event_missing")
  BY <1>0, <1>3, RaiseKeeps DEF Errors
<1>4. CASE /\ event[pr[p].job] # "none"
           /\ pr' = [pr EXCEPT ![p].pc = "finish",
                               ![p].tok = IF event[pr[p].job] = "pending" THEN "occurred"
                                          ELSE event[pr[p].job]]
  <2>1. PICK t \in {"api", "occurred"} :
          t = (IF event[pr[p].job] = "pending" THEN "occurred" ELSE event[pr[p].job])
    BY <1>1, <1>4 DEF StoreOK
  <2>2. pr' = [pr EXCEPT ![p].pc = "finish", ![p].tok = t]
    BY <1>4, <2>1
  <2>3. PICK x \in Process : Becomes(p, x) /\ SameJob(p, x) /\ x.pc = "finish" /\ x.tok = t
    BY <1>1, <2>2, WentWithToken
  <2>4. Sound(x)
    BY <1>0, <1>1, <1>4, <2>3 DEF Sound, AtWork, InClosing, SameJob, Closing
  <2> QED
    BY <1>0, <1>1, <2>3, <2>4, ProcessKeeps DEF SameJob
<1> QED
  BY <1>2, <1>3, <1>4 DEF ReadEvent

LEMMA SnapshotIInv ==
  ASSUME IInv, NEW p \in Procs, Snapshot(p)
  PROVE  IInv' /\ StoreStep
<1>0. UNCHANGED <<store, arrivals, faults>> /\ pr[p].pc = "snapshot"
  BY DEF Snapshot, At
<1>1. /\ StoreOK /\ ProcessOK /\ pr[p].job \in Ops /\ AtWork(pr[p]) /\ faults \in 0..MaxFaults
  BY <1>0, AtStep
<1>2. CASE Quit(p)
  BY <1>0, <1>1, <1>2, LeaveIInv
<1>3. CASE Raise(p, "revision_snapshot_missing")
  BY <1>0, <1>3, RaiseKeeps DEF Errors
<1>4. CASE Go(p, "result")
  <2>1. PICK x \in Process : Becomes(p, x) /\ SameJob(p, x) /\ x.pc = "result"
    BY <1>1, <1>4, Went DEF Steps
  <2>2. Sound(x)
    BY <1>0, <1>1, <2>1 DEF Sound, AtWork, InClosing, SameJob, Closing
  <2> QED
    BY <1>0, <1>1, <2>1, <2>2, ProcessKeeps DEF SameJob
<1> QED
  BY <1>2, <1>3, <1>4 DEF Snapshot

LEMMA ReadResultIInv ==
  ASSUME IInv, NEW p \in Procs, ReadResult(p)
  PROVE  IInv' /\ StoreStep
<1>0. UNCHANGED <<store, arrivals, faults>> /\ pr[p].pc = "result"
  BY DEF ReadResult, At
<1>1. /\ StoreOK /\ ProcessOK /\ pr[p].job \in Ops /\ AtWork(pr[p]) /\ faults \in 0..MaxFaults
  BY <1>0, AtStep
<1>2. CASE Quit(p)
  BY <1>0, <1>1, <1>2, LeaveIInv
<1>3. CASE ~Quit(p)
  <2>1. PICK n \in Nat : n = (IF result[pr[p].job] = 0 THEN pr[p].gen ELSE result[pr[p].job])
    BY <1>1, ProcessFields DEF StoreOK
  <2>2. pr' = [pr EXCEPT ![p].pc = "save", ![p].res = n]
    BY <1>3, <2>1 DEF ReadResult
  <2>3. PICK x \in Process : Becomes(p, x) /\ SameJob(p, x) /\ x.pc = "save" /\ x.res = n
    BY <1>1, <2>2, WentWithResult
  <2>4. n # 0
    BY <1>0, <1>1, <2>1 DEF AtWork
  <2>5. Sound(x)
    BY <1>0, <1>1, <2>3, <2>4 DEF Sound, AtWork, InClosing, SameJob, Closing
  <2> QED
    BY <1>0, <1>1, <2>3, <2>5, ProcessKeeps DEF SameJob
<1> QED
  BY <1>2, <1>3

-----------------------------------------------------------------------------
(* The writes.                                                             *)

LEMMA LivesWritten ==
  ASSUME IInv, NEW s \in Lives, lives' = Append(lives, s), Revision < MaxRevision,
         UNCHANGED <<seen, plans, claims, events, evidence>>
  PROVE  StoreStep /\ Revision' = Revision + 1 /\ lives'[Revision + 1] = s
<1>1. /\ StoreOK /\ ProofInv /\ ClosedIsBacked
      /\ UNCHANGED <<seen, idem, plans, status, gens, live>>
      /\ UNCHANGED <<event, revdoc, newest, shown, result, proof>>
  BY DEF IInv, TypeOK, claims, events, evidence
<1>2. /\ LivesGrow /\ lives' \in Seq(Lives) /\ Len(lives') \in 1..MaxRevision
      /\ Revision' = Revision + 1 /\ lives'[Revision + 1] = s
  BY <1>1, LivesAdded
<1>3. StoreGrows
  BY <1>1, <1>2 DEF StoreGrows, EvidenceStays, EventsStay
<1>4. StoreOK'
  BY <1>1, <1>2 DEF StoreOK
<1> QED
  BY <1>1, <1>2, <1>3, <1>4, ProofStays, ClosedStays DEF StoreStep

LEMMA EventsWritten ==
  ASSUME IInv, EventsStay, UNCHANGED <<lives, seen, plans, claims, evidence>>,
         event' \in [Ops -> {"none", "pending", "api", "occurred"}],
         revdoc' \in [Ops -> {"none", "api", "occurred"}],
         newest' \in [Revs -> Requests \cup {Nobody}],
         shown' \in [Revs -> Requests \cup {Nobody}]
  PROVE  StoreStep
<1>1. /\ StoreOK /\ ProofInv /\ ClosedIsBacked
      /\ UNCHANGED <<lives, seen, idem, plans, status, gens, live, result, proof>>
  BY DEF IInv, TypeOK, claims, evidence
<1>2. StoreGrows
  BY <1>1, LivesSame DEF StoreGrows, EvidenceStays
<1>3. StoreOK'
  BY <1>1 DEF StoreOK
<1> QED
  BY <1>1, <1>2, <1>3, ProofStays, ClosedStays DEF StoreStep

\* The state documents: an operation is closed as applied when it is backed.
LEMMA ClaimsWritten ==
  ASSUME IInv, UNCHANGED <<lives, seen, plans, events, evidence>>,
         status' \in [Ops -> {"none", "pending", "claimed"} \cup Terminal],
         gens' \in [Ops -> Nat], live' \in [Ops -> BOOLEAN],
         \A o \in Ops : status'[o] = "applied" => status[o] = "applied" \/ Backed(o)
  PROVE  StoreStep
<1>1. /\ StoreOK /\ ProofInv /\ ClosedIsBacked
      /\ UNCHANGED <<lives, seen, idem, plans, event, revdoc, newest, shown, result, proof>>
  BY DEF IInv, TypeOK, events, evidence
<1>2. StoreGrows
  BY <1>1, LivesSame DEF StoreGrows, EvidenceStays, EventsStay
<1>3. StoreOK'
  BY <1>1 DEF StoreOK
<1>4. \A o \in Ops : Backed(o) => Backed(o)'
  BY <1>2, BackedStays
<1> QED
  BY <1>1, <1>2, <1>3, <1>4, ProofStays, ClosedStays DEF StoreStep

LEMMA PlansWritten ==
  ASSUME IInv, plans' \in [Ops -> 0..2], UNCHANGED <<lives, seen, claims, events, evidence>>
  PROVE  StoreStep
<1>1. /\ StoreOK /\ ProofInv /\ ClosedIsBacked
      /\ UNCHANGED <<lives, seen, idem, status, gens, live>>
      /\ UNCHANGED <<event, revdoc, newest, shown, result, proof>>
  BY DEF IInv, TypeOK, claims, events, evidence
<1>2. StoreGrows
  BY <1>1, LivesSame DEF StoreGrows, EvidenceStays, EventsStay
<1>3. StoreOK'
  BY <1>1 DEF StoreOK
<1> QED
  BY <1>1, <1>2, <1>3, ProofStays, ClosedStays DEF StoreStep

\* The idempotency records: one that is closed is not changed, and one that
\* becomes completed names an operation that has all its evidence.
LEMMA IdemWritten ==
  ASSUME IInv, NEW k \in Requests, NEW rec \in IdemRecord, idem' = [idem EXCEPT ![k] = rec],
         UNCHANGED <<lives, plans, claims, events, result, proof>>,
         seen' \in [Requests -> 0..(MaxRevision - 1)], Closed(k) => rec = idem[k],
         rec.state = "completed" =>
           idem[k].state = "completed" \/ \E o \in Ops : o = <<rec.rev, k>> /\ Reached(o) /\ Evidenced(o)
  PROVE  StoreStep /\ idem'[k] = rec
<1>1. /\ StoreOK /\ ProofInv /\ ClosedIsBacked
      /\ UNCHANGED <<lives, plans, status, gens, live, event, revdoc, newest, shown, result, proof>>
  BY DEF IInv, TypeOK, claims, events
<1>2. /\ idem' \in [Requests -> IdemRecord] /\ idem'[k] = rec
      /\ \A j \in Requests : j # k => idem'[j] = idem[j]
  BY <1>1 DEF StoreOK
<1>3. StoreGrows
  BY <1>1, <1>2, LivesSame DEF StoreGrows, EvidenceStays, EventsStay
<1>4. StoreOK'
  BY <1>1, <1>2 DEF StoreOK
<1>5. ASSUME NEW j \in Requests, idem'[j].state = "completed"
      PROVE  idem[j].state = "completed" \/ Promised(j)'
  <2>1. CASE j # k \/ idem[k].state = "completed"
    BY <1>2, <1>5, <2>1
  <2>2. CASE j = k /\ idem[k].state # "completed"
    <3>1. PICK o \in Ops : o = <<rec.rev, k>> /\ Reached(o) /\ Evidenced(o)
      BY <1>2, <1>5, <2>2
    <3>2. Reached(o)' /\ Evidenced(o)' /\ o = <<idem'[j].rev, j>>
      BY <1>2, <1>3, <2>2, <3>1, EvidencedStays
    <3> QED
      BY <3>2 DEF Promised, Reached, Evidenced
  <2> QED
    BY <2>1, <2>2
<1> QED
  BY <1>1, <1>2, <1>3, <1>4, <1>5, ProofStays, ClosedStays DEF StoreStep

\* The result, written once.
LEMMA ResultWritten ==
  ASSUME IInv, NEW o \in Ops, NEW n \in Nat, result' = [result EXCEPT ![o] = n],
         result[o] \in {0, n}, UNCHANGED <<lives, seen, plans, claims, events, idem, proof>>
  PROVE  StoreStep /\ result'[o] = n
<1>1. /\ StoreOK /\ ProofInv /\ ClosedIsBacked
      /\ UNCHANGED <<lives, seen, idem, plans, status, gens, live>>
      /\ UNCHANGED <<event, revdoc, newest, shown, proof>>
  BY DEF IInv, TypeOK, claims, events
<1>2. /\ result' \in [Ops -> Nat] /\ result'[o] = n
      /\ \A q \in Ops : q # o => result'[q] = result[q]
  BY <1>1 DEF StoreOK
<1>3. StoreGrows
  BY <1>1, <1>2, LivesSame DEF StoreGrows, EvidenceStays, EventsStay
<1>4. StoreOK'
  BY <1>1, <1>2 DEF StoreOK
<1> QED
  BY <1>1, <1>2, <1>3, <1>4, ProofStays, ClosedStays DEF StoreStep

\* The history: a terminal "applied" event is written once and names the result.
LEMMA ProofWritten ==
  ASSUME IInv, NEW o \in Ops, NEW h \in History, proof' = [proof EXCEPT ![o] = h],
         UNCHANGED <<lives, seen, plans, claims, events, idem, result>>,
         proof[o].applied # 0 => h.applied = proof[o].applied,
         h.applied # 0 => h.applied = result[o]
  PROVE  StoreStep /\ proof'[o] = h
<1>1. /\ StoreOK /\ ProofInv /\ ClosedIsBacked
      /\ UNCHANGED <<lives, seen, idem, plans, status, gens, live>>
      /\ UNCHANGED <<event, revdoc, newest, shown, result>>
  BY DEF IInv, TypeOK, claims, events
<1>2. /\ proof' \in [Ops -> History] /\ proof'[o] = h
      /\ \A q \in Ops : q # o => proof'[q] = proof[q]
  BY <1>1 DEF StoreOK
<1>3. StoreGrows
  BY <1>1, <1>2, LivesSame DEF StoreGrows, EvidenceStays, EventsStay
<1>4. StoreOK'
  BY <1>1, <1>2 DEF StoreOK
<1>5. ProofInv'
  BY <1>1, <1>2 DEF ProofInv
<1> QED
  BY <1>1, <1>2, <1>3, <1>4, <1>5, ClosedStays DEF StoreStep

-----------------------------------------------------------------------------
(* The steps of a request handler.                                         *)

LEMMA SubmitIInv ==
  ASSUME IInv, NEW h \in Handlers, NEW k \in Requests, NEW r \in 1..MaxRevision, Submit(h, k, r)
  PROVE  IInv' /\ StoreStep
<1>0. /\ StoreOK /\ ProcessOK /\ h \in Procs /\ faults' \in 0..MaxFaults
      /\ UNCHANGED <<lives, plans, claims, events, result, proof>> /\ Revision < MaxRevision
      /\ Revision \in Nat /\ MaxRevision \in Nat
  BY LivesType, ProductAssumption DEF IInv, TypeOK, Submit, Procs
<1>1. arrivals' \in 0..MaxArrivals
  BY ProductAssumption DEF IInv, TypeOK, Submit
<1>2. seen' \in [Requests -> 0..(MaxRevision - 1)]
  <2>1. seen \in [Requests -> 0..(MaxRevision - 1)] /\ seen' = [seen EXCEPT ![k] = r]
    BY <1>0 DEF StoreOK, Submit
  <2>2. r \in 1..Revision \/ r = seen[k]
    BY DEF Submit
  <2>3. r \in 0..(MaxRevision - 1)
    BY <1>0, <2>1, <2>2
  <2> QED
    BY <2>1, <2>3
<1>3. StoreStep
  <2> DEFINE t == IF idem[k].state = "none" THEN "pending" ELSE idem[k].state
             rec == [idem[k] EXCEPT !.state = t]
  <2>1. idem \in [Requests -> IdemRecord] /\ idem[k] \in IdemRecord
    BY <1>0 DEF StoreOK
  <2>2. t \in {"pending", "completed", "superseded", "failed"}
    BY <2>1 DEF IdemRecord
  <2>3. idem' = [idem EXCEPT ![k] = rec]
    BY <2>1 DEF Submit
  <2>4. Closed(k) => t = idem[k].state
    BY DEF Closed
  <2>5. t = "completed" => idem[k].state = "completed"
    OBVIOUS
  <2> HIDE DEF t
  <2>6. rec \in IdemRecord /\ rec.state = t
    BY <2>1, <2>2 DEF IdemRecord
  <2>7. Closed(k) => rec = idem[k]
    BY <2>1, <2>4 DEF IdemRecord
  <2> HIDE DEF rec
  <2> QED
    BY <1>0, <1>2, <2>3, <2>5, <2>6, <2>7, IdemWritten
<1>4. CASE pr' = pr
  BY <1>0, <1>1, <1>3, <1>4, StoreKeeps
<1>5. CASE pr' = [pr EXCEPT ![h] = [Idle EXCEPT !.pc = "plan", !.job = <<Revision + 1, k>>]]
  <2>0. PICK n \in Revs : n = Revision + 1
    BY <1>0, LivesType DEF Revs
  <2>1. PICK o \in Ops : o = <<Revision + 1, k>>
    BY <2>0 DEF Ops
  <2>2. PICK x \in Process : Becomes(h, x) /\ x.pc = "plan" /\ x.job = o /\ x.gen = 0
    BY <1>0, <1>5, <2>1, Submitted
  <2>3. RevOf(o) = Revision + 1 /\ Revision' = Revision
    BY <1>0, <2>1 DEF RevOf, Revision
  <2>4. Revision' >= RevOf(o) - 1
    BY <1>0, <2>3
  <2>5. Sound(x)'
    BY <2>2, <2>4 DEF Sound, AtWork, InClosing, Closing, RevOf
  <2> QED
    BY <1>0, <1>1, <1>3, <2>2, <2>5, Keeps DEF Becomes
<1> QED
  BY <1>4, <1>5 DEF Submit

LEMMA SavePlanIInv ==
  ASSUME IInv, NEW h \in Procs, SavePlan(h)
  PROVE  IInv' /\ StoreStep
<1>0. /\ pr[h].pc = "plan" /\ UNCHANGED <<lives, seen, claims, events, evidence, arrivals, faults>>
      /\ Go(h, "state")
  BY DEF SavePlan, At
<1>1. /\ StoreOK /\ ProcessOK /\ AtWork(pr[h]) /\ arrivals' \in 0..MaxArrivals
      /\ faults' \in 0..MaxFaults
  BY <1>0, AtStep
<1>2. PICK o \in Ops : o = pr[h].job
  BY <1>0, AtStep
<1>3. StoreStep
  <2>1. plans \in [Ops -> 0..2] /\ plans' = [plans EXCEPT ![o] = IF plans[o] < 2 THEN plans[o] + 1 ELSE plans[o]]
    BY <1>1, <1>2 DEF StoreOK, SavePlan
  <2>2. (IF plans[o] < 2 THEN plans[o] + 1 ELSE plans[o]) \in 0..2
    BY <2>1
  <2>3. plans' \in [Ops -> 0..2]
    BY <2>1, <2>2
  <2> QED
    BY <1>0, <2>3, PlansWritten
<1>4. PICK x \in Process : Becomes(h, x) /\ SameJob(h, x) /\ x.pc = "state"
  BY <1>0, <1>1, Went DEF Steps
<1>5. Sound(x)
  BY <1>0, <1>1, <1>4 DEF Sound, AtWork, InClosing, SameJob, Closing
<1>6. Sound(x)'
  BY <1>2, <1>3, <1>4, <1>5, SoundStays DEF StoreStep, SameJob
<1> QED
  BY <1>1, <1>2, <1>3, <1>4, <1>6, Keeps DEF Becomes, SameJob

LEMMA CreateStateIInv ==
  ASSUME IInv, NEW h \in Procs, CreateState(h)
  PROVE  IInv' /\ StoreStep
<1>0. /\ pr[h].pc = "state"
      /\ UNCHANGED <<lives, seen, plans, gens, live, events, evidence, arrivals, faults>>
  BY DEF CreateState, At
<1>1. /\ StoreOK /\ ProcessOK /\ AtWork(pr[h]) /\ arrivals' \in 0..MaxArrivals
      /\ faults' \in 0..MaxFaults
  BY <1>0, AtStep
<1>2. PICK o \in Ops : o = pr[h].job
  BY <1>0, AtStep
<1>3. CASE Fresh(pr[h].job)
  <2>1. status' = [status EXCEPT ![o] = "pending"] /\ Go(h, "update")
    BY <1>2, <1>3 DEF CreateState
  <2>2. /\ status' \in [Ops -> {"none", "pending", "claimed"} \cup Terminal]
        /\ \A q \in Ops : status'[q] = "applied" => status[q] = "applied"
        /\ gens' \in [Ops -> Nat] /\ live' \in [Ops -> BOOLEAN]
    BY <1>0, <1>1, <2>1 DEF StoreOK
  <2>3. StoreStep
    BY <1>0, <2>2, ClaimsWritten
  <2>4. PICK x \in Process : Becomes(h, x) /\ SameJob(h, x) /\ x.pc = "update"
    BY <1>1, <2>1, Went DEF Steps
  <2>5. Sound(x)
    BY <1>0, <1>1, <2>4 DEF Sound, AtWork, InClosing, SameJob, Closing
  <2>6. Sound(x)'
    BY <1>2, <2>3, <2>4, <2>5, SoundStays DEF StoreStep, SameJob
  <2> QED
    BY <1>1, <1>2, <2>3, <2>4, <2>6, Keeps DEF Becomes, SameJob
<1>4. CASE ~Fresh(pr[h].job)
  <2>1. Quit(h) /\ status' = status
    BY <1>4 DEF CreateState
  <2> QED
    BY <1>0, <1>1, <2>1, LeaveIInv DEF store, claims
<1> QED
  BY <1>3, <1>4

LEMMA BeginOperationIInv ==
  ASSUME IInv, NEW h \in Procs, BeginOperation(h)
  PROVE  IInv' /\ StoreStep
<1>0. /\ pr[h].pc = "update"
      /\ UNCHANGED <<lives, seen, plans, claims, revdoc, shown, evidence, arrivals, faults>>
  BY DEF BeginOperation, At
<1>1. /\ StoreOK /\ ProcessOK /\ AtWork(pr[h]) /\ arrivals' \in 0..MaxArrivals
      /\ faults' \in 0..MaxFaults
  BY <1>0, AtStep
<1>2. PICK o \in Ops : o = pr[h].job
  BY <1>0, AtStep
<1>3. CASE Current(ReqOf(pr[h].job))
  <2>1. /\ event \in [Ops -> {"none", "pending", "api", "occurred"}]
        /\ event' = [event EXCEPT ![o] = IF event[o] = "none" THEN "pending" ELSE event[o]]
        /\ newest' = [newest EXCEPT ![RevOf(o)] = ReqOf(o)] /\ Go(h, "product")
    BY <1>1, <1>2, <1>3 DEF BeginOperation, StoreOK
  <2>2. event' \in [Ops -> {"none", "pending", "api", "occurred"}] /\ EventsStay
    BY <1>0, <2>1 DEF EventsStay, Marked
  <2>3. newest' \in [Revs -> Requests \cup {Nobody}]
    BY <1>1, <2>1, OpFields DEF StoreOK
  <2>4. shown' \in [Revs -> Requests \cup {Nobody}] /\ revdoc' \in [Ops -> {"none", "api", "occurred"}]
    BY <1>0, <1>1 DEF StoreOK
  <2>5. StoreStep
    BY <1>0, <2>2, <2>3, <2>4, EventsWritten
  <2>6. PICK x \in Process : Becomes(h, x) /\ SameJob(h, x) /\ x.pc = "product"
    BY <1>1, <2>1, Went DEF Steps
  <2>7. Sound(x)
    BY <1>0, <1>1, <2>6 DEF Sound, AtWork, InClosing, SameJob, Closing
  <2>8. Sound(x)'
    BY <1>2, <2>5, <2>6, <2>7, SoundStays DEF StoreStep, SameJob
  <2> QED
    BY <1>1, <1>2, <2>5, <2>6, <2>8, Keeps DEF Becomes, SameJob
<1>4. CASE ~Current(ReqOf(pr[h].job))
  <2>1. Quit(h) /\ event' = event /\ newest' = newest
    BY <1>4 DEF BeginOperation
  <2> QED
    BY <1>0, <1>1, <2>1, LeaveIInv DEF store, events
<1> QED
  BY <1>3, <1>4

LEMMA UpdateProductIInv ==
  ASSUME IInv, NEW h \in Procs, UpdateProduct(h)
  PROVE  IInv' /\ StoreStep
<1>0. /\ pr[h].pc = "product" /\ UNCHANGED <<seen, plans, claims, events, evidence, arrivals, faults>>
  BY DEF UpdateProduct, At
<1>1. /\ StoreOK /\ ProcessOK /\ AtWork(pr[h]) /\ arrivals' \in 0..MaxArrivals
      /\ faults' \in 0..MaxFaults
  BY <1>0, AtStep
<1>2. PICK o \in Ops : o = pr[h].job
  BY <1>0, AtStep
<1>3. CASE Current(ReqOf(pr[h].job))
  <2>1. PICK s \in Lives : s = Target[ReqOf(o)]
    BY TargetType, OpFields
  <2>2. /\ lives' = Append(lives, s)
        /\ pr' = [pr EXCEPT ![h].pc = "finish", ![h].tok = "api"]
    BY <1>2, <1>3, <2>1 DEF UpdateProduct
  <2>3. Revision < MaxRevision
    <3>1. ReqOf(o) \in Requests /\ seen[ReqOf(o)] = Revision
      BY <1>2, <1>3, OpFields DEF Current
    <3>2. Revision \in 0..(MaxRevision - 1)
      BY <1>1, <3>1 DEF StoreOK
    <3> QED
      BY <3>2, ProductAssumption
  <2>4. StoreStep
    BY <1>0, <2>2, <2>3, LivesWritten
  <2>5. PICK x \in Process : Becomes(h, x) /\ SameJob(h, x) /\ x.pc = "finish" /\ x.tok = "api"
    BY <1>1, <2>2, WentWithToken
  <2>6. x.gen = 0
    BY <1>0, <1>1, <2>5 DEF AtWork, SameJob
  <2>7. Sound(x)
    BY <2>5, <2>6 DEF Sound, AtWork, InClosing, Closing
  <2>8. Sound(x)'
    BY <1>2, <2>4, <2>5, <2>7, SoundStays DEF StoreStep, SameJob
  <2> QED
    BY <1>1, <1>2, <2>4, <2>5, <2>8, Keeps DEF Becomes, SameJob
<1>4. CASE ~Current(ReqOf(pr[h].job))
  <2>1. Quit(h) /\ lives' = lives
    BY <1>4 DEF UpdateProduct
  <2> QED
    BY <1>0, <1>1, <2>1, LeaveIInv DEF store
<1> QED
  BY <1>3, <1>4

-----------------------------------------------------------------------------
(* The steps of a reconciler.                                              *)

LEMMA FinishEventIInv ==
  ASSUME IInv, NEW p \in Procs, FinishEvent(p)
  PROVE  IInv' /\ StoreStep
<1>0. /\ pr[p].pc = "finish" /\ Go(p, "revdoc")
      /\ UNCHANGED <<lives, seen, plans, claims, revdoc, newest, shown, evidence, arrivals, faults>>
  BY DEF FinishEvent, At
<1>1. /\ StoreOK /\ ProcessOK /\ AtWork(pr[p]) /\ arrivals' \in 0..MaxArrivals
      /\ faults' \in 0..MaxFaults
  BY <1>0, AtStep
<1>2. PICK o \in Ops : o = pr[p].job
  BY <1>0, AtStep
<1>3. PICK t \in {"api", "occurred"} : t = pr[p].tok
  BY <1>0, <1>1, ProcessFields DEF AtWork
<1>4. /\ event \in [Ops -> {"none", "pending", "api", "occurred"}]
      /\ event' = [event EXCEPT ![o] = IF event[o] = "pending" THEN t ELSE event[o]]
  BY <1>1, <1>2, <1>3 DEF FinishEvent, StoreOK
<1>5. /\ event' \in [Ops -> {"none", "pending", "api", "occurred"}] /\ EventsStay
      /\ event[o] # "none" => event'[o] \in {"api", "occurred"}
  BY <1>0, <1>4 DEF EventsStay, Marked
<1>6. StoreStep
  BY <1>0, <1>1, <1>5, EventsWritten DEF StoreOK
<1>7. PICK x \in Process : /\ Becomes(p, x) /\ SameJob(p, x) /\ x.pc = "revdoc"
                           /\ x.tok = pr[p].tok
  BY <1>0, <1>1, Went DEF Steps
<1>8. x.gen # 0 => Reached(o)' /\ Marked(o)'
  <2>1. x.gen # 0 => Reached(o) /\ event[o] # "none"
    BY <1>0, <1>1, <1>2, <1>7 DEF AtWork, SameJob
  <2>2. Reached(o) => Reached(o)'
    BY <1>6, ReachedStays DEF StoreStep, StoreGrows
  <2> QED
    BY <1>5, <2>1, <2>2 DEF Marked
<1>9. Sound(x)'
  BY <1>2, <1>3, <1>7, <1>8 DEF Sound, AtWork, InClosing, SameJob, Closing, Reached, Marked
<1> QED
  BY <1>1, <1>2, <1>6, <1>7, <1>9, Keeps DEF Becomes, SameJob

LEMMA FinishRevisionIInv ==
  ASSUME IInv, NEW p \in Procs, FinishRevision(p)
  PROVE  IInv' /\ StoreStep
<1>0. /\ pr[p].pc = "revdoc"
      /\ UNCHANGED <<lives, seen, plans, claims, event, newest, shown, evidence, arrivals, faults>>
  BY DEF FinishRevision, At
<1>1. /\ StoreOK /\ ProcessOK /\ AtWork(pr[p]) /\ arrivals' \in 0..MaxArrivals
      /\ faults' \in 0..MaxFaults
  BY <1>0, AtStep
<1>2. PICK o \in Ops : o = pr[p].job
  BY <1>0, AtStep
<1>3. PICK t \in {"api", "occurred"} : t = pr[p].tok
  BY <1>0, <1>1, ProcessFields DEF AtWork
<1>4. CASE revdoc[o] \in {"none", t}
  <2>1. /\ revdoc' = [revdoc EXCEPT ![o] = t]
        /\ Go(p, IF pr[p].gen = 0 THEN "claim" ELSE "snapshot")
    BY <1>2, <1>3, <1>4 DEF FinishRevision
  <2>2. /\ revdoc' \in [Ops -> {"none", "api", "occurred"}] /\ EventsStay /\ revdoc'[o] # "none"
    BY <1>0, <1>1, <2>1 DEF EventsStay, Marked, StoreOK
  <2>3. StoreStep
    BY <1>0, <1>1, <2>2, EventsWritten DEF StoreOK
  <2>4. PICK s \in Steps : s = (IF pr[p].gen = 0 THEN "claim" ELSE "snapshot")
    BY DEF Steps
  <2>5. PICK x \in Process : Becomes(p, x) /\ SameJob(p, x) /\ x.pc = s
    BY <1>1, <2>1, <2>4, Went
  <2>6. x.gen # 0 => Reached(o)' /\ Marked(o)'
    <3>1. x.gen # 0 => Reached(o) /\ Marked(o)
      BY <1>0, <1>1, <1>2, <2>5 DEF AtWork, SameJob
    <3>2. Reached(o) => Reached(o)'
      BY <2>3, ReachedStays DEF StoreStep, StoreGrows
    <3> QED
      BY <1>0, <3>1, <3>2 DEF Marked
  <2>7. CASE x.gen = 0
    <3>1. x.pc = "claim"
      BY <2>4, <2>5, <2>7 DEF SameJob
    <3>2. Sound(x)'
      BY <3>1 DEF Sound, AtWork, InClosing, Closing
    <3> QED
      BY <1>1, <1>2, <2>3, <2>5, <3>2, Keeps DEF Becomes, SameJob
  <2>8. CASE x.gen # 0
    <3>1. x.pc = "snapshot"
      BY <2>4, <2>5, <2>8 DEF SameJob
    <3>2. Sound(x)'
      BY <1>2, <2>2, <2>5, <2>6, <2>8, <3>1
         DEF Sound, AtWork, InClosing, Closing, SameJob, Reached, Marked
    <3> QED
      BY <1>1, <1>2, <2>3, <2>5, <3>2, Keeps DEF Becomes, SameJob
  <2> QED
    BY <2>7, <2>8
<1>5. CASE revdoc[o] \notin {"none", t}
  <2>1. Quit(p) /\ revdoc' = revdoc
    BY <1>2, <1>3, <1>5 DEF FinishRevision
  <2> QED
    BY <1>0, <1>1, <2>1, LeaveIInv DEF store, events
<1> QED
  BY <1>4, <1>5

LEMMA ClaimIInv ==
  ASSUME IInv, NEW p \in Procs, NEW o \in Ops, Claim(p, o)
  PROVE  IInv' /\ StoreStep
<1>1. /\ StoreOK /\ ProcessOK /\ arrivals' \in 0..MaxArrivals /\ faults' \in 0..MaxFaults
      /\ UNCHANGED <<lives, seen, plans, events, evidence>>
  BY DEF IInv, TypeOK, Claim
<1>2. PICK g \in Nat : g = gens[o] + 1 /\ g # 0
  BY <1>1 DEF StoreOK
<1>3. /\ status' = [status EXCEPT ![o] = "claimed"] /\ live' = [live EXCEPT ![o] = TRUE]
      /\ gens' = [gens EXCEPT ![o] = g]
      /\ pr' = [pr EXCEPT ![p] = [Idle EXCEPT !.pc = "load", !.job = o, !.gen = g]]
  BY <1>1, <1>2 DEF Claim, StoreOK
<1>4. /\ status' \in [Ops -> {"none", "pending", "claimed"} \cup Terminal]
      /\ \A q \in Ops : status'[q] = "applied" => status[q] = "applied"
      /\ gens' \in [Ops -> Nat] /\ live' \in [Ops -> BOOLEAN]
  BY <1>1, <1>3 DEF StoreOK
<1>5. StoreStep
  BY <1>1, <1>4, ClaimsWritten
<1>6. PICK x \in Process : Becomes(p, x) /\ x.pc = "load" /\ x.job = o /\ x.gen = g
  BY <1>1, <1>3, Claimed, ZenonT(40)
<1>7. Sound(x)'
  BY <1>2, <1>6 DEF Sound, AtWork, InClosing, Closing
<1> QED
  BY <1>1, <1>5, <1>6, <1>7, Keeps DEF Becomes

\* The record of operation o is closed as o was, or was closed before.
LEMMA RepairedStore ==
  ASSUME IInv, NEW o \in Ops, NEW s \in Terminal, NEW e \in Errors \cup {"none"}, NEW n \in Nat,
         Repairable(o, Repaired(o, s, e, n)),
         idem' = [idem EXCEPT ![ReqOf(o)] = Repaired(o, s, e, n)],
         s = "applied" => Reached(o) /\ Evidenced(o),
         UNCHANGED <<lives, seen, plans, claims, events, result, proof>>
  PROVE  StoreStep /\ idem'[ReqOf(o)] = Repaired(o, s, e, n)
<1>1. PICK rec \in IdemRecord : rec = Repaired(o, s, e, n)
  BY RepairedFields
<1>2. PICK k \in Requests : k = ReqOf(o)
  BY OpFields
<1>3. idem' = [idem EXCEPT ![k] = rec] /\ (idem[k].state = "pending" \/ idem[k] = rec)
  BY <1>1, <1>2 DEF Repairable
<1>4. rec.state = "completed" => \E q \in Ops : q = <<rec.rev, k>> /\ Reached(q) /\ Evidenced(q)
  <2>1. ASSUME rec.state = "completed" PROVE o = <<rec.rev, k>> /\ Reached(o) /\ Evidenced(o)
    <3>1. s = "applied" /\ rec.rev = RevOf(o)
      BY <1>1, <2>1, RepairedFields
    <3> QED
      BY <1>2, <3>1, OpFields
  <2> QED
    BY <2>1
<1>5. seen' \in [Requests -> 0..(MaxRevision - 1)] /\ (Closed(k) => rec = idem[k])
  BY <1>3 DEF IInv, TypeOK, StoreOK, Closed
<1>6. StoreStep /\ idem'[k] = rec
  BY <1>3, <1>4, <1>5, IdemWritten
<1> QED
  BY <1>1, <1>2, <1>6

LEMMA RevisitIInv ==
  ASSUME IInv, NEW p \in Procs, NEW o \in Ops, Revisit(p, o)
  PROVE  IInv' /\ StoreStep
<1>1. /\ StoreOK /\ ClosedIsBacked /\ arrivals' = arrivals /\ faults' \in 0..MaxFaults /\ Quit(p)
      /\ UNCHANGED <<lives, seen, plans, claims, events, result, proof>> /\ status[o] \in Terminal
  BY DEF IInv, TypeOK, Revisit
<1>2. CASE idem' = idem
  BY <1>1, <1>2, LeaveIInv DEF store, evidence
<1>3. CASE idem' # idem
  <2>1. PICK s \in Terminal, e \in Errors \cup {"none"}, n \in Nat :
          s = status[o] /\ e = ErrorOf(o) /\ n = result[o]
    <3>1. ErrorOf(o) \in Errors \cup {"none"} /\ result[o] \in Nat
      BY <1>1 DEF ErrorOf, StoreOK, History
    <3> QED
      BY <1>1, <3>1
  <2>2. /\ Repairable(o, Repaired(o, s, e, n))
        /\ idem' = [idem EXCEPT ![ReqOf(o)] = Repaired(o, s, e, n)]
    BY <1>3, <2>1 DEF Revisit
  <2>3. s = "applied" => Reached(o) /\ Evidenced(o)
    BY <1>1, <2>1, ClosedMeans DEF Backed
  <2>4. StoreStep
    BY <1>1, <2>2, <2>3, RepairedStore
  <2> QED
    BY <1>1, <2>4, LeavingKeeps
<1> QED
  BY <1>2, <1>3

LEMMA ClosedStore ==
  ASSUME IInv, NEW p \in Procs, pr[p].pc # "idle", NEW s \in Terminal, CloseState(p, s),
         s = "applied" => Backed(pr[p].job),
         UNCHANGED <<lives, seen, plans, gens, events, evidence>>
  PROVE  StoreStep
<1>1. StoreOK
  BY AtStep
<1>2. PICK o \in Ops : o = pr[p].job
  BY AtStep
<1>3. \/ status' = [status EXCEPT ![o] = s] /\ live' = [live EXCEPT ![o] = FALSE]
      \/ status' = status /\ live' = live
  BY <1>2 DEF CloseState
<1>4. /\ status' \in [Ops -> {"none", "pending", "claimed"} \cup Terminal]
      /\ live' \in [Ops -> BOOLEAN] /\ gens' \in [Ops -> Nat]
  BY <1>1, <1>3, ZenonT(40) DEF StoreOK
<1>5. ASSUME NEW q \in Ops, status'[q] = "applied" PROVE status[q] = "applied" \/ Backed(q)
  <2>1. CASE q = o
    BY <1>1, <1>2, <1>3, <1>5, <2>1 DEF StoreOK
  <2>2. CASE q # o
    BY <1>1, <1>3, <1>5, <2>2 DEF StoreOK
  <2> QED
    BY <2>1, <2>2
<1> QED
  BY <1>4, <1>5, ClaimsWritten

LEMMA ExhaustIInv ==
  ASSUME IInv, NEW p \in Procs, Exhaust(p)
  PROVE  IInv' /\ StoreStep
<1>1. /\ pr[p].pc = "load" /\ Quit(p) /\ CloseState(p, "failed")
      /\ UNCHANGED <<lives, seen, plans, gens, events, evidence, arrivals, faults>>
      /\ faults \in 0..MaxFaults
  BY DEF Exhaust, At, IInv, TypeOK
<1>2. StoreStep
  BY <1>1, ClosedStore DEF Terminal
<1> QED
  BY <1>1, <1>2, LeavingKeeps

LEMMA FinalizeIInv ==
  ASSUME IInv, NEW p \in Procs, Finalize(p)
  PROVE  IInv' /\ StoreStep
<1>1. /\ pr[p].pc = "final" /\ Quit(p) /\ CloseState(p, pr[p].out)
      /\ UNCHANGED <<lives, seen, plans, gens, events, evidence, arrivals, faults>>
  BY DEF Finalize, At
<1>2. InClosing(pr[p]) /\ faults' \in 0..MaxFaults
  BY <1>1, AtStep
<1>3. PICK s \in Terminal : s = pr[p].out
  BY <1>1, <1>2 DEF InClosing, Closing
<1>4. s = "applied" => Backed(pr[p].job)
  BY <1>1, <1>2, <1>3 DEF InClosing, Closing, Backed, Evidenced, Marked
<1>5. StoreStep
  BY <1>1, <1>3, <1>4, ClosedStore
<1> QED
  BY <1>1, <1>2, <1>5, LeavingKeeps

LEMMA ProjectIInv ==
  ASSUME IInv, NEW p \in Procs, Project(p)
  PROVE  IInv' /\ StoreStep
<1>0. /\ pr[p].pc = "project" /\ UNCHANGED <<seen, plans, claims, events, evidence, arrivals, faults>>
  BY DEF Project, At
<1>1. /\ StoreOK /\ ProcessOK /\ AtWork(pr[p]) /\ arrivals' \in 0..MaxArrivals
      /\ faults' \in 0..MaxFaults
  BY <1>0, AtStep
<1>2. PICK o \in Ops : o = pr[p].job
  BY <1>0, AtStep
<1>3. RevOf(o) \in 2..MaxRevision /\ ReqOf(o) \in Requests /\ Revision \in Nat /\ MaxRevision \in Nat
  BY <1>1, OpFields, LivesType, ProductAssumption
<1>4. lives' = lives => UNCHANGED <<store, arrivals, faults>>
  BY <1>0 DEF store
<1>5. CASE Revision = RevOf(o) - 1 /\ lives' = Append(lives, Target[ReqOf(o)]) /\ Go(p, "mark")
  <2>1. PICK s \in Lives : s = Target[ReqOf(o)]
    BY <1>3, TargetType
  <2>11. PICK r \in 2..MaxRevision : r = RevOf(o)
    BY <1>3
  <2>12. lives' = Append(lives, s) /\ Revision = r - 1 /\ Go(p, "mark")
    BY <1>5, <2>1, <2>11
  <2>13. Revision < MaxRevision /\ Revision + 1 = r
    BY <1>3, <2>12
  <2>2. StoreStep /\ Revision' = Revision + 1 /\ lives'[Revision + 1] = s
    BY <1>0, <2>12, <2>13, LivesWritten
  <2>3. Revision' = RevOf(o) /\ lives'[RevOf(o)] = s
    BY <2>2, <2>11, <2>13
  <2>4. Reached(o)'
    BY <1>3, <2>1, <2>3 DEF Reached, RevOf, ReqOf
  <2>5. PICK x \in Process : Becomes(p, x) /\ SameJob(p, x) /\ x.pc = "mark"
    BY <1>1, <1>5, Went DEF Steps
  <2>6. x.gen # 0
    BY <1>0, <1>1, <2>5 DEF AtWork, SameJob
  <2>7. Sound(x)'
    BY <1>2, <2>4, <2>5, <2>6 DEF Sound, AtWork, InClosing, SameJob, Closing, Reached
  <2> QED
    BY <1>1, <1>2, <2>2, <2>5, <2>7, Keeps DEF Becomes, SameJob
<1>6. CASE Raise(p, "projection_diverged") /\ lives' = lives
  BY <1>0, <1>4, <1>6, RaiseKeeps DEF Errors
<1>7. CASE Revision = RevOf(o) /\ AtTarget(o) /\ Go(p, "event") /\ lives' = lives
  <2>1. Reached(o)
    BY <1>3, <1>7 DEF Reached, AtTarget
  <2>2. PICK x \in Process : Becomes(p, x) /\ SameJob(p, x) /\ x.pc = "event"
    BY <1>1, <1>7, Went DEF Steps
  <2>3. Sound(x)
    BY <1>0, <1>1, <1>2, <2>1, <2>2 DEF Sound, AtWork, InClosing, SameJob, Closing
  <2> QED
    BY <1>2, <1>4, <1>7, <2>2, <2>3, ProcessKeeps DEF SameJob
<1>8. CASE /\ Revision > RevOf(o) /\ lives' = lives
           /\ pr' = [pr EXCEPT ![p].pc = "append", ![p].out = "superseded"]
  <2>1. PICK x \in Process : Becomes(p, x) /\ SameJob(p, x) /\ x.pc = "append" /\ x.out = "superseded"
    BY <1>1, <1>8, WentWithOutcome DEF Terminal
  <2>2. Sound(x)
    BY <1>2, <1>8, <2>1 DEF Sound, AtWork, InClosing, SameJob, Terminal
  <2> QED
    BY <1>2, <1>4, <1>8, <2>1, <2>2, ProcessKeeps DEF SameJob
<1>9. CASE Quit(p) /\ lives' = lives
  BY <1>1, <1>4, <1>9, LeaveIInv
<1> QED
  BY <1>2, <1>5, <1>6, <1>7, <1>8, <1>9 DEF Project

LEMMA SaveResultIInv ==
  ASSUME IInv, NEW p \in Procs, SaveResult(p)
  PROVE  IInv' /\ StoreStep
<1>0. /\ pr[p].pc = "save"
      /\ UNCHANGED <<lives, seen, plans, claims, events, idem, proof, arrivals, faults>>
  BY DEF SaveResult, At
<1>1. /\ StoreOK /\ ProcessOK /\ AtWork(pr[p]) /\ arrivals' \in 0..MaxArrivals
      /\ faults' \in 0..MaxFaults
  BY <1>0, AtStep
<1>2. PICK o \in Ops : o = pr[p].job
  BY <1>0, AtStep
<1>3. PICK n \in Nat : n = pr[p].res
  BY <1>1, ProcessFields
<1>4. n # 0 /\ Reached(o) /\ Marked(o) /\ revdoc[o] # "none"
  BY <1>0, <1>1, <1>2, <1>3 DEF AtWork
<1>5. CASE result[o] \in {0, n}
  <2>1. /\ result' = [result EXCEPT ![o] = n]
        /\ pr' = [pr EXCEPT ![p].pc = "append", ![p].out = "applied"]
    BY <1>2, <1>3, <1>5 DEF SaveResult
  <2>2. StoreStep /\ result'[o] = n
    BY <1>0, <1>5, <2>1, ResultWritten
  <2>3. PICK x \in Process : /\ Becomes(p, x) /\ SameJob(p, x)
                             /\ x.res = pr[p].res /\ x.pc = "append" /\ x.out = "applied"
    BY <1>1, <2>1, WentWithOutcome DEF Terminal
  <2>4. Reached(o)' /\ Marked(o)' /\ revdoc'[o] # "none"
    BY <1>4, <2>2, ReachedStays DEF StoreStep, StoreGrows, EventsStay, Marked
  <2>5. Sound(x)'
    BY <1>2, <1>3, <1>4, <2>2, <2>3, <2>4
       DEF Sound, AtWork, InClosing, SameJob, Terminal, Reached, Marked
  <2> QED
    BY <1>1, <1>2, <2>2, <2>3, <2>5, Keeps DEF Becomes, SameJob
<1>6. CASE result[o] \notin {0, n}
  <2>1. Quit(p) /\ result' = result
    BY <1>2, <1>3, <1>6 DEF SaveResult
  <2> QED
    BY <1>0, <1>1, <2>1, LeaveIInv DEF store, evidence
<1> QED
  BY <1>5, <1>6

LEMMA AppendedFields ==
  ASSUME ProcessOK, StoreOK, NEW p \in Procs, NEW o \in Ops, o = pr[p].job, pr[p].out \in Terminal
  PROVE  /\ Appended(p) \in History
         /\ pr[p].out # "applied" => Appended(p).applied = proof[o].applied
         /\ pr[p].out = "applied" =>
              Appended(p).applied = (IF proof[o].applied = 0 THEN pr[p].res ELSE proof[o].applied)
<1>1. pr[p].res \in Nat /\ pr[p].err \in Errors \cup {"none"}
  BY ProcessFields
<1>2. PICK old \in History : old = proof[o]
  BY DEF StoreOK
<1>3. CASE pr[p].out = "applied"
  <2>1. Appended(p) = [old EXCEPT !.applied = IF old.applied = 0 THEN pr[p].res ELSE old.applied]
    BY <1>2, <1>3 DEF Appended
  <2> QED
    BY <1>1, <1>2, <1>3, <2>1 DEF History
<1>4. CASE pr[p].out = "superseded"
  <2>1. Appended(p) = [old EXCEPT !.superseded = TRUE]
    BY <1>2, <1>4 DEF Appended
  <2> QED
    BY <1>2, <1>4, <2>1 DEF History
<1>5. CASE pr[p].out = "failed"
  <2>1. Appended(p) = [old EXCEPT !.failed = pr[p].err]
    BY <1>2, <1>5 DEF Appended
  <2> QED
    BY <1>1, <1>2, <1>5, <2>1 DEF History
<1> QED
  BY <1>3, <1>4, <1>5 DEF Terminal

LEMMA AppendHistoryIInv ==
  ASSUME IInv, NEW p \in Procs, AppendHistory(p)
  PROVE  IInv' /\ StoreStep
<1>0. /\ pr[p].pc = "append"
      /\ UNCHANGED <<lives, seen, plans, claims, events, idem, result, arrivals, faults>>
  BY DEF AppendHistory, At
<1>1. /\ StoreOK /\ ProcessOK /\ ProofInv /\ InClosing(pr[p]) /\ arrivals' \in 0..MaxArrivals
      /\ faults' \in 0..MaxFaults
  BY <1>0, AtStep
<1>2. PICK o \in Ops : o = pr[p].job
  BY <1>0, AtStep
<1>3. pr[p].out \in Terminal
  BY <1>0, <1>1 DEF InClosing, Closing
<1>4. CASE MayAppend(p)
  <2>1. PICK h \in History : h = Appended(p)
    BY <1>1, <1>2, <1>3, AppendedFields
  <2>2. /\ pr[p].out # "applied" => h.applied = proof[o].applied
        /\ pr[p].out = "applied" =>
             h.applied = (IF proof[o].applied = 0 THEN pr[p].res ELSE proof[o].applied)
    BY <1>1, <1>2, <1>3, <2>1, AppendedFields
  <2>3. proof' = [proof EXCEPT ![o] = h] /\ Go(p, "repair")
    BY <1>2, <1>4, <2>1 DEF AppendHistory
  <2>4. proof[o].applied # 0 => proof[o].applied = result[o]
    BY <1>1 DEF ProofInv
  <2>5. pr[p].out = "applied" => result[o] = pr[p].res /\ pr[p].res # 0
    BY <1>0, <1>1, <1>2 DEF InClosing, Closing
  <2>6. /\ proof[o].applied # 0 => h.applied = proof[o].applied
        /\ h.applied # 0 => h.applied = result[o]
        /\ pr[p].out = "applied" => h.applied = pr[p].res
    BY <2>2, <2>4, <2>5
  <2>7. StoreStep /\ proof'[o] = h
    BY <1>0, <2>3, <2>6, ProofWritten
  <2>8. PICK x \in Process : /\ Becomes(p, x) /\ SameJob(p, x) /\ x.pc = "repair"
                             /\ x.res = pr[p].res /\ x.out = pr[p].out
    BY <1>1, <2>3, Went DEF Steps
  <2>9. PICK y \in Process : y = pr[p]
    BY <1>1, ProcessFields
  <2>10. InClosing(y)'
    <3>1. Sound(y) /\ (y.pc # "idle" => y.job \in Ops)
      BY <1>0, <1>2, <2>9 DEF IInv
    <3>2. Sound(y)'
      BY <2>7, <3>1, SoundStays DEF StoreStep
    <3> QED
      BY <1>0, <2>9, <3>2 DEF Sound
  <2>11. Sound(x)'
    BY <1>0, <1>2, <2>6, <2>7, <2>8, <2>9, <2>10
       DEF Sound, AtWork, InClosing, SameJob, Closing, Terminal, Reached, Marked
  <2> QED
    BY <1>1, <1>2, <2>7, <2>8, <2>11, Keeps DEF Becomes, SameJob
<1>5. CASE ~MayAppend(p)
  <2>1. Quit(p) /\ proof' = proof
    BY <1>5 DEF AppendHistory
  <2> QED
    BY <1>0, <1>1, <2>1, LeaveIInv DEF store, evidence
<1> QED
  BY <1>4, <1>5

LEMMA RepairIInv ==
  ASSUME IInv, NEW p \in Procs, Repair(p)
  PROVE  IInv' /\ StoreStep
<1>0. /\ pr[p].pc = "repair"
      /\ UNCHANGED <<lives, seen, plans, claims, events, result, proof, arrivals, faults>>
  BY DEF Repair, At
<1>1. /\ StoreOK /\ ProcessOK /\ InClosing(pr[p]) /\ arrivals' \in 0..MaxArrivals
      /\ faults' \in 0..MaxFaults
  BY <1>0, AtStep
<1>2. PICK o \in Ops : o = pr[p].job
  BY <1>0, AtStep
<1>3. PICK s \in Terminal, e \in Errors \cup {"none"}, n \in Nat :
        s = pr[p].out /\ e = pr[p].err /\ n = pr[p].res
  BY <1>0, <1>1, ProcessFields DEF InClosing, Closing
<1>4. CASE Repairable(o, Repaired(o, s, e, n))
  <2>1. idem' = [idem EXCEPT ![ReqOf(o)] = Repaired(o, s, e, n)] /\ Go(p, "final")
    BY <1>2, <1>3, <1>4 DEF Repair
  <2>2. s = "applied" => Reached(o) /\ Evidenced(o)
    BY <1>0, <1>1, <1>2, <1>3 DEF InClosing, Closing, Evidenced, Marked
  <2>3. StoreStep /\ idem'[ReqOf(o)] = Repaired(o, s, e, n)
    BY <1>0, <1>4, <2>1, <2>2, RepairedStore
  <2>4. s = "applied" => idem'[ReqOf(o)] = Repaired(o, "applied", "none", n)
    BY <2>3, RepairedFields
  <2>5. PICK x \in Process : /\ Becomes(p, x) /\ SameJob(p, x) /\ x.pc = "final"
                             /\ x.res = pr[p].res /\ x.out = pr[p].out
    BY <1>1, <2>1, Went DEF Steps
  <2>6. PICK y \in Process : y = pr[p]
    BY <1>1, ProcessFields
  <2>7. InClosing(y)'
    <3>1. Sound(y) /\ (y.pc # "idle" => y.job \in Ops)
      BY <1>0, <1>2, <2>6 DEF IInv
    <3>2. Sound(y)'
      BY <2>3, <3>1, SoundStays DEF StoreStep
    <3> QED
      BY <1>0, <2>6, <3>2 DEF Sound
  <2>8. AtWork(x)'
    BY <2>5 DEF AtWork
  <2>9. InClosing(x)'
    BY <1>0, <1>2, <1>3, <2>4, <2>5, <2>6, <2>7
       DEF InClosing, SameJob, Closing, Reached, Marked, ReqOf, RevOf, Repaired
  <2>10. Sound(x)'
    BY <2>8, <2>9 DEF Sound
  <2> QED
    BY <1>1, <1>2, <2>3, <2>5, <2>10, Keeps DEF Becomes, SameJob
<1>5. CASE ~Repairable(o, Repaired(o, s, e, n))
  <2>1. Quit(p) /\ idem' = idem
    BY <1>2, <1>3, <1>5 DEF Repair
  <2> QED
    BY <1>0, <1>1, <2>1, LeaveIInv DEF store, evidence
<1> QED
  BY <1>4, <1>5

-----------------------------------------------------------------------------
(* The surroundings.                                                       *)

LEMMA EditIInv ==
  ASSUME IInv, Edit
  PROVE  IInv' /\ StoreStep
<1>1. /\ StoreOK /\ Revision \in 1..Revision /\ Revision < MaxRevision /\ pr' = pr
      /\ UNCHANGED <<seen, plans, claims, events, evidence>>
      /\ arrivals' \in 0..MaxArrivals /\ faults' \in 0..MaxFaults
  BY LivesType DEF IInv, TypeOK, Edit
<1>2. PICK s \in Lives : s = lives[Revision]
  BY <1>1, LivesType DEF Revision
<1>3. lives' = Append(lives, s)
  BY <1>2 DEF Edit
<1>4. StoreStep
  BY <1>1, <1>3, LivesWritten
<1> QED
  BY <1>1, <1>4, StoreKeeps

LEMMA RefreshIInv ==
  ASSUME IInv, Refresh
  PROVE  IInv' /\ StoreStep
<1>1. /\ StoreOK /\ pr' = pr /\ UNCHANGED <<lives, seen, plans, claims, evidence>>
      /\ UNCHANGED <<event, revdoc, newest>> /\ shown' = newest
      /\ arrivals' \in 0..MaxArrivals /\ faults' \in 0..MaxFaults
  BY DEF IInv, TypeOK, Refresh
<1>2. EventsStay
  BY <1>1 DEF EventsStay
<1>3. StoreStep
  BY <1>1, <1>2, EventsWritten DEF StoreOK
<1> QED
  BY <1>1, <1>3, StoreKeeps

LEMMA ExpireIInv ==
  ASSUME IInv, NEW o \in Ops, Expire(o)
  PROVE  IInv' /\ StoreStep
<1>1. /\ StoreOK /\ pr' = pr /\ UNCHANGED <<lives, seen, plans, events, evidence>>
      /\ status' = status /\ gens' = gens /\ live' = [live EXCEPT ![o] = FALSE]
      /\ arrivals' \in 0..MaxArrivals
  BY DEF IInv, TypeOK, Expire
<1>2. faults' \in 0..MaxFaults
  BY ProductAssumption DEF IInv, TypeOK, Expire
<1>3. StoreStep
  BY <1>1, ClaimsWritten DEF StoreOK
<1> QED
  BY <1>1, <1>2, <1>3, StoreKeeps

LEMMA CrashIInv ==
  ASSUME IInv, NEW p \in Procs, Crash(p)
  PROVE  IInv' /\ StoreStep
<1>1. Quit(p) /\ UNCHANGED <<store, arrivals>> /\ faults' \in 0..MaxFaults
  BY ProductAssumption DEF IInv, TypeOK, Crash
<1> QED
  BY <1>1, LeaveIInv

LEMMA YieldIInv ==
  ASSUME IInv, NEW p \in Procs, Yield(p)
  PROVE  IInv' /\ StoreStep
<1>1. Quit(p) /\ UNCHANGED <<store, arrivals>> /\ faults' \in 0..MaxFaults
  BY DEF IInv, TypeOK, Yield
<1> QED
  BY <1>1, LeaveIInv

-----------------------------------------------------------------------------
(* The theorems.                                                           *)

LEMMA InitIInv == Init => IInv
<1> SUFFICES ASSUME Init PROVE IInv
  OBVIOUS
<1>1. lives = <<"draft">> /\ "draft" \in Lives /\ MaxRevision \in Nat \ {0}
  BY ProductAssumption DEF Init, Lives
<1>2. lives \in Seq(Lives) /\ Len(lives) = 1
  BY <1>1
<1>3. Len(lives) \in 1..MaxRevision /\ 0 \in 0..(MaxRevision - 1) /\ 0 \in 0..MaxRevision
  BY <1>1, <1>2
<1>4. idem \in [Requests -> IdemRecord] /\ \A k \in Requests : idem[k].state = "none"
  BY <1>3 DEF Init, NoRecord, IdemRecord
<1>5. proof \in [Ops -> History] /\ \A o \in Ops : proof[o].applied = 0
  BY DEF Init, History
<1>6. StoreOK
  BY <1>2, <1>3, <1>4, <1>5 DEF Init, StoreOK
<1>7. ProcessOK /\ \A p \in Procs : Sound(pr[p])
  BY DEF Init, ProcessOK, Sound, Idle, Process, Steps
<1>8. arrivals \in 0..MaxArrivals /\ faults \in 0..MaxFaults
  BY ProductAssumption DEF Init
<1>9. ClosedIsBacked
  BY <1>4, ClosedMeans DEF Init
<1> QED
  BY <1>5, <1>6, <1>7, <1>8, <1>9 DEF IInv, TypeOK, ProofInv

LEMMA NextIInv ==
  ASSUME IInv, [Next]_vars
  PROVE  IInv' /\ StoreStep
<1>1. Handlers \subseteq Procs
  BY DEF Procs
<1>2. CASE \E h \in Handlers, k \in Requests, r \in 1..MaxRevision : Submit(h, k, r)
  BY <1>2, SubmitIInv
<1>3. ASSUME NEW h \in Handlers, HandlerStep(h) PROVE IInv' /\ StoreStep
  BY <1>1, <1>3, SavePlanIInv, CreateStateIInv, BeginOperationIInv, UpdateProductIInv, YieldIInv
     DEF HandlerStep
<1>4. ASSUME NEW p \in Procs, ReconcileStep(p) PROVE IInv' /\ StoreStep
  <2>1. CASE \E o \in Ops : Claim(p, o) \/ Revisit(p, o)
    BY <2>1, ClaimIInv, RevisitIInv
  <2>2. CASE Exhaust(p) \/ Load(p) \/ Project(p) \/ Mark(p) \/ ReadEvent(p)
    BY <2>2, ExhaustIInv, LoadIInv, ProjectIInv, MarkIInv, ReadEventIInv
  <2>3. CASE FinishEvent(p) \/ FinishRevision(p) \/ Snapshot(p) \/ ReadResult(p)
    BY <2>3, FinishEventIInv, FinishRevisionIInv, SnapshotIInv, ReadResultIInv
  <2>4. CASE SaveResult(p) \/ AppendHistory(p) \/ Repair(p) \/ Finalize(p)
    BY <2>4, SaveResultIInv, AppendHistoryIInv, RepairIInv, FinalizeIInv
  <2> QED
    BY <1>4, <2>1, <2>2, <2>3, <2>4 DEF ReconcileStep
<1>5. CASE Edit \/ Refresh
  BY <1>5, EditIInv, RefreshIInv
<1>6. CASE \E o \in Ops : Expire(o)
  BY <1>6, ExpireIInv
<1>7. CASE \E p \in Procs : Crash(p)
  BY <1>7, CrashIInv
<1>8. CASE UNCHANGED vars
  <2>1. pr' = pr /\ UNCHANGED store /\ arrivals' = arrivals /\ faults' = faults
    BY <1>8 DEF vars
  <2> QED
    BY <2>1, StoreSame, StoreKeeps DEF IInv, TypeOK
<1> QED
  BY <1>2, <1>3, <1>4, <1>5, <1>6, <1>7, <1>8 DEF Next

\* Every reachable state satisfies the inductive invariant.
THEOREM Invariance == Spec => []IInv
<1>1. IInv /\ [Next]_vars => IInv'
  BY NextIInv
<1> QED
  BY InitIInv, <1>1, PTL DEF Spec

\* The documents and the processes keep their types; in particular nobody
\* writes a revision past the last one (If-Match in update_product).
THEOREM OperationTypeCorrect == Spec => []TypeOK
<1>1. IInv => TypeOK
  BY DEF IInv
<1> QED
  BY <1>1, Invariance, PTL

\* An operation closed as applied, and an idempotency record that will be
\* replayed, have the product at the target and all evidence behind them,
\* whoever of reconcile_operation's callers died or was overtaken.
THEOREM ClosedBacked == Spec => []ClosedIsBacked
<1>1. IInv => ClosedIsBacked
  BY DEF IInv
<1> QED
  BY <1>1, Invariance, PTL

\* Closed idempotency records, results and terminal events are written once
\* (save_operation_result, append_operation_history and
\* repair_idempotency_terminal), by whichever generation.
THEOREM EvidenceImmutable == Spec => EvidenceIsImmutable
<1>1. ASSUME IInv, [Next]_vars
      PROVE  [/\ \A k \in Requests : idem[k].state \in {"completed", "superseded", "failed"}
                                       => idem'[k] = idem[k]
              /\ \A o \in Ops : /\ result[o] # 0 => result'[o] = result[o]
                                /\ proof[o].applied # 0 => proof'[o].applied = proof[o].applied
             ]_vars
  BY <1>1, NextIInv DEF StoreStep, StoreGrows, EvidenceStays, Closed
<1> QED
  BY <1>1, Invariance, PTL DEF Spec, EvidenceIsImmutable

-----------------------------------------------------------------------------
(* The refinement: a step opens an operation, closes one, adds a revision, *)
(* or is nothing to OperationContract.                                     *)

Implements == [Contract!CNext]_(Contract!cvars)

LEMMA Stutters ==
  ASSUME lives' = lives, status' = status
  PROVE  Implements
  BY DEF Implements, Contract!cvars, outcomeBar

LEMMA Changes ==
  ASSUME NEW s \in Lives, lives' = Append(lives, s), status' = status
  PROVE  Implements
<1>1. outcomeBar' = outcomeBar
  BY DEF outcomeBar
<1>2. Contract!Change
  BY <1>1 DEF Contract!Change
<1> QED
  BY <1>2 DEF Implements, Contract!CNext

\* A claim moves an open operation from hand to hand.
LEMMA Claims ==
  ASSUME StoreOK, NEW o \in Ops, Claimable(o), status' = [status EXCEPT ![o] = "claimed"], lives' = lives
  PROVE  Implements
<1>1. status[o] \in {"pending", "claimed"}
  BY DEF Claimable
<1>2. /\ status'[o] = "claimed" /\ \A q \in Ops : q # o => status'[q] = status[q]
  BY DEF StoreOK
<1>3. outcomeBar' = outcomeBar
  BY <1>1, <1>2 DEF outcomeBar
<1> QED
  BY <1>3 DEF Implements, Contract!cvars

LEMMA Opens ==
  ASSUME StoreOK, NEW o \in Ops, Fresh(o), Revision >= RevOf(o) - 1,
         status' = [status EXCEPT ![o] = "pending"], lives' = lives
  PROVE  Implements
<1>1. /\ status[o] = "none" /\ status'[o] = "pending"
      /\ \A q \in Ops : q # o => status'[q] = status[q]
  BY DEF StoreOK, Fresh
<1>2. outcomeBar[o] = "none" /\ outcomeBar' = [outcomeBar EXCEPT ![o] = "open"]
  BY <1>1 DEF outcomeBar
<1>3. Contract!Open(o)
  BY <1>2 DEF Contract!Open, Revision, RevOf
<1> QED
  BY <1>3 DEF Implements, Contract!CNext

LEMMA Closes ==
  ASSUME StoreOK, NEW p \in Procs, pr[p].job \in Ops, NEW s \in Terminal, CloseState(p, s), lives' = lives,
         s = "applied" => Reached(pr[p].job), s = "superseded" => Revision > RevOf(pr[p].job)
  PROVE  Implements
<1>1. PICK o \in Ops : o = pr[p].job
  OBVIOUS
<1>2. CASE Owned(p)
  <2>1. status[o] = "claimed" /\ status' = [status EXCEPT ![o] = s]
    BY <1>1, <1>2 DEF Owned, CloseState
  <2>2. status'[o] = s /\ s \notin {"pending", "claimed"} /\ \A q \in Ops : q # o => status'[q] = status[q]
    BY <2>1 DEF StoreOK, Terminal
  <2>3. outcomeBar[o] = "open" /\ outcomeBar' = [outcomeBar EXCEPT ![o] = s]
    BY <2>1, <2>2 DEF outcomeBar
  <2>4. Contract!Close(o, s)
    BY <1>1, <2>3 DEF Contract!Close, Reached, Revision, RevOf, ReqOf
  <2> QED
    BY <2>4 DEF Implements, Contract!CNext, Terminal
<1>3. CASE ~Owned(p)
  BY <1>3, Stutters DEF CloseState
<1> QED
  BY <1>2, <1>3

LEMMA HandlerImplements ==
  ASSUME IInv, NEW h \in Procs, HandlerStep(h)
  PROVE  Implements
<1>1. CASE SavePlan(h) \/ BeginOperation(h) \/ Yield(h)
  BY <1>1, Stutters DEF SavePlan, BeginOperation, Yield, claims, store
<1>2. CASE CreateState(h)
  <2>1. /\ StoreOK /\ AtWork(pr[h]) /\ pr[h].job \in Ops /\ pr[h].pc = "state" /\ lives' = lives
    BY <1>2, AtStep DEF CreateState, At
  <2>2. Revision >= RevOf(pr[h].job) - 1
    BY <2>1 DEF AtWork
  <2>3. CASE Fresh(pr[h].job)
    BY <1>2, <2>1, <2>2, <2>3, Opens DEF CreateState
  <2>4. CASE ~Fresh(pr[h].job)
    BY <1>2, <2>1, <2>4, Stutters DEF CreateState
  <2> QED
    BY <2>3, <2>4
<1>3. CASE UpdateProduct(h)
  <2>1. pr[h].job \in Ops /\ status' = status
    BY <1>3, AtStep DEF UpdateProduct, At, claims
  <2>2. Target[ReqOf(pr[h].job)] \in Lives
    BY <2>1, OpFields, TargetType
  <2> QED
    BY <1>3, <2>1, <2>2, Changes, Stutters DEF UpdateProduct
<1> QED
  BY <1>1, <1>2, <1>3 DEF HandlerStep

LEMMA ReconcilerImplements ==
  ASSUME IInv, NEW p \in Procs, ReconcileStep(p)
  PROVE  Implements
<1>1. ASSUME NEW o \in Ops, Claim(p, o) PROVE Implements
  BY <1>1, Claims DEF Claim, IInv, TypeOK
<1>2. ASSUME NEW o \in Ops, Revisit(p, o) PROVE Implements
  BY <1>2, Stutters DEF Revisit, claims
<1>3. CASE Load(p) \/ Mark(p) \/ ReadEvent(p) \/ Snapshot(p) \/ ReadResult(p)
  BY <1>3, Stutters DEF Load, Mark, ReadEvent, Snapshot, ReadResult, store, claims
<1>4. CASE FinishEvent(p) \/ FinishRevision(p)
  BY <1>4, Stutters DEF FinishEvent, FinishRevision, claims
<1>5. CASE SaveResult(p) \/ AppendHistory(p) \/ Repair(p)
  BY <1>5, Stutters DEF SaveResult, AppendHistory, Repair, claims
<1>6. CASE Exhaust(p)
  <2>1. StoreOK /\ pr[p].job \in Ops /\ CloseState(p, "failed") /\ lives' = lives
    BY <1>6, AtStep DEF Exhaust, At
  <2> QED
    BY <2>1, Closes DEF Terminal
<1>7. CASE Finalize(p)
  <2>1. /\ StoreOK /\ pr[p].job \in Ops /\ InClosing(pr[p]) /\ CloseState(p, pr[p].out)
        /\ lives' = lives /\ pr[p].pc = "final"
    BY <1>7, AtStep DEF Finalize, At
  <2>2. /\ pr[p].out \in Terminal /\ (pr[p].out = "applied" => Reached(pr[p].job))
        /\ pr[p].out = "superseded" => Revision > RevOf(pr[p].job)
    BY <2>1 DEF InClosing, Closing
  <2> QED
    BY <2>1, <2>2, Closes
<1>8. CASE Project(p)
  <2>1. pr[p].job \in Ops /\ status' = status
    BY <1>8, AtStep DEF Project, At, claims
  <2>2. Target[ReqOf(pr[p].job)] \in Lives
    BY <2>1, OpFields, TargetType
  <2>3. lives' = lives \/ lives' = Append(lives, Target[ReqOf(pr[p].job)])
    BY <1>8 DEF Project
  <2> QED
    BY <2>1, <2>2, <2>3, Changes, Stutters
<1> QED
  BY <1>1, <1>2, <1>3, <1>4, <1>5, <1>6, <1>7, <1>8 DEF ReconcileStep

LEMMA NextImplements ==
  ASSUME IInv, [Next]_vars
  PROVE  Implements
<1>1. CASE \E h \in Handlers, k \in Requests, r \in 1..MaxRevision : Submit(h, k, r)
  BY <1>1, Stutters DEF Submit, claims
<1>2. ASSUME NEW h \in Handlers, HandlerStep(h) PROVE Implements
  BY <1>2, HandlerImplements DEF Procs
<1>3. ASSUME NEW p \in Procs, ReconcileStep(p) PROVE Implements
  BY <1>3, ReconcilerImplements
<1>4. CASE Edit
  <2>1. lives[Revision] \in Lives
    <3>1. lives \in Seq(Lives) /\ Revision \in 1..Revision
      BY LivesType DEF IInv, TypeOK
    <3> QED
      BY <3>1 DEF Revision
  <2> QED
    BY <1>4, <2>1, Changes DEF Edit, claims
<1>5. CASE Refresh
  BY <1>5, Stutters DEF Refresh, claims
<1>6. CASE \E o \in Ops : Expire(o)
  BY <1>6, Stutters DEF Expire
<1>7. CASE \E p \in Procs : Crash(p)
  BY <1>7, Stutters DEF Crash, store, claims
<1>8. CASE UNCHANGED vars
  BY <1>8, Stutters DEF vars, store, claims
<1> QED
  BY <1>1, <1>2, <1>3, <1>4, <1>5, <1>6, <1>7, <1>8 DEF Next

\* The data-product service implements OperationContract: operations are
\* opened once, closed once and for good, as applied only when the product
\* reached the target and as superseded only when it was overtaken.
THEOREM ContractImplemented == Spec => ImplementsContract
<1>1. Init => Contract!CInit
  BY DEF Init, Contract!CInit, outcomeBar
<1>2. IInv /\ [Next]_vars => [Contract!CNext]_(Contract!cvars)
  BY NextImplements DEF Implements
<1> QED
  BY <1>1, <1>2, Invariance, PTL DEF Spec, ImplementsContract, Contract!CSpec
=============================================================================
