----------------------- MODULE StreamReliabilityProofs ----------------------
(***************************************************************************)
(* Theorems about StreamReliability, for every set of definitions, workers *)
(* and operators, every policy and threshold and every bound.              *)
(***************************************************************************)
EXTENDS StreamReliability, TLAPS

Writing == {"persistFence", "persist"}
Written == {"refresh", "projectFence", "projectGet", "project", "signalFence", "signal",
            "checkpointFence", "checkpointGet", "checkpoint"}
Visible == Written \ {"refresh"}
Projected == {"signalFence", "signal", "checkpointFence", "checkpointGet", "checkpoint"}
Signalling == {"checkpointFence", "checkpointGet", "checkpoint"}
Busy == {"observe"} \cup Writing \cup Written

\* No evaluation of the definition carries the time of the worker's cycle.
Fresh(w, d) == \A e \in evals[d] : e.at # wk[w].now

\* A cycle has a time of its own, and writes one evaluation of a definition at
\* that time, or resumes one that is written.
CycleInv(w) ==
  /\ wk[w].now <= clock
  /\ wk[w].pc # "idle" => wk[w].now > 0
  /\ \A v \in Workers : v # w /\ wk[v].pc # "idle" /\ wk[w].pc # "idle" => wk[v].now # wk[w].now
  /\ wk[w].pc \in {"token", "due"} => \A d \in Definitions : Fresh(w, d)
  /\ wk[w].pc # "idle" => \A d \in wk[w].todo : Fresh(w, d)
  /\ wk[w].pc \in Busy => wk[w].def \in Definitions \ wk[w].todo
  /\ wk[w].pc = "observe" => Fresh(w, wk[w].def)
  /\ wk[w].pc \in Writing =>
       \/ wk[w].ev \in shown[wk[w].def]
       \/ wk[w].ev.at = wk[w].now /\ Fresh(w, wk[w].def)
  /\ wk[w].pc \in Written => wk[w].ev \in evals[wk[w].def]
  /\ wk[w].pc \in Visible => wk[w].ev \in shown[wk[w].def]

EvalInv(d) ==
  /\ shown[d] \subseteq evals[d]
  /\ \A e \in evals[d] : 0 < e.at /\ e.at <= clock
  /\ \A e, f \in evals[d] : e.at = f.at => e = f
  /\ \A n \in 1..Len(status[d]) : status[d][n] \in shown[d]

\* What a worker has done for its definition, and the definition's checkpoint
\* and the documents read from it stand for.
Recorded(d, e) == \E n \in 1..Len(status[d]) : status[d][n] = e
Signals(d, e) == Transition(e) \X {e.at} \subseteq signals[d]
WorkInv(w) ==
  /\ wk[w].pc \in Projected => Recorded(wk[w].def, wk[w].ev)
  /\ wk[w].pc \in Signalling => Signals(wk[w].def, wk[w].ev)
Backed(d, l) == l # 0 => \E e \in evals[d] : e.at = l /\ Recorded(d, e) /\ Signals(d, e)
EditInv(o) == edit[o] # NoEdit =>
                edit[o].def \in Definitions /\ Backed(edit[o].def, edit[o].doc.latest)

\* The lease's token is the time of the cycle that took it, and a worker works
\* under its own unless it has read another's.
TokenInv ==
  /\ lease.token = clock
  /\ \A w \in Workers : lease.owner = w /\ wk[w].pc # "idle" => lease.token = wk[w].now
  /\ \A w \in Workers :
       raced # {"transition", "status"} /\ wk[w].pc \notin {"idle", "token"} =>
         wk[w].token = wk[w].now

IInv ==
  /\ TypeOK /\ TokenInv
  /\ \A w \in Workers : CycleInv(w) /\ WorkInv(w)
  /\ \A d \in Definitions : EvalInv(d) /\ Backed(d, defs[d].latest)
  /\ \A o \in Operators : EditInv(o)

\* An evaluation is signalled, or it is the newest and not checkpointed; the
\* latest cycle evaluates anew only when all are signalled.
Carried(d) ==
  \A e \in evals[d] : Signals(d, e) \/ (e \in Newest(evals[d]) /\ e.at # defs[d].latest)
Anew(w) ==
  wk[w].pc = "observe" \/ (wk[w].pc \in Writing /\ wk[w].ev \notin evals[wk[w].def])
Clear(w) ==
  wk[w].now = clock /\ Anew(w) => \A e \in evals[wk[w].def] : Signals(wk[w].def, e)
LostInv ==
  "transition" \notin raced =>
    (\A d \in Definitions : Carried(d)) /\ (\A w \in Workers : Clear(w))

\* The status is in order; a worker that may replace it brings a later
\* evaluation, and the latest cycle none earlier than what others may bring.
Ascending(d) ==
  \A m, n \in 1..Len(status[d]) : m < n => status[d][m].at < status[d][n].at
Replaces(w) ==
  wk[w].pc = "project" =>
    /\ wk[w].ver <= Len(status[wk[w].def])
    /\ wk[w].ver = Len(status[wk[w].def]) =>
         \A n \in 1..Len(status[wk[w].def]) : status[wk[w].def][n].at < wk[w].ev.at
Bringing == Writing \cup {"refresh", "projectFence", "projectGet"}
Leads(w) ==
  wk[w].now = clock /\ wk[w].pc \in Bringing =>
    /\ \A n \in 1..Len(status[wk[w].def]) : status[wk[w].def][n].at <= wk[w].ev.at
    /\ \A v \in Workers : wk[v].pc = "project" /\ wk[v].def = wk[w].def =>
         wk[v].ev.at <= wk[w].ev.at
OrderInv ==
  "status" \notin raced =>
    (\A d \in Definitions : Ascending(d)) /\ (\A w \in Workers : Replaces(w) /\ Leads(w))

-----------------------------------------------------------------------------
(* What the steps of a worker change of it.                                *)

Others(w) == \A v \in Workers : v # w => wk'[v] = wk[v]

LEMMA WorkerType == TypeOK => wk \in [Workers -> WorkerState]
  BY DEF TypeOK

LEMMA Fields ==
  ASSUME TypeOK, NEW w \in Workers
  PROVE  /\ wk[w] \in WorkerState /\ wk[w].pc \in Steps /\ wk[w].token \in 0..MaxCycles
         /\ wk[w].now \in 0..MaxCycles /\ wk[w].now \in Nat /\ wk[w].todo \subseteq Definitions
         /\ wk[w].def \in Definitions \cup {NoDefinition} /\ wk[w].ev \in Evaluation
         /\ wk[w].ver \in Nat
<1>1. wk[w] \in WorkerState
  BY WorkerType
<1>2. /\ wk[w].pc \in Steps /\ wk[w].token \in 0..MaxCycles /\ wk[w].now \in 0..MaxCycles
      /\ wk[w].todo \in SUBSET Definitions /\ wk[w].def \in Definitions \cup {NoDefinition}
      /\ wk[w].ev \in Evaluation /\ wk[w].ver \in Nat
  BY <1>1 DEF WorkerState
<1> QED
  BY <1>1, <1>2, ReliabilityAssumption

LEMMA EvaluationFields ==
  ASSUME NEW e \in Evaluation
  PROVE  /\ e.at \in Nat /\ e.prev \in Status /\ e.status \in Status
         /\ e.breaches \in Nat /\ e.recoveries \in Nat
  BY DEF Evaluation

LEMMA NoEvaluationType == NoEvaluation \in Evaluation
  BY DEF NoEvaluation, Evaluation, Status

LEMMA IdleType == Idle \in WorkerState
  BY NoEvaluationType, ReliabilityAssumption DEF Idle, WorkerState, Steps

LEMMA Moved ==
  ASSUME TypeOK, NEW w \in Workers, NEW x \in WorkerState, wk' = [wk EXCEPT ![w] = x]
  PROVE  wk' \in [Workers -> WorkerState] /\ wk'[w] = x /\ Others(w)
  BY WorkerType DEF Others

\* It ends the cycle; it takes the next definition; it takes the next step.
Ends(w) ==
  wk' \in [Workers -> WorkerState] /\ Others(w) /\ wk'[w].pc = "idle" /\ wk'[w].now = 0
Leaves(w) ==
  /\ wk' \in [Workers -> WorkerState] /\ Others(w)
  /\ wk'[w].pc = "next" /\ wk'[w].token = wk[w].token /\ wk'[w].now = wk[w].now
  /\ wk'[w].todo = wk[w].todo
Goes(w, step) ==
  /\ wk' \in [Workers -> WorkerState] /\ Others(w)
  /\ wk'[w].pc = step /\ wk'[w].token = wk[w].token /\ wk'[w].now = wk[w].now
  /\ wk'[w].todo = wk[w].todo /\ wk'[w].def = wk[w].def /\ wk'[w].ev = wk[w].ev

LEMMA Ended ==
  ASSUME TypeOK, NEW w \in Workers, wk' = [wk EXCEPT ![w] = Idle]
  PROVE  Ends(w)
  BY Moved, IdleType DEF Ends, Idle

LEMMA LeftType ==
  ASSUME TypeOK, NEW w \in Workers
  PROVE  /\ Left(w) \in WorkerState /\ Left(w).pc = "next" /\ Left(w).token = wk[w].token
         /\ Left(w).now = wk[w].now /\ Left(w).todo = wk[w].todo
<1>1. wk[w] \in WorkerState
  BY Fields
<1> QED
  BY <1>1, NoEvaluationType DEF Left, WorkerState, Steps

LEMMA LeftOff ==
  ASSUME TypeOK, NEW w \in Workers, wk' = [wk EXCEPT ![w] = Left(w)]
  PROVE  Leaves(w)
<1>1. wk' \in [Workers -> WorkerState] /\ wk'[w] = Left(w) /\ Others(w)
  BY Moved, LeftType
<1> QED
  BY <1>1, LeftType DEF Leaves

LEMMA Went ==
  ASSUME TypeOK, NEW w \in Workers, NEW step \in Steps, wk' = [wk EXCEPT ![w].pc = step]
  PROVE  Goes(w, step) /\ wk'[w].ver = wk[w].ver
<1> DEFINE x == [wk[w] EXCEPT !.pc = step]
<1>1. wk[w] \in WorkerState /\ wk' = [wk EXCEPT ![w] = x]
  BY WorkerType
<1>2. /\ x \in WorkerState /\ x.pc = step /\ x.token = wk[w].token /\ x.now = wk[w].now
      /\ x.todo = wk[w].todo /\ x.def = wk[w].def /\ x.ev = wk[w].ev /\ x.ver = wk[w].ver
  BY <1>1 DEF WorkerState
<1> HIDE DEF x
<1>3. wk' \in [Workers -> WorkerState] /\ wk'[w] = x /\ Others(w)
  BY <1>1, <1>2, Moved
<1> QED
  BY <1>2, <1>3 DEF Goes

LEMMA WentWith ==
  ASSUME TypeOK, NEW w \in Workers, NEW step \in Steps, NEW n \in Nat,
         wk' = [wk EXCEPT ![w].pc = step, ![w].ver = n]
  PROVE  Goes(w, step) /\ wk'[w].ver = n
<1> DEFINE x == [wk[w] EXCEPT !.pc = step, !.ver = n]
<1>1. wk[w] \in WorkerState /\ wk' = [wk EXCEPT ![w] = x]
  BY WorkerType
<1>2. /\ x \in WorkerState /\ x.pc = step /\ x.token = wk[w].token /\ x.now = wk[w].now
      /\ x.todo = wk[w].todo /\ x.def = wk[w].def /\ x.ev = wk[w].ev /\ x.ver = n
  BY <1>1 DEF WorkerState
<1> HIDE DEF x
<1>3. wk' \in [Workers -> WorkerState] /\ wk'[w] = x /\ Others(w)
  BY <1>1, <1>2, Moved
<1> QED
  BY <1>2, <1>3 DEF Goes

LEMMA Acquired ==
  ASSUME TypeOK, NEW w \in Workers, Acquire(w)
  PROVE  /\ wk' \in [Workers -> WorkerState] /\ Others(w)
         /\ wk'[w].pc = "token" /\ wk'[w].now = clock + 1 /\ clock' = clock + 1
         /\ clock' \in 0..MaxCycles /\ clock \in Nat
<1>1. clock' = clock + 1 /\ clock' \in 0..MaxCycles /\ clock \in Nat
  BY ReliabilityAssumption DEF TypeOK, Acquire
<1> DEFINE n == clock'
           x == [wk[w] EXCEPT !.pc = "token", !.now = n]
<1>2. wk[w] \in WorkerState /\ wk' = [wk EXCEPT ![w] = x] /\ n \in 0..MaxCycles
  BY <1>1, WorkerType DEF Acquire
<1> HIDE DEF n
<1>3. x \in WorkerState /\ x.pc = "token" /\ x.now = n
  BY <1>2 DEF WorkerState, Steps
<1> HIDE DEF x
<1>4. wk' \in [Workers -> WorkerState] /\ wk'[w] = x /\ Others(w)
  BY <1>2, <1>3, Moved
<1> QED
  BY <1>1, <1>3, <1>4 DEF n

LEMMA TokenRead ==
  ASSUME TypeOK, NEW w \in Workers, ReadToken(w)
  PROVE  /\ wk' \in [Workers -> WorkerState] /\ Others(w)
         /\ wk'[w].pc = "due" /\ wk'[w].token = lease.token /\ wk'[w].now = wk[w].now
         /\ wk'[w].todo = wk[w].todo
<1> DEFINE n == lease.token
           x == [wk[w] EXCEPT !.pc = "due", !.token = n]
<1>1. n \in 0..MaxCycles
  BY DEF TypeOK
<1>2. wk[w] \in WorkerState /\ wk' = [wk EXCEPT ![w] = x]
  BY WorkerType DEF ReadToken
<1> HIDE DEF n
<1>3. x \in WorkerState /\ x.pc = "due" /\ x.token = n /\ x.now = wk[w].now /\ x.todo = wk[w].todo
  BY <1>1, <1>2 DEF WorkerState, Steps
<1> HIDE DEF x
<1>4. wk' \in [Workers -> WorkerState] /\ wk'[w] = x /\ Others(w)
  BY <1>2, <1>3, Moved
<1> QED
  BY <1>3, <1>4 DEF n

LEMMA DueFound ==
  ASSUME TypeOK, NEW w \in Workers, Due(w)
  PROVE  /\ wk' \in [Workers -> WorkerState] /\ Others(w)
         /\ wk'[w].pc = "next" /\ wk'[w].token = wk[w].token /\ wk'[w].now = wk[w].now
         /\ wk'[w].todo \subseteq Definitions
<1> DEFINE D == {d \in Definitions : defs[d].on}
           x == [wk[w] EXCEPT !.pc = "next", !.todo = D]
<1>1. D \in SUBSET Definitions
  OBVIOUS
<1>2. wk[w] \in WorkerState /\ wk' = [wk EXCEPT ![w] = x]
  BY WorkerType DEF Due
<1> HIDE DEF D
<1>3. /\ x \in WorkerState /\ x.pc = "next" /\ x.token = wk[w].token /\ x.now = wk[w].now
      /\ x.todo = D
  BY <1>1, <1>2 DEF WorkerState, Steps
<1> HIDE DEF x
<1>4. wk' \in [Workers -> WorkerState] /\ wk'[w] = x /\ Others(w)
  BY <1>2, <1>3, Moved
<1> QED
  BY <1>1, <1>3, <1>4

LEMMA Resumed ==
  ASSUME TypeOK, NEW w \in Workers, NEW d \in Definitions, Resume(w, d)
  PROVE  /\ wk' \in [Workers -> WorkerState] /\ Others(w)
         /\ wk'[w].token = wk[w].token /\ wk'[w].now = wk[w].now
         /\ wk'[w].todo = wk[w].todo \ {d} /\ wk'[w].def = d /\ d \in wk[w].todo
         /\ \/ Pending(d) = {} /\ wk'[w].pc = "observe"
            \/ wk'[w].pc = "persistFence" /\ wk'[w].ev \in Pending(d)
<1> DEFINE t == wk[w].todo \ {d}
           p == CHOOSE e \in Pending(d) : TRUE
<1>0. t \in SUBSET Definitions /\ wk[w] \in WorkerState /\ d \in wk[w].todo
  BY Fields DEF Resume
<1>1. CASE Pending(d) = {}
  <2> DEFINE x == [wk[w] EXCEPT !.pc = "observe", !.def = d, !.todo = t]
  <2>1. wk' = [wk EXCEPT ![w] = x]
    BY <1>1, WorkerType DEF Resume
  <2> HIDE DEF t
  <2>2. /\ x \in WorkerState /\ x.pc = "observe" /\ x.token = wk[w].token /\ x.now = wk[w].now
        /\ x.todo = t /\ x.def = d
    BY <1>0 DEF WorkerState, Steps
  <2> HIDE DEF x
  <2>3. wk' \in [Workers -> WorkerState] /\ wk'[w] = x /\ Others(w)
    BY <2>1, <2>2, Moved
  <2> QED
    BY <1>0, <1>1, <2>2, <2>3 DEF t
<1>2. CASE Pending(d) # {}
  <2> DEFINE x == [wk[w] EXCEPT !.pc = "persistFence", !.def = d, !.todo = t, !.ev = p]
  <2>1. wk' = [wk EXCEPT ![w] = x]
    BY <1>2, WorkerType DEF Resume
  <2>2. p \in Pending(d) /\ p \in Evaluation
    BY <1>2 DEF Pending, Newest, TypeOK
  <2> HIDE DEF t, p
  <2>3. /\ x \in WorkerState /\ x.pc = "persistFence" /\ x.token = wk[w].token /\ x.now = wk[w].now
        /\ x.todo = t /\ x.def = d /\ x.ev = p
    BY <1>0, <2>2 DEF WorkerState, Steps
  <2> HIDE DEF x
  <2>4. wk' \in [Workers -> WorkerState] /\ wk'[w] = x /\ Others(w)
    BY <2>1, <2>3, Moved
  <2> QED
    BY <1>0, <2>2, <2>3, <2>4 DEF t
<1> QED
  BY <1>1, <1>2

LEMMA CurrentType ==
  ASSUME TypeOK, NEW d \in Definitions
  PROVE  Current(d) \in Evaluation
<1>1. status[d] \in Seq(Evaluation)
  BY DEF TypeOK
<1>2. CASE status[d] = <<>>
  BY <1>2, NoEvaluationType DEF Current
<1>3. CASE status[d] # <<>>
  <2>1. Len(status[d]) \in 1..Len(status[d])
    BY <1>1, <1>3
  <2> QED
    BY <1>1, <1>3, <2>1 DEF Current
<1> QED
  BY <1>2, <1>3

\* evaluate makes an evaluation at the time it is given.
LEMMA EvaluateType ==
  ASSUME NEW o \in Observations, NEW p \in Evaluation, NEW now \in Nat
  PROVE  Evaluate(o, p, now) \in Evaluation /\ Evaluate(o, p, now).at = now
<1>1. p.status \in Status /\ p.breaches \in Nat /\ p.recoveries \in Nat
  BY EvaluationFields
<1>2. Breached(p, now) \in Evaluation /\ Breached(p, now).at = now
  <2> DEFINE b == p.breaches + 1
  <2>1. b \in Nat
    BY <1>1
  <2>2. Breached(p, now) = [at |-> now, prev |-> p.status, breaches |-> b, recoveries |-> 0,
                            status |-> IF b >= Required THEN "breaching" ELSE "warning"]
    BY DEF Breached
  <2> HIDE DEF b
  <2> QED
    BY <1>1, <2>1, <2>2 DEF Evaluation, Status
<1>3. Met(p, now) \in Evaluation /\ Met(p, now).at = now
  <2> DEFINE n == p.recoveries + 1
             c == p.status \in {"breaching", "recovering"}
  <2>1. n \in Nat
    BY <1>1
  <2>2. Met(p, now) = [at |-> now, prev |-> p.status, breaches |-> 0,
                       recoveries |-> IF c /\ n < Recovery THEN n ELSE 0,
                       status |-> IF c /\ n < Recovery THEN "recovering" ELSE "healthy"]
    BY DEF Met
  <2> HIDE DEF n, c
  <2> QED
    BY <1>1, <2>1, <2>2 DEF Evaluation, Status
<1>4. Missing(p, now) \in Evaluation /\ Missing(p, now).at = now
  BY <1>1, <1>2 DEF Missing, Evaluation, Status
<1>5. Stale(p, now) \in Evaluation /\ Stale(p, now).at = now
  BY <1>1 DEF Stale, Evaluation, Status
<1>6. o \in {"breach", "met", "missing", "stale"}
  BY ReliabilityAssumption
<1> QED
  BY <1>2, <1>3, <1>4, <1>5, <1>6 DEF Evaluate

LEMMA Observed ==
  ASSUME TypeOK, NEW w \in Workers, wk[w].def \in Definitions, NEW o \in Observations, Observe(w, o)
  PROVE  /\ wk' \in [Workers -> WorkerState] /\ Others(w)
         /\ wk'[w].pc = "persistFence" /\ wk'[w].token = wk[w].token /\ wk'[w].now = wk[w].now
         /\ wk'[w].todo = wk[w].todo /\ wk'[w].def = wk[w].def /\ wk'[w].ev.at = wk[w].now
<1> DEFINE e == Evaluate(o, Current(wk[w].def), wk[w].now)
           x == [wk[w] EXCEPT !.pc = "persistFence", !.ev = e]
<1>1. e \in Evaluation /\ e.at = wk[w].now
  BY Fields, CurrentType, EvaluateType
<1>2. wk[w] \in WorkerState /\ wk' = [wk EXCEPT ![w] = x]
  BY WorkerType DEF Observe
<1> HIDE DEF e
<1>3. /\ x \in WorkerState /\ x.pc = "persistFence" /\ x.token = wk[w].token /\ x.now = wk[w].now
      /\ x.todo = wk[w].todo /\ x.def = wk[w].def /\ x.ev = e
  BY <1>1, <1>2 DEF WorkerState, Steps
<1> HIDE DEF x
<1>4. wk' \in [Workers -> WorkerState] /\ wk'[w] = x /\ Others(w)
  BY <1>2, <1>3, Moved
<1> QED
  BY <1>1, <1>3, <1>4

\* The steps after the observation: on to the next, or on to another definition.
LEMMA Fenced ==
  ASSUME TypeOK, NEW w \in Workers, NEW before, NEW after \in Steps, Fence(w, before, after)
  PROVE  /\ wk[w].pc = before
         /\ (InForce(w) /\ Goes(w, after)) \/ (~InForce(w) /\ Leaves(w))
<1>1. CASE InForce(w)
  <2>1. wk' = [wk EXCEPT ![w].pc = after]
    BY <1>1, WorkerType DEF Fence
  <2> QED
    BY <1>1, <2>1, Went DEF Fence, At
<1>2. CASE ~InForce(w)
  <2>1. wk' = [wk EXCEPT ![w] = Left(w)]
    BY <1>2, WorkerType DEF Fence
  <2> QED
    BY <1>2, <2>1, LeftOff DEF Fence, At
<1> QED
  BY <1>1, <1>2

LEMMA StatusRead ==
  ASSUME TypeOK, NEW w \in Workers, wk[w].def \in Definitions, GetStatus(w)
  PROVE  LET d == wk[w].def IN
         /\ wk[w].pc = "projectGet"
         /\ \/ /\ status[d] # <<>> /\ Current(d).at = wk[w].ev.at
               /\ Goes(w, "signalFence")
            \/ /\ status[d] = <<>> \/ Current(d).at # wk[w].ev.at
               /\ Goes(w, "project") /\ wk'[w].ver = Len(status[d])
<1> DEFINE d == wk[w].def
<1>0. wk[w].pc = "projectGet"
  BY DEF GetStatus, At
<1>1. CASE status[d] # <<>> /\ Current(d).at = wk[w].ev.at
  <2>1. wk' = [wk EXCEPT ![w].pc = "signalFence"]
    BY <1>1, WorkerType DEF GetStatus
  <2> QED
    BY <1>0, <1>1, <2>1, Went DEF Steps
<1>2. CASE ~(status[d] # <<>> /\ Current(d).at = wk[w].ev.at)
  <2>1. wk' = [wk EXCEPT ![w].pc = "project", ![w].ver = Len(status[d])]
    BY <1>2, WorkerType DEF GetStatus
  <2>2. Len(status[d]) \in Nat
    BY DEF TypeOK
  <2> QED
    BY <1>0, <1>2, <2>1, <2>2, WentWith DEF Steps
<1> QED
  BY <1>1, <1>2

LEMMA ProjectedTo ==
  ASSUME TypeOK, NEW w \in Workers, wk[w].def \in Definitions, Project(w)
  PROVE  LET d == wk[w].def IN
         /\ wk[w].pc = "project"
         /\ \/ /\ Len(status[d]) = wk[w].ver
               /\ status' = [status EXCEPT ![d] = Append(@, wk[w].ev)] /\ Goes(w, "signalFence")
            \/ /\ Len(status[d]) # wk[w].ver /\ status' = status /\ Leaves(w)
<1> DEFINE d == wk[w].def
<1>1. CASE Len(status[d]) = wk[w].ver
  BY <1>1, WentWith DEF Project, At, Steps
<1>2. CASE Len(status[d]) # wk[w].ver
  BY <1>2, LeftOff DEF Project, At
<1> QED
  BY <1>1, <1>2

LEMMA Failed ==
  ASSUME TypeOK, NEW w \in Workers, Fail(w)
  PROVE  wk[w].pc # "idle" /\ (Ends(w) \/ Leaves(w))
<1>1. wk[w].pc # "idle" /\ (wk' = [wk EXCEPT ![w] = Idle] \/ wk' = [wk EXCEPT ![w] = Left(w)])
  BY DEF Fail, At
<1> QED
  BY <1>1, Ended, LeftOff

Acts(w) == Cycle(w) \/ Fail(w) \/ Crash(w)

\* A step of a worker moves that worker alone; but for taking the lease it
\* leaves the time of its cycle as it is or ends the cycle.
LEMMA WorkerMoves ==
  ASSUME TypeOK, NEW w \in Workers, CycleInv(w), Acts(w)
  PROVE  /\ wk' \in [Workers -> WorkerState] /\ Others(w)
         /\ \/ Acquire(w)
            \/ /\ wk[w].pc # "idle" /\ clock' = clock /\ lease' = lease
               /\ \/ wk'[w].pc = "idle" /\ wk'[w].now = 0
                  \/ wk'[w].pc \notin {"idle", "token"} /\ wk'[w].now = wk[w].now
<1> DEFINE P == /\ wk' \in [Workers -> WorkerState] /\ Others(w)
                /\ wk[w].pc # "idle" /\ clock' = clock /\ lease' = lease
                /\ \/ wk'[w].pc = "idle" /\ wk'[w].now = 0
                   \/ wk'[w].pc \notin {"idle", "token"} /\ wk'[w].now = wk[w].now
<1>0. ~Acquire(w) => wk[w].pc # "idle" /\ clock' = clock /\ lease' = lease
  BY DEF Acts, Cycle, ReadToken, Due, Finish, Resume, Observe, Fences, Fence, Persist, Persisted,
     GetStatus, Project, Signal, GetDefinition, Checkpoint, Fail, Crash, At
<1>1. CASE Acquire(w)
  BY <1>1, Acquired
<1>2. CASE ~Acquire(w)
  <2>0. wk[w].pc # "idle" /\ clock' = clock /\ lease' = lease
    BY <1>0, <1>2
  <2>1. wk[w].pc \in Busy => wk[w].def \in Definitions
    BY DEF CycleInv
  <2>2. CASE ReadToken(w) \/ Due(w)
    BY <2>0, <2>2, TokenRead, DueFound
  <2>3. CASE Finish(w) \/ Crash(w)
    BY <2>0, <2>3, Ended DEF Finish, Crash, Ends
  <2>4. CASE \E d \in Definitions : Resume(w, d)
    BY <2>0, <2>4, Resumed
  <2>5. CASE \E o \in Observations : Observe(w, o)
    <3>1. wk[w].def \in Definitions
      BY <2>1, <2>5 DEF Observe, At, Busy
    <3> QED
      BY <2>0, <2>5, <3>1, Observed
  <2>6. CASE Fences(w)
    <3>1. Leaves(w) \/ Goes(w, "persist") \/ Goes(w, "projectGet") \/ Goes(w, "signal")
            \/ Goes(w, "checkpointGet")
      BY <2>6, Fenced DEF Fences, Steps
    <3> QED
      BY <2>0, <3>1 DEF Leaves, Goes
  <2>7. CASE Persist(w) \/ Persisted(w) \/ Signal(w)
    <3>1. \E step \in {"refresh", "projectFence", "checkpointFence"} :
             wk' = [wk EXCEPT ![w].pc = step]
      BY <2>7 DEF Persist, Persisted, Signal, Go
    <3>2. \E step \in {"refresh", "projectFence", "checkpointFence"} : Goes(w, step)
      BY <3>1, Went DEF Steps
    <3> QED
      BY <2>0, <3>2 DEF Goes
  <2>8. CASE GetStatus(w) \/ Project(w)
    <3>1. wk[w].def \in Definitions
      BY <2>1, <2>8 DEF GetStatus, Project, At, Busy, Written
    <3>2. Goes(w, "signalFence") \/ Goes(w, "project") \/ Leaves(w)
      BY <2>8, <3>1, StatusRead, ProjectedTo
    <3> QED
      BY <2>0, <3>2 DEF Goes, Leaves
  <2>9. CASE GetDefinition(w)
    <3>1. wk[w].def \in Definitions
      BY <2>1, <2>9 DEF GetDefinition, At, Busy, Written
    <3>2. defs[wk[w].def] \in Definition
      BY <3>1 DEF TypeOK
    <3>3. defs[wk[w].def].ver \in Nat
      BY <3>2 DEF Definition
    <3>4. Goes(w, "checkpoint")
      BY <2>9, <3>3, WentWith DEF GetDefinition, Steps
    <3> QED
      BY <2>0, <3>4 DEF Goes
  <2>10. CASE Checkpoint(w)
    BY <2>0, <2>10, LeftOff DEF Checkpoint, Leaves
  <2>11. CASE Fail(w)
    BY <2>0, <2>11, Failed DEF Ends, Leaves
  <2>12. P
    BY <1>2, <2>2, <2>3, <2>4, <2>5, <2>6, <2>7, <2>8, <2>9, <2>10, <2>11 DEF Acts, Cycle
  <2> QED
    BY <2>12
<1> QED
  BY <1>1, <1>2

-----------------------------------------------------------------------------
(* What the steps change of the documents.                                 *)

LEMMA PersistEffect ==
  ASSUME TypeOK, NEW w \in Workers, CycleInv(w), NEW d \in Definitions, d = wk[w].def, EvalInv(d),
         Persist(w)
  PROVE  \/ wk[w].ev \in shown[d] /\ evals' = evals /\ Goes(w, "projectFence")
         \/ /\ wk[w].ev.at = wk[w].now /\ Fresh(w, d)
            /\ evals' = [evals EXCEPT ![d] = @ \cup {wk[w].ev}] /\ Goes(w, "refresh")
<1>1. wk[w].pc = "persist"
  BY DEF Persist, At
<1>2. wk[w].ev \in shown[d] \/ (wk[w].ev.at = wk[w].now /\ Fresh(w, d))
  BY <1>1 DEF CycleInv, Writing
<1>3. CASE \A e \in evals[d] : e.at # wk[w].ev.at
  <2>1. wk[w].ev.at = wk[w].now /\ Fresh(w, d)
    BY <1>2, <1>3 DEF EvalInv
  <2>2. /\ evals' = [evals EXCEPT ![d] = @ \cup {wk[w].ev}]
        /\ wk' = [wk EXCEPT ![w].pc = "refresh"]
    BY <1>3 DEF Persist, Go
  <2> QED
    BY <2>1, <2>2, Went DEF Steps
<1>4. CASE ~\A e \in evals[d] : e.at # wk[w].ev.at
  <2>1. wk[w].ev \in shown[d]
    BY <1>2, <1>4 DEF Fresh
  <2>2. evals' = evals /\ wk' = [wk EXCEPT ![w].pc = "projectFence"]
    BY <1>4 DEF Persist, Go
  <2> QED
    BY <2>1, <2>2, Went DEF Steps
<1> QED
  BY <1>3, <1>4

\* A version added to a status.
LEMMA StatusAdded ==
  ASSUME TypeOK, NEW d \in Definitions, NEW e \in Evaluation,
         status' = [status EXCEPT ![d] = Append(@, e)]
  PROVE  /\ status' \in [Definitions -> Seq(Evaluation)]
         /\ \A c \in Definitions : c # d => status'[c] = status[c]
         /\ Len(status[d]) \in Nat /\ Len(status'[d]) = Len(status[d]) + 1
         /\ \A n \in 1..Len(status[d]) : status'[d][n] = status[d][n]
         /\ status'[d][Len(status[d]) + 1] = e
<1>1. status \in [Definitions -> Seq(Evaluation)] /\ status[d] \in Seq(Evaluation)
  BY DEF TypeOK
<1> DEFINE s == Append(status[d], e)
<1>2. /\ s \in Seq(Evaluation) /\ Len(s) = Len(status[d]) + 1 /\ Len(status[d]) \in Nat
      /\ \A n \in 1..Len(status[d]) : s[n] = status[d][n]
      /\ s[Len(status[d]) + 1] = e
  BY <1>1
<1>3. status' = [status EXCEPT ![d] = s]
  OBVIOUS
<1> HIDE DEF s
<1>4. /\ status' \in [Definitions -> Seq(Evaluation)] /\ status'[d] = s
      /\ \A c \in Definitions : c # d => status'[c] = status[c]
  BY <1>1, <1>2, <1>3
<1> QED
  BY <1>2, <1>4

Grows ==
  /\ clock \in Nat /\ clock' \in Nat /\ clock <= clock' /\ raced \subseteq raced'
  /\ \A d \in Definitions :
       /\ evals[d] \subseteq evals'[d] /\ shown[d] \subseteq shown'[d]
       /\ signals[d] \subseteq signals'[d]
       /\ Len(status[d]) \in Nat /\ Len(status'[d]) \in Nat /\ Len(status[d]) <= Len(status'[d])
       /\ \A n \in 1..Len(status[d]) : status'[d][n] = status[d][n]

LEMMA GrowsSame ==
  ASSUME TypeOK, UNCHANGED <<evals, shown, status, signals>>, clock' \in Nat, clock <= clock',
         raced \subseteq raced'
  PROVE  Grows
<1>1. clock \in Nat
  BY ReliabilityAssumption DEF TypeOK
<1>2. \A d \in Definitions : Len(status[d]) \in Nat
  BY DEF TypeOK
<1> QED
  BY <1>1, <1>2 DEF Grows

\* The worker's steps but for four leave the documents alone.
Quiet(w) == Acts(w) /\ ~Persist(w) /\ ~Project(w) /\ ~Signal(w) /\ ~Checkpoint(w)

LEMMA QuietDocuments ==
  ASSUME NEW w \in Workers, Quiet(w)
  PROVE  UNCHANGED <<defs, evals, shown, status, signals>>
  BY DEF Quiet, Acts, Cycle, Acquire, ReadToken, Due, Finish, Resume, Observe, Fences, Fence, Persisted,
     GetStatus, GetDefinition, Fail, Crash, documents

LEMMA ActCounts ==
  ASSUME TypeOK, NEW w \in Workers, Acts(w)
  PROVE  /\ edit' = edit /\ edits' = edits /\ faults' \in 0..MaxFaults
         /\ raced \subseteq raced' /\ raced' \subseteq {"transition", "status"}
<1>1. edit' = edit /\ edits' = edits
  BY DEF Acts, Cycle, Acquire, ReadToken, Due, Finish, Resume, Observe, Fences, Fence, Persist, Persisted,
     GetStatus, Project, Signal, GetDefinition, Checkpoint, Fail, Crash
<1>2. faults' = faults \/ (faults < MaxFaults /\ faults' = faults + 1)
  BY DEF Acts, Cycle, Acquire, ReadToken, Due, Finish, Resume, Observe, Fences, Fence, Persist, Persisted,
     GetStatus, Project, Signal, GetDefinition, Checkpoint, Fail, Crash
<1>3. faults' \in 0..MaxFaults
  BY <1>2, ReliabilityAssumption DEF TypeOK
<1>4. raced' = raced \/ \E R \in SUBSET {"transition", "status"} : raced' = raced \cup R
  BY DEF Acts, Cycle, Acquire, ReadToken, Due, Finish, Resume, Observe, Fences, Fence, Persist, Persisted,
     GetStatus, Project, Signal, GetDefinition, Checkpoint, Fail, Crash
<1>5. raced \subseteq raced' /\ raced' \subseteq {"transition", "status"}
  BY <1>4 DEF TypeOK
<1> QED
  BY <1>1, <1>3, <1>5

LEMMA DefinitionFields ==
  ASSUME TypeOK, NEW d \in Definitions
  PROVE  defs[d] \in Definition /\ defs[d].latest \in Nat /\ defs[d].ver \in Nat
<1>1. defs[d] \in Definition
  BY DEF TypeOK
<1> QED
  BY <1>1 DEF Definition

LEMMA CheckpointEffect ==
  ASSUME TypeOK, NEW w \in Workers, NEW d \in Definitions, d = wk[w].def, Checkpoint(w)
  PROVE  /\ wk[w].pc = "checkpoint" /\ Leaves(w)
         /\ UNCHANGED <<evals, shown, status, signals, raced, clock, lease>>
         /\ defs' \in [Definitions -> Definition]
         /\ \A c \in Definitions :
              defs'[c].latest = defs[c].latest \/ (c = d /\ defs'[c].latest = wk[w].ev.at)
<1>1. /\ wk[w].pc = "checkpoint" /\ Leaves(w)
      /\ UNCHANGED <<evals, shown, status, signals, raced, clock, lease>>
  BY LeftOff DEF Checkpoint, At
<1>2. defs \in [Definitions -> Definition]
  BY DEF TypeOK
<1>3. CASE defs' = defs
  BY <1>1, <1>2, <1>3
<1>4. CASE defs' # defs
  <2> DEFINE l == wk[w].ev.at
             n == defs[d].ver + 1
             x == [defs[d] EXCEPT !.latest = l, !.ver = n]
  <2>1. defs[d] \in Definition /\ l \in Nat /\ n \in Nat
    BY DefinitionFields, Fields, EvaluationFields
  <2>2. defs' = [defs EXCEPT ![d] = x]
    BY <1>2, <1>4 DEF Checkpoint
  <2> HIDE DEF l, n
  <2>3. x \in Definition /\ x.latest = l
    BY <2>1 DEF Definition
  <2> HIDE DEF x
  <2>4. /\ defs' \in [Definitions -> Definition] /\ defs'[d] = x
        /\ \A c \in Definitions : c # d => defs'[c] = defs[c]
    BY <1>2, <2>2, <2>3
  <2> QED
    BY <1>1, <2>3, <2>4 DEF l
<1> QED
  BY <1>3, <1>4

LEMMA ActType ==
  ASSUME TypeOK, lease.token = clock, NEW w \in Workers, CycleInv(w), Acts(w),
         \A d \in Definitions : EvalInv(d)
  PROVE  TypeOK' /\ Grows
<1>1. wk' \in [Workers -> WorkerState] /\ (Acquire(w) \/ (clock' = clock /\ lease' = lease))
  BY WorkerMoves
<1>2. clock' \in 0..MaxCycles /\ clock \in Nat /\ clock' \in Nat /\ clock <= clock'
  <2>1. clock \in 0..MaxCycles
    BY DEF TypeOK
  <2> QED
    BY <1>1, <2>1, Acquired, ReliabilityAssumption
<1>3. /\ edit' = edit /\ edits' = edits /\ faults' \in 0..MaxFaults
      /\ raced \subseteq raced' /\ raced' \subseteq {"transition", "status"}
  BY ActCounts
<1>5. wk[w].pc \in Busy => wk[w].def \in Definitions
  BY DEF CycleInv
<1>4. lease' \in [owner: Workers \cup {Nobody}, token: 0..MaxCycles, live: BOOLEAN]
  <2>1. CASE Acquire(w)
    <3> DEFINE n == lease.token + 1
    <3>1. n \in 0..MaxCycles
      BY <1>2, <2>1, Acquired
    <3>2. lease' = [owner |-> w, token |-> n, live |-> TRUE]
      BY <2>1 DEF Acquire
    <3> HIDE DEF n
    <3> QED
      BY <3>1, <3>2
  <2>2. CASE lease' = lease
    BY <2>2 DEF TypeOK
  <2> QED
    BY <1>1, <2>1, <2>2
<1>6. CASE Quiet(w)
  <2>1. UNCHANGED <<defs, evals, shown, status, signals>>
    BY <1>6, QuietDocuments
  <2>2. TypeOK'
    BY <1>1, <1>2, <1>3, <1>4, <2>1 DEF TypeOK
  <2> QED
    BY <1>2, <1>3, <2>1, <2>2, GrowsSame
<1>7. CASE Persist(w)
  <2>1. wk[w].def \in Definitions /\ UNCHANGED <<defs, shown, status, signals>>
    BY <1>5, <1>7 DEF Persist, At, Busy, Writing
  <2>2. PICK d \in Definitions : d = wk[w].def
    BY <2>1
  <2>3. wk[w].ev \in Evaluation /\ evals \in [Definitions -> SUBSET Evaluation]
    BY Fields DEF TypeOK
  <2>4. evals' = evals \/ evals' = [evals EXCEPT ![d] = @ \cup {wk[w].ev}]
    BY <1>7, <2>2, PersistEffect
  <2>5. /\ evals' \in [Definitions -> SUBSET Evaluation]
        /\ \A c \in Definitions : evals[c] \subseteq evals'[c]
    BY <2>3, <2>4
  <2>6. TypeOK'
    BY <1>1, <1>2, <1>3, <1>4, <2>1, <2>5 DEF TypeOK
  <2>7. \A c \in Definitions : Len(status[c]) \in Nat
    BY DEF TypeOK
  <2> QED
    BY <1>2, <1>3, <2>1, <2>5, <2>6, <2>7 DEF Grows
<1>8. CASE Project(w)
  <2>1. wk[w].def \in Definitions /\ UNCHANGED <<defs, evals, shown, signals>>
    BY <1>5, <1>8 DEF Project, At, Busy, Written
  <2>2. PICK d \in Definitions : d = wk[w].def
    BY <2>1
  <2>3. wk[w].ev \in Evaluation
    BY Fields
  <2>4. status' = status \/ status' = [status EXCEPT ![d] = Append(@, wk[w].ev)]
    BY <1>8, <2>2, ProjectedTo
  <2>5. /\ status' \in [Definitions -> Seq(Evaluation)]
        /\ \A c \in Definitions :
             /\ Len(status[c]) \in Nat /\ Len(status'[c]) \in Nat
             /\ Len(status[c]) <= Len(status'[c])
             /\ \A n \in 1..Len(status[c]) : status'[c][n] = status[c][n]
    <3>0. \A c \in Definitions : Len(status[c]) \in Nat
      BY DEF TypeOK
    <3>1. CASE status' = status
      BY <3>0, <3>1 DEF TypeOK
    <3>2. CASE status' # status
      <4>1. /\ status' \in [Definitions -> Seq(Evaluation)]
            /\ \A c \in Definitions : c # d => status'[c] = status[c]
            /\ Len(status'[d]) = Len(status[d]) + 1
            /\ \A n \in 1..Len(status[d]) : status'[d][n] = status[d][n]
        BY <2>3, <2>4, <3>2, StatusAdded
      <4> QED
        BY <3>0, <4>1
    <3> QED
      BY <3>1, <3>2
  <2>6. TypeOK'
    BY <1>1, <1>2, <1>3, <1>4, <2>1, <2>5 DEF TypeOK
  <2> QED
    BY <1>2, <1>3, <2>1, <2>5, <2>6 DEF Grows
<1>9. CASE Signal(w)
  <2>1. wk[w].def \in Definitions /\ UNCHANGED <<defs, evals, shown, status>>
    BY <1>5, <1>9 DEF Signal, At, Busy, Written
  <2>2. PICK d \in Definitions : d = wk[w].def
    BY <2>1
  <2> DEFINE T == Transition(wk[w].ev) \X {wk[w].ev.at}
  <2>3. T \subseteq {"breach", "recovery"} \X Nat
    BY Fields, EvaluationFields DEF Transition
  <2>4. signals \in [Definitions -> SUBSET ({"breach", "recovery"} \X Nat)]
    BY DEF TypeOK
  <2>5. signals' = [signals EXCEPT ![d] = @ \cup T]
    BY <1>9, <2>2 DEF Signal
  <2> HIDE DEF T
  <2>6. /\ signals' \in [Definitions -> SUBSET ({"breach", "recovery"} \X Nat)]
        /\ \A c \in Definitions : signals[c] \subseteq signals'[c]
    BY <2>3, <2>4, <2>5
  <2>7. TypeOK'
    BY <1>1, <1>2, <1>3, <1>4, <2>1, <2>6 DEF TypeOK
  <2>8. \A c \in Definitions : Len(status[c]) \in Nat
    BY DEF TypeOK
  <2> QED
    BY <1>2, <1>3, <2>1, <2>6, <2>7, <2>8 DEF Grows
<1>10. CASE Checkpoint(w)
  <2>1. wk[w].def \in Definitions
    BY <1>5, <1>10 DEF Checkpoint, At, Busy, Written
  <2>2. UNCHANGED <<evals, shown, status, signals>> /\ defs' \in [Definitions -> Definition]
    BY <1>10, <2>1, CheckpointEffect
  <2>3. TypeOK'
    BY <1>1, <1>2, <1>3, <1>4, <2>2 DEF TypeOK
  <2> QED
    BY <1>2, <1>3, <2>2, <2>3, GrowsSame
<1> QED
  BY <1>6, <1>7, <1>8, <1>9, <1>10 DEF Quiet

Environment ==
  \/ Expire
  \/ \E d \in Definitions : Refresh(d)
  \/ \E o \in Operators : Write(o) \/ \E d \in Definitions, on \in BOOLEAN : Read(o, d, on)

LEMMA EditFields ==
  ASSUME TypeOK, NEW o \in Operators
  PROVE  /\ edit[o] \in EditState /\ edit[o].doc \in Definition /\ edit[o].on \in BOOLEAN
         /\ edit[o].doc.latest \in Nat
<1>1. edit[o] \in EditState
  BY DEF TypeOK
<1>2. edit[o].doc \in Definition /\ edit[o].on \in BOOLEAN
  BY <1>1 DEF EditState
<1> QED
  BY <1>1, <1>2 DEF Definition

LEMMA WriteEffect ==
  ASSUME TypeOK, NEW o \in Operators, EditInv(o), Write(o)
  PROVE  /\ edit[o] # NoEdit /\ edit[o].def \in Definitions
         /\ UNCHANGED <<lease, evals, shown, status, signals, wk, raced, clock, faults, edits>>
         /\ defs' \in [Definitions -> Definition]
         /\ defs'[edit[o].def].latest = edit[o].doc.latest
         /\ \A c \in Definitions : c # edit[o].def => defs'[c] = defs[c]
         /\ edit' \in [Operators -> EditState] /\ edit'[o] = NoEdit
         /\ \A p \in Operators : p # o => edit'[p] = edit[p]
<1>1. /\ edit[o] # NoEdit /\ edit[o].def \in Definitions
      /\ UNCHANGED <<lease, evals, shown, status, signals, wk, raced, clock, faults, edits>>
  BY DEF Write, EditInv
<1> DEFINE d == edit[o].def
           n == defs[d].ver + 1
           l == edit[o].doc.latest
           b == edit[o].on
           x == [on |-> b, latest |-> l, ver |-> n]
<1>2. n \in Nat /\ l \in Nat /\ b \in BOOLEAN
  BY <1>1, EditFields, DefinitionFields
<1>3. defs' = [defs EXCEPT ![d] = x] /\ defs \in [Definitions -> Definition]
  BY <1>1 DEF Write, TypeOK
<1> HIDE DEF n, l, b
<1>4. x \in Definition /\ x.latest = l
  BY <1>2 DEF Definition
<1> HIDE DEF x
<1>5. /\ defs' \in [Definitions -> Definition] /\ defs'[d] = x
      /\ \A c \in Definitions : c # d => defs'[c] = defs[c]
  BY <1>1, <1>3, <1>4
<1>6. NoEdit \in EditState
  BY ReliabilityAssumption DEF NoEdit, EditState, Definition
<1>7. edit \in [Operators -> EditState] /\ edit' = [edit EXCEPT ![o] = NoEdit]
  BY DEF TypeOK, Write
<1>8. /\ edit' \in [Operators -> EditState] /\ edit'[o] = NoEdit
      /\ \A p \in Operators : p # o => edit'[p] = edit[p]
  BY <1>6, <1>7
<1> QED
  BY <1>1, <1>4, <1>5, <1>8 DEF l

LEMMA ReadEffect ==
  ASSUME TypeOK, NEW o \in Operators, NEW d \in Definitions, NEW on \in BOOLEAN, Read(o, d, on)
  PROVE  /\ UNCHANGED <<lease, defs, evals, shown, status, signals, wk, raced, clock, faults>>
         /\ edits' \in 0..MaxEdits
         /\ edit' \in [Operators -> EditState] /\ edit'[o].def = d /\ edit'[o].doc = defs[d]
         /\ \A p \in Operators : p # o => edit'[p] = edit[p]
<1>1. UNCHANGED <<lease, defs, evals, shown, status, signals, wk, raced, clock, faults>>
  BY DEF Read, documents
<1>2. edits' \in 0..MaxEdits
  BY ReliabilityAssumption DEF Read, TypeOK
<1> DEFINE c == defs[d]
           x == [def |-> d, doc |-> c, on |-> on]
<1>3. c \in Definition /\ edit' = [edit EXCEPT ![o] = x] /\ edit \in [Operators -> EditState]
  BY DefinitionFields DEF Read, TypeOK
<1> HIDE DEF c
<1>4. x \in EditState /\ x.def = d /\ x.doc = c
  BY <1>3 DEF EditState
<1> HIDE DEF x
<1>5. /\ edit' \in [Operators -> EditState] /\ edit'[o] = x
      /\ \A p \in Operators : p # o => edit'[p] = edit[p]
  BY <1>3, <1>4
<1> QED
  BY <1>1, <1>2, <1>4, <1>5 DEF c

LEMMA RefreshEffect ==
  ASSUME TypeOK, NEW d \in Definitions, EvalInv(d), Refresh(d)
  PROVE  /\ UNCHANGED <<lease, defs, evals, status, signals, wk, edit, raced, clock, faults, edits>>
         /\ shown' \in [Definitions -> SUBSET Evaluation] /\ shown'[d] = evals[d]
         /\ \A c \in Definitions : c # d => shown'[c] = shown[c]
  BY DEF Refresh, TypeOK

LEMMA EnvironmentType ==
  ASSUME TypeOK, \A d \in Definitions : EvalInv(d), \A o \in Operators : EditInv(o), Environment
  PROVE  TypeOK' /\ Grows /\ UNCHANGED <<evals, status, signals, wk, raced, clock>>
<1>0. clock \in Nat /\ (clock' = clock => clock' \in Nat /\ clock <= clock')
  BY ReliabilityAssumption DEF TypeOK
<1>1. CASE Expire
  <2>1. UNCHANGED <<defs, evals, shown, status, signals, wk, edit, raced, clock, faults, edits>>
    BY <1>1 DEF Expire, documents
  <2>2. lease' \in [owner: Workers \cup {Nobody}, token: 0..MaxCycles, live: BOOLEAN]
    BY <1>1 DEF Expire, TypeOK
  <2>3. TypeOK'
    BY <2>1, <2>2 DEF TypeOK
  <2> QED
    BY <1>0, <2>1, <2>3, GrowsSame
<1>2. ASSUME NEW d \in Definitions, Refresh(d)
      PROVE  TypeOK' /\ Grows /\ UNCHANGED <<evals, status, signals, wk, raced, clock>>
  <2>1. /\ UNCHANGED <<lease, defs, evals, status, signals, wk, edit, raced, clock, faults, edits>>
        /\ shown' \in [Definitions -> SUBSET Evaluation] /\ shown'[d] = evals[d]
        /\ \A c \in Definitions : c # d => shown'[c] = shown[c]
    BY <1>2, RefreshEffect
  <2>2. TypeOK'
    BY <2>1 DEF TypeOK
  <2>3. \A c \in Definitions : shown[c] \subseteq shown'[c]
    BY <2>1 DEF EvalInv
  <2>4. \A c \in Definitions : Len(status[c]) \in Nat
    BY DEF TypeOK
  <2> QED
    BY <1>0, <2>1, <2>2, <2>3, <2>4 DEF Grows
<1>3. ASSUME NEW o \in Operators, Write(o)
      PROVE  TypeOK' /\ Grows /\ UNCHANGED <<evals, status, signals, wk, raced, clock>>
  <2>1. /\ UNCHANGED <<lease, evals, shown, status, signals, wk, raced, clock, faults, edits>>
        /\ defs' \in [Definitions -> Definition] /\ edit' \in [Operators -> EditState]
    BY <1>3, WriteEffect
  <2>2. TypeOK'
    BY <2>1 DEF TypeOK
  <2> QED
    BY <1>0, <2>1, <2>2, GrowsSame
<1>4. ASSUME NEW o \in Operators, NEW d \in Definitions, NEW on \in BOOLEAN, Read(o, d, on)
      PROVE  TypeOK' /\ Grows /\ UNCHANGED <<evals, status, signals, wk, raced, clock>>
  <2>1. /\ UNCHANGED <<lease, defs, evals, shown, status, signals, wk, raced, clock, faults>>
        /\ edits' \in 0..MaxEdits /\ edit' \in [Operators -> EditState]
    BY <1>4, ReadEffect
  <2>2. TypeOK'
    BY <2>1 DEF TypeOK
  <2> QED
    BY <1>0, <2>1, <2>2, GrowsSame
<1> QED
  BY <1>1, <1>2, <1>3, <1>4 DEF Environment

-----------------------------------------------------------------------------
(* A cycle and its evaluations.                                            *)

\* A worker that another step leaves alone.
LEMMA CycleKept ==
  ASSUME TypeOK, Grows, NEW v \in Workers, CycleInv(v), wk'[v] = wk[v],
         \A u \in Workers : u # v /\ wk'[u].pc # "idle" =>
           (wk[u].pc # "idle" /\ wk'[u].now = wk[u].now) \/ wk'[u].now = clock + 1,
         \A d \in Definitions : \A e \in evals'[d] \ evals[d] :
           \E u \in Workers : u # v /\ wk[u].pc # "idle" /\ e.at = wk[u].now
  PROVE  CycleInv(v)'
<1>1. wk[v].now \in Nat /\ wk[v].now <= clock /\ clock \in Nat /\ clock' \in Nat /\ clock <= clock'
  BY Fields DEF CycleInv, Grows
<1>2. wk[v].pc \in Busy => wk[v].def \in Definitions
  BY DEF CycleInv
<1>3. wk[v].todo \subseteq Definitions
  BY Fields
<1>4. \A d \in Definitions : wk[v].pc # "idle" /\ Fresh(v, d) => Fresh(v, d)'
  BY DEF Fresh, CycleInv
<1>5. \A u \in Workers : u # v /\ wk'[u].pc # "idle" /\ wk'[v].pc # "idle" => wk'[u].now # wk'[v].now
  BY <1>1 DEF CycleInv
<1>6. wk'[v].now <= clock' /\ (wk'[v].pc # "idle" => wk'[v].now > 0)
  BY <1>1 DEF CycleInv
<1>7. /\ wk'[v].pc \in {"token", "due"} => \A d \in Definitions : Fresh(v, d)'
      /\ wk'[v].pc # "idle" => \A d \in wk'[v].todo : Fresh(v, d)'
  BY <1>3, <1>4 DEF CycleInv
<1>8. wk'[v].pc = "observe" => Fresh(v, wk[v].def)'
  BY <1>2, <1>4 DEF CycleInv, Busy, Fresh
<1>9. wk'[v].pc \in Writing =>
       \/ wk'[v].ev \in shown'[wk'[v].def]
       \/ wk'[v].ev.at = wk'[v].now /\ Fresh(v, wk[v].def)'
  BY <1>2, <1>4 DEF CycleInv, Busy, Writing, Grows, Fresh
<1>10. /\ wk'[v].pc \in Written => wk'[v].ev \in evals'[wk'[v].def]
       /\ wk'[v].pc \in Visible => wk'[v].ev \in shown'[wk'[v].def]
  BY <1>2 DEF CycleInv, Busy, Written, Visible, Grows
<1>11. wk'[v].pc \in Busy => wk'[v].def \in Definitions \ wk'[v].todo
  BY DEF CycleInv
<1> QED
  BY <1>5, <1>6, <1>7, <1>8, <1>9, <1>10, <1>11 DEF CycleInv

\* The acting worker: with its evaluation written it goes on, or it leaves the
\* definition, or it ends the cycle.
LEMMA CycleGoesOn ==
  ASSUME TypeOK, Grows, NEW w \in Workers, CycleInv(w), clock' = clock, NEW step \in Written,
         Goes(w, step), wk[w].pc \in Busy, wk[w].ev \in evals'[wk[w].def],
         step \in Visible => wk[w].ev \in shown'[wk[w].def],
         \A d \in wk[w].todo : Fresh(w, d)'
  PROVE  CycleInv(w)'
<1>1. /\ wk'[w].pc = step /\ wk'[w].now = wk[w].now /\ wk'[w].todo = wk[w].todo
      /\ wk'[w].def = wk[w].def /\ wk'[w].ev = wk[w].ev
      /\ \A v \in Workers : v # w => wk'[v] = wk[v]
  BY DEF Goes, Others
<1>2. wk[w].pc # "idle" /\ step \notin {"idle", "token", "due", "observe"} \cup Writing
  BY DEF Busy, Writing, Written
<1>3. /\ wk[w].now <= clock /\ wk[w].now > 0 /\ wk[w].def \in Definitions \ wk[w].todo
      /\ \A v \in Workers : v # w /\ wk[v].pc # "idle" => wk[v].now # wk[w].now
  BY <1>2 DEF CycleInv
<1> QED
  BY <1>1, <1>2, <1>3 DEF CycleInv

LEMMA CycleLeaves ==
  ASSUME TypeOK, Grows, NEW w \in Workers, CycleInv(w), clock' = clock, wk[w].pc # "idle",
         Leaves(w), evals' = evals
  PROVE  CycleInv(w)'
<1>1. /\ wk'[w].pc = "next" /\ wk'[w].now = wk[w].now /\ wk'[w].todo = wk[w].todo
      /\ \A v \in Workers : v # w => wk'[v] = wk[v]
  BY DEF Leaves, Others
<1>2. /\ wk[w].now <= clock /\ wk[w].now > 0 /\ \A d \in wk[w].todo : Fresh(w, d)
      /\ \A v \in Workers : v # w /\ wk[v].pc # "idle" => wk[v].now # wk[w].now
  BY DEF CycleInv
<1>3. \A d \in wk'[w].todo : Fresh(w, d)'
  BY <1>1, <1>2 DEF Fresh
<1> QED
  BY <1>1, <1>2, <1>3 DEF CycleInv, Busy, Writing, Written, Visible

LEMMA CycleEnds ==
  ASSUME Grows, NEW w \in Workers, wk'[w].pc = "idle", wk'[w].now = 0
  PROVE  CycleInv(w)'
<1>1. 0 <= clock'
  BY DEF Grows
<1> QED
  BY <1>1 DEF CycleInv, Busy, Writing, Written, Visible

LEMMA CycleStarts ==
  ASSUME TypeOK, NEW w \in Workers, CycleInv(w), \A v \in Workers : CycleInv(v),
         \A d \in Definitions : EvalInv(d), Grows, Acquire(w)
  PROVE  CycleInv(w)'
<1>1. /\ Others(w) /\ wk'[w].pc = "token" /\ wk'[w].now = clock + 1 /\ clock' = clock + 1
      /\ clock \in Nat /\ wk' \in [Workers -> WorkerState]
  BY Acquired
<1>2. evals' = evals
  BY DEF Acquire, documents
<1>3. \A d \in Definitions : \A e \in evals[d] : e.at <= clock /\ e.at \in Nat
  BY EvaluationFields DEF EvalInv, TypeOK
<1>4. \A d \in Definitions : Fresh(w, d)'
  BY <1>1, <1>2, <1>3 DEF Fresh
<1>5. wk'[w].todo \subseteq Definitions
  BY <1>1 DEF WorkerState
<1>6. \A v \in Workers : v # w => wk'[v].now # wk'[w].now
  BY <1>1, Fields DEF Others, CycleInv
<1>7. wk'[w].now <= clock' /\ wk'[w].now > 0
  BY <1>1
<1> QED
  BY <1>1, <1>4, <1>5, <1>6, <1>7 DEF CycleInv, Busy, Writing, Written, Visible

\* The steps between the lease and the first write.
LEMMA CyclePrepares ==
  ASSUME TypeOK, Grows, NEW w \in Workers, CycleInv(w), \A d \in Definitions : EvalInv(d),
         \/ ReadToken(w) \/ Due(w) \/ (\E d \in Definitions : Resume(w, d))
         \/ (\E o \in Observations : Observe(w, o)) \/ Fence(w, "persistFence", "persist")
  PROVE  CycleInv(w)'
<1>1. wk[w].pc # "idle" /\ clock' = clock /\ UNCHANGED <<evals, shown>>
  BY DEF ReadToken, Due, Resume, Observe, Fence, At, documents
<1>2. /\ wk[w].now <= clock /\ wk[w].now > 0 /\ \A d \in wk[w].todo : Fresh(w, d)
      /\ \A v \in Workers : v # w /\ wk[v].pc # "idle" => wk[v].now # wk[w].now
  BY <1>1 DEF CycleInv
<1>3. ASSUME wk'[w].now = wk[w].now PROVE \A d : Fresh(w, d)' <=> Fresh(w, d)
  BY <1>1, <1>3 DEF Fresh
<1>4. CASE ReadToken(w)
  <2>1. /\ Others(w) /\ wk'[w].pc = "due" /\ wk'[w].now = wk[w].now /\ wk'[w].todo = wk[w].todo
    BY <1>4, TokenRead
  <2>2. \A d \in Definitions : Fresh(w, d)
    BY <1>4 DEF CycleInv, ReadToken, At
  <2> QED
    BY <1>1, <1>2, <1>3, <2>1, <2>2 DEF CycleInv, Busy, Writing, Written, Visible, Others
<1>5. CASE Due(w)
  <2>1. /\ Others(w) /\ wk'[w].pc = "next" /\ wk'[w].now = wk[w].now /\ wk'[w].todo \subseteq Definitions
    BY <1>5, DueFound
  <2>2. \A d \in Definitions : Fresh(w, d)
    BY <1>5 DEF CycleInv, Due, At
  <2> QED
    BY <1>1, <1>2, <1>3, <2>1, <2>2 DEF CycleInv, Busy, Writing, Written, Visible, Others
<1>6. ASSUME NEW d \in Definitions, Resume(w, d) PROVE CycleInv(w)'
  <2>1. /\ Others(w) /\ wk'[w].now = wk[w].now
        /\ wk'[w].todo = wk[w].todo \ {d} /\ wk'[w].def = d /\ d \in wk[w].todo
        /\ \/ wk'[w].pc = "observe"
           \/ wk'[w].pc = "persistFence" /\ wk'[w].ev \in shown[d]
    BY <1>6, Resumed DEF Pending, Newest
  <2>2. Fresh(w, d) /\ \A c \in wk'[w].todo : Fresh(w, c)
    BY <1>2, <2>1
  <2>3. Fresh(w, d)' /\ \A c \in wk'[w].todo : Fresh(w, c)'
    BY <1>3, <2>1, <2>2
  <2>4. wk'[w].pc = "observe" => Fresh(w, wk[w].def)'
    BY <2>1, <2>3 DEF Fresh
  <2> QED
    BY <1>1, <1>2, <2>1, <2>3, <2>4 DEF CycleInv, Busy, Writing, Written, Visible, Others
<1>7. ASSUME NEW o \in Observations, Observe(w, o) PROVE CycleInv(w)'
  <2>0. wk[w].pc = "observe" /\ wk[w].def \in Definitions \ wk[w].todo /\ Fresh(w, wk[w].def)
    BY <1>7 DEF CycleInv, Observe, At, Busy
  <2>1. /\ Others(w) /\ wk'[w].pc = "persistFence" /\ wk'[w].now = wk[w].now
        /\ wk'[w].todo = wk[w].todo /\ wk'[w].def = wk[w].def /\ wk'[w].ev.at = wk[w].now
    BY <1>7, <2>0, Observed
  <2>2. Fresh(w, wk[w].def)' /\ \A c \in wk'[w].todo : Fresh(w, c)'
    BY <1>1, <1>2, <2>0, <2>1 DEF Fresh
  <2> QED
    BY <1>1, <1>2, <2>0, <2>1, <2>2 DEF CycleInv, Busy, Writing, Written, Visible, Others
<1>8. CASE Fence(w, "persistFence", "persist")
  <2>1. wk[w].pc = "persistFence" /\ (Goes(w, "persist") \/ Leaves(w))
    BY <1>8, Fenced DEF Steps
  <2>2. CASE Leaves(w)
    BY <1>1, <2>2, CycleLeaves
  <2>3. CASE Goes(w, "persist")
    <3>1. /\ Others(w) /\ wk'[w].pc = "persist" /\ wk'[w].now = wk[w].now
          /\ wk'[w].todo = wk[w].todo /\ wk'[w].def = wk[w].def /\ wk'[w].ev = wk[w].ev
      BY <2>3 DEF Goes
    <3>2. /\ wk[w].def \in Definitions \ wk[w].todo
          /\ wk[w].ev \in shown[wk[w].def] \/ (wk[w].ev.at = wk[w].now /\ Fresh(w, wk[w].def))
      BY <2>1 DEF CycleInv, Busy, Writing
    <3>3. /\ Fresh(w, wk[w].def) => Fresh(w, wk[w].def)'
          /\ \A c \in wk'[w].todo : Fresh(w, c)'
      BY <1>1, <1>2, <3>1 DEF Fresh
    <3> QED
      BY <1>1, <1>2, <3>1, <3>2, <3>3 DEF CycleInv, Busy, Writing, Written, Visible, Others
  <2> QED
    BY <2>1, <2>2, <2>3
<1> QED
  BY <1>4, <1>5, <1>6, <1>7, <1>8

\* The steps after the first write.
LEMMA CycleProceeds ==
  ASSUME TypeOK, Grows, NEW w \in Workers, CycleInv(w), \A d \in Definitions : EvalInv(d),
         \/ Persist(w) \/ Persisted(w) \/ GetStatus(w) \/ Project(w) \/ Signal(w)
         \/ GetDefinition(w) \/ Checkpoint(w) \/ Fence(w, "projectFence", "projectGet")
         \/ Fence(w, "signalFence", "signal") \/ Fence(w, "checkpointFence", "checkpointGet")
  PROVE  CycleInv(w)'
<1>1. wk[w].pc \in Busy /\ wk[w].pc # "idle" /\ clock' = clock
  BY DEF Persist, Persisted, GetStatus, Project, Signal, GetDefinition, Checkpoint, Fence, At,
     Busy, Writing, Written
<1>2. wk[w].def \in Definitions \ wk[w].todo /\ \A d \in wk[w].todo : d \in Definitions /\ Fresh(w, d)
  BY <1>1, Fields DEF CycleInv
<1>3. CASE Persist(w)
  <2>0. PICK d \in Definitions : d = wk[w].def
    BY <1>2
  <2>1. CASE wk[w].ev \in shown[d] /\ evals' = evals /\ Goes(w, "projectFence")
    <3>1. wk[w].ev \in evals'[wk[w].def] /\ wk[w].ev \in shown'[wk[w].def]
      BY <2>0, <2>1 DEF EvalInv, Grows
    <3>2. \A c \in wk[w].todo : Fresh(w, c)'
      BY <1>2, <2>1 DEF Fresh, Goes
    <3> QED
      BY <1>1, <2>1, <3>1, <3>2, CycleGoesOn DEF Written
  <2>2. CASE /\ evals' = [evals EXCEPT ![d] = @ \cup {wk[w].ev}] /\ Goes(w, "refresh")
    <3>0. evals \in [Definitions -> SUBSET Evaluation]
      BY DEF TypeOK
    <3>1. wk[w].ev \in evals'[wk[w].def] /\ \A c \in Definitions : c # d => evals'[c] = evals[c]
      BY <2>0, <2>2, <3>0
    <3>2. \A c \in wk[w].todo : Fresh(w, c)'
      BY <1>2, <2>0, <2>2, <3>1 DEF Fresh, Goes
    <3> QED
      BY <1>1, <2>2, <3>1, <3>2, CycleGoesOn DEF Written, Visible
  <2> QED
    BY <1>3, <2>0, <2>1, <2>2, PersistEffect
<1>4. CASE ~Persist(w)
  <2>1. evals' = evals /\ shown' = shown /\ wk[w].pc \in Written
    BY <1>4 DEF Persisted, GetStatus, Project, Signal, GetDefinition, Checkpoint, Fence, At, documents,
       Written
  <2>2. wk[w].ev \in evals'[wk[w].def] /\ (wk[w].pc \in Visible => wk[w].ev \in shown'[wk[w].def])
    BY <2>1 DEF CycleInv
  <2>3. \/ Leaves(w)
        \/ \E step \in Visible : Goes(w, step) /\ wk[w].ev \in shown'[wk[w].def]
    <3>1. CASE Persisted(w)
      <4>1. Goes(w, "projectFence")
        BY <3>1, Went DEF Persisted, Go, Steps
      <4> QED
        BY <2>1, <3>1, <4>1 DEF Persisted, Visible, Written
    <3>2. CASE ~Persisted(w)
      <4>1. wk[w].pc \in Visible
        BY <1>4, <3>2 DEF GetStatus, Project, Signal, GetDefinition, Checkpoint, Fence, At, Visible, Written
      <4>2. CASE GetStatus(w) \/ Project(w)
        <5>1. Goes(w, "signalFence") \/ Goes(w, "project") \/ Leaves(w)
          BY <1>2, <4>2, StatusRead, ProjectedTo
        <5> QED
          BY <2>2, <4>1, <5>1 DEF Visible, Written
      <4>3. CASE Signal(w)
        <5>1. Goes(w, "checkpointFence")
          BY <4>3, Went DEF Signal, Go, Steps
        <5> QED
          BY <2>2, <4>1, <5>1 DEF Visible, Written
      <4>4. CASE GetDefinition(w)
        <5>1. defs[wk[w].def].ver \in Nat
          BY <1>2, DefinitionFields
        <5>2. Goes(w, "checkpoint")
          BY <4>4, <5>1, WentWith DEF GetDefinition, Steps
        <5> QED
          BY <2>2, <4>1, <5>2 DEF Visible, Written
      <4>5. CASE Checkpoint(w)
        BY <4>5, LeftOff DEF Checkpoint
      <4>6. CASE \/ Fence(w, "projectFence", "projectGet") \/ Fence(w, "signalFence", "signal")
                 \/ Fence(w, "checkpointFence", "checkpointGet")
        <5>1. Leaves(w) \/ Goes(w, "projectGet") \/ Goes(w, "signal") \/ Goes(w, "checkpointGet")
          BY <4>6, Fenced DEF Steps
        <5> QED
          BY <2>2, <4>1, <5>1 DEF Visible, Written
      <4> QED
        BY <1>4, <3>2, <4>2, <4>3, <4>4, <4>5, <4>6
    <3> QED
      BY <3>1, <3>2
  <2>4. CASE Leaves(w)
    BY <1>1, <2>1, <2>4, CycleLeaves
  <2>5. ASSUME NEW step \in Visible, Goes(w, step), wk[w].ev \in shown'[wk[w].def] PROVE CycleInv(w)'
    <3>1. \A c \in wk[w].todo : Fresh(w, c)'
      BY <1>2, <2>1, <2>5 DEF Fresh, Goes
    <3>2. step \in Written
      BY DEF Visible
    <3> QED
      BY <1>1, <2>2, <2>5, <3>1, <3>2, CycleGoesOn
  <2> QED
    BY <2>3, <2>4, <2>5
<1> QED
  BY <1>3, <1>4

\* The only evaluation a worker's step adds is its own, of the time of its cycle.
LEMMA NewEvaluation ==
  ASSUME TypeOK, NEW w \in Workers, CycleInv(w), \A d \in Definitions : EvalInv(d), Acts(w),
         NEW d \in Definitions, NEW e \in evals'[d], e \notin evals[d]
  PROVE  /\ Persist(w) /\ wk[w].pc = "persist" /\ d = wk[w].def /\ e = wk[w].ev
         /\ e.at = wk[w].now /\ Fresh(w, d)
         /\ evals'[d] = evals[d] \cup {e} /\ \A c \in Definitions : c # d => evals'[c] = evals[c]
         /\ Goes(w, "refresh")
<1>1. Persist(w)
  BY QuietDocuments DEF Quiet, Project, Signal, Checkpoint
<1>2. wk[w].pc = "persist" /\ wk[w].def \in Definitions
  BY <1>1 DEF Persist, At, CycleInv, Busy, Writing
<1>3. PICK c \in Definitions : c = wk[w].def
  BY <1>2
<1>4. /\ wk[w].ev.at = wk[w].now /\ Fresh(w, c)
      /\ evals' = [evals EXCEPT ![c] = @ \cup {wk[w].ev}] /\ Goes(w, "refresh")
  BY <1>1, <1>3, PersistEffect
<1>5. evals \in [Definitions -> SUBSET Evaluation]
  BY DEF TypeOK
<1>6. /\ evals'[c] = evals[c] \cup {wk[w].ev}
      /\ \A b \in Definitions : b # c => evals'[b] = evals[b]
  BY <1>4, <1>5
<1>7. d = c /\ e = wk[w].ev
  BY <1>6
<1> QED
  BY <1>1, <1>2, <1>3, <1>4, <1>6, <1>7

LEMMA ActCycle ==
  ASSUME TypeOK, TypeOK', Grows, NEW w \in Workers, \A v \in Workers : CycleInv(v),
         \A d \in Definitions : EvalInv(d), Acts(w)
  PROVE  \A v \in Workers : CycleInv(v)'
<1>0. /\ CycleInv(w) /\ Others(w)
      /\ \/ Acquire(w)
         \/ /\ wk[w].pc # "idle" /\ clock' = clock
            /\ \/ wk'[w].pc = "idle" /\ wk'[w].now = 0
               \/ wk'[w].pc \notin {"idle", "token"} /\ wk'[w].now = wk[w].now
  BY WorkerMoves
<1>1. ASSUME NEW v \in Workers, v # w PROVE CycleInv(v)'
  <2>1. CycleInv(v) /\ wk'[v] = wk[v]
    BY <1>0, <1>1 DEF Others
  <2>2. ASSUME NEW u \in Workers, u # v, wk'[u].pc # "idle"
        PROVE  (wk[u].pc # "idle" /\ wk'[u].now = wk[u].now) \/ wk'[u].now = clock + 1
    BY <1>0, <2>2, Acquired DEF Others
  <2>3. ASSUME NEW d \in Definitions, NEW e \in evals'[d] \ evals[d]
        PROVE  \E u \in Workers : u # v /\ wk[u].pc # "idle" /\ e.at = wk[u].now
    BY <1>0, <1>1, NewEvaluation
  <2> QED
    BY <2>1, <2>2, <2>3, CycleKept
<1>2. CycleInv(w)'
  <2>1. CASE Acquire(w)
    BY <2>1, CycleStarts
  <2>2. CASE Finish(w) \/ Crash(w) \/ Fail(w)
    <3>1. evals' = evals /\ clock' = clock /\ wk[w].pc # "idle"
      BY <2>2 DEF Finish, Crash, Fail, At, documents
    <3>2. Ends(w) \/ Leaves(w)
      BY <2>2, Ended, Failed DEF Finish, Crash
    <3> QED
      BY <1>0, <3>1, <3>2, CycleEnds, CycleLeaves DEF Ends
  <2>3. CASE ~(Acquire(w) \/ Finish(w) \/ Crash(w) \/ Fail(w))
    <3>1. \/ \/ ReadToken(w) \/ Due(w) \/ (\E d \in Definitions : Resume(w, d))
             \/ (\E o \in Observations : Observe(w, o)) \/ Fence(w, "persistFence", "persist")
          \/ \/ Persist(w) \/ Persisted(w) \/ GetStatus(w) \/ Project(w) \/ Signal(w)
             \/ GetDefinition(w) \/ Checkpoint(w) \/ Fence(w, "projectFence", "projectGet")
             \/ Fence(w, "signalFence", "signal") \/ Fence(w, "checkpointFence", "checkpointGet")
      BY <2>3 DEF Acts, Cycle, Fences
    <3> QED
      BY <1>0, <3>1, CyclePrepares, CycleProceeds
  <2> QED
    BY <2>1, <2>2, <2>3
<1> QED
  BY <1>1, <1>2

LEMMA EnvironmentCycle ==
  ASSUME TypeOK, Grows, \A v \in Workers : CycleInv(v), UNCHANGED <<evals, wk>>
  PROVE  \A v \in Workers : CycleInv(v)'
<1> TAKE v \in Workers
<1>1. CycleInv(v) /\ wk'[v] = wk[v]
  OBVIOUS
<1>2. \A u \in Workers : u # v /\ wk'[u].pc # "idle" =>
           (wk[u].pc # "idle" /\ wk'[u].now = wk[u].now) \/ wk'[u].now = clock + 1
  OBVIOUS
<1>3. \A d \in Definitions : \A e \in evals'[d] \ evals[d] :
           \E u \in Workers : u # v /\ wk[u].pc # "idle" /\ e.at = wk[u].now
  OBVIOUS
<1> QED
  BY <1>1, <1>2, <1>3, CycleKept

\* The evaluations of a definition differ in their time; a search shows some,
\* and the status has been taken from those.
LEMMA ActEval ==
  ASSUME TypeOK, TypeOK', Grows, NEW w \in Workers, CycleInv(w),
         \A d \in Definitions : EvalInv(d), Acts(w)
  PROVE  \A d \in Definitions : EvalInv(d)'
<1> SUFFICES ASSUME NEW d \in Definitions PROVE EvalInv(d)'
  OBVIOUS
<1>0. /\ EvalInv(d) /\ evals[d] \subseteq evals'[d] /\ shown[d] \subseteq shown'[d]
      /\ clock \in Nat /\ clock' \in Nat /\ clock <= clock'
  BY DEF Grows
<1>1. shown' = shown
  BY QuietDocuments DEF Quiet, Persist, Project, Signal, Checkpoint
<1>2. shown'[d] \subseteq evals'[d]
  BY <1>0, <1>1 DEF EvalInv
<1>3. \A e \in evals'[d] : e \in evals[d] \/ (e.at = wk[w].now /\ 0 < e.at /\ e.at <= clock /\ Fresh(w, d))
  <2>1. ASSUME NEW e \in evals'[d], e \notin evals[d]
        PROVE  e.at = wk[w].now /\ 0 < e.at /\ e.at <= clock /\ Fresh(w, d)
    <3>1. e.at = wk[w].now /\ Fresh(w, d) /\ wk[w].pc = "persist"
      BY <2>1, NewEvaluation
    <3> QED
      BY <3>1 DEF CycleInv
  <2> QED
    BY <2>1
<1>4. \A e \in evals'[d] : e.at \in Nat
  BY EvaluationFields DEF TypeOK
<1>5. \A e \in evals'[d] : 0 < e.at /\ e.at <= clock'
  BY <1>0, <1>3, <1>4 DEF EvalInv
<1>6. \A e, f \in evals'[d] : e \notin evals[d] /\ f \notin evals[d] => e = f
  BY NewEvaluation
<1>7. \A e, f \in evals'[d] : e.at = f.at => e = f
  BY <1>0, <1>3, <1>6 DEF EvalInv, Fresh
<1>8. \A n \in 1..Len(status'[d]) : status'[d][n] \in shown'[d]
  <2>1. CASE status'[d] = status[d]
    BY <1>0, <1>1, <2>1 DEF EvalInv
  <2>2. CASE status'[d] # status[d]
    <3>1. Project(w)
      BY <2>2, QuietDocuments DEF Quiet, Persist, Signal, Checkpoint
    <3>2. wk[w].def \in Definitions /\ wk[w].ev \in shown[wk[w].def] /\ wk[w].pc = "project"
      BY <3>1 DEF CycleInv, Project, At, Busy, Visible, Written
    <3>3. PICK c \in Definitions : c = wk[w].def
      BY <3>2
    <3>4. wk[w].ev \in Evaluation
      BY Fields
    <3>5. status' = [status EXCEPT ![c] = Append(@, wk[w].ev)]
      BY <2>2, <3>1, <3>3, ProjectedTo
    <3>6. /\ \A b \in Definitions : b # c => status'[b] = status[b]
          /\ Len(status[c]) \in Nat /\ Len(status'[c]) = Len(status[c]) + 1
          /\ \A n \in 1..Len(status[c]) : status'[c][n] = status[c][n]
          /\ status'[c][Len(status[c]) + 1] = wk[w].ev
      BY <3>4, <3>5, StatusAdded
    <3>7. d = c
      BY <2>2, <3>6
    <3>8. \A n \in 1..Len(status'[c]) : n \in 1..Len(status[c]) \/ n = Len(status[c]) + 1
      BY <3>6
    <3>9. wk[w].ev \in shown[c] /\ shown[c] \subseteq shown'[c]
      BY <1>1, <3>2, <3>3, <3>7
    <3>10. \A n \in 1..Len(status[c]) : status'[c][n] \in shown'[c]
      BY <1>0, <3>6, <3>7, <3>9 DEF EvalInv
    <3> QED
      BY <3>6, <3>7, <3>8, <3>9, <3>10
  <2> QED
    BY <2>1, <2>2
<1> QED
  BY <1>2, <1>5, <1>7, <1>8 DEF EvalInv

LEMMA EnvironmentEval ==
  ASSUME TypeOK, TypeOK', Grows, \A d \in Definitions : EvalInv(d), Environment,
         UNCHANGED <<evals, status, clock>>
  PROVE  \A d \in Definitions : EvalInv(d)'
<1>1. \A d \in Definitions : shown'[d] \subseteq evals'[d]
  <2>1. CASE shown' = shown
    BY <2>1 DEF EvalInv
  <2>2. CASE \E d \in Definitions : Refresh(d)
    BY <2>2, RefreshEffect DEF EvalInv
  <2> QED
    BY <2>1, <2>2 DEF Environment, Expire, Write, Read, documents
<1> QED
  BY <1>1 DEF EvalInv, Grows

-----------------------------------------------------------------------------
(* What is recorded stays recorded, what is signalled stays signalled.     *)

LEMMA RecordStays ==
  ASSUME Grows, NEW d \in Definitions, NEW e
  PROVE  (Recorded(d, e) => Recorded(d, e)') /\ (Signals(d, e) => Signals(d, e)')
<1>1. ASSUME Recorded(d, e) PROVE Recorded(d, e)'
  <2>1. PICK n \in 1..Len(status[d]) : status[d][n] = e
    BY <1>1 DEF Recorded
  <2>2. n \in 1..Len(status'[d]) /\ status'[d][n] = e
    BY <2>1 DEF Grows
  <2> QED
    BY <2>2 DEF Recorded
<1>2. Signals(d, e) => Signals(d, e)'
  BY DEF Signals, Grows
<1> QED
  BY <1>1, <1>2

LEMMA BackedStays ==
  ASSUME Grows, NEW d \in Definitions, NEW l, Backed(d, l)
  PROVE  Backed(d, l)'
<1> SUFFICES ASSUME l # 0 PROVE \E e \in evals'[d] : e.at = l /\ Recorded(d, e)' /\ Signals(d, e)'
  BY DEF Backed
<1>1. PICK e \in evals[d] : e.at = l /\ Recorded(d, e) /\ Signals(d, e)
  BY DEF Backed
<1> QED
  BY <1>1, RecordStays DEF Grows

\* A worker whose definition and evaluation stay, at a step no further than it is.
LEMMA WorkStays ==
  ASSUME Grows, NEW w \in Workers, WorkInv(w), NEW d \in Definitions, d = wk[w].def,
         wk'[w].def = wk[w].def, wk'[w].ev = wk[w].ev,
         wk'[w].pc \in Projected => Recorded(d, wk[w].ev),
         wk'[w].pc \in Signalling => Signals(d, wk[w].ev)
  PROVE  WorkInv(w)'
<1>1. PICK e : e = wk[w].ev
  OBVIOUS
<1>2. /\ wk'[w].pc \in Projected => Recorded(d, e)'
      /\ wk'[w].pc \in Signalling => Signals(d, e)'
  BY <1>1, RecordStays
<1>3. wk'[w].def = d /\ wk'[w].ev = e
  BY <1>1
<1> QED
  BY <1>2, <1>3 DEF WorkInv, Recorded, Signals

LEMMA WorkKept ==
  ASSUME TypeOK, Grows, NEW v \in Workers, CycleInv(v), WorkInv(v), wk'[v] = wk[v]
  PROVE  WorkInv(v)'
<1>1. CASE wk[v].pc \in Projected
  <2>1. PICK d \in Definitions : d = wk[v].def
    BY <1>1 DEF CycleInv, Projected, Busy, Written
  <2> QED
    BY <1>1, <2>1, WorkStays DEF WorkInv
<1>2. CASE wk[v].pc \notin Projected
  BY <1>2 DEF WorkInv, Projected, Signalling
<1> QED
  BY <1>1, <1>2

\* The status holds one evaluation of a time: the worker that finds its own
\* evaluation's time there finds its evaluation.
LEMMA CurrentRecorded ==
  ASSUME TypeOK, NEW d \in Definitions, EvalInv(d), NEW e \in evals[d],
         status[d] # <<>>, Current(d).at = e.at
  PROVE  Recorded(d, e)
<1>1. Len(status[d]) \in 1..Len(status[d])
  BY DEF TypeOK
<1>2. Current(d) = status[d][Len(status[d])] /\ Current(d) \in evals[d]
  BY <1>1 DEF Current, EvalInv
<1>3. Current(d) = e
  BY <1>2 DEF EvalInv
<1> QED
  BY <1>1, <1>2, <1>3 DEF Recorded

LEMMA ActWork ==
  ASSUME TypeOK, TypeOK', Grows, NEW w \in Workers, CycleInv(w), WorkInv(w),
         \A d \in Definitions : EvalInv(d), Acts(w)
  PROVE  WorkInv(w)'
<1>1. CASE wk'[w].pc \notin Projected
  BY <1>1 DEF WorkInv, Projected, Signalling
<1>2. CASE wk'[w].pc \in Projected
  <2>0. wk'[w].pc \notin {"idle", "token", "due", "next", "observe", "persistFence", "persist", "refresh",
                          "projectFence", "projectGet", "project"}
    BY <1>2 DEF Projected
  <2>1. \/ GetStatus(w) \/ Project(w) \/ Signal(w) \/ GetDefinition(w)
        \/ Fence(w, "signalFence", "signal") \/ Fence(w, "checkpointFence", "checkpointGet")
    <3>1. CASE Acquire(w) \/ ReadToken(w) \/ Due(w)
      BY <2>0, <3>1, Acquired, TokenRead, DueFound
    <3>2. CASE Finish(w) \/ Crash(w) \/ Fail(w) \/ Checkpoint(w)
      BY <2>0, <3>2, Ended, Failed, LeftOff DEF Finish, Crash, Ends, Leaves, Checkpoint
    <3>3. CASE \E d \in Definitions : Resume(w, d)
      BY <2>0, <3>3, Resumed
    <3>4. CASE \E o \in Observations : Observe(w, o)
      <4>1. wk[w].def \in Definitions
        BY <3>4 DEF CycleInv, Observe, At, Busy
      <4> QED
        BY <2>0, <3>4, <4>1, Observed
    <3>5. CASE Fence(w, "persistFence", "persist") \/ Fence(w, "projectFence", "projectGet")
      <4>1. Leaves(w) \/ Goes(w, "persist") \/ Goes(w, "projectGet")
        BY <3>5, Fenced DEF Steps
      <4> QED
        BY <2>0, <4>1 DEF Leaves, Goes
    <3>6. CASE Persist(w) \/ Persisted(w)
      <4>1. Goes(w, "refresh") \/ Goes(w, "projectFence")
        BY <3>6, Went DEF Persist, Persisted, Go, Steps
      <4> QED
        BY <2>0, <4>1 DEF Goes
    <3> QED
      BY <3>1, <3>2, <3>3, <3>4, <3>5, <3>6 DEF Acts, Cycle, Fences
  <2>2. wk[w].pc \in Visible /\ wk[w].pc \in Busy /\ wk[w].def \in Definitions
    BY <2>1 DEF GetStatus, Project, Signal, GetDefinition, Fence, At, Visible, Written, Busy, CycleInv
  <2>3. PICK d \in Definitions : d = wk[w].def
    BY <2>2
  <2>4. wk[w].ev \in evals[d] /\ wk[w].ev \in Evaluation
    BY <2>2, <2>3, Fields DEF CycleInv, Visible
  <2>5. PICK e : e = wk[w].ev
    OBVIOUS
  <2>6. CASE GetStatus(w)
    <3>1. status[d] # <<>> /\ Current(d).at = e.at /\ Goes(w, "signalFence")
      BY <2>0, <2>3, <2>5, <2>6, StatusRead DEF Goes
    <3>2. Recorded(d, wk[w].ev)
      BY <2>4, <2>5, <3>1, CurrentRecorded
    <3> QED
      BY <2>3, <3>1, <3>2, WorkStays DEF Goes, Signalling
  <2>7. CASE Project(w)
    <3>1. status' = [status EXCEPT ![d] = Append(@, e)] /\ Goes(w, "signalFence")
      BY <2>0, <2>3, <2>5, <2>7, ProjectedTo DEF Leaves
    <3>2. /\ Len(status[d]) \in Nat /\ Len(status'[d]) = Len(status[d]) + 1
          /\ status'[d][Len(status[d]) + 1] = e
      BY <2>4, <2>5, <3>1, StatusAdded
    <3>3. Recorded(d, e)'
      BY <3>2 DEF Recorded
    <3>4. wk'[w].def = d /\ wk'[w].ev = e /\ wk'[w].pc = "signalFence"
      BY <2>3, <2>5, <3>1 DEF Goes
    <3> QED
      BY <3>3, <3>4 DEF WorkInv, Recorded, Signalling
  <2>8. CASE Signal(w)
    <3>0. wk[w].pc = "signal" /\ signals' = [signals EXCEPT ![d] = @ \cup (Transition(e) \X {e.at})]
      BY <2>3, <2>5, <2>8 DEF Signal, At
    <3>1. Goes(w, "checkpointFence")
      BY <2>8, Went DEF Signal, Go, Steps
    <3>2. Recorded(d, e)'
      BY <2>3, <2>5, <3>0, RecordStays DEF WorkInv, Projected
    <3>3. Signals(d, e)'
      BY <3>0 DEF Signals, TypeOK
    <3>4. wk'[w].def = d /\ wk'[w].ev = e
      BY <2>3, <2>5, <3>1 DEF Goes
    <3> QED
      BY <3>2, <3>3, <3>4 DEF WorkInv, Recorded, Signals
  <2>9. CASE GetDefinition(w)
    <3>1. defs[d].ver \in Nat
      BY DefinitionFields
    <3>2. Goes(w, "checkpoint") /\ wk[w].pc = "checkpointGet"
      BY <2>3, <2>9, <3>1, WentWith DEF GetDefinition, At, Steps
    <3> QED
      BY <2>3, <3>2, WorkStays DEF Goes, WorkInv, Projected, Signalling
  <2>10. CASE Fence(w, "signalFence", "signal")
    <3>1. Goes(w, "signal") /\ wk[w].pc = "signalFence"
      BY <2>0, <2>10, Fenced DEF Steps, Leaves
    <3> QED
      BY <2>3, <3>1, WorkStays DEF Goes, WorkInv, Projected, Signalling
  <2>11. CASE Fence(w, "checkpointFence", "checkpointGet")
    <3>1. Goes(w, "checkpointGet") /\ wk[w].pc = "checkpointFence"
      BY <2>0, <2>11, Fenced DEF Steps, Leaves
    <3> QED
      BY <2>3, <3>1, WorkStays DEF Goes, WorkInv, Projected, Signalling
  <2> QED
    BY <2>1, <2>6, <2>7, <2>8, <2>9, <2>10, <2>11
<1> QED
  BY <1>1, <1>2

-----------------------------------------------------------------------------
(* The checkpoints, the documents read for an edit and the fencing token.  *)

\* The worker that checkpoints has recorded and signalled its evaluation.
LEMMA ActBacked ==
  ASSUME TypeOK, Grows, NEW w \in Workers, CycleInv(w), WorkInv(w), Acts(w),
         \A d \in Definitions : Backed(d, defs[d].latest)
  PROVE  \A d \in Definitions : Backed(d, defs[d].latest)'
<1> SUFFICES ASSUME NEW d \in Definitions PROVE Backed(d, defs[d].latest)'
  OBVIOUS
<1>0. PICK l : l = defs'[d].latest
  OBVIOUS
<1>1. Backed(d, l)
  <2>1. CASE l = defs[d].latest
    BY <2>1
  <2>2. CASE l # defs[d].latest
    <3>1. Checkpoint(w)
      BY <1>0, <2>2, QuietDocuments DEF Quiet, Persist, Project, Signal
    <3>2. /\ wk[w].pc = "checkpoint" /\ wk[w].def \in Definitions /\ wk[w].ev \in evals[wk[w].def]
          /\ Recorded(wk[w].def, wk[w].ev) /\ Signals(wk[w].def, wk[w].ev)
      BY <3>1 DEF Checkpoint, At, CycleInv, WorkInv, Busy, Written, Projected, Signalling
    <3>3. d = wk[w].def /\ l = wk[w].ev.at
      BY <1>0, <2>2, <3>1, <3>2, CheckpointEffect
    <3> QED
      BY <3>2, <3>3 DEF Backed
  <2> QED
    BY <2>1, <2>2
<1>2. Backed(d, l)'
  BY <1>1, BackedStays
<1> QED
  BY <1>0, <1>2 DEF Backed

LEMMA EditStays ==
  ASSUME Grows, NEW o \in Operators, EditInv(o), edit'[o] = edit[o]
  PROVE  EditInv(o)'
<1> SUFFICES ASSUME edit[o] # NoEdit
             PROVE  edit'[o].def \in Definitions /\ Backed(edit[o].def, edit[o].doc.latest)'
  BY DEF EditInv
<1>1. PICK d \in Definitions : d = edit[o].def
  BY DEF EditInv
<1>2. PICK l : l = edit[o].doc.latest
  OBVIOUS
<1>3. Backed(d, l)'
  BY <1>1, <1>2, BackedStays DEF EditInv
<1> QED
  BY <1>1, <1>2, <1>3 DEF Backed

LEMMA EnvironmentBacked ==
  ASSUME TypeOK, Grows, Environment, \A d \in Definitions : EvalInv(d),
         \A d \in Definitions : Backed(d, defs[d].latest), \A o \in Operators : EditInv(o)
  PROVE  /\ \A d \in Definitions : Backed(d, defs[d].latest)'
         /\ \A o \in Operators : EditInv(o)'
<1>0. ASSUME NEW d \in Definitions, defs'[d].latest = defs[d].latest PROVE Backed(d, defs[d].latest)'
  <2>1. PICK l : l = defs[d].latest
    OBVIOUS
  <2>2. Backed(d, l)'
    BY <2>1, BackedStays
  <2> QED
    BY <1>0, <2>1, <2>2 DEF Backed
<1>1. CASE defs' = defs /\ edit' = edit
  BY <1>0, <1>1, EditStays
<1>2. ASSUME NEW o \in Operators, Write(o)
      PROVE  /\ \A d \in Definitions : Backed(d, defs[d].latest)'
             /\ \A p \in Operators : EditInv(p)'
  <2>1. /\ edit[o] # NoEdit /\ edit[o].def \in Definitions
        /\ defs'[edit[o].def].latest = edit[o].doc.latest
        /\ \A c \in Definitions : c # edit[o].def => defs'[c] = defs[c]
        /\ edit'[o] = NoEdit /\ \A p \in Operators : p # o => edit'[p] = edit[p]
    BY <1>2, WriteEffect
  <2>2. ASSUME NEW d \in Definitions, d = edit[o].def PROVE Backed(d, defs[d].latest)'
    <3>1. PICK l : l = edit[o].doc.latest
      OBVIOUS
    <3>2. Backed(d, l)'
      BY <2>1, <2>2, <3>1, BackedStays DEF EditInv
    <3> QED
      BY <2>1, <2>2, <3>1, <3>2 DEF Backed
  <2>3. EditInv(o)'
    BY <2>1 DEF EditInv
  <2> QED
    BY <1>0, <2>1, <2>2, <2>3, EditStays
<1>3. ASSUME NEW o \in Operators, NEW d \in Definitions, NEW on \in BOOLEAN, Read(o, d, on)
      PROVE  /\ \A c \in Definitions : Backed(c, defs[c].latest)'
             /\ \A p \in Operators : EditInv(p)'
  <2>1. /\ defs' = defs /\ edit'[o].def = d /\ edit'[o].doc = defs[d]
        /\ \A p \in Operators : p # o => edit'[p] = edit[p]
    BY <1>3, ReadEffect
  <2>2. \A c \in Definitions : Backed(c, defs[c].latest)'
    BY <1>0, <2>1
  <2>3. EditInv(o)'
    <3>1. Backed(d, defs[d].latest)'
      BY <2>2
    <3> QED
      BY <2>1, <3>1 DEF EditInv, Backed
  <2> QED
    BY <2>1, <2>2, <2>3, EditStays
<1>4. CASE Expire \/ \E d \in Definitions : Refresh(d)
  BY <1>1, <1>4 DEF Expire, Refresh, documents
<1> QED
  BY <1>2, <1>3, <1>4 DEF Environment

LEMMA ActToken ==
  ASSUME TypeOK, TypeOK', TokenInv, NEW w \in Workers, CycleInv(w), Acts(w)
  PROVE  TokenInv'
<1>0. /\ wk' \in [Workers -> WorkerState] /\ Others(w)
      /\ \/ Acquire(w)
         \/ /\ wk[w].pc # "idle" /\ clock' = clock /\ lease' = lease
            /\ \/ wk'[w].pc = "idle" /\ wk'[w].now = 0
               \/ wk'[w].pc \notin {"idle", "token"} /\ wk'[w].now = wk[w].now
  BY WorkerMoves
<1>1. raced \subseteq raced' /\ raced' \subseteq {"transition", "status"}
  BY ActCounts
<1>2. raced' # {"transition", "status"} => raced # {"transition", "status"}
  BY <1>1
<1>3. CASE Acquire(w)
  <2>1. /\ wk'[w].pc = "token" /\ wk'[w].now = clock + 1 /\ clock' = clock + 1
        /\ lease' = [owner |-> w, token |-> lease.token + 1, live |-> TRUE] /\ raced' = raced
    BY <1>3, Acquired DEF Acquire
  <2>2. lease'.token = clock' /\ lease'.owner = w
    BY <2>1 DEF TokenInv
  <2> QED
    BY <1>0, <2>1, <2>2 DEF TokenInv, Others
<1>4. CASE ~Acquire(w)
  <2>0. /\ wk[w].pc # "idle" /\ clock' = clock /\ lease' = lease
        /\ \/ wk'[w].pc = "idle"
           \/ wk'[w].pc \notin {"idle", "token"} /\ wk'[w].now = wk[w].now
    BY <1>0, <1>4
  <2>1. ASSUME raced' # {"transition", "status"}, wk'[w].pc \notin {"idle", "token"}
        PROVE  wk'[w].token = wk'[w].now
    <3>1. CASE ReadToken(w)
      <4>1. lease.owner = w
        BY <1>1, <2>1, <3>1 DEF ReadToken
      <4>2. wk'[w].token = lease.token /\ wk'[w].now = wk[w].now /\ wk[w].pc = "token"
        BY <3>1, TokenRead DEF ReadToken, At
      <4> QED
        BY <4>1, <4>2 DEF TokenInv
    <3>2. CASE ~ReadToken(w)
      <4>1. wk'[w].token = wk[w].token /\ wk'[w].now = wk[w].now /\ wk[w].pc \notin {"idle", "token"}
        <5>1. CASE Due(w)
          BY <5>1, DueFound DEF Due, At
        <5>2. CASE Finish(w) \/ Crash(w)
          BY <2>1, <5>2, Ended DEF Finish, Crash, Ends
        <5>3. CASE Fail(w)
          <6>1. wk[w].pc # "token"
            <7>1. CASE wk[w].pc = "token"
              <8>1. wk' = [wk EXCEPT ![w] = Idle]
                BY <5>3, <7>1, WorkerType DEF Fail
              <8> QED
                BY <2>1, <8>1, Ended DEF Ends
            <7> QED
              BY <7>1
          <6> QED
            BY <2>0, <2>1, <5>3, <6>1, Failed DEF Ends, Leaves
        <5>4. CASE \E d \in Definitions : Resume(w, d)
          <6>1. wk[w].pc = "next"
            BY <5>4 DEF Resume, At
          <6> QED
            BY <5>4, <6>1, Resumed
        <5>5. CASE \E o \in Observations : Observe(w, o)
          <6>1. wk[w].pc = "observe" /\ wk[w].def \in Definitions
            BY <5>5 DEF CycleInv, Observe, At, Busy
          <6> QED
            BY <5>5, <6>1, Observed
        <5>6. CASE Fences(w)
          <6>1. /\ wk[w].pc \in {"persistFence", "projectFence", "signalFence", "checkpointFence"}
                /\ \/ Leaves(w) \/ Goes(w, "persist") \/ Goes(w, "projectGet") \/ Goes(w, "signal")
                   \/ Goes(w, "checkpointGet")
            BY <5>6, Fenced DEF Fences, Steps
          <6> QED
            BY <6>1 DEF Leaves, Goes
        <5>7. CASE Persist(w) \/ Persisted(w) \/ Signal(w)
          <6>1. /\ wk[w].pc \in {"persist", "refresh", "signal"}
                /\ \E step \in {"refresh", "projectFence", "checkpointFence"} :
                     wk' = [wk EXCEPT ![w].pc = step]
            BY <5>7 DEF Persist, Persisted, Signal, Go, At
          <6>2. \E step \in {"refresh", "projectFence", "checkpointFence"} : Goes(w, step)
            BY <6>1, Went DEF Steps
          <6> QED
            BY <6>1, <6>2 DEF Goes
        <5>8. CASE GetStatus(w) \/ Project(w)
          <6>1. wk[w].def \in Definitions /\ wk[w].pc \in {"projectGet", "project"}
            BY <5>8 DEF CycleInv, GetStatus, Project, At, Busy, Written
          <6>2. Goes(w, "signalFence") \/ Goes(w, "project") \/ Leaves(w)
            BY <5>8, <6>1, StatusRead, ProjectedTo
          <6> QED
            BY <6>1, <6>2 DEF Goes, Leaves
        <5>9. CASE GetDefinition(w)
          <6>1. wk[w].def \in Definitions /\ wk[w].pc = "checkpointGet"
            BY <5>9 DEF CycleInv, GetDefinition, At, Busy, Written
          <6>2. defs[wk[w].def].ver \in Nat
            BY <6>1, DefinitionFields
          <6>3. Goes(w, "checkpoint")
            BY <5>9, <6>2, WentWith DEF GetDefinition, Steps
          <6> QED
            BY <6>1, <6>3 DEF Goes
        <5>10. CASE Checkpoint(w)
          BY <5>10, LeftOff DEF Checkpoint, Leaves, At
        <5> QED
          BY <1>4, <3>2, <5>1, <5>2, <5>3, <5>4, <5>5, <5>6, <5>7, <5>8, <5>9, <5>10 DEF Acts, Cycle
      <4> QED
        BY <1>2, <2>1, <4>1 DEF TokenInv
    <3> QED
      BY <3>1, <3>2
  <2> QED
    BY <1>0, <1>2, <2>0, <2>1 DEF TokenInv, Others
<1> QED
  BY <1>3, <1>4

LEMMA EnvironmentToken ==
  ASSUME TypeOK, TokenInv, Environment, UNCHANGED <<wk, raced, clock>>
  PROVE  TokenInv'
<1>1. lease'.token = lease.token /\ lease'.owner = lease.owner
  BY DEF TypeOK, Environment, Expire, Refresh, Write, Read
<1> QED
  BY <1>1 DEF TokenInv

-----------------------------------------------------------------------------
(* The invariant.                                                          *)

LEMMA InitIInv == Init => IInv
<1> SUFFICES ASSUME Init PROVE IInv
  OBVIOUS
<1>1. TypeOK
  <2> DEFINE n == [on |-> TRUE, latest |-> 0, ver |-> 1]
  <2>1. n \in Definition
    BY DEF Definition
  <2>2. defs = [d \in Definitions |-> n]
    BY DEF Init
  <2> HIDE DEF n
  <2>3. defs \in [Definitions -> Definition]
    BY <2>1, <2>2
  <2>4. wk \in [Workers -> WorkerState]
    <3> HIDE DEF Idle
    <3> QED
      BY IdleType DEF Init
  <2>5. NoEdit \in EditState
    BY ReliabilityAssumption DEF NoEdit, EditState, Definition
  <2>6. edit \in [Operators -> EditState]
    BY <2>5 DEF Init
  <2>7. lease \in [owner: Workers \cup {Nobody}, token: 0..MaxCycles, live: BOOLEAN]
    BY ReliabilityAssumption DEF Init
  <2>8. status \in [Definitions -> Seq(Evaluation)]
    BY DEF Init
  <2> QED
    BY <2>3, <2>4, <2>6, <2>7, <2>8, ReliabilityAssumption DEF Init, TypeOK
<1>2. \A w \in Workers : wk[w].pc = "idle" /\ wk[w].now = 0
  BY DEF Init, Idle
<1>3. TokenInv
  BY <1>2 DEF Init, TokenInv
<1>4. \A w \in Workers : CycleInv(w) /\ WorkInv(w)
  BY <1>2 DEF Init, CycleInv, WorkInv, Busy, Writing, Written, Visible, Projected, Signalling
<1>5. \A d \in Definitions : defs[d].latest = 0 /\ evals[d] = {} /\ shown[d] = {} /\ status[d] = <<>>
  BY DEF Init
<1>6. \A d \in Definitions : EvalInv(d) /\ Backed(d, defs[d].latest)
  <2> SUFFICES ASSUME NEW d \in Definitions PROVE EvalInv(d) /\ Backed(d, defs[d].latest)
    OBVIOUS
  <2>1. defs[d].latest = 0 /\ evals[d] = {} /\ shown[d] = {} /\ Len(status[d]) = 0
    BY <1>5
  <2>2. 1..0 = {}
    OBVIOUS
  <2> QED
    BY <2>1, <2>2 DEF EvalInv, Backed
<1>7. \A o \in Operators : EditInv(o)
  BY DEF Init, EditInv
<1> QED
  BY <1>1, <1>3, <1>4, <1>6, <1>7 DEF IInv

LEMMA NextIsStep == Next => (\E w \in Workers : Acts(w)) \/ Environment
  BY DEF Next, Acts, Environment

LEMMA ActIInv ==
  ASSUME IInv, NEW w \in Workers, Acts(w)
  PROVE  IInv' /\ Grows
<1>1. /\ TypeOK /\ TokenInv /\ lease.token = clock /\ CycleInv(w) /\ WorkInv(w)
      /\ \A v \in Workers : CycleInv(v) /\ \A d \in Definitions : EvalInv(d)
      /\ \A d \in Definitions : Backed(d, defs[d].latest)
  BY DEF IInv, TokenInv
<1>2. TypeOK' /\ Grows
  BY <1>1, ActType DEF IInv
<1>3. \A v \in Workers : CycleInv(v)'
  BY <1>1, <1>2, ActCycle DEF IInv
<1>4. \A d \in Definitions : EvalInv(d)'
  BY <1>1, <1>2, ActEval DEF IInv
<1>5. Others(w) /\ edit' = edit
  BY <1>1, WorkerMoves, ActCounts
<1>6. ASSUME NEW v \in Workers PROVE WorkInv(v)'
  <2>1. CASE v = w
    BY <1>1, <1>2, <2>1, ActWork DEF IInv
  <2>2. CASE v # w
    <3>1. CycleInv(v) /\ WorkInv(v) /\ wk'[v] = wk[v]
      BY <1>5, <2>2 DEF IInv, Others
    <3> QED
      BY <1>1, <1>2, <3>1, WorkKept
  <2> QED
    BY <2>1, <2>2
<1>7. \A d \in Definitions : Backed(d, defs[d].latest)'
  BY <1>1, <1>2, ActBacked
<1>8. \A o \in Operators : EditInv(o)'
  BY <1>2, <1>5, EditStays DEF IInv
<1>9. TokenInv'
  BY <1>1, <1>2, ActToken
<1> QED
  BY <1>2, <1>3, <1>4, <1>6, <1>7, <1>8, <1>9 DEF IInv

LEMMA EnvironmentIInv ==
  ASSUME IInv, Environment
  PROVE  IInv' /\ Grows
<1>1. /\ TypeOK /\ TokenInv /\ \A v \in Workers : CycleInv(v) /\ WorkInv(v)
      /\ \A d \in Definitions : EvalInv(d) /\ Backed(d, defs[d].latest)
      /\ \A o \in Operators : EditInv(o)
  BY DEF IInv
<1>2. TypeOK' /\ Grows /\ UNCHANGED <<evals, status, signals, wk, raced, clock>>
  BY <1>1, EnvironmentType
<1>3. \A v \in Workers : CycleInv(v)'
  BY <1>1, <1>2, EnvironmentCycle
<1>4. \A d \in Definitions : EvalInv(d)'
  BY <1>1, <1>2, EnvironmentEval
<1>5. \A v \in Workers : WorkInv(v)'
  BY <1>1, <1>2, WorkKept
<1>6. (\A d \in Definitions : Backed(d, defs[d].latest)') /\ (\A o \in Operators : EditInv(o)')
  BY <1>1, <1>2, EnvironmentBacked
<1>7. TokenInv'
  BY <1>1, <1>2, EnvironmentToken
<1> QED
  BY <1>2, <1>3, <1>4, <1>5, <1>6, <1>7 DEF IInv

LEMMA NextIInv == IInv /\ [Next]_vars => IInv'
<1> SUFFICES ASSUME IInv, [Next]_vars PROVE IInv'
  OBVIOUS
<1>1. CASE Next
  BY <1>1, NextIsStep, ActIInv, EnvironmentIInv
<1>2. CASE UNCHANGED vars
  <2>1. UNCHANGED <<lease, defs, evals, shown, status, signals, wk, edit, raced, clock, faults, edits>>
    BY <1>2 DEF vars, documents
  <2>2. TypeOK' /\ TokenInv'
    BY <2>1 DEF IInv, TypeOK, TokenInv
  <2>3. \A w \in Workers : CycleInv(w)'
    BY <2>1 DEF IInv, CycleInv, Fresh
  <2>4. \A w \in Workers : WorkInv(w)'
    BY <2>1 DEF IInv, WorkInv, Recorded, Signals
  <2>5. \A d \in Definitions : EvalInv(d)'
    BY <2>1 DEF IInv, EvalInv
  <2>6. \A d \in Definitions : Backed(d, defs[d].latest)'
    BY <2>1 DEF IInv, Backed, Recorded, Signals
  <2>7. \A o \in Operators : EditInv(o)'
    BY <2>1 DEF IInv, EditInv, Backed, Recorded, Signals
  <2> QED
    BY <2>2, <2>3, <2>4, <2>5, <2>6, <2>7 DEF IInv
<1> QED
  BY <1>1, <1>2

\* Tokens, cycles, evaluations and checkpoints stand as IInv says in every
\* reachable state, whatever cycles and edits of StreamReliabilityService meet.
THEOREM Invariance == Spec => []IInv
<1> QED
  BY InitIInv, NextIInv, PTL DEF Spec

\* Every document, every worker and every request keeps its type, the bounded
\* counters stay in bounds.
THEOREM ReliabilityTypeCorrect == Spec => []TypeOK
<1>1. IInv => TypeOK
  BY DEF IInv
<1> QED
  BY <1>1, Invariance, PTL

\* The evaluation a checkpoint names has been persisted, has been the current
\* status and has its transitions signalled: checkpoint() comes last in a cycle,
\* an edit writes back a checkpoint it has read, and a resumed evaluation goes
\* through every step again, whatever crashes and whoever takes the lease.
THEOREM CheckpointsBacked == Spec => []CheckpointIsBacked
<1>1. IInv => CheckpointIsBacked
  BY DEF IInv, Backed, Recorded, Signals, CheckpointIsBacked
<1> QED
  BY <1>1, Invariance, PTL

-----------------------------------------------------------------------------
(* The order of the status and the transitions.                            *)

\* Where a step takes a worker.
LEMMA ActOutcome ==
  ASSUME TypeOK, NEW w \in Workers, CycleInv(w), Acts(w)
  PROVE  \/ wk'[w].pc \in {"idle", "token", "due", "next"} \cup Projected
         \/ \E d \in Definitions : Resume(w, d)
         \/ \E o \in Observations : Observe(w, o)
         \/ Fence(w, "persistFence", "persist") /\ Goes(w, "persist")
         \/ Persist(w) /\ (Goes(w, "refresh") \/ Goes(w, "projectFence"))
         \/ Persisted(w) /\ Goes(w, "projectFence")
         \/ Fence(w, "projectFence", "projectGet") /\ Goes(w, "projectGet")
         \/ GetStatus(w) /\ wk'[w].pc = "project"
<1> USE DEF Projected
<1>1. CASE Acquire(w) \/ ReadToken(w) \/ Due(w)
  BY <1>1, Acquired, TokenRead, DueFound
<1>2. CASE Finish(w) \/ Crash(w) \/ Fail(w) \/ Checkpoint(w)
  BY <1>2, Ended, Failed, LeftOff DEF Finish, Crash, Ends, Leaves, Checkpoint
<1>3. CASE Fences(w)
  <2>1. \/ Leaves(w) \/ Goes(w, "signal") \/ Goes(w, "checkpointGet")
        \/ Fence(w, "persistFence", "persist") /\ Goes(w, "persist")
        \/ Fence(w, "projectFence", "projectGet") /\ Goes(w, "projectGet")
    BY <1>3, Fenced DEF Fences, Steps
  <2> QED
    BY <2>1 DEF Leaves, Goes
<1>4. CASE Persist(w)
  BY <1>4, Went DEF Persist, Go, Steps
<1>5. CASE Persisted(w)
  BY <1>5, Went DEF Persisted, Go, Steps
<1>6. CASE Signal(w)
  <2>1. Goes(w, "checkpointFence")
    BY <1>6, Went DEF Signal, Go, Steps
  <2> QED
    BY <2>1 DEF Goes
<1>7. CASE GetStatus(w) \/ Project(w)
  <2>1. wk[w].def \in Definitions
    BY <1>7 DEF CycleInv, GetStatus, Project, At, Busy, Written
  <2>2. \/ Leaves(w) \/ Goes(w, "signalFence")
        \/ GetStatus(w) /\ Goes(w, "project")
    BY <1>7, <2>1, StatusRead, ProjectedTo
  <2> QED
    BY <2>2 DEF Leaves, Goes
<1>8. CASE GetDefinition(w)
  <2>1. wk[w].def \in Definitions
    BY <1>8 DEF CycleInv, GetDefinition, At, Busy, Written
  <2>2. defs[wk[w].def].ver \in Nat
    BY <2>1, DefinitionFields
  <2>3. Goes(w, "checkpoint")
    BY <1>8, <2>2, WentWith DEF GetDefinition, Steps
  <2> QED
    BY <2>3 DEF Goes
<1> QED
  BY <1>1, <1>2, <1>3, <1>4, <1>5, <1>6, <1>7, <1>8 DEF Acts, Cycle

\* A worker whose token is in force is in the latest cycle, unless a worker has
\* read another's.
LEMMA InForceLatest ==
  ASSUME TokenInv, NEW w \in Workers, InForce(w), raced # {"transition", "status"},
         wk[w].pc \notin {"idle", "token"}
  PROVE  wk[w].now = clock
  BY DEF TokenInv, InForce

\* Two cycles are not both the latest.
LEMMA LatestUnique ==
  ASSUME NEW v \in Workers, NEW w \in Workers, CycleInv(w), wk[v].now = clock, wk[w].now = clock,
         wk[v].pc # "idle", wk[w].pc # "idle"
  PROVE  v = w
  BY DEF CycleInv

\* The status a worker is about to replace in force is of earlier evaluations.
LEMMA GetStatusOrder ==
  ASSUME IInv, OrderInv, NEW w \in Workers, GetStatus(w), wk'[w].pc = "project",
         "status" \notin raced'
  PROVE  Replaces(w)' /\ wk[w].now = clock
<1>1. /\ TypeOK /\ TokenInv /\ CycleInv(w) /\ "status" \notin raced /\ status' = status
      /\ wk[w].pc = "projectGet" /\ InForce(w)
  BY DEF IInv, GetStatus, At, documents
<1>2. wk[w].now = clock
  BY <1>1, InForceLatest
<1>3. PICK d \in Definitions : d = wk[w].def
  BY <1>1 DEF CycleInv, Busy, Written
<1>4. /\ status[d] = <<>> \/ Current(d).at # wk[w].ev.at
      /\ Goes(w, "project") /\ wk'[w].ver = Len(status[d])
  BY <1>1, <1>3, StatusRead DEF Goes
<1>5. /\ \A n \in 1..Len(status[d]) : status[d][n].at <= wk[w].ev.at
      /\ Ascending(d)
  BY <1>1, <1>2, <1>3 DEF OrderInv, Leads, Bringing
<1>6. status[d] \in Seq(Evaluation) /\ wk[w].ev.at \in Nat /\ Len(status[d]) \in Nat
  BY <1>1, Fields, EvaluationFields DEF TypeOK
<1>7. \A n \in 1..Len(status[d]) : status[d][n].at \in Nat
  BY <1>6, EvaluationFields
<1>8. ASSUME NEW n \in 1..Len(status[d]) PROVE status[d][n].at < wk[w].ev.at
  <2> DEFINE l == Len(status[d])
  <2>1. l \in 1..l /\ (n = l \/ n < l) /\ status[d] # <<>>
    BY <1>6
  <2>2. status[d][l].at < wk[w].ev.at
    BY <1>4, <1>5, <1>6, <1>7, <2>1 DEF Current
  <2>3. n < l => status[d][n].at < status[d][l].at
    BY <1>5, <2>1 DEF Ascending
  <2> QED
    BY <1>6, <1>7, <2>1, <2>2, <2>3
<1>9. /\ wk'[w].def = d /\ wk'[w].ev = wk[w].ev /\ wk'[w].ver = Len(status'[d])
      /\ Len(status'[d]) <= Len(status'[d])
  BY <1>1, <1>3, <1>4, <1>6 DEF Goes
<1> QED
  BY <1>1, <1>2, <1>8, <1>9 DEF Replaces

\* What a worker of the latest cycle brings once it has an evaluation.
LEMMA LeadsStart ==
  ASSUME IInv, NEW w \in Workers, NEW d \in Definitions, wk'[w].def = d, Others(w), status' = status,
         wk'[w].pc \notin {"project"}, wk'[w].ev.at \in Nat,
         \A e \in shown[d] : e.at <= wk'[w].ev.at
  PROVE  Leads(w)'
<1>1. \A n \in 1..Len(status[d]) : status[d][n].at <= wk'[w].ev.at
  BY DEF IInv, EvalInv
<1>2. ASSUME NEW v \in Workers, wk'[v].pc = "project", wk'[v].def = d
      PROVE  wk'[v].ev.at <= wk'[w].ev.at
  <2>1. wk'[v] = wk[v]
    BY <1>2 DEF Others
  <2>2. wk[v].ev \in shown[d]
    BY <1>2, <2>1 DEF IInv, CycleInv, Visible, Written
  <2> QED
    BY <2>1, <2>2
<1> QED
  BY <1>1, <1>2 DEF Leads

LEMMA OrderKept ==
  ASSUME IInv, IInv', OrderInv, NEW w \in Workers, Acts(w), status' = status,
         "status" \notin raced'
  PROVE  /\ \A d \in Definitions : Ascending(d)'
         /\ \A v \in Workers : Replaces(v)' /\ Leads(v)'
<1>0. /\ TypeOK /\ CycleInv(w) /\ "status" \notin raced /\ clock \in Nat
      /\ (\A d \in Definitions : Ascending(d)) /\ (\A v \in Workers : Replaces(v) /\ Leads(v))
  BY ActCounts, ReliabilityAssumption DEF IInv, OrderInv, TypeOK
<1>1. /\ Others(w)
      /\ \/ Acquire(w)
         \/ /\ wk[w].pc # "idle" /\ clock' = clock
            /\ \/ wk'[w].pc = "idle" /\ wk'[w].now = 0
               \/ wk'[w].pc \notin {"idle", "token"} /\ wk'[w].now = wk[w].now
  BY <1>0, WorkerMoves
<1>2. \A d \in Definitions : Ascending(d)'
  BY <1>0 DEF Ascending
<1>3. wk'[w].pc = "project" => GetStatus(w)
  <2>1. ASSUME NEW d \in Definitions, Resume(w, d) PROVE wk'[w].pc # "project"
    BY <1>0, <2>1, Resumed
  <2>2. ASSUME NEW o \in Observations, Observe(w, o) PROVE wk'[w].pc # "project"
    <3>1. wk[w].def \in Definitions
      BY <1>0, <2>2 DEF CycleInv, Observe, At, Busy
    <3> QED
      BY <1>0, <2>2, <3>1, Observed
  <2> QED
    BY <1>0, <2>1, <2>2, ActOutcome DEF Goes, Projected
<1>4. Replaces(w)' /\ (wk'[w].pc = "project" => wk[w].now = clock /\ wk[w].pc # "idle")
  <2>1. CASE wk'[w].pc = "project"
    BY <1>3, <2>1, GetStatusOrder DEF GetStatus, At
  <2>2. CASE wk'[w].pc # "project"
    BY <2>2 DEF Replaces
  <2> QED
    BY <2>1, <2>2
<1>5. ASSUME NEW v \in Workers, v # w PROVE Replaces(v)'
  BY <1>0, <1>1, <1>5 DEF Replaces, Others
<1>6. ASSUME NEW v \in Workers, v # w PROVE Leads(v)'
  <2> SUFFICES ASSUME wk'[v].now = clock', wk'[v].pc \in Bringing
               PROVE  /\ \A n \in 1..Len(status[wk[v].def]) : status[wk[v].def][n].at <= wk[v].ev.at
                      /\ \A u \in Workers : wk'[u].pc = "project" /\ wk'[u].def = wk[v].def =>
                           wk'[u].ev.at <= wk[v].ev.at
    BY <1>1, <1>6 DEF Leads, Others
  <2>1. wk'[v] = wk[v] /\ wk[v].now \in Nat /\ wk[v].now <= clock
    BY <1>0, <1>1, <1>6, Fields DEF Others, IInv, CycleInv
  <2>2. clock' = clock
    BY <1>0, <1>1, <2>1, Acquired
  <2>3. /\ \A n \in 1..Len(status[wk[v].def]) : status[wk[v].def][n].at <= wk[v].ev.at
        /\ \A u \in Workers : wk[u].pc = "project" /\ wk[u].def = wk[v].def =>
             wk[u].ev.at <= wk[v].ev.at
    BY <1>0, <2>1, <2>2 DEF Leads
  <2>4. wk'[w].pc # "project"
    <3>1. CASE wk'[w].pc = "project"
      <4>1. wk[v].pc # "idle" /\ wk[v].now = clock /\ wk[w].now = clock /\ wk[w].pc # "idle"
        BY <1>4, <2>1, <2>2, <3>1 DEF Bringing, Writing
      <4> QED
        BY <1>0, <1>6, <4>1, LatestUnique
    <3> QED
      BY <3>1
  <2> QED
    BY <1>1, <2>3, <2>4 DEF Others
<1>7. Leads(w)'
  <2>1. CASE wk'[w].pc \notin Bringing
    BY <2>1 DEF Leads
  <2>2. ASSUME NEW d \in Definitions, Resume(w, d), wk'[w].pc \in Bringing PROVE Leads(w)'
    <3>1. wk'[w].def = d /\ wk'[w].pc = "persistFence" /\ wk'[w].ev \in Pending(d)
      BY <1>0, <2>2, Resumed DEF Bringing, Writing
    <3>2. wk'[w].ev.at \in Nat /\ \A e \in shown[d] : e.at <= wk'[w].ev.at
      BY <1>0, <3>1, EvaluationFields DEF Pending, Newest, TypeOK
    <3> QED
      BY <1>1, <3>1, <3>2, LeadsStart
  <2>3. ASSUME NEW o \in Observations, Observe(w, o) PROVE Leads(w)'
    <3>1. wk[w].def \in Definitions /\ clock' = clock
      BY <1>0, <2>3 DEF CycleInv, Observe, At, Busy
    <3>2. PICK d \in Definitions : d = wk[w].def
      BY <3>1
    <3>3. /\ wk'[w].def = d /\ wk'[w].pc = "persistFence"
          /\ wk'[w].ev.at = wk[w].now /\ wk'[w].now = wk[w].now
      BY <1>0, <2>3, <3>2, Observed
    <3>4. CASE wk[w].now = clock
      <4>1. wk'[w].ev.at \in Nat /\ \A e \in shown[d] : e.at <= wk'[w].ev.at
        BY <1>0, <3>3, <3>4 DEF IInv, EvalInv
      <4> QED
        BY <1>1, <3>3, <4>1, LeadsStart
    <3>5. CASE wk[w].now # clock
      BY <3>1, <3>3, <3>5 DEF Leads
    <3> QED
      BY <3>4, <3>5
  <2>4. ASSUME NEW step \in Bringing, Goes(w, step), wk[w].pc \in Bringing, clock' = clock
        PROVE  Leads(w)'
    <3>1. /\ wk'[w].now = wk[w].now /\ wk'[w].def = wk[w].def /\ wk'[w].ev = wk[w].ev
          /\ wk'[w].pc # "project" /\ Leads(w)
      BY <1>0, <2>4 DEF Goes, Bringing, Writing
    <3> QED
      BY <1>1, <2>4, <3>1 DEF Leads, Others
  <2>5. CASE \/ Fence(w, "persistFence", "persist") /\ Goes(w, "persist")
             \/ Persist(w) /\ (Goes(w, "refresh") \/ Goes(w, "projectFence"))
             \/ Persisted(w) /\ Goes(w, "projectFence")
             \/ Fence(w, "projectFence", "projectGet") /\ Goes(w, "projectGet")
    <3>1. wk[w].pc \in Bringing /\ clock' = clock
      BY <2>5 DEF Fence, Persist, Persisted, At, Bringing, Writing
    <3>2. \E step \in Bringing : Goes(w, step)
      BY <2>5 DEF Bringing, Writing
    <3> QED
      BY <2>4, <3>1, <3>2
  <2>6. wk'[w].pc \in {"idle", "token", "due", "next", "project"} \cup Projected => wk'[w].pc \notin Bringing
    BY DEF Bringing, Writing, Projected
  <2> QED
    BY <1>0, <2>1, <2>2, <2>3, <2>5, <2>6, ActOutcome
<1> QED
  BY <1>2, <1>4, <1>5, <1>6, <1>7

LEMMA OrderAdded ==
  ASSUME IInv, IInv', OrderInv, NEW w \in Workers, Project(w), status' # status,
         "status" \notin raced'
  PROVE  /\ \A d \in Definitions : Ascending(d)'
         /\ \A v \in Workers : Replaces(v)' /\ Leads(v)'
<1>0. /\ TypeOK /\ CycleInv(w) /\ "status" \notin raced /\ clock' = clock
      /\ (\A d \in Definitions : Ascending(d)) /\ (\A v \in Workers : Replaces(v) /\ Leads(v))
  BY DEF IInv, OrderInv, Project
<1>1. wk[w].def \in Definitions /\ wk[w].pc = "project"
  BY <1>0 DEF CycleInv, Project, At, Busy, Written
<1>2. PICK d \in Definitions : d = wk[w].def
  BY <1>1
<1>3. PICK e : e = wk[w].ev
  OBVIOUS
<1>4. /\ Len(status[d]) = wk[w].ver /\ Goes(w, "signalFence") /\ e \in Evaluation
      /\ status' = [status EXCEPT ![d] = Append(@, e)]
  BY <1>0, <1>2, <1>3, ProjectedTo, Fields
<1>5. /\ \A c \in Definitions : c # d => status'[c] = status[c]
      /\ Len(status[d]) \in Nat /\ Len(status'[d]) = Len(status[d]) + 1
      /\ \A n \in 1..Len(status[d]) : status'[d][n] = status[d][n]
      /\ status'[d][Len(status[d]) + 1] = e
  BY <1>0, <1>4, StatusAdded
<1>6. \A n \in 1..Len(status[d]) : status[d][n].at < e.at
  BY <1>0, <1>1, <1>2, <1>3, <1>4 DEF Replaces
<1>7. \A n \in 1..Len(status'[d]) : n \in 1..Len(status[d]) \/ n = Len(status[d]) + 1
  BY <1>5
<1>8. Ascending(d)'
  <2> SUFFICES ASSUME NEW m \in 1..Len(status'[d]), NEW n \in 1..Len(status'[d]), m < n
               PROVE  status'[d][m].at < status'[d][n].at
    BY DEF Ascending
  <2>1. m \in 1..Len(status[d])
    BY <1>5
  <2>2. CASE n \in 1..Len(status[d])
    BY <1>0, <1>5, <2>1, <2>2 DEF Ascending
  <2>3. CASE n = Len(status[d]) + 1
    BY <1>5, <1>6, <2>1, <2>3
  <2> QED
    BY <1>7, <2>2, <2>3
<1>9. ASSUME NEW c \in Definitions, c # d PROVE Ascending(c)'
  BY <1>0, <1>5, <1>9 DEF Ascending
<1>10. Others(w) /\ wk'[w].pc = "signalFence"
  BY <1>4 DEF Goes
<1>11. Replaces(w)' /\ Leads(w)'
  BY <1>10 DEF Replaces, Leads, Bringing, Writing
<1>12. ASSUME NEW v \in Workers, v # w PROVE Replaces(v)'
  <2> SUFFICES ASSUME wk[v].pc = "project"
               PROVE  /\ wk[v].ver <= Len(status'[wk[v].def])
                      /\ wk[v].ver = Len(status'[wk[v].def]) =>
                           \A n \in 1..Len(status'[wk[v].def]) : status'[wk[v].def][n].at < wk[v].ev.at
    BY <1>10, <1>12 DEF Replaces, Others
  <2>1. PICK c \in Definitions : c = wk[v].def
    BY DEF IInv, CycleInv, Busy, Written
  <2>2. /\ wk[v].ver <= Len(status[c]) /\ wk[v].ver \in Nat
        /\ wk[v].ver = Len(status[c]) => \A n \in 1..Len(status[c]) : status[c][n].at < wk[v].ev.at
    BY <1>0, <2>1, Fields DEF Replaces
  <2>3. CASE c = d
    <3>1. wk[v].ver <= Len(status'[c]) /\ wk[v].ver # Len(status'[c])
      BY <1>5, <2>2, <2>3
    <3> QED
      BY <2>1, <3>1
  <2>4. CASE c # d
    BY <1>5, <2>1, <2>2, <2>4
  <2> QED
    BY <2>3, <2>4
<1>13. ASSUME NEW v \in Workers, v # w PROVE Leads(v)'
  <2> SUFFICES ASSUME wk[v].now = clock, wk[v].pc \in Bringing
               PROVE  /\ \A n \in 1..Len(status'[wk[v].def]) : status'[wk[v].def][n].at <= wk[v].ev.at
                      /\ \A u \in Workers : wk'[u].pc = "project" /\ wk'[u].def = wk[v].def =>
                           wk'[u].ev.at <= wk[v].ev.at
    BY <1>0, <1>10, <1>13 DEF Leads, Others
  <2>1. PICK c \in Definitions : c = wk[v].def
    BY DEF IInv, CycleInv, Busy, Written, Bringing, Writing
  <2>2. /\ \A n \in 1..Len(status[c]) : status[c][n].at <= wk[v].ev.at
        /\ \A u \in Workers : wk[u].pc = "project" /\ wk[u].def = c => wk[u].ev.at <= wk[v].ev.at
    BY <1>0, <2>1 DEF Leads
  <2>3. \A n \in 1..Len(status'[c]) : status'[c][n].at <= wk[v].ev.at
    <3>1. CASE c = d
      <4> SUFFICES ASSUME NEW n \in 1..Len(status'[d])
                   PROVE  status'[d][n].at <= wk[v].ev.at
        BY <3>1
      <4>1. CASE n \in 1..Len(status[d])
        BY <1>5, <2>2, <3>1, <4>1
      <4>2. CASE n = Len(status[d]) + 1
        <5>1. status'[d][n] = e
          BY <1>5, <4>2
        <5>2. e.at <= wk[v].ev.at
          BY <1>1, <1>2, <1>3, <2>2, <3>1
        <5> QED
          BY <5>1, <5>2
      <4> QED
        BY <1>7, <4>1, <4>2
    <3>2. CASE c # d
      BY <1>5, <2>2, <3>2
    <3> QED
      BY <3>1, <3>2
  <2>4. \A u \in Workers : wk'[u].pc = "project" /\ wk'[u].def = c => wk'[u].ev.at <= wk[v].ev.at
    BY <1>10, <2>2 DEF Others
  <2> QED
    BY <2>1, <2>3, <2>4
<1> QED
  BY <1>8, <1>9, <1>11, <1>12, <1>13

LEMMA ActOrder ==
  ASSUME IInv, IInv', OrderInv, NEW w \in Workers, Acts(w)
  PROVE  OrderInv'
<1> SUFFICES ASSUME "status" \notin raced'
             PROVE  /\ \A d \in Definitions : Ascending(d)'
                    /\ \A v \in Workers : Replaces(v)' /\ Leads(v)'
  BY DEF OrderInv
<1>1. CASE status' = status
  BY <1>1, OrderKept
<1>2. CASE status' # status
  <2>1. Project(w)
    BY <1>2, QuietDocuments DEF Quiet, Persist, Signal, Checkpoint
  <2> QED
    BY <1>2, <2>1, OrderAdded
<1> QED
  BY <1>1, <1>2

LEMMA OrderSame ==
  ASSUME OrderInv, UNCHANGED <<status, wk, raced, clock>>
  PROVE  OrderInv'
<1>1. \A d \in Definitions : Ascending(d) => Ascending(d)'
  BY DEF Ascending
<1>2. \A w \in Workers : Replaces(w) /\ Leads(w) => Replaces(w)' /\ Leads(w)'
  BY DEF Replaces, Leads
<1> QED
  BY <1>1, <1>2 DEF OrderInv

\* A new checkpoint names a signalled evaluation, and there is one of a time.
LEMMA CarriedKept ==
  ASSUME TypeOK', Grows, NEW d \in Definitions, Carried(d), evals'[d] = evals[d], EvalInv(d)',
         Backed(d, defs[d].latest)'
  PROVE  Carried(d)'
<1> SUFFICES ASSUME NEW e \in evals[d], e.at = defs'[d].latest \/ e \notin Newest(evals[d])
             PROVE  Signals(d, e)'
  BY DEF Carried, Newest
<1>1. CASE e \notin Newest(evals[d])
  <2>1. Signals(d, e)
    BY <1>1 DEF Carried
  <2> QED
    BY <2>1, RecordStays
<1>2. CASE e.at = defs'[d].latest
  <2>1. 0 < e.at
    BY DEF EvalInv
  <2>2. e.at # 0
    BY <2>1
  <2>3. PICK f \in evals'[d] : f.at = e.at /\ Signals(d, f)'
    BY <1>2, <2>2 DEF Backed
  <2>4. f = e
    BY <2>3 DEF EvalInv
  <2> QED
    BY <2>3, <2>4
<1> QED
  BY <1>1, <1>2

\* A worker whose cycle and evaluation stay as they are.
LEMMA ClearKept ==
  ASSUME Grows, NEW v \in Workers, NEW d \in Definitions, d = wk[v].def, wk'[v].def = d,
         Clear(v), wk[v].now = clock, Anew(v), evals'[d] = evals[d]
  PROVE  Clear(v)'
<1>1. \A e \in evals[d] : Signals(d, e)
  BY DEF Clear
<1>2. \A e \in evals'[d] : Signals(d, e)'
  BY <1>1, RecordStays
<1>3. \A e \in evals'[d] : Signals(wk[v].def, e)'
  BY <1>2 DEF Signals
<1> QED
  BY <1>3 DEF Clear

\* An evaluation is written in force, in the latest cycle, after all others of
\* its definition have been signalled.
LEMMA PersistCarried ==
  ASSUME IInv, IInv', Grows, LostInv, NEW w \in Workers, Persist(w), NEW d \in Definitions,
         evals'[d] # evals[d], "transition" \notin raced'
  PROVE  Carried(d)' /\ wk[w].now = clock
<1>0. /\ TypeOK /\ TokenInv /\ CycleInv(w) /\ "transition" \notin raced /\ Clear(w) /\ Acts(w)
      /\ InForce(w) /\ defs' = defs /\ clock' = clock /\ wk[w].pc = "persist"
  BY DEF IInv, LostInv, Persist, At, Acts, Cycle
<1>1. wk[w].now = clock
  BY <1>0, InForceLatest
<1>2. PICK e \in evals'[d] : e \notin evals[d]
  BY DEF Grows
<1>3. d = wk[w].def /\ e = wk[w].ev /\ e.at = wk[w].now /\ Fresh(w, d) /\ evals'[d] = evals[d] \cup {e}
  BY <1>0, <1>2, NewEvaluation DEF IInv
<1>4. \A f \in evals[d] : Signals(d, f)
  BY <1>0, <1>1, <1>2, <1>3 DEF Clear, Anew, Writing
<1>5. e \in Newest(evals'[d])
  BY <1>0, <1>1, <1>3 DEF IInv, EvalInv, Newest
<1>6. e.at # defs'[d].latest
  <2>1. wk[w].now > 0 /\ Backed(d, defs[d].latest)
    BY <1>0 DEF CycleInv, IInv
  <2>2. wk[w].now # 0
    BY <2>1
  <2> QED
    BY <1>0, <1>3, <2>1, <2>2 DEF Backed, Fresh
<1>7. \A f \in evals[d] : Signals(d, f)'
  BY <1>4, RecordStays
<1> QED
  BY <1>1, <1>3, <1>5, <1>6, <1>7 DEF Carried

\* The cycle that has seen every evaluation evaluates anew only when none waits.
LEMMA ResumeClear ==
  ASSUME IInv, Grows, LostInv, NEW w \in Workers, NEW d \in Definitions, Resume(w, d),
         "transition" \notin raced'
  PROVE  Clear(w)'
<1>1. /\ TypeOK /\ "transition" \notin raced /\ Carried(d) /\ shown[d] = evals[d] /\ evals' = evals
      /\ shown[d] \subseteq evals[d]
  BY DEF IInv, LostInv, Resume, documents
<1>2. /\ wk'[w].def = d
      /\ \/ Pending(d) = {} /\ wk'[w].pc = "observe"
         \/ wk'[w].pc = "persistFence" /\ wk'[w].ev \in Pending(d)
  BY <1>1, Resumed
<1>3. CASE Pending(d) = {}
  <2>1. \A e \in evals[d] : Signals(d, e)
    BY <1>1, <1>3 DEF Carried, Pending
  <2>2. \A e \in evals'[d] : Signals(d, e)'
    BY <1>1, <2>1, RecordStays
  <2> QED
    BY <1>2, <2>2 DEF Clear, Signals
<1>4. CASE wk'[w].pc = "persistFence" /\ wk'[w].ev \in Pending(d)
  <2>1. wk'[w].ev \in evals'[d]
    BY <1>1, <1>4 DEF Pending, Newest
  <2> QED
    BY <1>2, <1>4, <2>1 DEF Clear, Anew
<1> QED
  BY <1>2, <1>3, <1>4

LEMMA ActLost ==
  ASSUME IInv, IInv', Grows, LostInv, NEW w \in Workers, Acts(w)
  PROVE  LostInv'
<1> SUFFICES ASSUME "transition" \notin raced'
             PROVE  (\A d \in Definitions : Carried(d)') /\ (\A v \in Workers : Clear(v)')
  BY DEF LostInv
<1>0. /\ TypeOK /\ TypeOK' /\ CycleInv(w) /\ "transition" \notin raced /\ clock \in Nat
      /\ (\A d \in Definitions : Carried(d)) /\ (\A v \in Workers : Clear(v))
  BY ActCounts, ReliabilityAssumption DEF IInv, LostInv, TypeOK
<1>1. /\ Others(w)
      /\ \/ Acquire(w)
         \/ /\ wk[w].pc # "idle" /\ clock' = clock
            /\ \/ wk'[w].pc = "idle" /\ wk'[w].now = 0
               \/ wk'[w].pc \notin {"idle", "token"} /\ wk'[w].now = wk[w].now
  BY <1>0, WorkerMoves
<1>2. \A d \in Definitions : evals'[d] # evals[d] => Persist(w) /\ wk[w].now = clock /\ d = wk[w].def
  <2> SUFFICES ASSUME NEW d \in Definitions, evals'[d] # evals[d]
               PROVE  Persist(w) /\ wk[w].now = clock /\ d = wk[w].def
    OBVIOUS
  <2>1. PICK e \in evals'[d] : e \notin evals[d]
    BY DEF Grows
  <2>2. Persist(w) /\ d = wk[w].def
    BY <1>0, <2>1, NewEvaluation DEF IInv
  <2> QED
    BY <2>2, PersistCarried
<1>3. ASSUME NEW d \in Definitions PROVE Carried(d)'
  <2>1. CASE evals'[d] = evals[d]
    BY <1>0, <2>1, CarriedKept DEF IInv
  <2>2. CASE evals'[d] # evals[d]
    BY <1>2, <2>2, PersistCarried
  <2> QED
    BY <2>1, <2>2
<1>4. ASSUME NEW v \in Workers, v # w PROVE Clear(v)'
  <2> SUFFICES ASSUME wk'[v].now = clock', Anew(v)' PROVE Clear(v)'
    BY DEF Clear
  <2>1. wk'[v] = wk[v] /\ wk[v].now \in Nat /\ wk[v].now <= clock
    BY <1>0, <1>1, <1>4, Fields DEF Others, IInv, CycleInv
  <2>2. clock' = clock
    BY <1>0, <1>1, <2>1, Acquired
  <2>3. wk[v].pc \in Busy /\ wk[v].pc # "idle" /\ wk[v].now = clock
    BY <2>1, <2>2 DEF Anew, Busy, Writing
  <2>4. PICK d \in Definitions : d = wk[v].def
    BY <2>3 DEF IInv, CycleInv
  <2>5. evals'[d] = evals[d]
    <3>1. CASE evals'[d] # evals[d]
      <4>1. wk[w].now = clock /\ wk[w].pc # "idle"
        BY <1>2, <3>1 DEF Persist, At
      <4> QED
        BY <1>0, <1>4, <2>3, <4>1, LatestUnique
    <3> QED
      BY <3>1
  <2>6. Anew(v)
    BY <2>1, <2>4, <2>5 DEF Anew
  <2> QED
    BY <1>0, <2>1, <2>3, <2>4, <2>5, <2>6, ClearKept
<1>5. Clear(w)'
  <2>1. CASE wk'[w].pc \notin {"observe"} \cup Writing
    BY <2>1 DEF Clear, Anew
  <2>2. ASSUME NEW d \in Definitions, Resume(w, d) PROVE Clear(w)'
    BY <2>2, ResumeClear
  <2>3. ASSUME NEW o \in Observations, Observe(w, o) PROVE Clear(w)'
    <3>1. wk[w].def \in Definitions /\ clock' = clock /\ evals' = evals /\ Anew(w)
      BY <1>0, <2>3 DEF CycleInv, Observe, At, Busy, documents, Anew
    <3>2. PICK d \in Definitions : d = wk[w].def
      BY <3>1
    <3>3. wk'[w].def = d /\ wk'[w].now = wk[w].now
      BY <1>0, <2>3, <3>2, Observed
    <3>4. CASE wk[w].now = clock
      BY <1>0, <3>1, <3>2, <3>3, <3>4, ClearKept
    <3>5. CASE wk[w].now # clock
      BY <3>1, <3>3, <3>5 DEF Clear
    <3> QED
      BY <3>4, <3>5
  <2>4. CASE Fence(w, "persistFence", "persist") /\ Goes(w, "persist")
    <3>1. clock' = clock /\ evals' = evals /\ wk[w].pc = "persistFence"
      BY <2>4 DEF Fence, At, documents
    <3>2. PICK d \in Definitions : d = wk[w].def
      BY <1>0, <3>1 DEF CycleInv, Busy, Writing
    <3>3. wk'[w].def = d /\ wk'[w].now = wk[w].now /\ wk'[w].ev = wk[w].ev /\ wk'[w].pc = "persist"
      BY <2>4, <3>2 DEF Goes
    <3>4. CASE wk[w].now = clock /\ Anew(w)
      BY <1>0, <3>1, <3>2, <3>3, <3>4, ClearKept
    <3>5. CASE ~(wk[w].now = clock /\ Anew(w))
      <4>1. Anew(w)' => Anew(w)
        BY <3>1, <3>2, <3>3 DEF Anew, Writing
      <4> QED
        BY <3>1, <3>3, <3>5, <4>1 DEF Clear
    <3> QED
      BY <3>4, <3>5
  <2>5. \/ /\ wk'[w].pc \in {"idle", "token", "due", "next", "refresh", "projectFence", "projectGet",
                              "project"} \cup Projected
        \/ \E d \in Definitions : Resume(w, d)
        \/ \E o \in Observations : Observe(w, o)
        \/ Fence(w, "persistFence", "persist") /\ Goes(w, "persist")
    BY <1>0, ActOutcome DEF Goes
  <2>6. wk'[w].pc \in {"idle", "token", "due", "next", "refresh", "projectFence", "projectGet",
                       "project"} \cup Projected => wk'[w].pc \notin {"observe"} \cup Writing
    BY DEF Writing, Projected
  <2> QED
    BY <2>1, <2>2, <2>3, <2>4, <2>5, <2>6
<1> QED
  BY <1>3, <1>4, <1>5

LEMMA LostSame ==
  ASSUME IInv', Grows, LostInv, UNCHANGED <<evals, signals, wk, raced, clock>>
  PROVE  LostInv'
<1> SUFFICES ASSUME "transition" \notin raced
             PROVE  (\A d \in Definitions : Carried(d)') /\ (\A v \in Workers : Clear(v)')
  BY DEF LostInv
<1>1. \A d \in Definitions : Carried(d)'
  BY CarriedKept DEF IInv, LostInv
<1>2. \A v \in Workers : Clear(v)'
  BY DEF LostInv, Clear, Anew, Signals
<1> QED
  BY <1>1, <1>2

-----------------------------------------------------------------------------
LEMMA InitHistory == Init => LostInv /\ OrderInv
<1> SUFFICES ASSUME Init PROVE LostInv /\ OrderInv
  OBVIOUS
<1>1. \A d \in Definitions : evals[d] = {} /\ status[d] = <<>>
  BY DEF Init
<1>2. \A w \in Workers : wk[w].pc = "idle"
  BY DEF Init, Idle
<1>3. LostInv
  BY <1>1, <1>2 DEF LostInv, Carried, Clear, Anew, Writing
<1>4. \A d \in Definitions : Ascending(d)
  <2> SUFFICES ASSUME NEW d \in Definitions PROVE Ascending(d)
    OBVIOUS
  <2>1. Len(status[d]) = 0
    BY <1>1
  <2>2. 1..0 = {}
    OBVIOUS
  <2> QED
    BY <2>1, <2>2 DEF Ascending
<1>5. OrderInv
  BY <1>2, <1>4 DEF OrderInv, Replaces, Leads, Bringing, Writing
<1> QED
  BY <1>3, <1>5

LEMMA NextHistory == IInv /\ LostInv /\ OrderInv /\ [Next]_vars => LostInv' /\ OrderInv'
<1> SUFFICES ASSUME IInv, LostInv, OrderInv, [Next]_vars PROVE LostInv' /\ OrderInv'
  OBVIOUS
<1>0. IInv'
  BY NextIInv
<1>1. ASSUME NEW w \in Workers, Acts(w) PROVE LostInv' /\ OrderInv'
  BY <1>0, <1>1, ActIInv, ActLost, ActOrder
<1>2. CASE Environment
  <2>1. Grows /\ UNCHANGED <<evals, status, signals, wk, raced, clock>>
    BY <1>2, EnvironmentType DEF IInv
  <2> QED
    BY <1>0, <2>1, LostSame, OrderSame
<1>3. CASE UNCHANGED vars
  <2>1. UNCHANGED <<evals, shown, status, signals, wk, raced, clock>>
    BY <1>3 DEF vars, documents
  <2>2. clock' \in Nat /\ clock <= clock'
    BY <2>1, ReliabilityAssumption DEF IInv, TypeOK
  <2>3. Grows
    BY <2>1, <2>2, GrowsSame DEF IInv
  <2> QED
    BY <1>0, <2>1, <2>3, LostSame, OrderSame
<1> QED
  BY <1>1, <1>2, <1>3, NextIsStep

\* So do the histories of signals and of the status, as long as no race is
\* recorded that the checkpoint and projection writes leave open.
THEOREM HistoryInvariance == Spec => [](IInv /\ LostInv /\ OrderInv)
<1> QED
  BY InitIInv, InitHistory, NextIInv, NextHistory, PTL DEF Spec

\* A transition that has reached the current status is signalled or is what the
\* next cycle resumes: pending() finds the newest evaluation that is not
\* checkpointed, and a cycle adds another only after every earlier one has been
\* signalled, unless a race of the kind raced records has happened.
THEOREM TransitionsKept == Spec => []NoTransitionLost
<1>1. IInv /\ LostInv => NoTransitionLost
  <2> SUFFICES ASSUME IInv, LostInv, "transition" \notin raced, NEW d \in Definitions,
                      NEW n \in 1..Len(status[d])
               PROVE  Signalled(d, status[d][n])
    BY DEF NoTransitionLost
  <2>1. PICK e : e = status[d][n]
    OBVIOUS
  <2>2. e \in shown[d] /\ shown[d] \subseteq evals[d]
    BY <2>1 DEF IInv, EvalInv
  <2>3. Signals(d, e) \/ (e \in Newest(evals[d]) /\ e.at # defs[d].latest)
    BY <2>2 DEF LostInv, Carried
  <2>4. Signals(d, e) \/ e \in Pending(d)
    BY <2>2, <2>3 DEF Newest, Pending
  <2> QED
    BY <2>1, <2>4 DEF Signalled, Signals
<1> QED
  BY <1>1, HistoryInvariance, PTL

\* The current status follows the order of the cycles: a worker replaces only the
\* version it has read (if_seq_no), it reads under a token in force, and what it
\* brings is no earlier than what any other worker can bring.
THEOREM StatusInOrder == Spec => []StatusMovesOn
<1>1. IInv /\ OrderInv => StatusMovesOn
  <2> SUFFICES ASSUME IInv, OrderInv, "status" \notin raced, NEW d \in Definitions,
                      NEW n \in 2..Len(status[d])
               PROVE  status[d][n - 1].at < status[d][n].at
    BY DEF StatusMovesOn
  <2>1. Len(status[d]) \in Nat
    BY DEF IInv, TypeOK
  <2>2. n \in 1..Len(status[d]) /\ n - 1 \in 1..Len(status[d]) /\ n - 1 < n
    BY <2>1
  <2> QED
    BY <2>2 DEF OrderInv, Ascending
<1> QED
  BY <1>1, HistoryInvariance, PTL
=============================================================================
