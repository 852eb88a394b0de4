------------------------ MODULE CollectionTasksProofs -----------------------
(***************************************************************************)
(* Theorems about CollectionTasks, for every set of scanners, requests and *)
(* results and every value of the bounds.                                  *)
(***************************************************************************)
EXTENDS CollectionTasks, TLAPS

Submits == {"lookup", "snapshot", "asset", "audit", "response"}

\* What a submission has written by the step it is at, and that no other
\* request carries a result.
ResultInv ==
  /\ \A r \in Requests :
       /\ rq[r].pc \in Submits => rq[r].result \in Results
       /\ rq[r].pc \notin Submits => rq[r].result = NoResult
       /\ rq[r].pc \in {"asset", "audit", "response"} => snapshots[rq[r].result] > 0
       /\ rq[r].pc = "response" => audits[rq[r].result] > 0
  /\ AssetHasSnapshot
  /\ ResponseIsRecorded

\* A result that was not repeated has at most one submission in flight, which
\* has written what its step says and no more; without one past the lookup,
\* either nothing is written or the response is stored.
Once(k) ==
  /\ \A r, q \in Requests : rq[r].result = k /\ rq[q].result = k => r = q
  /\ snapshots[k] <= 1 /\ audits[k] <= 1
  /\ \A r \in Requests : rq[r].result = k =>
       /\ rq[r].pc = "snapshot" => snapshots[k] = 0
       /\ rq[r].pc \in {"snapshot", "asset", "audit"} => audits[k] = 0
  /\ (\A r \in Requests : rq[r].result = k => rq[r].pc = "lookup")
       => k \in responses \/ (snapshots[k] = 0 /\ audits[k] = 0)
OnceInv == \A k \in Results \ repeated : Once(k)

\* What a request plans to write, as long as the task is the one it read.
PlanInv(r) ==
  /\ rq[r].pc \in {"fetch", "index", "put"} => rq[r].op \in {"poll", "claim", "renew", "ack", "fail"}
  /\ rq[r].seen <= task.ver
  /\ rq[r].pc \in {"fetch", "index", "put"} /\ rq[r].seen = task.ver =>
       /\ rq[r].op = "poll" => rq[r].seen = 0 /\ rq[r].new = Available
       /\ rq[r].op = "claim" =>
            /\ rq[r].scanner \in Scanners /\ rq[r].new.owner = rq[r].scanner
            /\ rq[r].new.status = "leased"
            /\ \A i \in issued : Expired(i[2])
       /\ rq[r].op = "renew" =>
            /\ rq[r].scanner \in Scanners /\ rq[r].new.owner = rq[r].scanner
            /\ rq[r].new.owner = task.owner /\ rq[r].new.status = task.status
       /\ rq[r].op \in {"claim", "renew"} => rq[r].new.lease > task.lease
       /\ rq[r].op \in {"ack", "fail"} =>
            /\ rq[r].new.owner = task.owner /\ rq[r].new.lease = task.lease
            /\ rq[r].new.status # "available"
LeaseInv ==
  ~clobbered =>
    /\ task.ver = 0 => issued = {}
    /\ task.status = "available" => issued = {} /\ task.owner = Nobody
    /\ \A i \in issued : i[2] <= task.lease
    /\ \A i \in issued : ~Expired(i[2]) => i[1] = task.owner
    /\ \A r \in Requests : PlanInv(r)

\* A request that will be told of a lease is a scanner's and has its number;
\* a number in use has been issued.
GrantInv ==
  /\ task.lease <= leases
  /\ \A r \in Requests :
       /\ rq[r].op \in {"claim", "renew"} => rq[r].scanner \in Scanners /\ rq[r].new.lease > 0
       /\ rq[r].new.lease <= leases

TypeInv == TypeOK /\ GrantInv
IInv == TypeInv /\ ResultInv /\ OnceInv /\ LeaseInv

-----------------------------------------------------------------------------
(* How an action changes the state of one request.                         *)

Others(r) == \A q \in Requests : q # r => rq'[q] = rq[q]

LEMMA IdleType == Idle \in RequestState /\ Available \in Task
  BY TasksAssumption DEF Idle, Available, RequestState, Task, Statuses, Steps

LEMMA Fields ==
  ASSUME NEW x \in RequestState
  PROVE  /\ x.pc \in Steps /\ x.scanner \in Scanners \cup {Nobody} /\ x.new \in Task
         /\ x.seen \in Nat /\ x.seq \in Nat /\ x.result \in Results \cup {NoResult}
  BY DEF RequestState

LEMMA TaskFields ==
  ASSUME NEW t \in Task
  PROVE  /\ t.status \in Statuses /\ t.scanner \in Scanners
         /\ t.owner \in Scanners \cup {Nobody} /\ t.lease \in 0..MaxLeases /\ t.ver \in Nat
  BY DEF Task

LEMMA Moved ==
  ASSUME TypeOK, NEW r \in Requests, NEW x \in RequestState, rq' = [rq EXCEPT ![r] = x]
  PROVE  rq' \in [Requests -> RequestState] /\ rq'[r] = x /\ Others(r)
  BY DEF TypeOK, Others

LEMMA Ended ==
  ASSUME TypeOK, NEW r \in Requests, rq' = [rq EXCEPT ![r] = Idle]
  PROVE  /\ rq' \in [Requests -> RequestState] /\ Others(r)
         /\ rq'[r].pc = "idle" /\ rq'[r].op = "none" /\ rq'[r].result = NoResult
         /\ rq'[r].seen = 0 /\ rq'[r].new.lease = 0
  BY Moved, IdleType DEF Idle, Available

LEMMA Planned ==
  ASSUME TypeOK, NEW r \in Requests, NEW step \in Steps,
         NEW op \in {"poll", "claim", "renew", "ack", "fail"}, NEW s \in Scanners,
         NEW new \in Task, Plan(r, step, op, s, new)
  PROVE  /\ rq' \in [Requests -> RequestState] /\ Others(r)
         /\ rq'[r].pc = step /\ rq'[r].op = op /\ rq'[r].scanner = s
         /\ rq'[r].new = new /\ rq'[r].seen = task.ver /\ rq'[r].result = NoResult
<1> DEFINE v == task.ver
           x == [Idle EXCEPT !.pc = step, !.op = op, !.scanner = s, !.new = new, !.seen = v]
<1>1. v \in Nat /\ rq' = [rq EXCEPT ![r] = x]
  BY TaskFields DEF TypeOK, Plan
<1> HIDE DEF v
<1>2. /\ x \in RequestState /\ x.pc = step /\ x.op = op /\ x.scanner = s
      /\ x.new = new /\ x.seen = v /\ x.result = NoResult
  BY <1>1 DEF Idle, RequestState
<1> HIDE DEF x
<1>3. rq' \in [Requests -> RequestState] /\ rq'[r] = x /\ Others(r)
  BY <1>1, <1>2, Moved
<1> QED
  BY <1>2, <1>3 DEF v

LEMMA Stepped ==
  ASSUME TypeOK, NEW r \in Requests, NEW step \in Steps, rq' = [rq EXCEPT ![r].pc = step]
  PROVE  /\ rq' \in [Requests -> RequestState] /\ Others(r)
         /\ rq'[r].pc = step /\ rq'[r].op = rq[r].op /\ rq'[r].scanner = rq[r].scanner
         /\ rq'[r].new = rq[r].new /\ rq'[r].seen = rq[r].seen
         /\ rq'[r].result = rq[r].result
<1> DEFINE x == [rq[r] EXCEPT !.pc = step]
<1>1. rq[r] \in RequestState /\ rq' = [rq EXCEPT ![r] = x]
  BY DEF TypeOK
<1>2. /\ x \in RequestState /\ x.pc = step /\ x.op = rq[r].op /\ x.scanner = rq[r].scanner
      /\ x.new = rq[r].new /\ x.seen = rq[r].seen /\ x.result = rq[r].result
  BY <1>1 DEF RequestState
<1> HIDE DEF x
<1>3. rq' \in [Requests -> RequestState] /\ rq'[r] = x /\ Others(r)
  BY <1>1, <1>2, Moved
<1> QED
  BY <1>2, <1>3

LEMMA Fetched ==
  ASSUME TypeOK, NEW r \in Requests, Fetch(r)
  PROVE  /\ rq' \in [Requests -> RequestState] /\ Others(r)
         /\ rq'[r].pc = "index" /\ rq'[r].op = rq[r].op /\ rq'[r].scanner = rq[r].scanner
         /\ rq'[r].new = rq[r].new /\ rq'[r].seen = rq[r].seen
         /\ rq'[r].result = rq[r].result
<1> DEFINE v == task.ver
           x == [rq[r] EXCEPT !.pc = "index", !.seq = v]
<1>1. v \in Nat /\ rq[r] \in RequestState /\ rq' = [rq EXCEPT ![r] = x]
  BY TaskFields DEF TypeOK, Fetch
<1> HIDE DEF v
<1>2. /\ x \in RequestState /\ x.pc = "index" /\ x.op = rq[r].op /\ x.scanner = rq[r].scanner
      /\ x.new = rq[r].new /\ x.seen = rq[r].seen /\ x.result = rq[r].result
  BY <1>1 DEF RequestState, Steps
<1> HIDE DEF x
<1>3. rq' \in [Requests -> RequestState] /\ rq'[r] = x /\ Others(r)
  BY <1>1, <1>2, Moved
<1> QED
  BY <1>2, <1>3

LEMMA Submitted ==
  ASSUME TypeOK, NEW r \in Requests, NEW s \in Scanners, NEW k \in Results, Submit(r, s, k)
  PROVE  /\ rq' \in [Requests -> RequestState] /\ Others(r)
         /\ rq'[r].pc = "lookup" /\ rq'[r].op = "submit" /\ rq'[r].result = k
         /\ rq'[r].seen = 0 /\ rq'[r].new.lease = 0
<1> DEFINE x == [Idle EXCEPT !.pc = "lookup", !.op = "submit", !.scanner = s, !.result = k]
<1>1. rq' = [rq EXCEPT ![r] = x]
  BY DEF Submit
<1>2. /\ x \in RequestState /\ x.pc = "lookup" /\ x.op = "submit" /\ x.result = k
      /\ x.seen = 0 /\ x.new.lease = 0
  BY IdleType DEF Idle, Available, RequestState, Steps
<1> HIDE DEF x
<1>3. rq' \in [Requests -> RequestState] /\ rq'[r] = x /\ Others(r)
  BY <1>1, <1>2, Moved
<1> QED
  BY <1>2, <1>3

LEMMA WrittenTask ==
  ASSUME TypeInv, NEW r \in Requests, Written(r)
  PROVE  /\ task' \in Task /\ task'.ver = task.ver + 1
         /\ task'.status = rq[r].new.status /\ task'.owner = rq[r].new.owner
         /\ task'.lease = rq[r].new.lease
         /\ issued' \subseteq Scanners \X (1..MaxLeases) /\ clobbered' \in BOOLEAN
<1> DEFINE n == task.ver + 1
<1>1. n \in Nat /\ rq[r] \in RequestState /\ rq[r].new \in Task
  BY TaskFields, Fields DEF TypeInv, TypeOK
<1>2. task' = [rq[r].new EXCEPT !.ver = n]
  BY DEF Written
<1> HIDE DEF n
<1>3. /\ task' \in Task /\ task'.ver = n
      /\ task'.status = rq[r].new.status /\ task'.owner = rq[r].new.owner
      /\ task'.lease = rq[r].new.lease
  BY <1>1, <1>2 DEF Task
<1>4. issued' \subseteq Scanners \X (1..MaxLeases)
  <2>1. rq[r].new.lease \in 0..MaxLeases
    BY <1>1, TaskFields
  <2>2. CASE rq[r].op \in {"claim", "renew"}
    <3>1. rq[r].scanner \in Scanners /\ rq[r].new.lease \in 1..MaxLeases
      BY <2>1, <2>2, TasksAssumption DEF TypeInv, GrantInv
    <3> QED
      BY <2>2, <3>1 DEF TypeInv, TypeOK, Written
  <2>3. CASE rq[r].op \notin {"claim", "renew"}
    BY <2>3 DEF TypeInv, TypeOK, Written
  <2> QED
    BY <2>2, <2>3
<1>5. clobbered' \in BOOLEAN
  BY Zenon DEF Written
<1> QED
  BY <1>3, <1>4, <1>5 DEF n

-----------------------------------------------------------------------------
(* Types.                                                                  *)

LEMMA InitType == Init => TypeInv
<1> SUFFICES ASSUME Init PROVE TypeInv
  OBVIOUS
<1>1. /\ rq \in [Requests -> RequestState]
      /\ \A r \in Requests : rq[r].op = "none" /\ rq[r].new.lease = 0
  BY IdleType DEF Init, Idle, Available
<1>2. GrantInv
  BY <1>1 DEF Init, GrantInv, Available
<1>3. task \in Task
  BY IdleType DEF Init
<1>4. /\ expired \in 0..leases /\ leases \in 0..MaxLeases /\ calls \in 0..MaxCalls
      /\ faults \in 0..MaxFaults
  BY TasksAssumption DEF Init
<1>5. /\ snapshots \in [Results -> Nat] /\ audits \in [Results -> Nat]
      /\ asset \in Results \cup {NoResult} /\ responses \subseteq Results
      /\ issued \subseteq Scanners \X (1..MaxLeases) /\ repeated \subseteq Results
  BY DEF Init
<1>6. clobbered \in BOOLEAN
  BY Zenon DEF Init
<1> QED
  BY <1>1, <1>2, <1>3, <1>4, <1>5, <1>6 DEF TypeInv, TypeOK

\* What a request that writes the task has planned.
Plans(r, s) == Poll(r) \/ Claim(r, s) \/ Renew(r, s) \/ Ack(r, s) \/ FailTask(r, s)

LEMMA PlanEffect ==
  ASSUME TypeInv, NEW r \in Requests, NEW s \in Scanners, Plans(r, s)
  PROVE  /\ rq' \in [Requests -> RequestState] /\ Others(r)
         /\ rq[r].pc = "idle" /\ rq'[r].pc \in {"fetch", "put"}
         /\ rq'[r].op \in {"poll", "claim", "renew", "ack", "fail"}
         /\ rq'[r].seen = task.ver /\ rq'[r].result = NoResult
         /\ rq'[r].op = "poll" => task.ver = 0 /\ rq'[r].new = Available
         /\ rq'[r].op = "claim" =>
              /\ Claimable /\ rq'[r].scanner \in Scanners /\ rq'[r].new.owner = rq'[r].scanner
              /\ rq'[r].new.status = "leased"
         /\ rq'[r].op = "renew" =>
              /\ rq'[r].scanner \in Scanners /\ rq'[r].new.owner = rq'[r].scanner
              /\ rq'[r].new.owner = task.owner /\ rq'[r].new.status = task.status
         /\ rq'[r].op \in {"claim", "renew"} => rq'[r].new.lease = leases + 1 /\ leases' = leases + 1
         /\ rq'[r].op \in {"ack", "fail"} =>
              /\ rq'[r].new.owner = task.owner /\ rq'[r].new.lease = task.lease
              /\ rq'[r].new.status # "available"
<1>1. task \in Task /\ leases \in 0..MaxLeases
  BY DEF TypeInv, TypeOK
<1> DEFINE P(step, op, sc, n) ==
             /\ rq' \in [Requests -> RequestState] /\ Others(r)
             /\ rq'[r].pc = step /\ rq'[r].op = op /\ rq'[r].scanner = sc
             /\ rq'[r].new = n /\ rq'[r].seen = task.ver /\ rq'[r].result = NoResult
<1>2. CASE Poll(r)
  <2>1. Home \in Scanners /\ Plan(r, "put", "poll", Home, Available) /\ task.ver = 0 /\ rq[r].pc = "idle"
    BY <1>2, TasksAssumption DEF Poll, Begin, Exists
  <2>2. P("put", "poll", Home, Available)
    BY <2>1, Planned, IdleType DEF TypeInv, Steps
  <2> QED
    BY <2>1, <2>2
<1>3. CASE Claim(r, s)
  <2> DEFINE n == [task EXCEPT !.status = "leased", !.scanner = s, !.owner = s, !.lease = leases']
  <2>1. leases' = leases + 1 /\ leases' \in 0..MaxLeases
    BY <1>1, <1>3, TasksAssumption DEF Claim
  <2>2. n \in Task /\ n.lease = leases' /\ n.owner = s /\ n.status = "leased"
    BY <1>1, <2>1 DEF Task, Statuses
  <2>3. Plan(r, "fetch", "claim", s, n) /\ Claimable /\ rq[r].pc = "idle"
    BY <1>3 DEF Claim, Begin
  <2> HIDE DEF n
  <2>4. P("fetch", "claim", s, n)
    BY <2>2, <2>3, Planned DEF TypeInv, Steps
  <2> QED
    BY <2>1, <2>2, <2>3, <2>4
<1>4. CASE Renew(r, s)
  <2> DEFINE n == [task EXCEPT !.lease = leases']
  <2>1. leases' = leases + 1 /\ leases' \in 0..MaxLeases
    BY <1>1, <1>4, TasksAssumption DEF Renew
  <2>2. n \in Task /\ n.lease = leases' /\ n.owner = task.owner /\ n.status = task.status
    BY <1>1, <2>1 DEF Task
  <2>3. Plan(r, "fetch", "renew", s, n) /\ task.owner = s /\ rq[r].pc = "idle"
    BY <1>4 DEF Renew, Begin
  <2> HIDE DEF n
  <2>4. P("fetch", "renew", s, n)
    BY <2>2, <2>3, Planned DEF TypeInv, Steps
  <2> QED
    BY <2>1, <2>2, <2>3, <2>4
<1>5. CASE Ack(r, s)
  <2> DEFINE n == [task EXCEPT !.status = "acknowledged"]
  <2>1. n \in Task /\ n.lease = task.lease /\ n.owner = task.owner /\ n.status # "available"
    BY <1>1 DEF Task, Statuses
  <2>2. Plan(r, "fetch", "ack", s, n) /\ rq[r].pc = "idle"
    BY <1>5 DEF Ack, Begin
  <2> HIDE DEF n
  <2>3. P("fetch", "ack", s, n)
    BY <2>1, <2>2, Planned DEF TypeInv, Steps
  <2> QED
    BY <2>1, <2>2, <2>3
<1>6. CASE FailTask(r, s)
  <2> DEFINE n == [task EXCEPT !.status = "failed"]
  <2>1. n \in Task /\ n.lease = task.lease /\ n.owner = task.owner /\ n.status # "available"
    BY <1>1 DEF Task, Statuses
  <2>2. Plan(r, "put", "fail", s, n) /\ rq[r].pc = "idle"
    BY <1>6 DEF FailTask, Begin
  <2> HIDE DEF n
  <2>3. P("put", "fail", s, n)
    BY <2>1, <2>2, Planned DEF TypeInv, Steps
  <2> QED
    BY <2>1, <2>2, <2>3
<1> QED
  BY <1>2, <1>3, <1>4, <1>5, <1>6 DEF Plans

LEMMA PlanFrame ==
  ASSUME TypeInv, NEW r \in Requests, NEW s \in Scanners, Plans(r, s)
  PROVE  /\ task' = task /\ expired' = expired /\ snapshots' = snapshots /\ asset' = asset
         /\ audits' = audits /\ responses' = responses /\ issued' = issued
         /\ clobbered' = clobbered /\ repeated' = repeated /\ faults' = faults
         /\ calls' \in 0..MaxCalls /\ leases' \in 0..MaxLeases /\ leases' \in {leases, leases + 1}
<1>1. /\ task' = task /\ expired' = expired /\ results' = results /\ history' = history
      /\ faults' = faults
  BY DEF Plans, Poll, Claim, Renew, Ack, FailTask
<1>2. calls' \in 0..MaxCalls
  BY TasksAssumption DEF Plans, Poll, Claim, Renew, Ack, FailTask, Begin, TypeInv, TypeOK
<1>3. leases' \in 0..MaxLeases /\ leases' \in {leases, leases + 1}
  BY TasksAssumption DEF Plans, Poll, Claim, Renew, Ack, FailTask, TypeInv, TypeOK
<1> QED
  BY <1>1, <1>2, <1>3 DEF results, history

LEMMA PlanType ==
  ASSUME TypeInv, NEW r \in Requests, NEW s \in Scanners, Plans(r, s)
  PROVE  TypeInv'
<1>1. rq' \in [Requests -> RequestState]
  BY PlanEffect
<1>2. TypeOK'
  BY <1>1, PlanFrame DEF TypeInv, TypeOK
<1>3. task.lease \in Nat /\ leases \in Nat /\ leases' \in Nat /\ leases <= leases'
  BY PlanFrame, TaskFields, TasksAssumption DEF TypeInv, TypeOK
<1>4. \A q \in Requests : rq[q].new.lease \in Nat
  BY Fields, TaskFields, TasksAssumption DEF TypeInv, TypeOK
<1>5. rq'[r].op \in {"claim", "renew"} => rq'[r].scanner \in Scanners /\ rq'[r].new.lease > 0
  BY <1>3, PlanEffect
<1>6. rq'[r].new.lease <= leases'
  <2>1. CASE rq'[r].op = "poll"
    BY <1>3, <2>1, PlanEffect DEF Available
  <2>2. CASE rq'[r].op \in {"claim", "renew"}
    BY <1>3, <2>2, PlanEffect
  <2>3. CASE rq'[r].op \in {"ack", "fail"}
    BY <1>3, <2>3, PlanEffect DEF TypeInv, GrantInv
  <2> QED
    BY <2>1, <2>2, <2>3, PlanEffect
<1>7. \A q \in Requests : q # r => rq'[q] = rq[q]
  BY PlanEffect DEF Others
<1>8. task'.lease <= leases'
  BY <1>3, PlanFrame DEF TypeInv, GrantInv
<1>9. GrantInv'
  <2> SUFFICES ASSUME NEW q \in Requests
               PROVE  /\ rq'[q].op \in {"claim", "renew"} =>
                            rq'[q].scanner \in Scanners /\ rq'[q].new.lease > 0
                      /\ rq'[q].new.lease <= leases'
    BY <1>8 DEF GrantInv
  <2>1. CASE q = r
    BY <2>1, <1>5, <1>6
  <2>2. CASE q # r
    BY <2>2, <1>3, <1>4, <1>7 DEF TypeInv, GrantInv
  <2> QED
    BY <2>1, <2>2
<1> QED
  BY <1>2, <1>9 DEF TypeInv

\* A step that changes one request, and that keeps what it is to be told or
\* forgets it.
LEMMA GrantKept ==
  ASSUME TypeInv, NEW r \in Requests, Others(r), leases' = leases, task'.lease <= leases,
         \/ /\ rq'[r].op = rq[r].op /\ rq'[r].scanner = rq[r].scanner
            /\ rq'[r].new = rq[r].new
         \/ rq'[r].op \in {"none", "submit"} /\ rq'[r].new.lease = 0
  PROVE  GrantInv'
<1>1. leases \in Nat
  BY TasksAssumption DEF TypeInv, TypeOK
<1> QED
  BY <1>1 DEF TypeInv, GrantInv, Others

LEMMA WriteType ==
  ASSUME TypeInv, NEW r \in Requests, Index(r) \/ Put(r)
  PROVE  TypeInv'
<1>1. /\ rq' \in [Requests -> RequestState] /\ Others(r)
      /\ rq'[r].op = "none" /\ rq'[r].new.lease = 0
  BY Ended DEF Index, Put, TypeInv
<1>2. /\ expired' = expired /\ results' = results /\ repeated' = repeated /\ leases' = leases
      /\ calls' = calls /\ faults' = faults
  BY DEF Index, Put
<1>3. Written(r) \/ UNCHANGED <<task, issued, clobbered>>
  BY DEF Index, Put
<1>4. /\ task' \in Task /\ issued' \subseteq Scanners \X (1..MaxLeases)
      /\ clobbered' \in BOOLEAN
  BY <1>3, WrittenTask DEF TypeInv, TypeOK
<1>5. task'.lease <= leases
  BY <1>3, WrittenTask DEF TypeInv, GrantInv
<1>6. GrantInv'
  BY <1>1, <1>2, <1>5, GrantKept
<1> QED
  BY <1>1, <1>2, <1>4, <1>6 DEF TypeInv, TypeOK, results

\* What a submission's step leaves of its request.
SubmitStep(r) ==
  Lookup(r) \/ Snapshot(r) \/ UpsertAsset(r) \/ Audit(r) \/ StoreResponse(r)

LEMMA Advanced ==
  ASSUME TypeInv, NEW r \in Requests, SubmitStep(r) \/ Fail(r)
  PROVE  /\ rq' \in [Requests -> RequestState] /\ Others(r)
         /\ \/ /\ rq'[r].pc = "idle" /\ rq'[r].op = "none" /\ rq'[r].result = NoResult
               /\ rq'[r].seen = 0 /\ rq'[r].new.lease = 0
               /\ \/ Lookup(r) /\ rq[r].pc = "lookup" /\ rq[r].result \in responses
                  \/ StoreResponse(r) \/ Fail(r)
            \/ /\ rq'[r].op = rq[r].op /\ rq'[r].scanner = rq[r].scanner
               /\ rq'[r].new = rq[r].new /\ rq'[r].seen = rq[r].seen
               /\ rq'[r].result = rq[r].result
               /\ \/ /\ Lookup(r) /\ rq[r].pc = "lookup" /\ rq'[r].pc = "snapshot"
                     /\ rq[r].result \notin responses
                  \/ Snapshot(r) /\ rq[r].pc = "snapshot" /\ rq'[r].pc = "asset"
                  \/ UpsertAsset(r) /\ rq[r].pc = "asset" /\ rq'[r].pc = "audit"
                  \/ Audit(r) /\ rq[r].pc = "audit" /\ rq'[r].pc = "response"
<1>0. TypeOK
  BY DEF TypeInv
<1> DEFINE Gone == /\ rq' \in [Requests -> RequestState] /\ Others(r)
                   /\ rq'[r].pc = "idle" /\ rq'[r].op = "none" /\ rq'[r].result = NoResult
                   /\ rq'[r].seen = 0 /\ rq'[r].new.lease = 0
           To(step) == /\ rq' \in [Requests -> RequestState] /\ Others(r)
                       /\ rq'[r].pc = step /\ rq'[r].op = rq[r].op
                       /\ rq'[r].scanner = rq[r].scanner
                       /\ rq'[r].new = rq[r].new /\ rq'[r].seen = rq[r].seen
                       /\ rq'[r].result = rq[r].result
<1>1. CASE Lookup(r)
  <2>1. CASE rq[r].result \in responses
    <3>1. rq' = [rq EXCEPT ![r] = Idle]
      BY <1>0, <1>1, <2>1 DEF Lookup, TypeOK
    <3>2. Gone
      BY <1>0, <3>1, Ended
    <3> QED
      BY <1>1, <2>1, <3>2 DEF Lookup, At
  <2>2. CASE rq[r].result \notin responses
    <3>1. rq' = [rq EXCEPT ![r].pc = "snapshot"]
      BY <1>0, <1>1, <2>2 DEF Lookup, TypeOK
    <3>2. To("snapshot")
      BY <1>0, <3>1, Stepped DEF Steps
    <3> QED
      BY <1>1, <2>2, <3>2 DEF Lookup, At
  <2> QED
    BY <2>1, <2>2
<1>2. CASE Snapshot(r)
  <2>1. To("asset") /\ rq[r].pc = "snapshot"
    BY <1>0, <1>2, Stepped DEF Steps, Snapshot, At
  <2> QED
    BY <1>2, <2>1
<1>3. CASE UpsertAsset(r)
  <2>1. To("audit") /\ rq[r].pc = "asset"
    BY <1>0, <1>3, Stepped DEF Steps, UpsertAsset, At
  <2> QED
    BY <1>3, <2>1
<1>4. CASE Audit(r)
  <2>1. To("response") /\ rq[r].pc = "audit"
    BY <1>0, <1>4, Stepped DEF Steps, Audit, At
  <2> QED
    BY <1>4, <2>1
<1>5. CASE StoreResponse(r) \/ Fail(r)
  <2>1. Gone
    BY <1>0, <1>5, Ended DEF StoreResponse, Fail
  <2> QED
    BY <1>5, <2>1
<1> QED
  BY <1>1, <1>2, <1>3, <1>4, <1>5 DEF SubmitStep

LEMMA FetchType ==
  ASSUME TypeInv, NEW r \in Requests, Fetch(r)
  PROVE  TypeInv'
<1>1. /\ rq' \in [Requests -> RequestState] /\ Others(r)
      /\ rq'[r].op = rq[r].op /\ rq'[r].scanner = rq[r].scanner /\ rq'[r].new = rq[r].new
  BY Fetched DEF TypeInv
<1>2. UNCHANGED <<task, expired, results, history, leases, calls, faults>>
  BY DEF Fetch
<1>3. GrantInv'
  BY <1>1, <1>2, GrantKept DEF TypeInv, GrantInv
<1> QED
  BY <1>1, <1>2, <1>3 DEF TypeInv, TypeOK, results, history

LEMMA SubmitType ==
  ASSUME TypeInv, NEW r \in Requests, NEW s \in Scanners, NEW k \in Results, Submit(r, s, k)
  PROVE  TypeInv'
<1>1. /\ rq' \in [Requests -> RequestState] /\ Others(r)
      /\ rq'[r].op = "submit" /\ rq'[r].new.lease = 0
  BY Submitted DEF TypeInv
<1>2. UNCHANGED <<task, expired, results, issued, clobbered, leases, faults>>
  BY DEF Submit
<1>3. repeated' \subseteq Results
  BY DEF Submit, TypeInv, TypeOK
<1>4. calls' \in 0..MaxCalls
  BY TasksAssumption DEF Submit, Begin, TypeInv, TypeOK
<1>5. GrantInv'
  BY <1>1, <1>2, GrantKept DEF TypeInv, GrantInv
<1> QED
  BY <1>1, <1>2, <1>3, <1>4, <1>5 DEF TypeInv, TypeOK, results

LEMMA SubmitStepType ==
  ASSUME TypeInv, ResultInv, NEW r \in Requests, SubmitStep(r) \/ Fail(r)
  PROVE  TypeInv'
<1>1. /\ rq' \in [Requests -> RequestState] /\ Others(r)
      /\ \/ /\ rq'[r].op = rq[r].op /\ rq'[r].scanner = rq[r].scanner
            /\ rq'[r].new = rq[r].new
         \/ rq'[r].op = "none" /\ rq'[r].new.lease = 0
  BY Advanced
<1>2. UNCHANGED <<task, expired, issued, clobbered, leases, calls>>
  BY DEF SubmitStep, Lookup, Snapshot, UpsertAsset, Audit, StoreResponse, Fail, results, history
<1>3. rq[r].result \in Results \cup {NoResult}
  BY Fields DEF TypeInv, TypeOK
<1>4. rq[r].pc = "response" => rq[r].result \in Results
  BY DEF ResultInv, Submits
<1>5. /\ asset' \in Results \cup {NoResult} /\ repeated' \subseteq Results
      /\ responses' \subseteq Results
  BY <1>3, <1>4 DEF TypeInv, TypeOK, SubmitStep, Lookup, Snapshot, UpsertAsset, Audit,
     StoreResponse, Fail, results, history, At
<1>6. snapshots' \in [Results -> Nat]
  BY DEF TypeInv, TypeOK, SubmitStep, Lookup, Snapshot, UpsertAsset, Audit, StoreResponse, Fail,
     results, history, At
<1>7. audits' \in [Results -> Nat]
  BY DEF TypeInv, TypeOK, SubmitStep, Lookup, Snapshot, UpsertAsset, Audit, StoreResponse, Fail,
     results, history, At
<1>8. faults' \in 0..MaxFaults
  BY TasksAssumption DEF TypeInv, TypeOK, SubmitStep, Lookup, Snapshot, UpsertAsset, Audit,
     StoreResponse, Fail
<1>9. GrantInv'
  BY <1>1, <1>2, GrantKept DEF TypeInv, GrantInv
<1> QED
  BY <1>1, <1>2, <1>5, <1>6, <1>7, <1>8, <1>9 DEF TypeInv, TypeOK

LEMMA ExpireType ==
  ASSUME TypeInv, Expire
  PROVE  TypeInv'
<1>1. UNCHANGED <<task, results, rq, history, leases, calls, faults>> /\ expired' \in 0..leases
  BY TasksAssumption DEF Expire, TypeInv, TypeOK
<1> QED
  BY <1>1 DEF TypeInv, TypeOK, GrantInv, results, history

-----------------------------------------------------------------------------
(* Results.                                                                *)

\* Requests that write the task do not touch the results.
Unrelated(r) ==
  /\ Others(r)
  /\ rq[r].result = NoResult /\ rq[r].pc \notin Submits
  /\ rq'[r].result = NoResult /\ rq'[r].pc \notin Submits
  /\ UNCHANGED <<snapshots, asset, audits, responses, repeated>>

LEMMA UnrelatedKept ==
  ASSUME TypeInv, ResultInv, OnceInv, NEW r \in Requests, Unrelated(r)
  PROVE  ResultInv' /\ OnceInv'
<1>1. \A q \in Requests : \/ rq'[q] = rq[q]
                          \/ /\ rq[q].result = NoResult /\ rq[q].pc \notin Submits
                             /\ rq'[q].result = NoResult /\ rq'[q].pc \notin Submits
  BY DEF Unrelated, Others
<1>2. UNCHANGED <<snapshots, asset, audits, responses, repeated>>
  BY DEF Unrelated
<1>3. ResultInv'
  BY <1>1, <1>2 DEF ResultInv, AssetHasSnapshot, ResponseIsRecorded, Submits
<1>4. OnceInv'
  <2> SUFFICES ASSUME NEW k \in Results \ repeated PROVE Once(k)'
    BY <1>2 DEF OnceInv
  <2>1. Once(k) /\ k # NoResult
    BY TasksAssumption DEF OnceInv
  <2>2. \A q \in Requests : (rq'[q].result = k <=> rq[q].result = k)
                              /\ (rq[q].result = k => rq'[q] = rq[q])
    BY <1>1, <2>1
  <2> QED
    BY <1>2, <2>1, <2>2 DEF Once
<1> QED
  BY <1>3, <1>4

LEMMA PlanResult ==
  ASSUME TypeInv, ResultInv, OnceInv, NEW r \in Requests, NEW s \in Scanners,
         Plans(r, s) \/ Fetch(r) \/ Index(r) \/ Put(r)
  PROVE  ResultInv' /\ OnceInv'
<1>0. TypeOK
  BY DEF TypeInv
<1>1. CASE Plans(r, s)
  <2>1. rq[r].pc = "idle" /\ rq'[r].pc \in {"fetch", "put"} /\ rq'[r].result = NoResult /\ Others(r)
    BY <1>1, PlanEffect
  <2>2. UNCHANGED <<snapshots, asset, audits, responses, repeated>>
    BY <1>1, PlanFrame
  <2>3. Unrelated(r)
    BY <2>1, <2>2 DEF Unrelated, ResultInv, Submits
  <2> QED
    BY <2>3, UnrelatedKept
<1>2. CASE Fetch(r)
  <2>1. rq[r].pc = "fetch" /\ UNCHANGED <<snapshots, asset, audits, responses, repeated>>
    BY <1>2 DEF Fetch, At, results, history
  <2>2. rq'[r].pc = "index" /\ rq'[r].result = rq[r].result /\ Others(r)
    BY <1>0, <1>2, Fetched
  <2>3. Unrelated(r)
    BY <2>1, <2>2 DEF Unrelated, ResultInv, Submits
  <2> QED
    BY <2>3, UnrelatedKept
<1>3. CASE Index(r) \/ Put(r)
  <2>1. /\ rq[r].pc \in {"index", "put"} /\ rq' = [rq EXCEPT ![r] = Idle]
        /\ UNCHANGED <<snapshots, asset, audits, responses, repeated>>
    BY <1>3 DEF Index, Put, At, results
  <2>2. rq'[r].pc = "idle" /\ rq'[r].result = NoResult /\ Others(r)
    BY <1>0, <2>1, Ended
  <2>3. Unrelated(r)
    BY <2>1, <2>2 DEF Unrelated, ResultInv, Submits
  <2> QED
    BY <2>3, UnrelatedKept
<1> QED
  BY <1>1, <1>2, <1>3

\* A new submission of a result makes it repeated unless it is the only one.
LEMMA SubmitResult ==
  ASSUME TypeInv, ResultInv, OnceInv, NEW r \in Requests, NEW s \in Scanners, NEW j \in Results,
         Submit(r, s, j)
  PROVE  ResultInv' /\ OnceInv'
<1>1. /\ Others(r) /\ rq'[r].pc = "lookup" /\ rq'[r].result = j
      /\ UNCHANGED <<snapshots, asset, audits, responses>>
      /\ rq[r].pc = "idle"
  <2>1. UNCHANGED <<snapshots, asset, audits, responses>> /\ rq[r].pc = "idle"
    BY DEF Submit, Begin, results
  <2> QED
    BY <2>1, Submitted DEF TypeInv
<1>2. rq[r].result = NoResult
  BY <1>1 DEF ResultInv, Submits
<1>3. \A q \in Requests : q # r => rq'[q] = rq[q]
  BY <1>1 DEF Others
<1>4. ResultInv'
  <2>1. \A q \in Requests :
          /\ rq'[q].pc \in Submits => rq'[q].result \in Results
          /\ rq'[q].pc \notin Submits => rq'[q].result = NoResult
          /\ rq'[q].pc \in {"asset", "audit", "response"} => snapshots'[rq'[q].result] > 0
          /\ rq'[q].pc = "response" => audits'[rq'[q].result] > 0
    <3> SUFFICES ASSUME NEW q \in Requests
                 PROVE  /\ rq'[q].pc \in Submits => rq'[q].result \in Results
                        /\ rq'[q].pc \notin Submits => rq'[q].result = NoResult
                        /\ rq'[q].pc \in {"asset", "audit", "response"} => snapshots'[rq'[q].result] > 0
                        /\ rq'[q].pc = "response" => audits'[rq'[q].result] > 0
      OBVIOUS
    <3>1. CASE q = r
      BY <3>1, <1>1 DEF Submits
    <3>2. CASE q # r
      BY <3>2, <1>1, <1>3 DEF ResultInv, Submits
    <3> QED
      BY <3>1, <3>2
  <2> QED
    BY <2>1, <1>1 DEF ResultInv, AssetHasSnapshot, ResponseIsRecorded
<1>5. OnceInv'
  <2> SUFFICES ASSUME NEW k \in Results \ repeated' PROVE Once(k)'
    BY DEF OnceInv
  <2>1. k \notin repeated /\ (k = j => \A q \in Requests : rq[q].result # k)
    BY DEF Submit, Submitting
  <2>2. Once(k) /\ k # NoResult
    BY <2>1, TasksAssumption DEF OnceInv
  <2>3. CASE k = j
    <3>1. \A q \in Requests : rq'[q].result = k => q = r
      BY <2>1, <2>3, <1>3
    <3> QED
      BY <3>1, <2>1, <2>2, <2>3, <1>1 DEF Once
  <2>4. CASE k # j
    <3>1. \A q \in Requests : (rq'[q].result = k <=> rq[q].result = k)
                                /\ (rq[q].result = k => rq'[q] = rq[q])
      BY <1>1, <1>2, <1>3, <2>2, <2>4
    <3> QED
      BY <3>1, <1>1, <2>2 DEF Once
  <2> QED
    BY <2>3, <2>4
<1> QED
  BY <1>4, <1>5

\* The state of one submission, as ResultInv has it.
Carries(r) ==
  /\ rq[r].pc \in Submits => rq[r].result \in Results
  /\ rq[r].pc \notin Submits => rq[r].result = NoResult
  /\ rq[r].pc \in {"asset", "audit", "response"} => snapshots[rq[r].result] > 0
  /\ rq[r].pc = "response" => audits[rq[r].result] > 0

LEMMA Carried ==
  ResultInv <=> (\A r \in Requests : Carries(r)) /\ AssetHasSnapshot /\ ResponseIsRecorded
  BY DEF ResultInv, Carries

\* The number of events of a result only grows.
LEMMA Grows ==
  ASSUME TypeInv, NEW r \in Requests, SubmitStep(r) \/ Fail(r)
  PROVE  \A k \in Results : /\ snapshots[k] \in Nat /\ snapshots'[k] \in Nat
                            /\ audits[k] \in Nat /\ audits'[k] \in Nat
                            /\ snapshots'[k] >= snapshots[k] /\ audits'[k] >= audits[k]
<1>1. snapshots \in [Results -> Nat] /\ audits \in [Results -> Nat]
  BY DEF TypeInv, TypeOK
<1>2. CASE Snapshot(r)
  BY <1>1, <1>2 DEF Snapshot
<1>3. CASE Audit(r)
  BY <1>1, <1>3 DEF Audit
<1>4. CASE ~Snapshot(r) /\ ~Audit(r)
  <2>1. UNCHANGED <<snapshots, audits>>
    BY <1>4 DEF SubmitStep, Lookup, UpsertAsset, StoreResponse, Fail, results
  <2> QED
    BY <1>1, <2>1
<1> QED
  BY <1>2, <1>3, <1>4

LEMMA SubmitStepResult ==
  ASSUME TypeInv, ResultInv, NEW r \in Requests, SubmitStep(r) \/ Fail(r)
  PROVE  ResultInv'
<1>1. \A q \in Requests : Carries(q)
  BY Carried
<1>2. \A q \in Requests : q # r => rq'[q] = rq[q]
  BY Advanced DEF Others
<1>3. rq[r].pc \in Submits => rq[r].result \in Results
  BY <1>1 DEF Carries
<1>4. Carries(r)'
  <2>1. CASE rq'[r].pc = "idle" /\ rq'[r].result = NoResult
    BY <2>1 DEF Carries, Submits
  <2>2. CASE Lookup(r) /\ rq'[r].pc = "snapshot" /\ rq[r].pc = "lookup" /\ rq'[r].result = rq[r].result
    BY <2>2, <1>3 DEF Carries, Submits
  <2>3. CASE Snapshot(r) /\ rq'[r].pc = "asset" /\ rq[r].pc = "snapshot" /\ rq'[r].result = rq[r].result
    <3>1. snapshots'[rq[r].result] > 0
      BY <2>3, <1>3 DEF Snapshot, TypeInv, TypeOK, Submits
    <3> QED
      BY <2>3, <3>1, <1>3 DEF Carries, Submits
  <2>4. CASE UpsertAsset(r) /\ rq'[r].pc = "audit" /\ rq[r].pc = "asset" /\ rq'[r].result = rq[r].result
    <3>1. snapshots' = snapshots
      BY <2>4 DEF UpsertAsset
    <3> QED
      BY <2>4, <1>1, <1>3, <3>1 DEF Carries, Submits
  <2>5. CASE Audit(r) /\ rq'[r].pc = "response" /\ rq[r].pc = "audit" /\ rq'[r].result = rq[r].result
    <3>1. audits'[rq[r].result] > 0 /\ snapshots' = snapshots
      BY <2>5, <1>3 DEF Audit, TypeInv, TypeOK, Submits
    <3> QED
      BY <2>5, <3>1, <1>1, <1>3 DEF Carries, Submits
  <2> QED
    BY <2>1, <2>2, <2>3, <2>4, <2>5, Advanced
<1>5. \A q \in Requests : Carries(q)'
  <2> SUFFICES ASSUME NEW q \in Requests, q # r PROVE Carries(q)'
    BY <1>4
  <2>1. rq'[q] = rq[q] /\ Carries(q)
    BY <1>1, <1>2
  <2> QED
    BY <2>1, Grows DEF Carries, Submits
<1>6. AssetHasSnapshot'
  <2>1. CASE UpsertAsset(r)
    BY <2>1, <1>1 DEF UpsertAsset, At, Carries, AssetHasSnapshot, Submits
  <2>2. CASE ~UpsertAsset(r)
    <3>1. asset' = asset /\ asset \in Results \cup {NoResult}
      BY <2>2 DEF SubmitStep, Lookup, Snapshot, Audit, StoreResponse, Fail, results, TypeInv, TypeOK
    <3> QED
      BY <3>1, Grows DEF ResultInv, AssetHasSnapshot
  <2> QED
    BY <2>1, <2>2
<1>7. ResponseIsRecorded'
  <2>1. \A k \in responses' : \/ k \in responses /\ k \in Results
                              \/ rq[r].pc = "response" /\ k = rq[r].result
    BY DEF SubmitStep, Lookup, Snapshot, UpsertAsset, Audit, StoreResponse, Fail, results, At,
       TypeInv, TypeOK
  <2> SUFFICES ASSUME NEW k \in responses' PROVE snapshots'[k] > 0 /\ audits'[k] > 0
    BY DEF ResponseIsRecorded
  <2>2. k \in Results /\ snapshots[k] > 0 /\ audits[k] > 0
    BY <2>1, <1>1 DEF ResultInv, ResponseIsRecorded, Carries, Submits
  <2> QED
    BY <2>2, Grows
<1> QED
  BY <1>5, <1>6, <1>7 DEF ResultInv, Carries

\* What submit_result writes it writes once.
LEMMA SubmitStepOnce ==
  ASSUME TypeInv, ResultInv, OnceInv, NEW r \in Requests, SubmitStep(r) \/ Fail(r)
  PROVE  OnceInv'
<1> SUFFICES ASSUME NEW k \in Results \ repeated' PROVE Once(k)'
  BY DEF OnceInv
<1>1. k \notin repeated /\ (Fail(r) => rq[r].result # k)
  BY TasksAssumption DEF SubmitStep, Lookup, Snapshot, UpsertAsset, Audit, StoreResponse, Fail, history
<1>2. Once(k) /\ k # NoResult
  BY <1>1, TasksAssumption DEF OnceInv
<1>3. \A q \in Requests : q # r => rq'[q] = rq[q]
  BY Advanced DEF Others
<1>4. rq'[r].result \in {rq[r].result, NoResult}
  BY Advanced
<1>5. snapshots \in [Results -> Nat] /\ audits \in [Results -> Nat]
  BY DEF TypeInv, TypeOK
<1>6. CASE rq[r].result # k
  <2>1. \A q \in Requests : (rq'[q].result = k <=> rq[q].result = k)
                              /\ (rq[q].result = k => rq'[q] = rq[q])
    BY <1>2, <1>3, <1>4, <1>6
  <2>2. snapshots'[k] = snapshots[k]
    BY <1>5, <1>6 DEF SubmitStep, Lookup, Snapshot, UpsertAsset, Audit, StoreResponse, Fail, results
  <2>3. audits'[k] = audits[k]
    BY <1>5, <1>6 DEF SubmitStep, Lookup, Snapshot, UpsertAsset, Audit, StoreResponse, Fail, results
  <2>4. responses \subseteq responses'
    BY DEF SubmitStep, Lookup, Snapshot, UpsertAsset, Audit, StoreResponse, Fail, results
  <2> QED
    BY <1>2, <2>1, <2>2, <2>3, <2>4 DEF Once
<1>7. CASE rq[r].result = k
  <2>0. ~Fail(r) /\ \A q \in Requests : rq[q].result = k => q = r
    BY <1>1, <1>2, <1>7 DEF Once
  <2>1. \A q \in Requests : rq'[q].result = k => q = r
    BY <2>0, <1>3
  <2>2. CASE Lookup(r)
    <3>1. UNCHANGED <<snapshots, audits, responses>>
      BY <2>2 DEF Lookup, results
    <3>2. CASE rq'[r].result = NoResult
      <4>1. k \in responses
        <5>1. rq'[r].pc = "idle" \/ rq'[r].result = rq[r].result
          BY Advanced
        <5>2. rq[r].pc = "lookup" /\ (rq[r].result \in responses \/ rq'[r].pc = "snapshot")
          <6>1. /\ rq[r].pc = "lookup"
                /\ rq' = [rq EXCEPT ![r] = IF @.result \in responses THEN Idle
                                           ELSE [@ EXCEPT !.pc = "snapshot"]]
            BY <2>2 DEF Lookup, At
          <6>2. rq[r].result \notin responses => rq' = [rq EXCEPT ![r].pc = "snapshot"]
            BY <6>1 DEF TypeInv, TypeOK
          <6> QED
            BY <6>1, <6>2, Stepped DEF TypeInv, Steps
        <5> QED
          BY <5>1, <5>2, <3>2, <1>2, <1>7
      <4>2. \A q \in Requests : rq'[q].result # k
        BY <2>1, <3>2, <1>2
      <4> QED
        BY <4>1, <4>2, <3>1, <1>2 DEF Once
    <3>3. CASE rq'[r].result # NoResult
      <4>1. rq'[r].pc = "snapshot" /\ rq'[r].result = k /\ k \notin responses /\ rq[r].pc = "lookup"
        <5>1. rq[r].pc = "lookup"
          BY <2>2 DEF Lookup, At
        <5> QED
          BY <5>1, <3>3, <1>7, Advanced
      <4>2. snapshots[k] = 0 /\ audits[k] = 0
        BY <4>1, <2>0, <1>2 DEF Once
      <4> QED
        BY <4>1, <4>2, <3>1, <2>1, <1>7 DEF Once
    <3> QED
      BY <3>2, <3>3
  <2>3. CASE Snapshot(r)
    <3>1. rq[r].pc = "snapshot" /\ rq'[r].pc = "asset" /\ rq'[r].result = k
      <4>1. rq[r].pc = "snapshot" /\ rq' = [rq EXCEPT ![r].pc = "asset"]
        BY <2>3 DEF Snapshot, At
      <4> QED
        BY <4>1, <1>7, Stepped DEF TypeInv, Steps
    <3>2. snapshots[k] = 0 /\ audits[k] = 0
      BY <3>1, <1>2, <1>7 DEF Once
    <3>3. snapshots'[k] = 1 /\ audits'[k] = 0
      BY <3>2, <2>3, <1>5, <1>7 DEF Snapshot
    <3> QED
      BY <3>1, <3>3, <2>1 DEF Once
  <2>4. CASE UpsertAsset(r)
    <3>1. rq[r].pc = "asset" /\ rq'[r].pc = "audit" /\ rq'[r].result = k
      <4>1. rq[r].pc = "asset" /\ rq' = [rq EXCEPT ![r].pc = "audit"]
        BY <2>4 DEF UpsertAsset, At
      <4> QED
        BY <4>1, <1>7, Stepped DEF TypeInv, Steps
    <3>2. UNCHANGED <<snapshots, audits, responses>>
      BY <2>4 DEF UpsertAsset
    <3> QED
      BY <3>1, <3>2, <2>1, <1>2, <1>7 DEF Once
  <2>5. CASE Audit(r)
    <3>1. rq[r].pc = "audit" /\ rq'[r].pc = "response" /\ rq'[r].result = k
      <4>1. rq[r].pc = "audit" /\ rq' = [rq EXCEPT ![r].pc = "response"]
        BY <2>5 DEF Audit, At
      <4> QED
        BY <4>1, <1>7, Stepped DEF TypeInv, Steps
    <3>2. audits[k] = 0 /\ snapshots[k] <= 1
      BY <3>1, <1>2, <1>7 DEF Once
    <3>3. audits'[k] = 1 /\ snapshots' = snapshots
      BY <3>2, <2>5, <1>5, <1>7 DEF Audit
    <3> QED
      BY <3>1, <3>2, <3>3, <2>1 DEF Once
  <2>6. CASE StoreResponse(r)
    <3>1. rq'[r].result = NoResult
      BY <2>6, Ended DEF StoreResponse, TypeInv
    <3>2. k \in responses' /\ UNCHANGED <<snapshots, audits>>
      BY <2>6, <1>7 DEF StoreResponse
    <3>3. \A q \in Requests : rq'[q].result # k
      BY <3>1, <2>1, <1>2
    <3> QED
      BY <3>2, <3>3, <1>2 DEF Once
  <2> QED
    BY <2>0, <2>2, <2>3, <2>4, <2>5, <2>6 DEF SubmitStep
<1> QED
  BY <1>6, <1>7

-----------------------------------------------------------------------------
(* Leases.                                                                 *)

\* The numbers LeaseInv compares.
LEMMA LeaseNumbers ==
  ASSUME TypeInv
  PROVE  /\ task.ver \in Nat /\ task.lease \in Nat /\ leases \in Nat /\ expired \in Nat
         /\ \A i \in issued : i[1] \in Scanners /\ i[2] \in Nat /\ i[2] > 0
         /\ \A r \in Requests : rq[r].seen \in Nat /\ rq[r].new.lease \in Nat /\ rq[r].new.ver \in Nat
<1>1. task.ver \in Nat /\ task.lease \in Nat /\ leases \in Nat /\ expired \in Nat
  BY TaskFields, TasksAssumption DEF TypeInv, TypeOK
<1>2. \A i \in issued : i[1] \in Scanners /\ i[2] \in Nat /\ i[2] > 0
  BY TasksAssumption DEF TypeInv, TypeOK
<1>3. \A r \in Requests : rq[r].seen \in Nat /\ rq[r].new \in Task
  BY Fields DEF TypeInv, TypeOK
<1> QED
  BY <1>1, <1>2, <1>3, TaskFields, TasksAssumption

\* A step that leaves the task and its leases alone preserves LeaseInv when
\* the plan of its request is right.
LEMMA LeaseKept ==
  ASSUME TypeInv, LeaseInv, NEW r \in Requests, Others(r),
         UNCHANGED <<task, expired, issued, clobbered>>,
         ~clobbered => PlanInv(r)'
  PROVE  LeaseInv'
<1> SUFFICES ASSUME ~clobbered PROVE LeaseInv'
  BY DEF LeaseInv
<1>1. \A q \in Requests : PlanInv(q)'
  <2> SUFFICES ASSUME NEW q \in Requests, q # r PROVE PlanInv(q)'
    OBVIOUS
  <2>1. rq'[q] = rq[q] /\ PlanInv(q)
    BY DEF Others, LeaseInv
  <2> QED
    BY <2>1 DEF PlanInv, Expired
<1> QED
  BY <1>1 DEF LeaseInv, Expired

LEMMA PlanLease ==
  ASSUME TypeInv, LeaseInv, NEW r \in Requests, NEW s \in Scanners, Plans(r, s)
  PROVE  LeaseInv'
<1>1. Others(r) /\ UNCHANGED <<task, expired, issued, clobbered>>
  BY PlanEffect, PlanFrame
<1>2. ASSUME ~clobbered PROVE PlanInv(r)'
  <2>1. task.lease <= leases
    BY DEF TypeInv, GrantInv
  <2>2. Claimable => \A i \in issued : Expired(i[2])
    <3> SUFFICES ASSUME Claimable, NEW i \in issued PROVE Expired(i[2])
      OBVIOUS
    <3>1. task.status = "leased" /\ Expired(task.lease) /\ i[2] <= task.lease
      BY <1>2 DEF Claimable, LeaseInv
    <3> QED
      BY <3>1, LeaseNumbers DEF Expired
  <2>3. rq'[r].op \in {"claim", "renew"} => rq'[r].new.lease > task.lease
    BY <2>1, PlanEffect, LeaseNumbers
  <2>4. rq'[r].seen <= task.ver
    BY PlanEffect, LeaseNumbers
  <2>5. rq'[r].op = "claim" => \A i \in issued' : Expired(i[2])'
    BY <1>1, <2>2, PlanEffect DEF Expired
  <2> QED
    BY <1>1, <2>3, <2>4, <2>5, PlanEffect DEF PlanInv
<1> QED
  BY <1>1, <1>2, LeaseKept

LEMMA FetchLease ==
  ASSUME TypeInv, LeaseInv, NEW r \in Requests, Fetch(r)
  PROVE  LeaseInv'
<1>1. rq[r].pc = "fetch" /\ UNCHANGED <<task, expired, issued, clobbered>>
  BY DEF Fetch, At, history
<1>2. /\ Others(r) /\ rq'[r].pc = "index" /\ rq'[r].op = rq[r].op
      /\ rq'[r].scanner = rq[r].scanner /\ rq'[r].new = rq[r].new /\ rq'[r].seen = rq[r].seen
  BY Fetched DEF TypeInv
<1>3. ~clobbered => PlanInv(r)'
  BY <1>1, <1>2 DEF LeaseInv, PlanInv, Expired
<1> QED
  BY <1>1, <1>2, <1>3, LeaseKept

LEMMA SubmitLease ==
  ASSUME TypeInv, LeaseInv, NEW r \in Requests,
         SubmitStep(r) \/ Fail(r) \/ \E s \in Scanners, k \in Results : Submit(r, s, k)
  PROVE  LeaseInv'
<1>1. UNCHANGED <<task, expired, issued, clobbered>>
  BY DEF SubmitStep, Lookup, Snapshot, UpsertAsset, Audit, StoreResponse, Fail, Submit, history
<1>2. /\ Others(r) /\ rq'[r].pc \notin {"fetch", "index", "put"}
      /\ rq'[r].seen = 0 \/ rq'[r].seen = rq[r].seen
  <2>1. CASE SubmitStep(r) \/ Fail(r)
    BY <2>1, Advanced
  <2>2. CASE \E s \in Scanners, k \in Results : Submit(r, s, k)
    BY <2>2, Submitted DEF TypeInv
  <2> QED
    BY <2>1, <2>2
<1>3. ASSUME ~clobbered PROVE PlanInv(r)'
  <2>1. rq[r].seen <= task.ver
    BY <1>3 DEF LeaseInv, PlanInv
  <2>2. rq'[r].seen <= task'.ver
    BY <1>1, <1>2, <2>1, LeaseNumbers
  <2> QED
    BY <1>2, <2>2 DEF PlanInv
<1> QED
  BY <1>1, <1>2, <1>3, LeaseKept

\* A document made from the current version keeps the leases exclusive: a
\* claim is made only when all have run out, a renewal by their owner, and
\* an acknowledgement or failure leaves owner and lease alone.
LEMMA WriteLease ==
  ASSUME TypeInv, LeaseInv, NEW r \in Requests, rq[r].pc \in {"index", "put"}, Written(r),
         rq' = [rq EXCEPT ![r] = Idle], expired' = expired
  PROVE  LeaseInv'
<1> SUFFICES ASSUME ~clobbered' PROVE LeaseInv'
  BY DEF LeaseInv
<1>1. ~clobbered /\ rq[r].seen = task.ver
  BY DEF Written
<1>2. /\ task.ver = 0 => issued = {}
      /\ task.status = "available" => issued = {} /\ task.owner = Nobody
      /\ \A i \in issued : i[2] <= task.lease
      /\ \A i \in issued : ~Expired(i[2]) => i[1] = task.owner
      /\ \A q \in Requests : PlanInv(q)
  BY <1>1 DEF LeaseInv
<1>3. /\ task'.ver = task.ver + 1
      /\ task'.status = rq[r].new.status /\ task'.owner = rq[r].new.owner
      /\ task'.lease = rq[r].new.lease
  BY WrittenTask
<1>4. rq[r].op \in {"poll", "claim", "renew", "ack", "fail"}
  BY <1>2 DEF PlanInv
<1>5. /\ rq[r].op = "poll" => task.ver = 0 /\ rq[r].new = Available
      /\ rq[r].op = "claim" =>
           /\ rq[r].scanner \in Scanners /\ rq[r].new.owner = rq[r].scanner
           /\ rq[r].new.status = "leased"
           /\ \A i \in issued : Expired(i[2])
      /\ rq[r].op = "renew" =>
           /\ rq[r].scanner \in Scanners /\ rq[r].new.owner = rq[r].scanner
           /\ rq[r].new.owner = task.owner /\ rq[r].new.status = task.status
      /\ rq[r].op \in {"claim", "renew"} => rq[r].new.lease > task.lease
      /\ rq[r].op \in {"ack", "fail"} =>
           /\ rq[r].new.owner = task.owner /\ rq[r].new.lease = task.lease
           /\ rq[r].new.status # "available"
  BY <1>1, <1>2 DEF PlanInv
<1>6. Others(r) /\ rq'[r].pc = "idle" /\ rq'[r].seen = 0
  BY Ended DEF TypeInv
<1>7. \A q \in Requests : PlanInv(q)'
  <2> SUFFICES ASSUME NEW q \in Requests PROVE PlanInv(q)'
    OBVIOUS
  <2>1. CASE q = r
    BY <2>1, <1>3, <1>6, LeaseNumbers DEF PlanInv
  <2>2. CASE q # r
    <3>1. rq'[q] = rq[q] /\ PlanInv(q)
      BY <2>2, <1>2, <1>6 DEF Others
    <3>2. rq'[q].seen <= task'.ver /\ rq'[q].seen # task'.ver
      BY <3>1, <1>3, LeaseNumbers DEF PlanInv
    <3> QED
      BY <3>1, <3>2 DEF PlanInv
  <2> QED
    BY <2>1, <2>2
<1>8. task'.ver # 0
  BY <1>3, LeaseNumbers
<1>9. \A l : Expired(l)' <=> Expired(l)
  BY DEF Expired
<1>10. /\ task'.status = "available" => issued' = {} /\ task'.owner = Nobody
       /\ \A i \in issued' : i[2] <= task'.lease
       /\ \A i \in issued' : ~Expired(i[2]) => i[1] = task'.owner
  <2>1. CASE rq[r].op = "poll"
    <3>1. issued' = issued
      BY <2>1 DEF Written
    <3> QED
      BY <3>1, <2>1, <1>2, <1>3, <1>5 DEF Available
  <2>2. CASE rq[r].op = "claim"
    <3>1. issued' = issued \cup {<<rq[r].scanner, rq[r].new.lease>>}
      BY <2>2 DEF Written
    <3>2. \A i \in issued : i[2] <= task'.lease /\ Expired(i[2])
      BY <2>2, <1>2, <1>3, <1>5, LeaseNumbers
    <3> QED
      BY <3>1, <3>2, <2>2, <1>3, <1>5, LeaseNumbers
  <2>3. CASE rq[r].op = "renew"
    <3>1. issued' = issued \cup {<<rq[r].scanner, rq[r].new.lease>>}
      BY <2>3 DEF Written
    <3>2. \A i \in issued : i[2] <= task'.lease /\ (~Expired(i[2]) => i[1] = task'.owner)
      BY <2>3, <1>2, <1>3, <1>5, LeaseNumbers
    <3>3. task'.status # "available"
      BY <2>3, <1>2, <1>3, <1>5, TasksAssumption
    <3> QED
      BY <3>1, <3>2, <3>3, <2>3, <1>3, <1>5, LeaseNumbers
  <2>4. CASE rq[r].op \in {"ack", "fail"}
    <3>1. issued' = issued
      BY <2>4 DEF Written
    <3> QED
      BY <3>1, <2>4, <1>2, <1>3, <1>5
  <2> QED
    BY <1>4, <2>1, <2>2, <2>3, <2>4
<1> QED
  BY <1>7, <1>8, <1>9, <1>10 DEF LeaseInv

LEMMA ExpireLease ==
  ASSUME TypeInv, LeaseInv, Expire
  PROVE  LeaseInv'
<1>1. UNCHANGED <<task, rq, issued, clobbered>> /\ expired' = expired + 1
  BY DEF Expire, history
<1>2. \A i \in issued : Expired(i[2]) => Expired(i[2])'
  BY <1>1, LeaseNumbers DEF Expired
<1> SUFFICES ASSUME ~clobbered PROVE LeaseInv'
  BY <1>1 DEF LeaseInv
<1>3. \A q \in Requests : PlanInv(q)'
  BY <1>1, <1>2 DEF LeaseInv, PlanInv
<1> QED
  BY <1>1, <1>2, <1>3 DEF LeaseInv

-----------------------------------------------------------------------------
(* The invariant and what follows.                                         *)

LEMMA InitInv == Init => IInv
<1> SUFFICES ASSUME Init PROVE IInv
  OBVIOUS
<1>1. TypeInv
  BY InitType
<1>2. \A r \in Requests : rq[r].pc = "idle" /\ rq[r].result = NoResult /\ rq[r].seen = 0
  BY DEF Init, Idle
<1>3. ResultInv
  BY <1>2 DEF Init, ResultInv, Submits, AssetHasSnapshot, ResponseIsRecorded
<1>4. OnceInv
  BY <1>2, TasksAssumption DEF Init, OnceInv, Once
<1>5. task.ver = 0 /\ task.owner = Nobody /\ issued = {}
  BY DEF Init, Available
<1>6. LeaseInv
  BY <1>2, <1>5 DEF LeaseInv, PlanInv
<1> QED
  BY <1>1, <1>3, <1>4, <1>6 DEF IInv

LEMMA StutterInv == ASSUME IInv, UNCHANGED vars PROVE IInv'
  BY DEF IInv, TypeInv, TypeOK, GrantInv, ResultInv, AssetHasSnapshot, ResponseIsRecorded, OnceInv,
     Once, LeaseInv, PlanInv, Expired, vars, results, history

LEMMA NextInv == IInv /\ [Next]_vars => IInv'
<1> SUFFICES ASSUME IInv, Next PROVE IInv'
  BY StutterInv
<1> USE DEF IInv
<1>1. CASE Expire
  <2>1. UNCHANGED <<results, rq, repeated>>
    BY <1>1 DEF Expire, history
  <2>2. ResultInv' /\ OnceInv'
    BY <2>1 DEF ResultInv, AssetHasSnapshot, ResponseIsRecorded, OnceInv, Once, results
  <2> QED
    BY <1>1, <2>2, ExpireType, ExpireLease
<1>2. ASSUME NEW r \in Requests, NEW s \in Scanners, Plans(r, s) PROVE IInv'
  BY <1>2, PlanType, PlanResult, PlanLease
<1>3. ASSUME NEW r \in Requests, Fetch(r) PROVE IInv'
  BY <1>3, FetchType, PlanResult, FetchLease, TasksAssumption
<1>4. ASSUME NEW r \in Requests, Index(r) \/ Put(r) PROVE IInv'
  <2>1. rq' = [rq EXCEPT ![r] = Idle] /\ expired' = expired /\ rq[r].pc \in {"index", "put"}
    BY <1>4 DEF Index, Put, At
  <2>2. Written(r) \/ UNCHANGED <<task, issued, clobbered>>
    BY <1>4 DEF Index, Put
  <2>3. LeaseInv'
    <3>1. CASE Written(r)
      BY <2>1, <3>1, WriteLease
    <3>2. CASE UNCHANGED <<task, issued, clobbered>>
      <4>1. Others(r) /\ rq'[r].pc = "idle" /\ rq'[r].seen = 0
        BY <2>1, Ended DEF TypeInv
      <4>2. PlanInv(r)'
        BY <4>1, <3>2, LeaseNumbers DEF PlanInv
      <4> QED
        BY <4>1, <4>2, <3>2, <2>1, LeaseKept
    <3> QED
      BY <2>2, <3>1, <3>2
  <2> QED
    BY <1>4, <2>3, WriteType, PlanResult, TasksAssumption
<1>5. ASSUME NEW r \in Requests, NEW s \in Scanners, NEW k \in Results, Submit(r, s, k) PROVE IInv'
  BY <1>5, SubmitType, SubmitResult, SubmitLease
<1>6. ASSUME NEW r \in Requests, SubmitStep(r) \/ Fail(r) PROVE IInv'
  BY <1>6, SubmitStepType, SubmitStepResult, SubmitStepOnce, SubmitLease
<1>7. \A r \in Requests : Poll(r) => Plans(r, Home)
  BY DEF Plans
<1> QED
  BY <1>1, <1>2, <1>3, <1>4, <1>5, <1>6, <1>7, TasksAssumption
     DEF Next, Step, Request, Plans, SubmitStep

\* Task, requests and results have the types TypeOK gives them: in particular
\* a lease handed out has a number and an owner among the scanners.
THEOREM TasksTypeCorrect == Spec => []TypeOK
<1>1. IInv => TypeOK
  BY DEF IInv, TypeInv
<1> QED
  BY <1>1, InitInv, NextInv, PTL DEF Spec

\* claim, renew, ack and fail of leases.py and the task routes: leases that have
\* not run out are one scanner's, however the requests interleave and fail, as
\* long as no document made from an older version has been written.
THEOREM LeasesExclusive == Spec => []LeaseIsExclusive
<1>1. IInv => LeaseIsExclusive
  BY DEF IInv, LeaseInv, LeaseIsExclusive
<1> QED
  BY <1>1, InitInv, NextInv, PTL DEF Spec

\* submit_result of service.py: whatever fails or is repeated, the asset shows
\* no result without its snapshot, a stored response stands for a snapshot and
\* an audit event, and a result not repeated in flight has one of each.
THEOREM ResultsRecorded == Spec => []ResultIsRecorded
<1>1. IInv => ResultIsRecorded
  BY DEF IInv, ResultInv, OnceInv, Once, ResultIsRecorded, RecordedOnce
<1> QED
  BY <1>1, InitInv, NextInv, PTL DEF Spec
=============================================================================
