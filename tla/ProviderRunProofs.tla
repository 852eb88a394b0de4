-------------------------- MODULE ProviderRunProofs -------------------------
(***************************************************************************)
(* Theorems about ProviderRun, for every finite set of jobs, every set of  *)
(* runs and every value of the limits and bounds.                          *)
(***************************************************************************)
EXTENDS ProviderRun, FiniteSetTheorems, TLAPS

Collected == {"stamp", "bulk", "document", "save", "write", "saved"}
Stamped == Collected \ {"stamp"}
Evident == {"document", "save", "write", "saved"}

\* What a run has seen and left behind by the step it is at.
RunInv(r) ==
  /\ rn[r].before <= Len(checkpoint)
  /\ rn[r].end <= clock
  /\ \A row \in rn[r].rows : jobs[row[1]].at # 0
  /\ rn[r].pc \in Stamped =>
       /\ 0 < rn[r].after /\ rn[r].after <= clock
       /\ rn[r].before > 0 => checkpoint[rn[r].before].watermark <= rn[r].after
  /\ rn[r].pc = "bulk" => \A row \in rn[r].rows \ rn[r].left : stored[row[1]] # "none"
  /\ rn[r].pc \in Evident => \A row \in rn[r].rows : stored[row[1]] # "none"
  /\ rn[r].pc \in {"save", "write", "saved"} => r \in rundocs

\* The versions of the checkpoint are the work of saved runs, in turn.
VersionInv(n) ==
  /\ rn[checkpoint[n].run].pc = "saved"
  /\ rn[checkpoint[n].run].before = n - 1
  /\ checkpoint[n].watermark <= clock
  /\ n > 1 => checkpoint[n - 1].watermark <= checkpoint[n].watermark

\* What a run has not collected of the jobs that started before its end.
Missed(r, j) ==
  \/ rn[r].before > 0 /\ jobs[j].at < checkpoint[rn[r].before].watermark
  \/ Explains(r, j)
CoverInv(r) ==
  rn[r].pc \in Collected =>
    \A j \in Jobs : jobs[j].at # 0 /\ jobs[j].at < rn[r].end =>
      Missed(r, j) \/ \E row \in rn[r].rows : row[1] = j

\* SkippedIsExplained at every version.
SkipInv(n) ==
  \A j \in Jobs :
    stored[j] = "none" /\ jobs[j].at # 0 /\ jobs[j].at < checkpoint[n].watermark
    => \E m \in 1..n : Explains(checkpoint[m].run, j)

Versions == 1..Len(checkpoint)
IInv ==
  /\ TypeOK
  /\ \A r \in Runs : RunInv(r)
  /\ \A n \in Versions : VersionInv(n)
WindowInv ==
  /\ \A r \in Runs : CoverInv(r)
  /\ \A n \in Versions : SkipInv(n)

-----------------------------------------------------------------------------
(* What the steps of a run change.                                         *)

Others(r) == \A q \in Runs : q # r => rn'[q] = rn[q]

LEMMA RunType == TypeOK => rn \in [Runs -> RunState]
  BY DEF TypeOK

LEMMA Fields ==
  ASSUME TypeOK, NEW r \in Runs
  PROVE  /\ rn[r] \in RunState /\ rn[r].pc \in Steps /\ rn[r].before \in Nat
         /\ rn[r].attempt \in 1..MaxAttempts /\ rn[r].end \in Nat /\ rn[r].end <= MaxTime
         /\ rn[r].rows \subseteq Jobs \X States /\ rn[r].partial \in BOOLEAN
         /\ rn[r].after \in Nat /\ rn[r].after <= MaxTime /\ rn[r].left \subseteq Jobs \X States
<1>1. rn[r] \in RunState
  BY DEF TypeOK
<1>2. /\ rn[r].pc \in Steps /\ rn[r].before \in Nat /\ rn[r].attempt \in 1..MaxAttempts
      /\ rn[r].end \in 0..MaxTime /\ rn[r].rows \in SUBSET (Jobs \X States)
      /\ rn[r].partial \in BOOLEAN /\ rn[r].after \in 0..MaxTime
      /\ rn[r].left \in SUBSET (Jobs \X States)
  BY <1>1 DEF RunState
<1> QED
  BY <1>1, <1>2, ProviderAssumption

LEMMA Moved ==
  ASSUME TypeOK, NEW r \in Runs, NEW x \in RunState, rn' = [rn EXCEPT ![r] = x]
  PROVE  rn' \in [Runs -> RunState] /\ rn'[r] = x /\ Others(r)
  BY DEF TypeOK, Others

\* All but the step stays.
SameBut(r, step) ==
  /\ rn' \in [Runs -> RunState] /\ Others(r)
  /\ rn'[r].pc = step /\ rn'[r].before = rn[r].before /\ rn'[r].end = rn[r].end
  /\ rn'[r].rows = rn[r].rows /\ rn'[r].partial = rn[r].partial /\ rn'[r].after = rn[r].after
  /\ rn'[r].left = rn[r].left

LEMMA Stepped ==
  ASSUME TypeOK, NEW r \in Runs, NEW step \in Steps, rn' = [rn EXCEPT ![r].pc = step]
  PROVE  SameBut(r, step)
<1> DEFINE x == [rn[r] EXCEPT !.pc = step]
<1>1. rn[r] \in RunState /\ rn' = [rn EXCEPT ![r] = x]
  BY DEF TypeOK
<1>2. /\ x \in RunState /\ x.pc = step /\ x.before = rn[r].before /\ x.end = rn[r].end
      /\ x.rows = rn[r].rows /\ x.partial = rn[r].partial /\ x.after = rn[r].after
      /\ x.left = rn[r].left
  BY <1>1 DEF RunState
<1> HIDE DEF x
<1>3. rn' \in [Runs -> RunState] /\ rn'[r] = x /\ Others(r)
  BY <1>1, <1>2, Moved
<1> QED
  BY <1>2, <1>3 DEF SameBut

LEMMA Loaded ==
  ASSUME TypeOK, NEW r \in Runs, Load(r)
  PROVE  /\ rn' \in [Runs -> RunState] /\ Others(r)
         /\ rn'[r].pc = "collect" /\ rn'[r].before = Len(checkpoint) /\ rn'[r].end = rn[r].end
         /\ rn'[r].rows = rn[r].rows
<1> DEFINE n == Len(checkpoint)
           x == [rn[r] EXCEPT !.pc = "collect", !.before = n]
<1>1. n \in Nat /\ rn[r] \in RunState /\ rn' = [rn EXCEPT ![r] = x]
  <2>1. n \in Nat
    BY DEF TypeOK
  <2> QED
    BY <2>1, RunType DEF Load
<1> HIDE DEF n
<1>2. /\ x \in RunState /\ x.pc = "collect" /\ x.before = n /\ x.end = rn[r].end
      /\ x.rows = rn[r].rows
  BY <1>1 DEF RunState, Steps
<1> HIDE DEF x
<1>3. rn' \in [Runs -> RunState] /\ rn'[r] = x /\ Others(r)
  BY <1>1, <1>2, Moved
<1> QED
  BY <1>2, <1>3 DEF n

LEMMA Gathered ==
  ASSUME TypeOK, NEW r \in Runs, NEW J \in SUBSET Jobs, NEW partial \in BOOLEAN,
         Collect(r, J, partial)
  PROVE  /\ rn' \in [Runs -> RunState] /\ Others(r)
         /\ rn'[r].pc = "stamp" /\ rn'[r].before = rn[r].before /\ rn'[r].end = clock
         /\ rn'[r].rows = Observed(J) /\ rn'[r].partial = partial
<1> DEFINE o == Observed(J)
           x == [rn[r] EXCEPT !.pc = "stamp", !.end = clock, !.rows = o, !.partial = partial]
<1>1. o \in SUBSET (Jobs \X States)
  BY DEF Observed, States
<1>2. rn[r] \in RunState /\ rn' = [rn EXCEPT ![r] = x] /\ clock \in 0..MaxTime
  <2>1. clock \in 0..MaxTime
    BY ProviderAssumption DEF TypeOK
  <2> QED
    BY <2>1, RunType DEF Collect
<1> HIDE DEF o
<1>3. /\ x \in RunState /\ x.pc = "stamp" /\ x.before = rn[r].before /\ x.end = clock
      /\ x.rows = o /\ x.partial = partial
  BY <1>1, <1>2 DEF RunState, Steps
<1> HIDE DEF x
<1>4. rn' \in [Runs -> RunState] /\ rn'[r] = x /\ Others(r)
  BY <1>2, <1>3, Moved
<1> QED
  BY <1>3, <1>4 DEF o

LEMMA Retried ==
  ASSUME TypeOK, NEW r \in Runs, Retry(r)
  PROVE  SameBut(r, "collect") \/ SameBut(r, "failed")
<1>1. CASE rn[r].attempt < MaxAttempts
  <2> DEFINE n == rn[r].attempt + 1
             x == [rn[r] EXCEPT !.attempt = n]
  <2>1. n \in 1..MaxAttempts
    BY <1>1, Fields, ProviderAssumption
  <2>2. rn[r] \in RunState /\ rn[r].pc = "collect" /\ rn' = [rn EXCEPT ![r] = x]
    BY <1>1, RunType DEF Retry, At
  <2> HIDE DEF n
  <2>3. /\ x \in RunState /\ x.pc = "collect" /\ x.before = rn[r].before /\ x.end = rn[r].end
        /\ x.rows = rn[r].rows /\ x.partial = rn[r].partial /\ x.after = rn[r].after
        /\ x.left = rn[r].left
    BY <2>1, <2>2 DEF RunState
  <2> HIDE DEF x
  <2>4. rn' \in [Runs -> RunState] /\ rn'[r] = x /\ Others(r)
    BY <2>2, <2>3, Moved
  <2> QED
    BY <2>3, <2>4 DEF SameBut
<1>2. CASE ~(rn[r].attempt < MaxAttempts)
  <2>1. rn' = [rn EXCEPT ![r].pc = "failed"]
    BY <1>2 DEF TypeOK, Retry
  <2> QED
    BY <2>1, Stepped DEF Steps
<1> QED
  BY <1>1, <1>2

LEMMA Stamps ==
  ASSUME TypeOK, NEW r \in Runs, Stamp(r)
  PROVE  /\ rn' \in [Runs -> RunState] /\ Others(r)
         /\ rn'[r].pc = "bulk" /\ rn'[r].before = rn[r].before /\ rn'[r].end = rn[r].end
         /\ rn'[r].rows = rn[r].rows /\ rn'[r].partial = rn[r].partial
         /\ rn'[r].after = clock /\ rn'[r].left = rn[r].rows
<1> DEFINE o == rn[r].rows
           x == [rn[r] EXCEPT !.pc = "bulk", !.after = clock, !.left = o]
<1>1. o \in SUBSET (Jobs \X States)
  BY Fields
<1>2. rn[r] \in RunState /\ rn' = [rn EXCEPT ![r] = x] /\ clock \in 0..MaxTime
  <2>1. clock \in 0..MaxTime
    BY ProviderAssumption DEF TypeOK
  <2> QED
    BY <2>1, RunType DEF Stamp
<1>3. /\ x.before = rn[r].before /\ x.end = rn[r].end /\ x.partial = rn[r].partial
      /\ x.rows = o /\ x.pc = "bulk" /\ x.after = clock /\ x.left = o
  BY <1>2 DEF RunState
<1> HIDE DEF o
<1>4. x \in RunState
  BY <1>1, <1>2 DEF RunState, Steps
<1> HIDE DEF x
<1>5. rn' \in [Runs -> RunState] /\ rn'[r] = x /\ Others(r)
  BY <1>2, <1>4, Moved
<1> QED
  BY <1>3, <1>5 DEF o

LEMMA Bulked ==
  ASSUME TypeOK, NEW r \in Runs, NEW B, Bulk(r, B)
  PROVE  /\ rn' \in [Runs -> RunState] /\ Others(r)
         /\ rn'[r].pc = "bulk" /\ rn'[r].before = rn[r].before /\ rn'[r].end = rn[r].end
         /\ rn'[r].rows = rn[r].rows /\ rn'[r].partial = rn[r].partial
         /\ rn'[r].after = rn[r].after /\ rn'[r].left = rn[r].left \ B
<1> DEFINE o == rn[r].left \ B
           x == [rn[r] EXCEPT !.left = o]
<1>1. o \in SUBSET (Jobs \X States)
  BY Fields
<1>2. rn[r] \in RunState /\ rn' = [rn EXCEPT ![r] = x] /\ rn[r].pc = "bulk"
  BY DEF TypeOK, Bulk, At
<1> HIDE DEF o
<1>3. /\ x.before = rn[r].before /\ x.end = rn[r].end /\ x.partial = rn[r].partial
      /\ x.rows = rn[r].rows /\ x.pc = "bulk" /\ x.after = rn[r].after /\ x.left = o
      /\ x \in RunState
  BY <1>1, <1>2 DEF RunState
<1> HIDE DEF x
<1>4. rn' \in [Runs -> RunState] /\ rn'[r] = x /\ Others(r)
  BY <1>2, <1>3, Moved
<1> QED
  BY <1>3, <1>4 DEF o

\* The steps that change nothing of a run but where it is.
LEMMA Steered ==
  ASSUME TypeOK, NEW r \in Runs
  PROVE  /\ Persisted(r) => SameBut(r, "document")
         /\ PersistRun(r) => SameBut(r, "save")
         /\ Expect(r) => SameBut(r, "failed") \/ SameBut(r, "write")
         /\ WriteCheckpoint(r) => IF Len(checkpoint) = rn[r].before THEN SameBut(r, "saved")
                                  ELSE SameBut(r, "failed")
         /\ Abort(r) => SameBut(r, "failed")
         /\ \A B, C : BulkFails(r, B, C) => SameBut(r, "failed")
<1>1. \A step \in Steps : rn' = [rn EXCEPT ![r].pc = step] => SameBut(r, step)
  BY Stepped
<1>2. Expect(r) => \/ rn' = [rn EXCEPT ![r].pc = "failed"] \/ rn' = [rn EXCEPT ![r].pc = "write"]
  BY DEF Expect, TypeOK
<1>3. {"document", "save", "failed", "write", "saved"} \subseteq Steps
  BY DEF Steps
<1> QED
  BY <1>1, <1>2, <1>3 DEF Persisted, PersistRun, WriteCheckpoint, Abort, BulkFails

-----------------------------------------------------------------------------
(* Types.                                                                  *)

LEMMA InitType == Init => TypeOK
<1> SUFFICES ASSUME Init PROVE TypeOK
  OBVIOUS
<1>1. NewRun \in RunState
  BY ProviderAssumption DEF NewRun, RunState, Steps
<1>2. rn \in [Runs -> RunState]
  BY <1>1 DEF Init
<1>3. clock \in 1..MaxTime /\ faults \in 0..MaxFaults
  BY ProviderAssumption DEF Init
<1>4. jobs \in [Jobs -> [at: 0..MaxTime, done: BOOLEAN]]
  BY ProviderAssumption DEF Init
<1> QED
  BY <1>2, <1>3, <1>4 DEF Init, TypeOK

LEMMA CreateType ==
  ASSUME TypeOK, NEW B, Create(B)
  PROVE  /\ stored' \in [Jobs -> States \cup {"none"}]
         /\ \A j \in Jobs : stored[j] # "none" => stored'[j] # "none"
         /\ \A row \in B : row \in Jobs \X States => stored'[row[1]] # "none"
<1> DEFINE Has(j) == \E s \in States : <<j, s>> \in B
           Pick(j) == CHOOSE s \in States : <<j, s>> \in B
<1>1. \A j : Has(j) => Pick(j) \in States
  OBVIOUS
<1>2. stored' = [j \in Jobs |-> IF stored[j] = "none" /\ Has(j) THEN Pick(j) ELSE stored[j]]
  BY DEF Create
<1>3. \A row \in B : row \in Jobs \X States => row[1] \in Jobs /\ Has(row[1])
  <2> SUFFICES ASSUME NEW row \in B, row \in Jobs \X States PROVE row[1] \in Jobs /\ Has(row[1])
    OBVIOUS
  <2>1. row = <<row[1], row[2]>> /\ row[1] \in Jobs /\ row[2] \in States
    OBVIOUS
  <2> QED
    BY <2>1
<1>4. "none" \notin States /\ stored \in [Jobs -> States \cup {"none"}]
  BY DEF States, TypeOK
<1> HIDE DEF Has, Pick
<1>5. \A j \in Jobs : /\ stored[j] = "none" /\ Has(j) => stored'[j] = Pick(j)
                      /\ ~(stored[j] = "none" /\ Has(j)) => stored'[j] = stored[j]
  BY <1>2
<1>6. stored' \in [Jobs -> States \cup {"none"}]
  BY <1>1, <1>2, <1>4
<1>7. \A j \in Jobs : stored[j] # "none" => stored'[j] # "none"
  BY <1>5
<1>8. \A j \in Jobs : Has(j) => stored'[j] # "none"
  BY <1>1, <1>4, <1>5
<1> QED
  BY <1>3, <1>6, <1>7, <1>8

\* Every step, with what it leaves of the other runs.
Acts(r) == Execute(r) \/ Abort(r)

LEMMA ActRun ==
  ASSUME TypeOK, NEW r \in Runs, Acts(r)
  PROVE  /\ rn' \in [Runs -> RunState] /\ Others(r)
         /\ rn[r].pc \notin {"saved", "failed"}
<1>1. rn[r].pc \notin {"saved", "failed"}
  BY DEF Acts, Execute, Load, Collect, Retry, Stamp, Persisted, PersistRun, Bulk, BulkFails, Expect,
     WriteCheckpoint, Abort, At
<1>2. rn' \in [Runs -> RunState] /\ Others(r)
  BY Loaded, Gathered, Retried, Stamps, Bulked, Steered DEF Acts, Execute, SameBut
<1> QED
  BY <1>1, <1>2

LEMMA ActRest ==
  ASSUME TypeOK, NEW r \in Runs, Acts(r)
  PROVE  /\ clock' = clock /\ jobs' = jobs /\ faults' \in 0..MaxFaults
         /\ rundocs \subseteq rundocs' /\ rundocs' \subseteq Runs
         /\ stored' \in [Jobs -> States \cup {"none"}]
         /\ \A j \in Jobs : stored[j] # "none" => stored'[j] # "none"
         /\ \/ checkpoint' = checkpoint
            \/ /\ rn[r].pc = "write" /\ rn'[r].pc = "saved" /\ Len(checkpoint) = rn[r].before
               /\ SameBut(r, "saved") /\ UNCHANGED <<stored, rundocs>>
               /\ checkpoint' = Append(checkpoint, [run |-> r, watermark |-> rn[r].after])
<1>1. clock' = clock /\ jobs' = jobs
  BY DEF Acts, Execute, Load, Collect, Retry, Stamp, Persisted, PersistRun, Bulk, BulkFails, Expect,
     WriteCheckpoint, Abort
<1>2. faults' = faults \/ (faults < MaxFaults /\ faults' = faults + 1)
  BY DEF Acts, Execute, Load, Collect, Retry, Stamp, Persisted, PersistRun, Bulk, BulkFails, Expect,
     WriteCheckpoint, Abort
<1>3. faults' \in 0..MaxFaults
  BY <1>2, ProviderAssumption DEF TypeOK
<1>4. rundocs' = rundocs \/ rundocs' = rundocs \cup {r}
  BY DEF Acts, Execute, Load, Collect, Retry, Stamp, Persisted, PersistRun, Bulk, BulkFails, Expect,
     WriteCheckpoint, Abort
<1>5. rundocs \subseteq rundocs' /\ rundocs' \subseteq Runs
  BY <1>4 DEF TypeOK
<1>6. stored' = stored \/ \E B : Create(B)
  BY DEF Acts, Execute, Load, Collect, Retry, Stamp, Persisted, PersistRun, Bulk, BulkFails, Expect,
     WriteCheckpoint, Abort
<1>7. /\ stored' \in [Jobs -> States \cup {"none"}]
      /\ \A j \in Jobs : stored[j] # "none" => stored'[j] # "none"
  BY <1>6, CreateType DEF TypeOK
<1>8. CASE WriteCheckpoint(r)
  <2>1. rn[r].pc = "write" /\ UNCHANGED <<stored, rundocs>>
    BY <1>8 DEF WriteCheckpoint, At
  <2>2. CASE Len(checkpoint) = rn[r].before
    <3>1. SameBut(r, "saved")
      BY <1>8, <2>2, Steered
    <3>2. checkpoint' = Append(checkpoint, [run |-> r, watermark |-> rn[r].after])
      BY <1>8, <2>2 DEF WriteCheckpoint
    <3> QED
      BY <1>1, <1>3, <1>5, <1>7, <2>1, <2>2, <3>1, <3>2 DEF SameBut
  <2>3. CASE Len(checkpoint) # rn[r].before
    BY <1>1, <1>3, <1>5, <1>7, <1>8, <2>3 DEF WriteCheckpoint
  <2> QED
    BY <2>2, <2>3
<1>9. CASE ~WriteCheckpoint(r)
  <2>1. checkpoint' = checkpoint
    BY <1>9 DEF Acts, Execute, Load, Collect, Retry, Stamp, Persisted, PersistRun, Bulk, BulkFails,
       Expect, Abort
  <2> QED
    BY <1>1, <1>3, <1>5, <1>7, <2>1
<1> QED
  BY <1>8, <1>9

\* A version added to the checkpoint.
LEMMA Appended ==
  ASSUME TypeOK, NEW r \in Runs, NEW w \in 1..MaxTime,
         checkpoint' = Append(checkpoint, [run |-> r, watermark |-> w])
  PROVE  /\ checkpoint' \in Seq([run: Runs, watermark: 1..MaxTime])
         /\ Len(checkpoint') = Len(checkpoint) + 1
         /\ \A n \in 1..Len(checkpoint) : checkpoint'[n] = checkpoint[n]
         /\ checkpoint'[Len(checkpoint) + 1] = [run |-> r, watermark |-> w]
<1> DEFINE e == [run |-> r, watermark |-> w]
<1>1. e \in [run: Runs, watermark: 1..MaxTime]
  OBVIOUS
<1>2. checkpoint \in Seq([run: Runs, watermark: 1..MaxTime]) /\ checkpoint' = Append(checkpoint, e)
  BY DEF TypeOK
<1> HIDE DEF e
<1>3. /\ checkpoint' \in Seq([run: Runs, watermark: 1..MaxTime])
      /\ Len(checkpoint') = Len(checkpoint) + 1
      /\ \A n \in 1..Len(checkpoint) : checkpoint'[n] = checkpoint[n]
      /\ checkpoint'[Len(checkpoint) + 1] = e
  BY <1>1, <1>2
<1> QED
  BY <1>3 DEF e

LEMMA ActType ==
  ASSUME TypeOK, NEW r \in Runs, RunInv(r), Acts(r)
  PROVE  TypeOK'
<1>1. checkpoint' \in Seq([run: Runs, watermark: 1..MaxTime])
  <2>1. CASE checkpoint' = checkpoint
    BY <2>1 DEF TypeOK
  <2>2. CASE checkpoint' # checkpoint
    <3>1. /\ rn[r].pc = "write"
          /\ checkpoint' = Append(checkpoint, [run |-> r, watermark |-> rn[r].after])
      BY <2>2, ActRest
    <3>2. rn[r].after \in 1..MaxTime
      BY <3>1, Fields, ProviderAssumption DEF RunInv, Stamped, Collected
    <3> QED
      BY <3>1, <3>2, Appended
  <2> QED
    BY <2>1, <2>2
<1> QED
  BY <1>1, ActRun, ActRest DEF TypeOK

LEMMA PlatformRest ==
  ASSUME TypeOK, Tick \/ \E j \in Jobs : Start(j) \/ End(j)
  PROVE  /\ UNCHANGED <<checkpoint, stored, rundocs, rn, faults>>
         /\ clock' \in 1..MaxTime /\ clock <= clock'
         /\ jobs' \in [Jobs -> [at: 0..MaxTime, done: BOOLEAN]]
         /\ \A j \in Jobs : jobs'[j].at = jobs[j].at \/ (jobs[j].at = 0 /\ jobs'[j].at = clock)
<1>0. jobs \in [Jobs -> [at: 0..MaxTime, done: BOOLEAN]] /\ clock \in 1..MaxTime /\ clock \in 0..MaxTime
  BY ProviderAssumption DEF TypeOK
<1>1. CASE Tick
  <2>1. UNCHANGED <<jobs, checkpoint, stored, rundocs, rn, faults>> /\ clock < MaxTime /\ clock' = clock + 1
    BY <1>1 DEF Tick
  <2>2. clock' \in 1..MaxTime /\ clock <= clock'
    BY <1>0, <2>1, ProviderAssumption
  <2> QED
    BY <1>0, <2>1, <2>2
<1>2. ASSUME NEW k \in Jobs, Start(k)
      PROVE  /\ jobs' \in [Jobs -> [at: 0..MaxTime, done: BOOLEAN]]
             /\ \A j \in Jobs : jobs'[j].at = jobs[j].at \/ (jobs[j].at = 0 /\ jobs'[j].at = clock)
  <2> DEFINE x == [jobs[k] EXCEPT !.at = clock]
  <2>1. x \in [at: 0..MaxTime, done: BOOLEAN] /\ x.at = clock
    BY <1>0
  <2>2. jobs' = [jobs EXCEPT ![k] = x] /\ jobs[k].at = 0
    BY <1>2 DEF Start
  <2> HIDE DEF x
  <2>3. jobs' \in [Jobs -> [at: 0..MaxTime, done: BOOLEAN]]
    BY <1>0, <2>1, <2>2
  <2>4. \A j \in Jobs : jobs'[j] = IF j = k THEN x ELSE jobs[j]
    BY <1>0, <2>2
  <2> QED
    BY <2>1, <2>2, <2>3, <2>4
<1>3. ASSUME NEW k \in Jobs, End(k)
      PROVE  /\ jobs' \in [Jobs -> [at: 0..MaxTime, done: BOOLEAN]]
             /\ \A j \in Jobs : jobs'[j].at = jobs[j].at
  <2> DEFINE x == [jobs[k] EXCEPT !.done = TRUE]
  <2>1. x \in [at: 0..MaxTime, done: BOOLEAN] /\ x.at = jobs[k].at
    BY <1>0
  <2>2. jobs' = [jobs EXCEPT ![k] = x]
    BY <1>3 DEF End
  <2> HIDE DEF x
  <2>3. jobs' \in [Jobs -> [at: 0..MaxTime, done: BOOLEAN]]
    BY <1>0, <2>1, <2>2
  <2>4. \A j \in Jobs : jobs'[j] = IF j = k THEN x ELSE jobs[j]
    BY <1>0, <2>2
  <2> QED
    BY <2>1, <2>2, <2>3, <2>4
<1>4. CASE \E j \in Jobs : Start(j) \/ End(j)
  <2>1. UNCHANGED <<checkpoint, stored, rundocs, rn, faults, clock>>
    BY <1>4 DEF Start, End
  <2>2. clock <= clock'
    BY <1>0, <2>1, ProviderAssumption
  <2>3. /\ jobs' \in [Jobs -> [at: 0..MaxTime, done: BOOLEAN]]
        /\ \A j \in Jobs : jobs'[j].at = jobs[j].at \/ (jobs[j].at = 0 /\ jobs'[j].at = clock)
    BY <1>2, <1>3, <1>4
  <2> QED
    BY <1>0, <2>1, <2>2, <2>3
<1> QED
  BY <1>1, <1>4

-----------------------------------------------------------------------------
(* What a run relies on stays true while others act.                       *)

Grows ==
  /\ clock \in Nat /\ clock' \in Nat /\ clock <= clock'
  /\ \A j \in Jobs : jobs[j].at \in Nat /\ jobs'[j].at \in Nat
  /\ \A j \in Jobs : jobs'[j].at = jobs[j].at \/ (jobs[j].at = 0 /\ jobs'[j].at = clock)
  /\ \A j \in Jobs : stored[j] # "none" => stored'[j] # "none"
  /\ rundocs \subseteq rundocs'
  /\ Len(checkpoint) \in Nat /\ Len(checkpoint') \in Nat /\ Len(checkpoint) <= Len(checkpoint')
  /\ \A n \in Versions : checkpoint'[n] = checkpoint[n]

\* The numbers of the versions.
LEMMA VersionType ==
  ASSUME TypeOK, NEW n \in Versions
  PROVE  /\ checkpoint[n].run \in Runs /\ checkpoint[n].watermark \in Nat
         /\ Len(checkpoint) \in Nat /\ n \in Nat /\ n > 0 /\ n <= Len(checkpoint)
<1> DEFINE V == [run: Runs, watermark: 1..MaxTime]
<1>1. checkpoint \in Seq(V)
  BY DEF TypeOK
<1> HIDE DEF V
<1>2. n \in 1..Len(checkpoint) /\ Len(checkpoint) \in Nat
  BY <1>1 DEF Versions
<1>3. checkpoint[n] \in V
  BY <1>1, <1>2
<1>4. checkpoint[n].run \in Runs /\ checkpoint[n].watermark \in 1..MaxTime
  BY <1>3 DEF V
<1> QED
  BY <1>2, <1>4, ProviderAssumption

LEMMA JobType ==
  ASSUME TypeOK, NEW j \in Jobs PROVE jobs[j].at \in Nat
<1>1. jobs[j] \in [at: 0..MaxTime, done: BOOLEAN]
  BY DEF TypeOK
<1> QED
  BY <1>1, ProviderAssumption

LEMMA PlatformGrows ==
  ASSUME TypeOK, Tick \/ \E j \in Jobs : Start(j) \/ End(j)
  PROVE  Grows /\ TypeOK' /\ rn' = rn /\ UNCHANGED <<checkpoint, stored>>
<1>1. clock \in Nat /\ clock' \in Nat /\ clock <= clock'
  BY PlatformRest, ProviderAssumption DEF TypeOK
<1>2. TypeOK'
  BY PlatformRest DEF TypeOK
<1>3. \A j \in Jobs : jobs[j].at \in Nat /\ jobs'[j].at \in Nat
  BY <1>1, JobType, PlatformRest
<1>4. Len(checkpoint) \in Nat
  BY DEF TypeOK
<1> QED
  BY <1>1, <1>2, <1>3, <1>4, PlatformRest DEF Grows

LEMMA ActGrows ==
  ASSUME TypeOK, NEW r \in Runs, RunInv(r), Acts(r)
  PROVE  Grows
<1>1. clock \in Nat /\ Len(checkpoint) \in Nat
  BY ProviderAssumption DEF TypeOK
<1>2. \A j \in Jobs : jobs[j].at \in Nat
  BY JobType
<1>3. /\ Len(checkpoint') \in Nat /\ Len(checkpoint) <= Len(checkpoint')
      /\ \A n \in Versions : checkpoint'[n] = checkpoint[n]
  <2>1. CASE checkpoint' = checkpoint
    BY <1>1, <2>1
  <2>2. CASE checkpoint' # checkpoint
    <3>1. /\ rn[r].pc = "write"
          /\ checkpoint' = Append(checkpoint, [run |-> r, watermark |-> rn[r].after])
      BY <2>2, ActRest
    <3>2. rn[r].after \in 1..MaxTime
      BY <3>1, Fields, ProviderAssumption DEF RunInv, Stamped, Collected
    <3> QED
      BY <1>1, <3>1, <3>2, Appended DEF Versions
  <2> QED
    BY <2>1, <2>2
<1>4. clock' = clock /\ jobs' = jobs
  BY ActRest
<1>5. clock' \in Nat /\ clock <= clock'
  BY <1>1, <1>4
<1>6. rundocs \subseteq rundocs' /\ \A j \in Jobs : stored[j] # "none" => stored'[j] # "none"
  BY ActRest
<1> QED
  BY <1>1, <1>2, <1>3, <1>4, <1>5, <1>6 DEF Grows

LEMMA RunKept ==
  ASSUME TypeOK, Grows, NEW q \in Runs, RunInv(q), rn'[q] = rn[q]
  PROVE  RunInv(q)'
<1>1. rn[q].rows \subseteq Jobs \X States /\ rn[q].before \in Nat /\ rn[q].end \in Nat /\ rn[q].after \in Nat
  BY Fields
<1>2. \A row \in rn[q].rows : row[1] \in Jobs
  BY <1>1
<1>3. rn[q].before > 0 => checkpoint'[rn[q].before] = checkpoint[rn[q].before]
  BY <1>1 DEF RunInv, Grows, Versions
<1>4. \A row \in rn'[q].rows : jobs'[row[1]].at # 0
  BY <1>2 DEF RunInv, Grows
<1>5. rn'[q].before <= Len(checkpoint') /\ rn'[q].end <= clock'
  BY <1>1 DEF RunInv, Grows
<1>6. rn'[q].pc \in Stamped =>
        /\ 0 < rn'[q].after /\ rn'[q].after <= clock'
        /\ rn'[q].before > 0 => checkpoint'[rn'[q].before].watermark <= rn'[q].after
  BY <1>1, <1>3 DEF RunInv, Grows
<1>7. /\ rn'[q].pc = "bulk" => \A row \in rn'[q].rows \ rn'[q].left : stored'[row[1]] # "none"
      /\ rn'[q].pc \in Evident => \A row \in rn'[q].rows : stored'[row[1]] # "none"
      /\ rn'[q].pc \in {"save", "write", "saved"} => q \in rundocs'
  BY <1>2 DEF RunInv, Grows
<1> QED
  BY <1>4, <1>5, <1>6, <1>7 DEF RunInv

\* The acting run: the steps that leave everything of it but its pc.
LEMMA RunSteered ==
  ASSUME TypeOK, Grows, NEW r \in Runs, RunInv(r), NEW step, SameBut(r, step),
         step # "bulk",
         step \in Stamped => rn[r].pc \in Stamped,
         step \in Evident => \A row \in rn[r].rows : stored'[row[1]] # "none",
         step \in {"save", "write", "saved"} => r \in rundocs'
  PROVE  RunInv(r)'
<1>1. rn[r].rows \subseteq Jobs \X States /\ rn[r].before \in Nat /\ rn[r].end \in Nat /\ rn[r].after \in Nat
  BY Fields
<1>2. \A row \in rn[r].rows : row[1] \in Jobs
  BY <1>1
<1>3. rn[r].before > 0 => checkpoint'[rn[r].before] = checkpoint[rn[r].before]
  BY <1>1 DEF RunInv, Grows, Versions
<1>4. \A row \in rn'[r].rows : jobs'[row[1]].at # 0
  BY <1>2 DEF RunInv, Grows, SameBut
<1>5. rn'[r].before <= Len(checkpoint') /\ rn'[r].end <= clock'
  BY <1>1 DEF RunInv, Grows, SameBut
<1>6. rn'[r].pc \in Stamped =>
        /\ 0 < rn'[r].after /\ rn'[r].after <= clock'
        /\ rn'[r].before > 0 => checkpoint'[rn'[r].before].watermark <= rn'[r].after
  BY <1>1, <1>3 DEF RunInv, Grows, SameBut
<1>7. /\ rn'[r].pc # "bulk"
      /\ rn'[r].pc \in Evident => \A row \in rn'[r].rows : stored'[row[1]] # "none"
      /\ rn'[r].pc \in {"save", "write", "saved"} => r \in rundocs'
  BY DEF SameBut
<1> QED
  BY <1>4, <1>5, <1>6, <1>7 DEF RunInv

LEMMA ActRunInv ==
  ASSUME TypeOK, NEW r \in Runs, RunInv(r), \A n \in Versions : VersionInv(n), Acts(r)
  PROVE  RunInv(r)'
<1>1. Grows
  BY ActGrows
<1>2. /\ rn[r].rows \subseteq Jobs \X States /\ rn[r].before \in Nat /\ rn[r].end \in Nat
      /\ rn[r].after \in Nat /\ clock \in Nat /\ clock > 0 /\ clock' = clock /\ jobs' = jobs
  <2>1. clock \in Nat /\ clock > 0
    BY ProviderAssumption DEF TypeOK
  <2>2. clock' = clock /\ jobs' = jobs
    BY ActRest
  <2> QED
    BY <2>1, <2>2, Fields
<1>3. \A row \in rn[r].rows : row[1] \in Jobs /\ jobs[row[1]].at # 0
  BY <1>2 DEF RunInv
<1>4. CASE Load(r)
  <2>1. /\ rn'[r].pc = "collect" /\ rn'[r].before = Len(checkpoint) /\ rn'[r].end = rn[r].end
        /\ rn'[r].rows = rn[r].rows
    BY <1>4, Loaded
  <2>2. checkpoint' = checkpoint /\ Len(checkpoint) \in Nat
    BY <1>4 DEF Load, TypeOK
  <2> QED
    BY <1>2, <1>3, <2>1, <2>2 DEF RunInv, Stamped, Collected, Evident
<1>5. ASSUME NEW J \in SUBSET Jobs, NEW partial \in BOOLEAN, Collect(r, J, partial) PROVE RunInv(r)'
  <2>1. /\ rn'[r].pc = "stamp" /\ rn'[r].before = rn[r].before /\ rn'[r].end = clock
        /\ rn'[r].rows = Observed(J)
    BY <1>5, Gathered
  <2>2. checkpoint' = checkpoint
    BY <1>5 DEF Collect
  <2>3. \A j \in J : jobs[j].at # 0
    BY <1>5 DEF Collect, Oldest, Asked, Recent
  <2>4. \A row \in Observed(J) : row[1] \in J
    BY DEF Observed
  <2> QED
    BY <1>2, <2>1, <2>2, <2>3, <2>4 DEF RunInv, Stamped, Collected, Evident
<1>6. CASE Retry(r)
  BY <1>1, <1>6, Retried, RunSteered DEF Stamped, Collected, Evident
<1>7. CASE Stamp(r)
  <2>1. /\ rn'[r].pc = "bulk" /\ rn'[r].before = rn[r].before /\ rn'[r].end = rn[r].end
        /\ rn'[r].rows = rn[r].rows /\ rn'[r].after = clock /\ rn'[r].left = rn[r].rows
    BY <1>7, Stamps
  <2>2. checkpoint' = checkpoint /\ Len(checkpoint) \in Nat
    BY <1>7 DEF Stamp, TypeOK
  <2>3. rn[r].before > 0 => checkpoint[rn[r].before].watermark <= clock
    BY <1>2, <2>2 DEF RunInv, Versions, VersionInv
  <2>4. rn'[r].before <= Len(checkpoint') /\ rn'[r].end <= clock'
    BY <1>2, <2>1, <2>2 DEF RunInv
  <2>5. \A row \in rn'[r].rows : jobs'[row[1]].at # 0
    BY <1>2, <1>3, <2>1
  <2> QED
    BY <1>2, <2>1, <2>2, <2>3, <2>4, <2>5 DEF RunInv, Stamped, Collected, Evident
<1>8. ASSUME NEW B, Bulk(r, B) PROVE RunInv(r)'
  <2>1. /\ rn'[r].pc = "bulk" /\ rn'[r].before = rn[r].before /\ rn'[r].end = rn[r].end
        /\ rn'[r].rows = rn[r].rows /\ rn'[r].after = rn[r].after /\ rn'[r].left = rn[r].left \ B
    BY <1>8, Bulked
  <2>2. checkpoint' = checkpoint /\ rn[r].pc = "bulk" /\ Create(B)
    BY <1>8 DEF Bulk, At
  <2>3. \A row \in B : row \in Jobs \X States => stored'[row[1]] # "none"
    BY <2>2, CreateType
  <2>4. \A row \in rn[r].rows \ rn[r].left : stored'[row[1]] # "none"
    BY <1>1, <1>3, <2>2 DEF RunInv, Grows
  <2>5. \A row \in rn'[r].rows \ rn'[r].left : stored'[row[1]] # "none"
    BY <1>2, <2>1, <2>3, <2>4
  <2> QED
    BY <1>2, <2>1, <2>2, <2>5 DEF RunInv, Stamped, Collected, Evident
<1>9. CASE (\E B, C : BulkFails(r, B, C)) \/ Abort(r)
  BY <1>1, <1>9, Steered, RunSteered DEF Stamped, Collected, Evident
<1>10. CASE Persisted(r)
  <2>1. SameBut(r, "document") /\ rn[r].pc = "bulk" /\ rn[r].left = {} /\ stored' = stored
    BY <1>10, Steered DEF Persisted, At
  <2>2. \A row \in rn[r].rows : stored'[row[1]] # "none"
    BY <2>1 DEF RunInv
  <2> QED
    BY <1>1, <2>1, <2>2, RunSteered DEF Stamped, Collected, Evident
<1>11. CASE PersistRun(r)
  <2>1. SameBut(r, "save") /\ rn[r].pc = "document" /\ r \in rundocs' /\ stored' = stored
    BY <1>11, Steered DEF PersistRun, At
  <2>2. \A row \in rn[r].rows : stored'[row[1]] # "none"
    BY <2>1 DEF RunInv, Evident
  <2> QED
    BY <1>1, <2>1, <2>2, RunSteered DEF Stamped, Collected, Evident
<1>12. CASE Expect(r) \/ WriteCheckpoint(r)
  <2>1. /\ SameBut(r, "failed") \/ SameBut(r, "write") \/ SameBut(r, "saved")
        /\ rn[r].pc \in {"save", "write"} /\ UNCHANGED <<stored, rundocs>>
    BY <1>12, Steered DEF Expect, WriteCheckpoint, At
  <2>2. (\A row \in rn[r].rows : stored'[row[1]] # "none") /\ r \in rundocs'
    BY <2>1 DEF RunInv, Evident
  <2> QED
    BY <1>1, <2>1, <2>2, RunSteered DEF Stamped, Collected, Evident
<1> QED
  BY <1>4, <1>5, <1>6, <1>7, <1>8, <1>9, <1>10, <1>11, <1>12 DEF Acts, Execute

\* A version stays what it is; a new one is the next, by the run that writes it.
LEMMA VersionKept ==
  ASSUME TypeOK, Grows, NEW n \in Versions, VersionInv(n),
         rn'[checkpoint[n].run] = rn[checkpoint[n].run]
  PROVE  VersionInv(n)'
<1>1. checkpoint'[n] = checkpoint[n] /\ (n > 1 => checkpoint'[n - 1] = checkpoint[n - 1])
  BY VersionType DEF Grows, Versions
<1>2. checkpoint[n].watermark \in Nat /\ clock \in Nat /\ clock' \in Nat /\ clock <= clock'
  BY VersionType DEF Grows
<1> QED
  BY <1>1, <1>2 DEF VersionInv

LEMMA ActVersions ==
  ASSUME IInv, NEW r \in Runs, Acts(r)
  PROVE  \A n \in Versions' : VersionInv(n)'
<1>0. TypeOK /\ RunInv(r) /\ Grows /\ \A n \in Versions : VersionInv(n)
  BY ActGrows DEF IInv
<1>1. \A n \in Versions : VersionInv(n)'
  <2> SUFFICES ASSUME NEW n \in Versions PROVE VersionInv(n)'
    OBVIOUS
  <2>1. checkpoint[n].run \in Runs /\ rn[checkpoint[n].run].pc = "saved" /\ VersionInv(n)
    BY <1>0, VersionType DEF VersionInv
  <2>2. rn'[checkpoint[n].run] = rn[checkpoint[n].run]
    BY <1>0, <2>1, ActRun DEF Others
  <2> QED
    BY <1>0, <2>1, <2>2, VersionKept
<1>2. CASE checkpoint' = checkpoint
  BY <1>1, <1>2 DEF Versions
<1>3. CASE checkpoint' # checkpoint
  <2>1. /\ rn[r].pc = "write" /\ rn'[r].pc = "saved" /\ Len(checkpoint) = rn[r].before
        /\ SameBut(r, "saved") /\ clock' = clock
        /\ checkpoint' = Append(checkpoint, [run |-> r, watermark |-> rn[r].after])
    BY <1>0, <1>3, ActRest
  <2>2. rn[r].after \in 1..MaxTime /\ rn[r].after <= clock
    BY <1>0, <2>1, Fields, ProviderAssumption DEF RunInv, Stamped, Collected
  <2>3. PICK k \in Nat : k = Len(checkpoint)
    BY <1>0 DEF Grows
  <2>4. PICK m \in Nat : m = k + 1
    OBVIOUS
  <2>5. m - 1 = k /\ (m > 1 => k > 0) /\ m \in Nat
    BY <2>4
  <2>6. Len(checkpoint') = m /\ checkpoint'[m] = [run |-> r, watermark |-> rn[r].after]
    BY <1>0, <2>1, <2>2, <2>3, <2>4, Appended
  <2>7. k > 0 => checkpoint'[k].watermark <= rn[r].after
    BY <1>0, <2>1, <2>3 DEF RunInv, Stamped, Collected, Grows, Versions
  <2>8. checkpoint'[m].run = r /\ checkpoint'[m].watermark = rn[r].after
    BY <2>6
  <2>9. rn'[r].before = k
    BY <2>1, <2>3 DEF SameBut
  <2>10. VersionInv(m)'
    BY <2>1, <2>2, <2>5, <2>7, <2>8, <2>9 DEF VersionInv
  <2>11. Versions' = Versions \cup {m}
    BY <2>3, <2>4, <2>6 DEF Versions
  <2> QED
    BY <1>1, <2>10, <2>11
<1> QED
  BY <1>2, <1>3

-----------------------------------------------------------------------------
(* The invariant, and that the checkpoint moves on evidence and in turn.   *)

LEMMA InitInv == Init => IInv /\ WindowInv
<1> SUFFICES ASSUME Init PROVE IInv /\ WindowInv
  OBVIOUS
<1>1. TypeOK
  BY InitType
<1>2. Versions = {} /\ Len(checkpoint) = 0
  BY DEF Init, Versions
<1>3. \A r \in Runs : /\ rn[r].pc = "new" /\ rn[r].before = 0 /\ rn[r].end = 0
                      /\ rn[r].rows = {}
  BY DEF Init, NewRun
<1>4. clock = 1
  BY DEF Init
<1>5. \A r \in Runs : RunInv(r)
  BY <1>2, <1>3, <1>4 DEF RunInv, Stamped, Evident, Collected
<1>6. \A r \in Runs : CoverInv(r)
  BY <1>3 DEF CoverInv, Collected
<1> QED
  BY <1>1, <1>2, <1>5, <1>6 DEF IInv, WindowInv

\* Every step grows the state.
LEMMA NextGrows ==
  ASSUME IInv, Next
  PROVE  Grows
<1>1. CASE Tick \/ \E j \in Jobs : Start(j) \/ End(j)
  BY <1>1, PlatformGrows DEF IInv
<1>2. CASE \E r \in Runs : Acts(r)
  BY <1>2, ActGrows DEF IInv
<1> QED
  BY <1>1, <1>2 DEF Next, Acts

LEMMA NextInv == IInv /\ [Next]_vars => IInv'
<1> SUFFICES ASSUME IInv, [Next]_vars PROVE IInv'
  OBVIOUS
<1>0. TypeOK /\ (\A r \in Runs : RunInv(r)) /\ \A n \in Versions : VersionInv(n)
  BY DEF IInv
<1>1. CASE Tick \/ \E j \in Jobs : Start(j) \/ End(j)
  <2>1. Grows /\ TypeOK' /\ rn' = rn /\ UNCHANGED <<checkpoint, stored>>
    BY <1>0, <1>1, PlatformGrows
  <2>2. \A r \in Runs : RunInv(r)'
    BY <1>0, <2>1, RunKept
  <2>3. \A n \in Versions : VersionInv(n)'
    BY <1>0, <2>1, VersionKept
  <2> QED
    BY <2>1, <2>2, <2>3 DEF IInv, Versions
<1>2. ASSUME NEW r \in Runs, Acts(r) PROVE IInv'
  <2>1. TypeOK' /\ RunInv(r)' /\ Grows
    BY <1>0, <1>2, ActType, ActRunInv, ActGrows
  <2>2. \A q \in Runs : q # r => rn'[q] = rn[q]
    BY <1>0, <1>2, ActRun DEF Others
  <2>3. \A q \in Runs : RunInv(q)'
    BY <1>0, <2>1, <2>2, RunKept
  <2> QED
    BY <1>2, <2>1, <2>3, ActVersions DEF IInv
<1>3. CASE UNCHANGED vars
  BY <1>3 DEF IInv, TypeOK, Versions, RunInv, VersionInv, vars
<1> QED
  BY <1>1, <1>2, <1>3 DEF Next, Acts

\* Clock, checkpoint, observations and runs have the types TypeOK gives them: in
\* particular the watermark a checkpoint carries is a time that has been.
THEOREM ProviderTypeCorrect == Spec => []TypeOK
<1>1. IInv => TypeOK
  BY DEF IInv
<1> QED
  BY <1>1, InitInv, NextInv, PTL DEF Spec

\* execute and save_checkpoint of the provider runtime: whatever fails and
\* however runs overlap, a version of the checkpoint is made by one run that
\* loaded the version before it, has its run document and all its observations
\* in the store, and does not move the watermark back.
THEOREM CheckpointBacked == Spec => []AdvanceIsBacked
<1>1. ASSUME IInv PROVE AdvanceIsBacked
  <2> SUFFICES ASSUME NEW n \in Versions
               PROVE  /\ checkpoint[n].run \in rundocs
                      /\ \A row \in rn[checkpoint[n].run].rows : stored[row[1]] # "none"
                      /\ rn[checkpoint[n].run].before = n - 1
                      /\ n > 1 => checkpoint[n - 1].watermark <= checkpoint[n].watermark
    BY DEF AdvanceIsBacked, AdvanceHasEvidence, AdvanceIsInTurn, Versions
  <2>1. VersionInv(n) /\ checkpoint[n].run \in Runs
    BY <1>1, VersionType DEF IInv
  <2>2. rn[checkpoint[n].run].pc = "saved" /\ RunInv(checkpoint[n].run)
    BY <1>1, <2>1 DEF IInv, VersionInv
  <2> QED
    BY <2>1, <2>2 DEF RunInv, VersionInv, Evident
<1> QED
  BY <1>1, InitInv, NextInv, PTL DEF Spec

-----------------------------------------------------------------------------
(* What is skipped.                                                        *)

LEMMA ObservedSize ==
  ASSUME NEW J, IsFiniteSet(J)
  PROVE  Cardinality(Observed(J)) = Cardinality(J) /\ \A row \in Observed(J) : row[1] \in J
<1> DEFINE f == [j \in J |-> <<j, IF jobs[j].done THEN "done" ELSE "running">>]
<1>1. f \in Bijection(J, Observed(J))
  <2>1. \A j \in J : f[j] = <<j, IF jobs[j].done THEN "done" ELSE "running">>
    OBVIOUS
  <2>2. \A j \in J : f[j] \in Observed(J) /\ f[j][1] = j
    BY <2>1 DEF Observed
  <2>3. \A row \in Observed(J) : \E j \in J : f[j] = row
    BY <2>1 DEF Observed
  <2>4. f \in [J -> Observed(J)] /\ DOMAIN f = J
    BY <2>2
  <2> HIDE DEF f
  <2>5. \A i, j \in J : f[i] = f[j] => i = j
    BY <2>2
  <2> QED
    BY <2>3, <2>4, <2>5 DEF Bijection, Injection, Surjection, IsInjective
<1>2. ExistsBijection(J, Observed(J))
  BY <1>1 DEF ExistsBijection
<1> QED
  BY <1>2, FS_Bijection DEF Observed

\* A reason for skipping a job stays one.
LEMMA ExplainsKept ==
  ASSUME TypeOK, Grows, NEW r \in Runs, RunInv(r), NEW j \in Jobs, jobs[j].at # 0,
         rn'[r].before = rn[r].before, rn'[r].end = rn[r].end, rn'[r].rows = rn[r].rows,
         rn'[r].partial = rn[r].partial,
         rn'[r].after = rn[r].after \/ jobs[j].at < rn[r].end,
         Explains(r, j)
  PROVE  Explains(r, j)'
<1>1. jobs'[j].at = jobs[j].at /\ jobs[j].at \in Nat /\ rn[r].end \in Nat
  BY Fields DEF Grows
<1>2. \A row \in rn[r].rows : row[1] \in Jobs
  BY Fields
<1>3. \A row \in rn[r].rows : jobs'[row[1]].at = jobs[row[1]].at
  BY <1>2 DEF RunInv, Grows
<1>4. CASE rn[r].end <= jobs[j].at /\ jobs[j].at < rn[r].after
  BY <1>1, <1>4 DEF Explains
<1>5. CASE rn[r].partial
  BY <1>5 DEF Explains
<1>6. CASE FromWatermark /\ Cardinality(rn[r].rows) = Limit /\ \A row \in rn[r].rows : jobs[row[1]].at <= jobs[j].at
  BY <1>1, <1>3, <1>6 DEF Explains
<1>7. CASE (rn[r].before = 0 \/ ~FromWatermark) /\ jobs[j].at + Lookback < rn[r].end
  BY <1>1, <1>7 DEF Explains
<1> QED
  BY <1>4, <1>5, <1>6, <1>7 DEF Explains

LEMMA CoverKept ==
  ASSUME TypeOK, Grows, NEW r \in Runs, RunInv(r), CoverInv(r),
         rn'[r].before = rn[r].before, rn'[r].end = rn[r].end, rn'[r].rows = rn[r].rows,
         rn'[r].partial = rn[r].partial,
         rn'[r].pc \in Collected => rn[r].pc \in Collected
  PROVE  CoverInv(r)'
<1> SUFFICES ASSUME rn[r].pc \in Collected, NEW j \in Jobs, jobs'[j].at # 0, jobs'[j].at < rn[r].end
             PROVE  Missed(r, j)' \/ \E row \in rn[r].rows : row[1] = j
  BY DEF CoverInv
<1>1. rn[r].end \in Nat /\ rn[r].end <= clock /\ rn[r].before \in Nat
  BY Fields DEF RunInv
<1>2. jobs'[j].at = jobs[j].at
  BY <1>1 DEF Grows
<1>3. Missed(r, j) \/ \E row \in rn[r].rows : row[1] = j
  BY <1>2 DEF CoverInv
<1>4. CASE rn[r].before > 0 /\ jobs[j].at < checkpoint[rn[r].before].watermark
  <2>1. checkpoint'[rn[r].before] = checkpoint[rn[r].before]
    BY <1>1, <1>4 DEF RunInv, Grows, Versions
  <2> QED
    BY <1>2, <1>4, <2>1 DEF Missed
<1>5. CASE Explains(r, j)
  BY <1>2, <1>5, ExplainsKept DEF Missed
<1> QED
  BY <1>3, <1>4, <1>5 DEF Missed

\* A collection takes every job it asks for that had started before its end, the
\* oldest up to the limit; one it does not ask for is older than the watermark or
\* beyond its lookback.
LEMMA CollectCovers ==
  ASSUME TypeOK, NEW r \in Runs, RunInv(r), NEW J \in SUBSET Jobs,
         NEW partial \in BOOLEAN, Collect(r, J, partial)
  PROVE  CoverInv(r)'
<1>1. /\ rn'[r].pc = "stamp" /\ rn'[r].before = rn[r].before /\ rn'[r].end = clock
      /\ rn'[r].rows = Observed(J) /\ rn'[r].partial = partial
  BY Gathered
<1>2. jobs' = jobs /\ checkpoint' = checkpoint
  BY DEF Collect
<1> SUFFICES ASSUME NEW j \in Jobs, jobs[j].at # 0, jobs[j].at < clock
             PROVE  Missed(r, j)' \/ \E row \in Observed(J) : row[1] = j
  BY <1>1, <1>2 DEF CoverInv
<1>3. jobs[j].at \in Nat /\ clock \in Nat /\ rn[r].before \in Nat /\ Lookback \in Nat
  BY JobType, Fields, ProviderAssumption DEF TypeOK
<1>4. CASE FromWatermark /\ ~SinceWatermark(r, j)
  <2>1. CASE rn[r].before = 0
    <3>1. jobs[j].at + Lookback < clock
      BY <1>3, <1>4, <2>1 DEF SinceWatermark, Recent
    <3> QED
      BY <1>1, <1>2, <2>1, <3>1 DEF Missed, Explains
  <2>2. CASE rn[r].before # 0
    <3>1. ~(jobs[j].at >= checkpoint[rn[r].before].watermark)
      BY <1>4, <2>2 DEF SinceWatermark
    <3>2. rn[r].before > 0
      BY <1>3, <2>2
    <3>3. rn[r].before \in Versions
      BY <1>3, <3>2 DEF RunInv, Versions, TypeOK
    <3>4. jobs[j].at < checkpoint[rn[r].before].watermark
      BY <1>3, <3>1, <3>3, VersionType
    <3> QED
      BY <1>1, <1>2, <3>2, <3>4 DEF Missed
  <2> QED
    BY <2>1, <2>2
<1>5. CASE ~FromWatermark /\ ~Recent(j)
  <2>1. jobs[j].at + Lookback < clock
    BY <1>3, <1>5 DEF Recent
  <2> QED
    BY <1>1, <1>2, <1>5, <2>1 DEF Missed, Explains
<1>6. CASE IF FromWatermark THEN SinceWatermark(r, j) ELSE Recent(j)
  <2> DEFINE W == Asked(r)
  <2>1. j \in W /\ W \subseteq Jobs
    BY <1>6 DEF Asked
  <2>2. IsFiniteSet(W) /\ J \subseteq W /\ IsFiniteSet(J)
    BY <2>1, FS_Subset, ProviderAssumption DEF Collect, Oldest
  <2>3. CASE j \in J
    <3>1. <<j, IF jobs[j].done THEN "done" ELSE "running">> \in Observed(J)
      BY <2>3 DEF Observed
    <3> QED
      BY <3>1
  <2>4. CASE j \notin J /\ partial
    BY <1>1, <2>4 DEF Missed, Explains
  <2>5. CASE j \notin J /\ ~partial
    <3>1. Cardinality(J) = Size(W)
      BY <2>5 DEF Collect
    <3>2. Cardinality(J) # Cardinality(W)
      BY <2>1, <2>2, <2>5, FS_Subset
    <3>3. FromWatermark /\ Cardinality(J) = Limit
      BY <3>1, <3>2 DEF Size
    <3>4. \A i \in J : jobs[i].at <= jobs[j].at
      BY <2>1, <2>5 DEF Collect, Oldest
    <3>5. Cardinality(Observed(J)) = Limit /\ \A row \in Observed(J) : row[1] \in J
      BY <2>2, <3>3, ObservedSize
    <3> QED
      BY <1>1, <1>2, <3>3, <3>4, <3>5 DEF Missed, Explains
  <2> QED
    BY <2>3, <2>4, <2>5
<1> QED
  BY <1>4, <1>5, <1>6

LEMMA ActCover ==
  ASSUME IInv, NEW r \in Runs, CoverInv(r), Acts(r)
  PROVE  CoverInv(r)'
<1>0. TypeOK /\ RunInv(r) /\ Grows
  BY ActGrows DEF IInv
<1>1. CASE Load(r)
  <2>1. rn'[r].pc = "collect"
    BY <1>0, <1>1, Loaded
  <2> QED
    BY <2>1 DEF CoverInv, Collected
<1>2. CASE \E J \in SUBSET Jobs, partial \in BOOLEAN : Collect(r, J, partial)
  BY <1>0, <1>2, CollectCovers
<1>3. CASE ~Load(r) /\ ~\E J \in SUBSET Jobs, partial \in BOOLEAN : Collect(r, J, partial)
  <2>1. /\ rn'[r].before = rn[r].before /\ rn'[r].end = rn[r].end /\ rn'[r].rows = rn[r].rows
        /\ rn'[r].partial = rn[r].partial
    BY <1>0, <1>3, Retried, Stamps, Bulked, Steered DEF Acts, Execute, SameBut
  <2>2. rn[r].pc \in Collected \/ Retry(r) \/ Abort(r)
    BY <1>3 DEF Acts, Execute, Stamp, Bulk, BulkFails, Persisted, PersistRun, Expect, WriteCheckpoint,
       At, Collected
  <2>3. Retry(r) \/ Abort(r) => rn'[r].pc \in {"collect", "failed"}
    BY <1>0, Retried, Steered DEF SameBut
  <2> QED
    BY <1>0, <2>1, <2>2, <2>3, CoverKept DEF Collected
<1> QED
  BY <1>1, <1>2, <1>3

LEMMA SkipKept ==
  ASSUME IInv, Grows, \A n \in Versions : rn'[checkpoint[n].run] = rn[checkpoint[n].run],
         NEW n \in Versions, SkipInv(n)
  PROVE  SkipInv(n)'
<1>0. TypeOK /\ (\A r \in Runs : RunInv(r)) /\ VersionInv(n)
  BY DEF IInv
<1>1. checkpoint'[n] = checkpoint[n] /\ checkpoint[n].watermark \in Nat /\ checkpoint[n].watermark <= clock
  BY <1>0, VersionType DEF Grows, VersionInv
<1> SUFFICES ASSUME NEW j \in Jobs, stored'[j] = "none", jobs'[j].at # 0,
                    jobs'[j].at < checkpoint[n].watermark
             PROVE  \E m \in 1..n : Explains(checkpoint[m].run, j)'
  BY <1>1 DEF SkipInv
<1>2. stored[j] = "none" /\ jobs'[j].at = jobs[j].at
  BY <1>1 DEF Grows
<1>3. PICK m \in 1..n : Explains(checkpoint[m].run, j)
  BY <1>2 DEF SkipInv
<1>4. m \in Versions
  BY <1>0, VersionType DEF Versions
<1>5. PICK q \in Runs : q = checkpoint[m].run
  BY <1>0, <1>4, VersionType
<1>6. rn'[q] = rn[q] /\ RunInv(q) /\ Explains(q, j)
  BY <1>0, <1>3, <1>4, <1>5
<1>7. Explains(q, j)'
  BY <1>0, <1>2, <1>6, ExplainsKept
<1>8. checkpoint'[m] = checkpoint[m]
  BY <1>4 DEF Grows
<1>9. Explains(checkpoint[m].run, j)'
  BY <1>5, <1>7, <1>8
<1> QED
  BY <1>9

\* A version that a run adds: what it did not collect and does not explain lies
\* before the watermark it had loaded.
LEMMA SkipAdded ==
  ASSUME IInv, IInv', NEW r \in Runs, Acts(r), checkpoint' # checkpoint, CoverInv(r)',
         \A n \in Versions : SkipInv(n)'
  PROVE  \A n \in Versions' : SkipInv(n)'
<1>0. TypeOK /\ RunInv(r) /\ Grows /\ RunInv(r)' /\ TypeOK'
  BY ActGrows DEF IInv
<1>1. /\ rn[r].pc = "write" /\ rn'[r].pc = "saved" /\ Len(checkpoint) = rn[r].before
      /\ SameBut(r, "saved")
      /\ checkpoint' = Append(checkpoint, [run |-> r, watermark |-> rn[r].after])
  BY <1>0, ActRest
<1>2. rn[r].after \in 1..MaxTime
  BY <1>0, <1>1, Fields, ProviderAssumption DEF RunInv, Stamped, Collected
<1>3. PICK k \in Nat : k = Len(checkpoint)
  BY <1>0 DEF Grows
<1>4. PICK m \in Nat : m = k + 1
  OBVIOUS
<1>5. Len(checkpoint') = m /\ checkpoint'[m] = [run |-> r, watermark |-> rn[r].after]
  BY <1>0, <1>1, <1>2, <1>3, <1>4, Appended
<1>6. /\ checkpoint'[m].run = r /\ checkpoint'[m].watermark = rn'[r].after
      /\ rn'[r].before = k
  BY <1>1, <1>3, <1>5 DEF SameBut
<1>7. SkipInv(m)'
  <2> SUFFICES ASSUME NEW j \in Jobs, stored'[j] = "none", jobs'[j].at # 0,
                      jobs'[j].at < rn'[r].after
               PROVE  \E i \in 1..m : Explains(checkpoint[i].run, j)'
    BY <1>6 DEF SkipInv
  <2>0. jobs'[j].at \in Nat /\ rn'[r].end \in Nat
    BY <1>0, Fields, <1>1 DEF Grows, SameBut
  <2>1. CASE Explains(r, j)'
    <3>1. Explains(checkpoint[m].run, j)'
      BY <1>6, <2>1
    <3> QED
      BY <1>4, <3>1
  <2>2. CASE ~Explains(r, j)'
    <3>1. jobs'[j].at < rn'[r].end
      BY <2>0, <2>2 DEF Explains
    <3>2. ~\E row \in rn'[r].rows : row[1] = j
      BY <1>0, <1>1 DEF RunInv, Evident
    <3>3. k > 0 /\ jobs'[j].at < checkpoint'[k].watermark
      BY <1>1, <1>6, <2>2, <3>1, <3>2 DEF CoverInv, Missed, Collected
    <3>4. k \in Versions
      BY <1>3, <3>3 DEF Versions
    <3>5. PICK i \in 1..k : Explains(checkpoint[i].run, j)'
      BY <3>3, <3>4 DEF SkipInv
    <3> QED
      BY <1>4, <3>5
  <2> QED
    BY <2>1, <2>2
<1>8. Versions' = Versions \cup {m}
  BY <1>3, <1>4, <1>5 DEF Versions
<1> QED
  BY <1>7, <1>8

LEMMA NextWindow ==
  ASSUME IInv, IInv', WindowInv, [Next]_vars
  PROVE  WindowInv'
<1>0. /\ TypeOK /\ (\A r \in Runs : RunInv(r)) /\ (\A n \in Versions : VersionInv(n))
      /\ (\A r \in Runs : CoverInv(r)) /\ \A n \in Versions : SkipInv(n)
  BY DEF IInv, WindowInv
<1>1. CASE Tick \/ \E j \in Jobs : Start(j) \/ End(j)
  <2>1. Grows /\ rn' = rn /\ checkpoint' = checkpoint
    BY <1>0, <1>1, PlatformGrows
  <2>2. \A r \in Runs : CoverInv(r)'
    BY <1>0, <2>1, CoverKept
  <2>3. \A n \in Versions : SkipInv(n)'
    BY <1>0, <2>1, SkipKept
  <2> QED
    BY <2>1, <2>2, <2>3 DEF WindowInv, Versions
<1>2. ASSUME NEW r \in Runs, Acts(r) PROVE WindowInv'
  <2>1. Grows /\ rn[r].pc # "saved" /\ \A q \in Runs : q # r => rn'[q] = rn[q]
    BY <1>0, <1>2, ActGrows, ActRun DEF Others
  <2>2. CoverInv(r)'
    BY <1>0, <1>2, ActCover
  <2>3. \A q \in Runs : CoverInv(q)'
    BY <1>0, <2>1, <2>2, CoverKept
  <2>4. \A n \in Versions : rn'[checkpoint[n].run] = rn[checkpoint[n].run]
    BY <1>0, <2>1, VersionType DEF VersionInv
  <2>5. \A n \in Versions : SkipInv(n)'
    BY <1>0, <2>1, <2>4, SkipKept
  <2>6. \A n \in Versions' : SkipInv(n)'
    <3>1. CASE checkpoint' = checkpoint
      BY <2>5, <3>1 DEF Versions
    <3>2. CASE checkpoint' # checkpoint
      BY <1>2, <2>2, <2>5, <3>2, SkipAdded
    <3> QED
      BY <3>1, <3>2
  <2> QED
    BY <2>3, <2>6 DEF WindowInv
<1>3. CASE UNCHANGED vars
  BY <1>3 DEF WindowInv, Versions, CoverInv, Missed, SkipInv, Explains, vars
<1> QED
  BY <1>1, <1>2, <1>3 DEF Next, Acts

\* A job that started before the last watermark and has no observation fell into a
\* gap of a run that advanced the checkpoint, whether the provider asks from the
\* watermark on or looks back, for every limit, lookback and overlap of runs.
THEOREM SkippedExplained == Spec => []SkippedIsExplained
<1>1. ASSUME IInv, WindowInv PROVE SkippedIsExplained
  <2> SUFFICES ASSUME NEW j \in Jobs, checkpoint # <<>>, stored[j] = "none", jobs[j].at # 0,
                      jobs[j].at < checkpoint[Len(checkpoint)].watermark
               PROVE  \E n \in 1..Len(checkpoint) : Explains(checkpoint[n].run, j)
    BY DEF SkippedIsExplained
  <2>1. Len(checkpoint) \in Versions
    BY <1>1 DEF IInv, TypeOK, Versions
  <2> QED
    BY <1>1, <2>1 DEF WindowInv, SkipInv
<1>2. IInv /\ WindowInv /\ [Next]_vars => IInv' /\ WindowInv'
  BY NextInv, NextWindow
<1> QED
  BY <1>1, <1>2, InitInv, PTL DEF Spec
=============================================================================
