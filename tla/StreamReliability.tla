-------------------------- MODULE StreamReliability -------------------------
(***************************************************************************)
(* The reliability worker of the Kafka observer                            *)
(* (services/kafka_observer/reliability_*.py, packages/streaming/          *)
(* reliability.py): workers of one tenant and environment take turns under *)
(* a lease with a fencing token.  A cycle evaluates each definition that   *)
(* is due and writes the evaluation, the current status, a transition      *)
(* signal and the definition's checkpoint, in this order, each after a     *)
(* look at the fence.  Operators edit definitions through the API.         *)
(*                                                                         *)
(* What is abstracted:                                                     *)
(*   - a cycle's time is its number, taken with the lease: a worker that   *)
(*     stalls between the clock and the lease takes one that has run out.  *)
(*     Evaluations are identified by the time of their cycle.              *)
(*   - the lease runs out at any time.                                     *)
(*   - an enabled definition is due in every cycle.                        *)
(*   - an observation is what evaluate makes of it: it breaches the        *)
(*     threshold, meets it, is missing or is stale.                        *)
(*   - the versions of the current status are kept; the sequence number is *)
(*     the number of the version.  A definition counts its versions.       *)
(*   - cycle health, which nothing reads back, is not kept.                *)
(***************************************************************************)
EXTENDS Naturals, Sequences

CONSTANTS Definitions,   \* reliability definitions of the scope
          Workers,       \* worker processes, each with a worker_id of its own
          Operators,     \* API requests in flight
          Observations,  \* what observations turn out to be
          Required,      \* required_consecutive_breaches
          Recovery,      \* recovery_evaluation_count
          MissingPolicy, \* missing_data_policy
          Nobody,        \* owner of a lease never taken
          NoDefinition,  \* definition of an idle process
          MaxCycles,     \* bound: leases taken
          MaxFaults,     \* bound: failed calls and crashes
          MaxEdits       \* bound: edits of definitions

ASSUME ReliabilityAssumption ==
  /\ Observations \subseteq {"breach", "met", "missing", "stale"}
  /\ Required \in Nat \ {0} /\ Recovery \in Nat \ {0}
  /\ MissingPolicy \in {"no_data", "breach", "ignore"}
  /\ Nobody \notin Workers /\ NoDefinition \notin Definitions
  /\ MaxCycles \in Nat /\ MaxFaults \in Nat /\ MaxEdits \in Nat

Status == {"healthy", "warning", "breaching", "recovering", "no_data", "stale"}
Evaluation == [at: Nat, prev: Status, status: Status, breaches: Nat, recoveries: Nat]
NoEvaluation == [at |-> 0, prev |-> "no_data", status |-> "no_data",
                 breaches |-> 0, recoveries |-> 0]

VARIABLES
  lease,    \* durable: owner, fencing token and whether it has not run out
  defs,     \* durable: definition -> enabled, latest evaluation, version
  evals,    \* durable: definition -> its evaluations
  shown,    \* those a search sees
  status,   \* durable: definition -> the versions of its current status
  signals,  \* durable: definition -> transition signals
  wk,       \* worker -> its step and what it works with:
            \*   token, now  of its cycle
            \*   todo        due definitions it has not come to
            \*   def, ev     the definition and its evaluation
            \*   ver         the version it has read
  edit,     \* operator -> the document it has read and the switch it asks for
  raced,    \* history: what a race may have spoiled: "transition" once a worker
            \* has read the token of another's lease, has searched before the
            \* last evaluation was to be seen or has written one after its lease
            \* had run out; "status" once it has read another's token or has
            \* read the status to replace after its lease had run out
  clock,    \* leases taken so far
  faults,   \* failed calls and crashes so far
  edits     \* edits so far

documents == <<defs, evals, shown, status, signals>>
vars == <<lease, documents, wk, edit, raced, clock, faults, edits>>

Steps == {"idle", "token", "due", "next", "observe",
          "persistFence", "persist", "refresh",
          "projectFence", "projectGet", "project",
          "signalFence", "signal", "checkpointFence", "checkpointGet", "checkpoint"}
Idle == [pc |-> "idle", token |-> 0, now |-> 0, todo |-> {}, def |-> NoDefinition,
         ev |-> NoEvaluation, ver |-> 0]
NoEdit == [def |-> NoDefinition, doc |-> [on |-> FALSE, latest |-> 0, ver |-> 0], on |-> FALSE]
Definition == [on: BOOLEAN, latest: Nat, ver: Nat]
WorkerState ==
  [pc: Steps, token: 0..MaxCycles, now: 0..MaxCycles, todo: SUBSET Definitions,
   def: Definitions \cup {NoDefinition}, ev: Evaluation, ver: Nat]
EditState == [def: Definitions \cup {NoDefinition}, doc: Definition, on: BOOLEAN]

TypeOK ==
  /\ lease \in [owner: Workers \cup {Nobody}, token: 0..MaxCycles, live: BOOLEAN]
  /\ defs \in [Definitions -> Definition]
  /\ evals \in [Definitions -> SUBSET Evaluation]
  /\ shown \in [Definitions -> SUBSET Evaluation]
  /\ status \in [Definitions -> Seq(Evaluation)]
  /\ signals \in [Definitions -> SUBSET ({"breach", "recovery"} \X Nat)]
  /\ wk \in [Workers -> WorkerState]
  /\ edit \in [Operators -> EditState]
  /\ raced \subseteq {"transition", "status"}
  /\ clock \in 0..MaxCycles /\ faults \in 0..MaxFaults /\ edits \in 0..MaxEdits

Init ==
  /\ lease = [owner |-> Nobody, token |-> 0, live |-> FALSE]
  /\ defs = [d \in Definitions |-> [on |-> TRUE, latest |-> 0, ver |-> 1]]
  /\ evals = [d \in Definitions |-> {}]
  /\ shown = [d \in Definitions |-> {}]
  /\ status = [d \in Definitions |-> <<>>]
  /\ signals = [d \in Definitions |-> {}]
  /\ wk = [w \in Workers |-> Idle]
  /\ edit = [o \in Operators |-> NoEdit]
  /\ raced = {}
  /\ clock = 0 /\ faults = 0 /\ edits = 0

-----------------------------------------------------------------------------
At(w, step) == wk[w].pc = step
Go(w, step) == wk' = [wk EXCEPT ![w].pc = step]
\* The definition is done, or has failed: the cycle takes the next.
Left(w) == [wk[w] EXCEPT !.pc = "next", !.def = NoDefinition, !.ev = NoEvaluation, !.ver = 0]
Current(d) == IF status[d] = <<>> THEN NoEvaluation ELSE status[d][Len(status[d])]

\* acquire: the lease has run out or is the worker's own, perhaps from before
\* a restart.  The update issues the next token; a second call reads it.
Acquire(w) ==
  /\ At(w, "idle")
  /\ ~lease.live \/ lease.owner = w
  /\ clock < MaxCycles /\ clock' = clock + 1
  /\ lease' = [owner |-> w, token |-> lease.token + 1, live |-> TRUE]
  /\ wk' = [wk EXCEPT ![w].pc = "token", ![w].now = clock']
  /\ UNCHANGED <<documents, edit, raced, faults, edits>>

ReadToken(w) ==
  /\ At(w, "token")
  /\ wk' = [wk EXCEPT ![w].pc = "due", ![w].token = lease.token]
  /\ raced' = raced \cup {r \in {"transition", "status"} : lease.owner # w}
  /\ UNCHANGED <<lease, documents, edit, clock, faults, edits>>

\* The lease runs out; nothing renews it.
Expire ==
  /\ lease.live
  /\ lease' = [lease EXCEPT !.live = FALSE]
  /\ UNCHANGED <<documents, wk, edit, raced, clock, faults, edits>>

\* due: the enabled definitions.
Due(w) ==
  /\ At(w, "due")
  /\ wk' = [wk EXCEPT ![w].pc = "next", ![w].todo = {d \in Definitions : defs[d].on}]
  /\ UNCHANGED <<lease, documents, edit, raced, clock, faults, edits>>

\* pending: the newest evaluation a search shows, unless it is checkpointed.
Newest(E) == {e \in E : \A f \in E : f.at <= e.at}
Pending(d) == {e \in Newest(shown[d]) : e.at # defs[d].latest}

\* Defect: a cycle always evaluates anew.
NeverResume(w, d) ==
  /\ At(w, "next") /\ d \in wk[w].todo
  /\ wk' = [wk EXCEPT ![w].pc = "observe", ![w].def = d, ![w].todo = @ \ {d}]
  /\ UNCHANGED <<lease, documents, edit, raced, clock, faults, edits>>

Resume(w, d) ==
  /\ At(w, "next") /\ d \in wk[w].todo
  /\ wk' = IF Pending(d) = {}
           THEN [wk EXCEPT ![w].pc = "observe", ![w].def = d, ![w].todo = @ \ {d}]
           ELSE [wk EXCEPT ![w].pc = "persistFence", ![w].def = d, ![w].todo = @ \ {d},
                           ![w].ev = CHOOSE e \in Pending(d) : TRUE]
  /\ raced' = raced \cup {r \in {"transition"} : shown[d] # evals[d]}
  /\ UNCHANGED <<lease, documents, edit, clock, faults, edits>>

\* The cycle ends: all definitions are done, or a stop was asked for.
Finish(w) ==
  /\ At(w, "next")
  /\ wk' = [wk EXCEPT ![w] = Idle]
  /\ UNCHANGED <<lease, documents, edit, raced, clock, faults, edits>>

-----------------------------------------------------------------------------
(* evaluate, for an enabled definition: what an observation makes of the   *)
(* previous state.                                                         *)

Breached(p, now) ==
  [at |-> now, prev |-> p.status, breaches |-> p.breaches + 1, recoveries |-> 0,
   status |-> IF p.breaches + 1 >= Required THEN "breaching" ELSE "warning"]

Met(p, now) ==
  LET confirmed == p.status \in {"breaching", "recovering"}
      recovering == confirmed /\ p.recoveries + 1 < Recovery
  IN [at |-> now, prev |-> p.status, breaches |-> 0,
      recoveries |-> IF recovering THEN p.recoveries + 1 ELSE 0,
      status |-> IF recovering THEN "recovering" ELSE "healthy"]

Missing(p, now) ==
  IF MissingPolicy = "breach" THEN Breached(p, now)
  ELSE [at |-> now, prev |-> p.status, breaches |-> p.breaches, recoveries |-> p.recoveries,
        status |-> IF MissingPolicy = "ignore" THEN p.status ELSE "no_data"]

Stale(p, now) ==
  [at |-> now, prev |-> p.status, breaches |-> p.breaches, recoveries |-> 0,
   status |-> "stale"]

Evaluate(o, p, now) ==
  CASE o = "breach" -> Breached(p, now)
    [] o = "met" -> Met(p, now)
    [] o = "missing" -> Missing(p, now)
    [] o = "stale" -> Stale(p, now)

\* observe and previous: the current status is read from its document.
Observe(w, o) ==
  /\ At(w, "observe")
  /\ wk' = [wk EXCEPT ![w].pc = "persistFence",
                      ![w].ev = Evaluate(o, Current(wk[w].def), wk[w].now)]
  /\ UNCHANGED <<lease, documents, edit, raced, clock, faults, edits>>

-----------------------------------------------------------------------------
\* _assert_fence: before a write the worker looks whether its token is in
\* force; if not, the definition fails and the next one is taken.
InForce(w) == lease.live /\ lease.token = wk[w].token

Fence(w, before, after) ==
  /\ At(w, before)
  /\ wk' = [wk EXCEPT ![w] = IF InForce(w) THEN [@ EXCEPT !.pc = after] ELSE Left(w)]
  /\ UNCHANGED <<lease, documents, edit, raced, clock, faults, edits>>

\* persist: create-only; a new evaluation is waited for until a search shows it.
Persist(w) ==
  LET d == wk[w].def
      new == \A e \in evals[d] : e.at # wk[w].ev.at
  IN
  /\ At(w, "persist")
  /\ evals' = IF new THEN [evals EXCEPT ![d] = @ \cup {wk[w].ev}] ELSE evals
  /\ Go(w, IF new THEN "refresh" ELSE "projectFence")
  /\ raced' = raced \cup {r \in {"transition"} : ~InForce(w)}
  /\ UNCHANGED <<lease, defs, shown, status, signals, edit, clock, faults, edits>>

Persisted(w) ==
  /\ At(w, "refresh") /\ wk[w].ev \in shown[wk[w].def]
  /\ Go(w, "projectFence")
  /\ UNCHANGED <<lease, documents, edit, raced, clock, faults, edits>>

Refresh(d) ==
  /\ shown[d] # evals[d]
  /\ shown' = [shown EXCEPT ![d] = evals[d]]
  /\ UNCHANGED <<lease, defs, evals, status, signals, wk, edit, raced, clock, faults, edits>>

\* project: the current status is read, and left if it is this evaluation's.
GetStatus(w) ==
  LET d == wk[w].def IN
  /\ At(w, "projectGet")
  /\ wk' = [wk EXCEPT ![w] = IF status[d] # <<>> /\ Current(d).at = @.ev.at
                             THEN [@ EXCEPT !.pc = "signalFence"]
                             ELSE [@ EXCEPT !.pc = "project", !.ver = Len(status[d])]]
  /\ raced' = raced \cup {r \in {"status"} : ~InForce(w)}
  /\ UNCHANGED <<lease, documents, edit, clock, faults, edits>>

\* Defect: the status is written whatever version it has.
ProjectUnchecked(w) ==
  /\ At(w, "project")
  /\ status' = [status EXCEPT ![wk[w].def] = Append(@, wk[w].ev)]
  /\ wk' = [wk EXCEPT ![w].pc = "signalFence", ![w].ver = 0]
  /\ UNCHANGED <<lease, defs, evals, shown, signals, edit, raced, clock, faults, edits>>

\* It is created, or replaced if it is the one that was read.
Project(w) ==
  LET d == wk[w].def IN
  /\ At(w, "project")
  /\ IF Len(status[d]) = wk[w].ver
     THEN /\ status' = [status EXCEPT ![d] = Append(@, wk[w].ev)]
          /\ wk' = [wk EXCEPT ![w].pc = "signalFence", ![w].ver = 0]
     ELSE wk' = [wk EXCEPT ![w] = Left(w)] /\ UNCHANGED status
  /\ UNCHANGED <<lease, defs, evals, shown, signals, edit, raced, clock, faults, edits>>

\* The transitions an evaluation stands for.
Transition(e) ==
  {t \in {"breach", "recovery"} :
     \/ t = "breach" /\ e.status = "breaching" /\ e.prev # "breaching"
     \/ t = "recovery" /\ e.status = "healthy" /\ e.prev \in {"breaching", "recovering"}}
Signal(w) ==
  /\ At(w, "signal")
  /\ signals' = [signals EXCEPT ![wk[w].def] = @ \cup (Transition(wk[w].ev) \X {wk[w].ev.at})]
  /\ Go(w, "checkpointFence")
  /\ UNCHANGED <<lease, defs, evals, shown, status, edit, raced, clock, faults, edits>>

\* checkpoint: the definition is read and updated if nobody else has written it.
GetDefinition(w) ==
  /\ At(w, "checkpointGet")
  /\ wk' = [wk EXCEPT ![w].pc = "checkpoint", ![w].ver = defs[wk[w].def].ver]
  /\ UNCHANGED <<lease, documents, edit, raced, clock, faults, edits>>
\* Defect: the checkpoint names the cycle's own evaluation, resumed or not.
CheckpointNow(w) ==
  LET d == wk[w].def IN
  /\ At(w, "checkpoint")
  /\ defs' = IF defs[d].ver = wk[w].ver
             THEN [defs EXCEPT ![d].latest = wk[w].now, ![d].ver = @ + 1]
             ELSE defs
  /\ wk' = [wk EXCEPT ![w] = Left(w)]
  /\ UNCHANGED <<lease, evals, shown, status, signals, edit, raced, clock, faults, edits>>

Checkpoint(w) ==
  LET d == wk[w].def IN
  /\ At(w, "checkpoint")
  /\ defs' = IF defs[d].ver = wk[w].ver
             THEN [defs EXCEPT ![d].latest = wk[w].ev.at, ![d].ver = @ + 1]
             ELSE defs
  /\ wk' = [wk EXCEPT ![w] = Left(w)]
  /\ UNCHANGED <<lease, evals, shown, status, signals, edit, raced, clock, faults, edits>>

-----------------------------------------------------------------------------
\* update_slo: the document is read and its ETag matches the request's.
Read(o, d, on) ==
  /\ edit[o] = NoEdit
  /\ edits < MaxEdits /\ edits' = edits + 1
  /\ edit' = [edit EXCEPT ![o] = [def |-> d, doc |-> defs[d], on |-> on]]
  /\ UNCHANGED <<lease, documents, wk, raced, clock, faults>>

\* It is written back with the change, whatever has been written meanwhile.
Write(o) ==
  LET d == edit[o].def IN
  /\ edit[o] # NoEdit
  /\ defs' = [defs EXCEPT ![d] = [on |-> edit[o].on, latest |-> edit[o].doc.latest,
                                  ver |-> @.ver + 1]]
  /\ edit' = [edit EXCEPT ![o] = NoEdit]
  /\ UNCHANGED <<lease, evals, shown, status, signals, wk, raced, clock, faults, edits>>

\* A call fails before or after it took effect.  For a definition the failure
\* is caught and the cycle goes on; else the cycle ends.
Fail(w) ==
  /\ ~At(w, "idle")
  /\ faults < MaxFaults /\ faults' = faults + 1
  /\ wk' = [wk EXCEPT ![w] = IF @.pc \in {"token", "due", "next"} THEN Idle
                             ELSE Left(w)]
  /\ UNCHANGED <<lease, documents, edit, raced, clock, edits>>

Crash(w) ==
  /\ ~At(w, "idle")
  /\ faults < MaxFaults /\ faults' = faults + 1
  /\ wk' = [wk EXCEPT ![w] = Idle]
  /\ UNCHANGED <<lease, documents, edit, raced, clock, edits>>

Fences(w) ==
  \/ Fence(w, "persistFence", "persist") \/ Fence(w, "projectFence", "projectGet")
  \/ Fence(w, "signalFence", "signal") \/ Fence(w, "checkpointFence", "checkpointGet")
Cycle(w) ==
  \/ Acquire(w) \/ ReadToken(w) \/ Due(w) \/ Finish(w)
  \/ \E d \in Definitions : Resume(w, d)
  \/ \E o \in Observations : Observe(w, o)
  \/ Fences(w) \/ Persist(w) \/ Persisted(w) \/ GetStatus(w) \/ Project(w) \/ Signal(w)
  \/ GetDefinition(w) \/ Checkpoint(w)

Next ==
  \/ \E w \in Workers : Cycle(w) \/ Fail(w) \/ Crash(w)
  \/ Expire
  \/ \E d \in Definitions : Refresh(d)
  \/ \E o \in Operators : Write(o)
                          \/ \E d \in Definitions, on \in BOOLEAN : Read(o, d, on)
Spec == Init /\ [][Next]_vars

-----------------------------------------------------------------------------
\* The evaluation a definition's checkpoint names is in the stream, has been
\* the current status, and every transition it stands for is signalled.
CheckpointIsBacked ==
  \A d \in Definitions :
    defs[d].latest # 0 =>
      \E e \in evals[d] :
        /\ e.at = defs[d].latest
        /\ \E n \in 1..Len(status[d]) : status[d][n] = e
        /\ Transition(e) \X {e.at} \subseteq signals[d]

\* A cycle resumes after a crash rather than lose a transition: one that a
\* reader of the status could see is signalled, or about to be, or it is what
\* the next cycle resumes, unless a worker has worked under another's token, has
\* not seen the last evaluation or has written its own too late.
Signalled(d, e) ==
  \/ Transition(e) \X {e.at} \subseteq signals[d]
  \/ e \in Pending(d)
  \/ \E w \in Workers : /\ wk[w].pc \in {"signalFence", "signal"}
                        /\ wk[w].def = d /\ wk[w].ev = e
NoTransitionLost ==
  \/ "transition" \in raced
  \/ \A d \in Definitions : \A n \in 1..Len(status[d]) : Signalled(d, status[d][n])

\* The current status never falls back to an earlier evaluation, unless a
\* worker has worked under another's token or has come to read it too late.
StatusMovesOn ==
  \/ "status" \in raced
  \/ \A d \in Definitions : \A n \in 2..Len(status[d]) :
       status[d][n - 1].at < status[d][n].at
=============================================================================
