------------------------ MODULE IncidentCorrelation -------------------------
(***************************************************************************)
(* What happens to an incident after ingestion has written it              *)
(* (services/incident_manager/correlation and flood_control): the          *)
(* coordinator puts it into a correlation group, evaluates the group's     *)
(* flood window and leaves a notification decision.  API processes run it  *)
(* at the end of each ingestion; when it fails they leave a deferred       *)
(* evaluation, which a worker reconciles by running it again.              *)
(*                                                                         *)
(* What is abstracted:                                                     *)
(*   - the documents, as module CorrelationDocuments describes them.       *)
(*   - the score of two incidents is a relation between them.              *)
(*   - of a stored flood event the document keeps its identifier, its time *)
(*     and its incident; asset, source, products and services come back    *)
(*     empty.  The thresholds on assets and sources are therefore out of   *)
(*     reach, an event with a product or a service always bypasses, and    *)
(*     one with a new asset never does.                                    *)
(*   - the 1000 events kept in a window, and the 100 stored of them, are   *)
(*     not reached.                                                        *)
(*   - versions are numbered from 1.  A window that was not found is       *)
(*     written under sequence number 0, which is that of the first         *)
(*     document of a shard; which windows are such documents is a constant.*)
(*   - a worker lists the deferred evaluations anew for each one it takes, *)
(*     and takes those of a batch in any order.                            *)
(***************************************************************************)
EXTENDS CorrelationDocuments

CONSTANTS Related,      \* pairs the engine decides to attach
          SeenAt,       \* incident -> revision -> last_observed_at
          Handlers,     \* API processes
          Workers,      \* reconciliation workers
          Elevated, Flooding, Hysteresis, Observation,  \* V1_FLOOD_POLICY
          MaxRetries,   \* MAX_OCC_RETRIES
          Batch,        \* deferred evaluations a worker lists
          MaxArrivals,  \* bound: ingestions, replays included
          MaxReplays,   \* bound: reconciliations of what was processed before
          MaxFaults     \* bound: failed calls and crashes

Procs == Handlers \cup Workers

ASSUME CorrelationAssumption ==
  /\ Incidents \subseteq Nat \ {0} /\ IsFiniteSet(Incidents)
  /\ Related \subseteq Incidents \X Incidents
  /\ \A i \in Incidents : <<i, i>> \in Related
  /\ SeenAt \in [Incidents -> [Revisions -> Nat]]
  /\ Bypass \subseteq Incidents /\ First \subseteq Incidents /\ Handlers \cap Workers = {}
  /\ SampleSize \in Nat \ {0} /\ Elevated \in Nat /\ Flooding \in Nat
  /\ Hysteresis \in Nat /\ Observation \in Nat /\ MaxRetries \in Nat \ {0}
  /\ Batch \in Nat \ {0} /\ MaxRevision \in Nat /\ MaxArrivals \in Nat
  /\ MaxReplays \in Nat /\ MaxFaults \in Nat

VARIABLES
  revs,      \* durable: incident -> its revision; 0: not ingested
  shownGroups,  \* group -> the version a search sees
  shown,     \* the decisions a search sees
  deferred,  \* durable: the deferred evaluations, oldest first
  pr,        \* process -> its step and what it works with:
             \*   inc, rev   the incident and its revision
             \*   grp, ver   the selected group and the version it has read
             \*   new        its decision was not there yet
             \*   lost       the races it has lost
             \*   win        the version of the window it has read
             \*   shift, act the states and the action it has decided on
  arrivals,  \* ingestions so far
  replays,   \* reconciliations of what was processed before so far
  faults     \* failed calls and crashes so far

grouping == <<groups, shownGroups, decisions, shown>>
flood == <<windows, stream>>
bounds == <<arrivals, replays, faults>>
vars == <<revs, grouping, flood, deferred, complete, pr, bounds>>

Steps == {"idle", "find", "select", "create", "append", "attach", "flood",
          "window", "transition", "notify", "defer", "mark"}
Idle == [pc |-> "idle", inc |-> 0, rev |-> 0, grp |-> 0, ver |-> 0, new |-> FALSE,
         lost |-> 0, win |-> 0, shift |-> <<"normal", "normal">>, act |-> "notify"]

Run == [pc: Steps, inc: Incidents \cup {0}, rev: 0..MaxRevision, grp: Incidents \cup {0},
        ver: Nat, new: BOOLEAN, lost: 0..(MaxRetries - 1), win: Nat,
        shift: FloodStates \X FloodStates, act: Actions]

StoreOK ==
  /\ revs \in [Incidents -> 0..MaxRevision]
  /\ groups \in [Incidents -> Seq(Group)]
  /\ shownGroups \in [Incidents -> Nat]
  /\ \A g \in Incidents : shownGroups[g] <= Len(groups[g])
  /\ decisions \subseteq Decisions /\ shown \subseteq decisions
  /\ windows \in [Incidents -> Seq(Window)]
  /\ stream \subseteq ({"transition"} \X Incidents \X FloodEvents \X (FloodStates \X FloodStates))
                \cup ({"notification"} \X Incidents \X FloodEvents \X Actions)
  /\ deferred \in Seq(FloodEvents)
  /\ complete \subseteq FloodEvents
TypeOK ==
  /\ StoreOK
  /\ pr \in [Procs -> Run]
  /\ \A p \in Procs : pr[p].pc # "idle" => pr[p].inc \in Incidents /\ pr[p].rev # 0
  /\ arrivals \in 0..MaxArrivals /\ replays \in 0..MaxReplays /\ faults \in 0..MaxFaults

Init ==
  /\ revs = [i \in Incidents |-> 0]
  /\ groups = [g \in Incidents |-> <<>>]
  /\ shownGroups = [g \in Incidents |-> 0]
  /\ decisions = {} /\ shown = {}
  /\ windows = [g \in Incidents |-> <<>>]
  /\ stream = {}
  /\ deferred = <<>>
  /\ complete = {}
  /\ pr = [p \in Procs |-> Idle]
  /\ arrivals = 0 /\ replays = 0 /\ faults = 0

-----------------------------------------------------------------------------
Go(p, step) == pr' = [pr EXCEPT ![p].pc = step]
At(p, step) == pr[p].pc = step
Decision(p) == <<pr[p].inc, pr[p].rev, pr[p].grp>>
Event(p) == <<pr[p].inc, pr[p].rev>>

\* A step of process raised an exception: ingestion defers the evaluation, a
\* worker leaves the one it has to the next batch.
Raised(p) == IF p \in Handlers THEN [pr[p] EXCEPT !.pc = "defer"] ELSE Idle

\* Ingestion has written a revision of the incident, or found nothing to
\* write, and hands the incident to the coordinator (module IncidentIngest).
Ingest(h, i, n) ==
  /\ At(h, "idle")
  /\ arrivals < MaxArrivals /\ arrivals' = arrivals + 1
  /\ n \in {revs[i], revs[i] + 1} \cap Revisions
  /\ revs' = [revs EXCEPT ![i] = n]
  /\ pr' = [pr EXCEPT ![h] = [Idle EXCEPT !.pc = "find", !.inc = i, !.rev = n]]
  /\ UNCHANGED <<grouping, flood, deferred, complete, replays, faults>>

\* Defect: an evaluation whose decision is in the stream passes for done.
ListedUndecided(e) ==
  /\ \E k \in 1..Len(deferred) : k <= Batch /\ deferred[k] = e
  /\ \A g \in Incidents : <<e[1], e[2], g>> \notin decisions

\* list_deferred: the oldest evaluations.  They stay, so no other is ever listed
\* once there are Batch of them.
Listed(e) == \E k \in 1..Len(deferred) : k <= Batch /\ deferred[k] = e

\* The incident has been processed since the evaluation was left.
Processed(e) == \E n \in e[2]..MaxRevision : <<e[1], n>> \in complete

\* The worker takes a deferred evaluation and reads the incident as it is now.
Reconcile(w, e) ==
  /\ At(w, "idle")
  /\ Listed(e)
  /\ replays' = IF Processed(e) THEN replays + 1 ELSE replays
  /\ replays' <= MaxReplays
  /\ pr' = [pr EXCEPT ![w] = [Idle EXCEPT !.pc = "find", !.inc = e[1], !.rev = revs[e[1]]]]
  /\ UNCHANGED <<revs, grouping, flood, deferred, complete, arrivals, faults>>

-----------------------------------------------------------------------------
(* The group: IncidentCorrelationCoordinator.process.                      *)

\* The evaluation goes on with a group, in the version that was read.
Take(p, g, n) == pr' = [pr EXCEPT ![p].pc = "append", ![p].grp = g, ![p].ver = n]

\* find_group_for_incident: the group of the incident's earliest decision
\* that a search shows.  The decisions of two processes carry the times of
\* two clocks, so either may be the earliest.
Find(p) ==
  LET mine == {d \in shown : d[1] = pr[p].inc} IN
  /\ At(p, "find")
  /\ \/ mine = {} /\ Go(p, "select")
     \/ \E d \in mine : Take(p, d[3], Current(d[3]))
  /\ UNCHANGED <<revs, grouping, flood, deferred, complete, bounds>>

\* find_candidate_groups and the evaluation of each candidate's founder: the
\* groups a search shows that were not last seen before the incident.
Candidates(p) ==
  {g \in Incidents : /\ shownGroups[g] # 0
                     /\ groups[g][shownGroups[g]].last >= SeenAt[pr[p].inc][pr[p].rev]
                     /\ <<pr[p].inc, g>> \in Related}

\* The most recently seen candidate, or a group of its own.
Select(p) ==
  /\ At(p, "select")
  /\ \/ \E g \in Candidates(p) :
          /\ \A x \in Candidates(p) :
               groups[x][shownGroups[x]].last <= groups[g][shownGroups[g]].last
          /\ Take(p, g, shownGroups[g])
     \/ /\ Candidates(p) = {}
        /\ pr' = [pr EXCEPT ![p].pc = "create", ![p].grp = pr[p].inc]
  /\ UNCHANGED <<revs, grouping, flood, deferred, complete, bounds>>

\* create_group, or get_group when somebody has created it.
CreateGroup(p) ==
  LET i == pr[p].inc IN
  /\ At(p, "create")
  /\ groups' = IF Current(i) # 0 THEN groups
               ELSE [groups EXCEPT ![i] = <<[members |-> {i}, count |-> 1,
                                             last |-> SeenAt[i][pr[p].rev]]>>]
  /\ pr' = [pr EXCEPT ![p].pc = "append", ![p].ver = IF Current(i) = 0 THEN 1 ELSE Current(i)]
  /\ UNCHANGED <<revs, shownGroups, decisions, shown, flood, deferred, complete,
                 bounds>>

\* append_decision, create-only.  Writes return once a search shows them, so
\* the group just created is shown.
AppendDecision(p) ==
  /\ At(p, "append")
  /\ shownGroups[pr[p].grp] # 0
  /\ decisions' = decisions \cup {Decision(p)}
  /\ pr' = [pr EXCEPT ![p].new = Decision(p) \notin decisions, ![p].pc = "attach"]
  /\ UNCHANGED <<revs, groups, shownGroups, shown, flood, deferred, complete,
                 bounds>>

\* member_incident_ids: the first members by identifier.
Sample(S) == {i \in S : Cardinality({j \in S : j < i}) < SampleSize}
Later(a, b) == IF a > b THEN a ELSE b

\* The incident is added to the version that was read.
Attached(v, i, n) == [members |-> Sample(v.members \cup {i}), count |-> v.count + 1,
                      last |-> Later(v.last, SeenAt[i][n])]
\* Defect: members are not looked up.
MemberUnchecked(i, v) == FALSE
IsMember(i, v) == i \in v.members

\* _attach_with_occ, when the decision is new and the group as it was read
\* does not list the incident.  A lost race reads the group again, and is
\* over when somebody has listed the incident; the last one raises.
Attach(p) ==
  LET i == pr[p].inc
      g == pr[p].grp
      lost == pr[p].lost + 1
  IN
  /\ At(p, "attach")
  /\ Decision(p) \in shown
  /\ \/ /\ ~pr[p].new \/ IsMember(i, groups[g][pr[p].ver])
        /\ Go(p, "flood") /\ UNCHANGED groups
     \/ /\ pr[p].new /\ ~IsMember(i, groups[g][pr[p].ver])
        /\ IF pr[p].ver = Current(g)
           THEN /\ groups' = [groups EXCEPT ![g] = Append(@, Attached(@[Len(@)], i, pr[p].rev))]
                /\ Go(p, "flood")
           ELSE /\ pr' = [pr EXCEPT ![p] =
                     IF IsMember(i, groups[g][Current(g)])
                     THEN [@ EXCEPT !.pc = "flood"]
                     ELSE IF lost = MaxRetries THEN Raised(p)
                     ELSE [@ EXCEPT !.ver = Current(g), !.lost = lost]]
                /\ UNCHANGED groups
  /\ UNCHANGED <<revs, shownGroups, decisions, shown, flood, deferred, complete,
                 bounds>>

-----------------------------------------------------------------------------
(* The flood window: _evaluate_flood and evaluate_flood.                   *)

Time(e) == SeenAt[e[1]][e[2]]

\* Events within the observation time before the latest one.
Active(E) == {e \in E : \A x \in E : Time(x) <= Time(e) + Observation}

NextState(prior, count) ==
  IF count >= Flooding THEN "flooding"
  ELSE IF count >= Elevated THEN "elevated"
  ELSE IF \/ prior \in {"flooding", "elevated"}
          \/ prior = "recovering" /\ count > Hysteresis THEN "recovering"
  ELSE "normal"

\* Defect: a replay is suppressed again.
CoalescedReplay(w, e) ==
  /\ NextState(w.state, Cardinality(Active(w.events \cup {e}))) = "flooding"
  /\ e[1] \notin Bypass

\* The event is suppressed: it is new, and its group floods.
Coalesced(w, e) ==
  /\ NextState(w.state, Cardinality(Active(w.events \cup {e}))) = "flooding"
  /\ e[1] \notin Bypass /\ e \notin w.events

Evaluated(w, e) ==
  [state |-> NextState(w.state, Cardinality(Active(w.events \cup {e}))),
   events |-> w.events \cup {e},
   suppressed |-> IF Coalesced(w, e) THEN w.suppressed + 1 ELSE w.suppressed]

Action(w, e) == IF e[1] \in Bypass THEN "escalate"
                ELSE IF Coalesced(w, e) THEN "coalesce" ELSE "notify"

\* get_window, and the decision on what it returns.
ReadWindow(p) ==
  LET w == WindowAt(pr[p].grp, Len(windows[pr[p].grp])) IN
  /\ At(p, "flood")
  /\ pr' = [pr EXCEPT ![p].pc = "window", ![p].win = Len(windows[pr[p].grp]),
                      ![p].shift = <<w.state, Evaluated(w, Event(p)).state>>,
                      ![p].act = Action(w, Event(p))]
  /\ UNCHANGED <<revs, grouping, flood, deferred, complete, bounds>>

\* Defect: the window is written without its sequence number.
WindowUnchecked(p) == TRUE
\* The window is still the one that was read.
WindowUnraced(p) == Len(windows[pr[p].grp]) = pr[p].win

\* It was not found then, and the document found now has the sequence number
\* that stands for a window that was not found.
WindowUnseen(p) ==
  /\ pr[p].win = 0
  /\ pr[p].grp \in First /\ Len(windows[pr[p].grp]) = 1

\* create_window if there is none now, else update_window: the window that was
\* read is written with the event.  A lost race, for the sequence number or
\* between the look and the creation, raises unless the winner has the event.
WriteWindow(p) ==
  LET g == pr[p].grp
      n == Len(windows[g])
  IN
  /\ At(p, "window")
  /\ \/ /\ WindowUnraced(p) \/ WindowUnseen(p)
        /\ windows' = [windows EXCEPT ![g] = Append(@, Evaluated(WindowAt(g, pr[p].win), Event(p)))]
        /\ Go(p, "transition")
     \/ /\ ~WindowUnraced(p)
        /\ pr' = [pr EXCEPT ![p] = IF Event(p) \in WindowAt(g, n).events
                                   THEN [@ EXCEPT !.pc = "transition"] ELSE Raised(p)]
        /\ UNCHANGED windows
  /\ UNCHANGED <<revs, grouping, stream, deferred, complete, bounds>>

\* append_transition, create-only.
AppendTransition(p) ==
  /\ At(p, "transition")
  /\ stream' = stream \cup {<<"transition", pr[p].grp, Event(p), pr[p].shift>>}
  /\ Go(p, "notify")
  /\ UNCHANGED <<revs, grouping, windows, deferred, complete, bounds>>

\* append_notification, create-only; process returns to ingestion, which
\* answers, or to the worker.
AppendNotification(p) ==
  /\ At(p, "notify")
  /\ stream' = stream \cup {<<"notification", pr[p].grp, Event(p), pr[p].act>>}
  /\ complete' = complete \cup {Event(p)}
  /\ pr' = [pr EXCEPT ![p] = IF p \in Handlers THEN Idle ELSE [@ EXCEPT !.pc = "mark"]]
  /\ UNCHANGED <<revs, grouping, windows, deferred, bounds>>

-----------------------------------------------------------------------------
\* defer: create-only, so an evaluation is left once.
Defer(h) ==
  /\ At(h, "defer")
  /\ deferred' = IF \E k \in 1..Len(deferred) : deferred[k] = Event(h)
                 THEN deferred ELSE Append(deferred, Event(h))
  /\ pr' = [pr EXCEPT ![h] = Idle]
  /\ UNCHANGED <<revs, grouping, flood, complete, bounds>>

\* mark_reconciled updates the event stream by a pattern.  Elasticsearch takes no
\* write under one; the worker counts the exception and goes on, and the
\* evaluation stays as it is.
MarkReconciled(w) ==
  /\ At(w, "mark")
  /\ pr' = [pr EXCEPT ![w] = Idle]
  /\ UNCHANGED <<revs, grouping, flood, deferred, complete, bounds>>

\* The indices are refreshed, by their interval or for a writer that waits.
RefreshGroups ==
  /\ \E g \in Incidents : shownGroups[g] # Current(g)
  /\ shownGroups' = [g \in Incidents |-> Current(g)]
  /\ UNCHANGED <<revs, groups, decisions, shown, flood, deferred, complete, pr,
                 bounds>>
RefreshDecisions ==
  /\ shown # decisions
  /\ shown' = decisions
  /\ UNCHANGED <<revs, groups, shownGroups, decisions, flood, deferred, complete,
                 pr, bounds>>

\* A call to Elasticsearch fails, before or after it took effect.
Fail(p) ==
  /\ pr[p].pc \notin {"idle", "defer", "mark"}
  /\ faults < MaxFaults /\ faults' = faults + 1
  /\ pr' = [pr EXCEPT ![p] = Raised(p)]
  /\ UNCHANGED <<revs, grouping, flood, deferred, complete, arrivals, replays>>

\* A process dies; so does a request whose deferral fails.
Crash(p) ==
  /\ pr[p].pc # "idle"
  /\ faults < MaxFaults /\ faults' = faults + 1
  /\ pr' = [pr EXCEPT ![p] = Idle]
  /\ UNCHANGED <<revs, grouping, flood, deferred, complete, arrivals, replays>>

Process(p) ==
  \/ Find(p) \/ Select(p) \/ CreateGroup(p) \/ AppendDecision(p) \/ Attach(p)
  \/ ReadWindow(p) \/ WriteWindow(p) \/ AppendTransition(p) \/ AppendNotification(p)
Work(p) ==
  \/ Process(p)
  \/ p \in Handlers /\ Defer(p)
  \/ p \in Workers /\ (MarkReconciled(p) \/ \E e \in FloodEvents : Reconcile(p, e))
Refresh == RefreshGroups \/ RefreshDecisions

Next ==
  \/ \E h \in Handlers, i \in Incidents, n \in Revisions : Ingest(h, i, n)
  \/ \E p \in Procs : Work(p) \/ Fail(p) \/ Crash(p)
  \/ Refresh
Spec == Init /\ [][Next]_vars

\* Indices refresh, and a process that lives takes its next step: the worker
\* loops over the deferred evaluations for ever (runtime.py).
FairSpec ==
  /\ Spec
  /\ WF_vars(RefreshGroups) /\ WF_vars(RefreshDecisions)
  /\ \A p \in Procs : WF_vars(Work(p))

-----------------------------------------------------------------------------
\* Whatever races and failures the reconciliation meets, each of the oldest
\* Batch deferred evaluations is processed in the end, at its revision or a
\* later one (reconcile).  Evaluations stay and what is processed stays so:
\* there is no bound to the times at which none of them is left to process.
DeferredIsProcessed ==
  []<>(\A k \in 1..Len(deferred) : k <= Batch => Processed(deferred[k]))
=============================================================================
