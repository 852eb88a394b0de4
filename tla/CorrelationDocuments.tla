------------------------ MODULE CorrelationDocuments ------------------------
(***************************************************************************)
(* The documents of incident correlation and flood control                 *)
(* (contracts.py of services/incident_manager/correlation and              *)
(* flood_control), and what must be true of them whoever writes them.      *)
(* Module IncidentCorrelation has the processes that do.                   *)
(*                                                                         *)
(* A group's identifier is the incident that founds it, a flood window's   *)
(* is its group, a decision's is the incident, its revision and the        *)
(* group, an event's is the incident and its revision; all of them are     *)
(* hashes of these.  Groups and windows are kept with all their versions;  *)
(* the sequence number is the number of the version.                       *)
(***************************************************************************)
EXTENDS Naturals, Sequences, FiniteSets

CONSTANTS Incidents,    \* incident identifiers, in the order of their text
          Bypass,       \* incidents that bypass coalescing
          First,        \* groups whose window is the first document of its shard
          SampleSize,   \* members a group document lists
          MaxRevision   \* bound: revisions of an incident

VARIABLES
  groups,    \* durable: group -> its versions; none: not created
  decisions, \* durable: the decisions in the correlation event stream
  windows,   \* durable: group -> the versions of its flood window
  stream,    \* durable: flood transitions and notification decisions
  complete   \* incident revisions whose processing has returned

Revisions == 1..MaxRevision
Decisions == Incidents \X Revisions \X Incidents
FloodEvents == Incidents \X Revisions
FloodStates == {"normal", "elevated", "flooding", "recovering"}
Actions == {"notify", "coalesce", "escalate"}

Group == [members: SUBSET Incidents, count: Nat, last: Nat]
Window == [state: FloodStates, events: SUBSET FloodEvents, suppressed: Nat]

Current(g) == Len(groups[g])
NoWindow == [state |-> "normal", events |-> {}, suppressed |-> 0]
WindowAt(g, n) == IF n = 0 THEN NoWindow ELSE windows[g][n]

-----------------------------------------------------------------------------
\* However processes race for a group, a member counts once: until the sample
\* is full, total_member_count is the number of members.
MembersCountOnce ==
  \A g \in Incidents : \A n \in 1..Current(g) :
    groups[g][n].count <= SampleSize =>
      groups[g][n].count = Cardinality(groups[g][n].members)

\* The window has the event; or the event created it, as the first document of
\* a shard, and a process that had not found the window has put its own in its
\* place (_evaluate_flood).  No second event of a window is ever lost.
InWindow(g, e) ==
  \/ e \in WindowAt(g, Len(windows[g])).events
  \/ g \in First /\ Len(windows[g]) > 1 /\ windows[g][1].events = {e}

\* When the processing of a revision has returned, the decision is in the
\* stream, and in the group it names the window has the event, but for the one
\* that InWindow excepts, and the stream a notification decision: no other
\* process's write has taken them away.
CompleteIsRecorded ==
  \A e \in complete :
    \E g \in Incidents :
      /\ <<e[1], e[2], g>> \in decisions
      /\ InWindow(g, e)
      /\ \E a \in Actions : <<"notification", g, e, a>> \in stream

\* An event adds to the suppressed notifications of its window once, whoever
\* replays it and whoever races for the window, and one that bypasses adds
\* nothing.
SuppressedOnce ==
  \A g \in Incidents :
    LET w == WindowAt(g, Len(windows[g])) IN
    w.suppressed <= Cardinality({e \in w.events : e[1] \notin Bypass})
=============================================================================
