------------------------- MODULE CheckpointContract -------------------------
(***************************************************************************)
(* What the checkpoint of the pathway worker promises: a lease that is     *)
(* never taken from a holder before it expires or is given up, each time   *)
(* under the next token, and a watermark that only the holder moves, only  *)
(* forward and only to the time of an event that has arrived, whoever is   *)
(* still at work under an older token.  Nothing is said of sequence        *)
(* numbers, cursors, pages or projections.                                 *)
(***************************************************************************)
EXTENDS Naturals

CONSTANTS Procs, Times, Nobody, Former

VARIABLES holder,    \* the process with the lease, Nobody, or one that is gone
          token,     \* the token of the last lease
          live,      \* is the lease's expiry still ahead
          mark,      \* the watermark; 0: none
          markToken, \* the token it was last confirmed under
          times      \* timestamps of the events that have arrived

lease == <<holder, token, live>>
cvars == <<lease, mark, markToken, times>>

CInit ==
  /\ holder = Nobody /\ token = 0 /\ live = FALSE
  /\ mark = 0 /\ markToken = 0 /\ times = {}

Occur(t) ==
  /\ times' = times \cup {t}
  /\ UNCHANGED <<lease, mark, markToken>>

Take(p) ==
  /\ ~live
  /\ holder' = p /\ token' = token + 1 /\ live' = TRUE
  /\ UNCHANGED <<mark, markToken, times>>

\* The watermark is moved, or confirmed where it is.
Advance(p, t) ==
  /\ holder = p
  /\ t = mark \/ (t \in times /\ t > mark)
  /\ mark' = t /\ markToken' = token
  /\ UNCHANGED <<lease, times>>

\* The lease is given up, or left behind by a process that is gone.
Leave(p, h) ==
  /\ holder = p
  /\ \/ h = Nobody /\ live' = FALSE
     \/ h = Former /\ live' = live
  /\ holder' = h
  /\ UNCHANGED <<token, mark, markToken, times>>

Expire ==
  /\ live' = FALSE
  /\ UNCHANGED <<holder, token, mark, markToken, times>>

CNext ==
  \/ \E t \in Times : Occur(t)
  \/ \E p \in Procs :
       \/ Take(p)
       \/ \E t \in {0} \cup Times : Advance(p, t)
       \/ \E h \in {Nobody, Former} : Leave(p, h)
  \/ Expire

CSpec == CInit /\ [][CNext]_cvars
=============================================================================
