-------------------------- MODULE OperationContract -------------------------
(***************************************************************************)
(* What the data-product service promises about an operation: it is        *)
(* opened once, closed at most once and for good; one that is closed as    *)
(* applied was opened for a revision which the product then reached in the *)
(* state that was asked for, and one that is superseded was overtaken.     *)
(* Nothing is said of claims, attempts, evidence or crashes.               *)
(***************************************************************************)
EXTENDS Naturals, Sequences

CONSTANTS Ops,       \* <<revision, request>>
          Lives,     \* lifecycle states
          Target     \* request -> the lifecycle state it asks for

VARIABLES lives,     \* the lifecycle state of every revision so far
          outcome    \* operation -> what its client can learn of it

cvars == <<lives, outcome>>

CInit ==
  /\ lives = <<"draft">>
  /\ outcome = [o \in Ops |-> "none"]

Change ==
  /\ \E s \in Lives : lives' = Append(lives, s)
  /\ UNCHANGED outcome

Open(o) ==
  /\ outcome[o] = "none" /\ Len(lives) >= o[1] - 1
  /\ outcome' = [outcome EXCEPT ![o] = "open"]
  /\ UNCHANGED lives

Close(o, s) ==
  /\ outcome[o] = "open"
  /\ s = "applied" => Len(lives) >= o[1] /\ lives[o[1]] = Target[o[2]]
  /\ s = "superseded" => Len(lives) > o[1]
  /\ outcome' = [outcome EXCEPT ![o] = s]
  /\ UNCHANGED lives

CNext ==
  \/ Change
  \/ \E o \in Ops : Open(o) \/ \E s \in {"applied", "superseded", "failed"} : Close(o, s)

CSpec == CInit /\ [][CNext]_cvars
=============================================================================
