-------------------------- MODULE ExecutionContract -------------------------
(***************************************************************************)
(* What the remediation runtime promises of a published execution: the     *)
(* provider is called a bounded number of times and never again once it    *)
(* has carried the operation out; the document goes to verification if it  *)
(* has, and to FAILED if it has not; a verdict is given once; and an       *)
(* answer is final.  Nothing is said of tokens, leases, evidence or        *)
(* processes.  Of an execution that was forgotten nothing is promised.     *)
(***************************************************************************)
EXTENDS Naturals

CONSTANTS Executions, MaxAttempts

VARIABLES answer,   \* execution -> what its document says of the operation
          calls,    \* execution -> how often the provider was called
          effects   \* execution -> how often it carried the operation out

cvars == <<answer, calls, effects>>

CInit ==
  /\ answer = [e \in Executions |-> "open"]
  /\ calls = [e \in Executions |-> 0]
  /\ effects = [e \in Executions |-> 0]

Submit(e, n) ==
  /\ answer[e] = "open" /\ effects[e] = 0 /\ calls[e] < MaxAttempts
  /\ calls' = [calls EXCEPT ![e] = @ + 1]
  /\ effects' = [effects EXCEPT ![e] = n]
  /\ UNCHANGED answer

Conclude(e, a) ==
  /\ \/ answer[e] = "open" /\ effects[e] = 1 /\ a = "verification_pending"
     \/ answer[e] = "open" /\ effects[e] = 0 /\ a = "failed"
     \/ answer[e] = "verification_pending" /\ a \in {"verified", "verification_failed"}
  /\ answer' = [answer EXCEPT ![e] = a]
  /\ UNCHANGED <<calls, effects>>

Forget(e) ==
  /\ answer' = [answer EXCEPT ![e] = "unknown"]
  /\ calls' = [calls EXCEPT ![e] = 0]
  /\ effects' = [effects EXCEPT ![e] = 0]

CNext ==
  \E e \in Executions :
    \/ \E n \in {0, 1} : Submit(e, n)
    \/ \E a \in {"verification_pending", "failed", "verified", "verification_failed"} : Conclude(e, a)
    \/ Forget(e)

CSpec == CInit /\ [][CNext]_cvars
=============================================================================
