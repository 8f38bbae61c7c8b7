----------------------------- MODULE CallOutcome -----------------------------
(***************************************************************************)
(* What a caller of SendAndWait may rely on.  A call is identified by its  *)
(* reference.  It is made once and ends once: answered, and then only by a *)
(* reply the server gave to this very reference, or failed.                *)
(***************************************************************************)
CONSTANT Refs

VARIABLES
  outcome,   \* outcome of the call made under each reference
  replied    \* the references the server has replied to

outcomeVars == <<outcome, replied>>

OutcomeInit ==
  /\ outcome = [r \in Refs |-> "notCalled"]
  /\ replied = {}

Make(r) ==
  /\ outcome[r] = "notCalled"
  /\ outcome' = [outcome EXCEPT ![r] = "pending"]
  /\ UNCHANGED replied

ServerAnswers(r) ==
  /\ outcome[r] # "notCalled"
  /\ replied' = replied \cup {r}
  /\ UNCHANGED outcome

Answered(r) ==
  /\ outcome[r] = "pending" /\ r \in replied
  /\ outcome' = [outcome EXCEPT ![r] = "answered"]
  /\ UNCHANGED replied

Failed(r) ==
  /\ outcome[r] = "pending"
  /\ outcome' = [outcome EXCEPT ![r] = "failed"]
  /\ UNCHANGED replied

OutcomeNext ==
  \E r \in Refs : Make(r) \/ ServerAnswers(r) \/ Answered(r) \/ Failed(r)

OutcomeSpec == OutcomeInit /\ [][OutcomeNext]_outcomeVars
=============================================================================
