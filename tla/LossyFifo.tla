------------------------------ MODULE LossyFifo ------------------------------
(***************************************************************************)
(* What the relay promises Plugboard of one backend connection: messages   *)
(* may be lost, but those that arrive are in the order in which they were  *)
(* sent, none twice, and the report of the end comes after all of them.    *)
(***************************************************************************)
EXTENDS Naturals, Sequences

CONSTANT End   \* the report of the end

VARIABLES
  sent,  \* how many messages the backend has sent: 1, 2, ...
  got,   \* what Plugboard got of them
  over   \* nothing more will come

Init == sent = 0 /\ got = <<>> /\ over = FALSE

\* One more message, and Plugboard gets one it has not got, in order, or none.
Relay ==
  /\ ~over
  /\ sent' = sent + 1
  /\ \/ UNCHANGED got
     \/ \E n \in 1..sent' :
          /\ \A i \in DOMAIN got : got[i] < n
          /\ got' = Append(got, n)
  /\ UNCHANGED over

Finish ==
  /\ ~over /\ over' = TRUE
  /\ got' \in {got, Append(got, End)}
  /\ UNCHANGED sent

Next == Relay \/ Finish

Spec == Init /\ [][Next]_<<sent, got, over>>
=============================================================================
