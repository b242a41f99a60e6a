--------------------------- MODULE MCSessionBackend ---------------------------
(* Instances of SessionBackend for TLC: Requests are numbers, and they     *)
(* arrive in that order, since which number a request has is immaterial.   *)
EXTENDS SessionBackend

ArriveInOrder ==
  \A r \in Requests : pc[r] = "not_sent" /\ pc'[r] # "not_sent" =>
    \A q \in Requests : q < r => pc[q] # "not_sent"
=============================================================================
