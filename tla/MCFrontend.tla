------------------------------ MODULE MCFrontend ------------------------------
(* Instances of Frontend for TLC.                                          *)
EXTENDS Frontend

\* Three files, of which two have the same name and the same size: the key is the tens digit.
MCFiles   == {10, 20, 21}
MCFileKey == [f \in MCFiles |-> f \div 10]

\* Requests are sent in order, since which number a request has is immaterial.
SendInOrder ==
  \A r \in Requests : progress[r] = "unused" /\ progress'[r] = "sent" =>
    \A q \in Requests : q < r => progress[q] # "unused"
=============================================================================
