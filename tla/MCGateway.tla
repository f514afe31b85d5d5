----------------------------- MODULE MCGateway -----------------------------
(* Instances of Gateway for TLC. *)
EXTENDS Gateway

(* The instance stops once the process has. *)
Finished == process = "exited" /\ UNCHANGED vars

MCNext == Next \/ Finished
MCSpec == Init /\ [][MCNext]_vars
MCFairSpec == MCSpec /\ Fairness
=============================================================================
