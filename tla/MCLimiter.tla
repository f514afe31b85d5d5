----------------------------- MODULE MCLimiter -----------------------------
(* Instances of Limiter for TLC. *)
EXTENDS Limiter

(* The instance has finitely many requests and admin writes: it may stop once
   they are over.  Anywhere else a state without a step is a deadlock.       *)
Finished ==
    /\ \A r \in Requests : pc[r] \in Ended \union {"start"}
    /\ \A m \in Admins : adminPc[m] = "idle"
    /\ UNCHANGED vars

MCNext == Next \/ Finished
MCSpec == Init /\ [][MCNext]_vars
MCFairSpec == MCSpec /\ Fairness
=============================================================================
