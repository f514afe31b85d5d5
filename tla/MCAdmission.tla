---------------------------- MODULE MCAdmission ----------------------------
(* Instances of Admission for TLC. *)
EXTENDS Admission, TLC

Symmetry == Permutations(Requests)

(* The instance stops when its time, its requests and its admins have. *)
Finished ==
    /\ clock = MaxClock
    /\ \A r \in Requests : pc[r] \in Ended
    /\ creating = {}
    /\ UNCHANGED vars

MCNext == Next \/ Finished
MCSpec == Init /\ [][MCNext]_vars
=============================================================================
