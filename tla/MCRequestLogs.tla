--------------------------- MODULE MCRequestLogs ----------------------------
(* Instances of RequestLogs for TLC: one subscription and one user, who may be
   gone when they are reported on.                                           *)
EXTENDS RequestLogs, TLC

CONSTANTS s1, u1

MCSubOf == [r \in Requests |-> s1]
MCUserOf == [r \in Requests |-> u1]
=============================================================================
