--------------------------- MODULE MCTokenRefresh ---------------------------
(* Instances of TokenRefresh for TLC. *)
EXTENDS TokenRefresh

CONSTANT FirstMutex    \* the heap identity handed out first

(* Mutexes differ by identity only, so one order of their allocation stands
   for the others.                                                           *)
AllocatedInOrder == made' # {} => FirstMutex \in made'

(* The user id is not known at first; a quota refresh or a pasted login may
   bring it.                                                                 *)
MCInit == Init /\ ~row.user

(* The instance may stop once every goroutine it started has ended. *)
Finished ==
    /\ \A r \in Requests : pc[r] \in Ended \union {"start"}
    /\ \A m \in Admins : adminPc[m] \in {"idle", "editing", "done"}
    /\ UNCHANGED vars

MCNext == Next \/ Finished
MCSpec == MCInit /\ [][MCNext]_vars /\ Fairness
=============================================================================
