--------------------------- MODULE MCClientCache ---------------------------
(* Instances of ClientCache for TLC: callers and admins are interchangeable. *)
EXTENDS ClientCache, TLC

Symmetry == Permutations(Callers) \union Permutations(Admins) \union Permutations(Proxies)

(* The instance may stop once every caller it started is done. *)
Finished ==
    /\ \A r \in Callers : callerPc[r] \in {"start", "done"}
    /\ \A m \in Admins : adminPc[m] = "idle"
    /\ UNCHANGED cacheVars

MCSpec == CacheInit /\ [][CacheNext \/ Finished]_cacheVars
=============================================================================
