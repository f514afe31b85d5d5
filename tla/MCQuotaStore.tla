---------------------------- MODULE MCQuotaStore ----------------------------
(* Instances of QuotaStore for TLC: requests are alike, and so are windows. *)
EXTENDS QuotaStore, TLC

Symmetry == Permutations(Requests) \union Permutations(Windows)
=============================================================================
