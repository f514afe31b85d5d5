---------------------------- MODULE MCAdminUsers ----------------------------
(* Instances of AdminUsers for TLC: handlers are interchangeable. *)
EXTENDS AdminUsers, TLC

Symmetry == Permutations(Handlers) \union Permutations(Users \ {Root})
=============================================================================
