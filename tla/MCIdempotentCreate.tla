-------------------------- MODULE MCIdempotentCreate --------------------------
(* Model checking instances of IdempotentCreate. *)
EXTENDS IdempotentCreate, TLC

Symmetry == Permutations(Callers) \cup Permutations(Ids)
=============================================================================
