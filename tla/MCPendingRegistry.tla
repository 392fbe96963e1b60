--------------------------- MODULE MCPendingRegistry ---------------------------
(* Instances of PendingRegistry for TLC.                                    *)
EXTENDS PendingRegistry, TLC

Symmetry == Permutations(Sources) \cup Permutations(Artifacts) \cup Permutations(Polls)

=============================================================================
