--------------------------- MODULE MCArtifactPolling ---------------------------
(* Instances of ArtifactPolling for TLC.                                    *)
EXTENDS ArtifactPolling, TLC

Symmetry == Permutations(Waiters)

=============================================================================
