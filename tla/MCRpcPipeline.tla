---------------------------- MODULE MCRpcPipeline ----------------------------
(* Model checking instances of RpcPipeline. *)
EXTENDS RpcPipeline, TLC

Symmetry == Permutations(Calls)
=============================================================================
