----------------------------- MODULE MCTokenFetch -----------------------------
(* Instances of TokenFetch for TLC: one caller has a loop of its own.      *)
EXTENDS TokenFetch, TLC

CONSTANTS c1, c2, c3, a, b

TwoLoops == (c1 :> a) @@ (c2 :> a) @@ (c3 :> b)

=============================================================================
