---------------------------- MODULE MCGatewayPool ----------------------------
(* Model checking instances of GatewayPool. *)
EXTENDS GatewayPool, TLC

CONSTANTS e1, k1, c2, a2

(* Values that only a permutation tells apart are used in a fixed order: the *)
(* first account, its key and the first client.  Of the two admin calls that *)
(* may overlap, the second one is an upload.  No step with a fairness        *)
(* condition is cut off.                                                     *)
InOrder ==
  /\ uploads = 0 /\ uploads' = 1 => account'[e1].key = k1
  /\ (\A c \in Clients : client[c] = Unused) => client'[c2] = Unused
  /\ admin[a2].at = "idle" /\ admin'[a2].at # "idle" => admin'[a2].op = "upload"
==============================================================================
