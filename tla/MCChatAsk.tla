------------------------------- MODULE MCChatAsk -------------------------------
(* Instance of ChatAsk for TLC.                                             *)
EXTENDS ChatAsk, TLC

CONSTANTS a1, a2, c1

(* Values that only a permutation tells apart are used in a fixed order: the *)
(* conversation of the past turn, and the two asks.  Nothing that has a      *)
(* fairness condition is cut off.                                            *)
InOrder ==
  /\ conv[Past] = c1
  /\ at[a1] = "idle" => at'[a2] = "idle"

================================================================================
