----------------------------- MODULE SharedFlight -----------------------------
(***************************************************************************)
(* What single-flight work promises its callers, without the work: the     *)
(* refresh that AuthRefreshCoordinator.await_refresh shares between calls  *)
(* (_runtime/auth.py) and the poll that PollRegistry shares between the    *)
(* waiters for an artifact (_artifact/polling.py).                         *)
(*                                                                         *)
(* Whoever needs the work while a flight is in the air boards that one;    *)
(* only when there is none does he start one.  The flight belongs to       *)
(* nobody: it goes on when those aboard leave, its starter included.  When *)
(* it lands, everyone aboard is on the ground with it.                     *)
(***************************************************************************)
CONSTANTS Callers, None  \* None: no flight

VARIABLES flight, \* the flight in the air, named after its starter
          seat    \* of each caller: "home", "aboard", "landed"

vars == <<flight, seat>>

Init == flight = None /\ seat = [c \in Callers |-> "home"]

Board(c) ==
  /\ seat[c] = "home"
  /\ seat' = [seat EXCEPT ![c] = "aboard"]
  /\ flight' = IF flight = None THEN c ELSE flight

Land ==
  /\ flight # None
  /\ flight' = None
  /\ seat' = [c \in Callers |-> IF seat[c] = "aboard" THEN "landed" ELSE seat[c]]

(* Cancelled on the way, or served. *)
Leave(c) ==
  /\ seat[c] # "home"
  /\ seat' = [seat EXCEPT ![c] = "home"]
  /\ UNCHANGED flight

Next == Land \/ \E c \in Callers : Board(c) \/ Leave(c)

Spec == Init /\ [][Next]_vars
=============================================================================
