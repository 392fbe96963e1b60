------------------------- MODULE MCCookiePersistence -------------------------
(* Model checking instances of CookiePersistence. *)
EXTENDS CookiePersistence, TLC

Symmetry ==
  Permutations(Clients) \cup Permutations(Cookies) \cup Permutations(Background)
=============================================================================
