--------------------------- MODULE MC_TimerQueue ---------------------------
(* Two heap addresses, so that a freed Timer's address is reused. *)
EXTENDS TimerQueue

CONSTANTS a1, a2

MCAddrs == {a1, a2}
=============================================================================
