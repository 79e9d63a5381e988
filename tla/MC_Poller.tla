----------------------------- MODULE MC_Poller -----------------------------
(***************************************************************************)
(* Three channels, two on fd 0 one after the other and one on fd 1, so    *)
(* that an fd is reused, fd 0 meets the -fd-1 encoding at -1, and two     *)
(* channels are registered at once for the pollfd swap.  events_ starts   *)
(* with one slot so that it fills and doubles.                             *)
(***************************************************************************)
EXTENDS Poller

CONSTANTS c1, c2, c3

MC_Chan == {c1, c2, c3}
MC_Fd == (c1 :> 0) @@ (c2 :> 0) @@ (c3 :> 1)

\* nothing, readable, writable, hung up, and both directions at once
MC_Readiness == {{}, {"IN"}, {"OUT"}, {"HUP"}, {"IN", "OUT"}}
=============================================================================
