--------------------------- MODULE PollerContract ---------------------------
(***************************************************************************)
(* What a Poller promises the EventLoop (Poller.h; spec section 4.2),      *)
(* whichever of EpollPoller and PollPoller implements it:                  *)
(*   - updateChannel(c) makes the kernel watch c's fd for exactly c's      *)
(*     interest mask, and removeChannel(c), allowed only when that mask is *)
(*     empty, forgets c;                                                   *)
(*   - poll() reports channels whose watched fd is ready, each with the    *)
(*     ready events it watches plus HUP, which is always reported; it     *)
(*     reports at least one when one is ready.                            *)
(* Readiness is the environment's: any fd may become ready or not.        *)
(***************************************************************************)
EXTENDS FiniteSets, TLC

CONSTANTS
    Chan,       \* the channels
    Fd,         \* Fd[c]: the fd of channel c
    Interest,   \* the events a channel may ask for
    ReadyEv     \* the events an fd may report

VARIABLES
    mask,       \* mask[c]: Channel::events_
    watched,    \* the channels the poller watches, with their masks
    active,     \* the last poll's result: a set of <<channel, revents>>
    ready       \* ready[f]: the events fd f has pending

vars == <<mask, watched, active, ready>>

Fds == {Fd[c] : c \in Chan}

Init ==
    /\ mask = [c \in Chan |-> {}]
    /\ watched = [c \in {} |-> {}]
    /\ active = {}
    /\ ready = [f \in Fds |-> {}]

Update(c) ==
    /\ \E ev \in SUBSET Interest :
          /\ mask' = [mask EXCEPT ![c] = ev]
          /\ watched' = (c :> ev) @@ watched
    /\ UNCHANGED <<active, ready>>

Remove(c) ==
    /\ c \in DOMAIN watched /\ mask[c] = {}
    /\ watched' = [d \in DOMAIN watched \ {c} |-> watched[d]]
    /\ UNCHANGED <<mask, active, ready>>

Reported(c) == ready[Fd[c]] \cap (watched[c] \cup {"HUP"})
Due == {c \in DOMAIN watched : watched[c] # {} /\ Reported(c) # {}}

Poll ==
    /\ \E S \in SUBSET Due :
          /\ S # {} \/ Due = {}
          /\ active' = {<<c, Reported(c)>> : c \in S}
    /\ UNCHANGED <<mask, watched, ready>>

Ready ==
    /\ \E f \in Fds, r \in SUBSET ReadyEv : ready' = [ready EXCEPT ![f] = r]
    /\ UNCHANGED <<mask, watched, active>>

Next == Poll \/ Ready \/ \E c \in Chan : Update(c) \/ Remove(c)

Spec == Init /\ [][Next]_vars
=============================================================================
