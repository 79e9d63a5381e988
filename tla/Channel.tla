------------------------------ MODULE Channel ------------------------------
(***************************************************************************)
(* The state a Channel (Channel.h/.cc) shares with its poller: the fd it   *)
(* is bound to, its interest mask events_, and where it is in the life     *)
(* the program gives every channel (TcpConnection, Acceptor, the wakeup    *)
(* and timer channels): constructed, enableReading() once, writing turned  *)
(* on and off, disableAll(), remove(), then the owner closes the fd and a  *)
(* later channel may be bound to the same fd number.  Readiness of the    *)
(* fds belongs to the kernel and is the environment's.                     *)
(***************************************************************************)
EXTENDS Integers, FiniteSets, Functions, TLC

CONSTANTS
    Chan,       \* the channels
    Fd,         \* Fd[c]: the fd channel c is constructed with; several
                \* channels may share one fd number, one after another
    Readiness   \* the sets of events the kernel may have pending on an fd

\* Channel.cc 11-13, as sets of poll(2) bits
kNoneEvent  == {}
kReadEvent  == {"IN", "PRI"}
kWriteEvent == {"OUT"}
Interest    == kReadEvent \cup kWriteEvent
\* what the kernel may report on an fd: HUP is reported whatever the mask
ReadyEv     == {"IN", "OUT", "HUP"}

Fds == Range(Fd)

\* std::map::erase(k) on a map modelled as a function
Erase(f, k) == Restrict(f, DOMAIN f \ {k})

ASSUME Fd \in [Chan -> Nat] /\ Readiness \subseteq SUBSET ReadyEv

VARIABLES
    mask,       \* mask[c]: events_
    phase,      \* "unborn", "created", "added" (addedToLoop_),
                \* "removed", "closed" (the owner closed the fd)
    ready       \* ready[f]: the events pending on fd f

chanVars == <<mask, phase, ready>>

Phases == {"unborn", "created", "added", "removed", "closed"}

ChannelInit ==
    /\ mask = [c \in Chan |-> kNoneEvent]
    /\ phase = [c \in Chan |-> "unborn"]
    /\ ready = [f \in Fds |-> {}]

\* a channel may be constructed on an fd no open channel holds
FdFree(c) == \A d \in Chan : Fd[d] = Fd[c] => phase[d] \in {"unborn", "closed"}
=============================================================================
