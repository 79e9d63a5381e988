---------------------------- MODULE EpollPoller ----------------------------
(***************************************************************************)
(* EpollPoller (EpollPoller.cc), the default poller.  Its own state: the  *)
(* per-channel index kNew/kAdded/kDeleted, the map channels_ from fd to    *)
(* channel, and the capacity of the events_ array; and the kernel's:      *)
(* the interest list of the epoll instance, fd -> [ev, ptr] where ptr is   *)
(* event.data.ptr.  epoll_ctl is modelled by what the kernel does with it: *)
(* ADD of a listed fd fails with EEXIST, MOD or DEL of an unlisted fd      *)
(* with ENOENT; a failure leaves the list as it was and is recorded.       *)
(* Closing an fd drops it from every interest list.                        *)
(***************************************************************************)
EXTENDS Channel

CONSTANTS
    kInitEventListSize,  \* EpollPoller.h 22: 16
    NDEBUG               \* built with asserts compiled out

VARIABLES
    epIndex,     \* epIndex[c]: channel->index()
    epChannels,  \* channels_: fd -> channel
    kernel,      \* the epoll interest list: fd -> [ev, ptr]
    ctlFailed,   \* some epoll_ctl returned < 0
    evCap,       \* events_.size()
    epActive     \* the channels the last poll() returned, with revents

epVars == <<epIndex, epChannels, kernel, ctlFailed, evCap, epActive>>

EpollInit ==
    /\ epIndex = [c \in Chan |-> "kNew"]
    /\ epChannels = <<>>
    /\ kernel = <<>>
    /\ ctlFailed = FALSE
    /\ evCap = kInitEventListSize
    /\ epActive = {}

\* updateEpoll(op, channel): epoll_ctl with events_ and ptr = channel
UpdateEpoll(op, c, ev) ==
    LET fd == Fd[c]
        ok == IF op = "ADD" THEN fd \notin DOMAIN kernel ELSE fd \in DOMAIN kernel
    IN  /\ kernel' = CASE ~ok        -> kernel
                       [] op = "DEL" -> Erase(kernel, fd)
                       [] OTHER      -> (fd :> [ev |-> ev, ptr |-> c]) @@ kernel
        /\ ctlFailed' = (ctlFailed \/ ~ok)

\* mutant: an empty mask is sent as MOD, and the index stays kAdded
EpollUpdateChannelModOnly(c, ev) ==
    /\ \/ /\ epIndex[c] \in {"kNew", "kDeleted"}
          /\ epChannels' = IF epIndex[c] = "kNew" THEN (Fd[c] :> c) @@ epChannels
                                                  ELSE epChannels
          /\ epIndex' = [epIndex EXCEPT ![c] = "kAdded"]
          /\ UpdateEpoll("ADD", c, ev)
       \/ /\ epIndex[c] = "kAdded"
          /\ UpdateEpoll("MOD", c, ev)
          /\ UNCHANGED <<epIndex, epChannels>>
    /\ UNCHANGED <<evCap, epActive>>

\* updateChannel(channel) with channel->events() = ev
EpollUpdateChannel(c, ev) ==
    /\ \/ /\ epIndex[c] \in {"kNew", "kDeleted"}
          /\ epChannels' = IF epIndex[c] = "kNew" THEN (Fd[c] :> c) @@ epChannels
                                                  ELSE epChannels
          /\ epIndex' = [epIndex EXCEPT ![c] = "kAdded"]
          /\ UpdateEpoll("ADD", c, ev)
       \/ /\ epIndex[c] = "kAdded"
          /\ epIndex' = [epIndex EXCEPT ![c] = IF ev = kNoneEvent THEN "kDeleted" ELSE @]
          /\ UpdateEpoll(IF ev = kNoneEvent THEN "DEL" ELSE "MOD", c, ev)
          /\ UNCHANGED epChannels
    /\ UNCHANGED <<evCap, epActive>>

\* mutant: DEL whatever the index
EpollRemoveChannelAlwaysDel(c) ==
    /\ epChannels' = IF NDEBUG THEN epChannels ELSE Erase(epChannels, Fd[c])
    /\ UpdateEpoll("DEL", c, kNoneEvent)
    /\ epIndex' = [epIndex EXCEPT ![c] = "kNew"]
    /\ UNCHANGED <<evCap, epActive>>

\* removeChannel(channel): the erase sits inside assert()
EpollRemoveChannel(c) ==
    /\ epChannels' = IF NDEBUG THEN epChannels ELSE Erase(epChannels, Fd[c])
    /\ IF epIndex[c] = "kAdded" THEN UpdateEpoll("DEL", c, kNoneEvent)
                                ELSE UNCHANGED <<kernel, ctlFailed>>
    /\ epIndex' = [epIndex EXCEPT ![c] = "kNew"]
    /\ UNCHANGED <<evCap, epActive>>

\* the kernel drops a closed fd from the interest list
EpollClose(f) ==
    /\ kernel' = Erase(kernel, f)
    /\ UNCHANGED <<epIndex, epChannels, ctlFailed, evCap, epActive>>

EpReported(f) == ready[f] \cap (kernel[f].ev \cup {"HUP"})
EpDue == {f \in DOMAIN kernel : EpReported(f) # {}}

\* poll(): epoll_wait returns at most events_.size() of the ready fds,
\* fillActiveChannels maps each back through data.ptr, and a full array
\* doubles.  Nothing ready: the timeout, numEvents = 0.
EpollPoll ==
    /\ \E S \in SUBSET EpDue :
          /\ Cardinality(S) = IF Cardinality(EpDue) < evCap THEN Cardinality(EpDue) ELSE evCap
          /\ epActive' = {<<kernel[f].ptr, EpReported(f)>> : f \in S}
          /\ evCap' = IF S # {} /\ Cardinality(S) = evCap THEN 2 * evCap ELSE evCap
    /\ UNCHANGED <<epIndex, epChannels, kernel, ctlFailed>>
=============================================================================
