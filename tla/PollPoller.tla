---------------------------- MODULE PollPoller -----------------------------
(***************************************************************************)
(* PollPoller (PollPoller.cc), chosen when USE_POLL is set.  Its state:   *)
(* the pollfd array pollfds_ (a sequence of [fd, events]; revents is      *)
(* computed by poll(2) from the readiness of the fds), the map channels_  *)
(* from fd to channel, and each channel's index into pollfds_, 0-based as  *)
(* in the code and -1 for a new channel.  A channel with no interest is    *)
(* kept in the array under the fd -fd-1, which poll(2) skips.              *)
(***************************************************************************)
EXTENDS Channel, Sequences

VARIABLES
    pollfds,     \* pollfds_
    plChannels,  \* channels_: fd -> channel
    plIndex,     \* plIndex[c]: channel->index()
    plActive     \* the channels the last poll() returned, with revents

plVars == <<pollfds, plChannels, plIndex, plActive>>

PollInit ==
    /\ pollfds = <<>>
    /\ plChannels = <<>>
    /\ plIndex = [c \in Chan |-> -1]
    /\ plActive = {}

Ignored(fd) == -fd - 1

\* mutant: the index() < 0 test is lost and every update pushes a pollfd
PollUpdateChannelAlwaysPush(c, ev) ==
    /\ pollfds' = Append(pollfds, [fd |-> Fd[c], events |-> ev])
    /\ plIndex' = [plIndex EXCEPT ![c] = Len(pollfds)]
    /\ plChannels' = (Fd[c] :> c) @@ plChannels
    /\ UNCHANGED plActive

\* mutant: an empty mask leaves pfd.fd as it is
PollUpdateChannelNoIgnore(c, ev) ==
    /\ \/ /\ plIndex[c] < 0
          /\ pollfds' = Append(pollfds, [fd |-> Fd[c], events |-> ev])
          /\ plIndex' = [plIndex EXCEPT ![c] = Len(pollfds)]
          /\ plChannels' = (Fd[c] :> c) @@ plChannels
       \/ /\ plIndex[c] >= 0
          /\ pollfds' = [pollfds EXCEPT ![plIndex[c] + 1].events = ev]
          /\ UNCHANGED <<plIndex, plChannels>>
    /\ UNCHANGED plActive

\* updateChannel(channel) with channel->events() = ev
PollUpdateChannel(c, ev) ==
    /\ \/ /\ plIndex[c] < 0
          /\ pollfds' = Append(pollfds, [fd |-> Fd[c], events |-> ev])
          /\ plIndex' = [plIndex EXCEPT ![c] = Len(pollfds)]
          /\ plChannels' = (Fd[c] :> c) @@ plChannels
       \/ /\ plIndex[c] >= 0
          \* pfd.fd keeps its value unless the mask is empty
          /\ pollfds' = [pollfds EXCEPT ![plIndex[c] + 1] =
                            [fd |-> IF ev = kNoneEvent THEN Ignored(Fd[c]) ELSE @.fd,
                             events |-> ev]]
          /\ UNCHANGED <<plIndex, plChannels>>
    /\ UNCHANGED plActive

\* mutant: the moved channel keeps its old index
PollRemoveChannelNoReindex(c) ==
    LET idx  == plIndex[c]
        last == pollfds[Len(pollfds)]
    IN  /\ plChannels' = Erase(plChannels, Fd[c])
        /\ pollfds' = IF idx = Len(pollfds) - 1
                      THEN SubSeq(pollfds, 1, Len(pollfds) - 1)
                      ELSE [SubSeq(pollfds, 1, Len(pollfds) - 1) EXCEPT ![idx + 1] = last]
        /\ UNCHANGED <<plIndex, plActive>>

\* removeChannel(channel): the last pollfd moves into the freed slot and
\* its channel, found through the decoded fd, gets the slot's index
PollRemoveChannel(c) ==
    LET idx      == plIndex[c]
        last     == pollfds[Len(pollfds)]
        fdAtEnd  == IF last.fd < 0 THEN -last.fd - 1 ELSE last.fd
        chans    == Erase(plChannels, Fd[c])
    IN  /\ plChannels' = chans
        /\ IF idx = Len(pollfds) - 1
           THEN /\ pollfds' = SubSeq(pollfds, 1, Len(pollfds) - 1)
                /\ UNCHANGED plIndex
           ELSE /\ pollfds' = [SubSeq(pollfds, 1, Len(pollfds) - 1) EXCEPT ![idx + 1] = last]
                /\ plIndex' = [plIndex EXCEPT ![chans[fdAtEnd]] = idx]
        /\ UNCHANGED plActive

\* fds poll(2) looks at, and the revents it sets: the ready events asked
\* for, and HUP whatever was asked
PlReported(p) == ready[p.fd] \cap (p.events \cup {"HUP"})
PlDue == {k \in 1..Len(pollfds) : pollfds[k].fd >= 0 /\ PlReported(pollfds[k]) # {}}

\* poll(): fillActiveChannels takes every pollfd with revents, in order
PollPoll ==
    /\ plActive' = {<<plChannels[pollfds[k].fd], PlReported(pollfds[k])>> : k \in PlDue}
    /\ UNCHANGED <<pollfds, plChannels, plIndex>>
=============================================================================
