------------------------------ MODULE Poller -------------------------------
(***************************************************************************)
(* The channel API (Channel.h 42-46, Channel.cc 69-78) driving both       *)
(* pollers.  Every interest change is Channel::update(): the new mask,     *)
(* addedToLoop_, then EventLoop::updateChannel -> Poller::updateChannel;   *)
(* remove() is EventLoop::removeChannel -> Poller::removeChannel.  The two *)
(* implementations (Poller::newDefaultPoller picks one by USE_POLL) are    *)
(* driven in lockstep by the same calls, so one behaviour shows both; each *)
(* is checked against PollerContract through its own refinement mapping.  *)
(*                                                                         *)
(* The calls are those the program makes (TcpConnection.cc 44-56, 101-102, *)
(* 148, 171; EventLoop.cc 44, 51-52; Acceptor and TimerQueue alike): once  *)
(* constructed, enableReading(); writing is turned on when off and off     *)
(* when on, while the channel reads; disableAll(); remove(); the owner then *)
(* closes the fd.  With Reenable, every public mask operation may be      *)
(* called in any order, as the Channel interface allows.                   *)
(***************************************************************************)
EXTENDS EpollPoller, PollPoller

CONSTANT Reenable

vars == <<chanVars, epVars, plVars>>

Init == ChannelInit /\ EpollInit /\ PollInit

\* Channel::update() with the new events_ = ev
Update(c, ev) ==
    /\ mask' = [mask EXCEPT ![c] = ev]
    /\ phase' = [phase EXCEPT ![c] = "added"]
    /\ EpollUpdateChannel(c, ev)
    /\ PollUpdateChannel(c, ev)
    /\ UNCHANGED ready

\* new Channel(loop, fd)
Create(c) ==
    /\ phase[c] = "unborn" /\ FdFree(c)
    /\ phase' = [phase EXCEPT ![c] = "created"]
    /\ UNCHANGED <<mask, ready, epVars, plVars>>

EnableReading(c) ==
    /\ phase[c] = "created" \/ (Reenable /\ phase[c] = "added")
    /\ Update(c, mask[c] \cup kReadEvent)

\* sendInLoop: if (!channel_->isWriting()) channel_->enableWriting()
EnableWriting(c) ==
    /\ phase[c] = "added" /\ kWriteEvent \cap mask[c] = {}
    /\ mask[c] # kNoneEvent \/ Reenable
    /\ Update(c, mask[c] \cup kWriteEvent)

\* handleWrite: if (channel_->isWriting()) ... channel_->disableWriting()
DisableWriting(c) ==
    /\ phase[c] = "added" /\ kWriteEvent \subseteq mask[c]
    /\ Update(c, mask[c] \ kWriteEvent)

DisableAll(c) ==
    /\ phase[c] = "added"
    /\ mask[c] # kNoneEvent \/ Reenable
    /\ Update(c, kNoneEvent)

\* Channel::remove(): assert(isNoneEvent()), then the poller forgets it
Remove(c) ==
    /\ phase[c] = "added" /\ mask[c] = kNoneEvent
    /\ phase' = [phase EXCEPT ![c] = "removed"]
    /\ EpollRemoveChannel(c)
    /\ PollRemoveChannel(c)
    /\ UNCHANGED <<mask, ready>>

\* the owner (Socket, eventfd, timerfd) closes the fd
Close(c) ==
    /\ phase[c] = "removed"
    /\ phase' = [phase EXCEPT ![c] = "closed"]
    /\ EpollClose(Fd[c])
    /\ ready' = [ready EXCEPT ![Fd[c]] = {}]
    /\ UNCHANGED <<mask, plVars>>

\* the kernel: readiness of an fd a live channel holds changes
Ready ==
    /\ \E c \in Chan, r \in Readiness :
          /\ phase[c] = "added"
          /\ ready' = [ready EXCEPT ![Fd[c]] = r]
    /\ UNCHANGED <<mask, phase, epVars, plVars>>

\* EventLoop::loop(): poller_->poll(kPollTimeMs, &activeChannels_)
Poll == EpollPoll /\ PollPoll /\ UNCHANGED chanVars

Next ==
    \/ Ready
    \/ Poll
    \/ \E c \in Chan :
          \/ Create(c) \/ EnableReading(c) \/ EnableWriting(c)
          \/ DisableWriting(c) \/ DisableAll(c) \/ Remove(c) \/ Close(c)

Spec == Init /\ [][Next]_vars

-----------------------------------------------------------------------------
(***************************************************************************)
(* Refinement mappings.  What each poller makes the kernel watch for a     *)
(* channel it holds in channels_: the epoll list entry for its fd that     *)
(* points back to it, or the pollfd poll(2) will look at for its fd.       *)
(***************************************************************************)
EpWatched ==
    [c \in Range(epChannels) |->
        IF Fd[c] \in DOMAIN kernel /\ kernel[Fd[c]].ptr = c THEN kernel[Fd[c]].ev
                                                            ELSE kNoneEvent]

PlWatched ==
    [c \in Range(plChannels) |->
        LET at == {k \in 1..Len(pollfds) : pollfds[k].fd = Fd[c]}
        IN  IF at = {} THEN kNoneEvent ELSE pollfds[CHOOSE k \in at : TRUE].events]

Epoll == INSTANCE PollerContract WITH watched <- EpWatched, active <- epActive
Poll2 == INSTANCE PollerContract WITH watched <- PlWatched, active <- plActive

-----------------------------------------------------------------------------
TypeOK ==
    /\ mask \in [Chan -> SUBSET Interest]
    /\ phase \in [Chan -> Phases]
    /\ epIndex \in [Chan -> {"kNew", "kAdded", "kDeleted"}]
    \* an index into pollfds_, which never holds more than one entry per fd
    /\ plIndex \in [Chan -> -1..Cardinality(Fds) - 1]
    /\ Len(pollfds) <= Cardinality(Fds)

(***************************************************************************)
(* No epoll_ctl fails: the kNew/kAdded/kDeleted index of updateChannel and *)
(* removeChannel always matches what the kernel list holds, so ADD never   *)
(* meets EEXIST (LOG_SYSFATAL) and MOD/DEL never ENOENT.                   *)
(***************************************************************************)
NoCtlError == ~ctlFailed

(***************************************************************************)
(* PollPoller's asserts (PollPoller.cc 72, 74, 91-92) hold: the index      *)
(* of every channel in channels_ names the pollfd of its fd, plain or      *)
(* encoded -fd-1, and pollfds_ has one entry per channel; the swap in      *)
(* removeChannel keeps this for the channel it moves.                      *)
(***************************************************************************)
PollIndexConsistent ==
    /\ Len(pollfds) = Cardinality(DOMAIN plChannels)
    /\ \A f \in DOMAIN plChannels :
          LET c == plChannels[f] IN
          /\ Fd[c] = f
          /\ plIndex[c] \in 0..Len(pollfds) - 1
          /\ pollfds[plIndex[c] + 1].fd \in {f, Ignored(f)}

(***************************************************************************)
(* EpollPoller implements the poller contract: after each updateChannel    *)
(* the kernel watches exactly the channel's mask, removeChannel forgets   *)
(* it, and poll() returns, through data.ptr, channels whose watched fd is  *)
(* ready, at least one when one is.                                       *)
(***************************************************************************)
EpollImplementsContract == Epoll!Spec

(***************************************************************************)
(* PollPoller implements the same contract through its pollfd array.       *)
(***************************************************************************)
PollImplementsContract == Poll2!Spec
=============================================================================
