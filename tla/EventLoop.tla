------------------------------- MODULE EventLoop -------------------------------
(***************************************************************************)
(* One EventLoop (EventLoop.cpp) from its constructor to the return of     *)
(* loop(): the owner thread that runs loop(), the other threads that call  *)
(* queueInLoop() and quit() on it, and the kernel objects between them (the *)
(* eventfd wakeupFd_ and the level-triggered epoll instance).              *)
(*                                                                         *)
(* A step is what one thread does without another being able to see the    *)
(* middle: the two critical sections of mutex_ (push_back and swap) are one *)
(* step each, and queueInLoop() and quit() called from another thread are  *)
(* two, because wakeup() comes after the shared write.                     *)
(*                                                                         *)
(* looping_ is the value of pc, iteration_ is written and never read.      *)
(***************************************************************************)
EXTENDS Naturals, SequencesExt

CONSTANTS
    Callers,         \* the threads, other than the owner, that hold the loop
    Functors,        \* the functors they and the callbacks can hand over
    Channels,        \* the I/O channels registered with the loop's poller
    WakeupChannel,   \* the channel of wakeupFd_
    NoChannel        \* currentActiveChannel_ = NULL

ASSUME ChannelsAssumption ==
    /\ WakeupChannel \notin Channels
    /\ NoChannel \notin Channels \cup {WakeupChannel}

VARIABLES
    pc,                      \* where the owner thread is in loop()
    callerPc,                \* where each caller is: "idle", or between the
                             \* shared write and its call of wakeup()
    quit,                    \* quit_
    callingPendingFunctors,  \* callingPendingFunctors_
    activeChannels,          \* activeChannels_, the kernel's order left open
    unhandled,               \* those the for loop of loop() has yet to visit
    currentActiveChannel,    \* currentActiveChannel_
    wakeupFd,                \* the counter of the eventfd
    ready,                   \* I/O channels whose fd has a pending event
    pendingFunctors,         \* pendingFunctors_
    functors,                \* the local vector of doPendingFunctors(), what
                             \* is left of it
    executed,                \* history: functors started, oldest first
    quitRequested            \* history: quit() was called

dispatchVars == <<activeChannels, unhandled, currentActiveChannel>>
batchVars == <<callingPendingFunctors, functors, executed>>
quitVars == <<quit, quitRequested>>
loopVars == <<pc, dispatchVars, batchVars>>
vars == <<loopVars, quitVars, callerPc, wakeupFd, ready, pendingFunctors>>

PcValues == {"constructed", "test", "poll", "dispatch", "handler", "swap",
             "run", "functor", "exited", "aborted"}

TypeOK ==
    /\ pc \in PcValues
    /\ callerPc \in [Callers -> {"idle", "wakeup"}]
    /\ quit \in BOOLEAN
    /\ callingPendingFunctors \in BOOLEAN
    /\ activeChannels \subseteq Channels \cup {WakeupChannel}
    /\ unhandled \subseteq activeChannels
    /\ currentActiveChannel \in Channels \cup {WakeupChannel, NoChannel}
    /\ currentActiveChannel # NoChannel => pc \in {"dispatch", "handler", "aborted"}
    /\ wakeupFd \in Nat
    /\ ready \subseteq Channels
    /\ pendingFunctors \in Seq(Functors)
    /\ functors \in Seq(Functors)
    /\ executed \in Seq(Functors)
    /\ quitRequested \in BOOLEAN

\* The constructor leaves callingPendingFunctors_ uninitialized: any value.
Init ==
    /\ pc = "constructed"
    /\ callerPc = [t \in Callers |-> "idle"]
    /\ quit = FALSE
    /\ callingPendingFunctors \in BOOLEAN
    /\ activeChannels = {}
    /\ unhandled = {}
    /\ currentActiveChannel = NoChannel
    /\ wakeupFd = 0
    /\ ready = {}
    /\ pendingFunctors = <<>>
    /\ functors = <<>>
    /\ executed = <<>>
    /\ quitRequested = FALSE

\* A functor is a closure made for the call: nobody hands it over twice.
Fresh(f) ==
    f \notin ToSet(pendingFunctors) \cup ToSet(functors) \cup ToSet(executed)

-------------------------------------------------------------------------------
(* The owner thread, in loop() and in what loop() calls.                   *)

\* loop() is entered, and forgets a quit() that came before.
EnterLoop ==
    /\ pc = "constructed"
    /\ pc' = "test"
    /\ quit' = FALSE
    /\ UNCHANGED <<dispatchVars, batchVars, quitRequested, callerPc,
                   wakeupFd, ready, pendingFunctors>>

\* while (!quit_)
TestQuit ==
    /\ pc = "test"
    /\ pc' = IF quit THEN "exited" ELSE "poll"
    /\ UNCHANGED <<dispatchVars, batchVars, quitVars, callerPc, wakeupFd,
                   ready, pendingFunctors>>

\* The channels epoll_wait() can report: wakeupFd_ is readable while its
\* counter is positive.
Pollable == ready \cup (IF wakeupFd > 0 THEN {WakeupChannel} ELSE {})

\* Mutant: the clear() at the top of the loop is missing.
FillActiveChannelsNoClear(S) == activeChannels \cup S

\* activeChannels_.clear(), then the channels of the events returned.
FillActiveChannels(S) == S

\* epoll_wait() returns with some of the pending events (at most the size of
\* the event list).
PollReturns(S) ==
    /\ pc = "poll"
    /\ pc' = "dispatch"
    /\ activeChannels' = FillActiveChannels(S)
    /\ unhandled' = activeChannels'
    /\ UNCHANGED <<batchVars, quitVars, currentActiveChannel, callerPc,
                   wakeupFd, ready, pendingFunctors>>

PollReady == \E S \in (SUBSET Pollable) \ {{}} : PollReturns(S)

\* kPollTimeMs has passed, or a signal came: no event.
PollTimeout == PollReturns({})

\* Channel::handleEvent() of wakeupChannel_: handleRead() reads the eventfd,
\* which is non-blocking, and aborts if that fails.
HandleWakeup ==
    /\ pc = "dispatch"
    /\ WakeupChannel \in unhandled
    /\ unhandled' = unhandled \ {WakeupChannel}
    /\ currentActiveChannel' = WakeupChannel
    /\ wakeupFd' = 0
    /\ pc' = IF wakeupFd > 0 THEN "dispatch" ELSE "aborted"
    /\ UNCHANGED <<batchVars, quitVars, activeChannels, callerPc, ready,
                   pendingFunctors>>

\* The callback of an I/O channel starts.
BeginHandler(ch) ==
    /\ pc = "dispatch"
    /\ ch \in unhandled \ {WakeupChannel}
    /\ unhandled' = unhandled \ {ch}
    /\ currentActiveChannel' = ch
    /\ pc' = "handler"
    /\ UNCHANGED <<batchVars, quitVars, activeChannels, callerPc, wakeupFd,
                   ready, pendingFunctors>>

\* It returns; it may or may not have used up what made the fd ready.
EndHandler ==
    /\ pc = "handler"
    /\ pc' = "dispatch"
    /\ ready' \in {ready, ready \ {currentActiveChannel}}
    /\ UNCHANGED <<dispatchVars, batchVars, quitVars, callerPc, wakeupFd,
                   pendingFunctors>>

\* Mutant: currentActiveChannel_ is left dangling.
AfterHandlersDangling == currentActiveChannel

\* currentActiveChannel_ = NULL
AfterHandlers == NoChannel

\* The for loop is over: doPendingFunctors() is entered.
BeginPendingFunctors ==
    /\ pc = "dispatch"
    /\ unhandled = {}
    /\ currentActiveChannel' = AfterHandlers
    /\ callingPendingFunctors' = TRUE
    /\ pc' = "swap"
    /\ UNCHANGED <<activeChannels, unhandled, quitVars, functors, executed,
                   callerPc, wakeupFd, ready, pendingFunctors>>

\* Mutant: the vector is copied instead of swapped.
PendingAfterCopy == pendingFunctors

\* What functors.swap(pendingFunctors_) leaves in pendingFunctors_.
PendingAfterSwap == functors

SwapFunctors ==
    /\ pc = "swap"
    /\ functors' = pendingFunctors
    /\ pendingFunctors' = PendingAfterSwap
    /\ pc' = "run"
    /\ UNCHANGED <<dispatchVars, quitVars, callingPendingFunctors, executed,
                   callerPc, wakeupFd, ready>>

BeginFunctor ==
    /\ pc = "run"
    /\ functors # <<>>
    /\ functors' = Tail(functors)
    /\ executed' = Append(executed, Head(functors))
    /\ pc' = "functor"
    /\ UNCHANGED <<dispatchVars, quitVars, callingPendingFunctors, callerPc,
                   wakeupFd, ready, pendingFunctors>>

EndFunctor ==
    /\ pc = "functor"
    /\ pc' = "run"
    /\ UNCHANGED <<dispatchVars, batchVars, quitVars, callerPc, wakeupFd,
                   ready, pendingFunctors>>

EndPendingFunctors ==
    /\ pc = "run"
    /\ functors = <<>>
    /\ callingPendingFunctors' = FALSE
    /\ pc' = "test"
    /\ UNCHANGED <<dispatchVars, quitVars, functors, executed, callerPc,
                   wakeupFd, ready, pendingFunctors>>

-------------------------------------------------------------------------------
(* What a callback or a functor, running in the owner thread, may call.    *)

InCallback == pc \in {"handler", "functor"}

\* Mutant: only other threads wake the loop up.
SelfWakeupNever == FALSE

\* if (!isInLoopThread() || callingPendingFunctors_) wakeup();
SelfWakeup == callingPendingFunctors

\* queueInLoop() from the owner thread; nobody else reads the eventfd, so the
\* push and the wakeup are one step.
QueueInOwnLoop(f) ==
    /\ InCallback
    /\ Fresh(f)
    /\ pendingFunctors' = Append(pendingFunctors, f)
    /\ wakeupFd' = IF SelfWakeup THEN wakeupFd + 1 ELSE wakeupFd
    /\ UNCHANGED <<loopVars, quitVars, callerPc, ready>>

\* quit() from the owner thread: no wakeup.
QuitOwnLoop ==
    /\ InCallback
    /\ ~quitRequested
    /\ quit' = TRUE
    /\ quitRequested' = TRUE
    /\ UNCHANGED <<loopVars, callerPc, wakeupFd, ready, pendingFunctors>>

-------------------------------------------------------------------------------
(* The other threads.                                                      *)

\* queueInLoop(), or runInLoop(), up to the end of the critical section.
QueueInLoop(t, f) ==
    /\ pc # "aborted"
    /\ callerPc[t] = "idle"
    /\ Fresh(f)
    /\ pendingFunctors' = Append(pendingFunctors, f)
    /\ callerPc' = [callerPc EXCEPT ![t] = "wakeup"]
    /\ UNCHANGED <<loopVars, quitVars, wakeupFd, ready>>

\* Mutant: quit() only stores.
AfterQuitStoreNoWakeup == "idle"

\* if (!isInLoopThread()) wakeup();
AfterQuitStore == "wakeup"

\* quit() up to the store; the program quits a loop once.
Quit(t) ==
    /\ pc # "aborted"
    /\ callerPc[t] = "idle"
    /\ ~quitRequested
    /\ quit' = TRUE
    /\ quitRequested' = TRUE
    /\ callerPc' = [callerPc EXCEPT ![t] = AfterQuitStore]
    /\ UNCHANGED <<loopVars, wakeupFd, ready, pendingFunctors>>

Wakeup(t) ==
    /\ pc # "aborted"
    /\ callerPc[t] = "wakeup"
    /\ wakeupFd' = wakeupFd + 1
    /\ callerPc' = [callerPc EXCEPT ![t] = "idle"]
    /\ UNCHANGED <<loopVars, quitVars, ready, pendingFunctors>>

\* The network makes a registered fd ready.
BecomeReady(ch) ==
    /\ pc \notin {"exited", "aborted"}
    /\ ch \notin ready
    /\ ready' = ready \cup {ch}
    /\ UNCHANGED <<loopVars, quitVars, callerPc, wakeupFd, pendingFunctors>>

-------------------------------------------------------------------------------
\* What the owner thread does by itself as long as it is scheduled.
OwnerProgress ==
    \/ EnterLoop
    \/ TestQuit
    \/ PollReady
    \/ HandleWakeup
    \/ \E ch \in Channels : BeginHandler(ch)
    \/ EndHandler
    \/ BeginPendingFunctors
    \/ SwapFunctors
    \/ BeginFunctor
    \/ EndFunctor
    \/ EndPendingFunctors

Next ==
    \/ OwnerProgress
    \/ PollTimeout
    \/ \E f \in Functors : QueueInOwnLoop(f)
    \/ QuitOwnLoop
    \/ \E t \in Callers, f \in Functors : QueueInLoop(t, f)
    \/ \E t \in Callers : Quit(t)
    \/ \E t \in Callers : Wakeup(t)
    \/ \E ch \in Channels : BecomeReady(ch)

Spec == Init /\ [][Next]_vars

\* The operating system schedules every thread.  The poll timeout is left out
\* on purpose: nothing below may depend on the ten seconds of kPollTimeMs.
Fairness ==
    /\ WF_vars(OwnerProgress)
    /\ \A t \in Callers : WF_vars(Wakeup(t))

FairSpec == Spec /\ Fairness
-------------------------------------------------------------------------------
\* Some caller has made its shared write and is about to write the eventfd.
WakeupComing == wakeupFd > 0 \/ \E t \in Callers : callerPc[t] = "wakeup"

\* The owner never sleeps in epoll_wait() on work: while it is there, functors
\* in pendingFunctors_ or a set quit_ come with a wakeup that has been written
\* or is about to be.  It is about the order of swap, run and test in loop()
\* against the two steps of queueInLoop() and quit().
NoSleepOnWork ==
    pc = "poll" /\ (pendingFunctors # <<>> \/ quit) => WakeupComing

\* handleRead() never reads an empty eventfd: EventLoop::handleRead() would
\* abort the process.
WakeupReadSucceeds == pc # "aborted"

\* quit_, once set while the loop runs, ends it, whatever the timeout of the
\* poll: EventLoop::quit() wakes the owner.
QuitEndsLoop == quit /\ pc # "constructed" ~> pc = "exited"

\* The contract of queueInLoop(): functors run in the order they were handed
\* over, and each is eventually run unless the loop is quit.
Executor == INSTANCE SerialExecutor WITH
    queue     <- functors \o pendingFunctors,
    stopAsked <- quitRequested,
    stopped   <- pc = "exited"

ImplementsExecutor == Executor!FairSpec
===============================================================================
