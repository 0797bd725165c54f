---------------------------- MODULE EventLoopProofs ----------------------------
(***************************************************************************)
(* Proofs about EventLoop for any set of callers, functors and channels.   *)
(***************************************************************************)
EXTENDS EventLoop, TLAPS

\* The constructor leaves the EventLoop well typed.
LEMMA TypeInit == Init => TypeOK
<1> SUFFICES ASSUME Init PROVE TypeOK
  OBVIOUS
<1>1. callerPc \in [Callers -> {"idle", "wakeup"}]
  BY DEF Init
<1>2. callingPendingFunctors \in BOOLEAN
  BY Zenon DEF Init
<1>3. pc \in PcValues /\ wakeupFd \in Nat
  BY DEF Init, PcValues
<1>4. /\ pendingFunctors \in Seq(Functors)
    /\ functors \in Seq(Functors)
    /\ executed \in Seq(Functors)
  BY DEF Init
<1>5. quit \in BOOLEAN /\ quitRequested \in BOOLEAN
  BY Zenon DEF Init
<1>6. /\ activeChannels \subseteq Channels \cup {WakeupChannel}
    /\ unhandled \subseteq activeChannels
    /\ currentActiveChannel = NoChannel
    /\ ready \subseteq Channels
  BY DEF Init
<1>7. QED
  BY <1>1, <1>2, <1>3, <1>4, <1>5, <1>6 DEF TypeOK

\* No step of the owner or of a caller leaves the types.
LEMMA TypeStep == TypeOK /\ [Next]_vars => TypeOK'
<1> SUFFICES ASSUME TypeOK, [Next]_vars PROVE TypeOK'
  OBVIOUS
<1> USE DEF TypeOK, PcValues, loopVars, dispatchVars, batchVars, quitVars
<1>1. CASE EnterLoop
  BY <1>1 DEF EnterLoop
<1>2. CASE TestQuit
  BY <1>2 DEF TestQuit
<1>3. ASSUME NEW S \in SUBSET Pollable, PollReturns(S) PROVE TypeOK'
  BY <1>3 DEF PollReturns, Pollable, FillActiveChannels
<1>4. CASE HandleWakeup
  BY <1>4 DEF HandleWakeup
<1>5. ASSUME NEW ch \in Channels, BeginHandler(ch) PROVE TypeOK'
  BY <1>5 DEF BeginHandler
<1>6. CASE EndHandler
  BY <1>6 DEF EndHandler
<1>7. CASE BeginPendingFunctors
  BY <1>7 DEF BeginPendingFunctors, AfterHandlers
<1>8. CASE SwapFunctors
  BY <1>8 DEF SwapFunctors, PendingAfterSwap
<1>9. CASE BeginFunctor
  BY <1>9 DEF BeginFunctor
<1>10. CASE EndFunctor
  BY <1>10 DEF EndFunctor
<1>11. CASE EndPendingFunctors
  BY <1>11 DEF EndPendingFunctors
<1>12. ASSUME NEW f \in Functors, QueueInOwnLoop(f) PROVE TypeOK'
  BY <1>12 DEF QueueInOwnLoop
<1>13. CASE QuitOwnLoop
  BY <1>13 DEF QuitOwnLoop
<1>14. ASSUME NEW t \in Callers, NEW f \in Functors, QueueInLoop(t, f)
       PROVE TypeOK'
  BY <1>14 DEF QueueInLoop
<1>15. ASSUME NEW t \in Callers, Quit(t) PROVE TypeOK'
  BY <1>15 DEF Quit, AfterQuitStore
<1>16. ASSUME NEW t \in Callers, Wakeup(t) PROVE TypeOK'
  BY <1>16 DEF Wakeup
<1>17. ASSUME NEW ch \in Channels, BecomeReady(ch) PROVE TypeOK'
  BY <1>17 DEF BecomeReady
<1>18. CASE UNCHANGED vars
  BY <1>18 DEF vars
<1>19. QED
  BY <1>1, <1>2, <1>3, <1>4, <1>5, <1>6, <1>7, <1>8, <1>9, <1>10, <1>11,
     <1>12, <1>13, <1>14, <1>15, <1>16, <1>17, <1>18
     DEF Next, OwnerProgress, PollReady, PollTimeout

\* EventLoop's state keeps its types in every reachable state, whatever the
\* order in which the owner and the callers take their steps.
THEOREM TypeCorrect == Spec => []TypeOK
  BY TypeInit, TypeStep, PTL DEF Spec

-------------------------------------------------------------------------------
(* The inductive strengthening of NoSleepOnWork and WakeupReadSucceeds.     *)

\* While doPendingFunctors() runs, a functor that queues another one writes
\* the eventfd.
CallingInv == pc \in {"swap", "run", "functor"} => callingPendingFunctors

\* The local vector of doPendingFunctors() is used up when the call is over.
BatchInv == pc \notin {"run", "functor"} => functors = <<>>

\* From the swap to the next dispatch, what is pushed keeps its wakeup: the
\* eventfd is read only while the events are dispatched, before the swap.
PendingInv ==
    pc \in {"constructed", "test", "poll", "run", "functor"}
        /\ pendingFunctors # <<>> => WakeupComing

QuitInv == pc = "poll" /\ quit => WakeupComing

\* The owner alone reads the eventfd, once per report of epoll_wait().
UnreadInv == WakeupChannel \in unhandled => wakeupFd > 0

IInv ==
    /\ TypeOK
    /\ CallingInv
    /\ BatchInv
    /\ PendingInv
    /\ QuitInv
    /\ UnreadInv
    /\ WakeupReadSucceeds

\* No step disturbs the inductive invariant of the wakeup protocol.
LEMMA IInvStep == IInv /\ [Next]_vars => IInv'
<1> SUFFICES ASSUME IInv, [Next]_vars PROVE IInv'
  OBVIOUS
<1> USE DEF IInv, CallingInv, BatchInv, PendingInv, QuitInv, UnreadInv,
            WakeupReadSucceeds, WakeupComing, TypeOK, PcValues,
            loopVars, dispatchVars, batchVars, quitVars
<1>0. TypeOK'
  BY TypeStep
<1>1. CASE EnterLoop
  BY <1>0, <1>1 DEF EnterLoop
<1>2. CASE TestQuit
  BY <1>0, <1>2 DEF TestQuit
<1>3. ASSUME NEW S \in SUBSET Pollable, PollReturns(S) PROVE IInv'
  <2>1. WakeupChannel \in S => wakeupFd > 0
    BY ChannelsAssumption DEF Pollable
  <2>2. UnreadInv'
    BY <1>3, <2>1 DEF PollReturns, FillActiveChannels
  <2>3. QED
    BY <1>0, <1>3, <2>2 DEF PollReturns
<1>4. CASE HandleWakeup
  BY <1>0, <1>4 DEF HandleWakeup
<1>5. ASSUME NEW ch \in Channels, BeginHandler(ch) PROVE IInv'
  BY <1>0, <1>5 DEF BeginHandler
<1>6. CASE EndHandler
  BY <1>0, <1>6 DEF EndHandler
<1>7. CASE BeginPendingFunctors
  BY <1>0, <1>7 DEF BeginPendingFunctors, AfterHandlers
<1>8. CASE SwapFunctors
  BY <1>0, <1>8 DEF SwapFunctors, PendingAfterSwap
<1>9. CASE BeginFunctor
  BY <1>0, <1>9 DEF BeginFunctor
<1>10. CASE EndFunctor
  BY <1>0, <1>10 DEF EndFunctor
<1>11. CASE EndPendingFunctors
  BY <1>0, <1>11 DEF EndPendingFunctors
<1>12. ASSUME NEW f \in Functors, QueueInOwnLoop(f) PROVE IInv'
  BY <1>0, <1>12 DEF QueueInOwnLoop, InCallback, SelfWakeup
<1>13. CASE QuitOwnLoop
  BY <1>0, <1>13 DEF QuitOwnLoop, InCallback
<1>14. ASSUME NEW t \in Callers, NEW f \in Functors, QueueInLoop(t, f)
       PROVE IInv'
  BY <1>0, <1>14 DEF QueueInLoop
<1>15. ASSUME NEW t \in Callers, Quit(t) PROVE IInv'
  BY <1>0, <1>15 DEF Quit, AfterQuitStore
<1>16. ASSUME NEW t \in Callers, Wakeup(t) PROVE IInv'
  BY <1>0, <1>16 DEF Wakeup
<1>17. ASSUME NEW ch \in Channels, BecomeReady(ch) PROVE IInv'
  BY <1>0, <1>17 DEF BecomeReady
<1>18. CASE UNCHANGED vars
  BY <1>0, <1>18 DEF vars
<1>19. QED
  BY <1>1, <1>2, <1>3, <1>4, <1>5, <1>6, <1>7, <1>8, <1>9, <1>10, <1>11,
     <1>12, <1>13, <1>14, <1>15, <1>16, <1>17, <1>18
     DEF Next, OwnerProgress, PollReady, PollTimeout

LEMMA InitIInv == Init => IInv
<1> SUFFICES ASSUME Init PROVE IInv
  OBVIOUS
<1>1. TypeOK
  BY TypeInit
<1>2. QED
  BY <1>1 DEF Init, IInv, CallingInv, BatchInv, PendingInv, QuitInv,
              UnreadInv, WakeupReadSucceeds

LEMMA IInvariant == Spec => []IInv
  BY InitIInv, IInvStep, PTL DEF Spec

\* The owner of an EventLoop never sleeps in epoll_wait() while a functor is
\* pending or quit_ is set, unless a wakeup is in the eventfd or on its way:
\* the order of the steps of loop(), queueInLoop() and quit() loses none.
THEOREM NoLostWakeup == Spec => []NoSleepOnWork
<1>1. IInv => NoSleepOnWork
  BY DEF IInv, NoSleepOnWork, PendingInv, QuitInv
<1>2. QED
  BY <1>1, IInvariant, PTL

\* EventLoop::handleRead() is called only with a positive eventfd counter, so
\* its abort() is never reached.
THEOREM WakeupReadNeverAborts == Spec => []WakeupReadSucceeds
<1>1. IInv => WakeupReadSucceeds
  BY DEF IInv
<1>2. QED
  BY <1>1, IInvariant, PTL

-------------------------------------------------------------------------------
(* EventLoop implements SerialExecutor.                                    *)

LEMMA ConcatElements ==
    ASSUME NEW S, NEW s \in Seq(S), NEW t \in Seq(S)
    PROVE  ToSet(s \o t) = ToSet(s) \cup ToSet(t)
<1>1. ASSUME NEW x \in ToSet(s \o t) PROVE x \in ToSet(s) \cup ToSet(t)
  <2>1. PICK i \in 1 .. Len(s) + Len(t) : x = (s \o t)[i]
    BY <1>1 DEF ToSet
  <2>2. CASE i <= Len(s)
    BY <2>1, <2>2 DEF ToSet
  <2>3. CASE i > Len(s)
    <3>1. i - Len(s) \in 1 .. Len(t) /\ x = t[i - Len(s)]
      BY <2>1, <2>3
    <3>2. QED
      BY <3>1 DEF ToSet
  <2>4. QED
    BY <2>2, <2>3
<1>2. ASSUME NEW x \in ToSet(s) PROVE x \in ToSet(s \o t)
  <2>1. PICK i \in 1 .. Len(s) : x = s[i]
    BY <1>2 DEF ToSet
  <2>2. i \in 1 .. Len(s) + Len(t) /\ x = (s \o t)[i]
    BY <2>1
  <2>3. QED
    BY <2>2 DEF ToSet
<1>3. ASSUME NEW x \in ToSet(t) PROVE x \in ToSet(s \o t)
  <2>1. PICK i \in 1 .. Len(t) : x = t[i]
    BY <1>3 DEF ToSet
  <2>2. Len(s) + i \in 1 .. Len(s) + Len(t) /\ x = (s \o t)[Len(s) + i]
    BY <2>1
  <2>3. QED
    BY <2>2 DEF ToSet
<1>4. QED
  BY <1>1, <1>2, <1>3

LEMMA ConcatAppend ==
    ASSUME NEW S, NEW s \in Seq(S), NEW t \in Seq(S), NEW e \in S
    PROVE  s \o Append(t, e) = Append(s \o t, e)
  OBVIOUS

LEMMA ConcatTail ==
    ASSUME NEW S, NEW s \in Seq(S), NEW t \in Seq(S), s # <<>>
    PROVE  /\ s \o t # <<>>
           /\ Head(s \o t) = Head(s)
           /\ Tail(s \o t) = Tail(s) \o t
  OBVIOUS

LEMMA ConcatEmpty ==
    ASSUME NEW S, NEW s \in Seq(S)
    PROVE  s \o <<>> = s /\ <<>> \o s = s
  OBVIOUS

\* quit_ is only ever set by a call of quit().
RefInv == IInv /\ (quit => quitRequested)

LEMMA RefInvariant == Spec => []RefInv
<1>1. Init => RefInv
  <2>1. Init => (quit => quitRequested)
    BY DEF Init
  <2>2. QED
    BY <2>1, InitIInv DEF RefInv
<1>2. RefInv /\ [Next]_vars => RefInv'
  <2> SUFFICES ASSUME RefInv, [Next]_vars PROVE (quit => quitRequested)'
    BY IInvStep DEF RefInv
  <2> USE DEF RefInv, quitVars
  <2>1. CASE UNCHANGED vars
    BY <2>1 DEF vars
  <2>2. CASE OwnerProgress \/ PollTimeout
    BY <2>2 DEF OwnerProgress, PollReady, PollTimeout, EnterLoop, TestQuit,
         PollReturns, HandleWakeup, BeginHandler, EndHandler,
         BeginPendingFunctors, SwapFunctors, BeginFunctor, EndFunctor,
         EndPendingFunctors
  <2>3. ASSUME NEW f \in Functors, QueueInOwnLoop(f)
        PROVE  (quit => quitRequested)'
    BY <2>3 DEF QueueInOwnLoop
  <2>4. CASE QuitOwnLoop
    BY <2>4 DEF QuitOwnLoop
  <2>5. ASSUME NEW t \in Callers, NEW f \in Functors, QueueInLoop(t, f)
        PROVE  (quit => quitRequested)'
    BY <2>5 DEF QueueInLoop
  <2>6. ASSUME NEW t \in Callers, Quit(t) \/ Wakeup(t)
        PROVE  (quit => quitRequested)'
    BY <2>6 DEF Quit, Wakeup
  <2>7. ASSUME NEW ch \in Channels, BecomeReady(ch)
        PROVE  (quit => quitRequested)'
    BY <2>7 DEF BecomeReady
  <2>8. QED
    BY <2>1, <2>2, <2>3, <2>4, <2>5, <2>6, <2>7 DEF Next
<1>3. QED
  BY <1>1, <1>2, PTL DEF Spec

\* Handing a fresh functor over appends it to the abstract queue.
LEMMA AppendIsPost ==
    ASSUME TypeOK, NEW f \in Functors, Fresh(f),
           pendingFunctors' = Append(pendingFunctors, f),
           UNCHANGED <<functors, executed, quitRequested>>,
           (pc' = "exited") = (pc = "exited")
    PROVE  Executor!Post(f)
<1>1. functors \in Seq(Functors) /\ pendingFunctors \in Seq(Functors)
  BY DEF TypeOK
<1>2. Executor!ToSet(functors \o pendingFunctors)
        = ToSet(functors) \cup ToSet(pendingFunctors)
  <2>1. ToSet(functors \o pendingFunctors)
          = ToSet(functors) \cup ToSet(pendingFunctors)
    BY <1>1, ConcatElements
  <2>2. Executor!ToSet(functors \o pendingFunctors)
          = ToSet(functors \o pendingFunctors)
    BY DEF Executor!ToSet, ToSet
  <2>3. QED
    BY <2>1, <2>2
<1>3. (functors \o pendingFunctors)' = Append(functors \o pendingFunctors, f)
  BY <1>1, ConcatAppend
<1>4. QED
  BY <1>2, <1>3 DEF Executor!Post, Fresh, Executor!ToSet, ToSet

\* Every step of the loop and of its callers is a step of SerialExecutor or
\* leaves its variables alone.
LEMMA ExecutorStep == RefInv /\ [Next]_vars => [Executor!Next]_(Executor!vars)
<1> SUFFICES ASSUME RefInv, [Next]_vars
             PROVE  Executor!Next \/ UNCHANGED Executor!vars
  OBVIOUS
<1> USE DEF loopVars, dispatchVars, batchVars, quitVars
<1>a. TypeOK /\ BatchInv
  BY DEF RefInv, IInv
<1>b. functors \in Seq(Functors) /\ pendingFunctors \in Seq(Functors)
  BY <1>a DEF TypeOK
<1>1. CASE \/ EnterLoop \/ PollReady \/ PollTimeout \/ HandleWakeup
           \/ (\E ch \in Channels : BeginHandler(ch)) \/ EndHandler
           \/ BeginPendingFunctors \/ EndFunctor \/ EndPendingFunctors
  BY <1>1 DEF EnterLoop, PollReady, PollTimeout, PollReturns, HandleWakeup,
       BeginHandler, EndHandler, BeginPendingFunctors, EndFunctor,
       EndPendingFunctors, Executor!vars
<1>2. CASE TestQuit
  <2>1. CASE quit
    BY <1>2, <2>1 DEF TestQuit, RefInv, Executor!Next, Executor!Stop
  <2>2. CASE ~quit
    BY <1>2, <2>2 DEF TestQuit, Executor!vars
  <2>3. QED
    BY <2>1, <2>2
<1>3. CASE SwapFunctors
  <2>1. functors = <<>>
    BY <1>3, <1>a DEF SwapFunctors, BatchInv
  <2>2. functors' = pendingFunctors /\ pendingFunctors' = <<>>
    BY <1>3, <2>1 DEF SwapFunctors, PendingAfterSwap
  <2>3. (functors \o pendingFunctors)' = functors \o pendingFunctors
    BY <1>b, <2>1, <2>2, ConcatEmpty
  <2>4. QED
    BY <1>3, <2>3 DEF SwapFunctors, Executor!vars
<1>4. CASE BeginFunctor
  <2>1. /\ functors \o pendingFunctors # <<>>
        /\ Head(functors \o pendingFunctors) = Head(functors)
        /\ Tail(functors \o pendingFunctors) = Tail(functors) \o pendingFunctors
    BY <1>4, <1>b, ConcatTail DEF BeginFunctor
  <2>2. Executor!Run
    BY <1>4, <2>1 DEF BeginFunctor, Executor!Run
  <2>3. QED
    BY <2>2 DEF Executor!Next
<1>5. ASSUME NEW f \in Functors,
             \/ QueueInOwnLoop(f)
             \/ \E t \in Callers : QueueInLoop(t, f)
      PROVE  Executor!Next
  <2>1. Executor!Post(f)
    BY <1>5, <1>a, AppendIsPost DEF QueueInOwnLoop, QueueInLoop
  <2>2. QED
    BY <2>1 DEF Executor!Next
<1>6. CASE QuitOwnLoop \/ \E t \in Callers : Quit(t)
  BY <1>6 DEF QuitOwnLoop, Quit, Executor!Next, Executor!AskStop
<1>7. CASE (\E t \in Callers : Wakeup(t)) \/ (\E ch \in Channels : BecomeReady(ch))
  BY <1>7 DEF Wakeup, BecomeReady, Executor!vars
<1>8. CASE UNCHANGED vars
  BY <1>8 DEF vars, Executor!vars
<1>9. QED
  BY <1>1, <1>2, <1>3, <1>4, <1>5, <1>6, <1>7, <1>8 DEF Next, OwnerProgress

\* The safety part of the contract of queueInLoop(), for any number of callers
\* and functors: one run per functor, in the order of the pushes, and none
\* after loop() has returned.
THEOREM ImplementsExecutorSafety == Spec => Executor!Spec
<1>1. Init => Executor!Init
  <2>1. <<>> \o <<>> = <<>>
    BY ConcatEmpty
  <2>2. QED
    BY <2>1 DEF Init, Executor!Init
<1>2. QED
  BY <1>1, RefInvariant, ExecutorStep, PTL DEF Spec, Executor!Spec
-------------------------------------------------------------------------------
(* A functor is run at most once.                                          *)

AllFunctors == (executed \o functors) \o pendingFunctors

LEMMA AppendDistinct ==
    ASSUME NEW S, NEW s \in Seq(S), NEW e \in S, e \notin ToSet(s),
           \A i, j \in 1 .. Len(s) : s[i] = s[j] => i = j
    PROVE  \A i, j \in 1 .. Len(Append(s, e)) :
               Append(s, e)[i] = Append(s, e)[j] => i = j
<1>1. ASSUME NEW k \in 1 .. Len(s) PROVE Append(s, e)[k] = s[k] /\ s[k] # e
  BY DEF ToSet
<1>2. Append(s, e)[Len(s) + 1] = e /\ Len(Append(s, e)) = Len(s) + 1
  OBVIOUS
<1>3. ASSUME NEW i \in 1 .. Len(s) + 1, NEW j \in 1 .. Len(s) + 1,
             Append(s, e)[i] = Append(s, e)[j]
      PROVE  i = j
  <2>1. CASE i <= Len(s) /\ j <= Len(s)
    BY <1>1, <1>3, <2>1
  <2>2. CASE i = Len(s) + 1 \/ j = Len(s) + 1
    BY <1>1, <1>2, <1>3, <2>2
  <2>3. QED
    BY <2>1, <2>2
<1>4. QED
  BY <1>2, <1>3

\* Taking the first of the second sequence over to the first one.
LEMMA ConcatShift ==
    ASSUME NEW S, NEW s \in Seq(S), NEW t \in Seq(S), t # <<>>
    PROVE  Append(s, Head(t)) \o Tail(t) = s \o t
  OBVIOUS

\* Only a fresh functor changes the functors handed over so far.
LEMMA FunctorsStep ==
    ASSUME TypeOK, BatchInv, [Next]_vars
    PROVE  \/ AllFunctors' = AllFunctors
           \/ \E f \in Functors : Fresh(f) /\ AllFunctors' = Append(AllFunctors, f)
<1> USE DEF loopVars, dispatchVars, batchVars, quitVars, AllFunctors
<1>a. /\ functors \in Seq(Functors) /\ pendingFunctors \in Seq(Functors)
      /\ executed \in Seq(Functors)
  BY DEF TypeOK
<1>b. executed \o functors \in Seq(Functors)
  BY <1>a
<1>1. CASE \/ EnterLoop \/ TestQuit \/ PollReady \/ PollTimeout \/ HandleWakeup
           \/ (\E ch \in Channels : BeginHandler(ch)) \/ EndHandler
           \/ BeginPendingFunctors \/ EndFunctor \/ EndPendingFunctors
  BY <1>1 DEF EnterLoop, TestQuit, PollReady, PollTimeout, PollReturns,
       HandleWakeup, BeginHandler, EndHandler, BeginPendingFunctors, EndFunctor,
       EndPendingFunctors
<1>2. CASE SwapFunctors
  <2>1. functors = <<>> /\ functors' = pendingFunctors /\ pendingFunctors' = <<>>
        /\ executed' = executed
    BY <1>2 DEF SwapFunctors, PendingAfterSwap, BatchInv
  <2>2. /\ AllFunctors' = (executed \o pendingFunctors) \o <<>>
        /\ AllFunctors = (executed \o <<>>) \o pendingFunctors
    BY <2>1
  <2>3. executed \o pendingFunctors \in Seq(Functors)
    BY <1>a
  <2>4. QED
    BY <1>a, <2>2, <2>3, ConcatEmpty
<1>3. CASE BeginFunctor
  <2>1. functors # <<>> /\ executed' \o functors' = executed \o functors
    BY <1>3, <1>a, ConcatShift DEF BeginFunctor
  <2>2. QED
    BY <1>3, <2>1 DEF BeginFunctor
<1>4. ASSUME NEW f \in Functors,
             QueueInOwnLoop(f) \/ \E t \in Callers : QueueInLoop(t, f)
      PROVE  Fresh(f) /\ AllFunctors' = Append(AllFunctors, f)
  <2>1. /\ Fresh(f) /\ pendingFunctors' = Append(pendingFunctors, f)
        /\ functors' = functors /\ executed' = executed
    BY <1>4 DEF QueueInOwnLoop, QueueInLoop
  <2>2. QED
    BY <1>a, <1>b, <2>1, ConcatAppend
<1>5. CASE \/ QuitOwnLoop \/ (\E t \in Callers : Quit(t) \/ Wakeup(t))
           \/ (\E ch \in Channels : BecomeReady(ch)) \/ UNCHANGED vars
  BY <1>5 DEF QuitOwnLoop, Quit, Wakeup, BecomeReady, vars
<1>6. QED
  BY <1>1, <1>2, <1>3, <1>4, <1>5 DEF Next, OwnerProgress

\* What ran, what is running and what is pending are distinct functors.
EachFunctorOnce == IsInjective(executed \o functors \o pendingFunctors)

\* No functor handed to queueInLoop() is run twice, for any number of callers
\* and functors: swap() empties the vector that the next batch starts from.
THEOREM RunsEachFunctorOnce == Spec => []EachFunctorOnce
<1>1. EachFunctorOnce <=> IsInjective(AllFunctors)
  BY DEF EachFunctorOnce, AllFunctors
<1>2. Init => EachFunctorOnce
  BY ConcatEmpty DEF Init, EachFunctorOnce, IsInjective
<1>3. IInv /\ EachFunctorOnce /\ [Next]_vars => EachFunctorOnce'
  <2> SUFFICES ASSUME IInv, EachFunctorOnce, [Next]_vars
               PROVE  IsInjective(AllFunctors')
    BY DEF EachFunctorOnce, AllFunctors
  <2>1. /\ functors \in Seq(Functors) /\ pendingFunctors \in Seq(Functors)
        /\ executed \in Seq(Functors)
    BY DEF IInv, TypeOK
  <2>2. AllFunctors \in Seq(Functors) /\ executed \o functors \in Seq(Functors)
    BY <2>1 DEF AllFunctors
  <2>3. ToSet(AllFunctors)
          = ToSet(pendingFunctors) \cup ToSet(functors) \cup ToSet(executed)
    <3>1. ToSet(executed \o functors) = ToSet(executed) \cup ToSet(functors)
      BY <2>1, ConcatElements
    <3>2. ToSet(AllFunctors) = ToSet(executed \o functors) \cup ToSet(pendingFunctors)
      BY <2>1, <2>2, ConcatElements, ZenonT(40) DEF AllFunctors
    <3>3. QED
      BY <3>1, <3>2
  <2>4. CASE AllFunctors' = AllFunctors
    BY <1>1, <2>4
  <2>5. ASSUME NEW f \in Functors, Fresh(f), AllFunctors' = Append(AllFunctors, f)
        PROVE  IsInjective(AllFunctors')
    <3>1. f \notin ToSet(AllFunctors)
      BY <2>3, <2>5 DEF Fresh
    <3>2. \A i, j \in 1 .. Len(AllFunctors) : AllFunctors[i] = AllFunctors[j] => i = j
      BY <1>1, <2>2 DEF IsInjective
    <3>3. \A i, j \in 1 .. Len(Append(AllFunctors, f)) :
              Append(AllFunctors, f)[i] = Append(AllFunctors, f)[j] => i = j
      BY <2>2, <3>1, <3>2, AppendDistinct
    <3>4. DOMAIN Append(AllFunctors, f) = 1 .. Len(Append(AllFunctors, f))
      BY <2>2
    <3>5. QED
      BY <2>5, <3>3, <3>4 DEF IsInjective
  <2>6. QED
    BY <2>4, <2>5, FunctorsStep DEF IInv
<1>4. QED
  BY <1>2, <1>3, IInvariant, PTL DEF Spec
===============================================================================
