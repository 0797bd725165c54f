------------------------- MODULE EventLoopThreadProofs -------------------------
(***************************************************************************)
(* Proofs about the start and the end of the io threads, for any number of *)
(* them.  The first invariant holds however early a thread is scheduled;   *)
(* the second until one uses a member that is not constructed yet.         *)
(***************************************************************************)
EXTENDS EventLoopThread, TLAPS

\* Where a thread is while its loop_ points to its loop.
Announced == {"notify", "unlock", "enter", "looping", "return"}

\* loops_ has the loops of the threads that were started, in order.
LoopsFilled ==
    /\ Len(loops) <= NumThreads
    /\ mainPc \in Starting => Len(loops) = current - 1
    /\ mainPc \in {"running"} \cup Destroying => Len(loops) = NumThreads
    /\ \A k \in 1 .. Len(loops) :
          /\ loops[k] = k
          /\ threadPc[k] \in Announced \cup {"done"}
          /\ mutex[k] # "raw"

\* A thread and its mutex_ do not exist before their constructors ran.
ConstructedInOrder ==
    mainPc \in Starting =>
        \A i \in Threads :
            /\ i > current \/ (i = current /\ mainPc = "spawn")
                   => threadPc[i] = "none"
            /\ mutex[i] = "raw"
                   <=> i > current \/ (i = current /\ mainPc \in {"spawn", "members"})

\* loop_ is what threadFunc() made it, and startLoop() returns what it saw.
LoopPointer ==
    /\ \A i \in Threads : loop[i] = IF threadPc[i] \in Announced THEN i ELSE Null
    /\ mainPc = "got" => threadPc[current] \in Announced

\* A thread leaves loop() only after the destructor asked it to.
QuitLater ==
    \A i \in Threads :
        /\ quit[i] => /\ mainPc \in Destroying
                      /\ i <= current
                      /\ i = current => mainPc # "quit"
        /\ threadPc[i] \in {"return", "done"} => quit[i]

\* No std::thread is destroyed before it was joined.
ThreadsAreJoined == mainPc # "terminated"

Inv ==
    /\ TypeOK
    /\ LoopsFilled
    /\ ConstructedInOrder
    /\ LoopPointer
    /\ QuitLater
    /\ ThreadsAreJoined

USE DEF Threads, Null, Starting, Destroying, Dead

LEMMA InvInit == Init => Inv
<1> SUFFICES ASSUME Init PROVE Inv
  OBVIOUS
<1> USE ThreadsAssumption DEF Init
<1>1. TypeOK
  <2>1. loops \in Seq(Threads \cup {Null})
    OBVIOUS
  <2>2. current \in Threads
    OBVIOUS
  <2>3. QED BY <2>1, <2>2 DEF TypeOK
<1>2. LoopsFilled
  BY DEF LoopsFilled, Announced
<1>3. ConstructedInOrder
  BY DEF ConstructedInOrder
<1>4. LoopPointer
  BY DEF LoopPointer, Announced
<1>5. QuitLater
  BY DEF QuitLater
<1>6. ThreadsAreJoined
  BY DEF ThreadsAreJoined
<1>7. QED BY <1>1, <1>2, <1>3, <1>4, <1>5, <1>6 DEF Inv

\* Steps of the main thread while it starts the pool.
LEMMA InvStart ==
    ASSUME Inv,
           SpawnThread \/ ConstructMembers \/ LockInStartLoop \/ TestLoop \/ Wait
               \/ WaitReturns \/ SpuriousWakeup
    PROVE  Inv'
<1> USE ThreadsAssumption DEF Inv, TypeOK, LoopsFilled, ConstructedInOrder,
        LoopPointer, QuitLater, ThreadsAreJoined, Announced
<1>1. CASE SpawnThread
  <2>1. TypeOK'
    BY <1>1 DEF SpawnThread
  <2>2. LoopsFilled'
    BY <1>1 DEF SpawnThread
  <2>3. ConstructedInOrder'
    BY <1>1 DEF SpawnThread
  <2>4. LoopPointer'
    BY <1>1 DEF SpawnThread
  <2>5. QuitLater'
    BY <1>1 DEF SpawnThread
  <2>6. ThreadsAreJoined'
    BY <1>1 DEF SpawnThread
  <2>7. QED BY <2>1, <2>2, <2>3, <2>4, <2>5, <2>6
<1>2. CASE ConstructMembers
  BY <1>2 DEF ConstructMembers
<1>3. CASE LockInStartLoop
  BY <1>3 DEF LockInStartLoop
<1>4. CASE TestLoop
  BY <1>4 DEF TestLoop
<1>5. CASE Wait
  <2>1. TypeOK'
    BY <1>5 DEF Wait
  <2>2. LoopsFilled'
    BY <1>5 DEF Wait
  <2>3. ConstructedInOrder'
    BY <1>5 DEF Wait
  <2>4. LoopPointer'
    BY <1>5 DEF Wait
  <2>5. QuitLater'
    BY <1>5 DEF Wait
  <2>6. ThreadsAreJoined'
    BY <1>5 DEF Wait
  <2>7. QED BY <2>1, <2>2, <2>3, <2>4, <2>5, <2>6
<1>6. CASE WaitReturns
  BY <1>6 DEF WaitReturns, AfterWait
<1>7. CASE SpuriousWakeup
  BY <1>7 DEF SpuriousWakeup
<1>8. QED BY <1>1, <1>2, <1>3, <1>4, <1>5, <1>6, <1>7

\* startLoop() hands its loop to the pool.
LEMMA InvPush ==
    ASSUME Inv, PushLoop
    PROVE  Inv'
BY ThreadsAssumption DEF Inv, TypeOK, LoopsFilled, ConstructedInOrder,
    LoopPointer, QuitLater, ThreadsAreJoined, Announced, PushLoop, LastThread

\* Steps of the main thread while it destroys the pool.
LEMMA InvDestroy ==
    ASSUME Inv,
           BeginDestruction \/ QuitThread \/ WakeupThread \/ JoinThread
    PROVE  Inv'
<1> USE ThreadsAssumption DEF Inv, TypeOK, LoopsFilled, ConstructedInOrder,
        LoopPointer, QuitLater, ThreadsAreJoined, Announced
<1>1. CASE BeginDestruction
  BY <1>1 DEF BeginDestruction
<1>2. CASE QuitThread
  <2>0. loop[current] = current
    BY <1>2 DEF QuitThread
  <2>1. TypeOK'
    <3>1. mainPc' = "wakeup" /\ quit' = [quit EXCEPT ![current] = TRUE]
      BY <1>2, <2>0 DEF QuitThread
    <3>2. QED BY <1>2, <3>1 DEF QuitThread, MutexInDestructor
  <2>2. LoopsFilled'
    BY <1>2, <2>0 DEF QuitThread, MutexInDestructor
  <2>3. ConstructedInOrder'
    BY <1>2, <2>0 DEF QuitThread, MutexInDestructor
  <2>4. LoopPointer'
    BY <1>2, <2>0 DEF QuitThread, MutexInDestructor
  <2>5. QuitLater'
    BY <1>2, <2>0 DEF QuitThread, MutexInDestructor
  <2>6. ThreadsAreJoined'
    BY <1>2, <2>0 DEF QuitThread, MutexInDestructor
  <2>7. QED BY <2>1, <2>2, <2>3, <2>4, <2>5, <2>6
<1>3. CASE WakeupThread
  BY <1>3 DEF WakeupThread
<1>4. CASE JoinThread
  BY <1>4 DEF JoinThread, LastThread
<1>5. QED BY <1>1, <1>2, <1>3, <1>4

\* Steps of an io thread.
LEMMA InvThread ==
    ASSUME Inv, NEW i \in Threads, ThreadProgress(i)
    PROVE  Inv'
<1> USE ThreadsAssumption DEF Inv, TypeOK, LoopsFilled, ConstructedInOrder,
        LoopPointer, QuitLater, ThreadsAreJoined, Announced
<1>1. CASE CheckCallback(i)
  BY <1>1 DEF CheckCallback
<1>2. CASE Lock(i)
  <2>1. TypeOK'
    BY <1>2 DEF Lock, MayLock
  <2>2. LoopsFilled'
    BY <1>2 DEF Lock, MayLock
  <2>3. ConstructedInOrder'
    BY <1>2 DEF Lock, MayLock
  <2>4. LoopPointer'
    <3>1. \A j \in Threads : threadPc'[j] \in Announced <=> threadPc[j] \in Announced
      BY <1>2 DEF Lock
    <3>2. QED BY <1>2, <3>1 DEF Lock
  <2>5. QuitLater'
    BY <1>2 DEF Lock, MayLock
  <2>6. ThreadsAreJoined'
    BY <1>2 DEF Lock, MayLock
  <2>7. QED BY <2>1, <2>2, <2>3, <2>4, <2>5, <2>6
<1>3. CASE LockRaw(i)
  <2>1. TypeOK'
    BY <1>3 DEF LockRaw
  <2>2. LoopsFilled'
    BY <1>3 DEF LockRaw
  <2>3. ConstructedInOrder'
    BY <1>3 DEF LockRaw
  <2>4. LoopPointer'
    BY <1>3 DEF LockRaw
  <2>5. QuitLater'
    BY <1>3 DEF LockRaw
  <2>6. ThreadsAreJoined'
    BY <1>3 DEF LockRaw
  <2>7. QED BY <2>1, <2>2, <2>3, <2>4, <2>5, <2>6
<1>4. CASE StoreLoop(i)
  BY <1>4 DEF StoreLoop
<1>5. CASE Notify(i)
  BY <1>5 DEF Notify, NotifyOne
<1>6. CASE Unlock(i)
  BY <1>6 DEF Unlock
<1>7. CASE EnterLoop(i)
  BY <1>7 DEF EnterLoop
<1>8. CASE LoopReturns(i)
  BY <1>8 DEF LoopReturns
<1>9. CASE ClearLoop(i)
  BY <1>9 DEF ClearLoop
<1>10. QED
  BY <1>1, <1>2, <1>3, <1>4, <1>5, <1>6, <1>7, <1>8, <1>9 DEF ThreadProgress

\* The invariant holds in every reachable state.
LEMMA Invariance == Spec => []Inv
<1>1. ASSUME Inv, UNCHANGED vars
      PROVE  Inv'
  BY <1>1 DEF Inv, TypeOK, LoopsFilled, ConstructedInOrder, LoopPointer,
      QuitLater, ThreadsAreJoined, vars
<1>2. Inv /\ [Next]_vars => Inv'
  BY <1>1, InvStart, InvPush, InvDestroy, InvThread DEF Next, MainProgress
<1>3. QED BY InvInit, <1>2, PTL DEF Spec

\* The variables keep their types, however early the threads run.
THEOREM TypeCorrect == Spec => []TypeOK
<1>1. Inv => TypeOK
  BY DEF Inv
<1>2. QED BY Invariance, <1>1, PTL

\* The pool holds existing loops until it destroys them, and destroys no thread
\* unjoined: EventLoopThreadPool with any number of threads, constructed in time
\* or not.
THEOREM LoopsExist == Spec => []PooledLoopsExist
<1>1. Inv => PooledLoopsExist
  BY DEF Inv, TypeOK, LoopsFilled, QuitLater, ThreadsAreJoined, PooledLoopsExist
<1>2. QED BY Invariance, <1>1, PTL

-------------------------------------------------------------------------------
(* The handshake of startLoop() and threadFunc() over mutex_ and cond_.     *)

\* mutex_ has at most one holder, and loop_ is not set behind the back of the
\* main thread between its test and its wait.
Excluded ==
    /\ \A i \in Threads :
          threadPc[i] \in {"store", "notify", "unlock"} => mutex[i] = "thread"
    /\ mainPc \in {"test", "wait", "got"} => mutex[current] = "main"
    /\ mainPc = "wait" => loop[current] = Null

Handshake == ~early => Excluded /\ WaiterIsNotified

LEMMA HandshakeMain ==
    ASSUME Inv, Handshake, ~early',
           MainProgress \/ SpuriousWakeup \/ BeginDestruction
    PROVE  Excluded' /\ WaiterIsNotified'
<1> USE ThreadsAssumption DEF Inv, TypeOK, Handshake, Excluded, WaiterIsNotified
<1>1. CASE SpawnThread
  BY <1>1 DEF SpawnThread
<1>2. CASE ConstructMembers
  BY <1>2 DEF ConstructMembers, ConstructedInOrder
<1>3. CASE LockInStartLoop
  BY <1>3 DEF LockInStartLoop
<1>4. CASE TestLoop
  BY <1>4 DEF TestLoop
<1>5. CASE Wait
  BY <1>5 DEF Wait
<1>6. CASE WaitReturns
  BY <1>6 DEF WaitReturns, AfterWait
<1>7. CASE PushLoop
  BY <1>7 DEF PushLoop, LastThread
<1>8. CASE QuitThread
  BY <1>8 DEF QuitThread, MutexInDestructor
<1>9. CASE WakeupThread
  BY <1>9 DEF WakeupThread
<1>10. CASE JoinThread
  BY <1>10 DEF JoinThread, LastThread
<1>11. CASE SpuriousWakeup
  BY <1>11 DEF SpuriousWakeup
<1>12. CASE BeginDestruction
  BY <1>12 DEF BeginDestruction
<1>13. QED
  BY <1>1, <1>2, <1>3, <1>4, <1>5, <1>6, <1>7, <1>8, <1>9, <1>10, <1>11, <1>12
  DEF MainProgress

LEMMA HandshakeThread ==
    ASSUME Inv, Handshake, ~early', NEW i \in Threads, ThreadProgress(i)
    PROVE  Excluded' /\ WaiterIsNotified'
<1> USE DEF Inv, TypeOK, Handshake, Excluded, WaiterIsNotified
<1>1. CASE CheckCallback(i)
  BY <1>1 DEF CheckCallback
<1>2. CASE Lock(i)
  BY <1>2 DEF Lock, MayLock
<1>3. CASE LockRaw(i)
  BY <1>3 DEF LockRaw
<1>4. CASE StoreLoop(i)
  BY <1>4 DEF StoreLoop
<1>5. CASE Notify(i)
  BY <1>5 DEF Notify, NotifyOne
<1>6. CASE Unlock(i)
  BY <1>6 DEF Unlock, LoopPointer, Announced
<1>7. CASE EnterLoop(i)
  BY <1>7 DEF EnterLoop
<1>8. CASE LoopReturns(i)
  BY <1>8 DEF LoopReturns
<1>9. CASE ClearLoop(i)
  BY <1>9 DEF ClearLoop
<1>10. QED
  BY <1>1, <1>2, <1>3, <1>4, <1>5, <1>6, <1>7, <1>8, <1>9 DEF ThreadProgress

\* No notification of startLoop() is lost as long as the threads find their
\* members constructed, for any number of threads and spurious wakeups.
THEOREM NoLostNotification == Spec => []WaiterIsNotified
<1>1. Init => Handshake
  BY DEF Init, Handshake, Excluded, WaiterIsNotified
<1>2. ASSUME Inv, Handshake, UNCHANGED vars
      PROVE  Handshake'
  BY <1>2 DEF Handshake, Excluded, WaiterIsNotified, vars
<1>3. ASSUME Inv, Handshake, Next
      PROVE  Handshake'
  BY <1>3, HandshakeMain, HandshakeThread DEF Handshake, Next
<1>4. Inv /\ Handshake /\ [Next]_vars => Handshake'
  BY <1>2, <1>3
<1>5. Handshake => WaiterIsNotified
  BY DEF Handshake, WaiterIsNotified
<1>6. QED BY Invariance, <1>1, <1>4, <1>5, PTL DEF Spec
===============================================================================
