---------------------------- MODULE EventLoopThread ----------------------------
(***************************************************************************)
(* The io threads of EventLoopThreadPool: the main thread starts them one by *)
(* one in start(), waits for each in startLoop(), and later destroys them  *)
(* one by one; thread i runs threadFunc().  thread_ is the third member of *)
(* EventLoopThread and mutex_, cond_ and callback_ come after it, so that  *)
(* the new thread may use them before they are constructed.  What it does  *)
(* then is undefined: the outcomes taken are those of Linux, where these   *)
(* members are plain memory.                                               *)
(*                                                                         *)
(* loop() itself is taken at its contract (EventLoop, QuitEndsLoop).       *)
(***************************************************************************)
EXTENDS Naturals, Sequences

CONSTANTS
    NumThreads      \* numThreads_

ASSUME ThreadsAssumption == NumThreads \in Nat \ {0}

Threads == 1 .. NumThreads
Null == 0

VARIABLES
    mainPc,      \* where the main thread is
    current,     \* the element of threads_ it is at
    threadPc,    \* where each io thread is in threadFunc()
    mutex,       \* mutex_: "raw" before its constructor, "free" or the holder
    signalled,   \* the wait of the main thread on cond_ is over
    loop,        \* loop_, as the number of the thread whose loop it points to
    quit,        \* quit_ of each loop
    loops,       \* loops_ of the pool
    early        \* history: a thread used a member that was not constructed

vars ==
    <<mainPc, current, threadPc, mutex, signalled, loop, quit, loops, early>>

Starting == {"spawn", "members", "startLoop", "test", "wait", "waiting", "got"}
Destroying == {"quit", "wakeup", "join", "destroyed", "aborted"}
\* "crashed" is the end of the process by an unconstructed callback_,
\* "terminated" that by the destructor of a thread nobody joined.
Dead == {"crashed", "aborted", "terminated"}

TypeOK ==
    /\ mainPc \in Starting \cup {"running"} \cup Destroying \cup Dead
    /\ current \in Threads
    /\ threadPc \in [Threads -> {"none", "callback", "lock", "asleep", "store",
                                 "notify", "unlock", "enter", "looping",
                                 "return", "done"}]
    /\ mutex \in [Threads -> {"raw", "free", "main", "thread"}]
    /\ signalled \in BOOLEAN
    /\ loop \in [Threads -> Threads \cup {Null}]
    /\ quit \in [Threads -> BOOLEAN]
    /\ loops \in Seq(Threads \cup {Null})
    /\ early \in BOOLEAN

Init ==
    /\ mainPc = "spawn"
    /\ current = 1
    /\ threadPc = [i \in Threads |-> "none"]
    /\ mutex = [i \in Threads |-> "raw"]
    /\ signalled = FALSE
    /\ loop = [i \in Threads |-> Null]
    /\ quit = [i \in Threads |-> FALSE]
    /\ loops = <<>>
    /\ early = FALSE

-------------------------------------------------------------------------------
(* The main thread in EventLoopThreadPool::start().                        *)

\* The constructor of EventLoopThread up to thread_.
SpawnThread ==
    /\ mainPc = "spawn"
    /\ threadPc' = [threadPc EXCEPT ![current] = "callback"]
    /\ mainPc' = "members"
    /\ UNCHANGED <<current, mutex, signalled, loop, quit, loops, early>>

\* The members after it: mutex_ becomes free, whatever it was.
ConstructMembers ==
    /\ mainPc = "members"
    /\ mutex' = [mutex EXCEPT ![current] = "free"]
    /\ mainPc' = "startLoop"
    /\ UNCHANGED <<current, threadPc, signalled, loop, quit, loops, early>>

LockInStartLoop ==
    /\ mainPc = "startLoop"
    /\ mutex[current] = "free"
    /\ mutex' = [mutex EXCEPT ![current] = "main"]
    /\ mainPc' = "test"
    /\ UNCHANGED <<current, threadPc, signalled, loop, quit, loops, early>>

\* while (loop_ == nullptr)
TestLoop ==
    /\ mainPc = "test"
    /\ mainPc' = IF loop[current] = Null THEN "wait" ELSE "got"
    /\ UNCHANGED <<current, threadPc, mutex, signalled, loop, quit, loops, early>>

\* cond_.wait() lets mutex_ go and sleeps, in one step for others ...
Wait ==
    /\ mainPc = "wait"
    /\ mutex' = [mutex EXCEPT ![current] = "free"]
    /\ signalled' = FALSE
    /\ mainPc' = "waiting"
    /\ UNCHANGED <<current, threadPc, loop, quit, loops, early>>

\* Mutant: if (loop_ == nullptr) in the place of while.
AfterWaitNoRetest == "got"

\* ... and the loop around it tests loop_ again.
AfterWait == "test"

\* The wait returns with mutex_.
WaitReturns ==
    /\ mainPc = "waiting"
    /\ signalled
    /\ mutex[current] = "free"
    /\ mutex' = [mutex EXCEPT ![current] = "main"]
    /\ mainPc' = AfterWait
    /\ UNCHANGED <<current, threadPc, signalled, loop, quit, loops, early>>

\* A wait may also end without a notification.
SpuriousWakeup ==
    /\ mainPc = "waiting"
    /\ ~signalled
    /\ signalled' = TRUE
    /\ UNCHANGED <<mainPc, current, threadPc, mutex, loop, quit, loops, early>>

\* Mutant: the loops over the threads run to i <= numThreads_.
LastThreadMissed == current > NumThreads

\* i < numThreads_ no longer holds for the next i.
LastThread == current = NumThreads

\* loop = loop_; startLoop() returns and start() keeps what it got.
PushLoop ==
    /\ mainPc = "got"
    /\ loops' = Append(loops, loop[current])
    /\ mutex' = [mutex EXCEPT ![current] = "free"]
    /\ IF LastThread
       THEN mainPc' = "running" /\ UNCHANGED current
       ELSE mainPc' = "spawn" /\ current' = current + 1
    /\ UNCHANGED <<threadPc, signalled, loop, quit, early>>

-------------------------------------------------------------------------------
(* The main thread in ~EventLoopThreadPool().                              *)

BeginDestruction ==
    /\ mainPc = "running"
    /\ mainPc' = "quit"
    /\ current' = 1
    /\ UNCHANGED <<threadPc, mutex, signalled, loop, quit, loops, early>>

\* Mutant: the destructor holds mutex_ from its test of loop_ to the join.
MutexInDestructorHeld == [mutex EXCEPT ![current] = "main"]

\* ~EventLoopThread() does without mutex_.
MutexInDestructor == mutex

\* if (loop_ != nullptr), and the store of loop_->quit().
QuitThread ==
    /\ mainPc = "quit"
    /\ IF loop[current] # Null
       THEN mainPc' = "wakeup" /\ quit' = [quit EXCEPT ![loop[current]] = TRUE]
       ELSE mainPc' = "terminated" /\ UNCHANGED quit
    /\ mutex' = MutexInDestructor
    /\ UNCHANGED <<current, threadPc, signalled, loop, loops, early>>

\* The rest of quit(); wakeup() aborts when the eventfd is closed.
WakeupThread ==
    /\ mainPc = "wakeup"
    /\ mainPc' = IF threadPc[current] = "done" THEN "aborted" ELSE "join"
    /\ UNCHANGED <<current, threadPc, mutex, signalled, loop, quit, loops, early>>

\* thread_.join() returns.
JoinThread ==
    /\ mainPc = "join"
    /\ threadPc[current] = "done"
    /\ IF LastThread
       THEN mainPc' = "destroyed" /\ UNCHANGED current
       ELSE mainPc' = "quit" /\ current' = current + 1
    /\ UNCHANGED <<threadPc, mutex, signalled, loop, quit, loops, early>>

-------------------------------------------------------------------------------
(* Thread i in threadFunc().                                               *)

\* loop is constructed, and callback_ tested: it is empty, unless there is no
\* callback_ yet and the memory is called as a function.
CheckCallback(i) ==
    /\ threadPc[i] = "callback"
    /\ mainPc \notin Dead
    /\ threadPc' = [threadPc EXCEPT ![i] = "lock"]
    /\ mainPc' \in {mainPc} \cup (IF mutex[i] = "raw" THEN {"crashed"} ELSE {})
    /\ early' = (early \/ mutex[i] = "raw")
    /\ UNCHANGED <<current, mutex, signalled, loop, quit, loops>>

\* Mutant: loop_ is stored without mutex_.
MayLockAlways(i) == TRUE

\* std::unique_lock<std::mutex> lock(mutex_)
MayLock(i) == mutex[i] = "free"

Lock(i) ==
    /\ threadPc[i] = "lock"
    /\ mainPc \notin Dead
    /\ MayLock(i)
    /\ mutex' = [mutex EXCEPT ![i] = "thread"]
    /\ threadPc' = [threadPc EXCEPT ![i] = "store"]
    /\ UNCHANGED <<mainPc, current, signalled, loop, quit, loops, early>>

\* Without a mutex_ yet, its memory looks free, or taken: then the thread
\* sleeps on it, and the constructor of mutex_ wakes nobody.
LockRaw(i) ==
    /\ threadPc[i] = "lock"
    /\ mainPc \notin Dead
    /\ mutex[i] = "raw"
    /\ \E pc \in {"store", "asleep"} : threadPc' = [threadPc EXCEPT ![i] = pc]
    /\ early' = TRUE
    /\ UNCHANGED <<mainPc, current, mutex, signalled, loop, quit, loops>>

StoreLoop(i) ==
    /\ threadPc[i] = "store"
    /\ mainPc \notin Dead
    /\ loop' = [loop EXCEPT ![i] = i]
    /\ threadPc' = [threadPc EXCEPT ![i] = "notify"]
    /\ UNCHANGED <<mainPc, current, mutex, signalled, quit, loops, early>>

\* Mutant: notify_one() is missing.
NotifyNobody(i) == signalled

\* cond_.notify_one() reaches the main thread if it is waiting.
NotifyOne(i) == signalled \/ (mainPc = "waiting" /\ current = i)

Notify(i) ==
    /\ threadPc[i] = "notify"
    /\ mainPc \notin Dead
    /\ signalled' = NotifyOne(i)
    /\ threadPc' = [threadPc EXCEPT ![i] = "unlock"]
    /\ UNCHANGED <<mainPc, current, mutex, loop, quit, loops, early>>

Unlock(i) ==
    /\ threadPc[i] = "unlock"
    /\ mainPc \notin Dead
    /\ mutex' = [mutex EXCEPT ![i] = IF @ = "raw" THEN "raw" ELSE "free"]
    /\ threadPc' = [threadPc EXCEPT ![i] = "enter"]
    /\ UNCHANGED <<mainPc, current, signalled, loop, quit, loops, early>>

\* loop() forgets a quit() that came before it.
EnterLoop(i) ==
    /\ threadPc[i] = "enter"
    /\ mainPc \notin Dead
    /\ quit' = [quit EXCEPT ![i] = FALSE]
    /\ threadPc' = [threadPc EXCEPT ![i] = "looping"]
    /\ UNCHANGED <<mainPc, current, mutex, signalled, loop, loops, early>>

\* while (!quit_)
LoopReturns(i) ==
    /\ threadPc[i] = "looping"
    /\ mainPc \notin Dead
    /\ quit[i]
    /\ threadPc' = [threadPc EXCEPT ![i] = "return"]
    /\ UNCHANGED <<mainPc, current, mutex, signalled, loop, quit, loops, early>>

\* loop_ = NULL under mutex_, and the loop is destroyed with the stack frame.
ClearLoop(i) ==
    /\ threadPc[i] = "return"
    /\ mainPc \notin Dead
    /\ mutex[i] = "free"
    /\ loop' = [loop EXCEPT ![i] = Null]
    /\ threadPc' = [threadPc EXCEPT ![i] = "done"]
    /\ UNCHANGED <<mainPc, current, mutex, signalled, quit, loops, early>>

-------------------------------------------------------------------------------
MainProgress ==
    \/ SpawnThread
    \/ ConstructMembers
    \/ LockInStartLoop
    \/ TestLoop
    \/ Wait
    \/ WaitReturns
    \/ PushLoop
    \/ QuitThread
    \/ WakeupThread
    \/ JoinThread

ThreadProgress(i) ==
    \/ CheckCallback(i)
    \/ Lock(i)
    \/ LockRaw(i)
    \/ StoreLoop(i)
    \/ Notify(i)
    \/ Unlock(i)
    \/ EnterLoop(i)
    \/ LoopReturns(i)
    \/ ClearLoop(i)

Next ==
    \/ MainProgress
    \/ \E i \in Threads : ThreadProgress(i)
    \/ SpuriousWakeup
    \/ BeginDestruction

Spec == Init /\ [][Next]_vars

\* Every thread is scheduled, and gets a mutex that is free again and again.
\* Waits need not end without a notification, and the end of the benchmark is
\* not the pool's to decide.
FairSpec ==
    /\ Spec
    /\ WF_vars(MainProgress)
    /\ \A i \in Threads : WF_vars(ThreadProgress(i)) /\ SF_vars(Lock(i))

-------------------------------------------------------------------------------
\* The main thread does not sleep in startLoop() on a loop_ that is set, unless
\* the notification is still to come: test and wait of startLoop() against
\* store and notification of threadFunc(), which has its members.
WaiterIsNotified ==
    ~early /\ mainPc = "waiting" /\ ~signalled /\ loop[current] # Null
        => threadPc[current] = "notify"

\* What the pool keeps in loops_ and getNextLoop() hands out are loops, and
\* they exist until the destructor of their EventLoopThread asks them to stop,
\* whether or not the thread found its members constructed.  So a destructor
\* never meets a loop_ that is null: it would destroy a thread it has not
\* joined, which ends the process.
PooledLoopsExist ==
    /\ \A k \in 1 .. Len(loops) :
          /\ loops[k] = k
          /\ threadPc[k] = "done" => mainPc \in Destroying /\ k <= current
    /\ mainPc # "terminated"

\* Every startLoop() returns, and with it start(), if no thread is scheduled
\* too early.
PoolStarts == <>(mainPc = "running" \/ early)

\* A thread in loop() whose quit_ the destructor has set is joined, or ends
\* before the wakeup(), which then aborts.  The guard matters: a quit_ that is
\* set before loop() is entered is lost, and the join never returns.
QuitThreadIsJoined ==
    \A i \in Threads :
        mainPc = "wakeup" /\ current = i /\ threadPc[i] = "looping" /\ quit[i]
            ~> mainPc = "aborted" \/ mainPc = "destroyed" \/ current > i

-------------------------------------------------------------------------------
(* What the documentation says and the code does not keep.                 *)

\* "Run benchmark for <sec> seconds": the benchmark gets its threads at all.
PoolAlwaysStarts == <>(mainPc = "running")
===============================================================================
