-------------------------------- MODULE Client ---------------------------------
(***************************************************************************)
(* The client pool of the benchmark: the Client and its Connector on the    *)
(* main thread's event loop, the io loops of EventLoopThreadPool, and the   *)
(* TcpConnections that both share, from Client::start() to the end of      *)
(* main().                                                                 *)
(*                                                                         *)
(* An event loop is taken at the contract module EventLoop shows it to     *)
(* implement (SerialExecutor): functors run one after the other in the     *)
(* order they were handed over.  What the contract does not mention is kept *)
(* here: a functor is a closure that holds a reference to its connection   *)
(* until the vector of doPendingFunctors() is destroyed, so that a         *)
(* connection dies, and its descriptor is closed, with the last functor,   *)
(* map entry or vector that holds it.                                      *)
(*                                                                         *)
(* A TcpConnection is reduced to what its owners see: its state and whether *)
(* its channel is in the poller of its loop (module TcpConnection has the  *)
(* rest).  forceClose() is left out: the program calls it only on a        *)
(* disconnected connection, where it does nothing.                         *)
(***************************************************************************)
EXTENDS Naturals, SequencesExt

CONSTANTS
    NumSocks,       \* numsocks_, the clients asked for
    NumLoops,       \* numThreads_ of the pool
    Fds,            \* the descriptors the process may have for sockets
    MaxConns        \* bound: the connections newConnection() makes in all

ASSUME ClientAssumption ==
    /\ NumSocks \in Nat \ {0}
    /\ NumLoops \in Nat \ {0}
    /\ Fds \subseteq Nat
    /\ MaxConns \in Nat

Base == 0                   \* the loop of main(), of Client and of Connector
IoLoops == 1 .. NumLoops
Loops == {Base} \cup IoLoops

VARIABLES
    mainPc,         \* where main() is
    closing,        \* the element of threads_ that ~EventLoopThreadPool() is at
    quit,           \* quit_ of each loop
    running,        \* the io loops that are not destroyed
    toConnect,      \* iterations Connector::connect() has still to do
    connecting,     \* descriptors whose connection is in progress
    baseChannels,   \* keys of channels_ in the poller of the base loop
    connections,    \* connections_: descriptor -> connection
    conns,          \* the connections made so far, conns[i] the one of
                    \* nextConnId_ = i
    nextLoop,       \* next_, counted from 1
    queue,          \* pendingFunctors_ of each loop
    batch,          \* what is left to run of the vector it swapped out
    spent,          \* connections held by the functors of that vector that
                    \* have run
    lost            \* history: clients whose connection attempt failed

mainVars == <<mainPc, closing, quit, running>>
connectorVars == <<toConnect, connecting, baseChannels, lost>>
clientVars == <<connections, conns, nextLoop>>
executorVars == <<queue, batch, spent>>
vars == <<mainVars, connectorVars, clientVars, executorVars>>

ConnIds == DOMAIN conns

Functors == [call : {"connectEstablished", "connectDestroyed",
                     "removeConnectionInLoop"},
             conn : Nat]

TypeOK ==
    /\ mainPc \in {"start", "loop", "~Client", "quitThread", "wakeThread",
                   "joinThread", "~EventLoop", "returned", "aborted"}
    /\ closing \in 0 .. NumLoops + 1
    /\ quit \in [Loops -> BOOLEAN]
    /\ running \subseteq IoLoops
    /\ toConnect \in 0 .. NumSocks
    /\ connecting \subseteq Fds
    /\ baseChannels \subseteq Fds
    /\ DOMAIN connections \subseteq Fds
    /\ Range(connections) \subseteq ConnIds
    /\ conns \in Seq([fd : Fds, loop : IoLoops,
                      state : {"kConnecting", "kConnected", "kDisconnected"},
                      index : {"kNew", "kAdded", "kDeleted"}])
    /\ nextLoop \in IoLoops
    /\ queue \in [Loops -> Seq(Functors)]
    /\ batch \in [Loops -> Seq(Functors)]
    /\ spent \in [Loops -> SUBSET ConnIds]
    /\ lost \in Nat

\* Client::start() has started the pool and entered Connector::connect().
Init ==
    /\ mainPc = "start"
    /\ closing = 0
    /\ quit = [l \in Loops |-> FALSE]
    /\ running = IoLoops
    /\ toConnect = NumSocks
    /\ connecting = {}
    /\ baseChannels = {}
    /\ connections = <<>>
    /\ conns = <<>>
    /\ nextLoop = 1
    /\ queue = [l \in Loops |-> <<>>]
    /\ batch = [l \in Loops |-> <<>>]
    /\ spent = [l \in Loops |-> {}]
    /\ lost = 0

-------------------------------------------------------------------------------
(* References to connections, and the descriptors they keep open.          *)

ConnsOf(functors) == { functors[i].conn : i \in DOMAIN functors }

\* The connections somebody holds a TcpConnectionPtr to.
Alive ==
    Range(connections)
        \cup UNION { ConnsOf(queue[l]) \cup ConnsOf(batch[l]) \cup spent[l]
                     : l \in Loops }

\* Mutant: the socket is closed as soon as the connection is disconnected.
OpenFdsUntilClose ==
    connecting \cup { conns[c].fd : c \in { d \in Alive :
                                       conns[d].state # "kDisconnected" } }

\* ~TcpConnection() closes the socket of a connection.
OpenFds == connecting \cup { conns[c].fd : c \in Alive }

Functor(call, c) == [call |-> call, conn |-> c]

\* Mutant: the functor overtakes those that were posted before it.
PostFirst(l, f) == [queue EXCEPT ![l] = <<f>> \o @]

\* queueInLoop(): what it leaves in the queues.
Post(l, f) == [queue EXCEPT ![l] = Append(@, f)]

\* A loop is between two batches: it dispatches events or sleeps.
BetweenBatches(l) == batch[l] = <<>> /\ spent[l] = {}

InLoop(l) ==
    IF l = Base THEN mainPc = "loop" /\ toConnect = 0
                ELSE mainPc # "aborted" /\ l \in running

Dispatching(l) == InLoop(l) /\ BetweenBatches(l)

-------------------------------------------------------------------------------
(* Connector, on the base loop.                                            *)

\* One iteration of the for loop of connect(), as far as the result of
\* socket() and connect(): the kernel gives the lowest free descriptor.
BeginConnect ==
    /\ mainPc \in {"start", "loop"}
    /\ toConnect > 0
    /\ toConnect' = toConnect - 1
    /\ UNCHANGED <<mainVars, clientVars, executorVars>>

\* EINPROGRESS: connecting() puts a channel in the poller of the base loop.
ConnectStarts ==
    /\ BeginConnect
    /\ \E sockfd \in Fds \ OpenFds :
         /\ \A lower \in Fds \ OpenFds : sockfd <= lower
         /\ connecting' = connecting \cup {sockfd}
         /\ baseChannels' = baseChannels \cup {sockfd}
    /\ UNCHANGED lost

\* Any other errno, that of a socket() without a descriptor included: close().
ConnectFails ==
    /\ BeginConnect
    /\ lost' = lost + 1
    /\ UNCHANGED <<connecting, baseChannels>>

\* Mutant: next_ does not go back to zero.
AfterNextLoop == nextLoop + 1

\* getNextLoop(): round-robin.
NextLoop == IF nextLoop >= NumLoops THEN 1 ELSE nextLoop + 1

\* Mutant: newConnection() does not keep the connection.
WithoutConnection(sockfd, c) == connections

\* connections_[sockfd] = conn
WithConnection(sockfd, c) ==
    [fd \in DOMAIN connections \cup {sockfd} |->
        IF fd = sockfd THEN c ELSE connections[fd]]

\* handleWrite() of a connected socket: Client::newConnection(), then the
\* channel leaves the poller of the base loop.
HandleConnected(sockfd) ==
    /\ Dispatching(Base)
    /\ sockfd \in connecting
    /\ Len(conns) < MaxConns
    /\ LET c == Len(conns) + 1
       IN  /\ conns' = Append(conns, [fd |-> sockfd, loop |-> nextLoop,
                                      state |-> "kConnecting", index |-> "kNew"])
           /\ connections' = WithConnection(sockfd, c)
           /\ queue' = Post(nextLoop, Functor("connectEstablished", c))
    /\ nextLoop' = NextLoop
    /\ connecting' = connecting \ {sockfd}
    /\ baseChannels' = baseChannels \ {sockfd}
    /\ UNCHANGED <<mainVars, toConnect, lost, batch, spent>>

\* handleWrite() of a socket in error: retry() closes it, and nothing else.
HandleConnectError(sockfd) ==
    /\ Dispatching(Base)
    /\ sockfd \in connecting
    /\ connecting' = connecting \ {sockfd}
    /\ lost' = lost + 1
    /\ UNCHANGED <<mainVars, toConnect, baseChannels, clientVars, executorVars>>

-------------------------------------------------------------------------------
(* doPendingFunctors() of a loop, and the functors.                        *)

SwapFunctors(l) ==
    /\ Dispatching(l)
    /\ queue[l] # <<>>
    /\ batch' = [batch EXCEPT ![l] = queue[l]]
    /\ queue' = [queue EXCEPT ![l] = <<>>]
    /\ UNCHANGED <<mainVars, connectorVars, clientVars, spent>>

\* The next functor of the batch is taken; its closure stays in the vector.
RunFunctor(l, call, c) ==
    /\ InLoop(l)
    /\ batch[l] # <<>>
    /\ Head(batch[l]) = Functor(call, c)
    /\ batch' = [batch EXCEPT ![l] = Tail(@)]
    /\ spent' = [spent EXCEPT ![l] = @ \cup {c}]

\* The vector is destroyed, and with it the references of its closures.
EndPendingFunctors(l) ==
    /\ InLoop(l)
    /\ batch[l] = <<>>
    /\ spent[l] # {}
    /\ spent' = [spent EXCEPT ![l] = {}]
    /\ UNCHANGED <<mainVars, connectorVars, clientVars, queue, batch>>

\* Mutant: a disabled channel keeps its index.
IndexAlwaysAdded(anyEvent) == "kAdded"

\* EPoller::updateChannel(): index_ of the channel of a connection.
IndexAfterUpdate(anyEvent) == IF anyEvent THEN "kAdded" ELSE "kDeleted"

\* EPoller::removeChannel()
IndexAfterRemove == "kNew"

\* TcpConnection::connectEstablished(), on the io loop.
ConnectEstablished(l, c) ==
    /\ RunFunctor(l, "connectEstablished", c)
    /\ conns' = [conns EXCEPT ![c].state = "kConnected",
                             ![c].index = IndexAfterUpdate(TRUE)]
    /\ UNCHANGED <<mainVars, connectorVars, connections, nextLoop, queue>>

\* TcpConnection::connectDestroyed(), on the io loop: a connected one is
\* disconnected first, either way the channel leaves the poller.
ConnectDestroyed(l, c) ==
    /\ RunFunctor(l, "connectDestroyed", c)
    /\ conns' = [conns EXCEPT
                   ![c].state = IF @ = "kConnected" THEN "kDisconnected" ELSE @,
                   ![c].index = IndexAfterRemove]
    /\ UNCHANGED <<mainVars, connectorVars, connections, nextLoop, queue>>

\* Mutant: the entry of a removed connection stays in the map.
EraseNothing(sockfd) == connections

\* connections_.erase(conn->fd())
Erase(sockfd) == Restrict(connections, DOMAIN connections \ {sockfd})

\* Mutant: reconect() passes nothing, so connect() repeats numsocks_ times.
ReconnectAll == NumSocks

\* reconect(): connect(1).
Reconnects == 1

\* Client::removeConnectionInLoop(), on the base loop.
RemoveConnectionInLoop(c) ==
    /\ RunFunctor(Base, "removeConnectionInLoop", c)
    /\ connections' = Erase(conns[c].fd)
    /\ queue' = Post(conns[c].loop, Functor("connectDestroyed", c))
    /\ toConnect' = Reconnects
    /\ UNCHANGED <<mainVars, connecting, baseChannels, lost, conns, nextLoop>>

\* TcpConnection::handleClose() on the io loop, whatever the reason: the
\* channel is disabled and Client::removeConnection() is called.
HandleClose(c) ==
    /\ conns[c].state = "kConnected"
    /\ Dispatching(conns[c].loop)
    /\ c \in Alive
    /\ conns' = [conns EXCEPT ![c].state = "kDisconnected",
                             ![c].index = IndexAfterUpdate(FALSE)]
    /\ queue' = Post(Base, Functor("removeConnectionInLoop", c))
    /\ UNCHANGED <<mainVars, connectorVars, connections, nextLoop, batch, spent>>

-------------------------------------------------------------------------------
(* main(): the loop, the quit of the timer thread, and the destructors.    *)

EnterLoop ==
    /\ mainPc = "start"
    /\ toConnect = 0
    /\ mainPc' = "loop"
    /\ UNCHANGED <<closing, quit, running, connectorVars, clientVars, executorVars>>

\* The timer thread calls Client::quit().
TimerQuits ==
    /\ mainPc = "loop"
    /\ ~quit[Base]
    /\ quit' = [quit EXCEPT ![Base] = TRUE]
    /\ UNCHANGED <<mainPc, closing, running, connectorVars, clientVars, executorVars>>

LoopReturns ==
    /\ Dispatching(Base)
    /\ quit[Base]
    /\ mainPc' = "~Client"
    /\ UNCHANGED <<closing, quit, running, connectorVars, clientVars, executorVars>>

\* One iteration of the for loop of ~Client(), in the order of the map.
DestroyConnection ==
    /\ mainPc = "~Client"
    /\ \E sockfd \in DOMAIN connections :
         /\ \A other \in DOMAIN connections : sockfd <= other
         /\ LET c == connections[sockfd]
            IN  queue' = Post(conns[c].loop, Functor("connectDestroyed", c))
         /\ connections' = Erase(sockfd)
    /\ UNCHANGED <<mainVars, connectorVars, conns, nextLoop, batch, spent>>

\* The members of Client are destroyed; threads_ first, element by element.
DestroyPool ==
    /\ mainPc = "~Client"
    /\ DOMAIN connections = {}
    /\ mainPc' = "quitThread"
    /\ closing' = 1
    /\ UNCHANGED <<quit, running, connectorVars, clientVars, executorVars>>

\* Mutant: ~EventLoopThread() joins without asking the loop to quit.
QuitNobody(l) == quit

\* EventLoop::quit(), its store.
QuitStore(l) == [quit EXCEPT ![l] = TRUE]

\* ~EventLoopThread(): loop_->quit() stores quit_ ...
QuitThread ==
    /\ mainPc = "quitThread"
    /\ closing \in IoLoops
    /\ quit' = QuitStore(closing)
    /\ mainPc' = "wakeThread"
    /\ UNCHANGED <<closing, running, connectorVars, clientVars, executorVars>>

\* ... and writes the eventfd.  If the thread has seen quit_ meanwhile, the
\* loop is destroyed and its eventfd closed: wakeup() aborts.
WakeThread ==
    /\ mainPc = "wakeThread"
    /\ mainPc' = IF closing \in running THEN "joinThread" ELSE "aborted"
    /\ UNCHANGED <<closing, quit, running, connectorVars, clientVars, executorVars>>

\* thread_.join() returns.
JoinThread ==
    /\ mainPc = "joinThread"
    /\ closing \notin running
    /\ mainPc' = "quitThread"
    /\ closing' = closing + 1
    /\ UNCHANGED <<quit, running, connectorVars, clientVars, executorVars>>

\* loop() of an io thread returns, and the loop with its functors is destroyed.
IoLoopReturns(l) ==
    /\ Dispatching(l)
    /\ quit[l]
    /\ running' = running \ {l}
    /\ queue' = [queue EXCEPT ![l] = <<>>]
    /\ UNCHANGED <<mainPc, closing, quit, connectorVars, clientVars, batch, spent>>

\* All threads are joined; ~Connector() leaves the channels to the process.
PoolDestroyed ==
    /\ mainPc = "quitThread"
    /\ closing > NumLoops
    /\ mainPc' = "~EventLoop"
    /\ UNCHANGED <<closing, quit, running, connectorVars, clientVars, executorVars>>

\* The base loop and its functors are destroyed, and main() returns.
DestroyBaseLoop ==
    /\ mainPc = "~EventLoop"
    /\ mainPc' = "returned"
    /\ queue' = [queue EXCEPT ![Base] = <<>>]
    /\ UNCHANGED <<closing, quit, running, connectorVars, clientVars, batch, spent>>

-------------------------------------------------------------------------------
\* The main thread, as far as it needs nobody.
MainProgress ==
    \/ ConnectStarts \/ ConnectFails \/ EnterLoop \/ LoopReturns
    \/ SwapFunctors(Base) \/ EndPendingFunctors(Base)
    \/ \E c \in ConnIds : RemoveConnectionInLoop(c)
    \/ DestroyConnection \/ DestroyPool \/ QuitThread \/ WakeThread
    \/ JoinThread \/ PoolDestroyed \/ DestroyBaseLoop

\* An io thread, as far as it needs nobody.
IoProgress(l) ==
    \/ SwapFunctors(l) \/ EndPendingFunctors(l) \/ IoLoopReturns(l)
    \/ \E c \in ConnIds : ConnectEstablished(l, c) \/ ConnectDestroyed(l, c)

\* The server answers, refuses or closes.
Network ==
    \/ \E sockfd \in connecting : HandleConnected(sockfd) \/ HandleConnectError(sockfd)
    \/ \E c \in ConnIds : HandleClose(c)

Next ==
    \/ MainProgress
    \/ \E l \in IoLoops : IoProgress(l)
    \/ Network
    \/ TimerQuits

Spec == Init /\ [][Next]_vars

\* Every thread is scheduled.  Nothing is assumed of the network.
FairSpec ==
    /\ Spec
    /\ WF_vars(MainProgress)
    /\ \A l \in IoLoops : WF_vars(IoProgress(l))

-------------------------------------------------------------------------------
Pending(l) == batch[l] \o queue[l]

\* assert(n == 1) of removeConnectionInLoop(), and more: the entry a removal
\* will erase is the entry of its own connection, although the map is keyed by
\* a descriptor that the kernel reuses as soon as it is closed.
RemovalFindsItsEntry ==
    mainPc = "loop" =>
        \A c \in ConnsOf(Pending(Base)) :
            /\ conns[c].fd \in DOMAIN connections
            /\ connections[conns[c].fd] = c

\* The assertions of EPoller::updateChannel() in the pollers of the io loops:
\* two connections of one loop never have a channel for the same descriptor in
\* channels_, so that remove() of one never takes the other out.
OneChannelPerFd ==
    \A c, d \in ConnIds :
        /\ c # d
        /\ conns[c].fd = conns[d].fd
        /\ conns[c].loop = conns[d].loop
        => conns[c].index = "kNew" \/ conns[d].index = "kNew"

\* assert(state_ == kConnecting) of connectEstablished() and the assertions of
\* removeChannel() under connectDestroyed(): whichever of the two threads posts
\* it, each is called once and in this order.
FunctorMeetsItsState ==
    \A l \in IoLoops :
        batch[l] # <<>> =>
            LET f == Head(batch[l])
            IN  IF f.call = "connectEstablished"
                THEN conns[f.conn].state = "kConnecting"
                ELSE conns[f.conn].index # "kNew"

Pool == INSTANCE ClientPool WITH
            Clients <- NumSocks,
            asked <- toConnect,
            trying <- Cardinality(connecting),
            connected <- Cardinality(DOMAIN connections),
            open <- mainPc \in {"start", "loop"}

\* Whatever the io threads and the network do in between, the pool moves one
\* client at a time and as it promises: a removal of Client is followed by one
\* attempt of Connector, two maps never hold the same client, and nothing is
\* connected once ~Client() has begun (Connector::connect(), handleWrite(),
\* Client::newConnection(), removeConnectionInLoop(), ~Client()).
ImplementsPool == Pool!Spec

\* While the base loop runs, a connection is destroyed only after it was
\* disconnected and its channel taken out of the poller: no reference is
\* dropped too early by either thread.
DestroyedAfterTeardown ==
    [][mainPc' = "loop" =>
         \A c \in Alive \ Alive' :
             conns'[c].state = "kDisconnected" /\ conns'[c].index = "kNew"]_vars

\* A connection that is not made yet is like one that is new.
StateOf(c) == IF c \in ConnIds THEN conns[c].state ELSE "kConnecting"
IndexOf(c) == IF c \in ConnIds THEN conns[c].index ELSE "kNew"

Connection(c) == INSTANCE ConnectionLife WITH state <- StateOf(c), index <- IndexOf(c)

\* The functors of the two threads give every connection the life that
\* TcpConnection and EPoller implement: connectEstablished() finds it new, and
\* connectDestroyed() connected or closed, also where ~Client() posts it
\* (Client::newConnection(), removeConnectionInLoop(), ~Client()).
ImplementsLife ==
    /\ \A c \in 1 .. MaxConns : Connection(c)!Init
    /\ [][\A c \in 1 .. MaxConns :
            [Connection(c)!Next]_(Connection(c)!vars)]_vars

\* A disconnected connection is destroyed, and its descriptor closed, in the
\* end: removal, teardown and the vectors of both loops let it go.
DisconnectedIsDestroyed ==
    \A c \in 1 .. MaxConns :
        c \in ConnIds /\ conns[c].state = "kDisconnected"
            ~> c \notin Alive \/ mainPc = "aborted"

\* Once the time is over main() returns, or dies in the wakeup() of a loop
\* that is already destroyed: nobody waits for a thread that never stops.
QuitEndsProgram == quit[Base] ~> mainPc \in {"returned", "aborted"}

-------------------------------------------------------------------------------
(* What the code says of itself and does not keep.                         *)

\* assert(channels_.find(fd) == channels_.end()) of EPoller::updateChannel(),
\* in the poller of the base loop.
ConnectFindsNoChannel ==
    [][\A sockfd \in connecting' \ connecting : sockfd \notin baseChannels]_vars

\* "if error, retry" of Connector::handleWrite(): a client whose attempt
\* failed is tried again, so the number of clients is kept.
FailedClientsAreRetried ==
    mainPc = "loop" =>
        Cardinality(DOMAIN connections) + Cardinality(connecting) + toConnect
            = NumSocks

\* assert(state_ == kDisconnected) of ~TcpConnection().
DestroyedDisconnected ==
    \A c \in ConnIds \ Alive : conns[c].state = "kDisconnected"
===============================================================================
