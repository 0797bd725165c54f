# bench4cpp in TLA+

bench4cpp opens a number of HTTP connections to one server and keeps every one
of them busy until a timer ends the run. It is a small multi-threaded event
loop program in the style of muduo: one main thread that connects, one thread
per processor that reads and writes, closures handed from thread to thread, and
callbacks inside callbacks. This directory specifies that program in TLA+,
checks it with TLC on small instances, and proves parts of it with TLAPS for all
instances.

Source paths are relative to the repository, whose code is in `src/src/`.
Findings are about the release build (`xmake` defaults to `mode.release`, which
turns assertions off); a debug build stops in the assertion of `Request.cpp:119`
or, for a request that passes it, in the one of `EPoller.cpp:114` as soon as
`Connector::connecting()` gives its channel to a second poller.

## The system

| component | state | operations | talks to |
|---|---|---|---|
| `EventLoop` | `quit_`, `callingPendingFunctors_`, `activeChannels_`, `pendingFunctors_` under `mutex_`, the eventfd `wakeupFd_` | `loop`, `runInLoop`, `queueInLoop`, `doPendingFunctors`, `wakeup`, `handleRead`, `quit` | its `Poller`; every thread that holds the loop |
| `Poller`/`EPoller`, `Channel` | `channels_` (descriptor to channel), the epoll set; a channel's `events_`, `revents_`, `index_`, `tie_` | `poll`, `updateChannel`, `removeChannel`, `handleEvent` | the kernel; the callbacks of channels; one poller per loop and one more in `Connector` |
| `EventLoopThread`, `EventLoopThreadPool` | `loop_` under `mutex_`/`cond_`; `loops_`, `next_` | `startLoop`, `threadFunc`, destructor; `start`, `getNextLoop` | creates the io loops, ends them |
| `Client`, `Connector` | `connections_` (descriptor to connection), `nextConnId_`; `numsocks_` | `start`, `connect`, `connecting`, `retry`, `handleWrite`, `newConnection`, `removeConnection`, `reconect`, `quit`, destructor | the base loop; io loops through `runInLoop` |
| `TcpConnection` | `state_`, channel, `inputBuffer_`, `outputBuffer_` | `connectEstablished`, `send`, `handleRead/Write/Close/Error`, `connectDestroyed` | its io loop; the callbacks of `Http`; `Client::removeConnection` |
| `Buffer` | a vector, `readerIndex_`, `writerIndex_` | `append`, `prepend`, `retrieve`, `unwrite`, `readFd`, `makeSpace` | `TcpConnection` |
| `Http` (`main.cpp`) | five counters, four of them atomic; the timer thread | `onConnection`, `onMessage`, `start`, `showResult` | `Client`, connections; all io threads |
| `Request` | `host_`, `port_`, `path_`, the address, the text of the request | `parseUrl`, `defaultRequest` | `main()`, once, before any loop |
| command line (`cmdline.h`) | the options and their values; in `parse()` the flags `is_key`, `is_sname` and the names they stand for | `parse`, `set`, `get` | `main()`, once |

Interaction: `main()` starts the io threads, then connects from the base loop.
A connected socket becomes a `TcpConnection` of the next io loop, to which
`connectEstablished()` is posted. When the io thread sees the end of the
connection it posts `removeConnectionInLoop()` to the base loop; that erases the
map entry, posts `connectDestroyed()` back and opens a new socket. A connection
is held by shared pointers in the map and in the closures, and its destructor,
in whichever thread drops the last one, closes the descriptor that the kernel
may then give to the next socket. After the given time a timer thread calls
`quit()` on the base loop; `main()` prints the result and destroys everything.

What is hard here: wakeups against sleeps, functors appended while functors run,
descriptors as keys while they are reused, the order in which two threads let go
of a connection, one pass of a channel that calls up to four callbacks while the
server acts in between, partial writes, buffers whose data moves under unsigned
indices, and a shutdown at any moment. `PROJECT.json` lists each hazard with its
line and the properties that guard it.

## The modules

```
Main  = CommandLine + Request + Http             CommandLineProofs  MainProofs
      |  runs the benchmark
      v
ClientPool                                       what the benchmark is promised
      ^ implements
      |
   Client  ---- its loops at their contract ---> SerialExecutor   ClientProofs
      |  \                                           ^ implements
      |   \ its channels                          EventLoop       EventLoopProofs
      |    `--> EPoller                                           EPollerProofs
      |  the start of its io threads
      |---> EventLoopThread                                 EventLoopThreadProofs
      |  a connection from inside
      `---> TcpConnection                                     TcpConnectionProofs
               |  bytes counted here, kept there
               v
            Buffer  ---- implements ---> ByteStream                  BufferProofs
```

`MC*.tla` extend a specification for TLC, one `.cfg` per question.

**ConnectionLife** is the contract of one connection, which three of these modules
share and each implements on its own: `state_` and the `index_` of the channel, moved
together by `Establish`, `Close` and `TearDown`. `TcpConnection` implements it with the
callbacks of one connection, `EPoller` with the calls on the pollers, and `Client`, which takes
state and index for granted, with the functors of two threads that bring the calls about. So the
reduction of a connection in `Client` to these two is what the other two modules show, and the
calls these two make on trust come in the order that `Client` shows. In each of them the
property is called `ImplementsLife`; in `Client` and `EPoller` it is the conjunction over all
connections, where one that is not made yet counts as new.

**ClientPool** is the contract of the pool: how many clients are asked for, being tried,
connected and lost, moved one at a time, and nothing once the pool is ended except that
connections go. `Client` implements it (`ImplementsPool`); the counts are its `toConnect`
and `lost` and the sizes of `connecting` and `connections`.

**EventLoop** is one loop, its owner thread and the threads that hold it. `pc`
follows the owner through `loop()` (`test`, `poll`, `dispatch`, `handler`,
`swap`, `run`, `functor`). The two critical sections of `mutex_` are one step
each; `queueInLoop()` and `quit()` from another thread are two steps, the shared
write and `wakeup()`. The eventfd is its counter, epoll a set of ready channels
of which a poll reports any part (at most the size of the event list) and the
poll may time out. `callingPendingFunctors_`, which the constructor forgets, starts
with any value. Each functor is a fresh closure. `SerialExecutor` is the
contract: functors run one at a time, in order, each at most once.

**Client** is the pool, the connector, the pool's threads and the shutdown of
`main()`. It uses loops at their contract and adds what the contract does not
say and the program depends on: the closures of a batch keep their connections
alive until the vector of `doPendingFunctors()` is destroyed (`batch` and
`spent`). `Alive` are the connections somebody still holds, `OpenFds` their
descriptors; a new socket gets the lowest descriptor that is free. A connection
has a `state` and the `index` of its channel. `main()` is a program counter
through `loop`, `~Client`, and `quit`, `wakeup` and `join` of each thread.

**EventLoopThread** is the start and the end of the io threads, at the grain of the
members of `EventLoopThread`. `mainPc` follows the main thread through `start()`,
`startLoop()` and the destructors, `threadPc` each thread through `threadFunc()`.
`mutex_` is `"raw"` until its constructor has run; a thread that uses it or
`callback_` before that gets one of the outcomes the memory can produce: it goes
on, sleeps for ever, or crashes the process, and `early` remembers it. `cond_.wait()`
may return without a notification. `loop()` is taken at its contract, except that
it forgets an earlier `quit()`, which is modelled. `Client` starts where this module
is in `running`, and has the destructors again, against the work of the loops.

**TcpConnection** is one connection against the kernel's half of its socket and a
server that sends, reads, closes and resets at any time, over a network that may fail.
A pass of `handleEventWithGuard()` is one step per callback with the `revents` of the poll,
so the server acts between them. Bytes are counted. The callbacks of
`Http` are part of the actions that call them. `kDisconnecting` lasts only
within one step and is not a value of `state`. The socket has the errors that the code
tells apart: `soError` is `SO_ERROR`, `WriteError` the errno of a write, and `ETIMEDOUT`
stands for all errors with which the kernel gives up a connection. `kReadEvent` asks for
`POLLPRI` too, so urgent bytes are modelled: `mark` is where the last one is, it is
reported with `POLLPRI`, and a read stops in front of it and skips it. `POLLRDHUP`, which
the read callback would answer as well, is never asked for.

**Buffer** has the vector, the two indices and the operations as operators on
buffers, `makeSpace()` and the two halves of `readFd()` included; the peak of
what it kept is a history variable. `ByteStream` is what it promises.

**EPoller** is all pollers at once: those of the io loops, the one of the base loop,
and the second one `Connector` owns, fills and never polls. `updateChannel()`,
`removeChannel()` and `epoll_ctl()` are operators from state to state, with `index_`
in the channel, where the two pollers of the base loop share it, and with the errors
`update()` ignores. An action makes the calls of one handler in their order;
`Connector::handleWrite()` is two steps, since the io loop may register the new
connection before the base loop has taken its own channel out. The `life` of a channel
is what `Client` and `TcpConnection` do with it; functors run only between two dispatches.

**CommandLine** is `Parser::parse()`, a step for each argument, or for a name with the
argument behind it. `is_key`, `is_sname`, `sname` and `name` outlive an argument as in the
code, and `sname` starts with an indeterminate value. An argument is its dashes, its name
and its value; `lexical_cast()` and the limiters are the sets of values they accept.
**Request** is `parseUrl()` and `defaultRequest()` on the characters of a URL, `atoi()`
and the cut of `htons()` included. **Http** is the callbacks of the io threads, each
access to a counter a step, and `showResult()` with one read per line; the increment
of the plain `int numConnSocket_` is a load and a store. **Main** puts the three together as
`main()` does: it ignores the result of `parse()` and ends at an exception or an `abort()`.

What is left out of these modules: log output, name resolution (a host that is not found
is an abort that may always happen), the other headers of the request, epoll's event list
(its growth shows only as "any part of the ready
channels"), `looping_`, `iteration_` and the like, which are never read, and
`forceClose()`, which the program calls only on a disconnected connection, where
it does nothing.

## The runs

| run | distinct states | shows |
|---|---|---|
| `event_loop` | 96 thousand | no lost wakeup (`NoSleepOnWork`), no abort of `handleRead()` (`WakeupReadSucceeds`), `quit()` ends the loop (`QuitEndsLoop`), the loop implements `SerialExecutor`, so that functors run in order and none twice (`ImplementsExecutor`) |
| `client` | 241 thousand | a removal erases its own entry (`RemovalFindsItsEntry`), an io poller never has two channels for one descriptor (`OneChannelPerFd`), posted calls meet the state they assert (`FunctorMeetsItsState`), nothing is destroyed before its teardown (`DestroyedAfterTeardown`), every connection has its life (`ImplementsLife`), the pool is the one of the contract, so that the number of clients is kept up to failed attempts (`ImplementsPool`), no connection leaks (`DisconnectedIsDestroyed`), the program ends after the timer (`QuitEndsProgram`) |
| `epoller` | 87 thousand | the kernel watches exactly what channels in use ask for (`KernelAgrees`), though `Connector` registers a channel with two pollers and descriptors are reused; no loop calls a channel that another thread has destroyed (`ActiveChannelsLive`); the calls give every channel the life of its connection (`ImplementsLife`) |
| `main` | 465 thousand | every option of a well-formed command line gets its value (`OptionsAreRight`), a URL is taken apart as meant and its port cut modulo `PortModulus` (`UrlPartsRight`), the figures of a report made while io threads count do not contradict each other (`ReportIsPlausible`) |
| `event_loop_thread` | 4 thousand | `loops_` holds loops that exist until they are asked to stop and no thread is destroyed unjoined, however early threads run (`PooledLoopsExist`); no lost notification (`WaiterIsNotified`) and `start()` returns (`PoolStarts`) unless one runs too early; a thread in its loop is joined (`QuitThreadIsJoined`) |
| `tcp_connection` | 31 thousand | writing is enabled exactly while there is output (`WriteInterestIffOutput`), bytes add up (`BytesAccounted`), the close is reported once (`CloseReportedOnce`) and has a cause (`CloseHasCause`), no callback acts after it (`SilentAfterClose`), queued output is written (`OutputIsFlushed`), the end of the server's side or of the network's is noticed (`PeerCloseIsNoticed`); from outside, a connection is that of the contract (`ImplementsLife`) |
| `buffer` | 17 thousand | indices in order, moves to the front only, bounded memory, the content of a stream |

Five runs show where the code does not do what it says:

| run | statement | what happens |
|---|---|---|
| `client_stale_channel` | `assert` at `EPoller.cpp:97` | a failed attempt leaves its channel in the base loop's poller; the next socket with that descriptor finds it |
| `client_retry` | "if error, retry", `Connector.cpp:97` | `retry()` closes and does not retry: each failure is a client less |
| `client_shutdown` | `assert` at `TcpConnection.cpp:46` | loops may be destroyed with the functors that disconnect connections |
| `event_loop_thread_early` | "Run benchmark for <sec> seconds", `README.md:11` | a thread that runs before `mutex_` and `callback_` are constructed crashes the process or leaves `startLoop()` waiting |
| `tcp_connection_reset` | "Run benchmark for <sec> seconds", `README.md:11` | a reset after the server's close leaves `EPIPE`, and `getsockopt()` clears the error of any other reset; the next `write()` raises SIGPIPE |

What some of the properties do not claim:

- `CloseHasCause` has one exception. `handleRead()` takes every error of `readFd()` for the
  end, `EAGAIN` included (`TcpConnection.cpp:180`), and a lone urgent byte makes
  the kernel report `POLLPRI` without `POLLIN`: `readv()` skips the byte, returns
  `EAGAIN`, and a connection that lives is closed. The model does that too; the
  property says that it is the only way, and that no other `EAGAIN` of a read or a write
  ends a connection.
- `QuitEndsProgram` takes an abort for an end of the program: the quit of an io loop that is
  already destroyed (`EventLoopThread.cpp:24`) is in the model and is not excluded.
- `QuitThreadIsJoined` is about a thread that is in `loop()`. A quit before that is lost, since
  `loop()` clears `quit_` (`EventLoop.cpp:56`), and its join never returns.
- `ImplementsLife`: a second teardown or close changes neither state nor index and is a stutter of
  the contract. `OneChannelPerFd` and `FunctorMeetsItsState` exclude the first in `Client`,
  `CloseReportedOnce` and `SilentAfterClose` the second in `TcpConnection`; the channels
  of `Connector`, which have no life, are the matter of `KernelAgrees`.
- `UrlPartsRight` says of a port too large what the code does, the cut of `htons()`. Beyond `int`
  (`MaxInt`) `atoi()` is undefined, and nothing is claimed.

### Bounds

- `event_loop`: two callers suffice for the races of two pushes and a quit against
  each other and the owner; with three functors one can be in the running
  vector, one in the next and one on its way; one I/O channel besides the
  wakeup channel gives every order within `activeChannels_`. No symmetry
  is used, because the run has liveness properties.
- `client`: two clients on two loops make removals, reconnections and a batch
  with several functors meet; two loops also give the round-robin its wrap. Three
  descriptors are one more than the clients, so that a reconnection can reuse a
  descriptor at once, or find none free. `MaxConns` bounds the connections of a
  run: four let each client be replaced.
- `epoller`: two io pollers, so that two connections may or may not share one; three
  descriptors, one more than the clients, so that one is free while a removed connection
  still holds its own; `MaxChannels` of six are the channels of three connections, a
  failed attempt and what follows it among them.
- `main`: command lines of up to four arguments (`MaxLine`) give two names, with or
  without values and in either form, every order; the thirteen arguments include an unknown
  name, `--program` (which `parse()` makes an option of its own), a value of the wrong type and
  one out of limits. URLs have up to four characters (`MaxUrl`) behind `http://`, enough for a
  host, a colon and two digits; the digits are 0 and 1, and `PortModulus` 10 stands for the 65536
  of `htons()`, so that the ports 10 and 11 exceed it. Three callbacks (`MaxCallbacks`) on two threads overlap in every
  way with the lines of the report. Once the benchmark runs, the `VIEW` of `MCMain` forgets
  the command line, on which no later step depends.
- `event_loop_thread`: threads meet only through the main thread, which handles
  one at a time, so three (a first, an inner and a last one) show all there is; two
  suffice for the failing start.
- `tcp_connection`: a request of two bytes can be written in part; a send buffer of
  three fills up; a server that sends three bytes, read
  at most two at a time, leaves input behind after a read. `PeerBytes` does not count urgent
  bytes, which need no bound: the kernel keeps one, and one it makes ordinary is counted.
- `buffer`: strings of up to three bytes exceed the initial room of two and an
  extrabuf of two, so that growing, moving, and reads within, across and beyond
  the room all happen; four bytes kept at most.

`CHECK_DEADLOCK FALSE` is set in every configuration: the program ends, a
connection ends, and an idle buffer has used up its bounds.

### Fairness

`EventLoop`: weak fairness of the owner's own steps and of `wakeup()`, that is, the operating system
schedules every thread. The poll timeout is deliberately not fair, so nothing depends on the ten seconds
of `kPollTimeMs`. `Client`: weak fairness of the main thread and of each io thread; nothing is assumed
of the network or the timer. `EventLoopThread`: weak fairness of every thread, and strong fairness of a
thread's `lock`: a mutex that is free again and again is obtained. Neither spurious wakeups nor the end
of the benchmark are fair. `TcpConnection`: weak fairness of the io thread and of a server that reads
what it was sent; sending, closing, resetting and failing are not fair.

## The proofs

`EventLoopProofs` proves for any sets of callers, functors and channels:
`TypeCorrect`, `NoLostWakeup` (`NoSleepOnWork`), `WakeupReadNeverAborts` and
`ImplementsExecutorSafety` (the safety part of the refinement). `NoSleepOnWork`
speaks of the owner in `poll()` only and is not inductive: the invariant of the
proofs says at each `pc` what covers pending work. Before the swap the owner
will still see it; while functors run, `callingPendingFunctors_` is true, so that
a functor that appends also wakes up; from the test of `quit_` to the poll a
caller's wakeup is written or on its way. `WakeupReadSucceeds` rests on the
observation that only the owner decreases the counter, so that a wakeup channel
in `unhandled` means a positive counter.

`BufferProofs` proves for any set of bytes, any initial, prepend and extrabuf size:
`TypeCorrect`, `MovesToFront`, `MemoryStaysBounded` and `ImplementsByteStream`,
which is the whole refinement since the contract has no fairness. The notion that
carries it is `Holds(store, r, c)`, "the bytes of `c` lie in `store` from index `r`
on": lemmas say what copying keeps, that neighbours are held together, and that
parts of what is held are held; each operation is then one lemma on a
well-formed buffer. The inductive invariant adds to the order of the indices that
the vector never gets shorter than `kCheapPrepend` (`retrieveAll()` needs it) and
that what is readable never exceeds `peak`.

`EventLoopThreadProofs` proves for any number of threads `TypeCorrect`, `LoopsExist`
(`PooledLoopsExist`) and `NoLostNotification` (`WaiterIsNotified`). The first two hold even if threads
run before their members are constructed. Their invariant ties `loops_` to the progress of `start()`,
`loop_` to the program counter of its thread, and the end of a thread to a `quit_` that only a
destructor sets: `loop()` may forget a `quit_` but never invents one. The last one holds while no thread
was `early` and rests, on top, on the mutual exclusion of `mutex_`, which the constructor of `mutex_`
breaks when it comes after the lock.

`EventLoopProofs` also has `RunsEachFunctorOnce` (`EachFunctorOnce`, which the contract implies and no
run checks apart from it): the functors that have run, those of the running vector and the pending ones,
one sequence behind the other, are distinct, and a swap or a step only moves the borders.

`ClientProofs` proves for any number of clients, loops, descriptors and connections
`TypeCorrect`, `RemovalsFindTheirEntries` (`RemovalFindsItsEntry`), `ChannelsAreDistinct`
(`OneChannelPerFd`), `FunctorsMeetTheirStates` (`FunctorMeetsItsState`), `ConnectionsDieTornDown`
(`DestroyedAfterTeardown`), `ImplementsClientPool` (`ImplementsPool`) with its consequence
`NoClientIsForgotten` (`ClientsAccounted`), `LivesOfConnections` (`ImplementsLife`) and `ThreadsEndFirst`
(`BaseLoopOutlivesThreads`: the `Client` and the base loop, which io threads call and post to, are
destroyed after the last of them). None of these is
inductive: a removal finds its entry because no second connection can have the
descriptor, which holds because somebody still holds the first, which depends on what
is queued where. The invariant `IInv` says it all at once. A connection is new, up, closed or
torn down (`Stages`). `Lives` says which functors may be pending for it on its loop at each
stage, `Held` that whatever is not torn down is in the map or in the functor that will tear it
down, `Queues` that no functor is pending twice and `connectEstablished()` comes first,
`Entries` that the map's keys are the descriptors of its connections. `Descriptors` and `Unused`,
that connections not torn down share no descriptor with each other or with an
attempt, follow for a new socket from `Held`: what is held keeps its descriptor
open. `ImplementsClientPool` needs cardinalities on top, and that the entry of a
descriptor being connected is free, so that `connections_[sockfd] = conn` adds an entry and never
replaces one; `ClientsAccounted` then follows from the contract, none of whose steps changes the sum
while the pool is open. `ThreadsEndFirst` rests on an invariant of its own, which says of
every value of `closing` that the threads before it have ended (`Passed`).

`EPollerProofs` proves for any number of io pollers and descriptors `TypeCorrect`,
`KernelWatchesChannels` (`KernelAgrees`) and `HandledChannelsLive` (`ActiveChannelsLive`). A state
of the pollers is good when it is well formed, agrees with the kernel and its owners are
in order; one lemma for each call says that it keeps this if its channel is alone with
its descriptor at its poller, and one for each action that it is.

`TcpConnectionProofs` proves for any sizes of requests and send buffers `TypeCorrect`,
`InterestIffOutput` (`WriteInterestIffOutput`), `EveryByteAccounted` (`BytesAccounted`),
`OneCloseReport` (`CloseReportedOnce`), `NoFalseClose` (`CloseHasCause`), `NoLoneHangUp`
(`HangUpComesWithInput`) and `QuietAfterClose` (`SilentAfterClose`). The part of the invariant that
matters is `Stale`: which of the reported `revents` the server cannot have made untrue before
the callback that acts on them. `Socket` relates the error of a socket to what broke it, and
`StepHasCause` goes through the callbacks that close: reported input is still there or is
the end, a reported `POLLPRI` may be an urgent byte alone, which is the exception, and where
the socket was writable a write of the output is taken in part or fails with an error.

`CommandLineProofs` proves for any options, values and lines `ParserTypeCorrect` and
`OptionsCorrect` (`OptionsAreRight`), of `parse()` by itself: on a well-formed line each step starts at
a name with both flags clear, and what is assigned is what the line says up to there.

`MainProofs` is about the whole program of `Main`, for any options, command lines, characters, URLs
and io threads:

- `PlausibleReport` (`ReportIsPlausible`): bytes and calls of a counter differ by the threads between the
  two additions, and no counter but `numConnSocket_` ever decreases, so a line printed first bounds
  the one printed later; a store to `numConnSocket_` is at least one and at most the connections made.
- `UrlPartsCorrect` (`UrlPartsRight`): URLs of any length, ports up to `MaxInt` for any modulus. Where
  `parseUrl()` cuts follows from what `find()` returns (`FindsFirst`), and that a URL made of a host, a port and a path is cut between them
  (`CutAtItsParts`) from where these may have a `:` or a `/`. That the digits of a port have a value at all
  is a recursive function on numbers; the provers cannot use the library's induction, so
  `NumeralReads` takes the least length without a value, which exists since the numbers are
  well-founded, and refutes it.
- `MainTypeCorrect` (`TypeOK`): there is a request exactly from the start of the benchmark on.
- `MainRunsParser` (`OptionsAreRight`): what `CommandLineProofs` shows of `parse()` alone holds in the whole
  program, because `Main` is a run of the parser.

The refinements of `ConnectionLife` are `LifeOfConnection` in `TcpConnectionProofs`, `LivesOfConnections` in
`ClientProofs` and `LivesOfChannels` in `EPollerProofs`, each for any number of whatever the module counts.
The first follows from the invariant that `state` and `events` agree. The second is the one that needs
`IInv`: only because no functor is pending twice and the queues are in order does
`connectEstablished()` find a new connection, and `connectDestroyed()` one whose channel is
registered. For the third the lemmas of `EPollerProofs` say what each call does to the life of its
channel (`Turns`, `Adds`) and that it touches no other; `MovesOn` says what a step may make of the life and
the index of a channel, and `Follows` is the invariant by which that is a step of the contract: the
index of a connection's channel is the one its life demands. The channels of `Connector`, which
have no connection, are not part of it.

Assumptions: those named in the modules, about constants only
(`ChannelsAssumption`, `BufferAssumption`, `ThreadsAssumption`, `ClientAssumption`,
`EPollerAssumption`, `TcpConnectionAssumption`, `CommandLineAssumption`, `RequestAssumption`,
`HttpAssumption`, `MainAssumption`); TLC evaluates them in every run.

The assumption on `Characters` is that `/` is one of them, which is what the code puts in place of a
missing path. `MainAssumption` says that the options `main()` asks for exist, of which `url` alone has no
default, that arguments are URLs or not in the sense of `Request`, and that `NoValue` is no request.

All safety invariants and action properties of the passing runs are proved, and of the refinements
everything but the fairness in `ImplementsExecutor`. Only model-checked is
liveness (fairness and ENABLED are out of the prover's reach): `QuitEndsLoop` and the fair part of
`ImplementsExecutor`, `DisconnectedIsDestroyed` and `QuitEndsProgram`, `PoolStarts` and
`QuitThreadIsJoined`, `PeerCloseIsNoticed` and `OutputIsFlushed`. Nor is it proved that the five
statements of the runs that end in a violation fail: there TLC's behaviour is the evidence.

## Plan

1. *Done*: `EventLoop`, `Client`, `EventLoopThread`, `TcpConnection`, `Buffer`, `EPoller`,
   `CommandLine`, `Request`, `Http` and `Main`, their contracts, runs and proofs.
2. *Done*: the contracts `ConnectionLife` and `ClientPool`, implemented by `TcpConnection`, `EPoller` and
   `Client`; all safety proved.
3. *Left*: the loops of `Client` as instances of `SerialExecutor`, and the count of
   `outputBuffer_` in `TcpConnection` as the readable bytes of a `ByteStream`, so that the use of these
   contracts is proved as well as their implementation.
4. *Left*: the end of `main()` in `EventLoop`, for the `wakeup()` of the detached timer thread
   that may come after the loop is destroyed (`main.cpp:81`).

Not modelled, and why:

- `setRequest()`, `loadRequestFromFile()`, `addHeader()` and `addBody()` of `Request`, the searches
  and integer reads of `Buffer`, `send()` from another thread: nothing in the program calls
  them, so there is no behaviour of the program to be faithful to.
- `Parser::add()`, `usage()` and the help text: `add()` runs with constants of `main()`, which are the
  constants of `CommandLine`; the rest is formatting. The README's `--clients` is
  `--client` in the code, a difference of wording that no step depends on.
- the assertions of a debug build, `EPoller.cpp:114` and `Request.cpp:119`: the first
  fails as soon as `Connector` gives a channel to its second poller, the second for every
  request that is not what it expects. The modules are of the release build and go on there.
- memory: `Connector` never deletes the channel of an attempt; `EPoller` shows only that
  it is out of use.
- the wording of the report and of the log, the build, and name resolution.
