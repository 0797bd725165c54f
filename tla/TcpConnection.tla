----------------------------- MODULE TcpConnection -----------------------------
(***************************************************************************)
(* One TcpConnection on its io loop, with the callbacks the program gives  *)
(* it (Http::onConnection and Http::onMessage of main.cpp), against the    *)
(* kernel's side of its socket and the server.                             *)
(*                                                                         *)
(* The io thread is sequential, the server is not: a pass of                *)
(* Channel::handleEventWithGuard() takes one step per callback, with the   *)
(* revents_ it was given by epoll_wait(), and the server acts in between.  *)
(* Bytes are counted, their values are left out (module Buffer has them).  *)
(* The urgent byte of TCP has no place among them: the kernel remembers the *)
(* last one, reports it with POLLPRI, and read() stops in front of it and   *)
(* skips it.                                                               *)
(* onMessage() takes all that was read, so inputBuffer_ is always empty     *)
(* between two steps.  forceClose() does nothing where the program calls   *)
(* it, on a disconnected connection, and is left out.                      *)
(***************************************************************************)
EXTENDS Naturals, FiniteSetsExt

CONSTANTS
    RequestLen,     \* requestData_.size()
    ReadMax,        \* what one readv() of Buffer::readFd() can take
    SendSpace,      \* size of the kernel's send buffer
    PeerBytes       \* bound: the bytes the server sends in all, but for urgent ones

ASSUME TcpConnectionAssumption ==
    /\ RequestLen \in Nat \ {0}
    /\ ReadMax \in Nat \ {0}
    /\ SendSpace \in Nat \ {0}
    /\ PeerBytes \in Nat

VARIABLES
    state,          \* state_
    events,         \* events_ of channel_: {} is a channel not in the poller
    output,         \* outputBuffer_.readableBytes()
    pc,             \* where the io thread is in handleEventWithGuard()
    revents,        \* revents_ of channel_
    received,       \* kernel: bytes received and not yet read
    mark,           \* kernel: 0, or the urgent byte follows mark - 1 received ones
    unsent,         \* kernel: bytes written and not yet taken by the server
    fin,            \* kernel: the server has shut its side
    reset,          \* kernel: the server has reset the connection
    timedOut,       \* kernel: it has given up the connection
    soError,        \* kernel: SO_ERROR
    closeReports,   \* history: calls of closeCallback_
    recvNum,        \* recv_num_
    recvLen,        \* recv_len_
    sendLen,        \* send_len_
    written,        \* history: bytes write() took
    peerSent        \* history: bytes the server sent

channelVars == <<pc, revents>>
connVars == <<state, events, output, closeReports>>
countVars == <<recvNum, recvLen, sendLen>>
kernelVars == <<received, mark, unsent, fin, reset, timedOut, soError, written,
                peerSent>>
vars == <<channelVars, connVars, countVars, kernelVars>>

\* Channel::kReadEvent; POLLRDHUP, which the read callback would answer too, is
\* never asked for.
kReadEvent == {"POLLIN", "POLLPRI"}

TypeOK ==
    /\ state \in {"kConnecting", "kConnected", "kDisconnected"}
    /\ events \subseteq kReadEvent \cup {"POLLOUT"}
    /\ output \in Nat
    /\ pc \in {"loop", "close", "error", "read", "write", "destroyed", "killed"}
    /\ revents \subseteq kReadEvent \cup {"POLLOUT", "POLLERR", "POLLHUP"}
    /\ received \in 0 .. PeerBytes
    /\ mark \in 0 .. PeerBytes + 1
    /\ unsent \in 0 .. SendSpace
    /\ fin \in BOOLEAN
    /\ reset \in BOOLEAN
    /\ timedOut \in BOOLEAN
    /\ soError \in {"none", "ECONNRESET", "EPIPE", "ETIMEDOUT"}
    /\ closeReports \in Nat
    /\ recvNum \in Nat
    /\ recvLen \in Nat
    /\ sendLen \in Nat
    /\ written \in Nat
    /\ peerSent \in 0 .. PeerBytes

\* newConnection() has made the connection of a connected socket.
Init ==
    /\ state = "kConnecting"
    /\ events = {}
    /\ output = 0
    /\ pc = "loop"
    /\ revents = {}
    /\ received = 0
    /\ mark = 0
    /\ unsent = 0
    /\ fin = FALSE
    /\ reset = FALSE
    /\ timedOut = FALSE
    /\ soError = "none"
    /\ closeReports = 0
    /\ recvNum = 0
    /\ recvLen = 0
    /\ sendLen = 0
    /\ written = 0
    /\ peerSent = 0

-------------------------------------------------------------------------------
(* The socket.                                                             *)

\* The kernel has closed the socket on its side.
Broken == reset \/ timedOut

\* What epoll_wait() reports of the socket, level-triggered: a broken socket is
\* readable and writable, errors and hangups are reported unasked.  An urgent
\* byte alone is no input.
PollMask ==
    { e \in kReadEvent \cup {"POLLOUT", "POLLERR", "POLLHUP"} :
        CASE e = "POLLIN"  -> received > 0 \/ fin \/ Broken
          [] e = "POLLPRI" -> mark > 0
          [] e = "POLLOUT" -> unsent < SendSpace \/ Broken
          [] e = "POLLERR" -> soError # "none"
          [] e = "POLLHUP" -> Broken }

\* errno of a write(), "none" if it succeeds or returns EAGAIN.
WriteError == IF Broken /\ soError = "none" THEN "EPIPE" ELSE soError

CanWrite == WriteError = "none"

\* EPIPE comes with SIGPIPE, which nobody ignores or handles.
WriteKills == WriteError = "EPIPE"

\* The number of bytes write() takes of len, 0 where it returns an error.
Taken(len) == IF CanWrite THEN Min({len, SendSpace - unsent}) ELSE 0

\* Whatever write() returns, it fetches the error of the socket.
WriteSocket(len) ==
    /\ unsent' = unsent + Taken(len)
    /\ written' = written + Taken(len)
    /\ soError' = "none"

-------------------------------------------------------------------------------
(* TcpConnection::send() and the closing of a connection.                  *)

\* Mutant: the whole message is queued although a part of it was written.
RemainingAll(len) == len

\* remaining of sendInLoop(): what a direct write() leaves.
Remaining(len) == len - Taken(len)

\* Mutant: nobody enables reading.
EventsAfterSendWriteOnly(enabled, remaining) ==
    enabled \cup (IF remaining > 0 THEN {"POLLOUT"} ELSE {})

\* Mutant: writing is enabled by connectEstablished() only.
EventsAfterSendReadOnly(enabled, remaining) == enabled \cup kReadEvent

\* enableWriting() if something was queued, and enableReading() always.
EventsAfterSend(enabled, remaining) ==
    enabled \cup kReadEvent \cup (IF remaining > 0 THEN {"POLLOUT"} ELSE {})

\* faultError of sendInLoop(); after any other error the message is queued.
FaultError == WriteError \in {"EPIPE", "ECONNRESET"}

\* send() on a connected connection from its own loop, where enabled is
\* events_ at the call: a message that finds nothing queued is written directly,
\* what is left of it is queued unless the write failed with EPIPE or
\* ECONNRESET.  The io thread goes on at next.
SendInLoop(enabled, next) ==
    IF "POLLOUT" \in enabled \/ output > 0
    THEN /\ output' = output + RequestLen
         /\ events' = EventsAfterSend(enabled, RequestLen)
         /\ pc' = next
         /\ UNCHANGED <<unsent, written, soError>>
    ELSE /\ WriteSocket(RequestLen)
         /\ output' = IF FaultError THEN 0 ELSE Remaining(RequestLen)
         /\ events' = EventsAfterSend(enabled, output')
         /\ pc' = IF WriteKills THEN "killed" ELSE next

\* Mutant: the channel stays enabled.
EventsAfterCloseKept == events

\* channel_->disableAll()
EventsAfterClose == {}

\* setState(kDisconnecting) and forceCloseInLoop(), or handleClose() alone: the
\* connection is disconnected and closeCallback_ called.
Close ==
    /\ state' = "kDisconnected"
    /\ events' = EventsAfterClose
    /\ closeReports' = closeReports + 1

-------------------------------------------------------------------------------
(* What runs on the io loop.                                               *)

\* connectEstablished(), a functor of newConnection(): writing is enabled
\* before Http::onConnection() sends the first request.
ConnectEstablished ==
    /\ pc = "loop"
    /\ state = "kConnecting"
    /\ state' = "kConnected"
    /\ SendInLoop({"POLLOUT"}, "loop")
    /\ sendLen' = sendLen + RequestLen
    /\ UNCHANGED <<revents, closeReports, recvNum, recvLen, received, mark, fin,
                   reset, timedOut, peerSent>>

\* connectDestroyed(), a functor of removeConnectionInLoop() after the close
\* was reported, or of ~Client() at any time; ~TcpConnection() follows.
ConnectDestroyed ==
    /\ pc = "loop"
    /\ state # "kConnecting"
    /\ state' = "kDisconnected"
    /\ events' = {}
    /\ pc' = "destroyed"
    /\ UNCHANGED <<revents, output, closeReports, countVars, kernelVars>>

\* epoll_wait() returns the channel, and handleEvent() begins.
Poll ==
    /\ pc = "loop"
    /\ events # {}
    /\ revents' = PollMask \cap (events \cup {"POLLERR", "POLLHUP"})
    /\ revents' # {}
    /\ pc' = "close"
    /\ UNCHANGED <<connVars, countVars, kernelVars>>

\* A callback of handleEventWithGuard() that revents_ does not ask for.
Skip(here, next, called) ==
    /\ pc = here
    /\ ~called
    /\ pc' = next
    /\ UNCHANGED <<revents, connVars, countVars, kernelVars>>

HangUp == "POLLHUP" \in revents /\ "POLLIN" \notin revents
Reading == revents \cap kReadEvent # {}
Writing == "POLLOUT" \in events

SkipCallback ==
    \/ Skip("error", "read", "POLLERR" \in revents)
    \/ Skip("read", "write", Reading)
    \/ Skip("write", "loop", "POLLOUT" \in revents /\ Writing)

\* closeCallback_ of the channel, which is handleClose().
HandleHangUp ==
    /\ pc = "close"
    /\ IF HangUp THEN Close ELSE UNCHANGED <<state, events, closeReports>>
    /\ pc' = "error"
    /\ UNCHANGED <<revents, output, countVars, kernelVars>>

\* handleError(): getsockopt() fetches the error, and clears it.
HandleError ==
    /\ pc = "error"
    /\ "POLLERR" \in revents
    /\ soError' = "none"
    /\ pc' = "read"
    /\ UNCHANGED <<revents, connVars, countVars, received, mark, unsent, fin,
                   reset, timedOut, written, peerSent>>

\* Mutant: readFd() takes the room it offered for the bytes it got.
RoomOffered == ReadMax

\* The result of readv() in readFd(): a read ends in front of an urgent byte,
\* or begins behind it.
BytesRead == Min({IF mark > 1 THEN mark - 1 ELSE received, ReadMax})

\* Whatever it returns, a read that begins at the urgent byte has skipped it.
MarkAfterRead == IF mark > 1 THEN mark - BytesRead ELSE 0

\* handleRead() of n > 0 bytes and Http::onMessage(), which sends the next
\* request.
HandleMessage ==
    /\ pc = "read"
    /\ Reading
    /\ received > 0
    /\ received' = received - BytesRead
    /\ mark' = MarkAfterRead
    /\ recvLen' = recvLen + BytesRead
    /\ recvNum' = recvNum + 1
    /\ sendLen' = sendLen + RequestLen
    /\ IF state = "kConnected"
       THEN SendInLoop(events, "write")
       ELSE pc' = "write" /\ UNCHANGED <<events, output, unsent, written, soError>>
    /\ UNCHANGED <<revents, state, closeReports, fin, reset, timedOut, peerSent>>

\* handleRead() of no byte, or of an error, EAGAIN included.
HandleEndOfStream ==
    /\ pc = "read"
    /\ Reading
    /\ received = 0
    /\ mark' = MarkAfterRead
    /\ soError' = "none"
    /\ Close
    /\ pc' = "write"
    /\ UNCHANGED <<revents, output, countVars, received, unsent, fin, reset,
                   timedOut, written, peerSent>>

\* Mutant: writing stays enabled when the output is drained.
EventsAfterWriteKept(left) == events

\* disableWriting() once outputBuffer_ is empty.
EventsAfterWrite(left) == IF left = 0 THEN events \ {"POLLOUT"} ELSE events

\* handleWrite() that writes some of the output.
HandleWrite ==
    /\ pc = "write"
    /\ "POLLOUT" \in revents /\ Writing
    /\ Taken(output) > 0
    /\ WriteSocket(output)
    /\ output' = output - Taken(output)
    /\ events' = EventsAfterWrite(output')
    /\ pc' = "loop"
    /\ UNCHANGED <<revents, state, closeReports, countVars, received, mark, fin,
                   reset, timedOut, peerSent>>

\* handleWrite() of no byte, or of an error, EAGAIN included.
HandleWriteFailure ==
    /\ pc = "write"
    /\ "POLLOUT" \in revents /\ Writing
    /\ Taken(output) = 0
    /\ WriteSocket(output)
    /\ IF WriteKills
       THEN pc' = "killed" /\ UNCHANGED <<state, events, closeReports>>
       ELSE pc' = "loop" /\ Close
    /\ UNCHANGED <<revents, output, countVars, received, mark, fin, reset,
                   timedOut, peerSent>>

-------------------------------------------------------------------------------
(* The server and the network.                                             *)

SocketOpen == ~Broken /\ pc \notin {"destroyed", "killed"}
PeerUp == SocketOpen /\ ~fin

PeerSends ==
    /\ PeerUp
    /\ peerSent < PeerBytes
    /\ peerSent' = peerSent + 1
    /\ received' = received + 1
    /\ UNCHANGED <<channelVars, connVars, countVars, mark, unsent, fin, reset,
                   timedOut, soError, written>>

\* The kernel keeps one urgent byte.  A new one drops the old if that is the
\* next to be read, and otherwise makes an ordinary byte of it.
PeerSendsUrgent ==
    /\ PeerUp
    /\ \/ /\ mark <= 1
          /\ mark' = received + 1
          /\ UNCHANGED <<received, peerSent>>
       \/ /\ mark > 1 /\ peerSent < PeerBytes
          /\ mark' = received + 2
          /\ received' = received + 1 /\ peerSent' = peerSent + 1
    /\ UNCHANGED <<channelVars, connVars, countVars, unsent, fin, reset, timedOut,
                   soError, written>>

PeerReads ==
    /\ SocketOpen
    /\ unsent > 0
    /\ unsent' = unsent - 1
    /\ UNCHANGED <<channelVars, connVars, countVars, received, mark, fin, reset,
                   timedOut, soError, written, peerSent>>

PeerCloses ==
    /\ PeerUp
    /\ fin' = TRUE
    /\ UNCHANGED <<channelVars, connVars, countVars, received, mark, unsent, reset,
                   timedOut, soError, written, peerSent>>

\* RST: what was not sent is dropped, what was received can still be read.  A
\* socket whose peer has closed gets EPIPE.
PeerResets ==
    /\ SocketOpen
    /\ reset' = TRUE
    /\ soError' = IF fin THEN "EPIPE" ELSE "ECONNRESET"
    /\ unsent' = 0
    /\ UNCHANGED <<channelVars, connVars, countVars, received, mark, fin, timedOut,
                   written, peerSent>>

\* The kernel gives up sending what the server does not acknowledge; ETIMEDOUT
\* stands for the errors it does that with.
NetworkFails ==
    /\ SocketOpen
    /\ unsent > 0
    /\ timedOut' = TRUE
    /\ soError' = "ETIMEDOUT"
    /\ unsent' = 0
    /\ UNCHANGED <<channelVars, connVars, countVars, received, mark, fin, reset,
                   written, peerSent>>

-------------------------------------------------------------------------------
IoThread ==
    \/ ConnectEstablished
    \/ Poll
    \/ SkipCallback
    \/ HandleHangUp
    \/ HandleError
    \/ HandleMessage
    \/ HandleEndOfStream
    \/ HandleWrite
    \/ HandleWriteFailure

Next ==
    \/ IoThread
    \/ ConnectDestroyed
    \/ PeerSends
    \/ PeerSendsUrgent
    \/ PeerReads
    \/ PeerCloses
    \/ PeerResets
    \/ NetworkFails

Spec == Init /\ [][Next]_vars

\* The io thread is scheduled; the server, if it lives, goes on reading.
FairSpec == Spec /\ WF_vars(IoThread) /\ WF_vars(PeerReads)

-------------------------------------------------------------------------------
Ended == state = "kDisconnected" \/ pc = "killed"

\* Between two events the channel waits for writability exactly while there is
\* something to write.  Without interest the output would never leave; with
\* nothing to write handleWrite() would write zero bytes and take the result
\* for a close by the server.
WriteInterestIffOutput ==
    pc = "loop" /\ state = "kConnected" => (Writing <=> output > 0)

\* Every byte of every request is written or queued once, as long as the
\* connection was not reset, and every byte the server sent, except urgent ones,
\* is counted or still in the socket.
BytesAccounted ==
    /\ state # "kConnecting" => sendLen = RequestLen * (recvNum + 1)
    /\ state = "kConnected" /\ ~reset /\ pc # "killed" =>
           sendLen = written + output
    /\ recvLen + received = peerSent

\* closeCallback_ is called at most once, and then the channel is disabled:
\* several callbacks of one pass may see the end of the connection.
CloseReportedOnce ==
    /\ closeReports <= 1
    /\ closeReports = 1 => state = "kDisconnected" /\ events = {}

\* The program ends a connection only after the server closed or reset it or
\* the network failed, with one exception: a read that finds an urgent byte and
\* nothing behind it, which returns EAGAIN.  No other EAGAIN of read() or
\* write(), and no write of zero bytes, is taken for the end.
CloseHasCause ==
    [][closeReports' > closeReports =>
         fin \/ Broken \/ (pc = "read" /\ mark = 1 /\ received = 0)]_vars

\* Nothing is sent, received or counted on a disconnected connection, although
\* the pass that disconnected it goes on to the other callbacks.
SilentAfterClose ==
    [][state = "kDisconnected" => UNCHANGED <<state, output, countVars, written>>]_vars

\* The end of the server's side, or of the network's, is noticed: reading stays
\* enabled.
PeerCloseIsNoticed == (fin \/ Broken) ~> Ended

\* What is queued is written in the end, if the connection lasts.
OutputIsFlushed == output > 0 ~> output = 0 \/ Ended

\* index_ of channel_, as far as it follows from the calls on the channel
\* (module EPoller has those on the poller).
Index ==
    IF pc = "destroyed" \/ state = "kConnecting" THEN "kNew"
    ELSE IF events # {} THEN "kAdded" ELSE "kDeleted"

Life == INSTANCE ConnectionLife WITH index <- Index

\* The connection has the life its owner relies on, whatever the server does
\* in the middle of a pass: it is closed from being connected only, with its
\* channel enabled, and what a callback leaves enabled is never nothing
\* (TcpConnection::handleClose(), forceCloseInLoop(), connectDestroyed()).
ImplementsLife == Life!Spec

\* README: "Run benchmark for <sec> seconds."  No connection's end takes the
\* process with it.
SurvivesReset == pc # "killed"
===============================================================================
