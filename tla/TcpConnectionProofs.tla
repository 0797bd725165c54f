-------------------------- MODULE TcpConnectionProofs --------------------------
(***************************************************************************)
(* Proofs about TcpConnection, for requests, buffers and servers of any    *)
(* size.  The invariant is about a pass of handleEventWithGuard(): what    *)
(* epoll_wait() reported is old when a callback acts on it, and Stale says *)
(* what of it the server cannot have made untrue in between.               *)
(***************************************************************************)
EXTENDS TcpConnection, TLAPS

\* Names of short expressions, used nearly everywhere.
USE DEF kReadEvent, Broken

\* Nothing has happened to a connection that is not established.
Unborn ==
    state = "kConnecting" =>
        /\ pc = "loop" /\ events = {} /\ output = 0 /\ closeReports = 0
        /\ sendLen = 0 /\ recvNum = 0 /\ written = 0

\* Interest in writing, at every point of a pass.
Interest ==
    state = "kConnected" /\ pc # "killed" =>
        kReadEvent \subseteq events /\ ("POLLOUT" \in events <=> output > 0)

\* A disconnected channel is disabled, and its pass is nearly over.
Disabled ==
    state = "kDisconnected" => events = {} /\ pc \in {"loop", "write", "destroyed"}

Reported ==
    /\ closeReports <= 1
    /\ closeReports > 0 => state = "kDisconnected"

\* A socket has an error only if it is broken, and at most one urgent byte,
\* among the bytes it has received or right behind them.
Socket ==
    /\ soError # "none" => Broken
    /\ soError = "ECONNRESET" => reset
    /\ mark <= received + 1

BeforeWrite == {"close", "error", "read"}

\* What revents_ still says of the socket and the channel.
Stale ==
    /\ pc \in BeforeWrite => state = "kConnected"
    /\ pc \in BeforeWrite /\ "POLLIN" \in revents => received > 0 \/ fin \/ Broken
    /\ pc \in BeforeWrite /\ "POLLPRI" \in revents => mark > 0
    /\ pc \in BeforeWrite /\ "POLLOUT" \in revents => "POLLOUT" \in events
    /\ pc \in BeforeWrite \cup {"write"} /\ "POLLOUT" \in revents => unsent < SendSpace \/ Broken
    /\ pc = "close" /\ "POLLHUP" \in revents => "POLLIN" \in revents

IInv ==
    /\ TypeOK
    /\ Unborn
    /\ Interest
    /\ Disabled
    /\ Reported
    /\ Socket
    /\ Stale
    /\ BytesAccounted

-------------------------------------------------------------------------------
(* Numbers of bytes.                                                       *)

LEMMA MinOfTwo ==
    ASSUME NEW a \in Nat, NEW b \in Nat
    PROVE  /\ Min({a, b}) \in Nat
           /\ Min({a, b}) <= a /\ Min({a, b}) <= b
           /\ Min({a, b}) = a \/ Min({a, b}) = b
<1>1. \E x \in {a, b} : \A y \in {a, b} : x =< y
  OBVIOUS
<1>2. Min({a, b}) \in {a, b} /\ \A y \in {a, b} : Min({a, b}) =< y
  BY <1>1 DEF Min
<1> QED
  BY <1>2

\* What write() takes.
LEMMA TakenFacts ==
    ASSUME TypeOK, NEW len \in Nat
    PROVE  /\ Taken(len) \in Nat
           /\ Taken(len) <= len
           /\ unsent + Taken(len) \in 0 .. SendSpace
           /\ ~CanWrite => Taken(len) = 0
           /\ CanWrite /\ len > 0 /\ unsent < SendSpace => Taken(len) > 0
<1>1. SendSpace - unsent \in Nat /\ unsent \in Nat /\ SendSpace \in Nat
  BY TcpConnectionAssumption DEF TypeOK
<1> DEFINE room == SendSpace - unsent
           m == Min({len, room})
<1>2. m \in Nat /\ m <= len /\ m <= room /\ (m = len \/ m = room)
  BY <1>1, MinOfTwo
<1>3. Taken(len) = IF CanWrite THEN m ELSE 0
  BY DEF Taken
<1> HIDE DEF m
<1>4. CASE CanWrite
  BY <1>1, <1>2, <1>3, <1>4
<1>5. CASE ~CanWrite
  BY <1>1, <1>3, <1>5
<1> QED
  BY <1>4, <1>5

\* What read() gets.
LEMMA ReadFacts ==
    ASSUME TypeOK, Socket
    PROVE  /\ BytesRead \in Nat /\ BytesRead <= received
           /\ MarkAfterRead \in 0 .. PeerBytes + 1
           /\ MarkAfterRead <= received - BytesRead + 1
<1>1. /\ mark \in 0 .. PeerBytes + 1 /\ received \in Nat /\ mark <= received + 1
      /\ ReadMax \in Nat /\ PeerBytes \in Nat
  BY TcpConnectionAssumption DEF TypeOK, Socket
<1> DEFINE inFront == IF mark > 1 THEN mark - 1 ELSE received
<1>2. inFront \in Nat /\ inFront <= received
  BY <1>1
<1>3. BytesRead \in Nat /\ BytesRead <= inFront
  BY <1>1, <1>2, MinOfTwo DEF BytesRead
<1>4. CASE mark > 1
  BY <1>1, <1>3, <1>4 DEF MarkAfterRead
<1>5. CASE ~(mark > 1)
  BY <1>1, <1>2, <1>3, <1>5 DEF MarkAfterRead
<1> QED
  BY <1>4, <1>5

LEMMA OneMoreRequest ==
    ASSUME NEW n \in Nat
    PROVE  RequestLen * (n + 1) + RequestLen = RequestLen * (n + 1 + 1)
BY TcpConnectionAssumption

\* send() queues or writes every byte, and leaves the interest it should.
LEMMA SendFacts ==
    ASSUME TypeOK, Socket,
           NEW enabled, enabled \subseteq kReadEvent \cup {"POLLOUT"}, NEW next,
           SendInLoop(enabled, next)
    PROVE  /\ output' \in Nat
           /\ events' \subseteq kReadEvent \cup {"POLLOUT"}
           /\ kReadEvent \subseteq events'
           /\ pc' # "killed" => ("POLLOUT" \in events' <=> output' > 0)
           /\ unsent' \in 0 .. SendSpace
           /\ written' \in Nat
           /\ soError' \in {soError, "none"}
           /\ pc' \in {next, "killed"}
           /\ ~reset /\ pc' # "killed" => written' + output' = written + output + RequestLen
           /\ "POLLOUT" \in enabled => unsent' = unsent
<1>1. /\ RequestLen \in Nat /\ RequestLen > 0 /\ output \in Nat /\ written \in Nat
      /\ unsent \in 0 .. SendSpace
  BY TcpConnectionAssumption DEF TypeOK
<1>2. soError \in {"none", "ECONNRESET", "EPIPE", "ETIMEDOUT"}
  BY DEF TypeOK
<1>3. CASE "POLLOUT" \in enabled \/ output > 0
  <2>1. /\ output' = output + RequestLen
        /\ events' = EventsAfterSend(enabled, RequestLen)
        /\ pc' = next
        /\ unsent' = unsent /\ written' = written /\ soError' = soError
    BY <1>3 DEF SendInLoop
  <2>2. events' = kReadEvent \cup {"POLLOUT"}
    BY <1>1, <2>1 DEF EventsAfterSend
  <2> QED  BY <1>1, <2>1, <2>2
<1>4. CASE ~("POLLOUT" \in enabled \/ output > 0)
  <2>1. /\ unsent' = unsent + Taken(RequestLen)
        /\ written' = written + Taken(RequestLen)
        /\ soError' = "none"
        /\ output' = IF FaultError THEN 0 ELSE Remaining(RequestLen)
        /\ events' = EventsAfterSend(enabled, output')
        /\ pc' = IF WriteKills THEN "killed" ELSE next
    BY <1>4 DEF SendInLoop, WriteSocket
  <2>2. /\ Taken(RequestLen) \in Nat
        /\ Taken(RequestLen) <= RequestLen
        /\ unsent + Taken(RequestLen) \in 0 .. SendSpace
    BY <1>1, TakenFacts
  <2>3. output' \in Nat /\ (~FaultError => output' = RequestLen - Taken(RequestLen))
    BY <1>1, <2>1, <2>2 DEF Remaining
  <2>4. events' = kReadEvent \cup (IF output' > 0 THEN {"POLLOUT"} ELSE {})
    BY <1>4, <2>1 DEF EventsAfterSend
  <2>5. output = 0
    BY <1>1, <1>4
  <2>6. ~reset /\ pc' # "killed" => ~FaultError
    BY <2>1 DEF FaultError, WriteKills, WriteError, Socket
  <2>7. ~reset /\ pc' # "killed" => written' + output' = written + output + RequestLen
    BY <1>1, <2>1, <2>2, <2>3, <2>5, <2>6
  <2>8. kReadEvent \subseteq events' /\ ("POLLOUT" \in events' <=> output' > 0)
        /\ events' \subseteq kReadEvent \cup {"POLLOUT"}
    BY <2>4
  <2>9. pc' \in {next, "killed"}
    BY <2>1
  <2>10. unsent' \in 0 .. SendSpace /\ written' \in Nat
    BY <1>1, <2>1, <2>2
  <2> QED  BY <1>4, <2>1, <2>3, <2>7, <2>8, <2>9, <2>10
<1> QED
  BY <1>3, <1>4

-------------------------------------------------------------------------------
LEMMA InvInit == Init => IInv
<1> SUFFICES ASSUME Init PROVE IInv
  OBVIOUS
<1>1. TypeOK
  <2>1. 0 \in Nat /\ 0 \in 0 .. PeerBytes /\ 0 \in 0 .. PeerBytes + 1 /\ 0 \in 0 .. SendSpace
    BY TcpConnectionAssumption
  <2> QED  BY <2>1 DEF Init, TypeOK
<1>2. Unborn /\ Interest /\ Disabled /\ Reported /\ Socket /\ Stale /\ BytesAccounted
  BY DEF Init, Unborn, Interest, Disabled, Reported, Socket, Stale, BytesAccounted,
         BeforeWrite
<1> QED
  BY <1>1, <1>2 DEF IInv

LEMMA InvNext == IInv /\ [Next]_vars => IInv'
<1> SUFFICES ASSUME IInv, [Next]_vars PROVE IInv'
  OBVIOUS
<1>1. TypeOK /\ Unborn /\ Interest /\ Disabled /\ Reported /\ Socket /\ Stale /\ BytesAccounted
  BY DEF IInv
<1>2. RequestLen \in Nat /\ RequestLen > 0 /\ SendSpace \in Nat /\ PeerBytes \in Nat
  BY TcpConnectionAssumption
<1>3. CASE ConnectEstablished
  <2>1. /\ pc = "loop" /\ state = "kConnecting" /\ state' = "kConnected"
        /\ SendInLoop({"POLLOUT"}, "loop")
        /\ sendLen' = sendLen + RequestLen
        /\ UNCHANGED <<revents, closeReports, recvNum, recvLen, received, mark, fin, reset, timedOut,
                       peerSent>>
    BY <1>3 DEF ConnectEstablished
  <2>2. /\ output' \in Nat
        /\ events' \subseteq kReadEvent \cup {"POLLOUT"}
        /\ kReadEvent \subseteq events'
        /\ pc' # "killed" => ("POLLOUT" \in events' <=> output' > 0)
        /\ unsent' \in 0 .. SendSpace
        /\ written' \in Nat
        /\ soError' \in {soError, "none"}
        /\ pc' \in {"loop", "killed"}
        /\ ~reset /\ pc' # "killed" => written' + output' = written + output + RequestLen
    BY <1>1, <2>1, SendFacts
  <2>3. TypeOK'
    BY <1>1, <1>2, <2>1, <2>2 DEF TypeOK
  <2>4. Unborn' /\ Disabled' /\ Socket'
    BY <1>1, <2>1, <2>2 DEF Unborn, Disabled, Socket
  <2>5. Interest'
    BY <2>2 DEF Interest
  <2>6. Reported'
    BY <1>1, <2>1 DEF Reported, Unborn, TypeOK
  <2>7. Stale'
    BY <2>2 DEF Stale, BeforeWrite
  <2>8. BytesAccounted'
    <3>1. output = 0 /\ written = 0 /\ sendLen = 0 /\ recvNum = 0
      BY <1>1, <2>1 DEF Unborn
    <3>2. sendLen' = RequestLen * (recvNum' + 1)
      BY <1>2, <2>1, <3>1
    <3>3. ~reset /\ pc' # "killed" => sendLen' = written' + output'
      <4>1. sendLen' = RequestLen /\ written + output + RequestLen = RequestLen
        BY <1>2, <2>1, <3>1
      <4> QED  BY <2>2, <4>1
    <3>4. recvLen' + received' = peerSent'
      BY <1>1, <2>1 DEF BytesAccounted
    <3> QED  BY <2>1, <3>2, <3>3, <3>4 DEF BytesAccounted
  <2> QED  BY <2>3, <2>4, <2>5, <2>6, <2>7, <2>8 DEF IInv
<1>4. CASE ConnectDestroyed
  <2>1. /\ pc = "loop" /\ state # "kConnecting" /\ state' = "kDisconnected" /\ events' = {}
        /\ pc' = "destroyed"
        /\ UNCHANGED <<revents, output, closeReports, countVars, kernelVars>>
    BY <1>4 DEF ConnectDestroyed
  <2>2. TypeOK'
    BY <1>1, <2>1 DEF TypeOK, countVars, kernelVars
  <2>3. Unborn' /\ Interest' /\ Disabled' /\ Reported' /\ Socket' /\ Stale'
    BY <1>1, <2>1 DEF Unborn, Interest, Disabled, Reported, Socket, Stale, BeforeWrite,
                      countVars, kernelVars
  <2>4. BytesAccounted'
    BY <1>1, <2>1 DEF BytesAccounted, countVars, kernelVars
  <2> QED  BY <2>2, <2>3, <2>4 DEF IInv
<1>5. CASE Poll
  <2>1. /\ pc = "loop" /\ events # {} /\ pc' = "close"
        /\ revents' = PollMask \cap (events \cup {"POLLERR", "POLLHUP"})
        /\ UNCHANGED <<connVars, countVars, kernelVars>>
    BY <1>5 DEF Poll
  <2>2. state = "kConnected"
    BY <1>1, <2>1 DEF Unborn, Disabled, TypeOK
  <2>3. TypeOK'
    BY <1>1, <2>1 DEF TypeOK, connVars, countVars, kernelVars
  <2>4. Unborn' /\ Interest' /\ Disabled' /\ Reported' /\ Socket'
    BY <1>1, <2>1, <2>2 DEF Unborn, Interest, Disabled, Reported, Socket,
                            connVars, countVars, kernelVars
  <2>5. Stale'
    <3>1. /\ "POLLIN" \in revents' => received > 0 \/ fin \/ Broken
          /\ "POLLPRI" \in revents' => mark > 0
          /\ "POLLOUT" \in revents' => (unsent < SendSpace \/ Broken) /\ "POLLOUT" \in events
          /\ "POLLHUP" \in revents' => Broken
      BY <2>1 DEF PollMask
    <3>2. "POLLIN" \in events
      BY <1>1, <2>1, <2>2 DEF Interest
    <3>3. Broken => "POLLIN" \in revents'
      BY <2>1, <3>2 DEF PollMask
    <3> QED  BY <2>1, <2>2, <3>1, <3>3 DEF Stale, BeforeWrite, connVars, kernelVars
  <2>6. BytesAccounted'
    BY <1>1, <2>1, <2>2 DEF BytesAccounted, connVars, countVars, kernelVars
  <2> QED  BY <2>3, <2>4, <2>5, <2>6 DEF IInv
<1>6. CASE SkipCallback
  <2>1. /\ \/ pc = "error" /\ pc' = "read"
           \/ pc = "read" /\ pc' = "write"
           \/ pc = "write" /\ pc' = "loop"
        /\ UNCHANGED <<revents, connVars, countVars, kernelVars>>
    BY <1>6 DEF SkipCallback, Skip
  <2>2. TypeOK'
    BY <1>1, <2>1 DEF TypeOK, connVars, countVars, kernelVars
  <2>3. Unborn' /\ Interest' /\ Disabled' /\ Reported' /\ Socket'
    BY <1>1, <2>1 DEF Unborn, Interest, Disabled, Reported, Socket,
                      connVars, countVars, kernelVars
  <2>4. Stale'
    BY <1>1, <2>1 DEF Stale, BeforeWrite, connVars, kernelVars
  <2>5. BytesAccounted'
    BY <1>1, <2>1 DEF BytesAccounted, connVars, countVars, kernelVars
  <2> QED  BY <2>2, <2>3, <2>4, <2>5 DEF IInv
<1>7. CASE HandleHangUp
  <2>1. ~HangUp
    BY <1>1, <1>7 DEF HandleHangUp, HangUp, Stale
  <2>2. /\ pc = "close" /\ pc' = "error"
        /\ UNCHANGED <<revents, connVars, countVars, kernelVars>>
    BY <1>7, <2>1 DEF HandleHangUp, connVars
  <2>3. TypeOK'
    BY <1>1, <2>2 DEF TypeOK, connVars, countVars, kernelVars
  <2>4. Unborn' /\ Interest' /\ Disabled' /\ Reported' /\ Socket'
    BY <1>1, <2>2 DEF Unborn, Interest, Disabled, Reported, Socket, Stale, BeforeWrite,
                      connVars, countVars, kernelVars
  <2>5. Stale'
    BY <1>1, <2>2 DEF Stale, BeforeWrite, connVars, kernelVars
  <2>6. BytesAccounted'
    BY <1>1, <2>2 DEF BytesAccounted, connVars, countVars, kernelVars
  <2> QED  BY <2>3, <2>4, <2>5, <2>6 DEF IInv
<1>8. CASE HandleError
  <2>1. /\ pc = "error" /\ pc' = "read" /\ soError' = "none"
        /\ UNCHANGED <<revents, connVars, countVars, received, mark, unsent, fin, reset, timedOut,
                       written, peerSent>>
    BY <1>8 DEF HandleError
  <2>2. TypeOK'
    BY <1>1, <2>1 DEF TypeOK, connVars, countVars
  <2>3. Unborn' /\ Interest' /\ Disabled' /\ Reported' /\ Socket'
    BY <1>1, <2>1 DEF Unborn, Interest, Disabled, Reported, Socket, connVars, countVars
  <2>4. Stale'
    BY <1>1, <2>1 DEF Stale, BeforeWrite, connVars
  <2>5. BytesAccounted'
    BY <1>1, <2>1 DEF BytesAccounted, connVars, countVars
  <2> QED  BY <2>2, <2>3, <2>4, <2>5 DEF IInv
<1>9. CASE HandleMessage
  <2>1. /\ pc = "read" /\ received > 0 /\ received' = received - BytesRead
        /\ recvLen' = recvLen + BytesRead /\ recvNum' = recvNum + 1
        /\ mark' = MarkAfterRead /\ sendLen' = sendLen + RequestLen
        /\ UNCHANGED <<revents, state, closeReports, fin, reset, timedOut, peerSent>>
        /\ state = "kConnected" => SendInLoop(events, "write")
    BY <1>9 DEF HandleMessage
  <2>2. state = "kConnected"
    BY <1>1, <2>1 DEF Stale, BeforeWrite
  <2>3. /\ output' \in Nat
        /\ events' \subseteq kReadEvent \cup {"POLLOUT"}
        /\ kReadEvent \subseteq events'
        /\ pc' # "killed" => ("POLLOUT" \in events' <=> output' > 0)
        /\ unsent' \in 0 .. SendSpace
        /\ written' \in Nat
        /\ soError' \in {soError, "none"}
        /\ pc' \in {"write", "killed"}
        /\ ~reset /\ pc' # "killed" => written' + output' = written + output + RequestLen
        /\ "POLLOUT" \in events => unsent' = unsent
    <3>1. events \subseteq kReadEvent \cup {"POLLOUT"}
      BY <1>1 DEF TypeOK
    <3> QED  BY <1>1, <2>1, <2>2, <3>1, SendFacts
  <2>4. /\ BytesRead \in Nat /\ BytesRead <= received
        /\ mark' \in 0 .. PeerBytes + 1 /\ mark' <= received' + 1
    BY <1>1, <2>1, ReadFacts
  <2>5. TypeOK'
    <3>1. received' \in 0 .. PeerBytes /\ recvLen' \in Nat /\ recvNum' \in Nat /\ sendLen' \in Nat
      BY <1>1, <1>2, <2>1, <2>3, <2>4 DEF TypeOK
    <3> QED  BY <1>1, <2>1, <2>3, <2>4, <3>1 DEF TypeOK
  <2>6. Unborn' /\ Disabled'
    BY <2>1, <2>2 DEF Unborn, Disabled
  <2>7. Interest'
    BY <2>3 DEF Interest
  <2>8. Reported' /\ Socket'
    BY <1>1, <2>1, <2>3, <2>4 DEF Reported, Socket
  <2>9. Stale'
    BY <1>1, <2>1, <2>3 DEF Stale, BeforeWrite
  <2>10. BytesAccounted'
    <3>1. sendLen' = RequestLen * (recvNum' + 1)
      BY <1>1, <2>1, <2>2, <2>3, OneMoreRequest DEF BytesAccounted, TypeOK
    <3>2. recvLen' + received' = peerSent'
      BY <1>1, <2>1, <2>4 DEF BytesAccounted, TypeOK
    <3>3. ~reset /\ pc' # "killed" => sendLen' = written' + output'
      <4>1. ~reset => sendLen = written + output
        BY <1>1, <2>1, <2>2 DEF BytesAccounted
      <4> QED  BY <1>1, <1>2, <2>1, <2>3, <4>1 DEF TypeOK
    <3> QED  BY <2>1, <3>1, <3>2, <3>3 DEF BytesAccounted
  <2> QED  BY <2>5, <2>6, <2>7, <2>8, <2>9, <2>10 DEF IInv
<1>10. CASE HandleEndOfStream
  <2>1. /\ pc = "read" /\ received = 0 /\ mark' = MarkAfterRead /\ soError' = "none"
        /\ state' = "kDisconnected" /\ events' = {} /\ closeReports' = closeReports + 1
        /\ pc' = "write"
        /\ UNCHANGED <<revents, output, countVars, received, unsent, fin, reset, timedOut, written,
                       peerSent>>
    BY <1>10 DEF HandleEndOfStream, Close, EventsAfterClose
  <2>2. state = "kConnected"
    BY <1>1, <2>1 DEF Stale, BeforeWrite
  <2>3. closeReports = 0
    BY <1>1, <2>2 DEF Reported, TypeOK
  <2>4. TypeOK'
    <3>1. closeReports' = 1 /\ closeReports' \in Nat
      BY <2>1, <2>3
    <3>2. mark' \in 0 .. PeerBytes + 1
      BY <1>1, <2>1, ReadFacts
    <3> QED  BY <1>1, <2>1, <3>1, <3>2 DEF TypeOK, countVars
  <2>5. Unborn' /\ Interest' /\ Disabled' /\ Socket'
    <3>1. mark' <= received' + 1
      BY <1>1, <2>1, ReadFacts DEF TypeOK
    <3> QED  BY <2>1, <3>1 DEF Unborn, Interest, Disabled, Socket
  <2>6. Reported'
    BY <2>1, <2>2, <2>3 DEF Reported
  <2>7. Stale'
    BY <1>1, <2>1 DEF Stale, BeforeWrite
  <2>8. BytesAccounted'
    BY <1>1, <2>1, <2>2 DEF BytesAccounted, countVars
  <2> QED  BY <2>4, <2>5, <2>6, <2>7, <2>8 DEF IInv
<1>11. CASE HandleWrite
  <2>1. /\ pc = "write" /\ "POLLOUT" \in events /\ Taken(output) > 0
        /\ unsent' = unsent + Taken(output) /\ written' = written + Taken(output)
        /\ soError' = "none"
        /\ output' = output - Taken(output)
        /\ events' = EventsAfterWrite(output')
        /\ pc' = "loop"
        /\ UNCHANGED <<revents, state, closeReports, countVars, received, mark, fin, reset, timedOut,
                       peerSent>>
    BY <1>11 DEF HandleWrite, Writing, WriteSocket
  <2>2. /\ Taken(output) \in Nat /\ Taken(output) <= output
        /\ unsent + Taken(output) \in 0 .. SendSpace
    BY <1>1, TakenFacts DEF TypeOK
  <2>3. state = "kConnected"
    BY <1>1, <2>1 DEF Disabled, Unborn, TypeOK
  <2>4. events' = IF output' = 0 THEN events \ {"POLLOUT"} ELSE events
    BY <2>1 DEF EventsAfterWrite
  <2>5. output' \in Nat /\ written' \in Nat /\ unsent' \in 0 .. SendSpace
        /\ written' + output' = written + output
    BY <1>1, <2>1, <2>2 DEF TypeOK
  <2>6. TypeOK'
    BY <1>1, <2>1, <2>4, <2>5 DEF TypeOK, countVars
  <2>7. Unborn' /\ Disabled' /\ Socket'
    BY <1>1, <2>1, <2>3 DEF Unborn, Disabled, Socket
  <2>8. Interest'
    <3>1. kReadEvent \subseteq events
      BY <1>1, <2>1, <2>3 DEF Interest
    <3>2. "POLLOUT" \in events' <=> output' > 0
      BY <2>1, <2>4, <2>5
    <3>3. kReadEvent \subseteq events'
      BY <2>4, <3>1
    <3> QED  BY <3>2, <3>3 DEF Interest
  <2>9. Reported'
    BY <1>1, <2>1 DEF Reported
  <2>10. Stale'
    BY <2>1 DEF Stale, BeforeWrite
  <2>11. BytesAccounted'
    BY <1>1, <2>1, <2>3, <2>5 DEF BytesAccounted, countVars
  <2> QED  BY <2>6, <2>7, <2>8, <2>9, <2>10, <2>11 DEF IInv
<1>12. CASE HandleWriteFailure
  <2>1. /\ pc = "write" /\ "POLLOUT" \in revents /\ "POLLOUT" \in events /\ Taken(output) = 0
        /\ unsent' = unsent + Taken(output) /\ written' = written + Taken(output)
        /\ soError' = "none"
        /\ UNCHANGED <<revents, output, countVars, received, mark, fin, reset, timedOut, peerSent>>
    BY <1>12 DEF HandleWriteFailure, Writing, WriteSocket
  <2>2. state = "kConnected"
    BY <1>1, <2>1 DEF Disabled, Unborn, TypeOK
  <2>3. unsent' = unsent /\ written' = written
    BY <1>1, <2>1 DEF TypeOK
  <2>4. closeReports = 0
    BY <1>1, <2>2 DEF Reported, TypeOK
  <2>5. CASE WriteKills
    <3>1. pc' = "killed" /\ UNCHANGED <<state, events, closeReports>>
      BY <1>12, <2>5 DEF HandleWriteFailure
    <3>2. TypeOK'
      BY <1>1, <2>1, <2>3, <3>1 DEF TypeOK, countVars
    <3>3. Unborn' /\ Interest' /\ Disabled' /\ Reported' /\ Socket' /\ Stale'
      BY <1>1, <2>1, <2>2, <3>1 DEF Unborn, Interest, Disabled, Reported, Socket, Stale,
                                    BeforeWrite
    <3>4. BytesAccounted'
      BY <1>1, <2>1, <2>2, <3>1 DEF BytesAccounted, countVars
    <3> QED  BY <3>2, <3>3, <3>4 DEF IInv
  <2>6. CASE ~WriteKills
    <3>1. /\ pc' = "loop" /\ state' = "kDisconnected" /\ events' = {}
          /\ closeReports' = closeReports + 1
      BY <1>12, <2>6 DEF HandleWriteFailure, Close, EventsAfterClose
    <3>2. TypeOK'
      <4>1. closeReports' = 1 /\ closeReports' \in Nat
        BY <2>4, <3>1
      <4> QED  BY <1>1, <2>1, <2>3, <3>1, <4>1 DEF TypeOK, countVars
    <3>3. Unborn' /\ Interest' /\ Disabled' /\ Socket' /\ Stale'
      BY <1>1, <2>1, <3>1 DEF Unborn, Interest, Disabled, Socket, Stale, BeforeWrite
    <3>4. Reported'
      BY <2>1, <2>4, <3>1 DEF Reported
    <3>5. BytesAccounted'
      BY <1>1, <2>1, <2>2, <3>1 DEF BytesAccounted, countVars
    <3> QED  BY <3>2, <3>3, <3>4, <3>5 DEF IInv
  <2> QED  BY <2>5, <2>6
<1>13. CASE PeerSends
  <2>1. /\ peerSent < PeerBytes /\ peerSent' = peerSent + 1 /\ received' = received + 1
        /\ UNCHANGED <<channelVars, connVars, countVars, mark, unsent, fin, reset, timedOut, soError,
                       written>>
    BY <1>13 DEF PeerSends
  <2>2. received' \in 0 .. PeerBytes /\ peerSent' \in 0 .. PeerBytes
    BY <1>1, <1>2, <2>1 DEF TypeOK, BytesAccounted
  <2>3. TypeOK'
    BY <1>1, <2>1, <2>2 DEF TypeOK, channelVars, connVars, countVars
  <2>4. Unborn' /\ Interest' /\ Disabled' /\ Reported' /\ Socket'
    BY <1>1, <2>1 DEF Unborn, Interest, Disabled, Reported, Socket, TypeOK,
                      channelVars, connVars, countVars
  <2>5. Stale'
    BY <1>1, <2>1 DEF Stale, BeforeWrite, TypeOK, channelVars, connVars
  <2>6. BytesAccounted'
    BY <1>1, <2>1 DEF BytesAccounted, TypeOK, channelVars, connVars, countVars
  <2> QED  BY <2>3, <2>4, <2>5, <2>6 DEF IInv
<1>14. CASE PeerReads
  <2>1. /\ unsent > 0 /\ unsent' = unsent - 1
        /\ UNCHANGED <<channelVars, connVars, countVars, received, mark, fin, reset, timedOut, soError,
                       written, peerSent>>
    BY <1>14 DEF PeerReads
  <2>2. unsent' \in 0 .. SendSpace /\ unsent' < unsent
    BY <1>1, <1>2, <2>1 DEF TypeOK
  <2>3. TypeOK'
    BY <1>1, <2>1, <2>2 DEF TypeOK, channelVars, connVars, countVars
  <2>4. Unborn' /\ Interest' /\ Disabled' /\ Reported' /\ Socket'
    BY <1>1, <2>1 DEF Unborn, Interest, Disabled, Reported, Socket,
                      channelVars, connVars, countVars
  <2>5. Stale'
    BY <1>1, <1>2, <2>1, <2>2 DEF Stale, BeforeWrite, TypeOK, channelVars, connVars
  <2>6. BytesAccounted'
    BY <1>1, <2>1 DEF BytesAccounted, channelVars, connVars, countVars
  <2> QED  BY <2>3, <2>4, <2>5, <2>6 DEF IInv
<1>15. CASE PeerCloses
  <2>1. /\ fin' = TRUE
        /\ UNCHANGED <<channelVars, connVars, countVars, received, mark, unsent, reset, timedOut,
                       soError, written, peerSent>>
    BY <1>15 DEF PeerCloses
  <2>2. TypeOK'
    BY <1>1, <2>1 DEF TypeOK, channelVars, connVars, countVars
  <2>3. Unborn' /\ Interest' /\ Disabled' /\ Reported' /\ Socket'
    BY <1>1, <2>1 DEF Unborn, Interest, Disabled, Reported, Socket,
                      channelVars, connVars, countVars
  <2>4. Stale'
    BY <1>1, <2>1 DEF Stale, BeforeWrite, channelVars, connVars
  <2>5. BytesAccounted'
    BY <1>1, <2>1 DEF BytesAccounted, channelVars, connVars, countVars
  <2> QED  BY <2>2, <2>3, <2>4, <2>5 DEF IInv
<1>16. CASE PeerResets \/ NetworkFails
  <2>1. /\ Broken' /\ unsent' = 0
        /\ reset' \in BOOLEAN /\ (reset => reset') /\ timedOut' \in BOOLEAN
        /\ soError' \in {"EPIPE", "ECONNRESET", "ETIMEDOUT"} /\ (soError' = "ECONNRESET" => reset')
        /\ UNCHANGED <<channelVars, connVars, countVars, received, mark, fin, written, peerSent>>
    BY <1>1, <1>16 DEF PeerResets, NetworkFails, TypeOK
  <2>2. TypeOK'
    <3>1. 0 \in 0 .. SendSpace
      BY <1>2
    <3> QED  BY <1>1, <2>1, <3>1 DEF TypeOK, channelVars, connVars, countVars
  <2>3. Unborn' /\ Interest' /\ Disabled' /\ Reported' /\ Socket'
    BY <1>1, <2>1 DEF Unborn, Interest, Disabled, Reported, Socket,
                      channelVars, connVars, countVars
  <2>4. Stale'
    BY <1>1, <2>1 DEF Stale, BeforeWrite, channelVars, connVars
  <2>5. BytesAccounted'
    BY <1>1, <2>1 DEF BytesAccounted, channelVars, connVars, countVars
  <2> QED  BY <2>2, <2>3, <2>4, <2>5 DEF IInv
<1>17. CASE PeerSendsUrgent
  <2>1. /\ \/ mark' = received + 1 /\ received' = received /\ peerSent' = peerSent
           \/ /\ peerSent < PeerBytes /\ mark' = received + 2
              /\ received' = received + 1 /\ peerSent' = peerSent + 1
        /\ UNCHANGED <<channelVars, connVars, countVars, unsent, fin, reset, timedOut, soError,
                       written>>
    BY <1>17 DEF PeerSendsUrgent
  <2>2. /\ received' \in 0 .. PeerBytes /\ peerSent' \in 0 .. PeerBytes
        /\ received' >= received
        /\ mark' \in 0 .. PeerBytes + 1 /\ mark' > 0 /\ mark' <= received' + 1
    BY <1>1, <1>2, <2>1 DEF TypeOK, BytesAccounted
  <2>3. TypeOK'
    BY <1>1, <2>1, <2>2 DEF TypeOK, channelVars, connVars, countVars
  <2>4. Unborn' /\ Interest' /\ Disabled' /\ Reported' /\ Socket'
    BY <1>1, <2>1, <2>2 DEF Unborn, Interest, Disabled, Reported, Socket,
                            channelVars, connVars, countVars
  <2>5. Stale'
    <3>1. received > 0 => received' > 0
      BY <1>1, <1>2, <2>2 DEF TypeOK
    <3>2. mark' > 0 /\ UNCHANGED <<pc, revents, state, events, unsent, fin, reset, timedOut>>
      BY <2>1, <2>2 DEF channelVars, connVars
    <3> QED  BY <1>1, <3>1, <3>2 DEF Stale, BeforeWrite
  <2>6. BytesAccounted'
    BY <1>1, <2>1 DEF BytesAccounted, TypeOK, channelVars, connVars, countVars
  <2> QED  BY <2>3, <2>4, <2>5, <2>6 DEF IInv
<1>18. CASE UNCHANGED vars
  <2> USE DEF vars, channelVars, connVars, countVars, kernelVars
  <2>1. TypeOK'
    BY <1>1, <1>18 DEF TypeOK
  <2>2. Unborn' /\ Interest' /\ Disabled' /\ Reported' /\ Socket' /\ Stale'
    BY <1>1, <1>18 DEF Unborn, Interest, Disabled, Reported, Socket, Stale, BeforeWrite
  <2>3. BytesAccounted'
    BY <1>1, <1>18 DEF BytesAccounted
  <2> QED  BY <2>1, <2>2, <2>3 DEF IInv
<1> QED
  BY <1>3, <1>4, <1>5, <1>6, <1>7, <1>8, <1>9, <1>10, <1>11, <1>12, <1>13, <1>14,
     <1>15, <1>16, <1>17, <1>18 DEF Next, IoThread

-------------------------------------------------------------------------------
(* The theorems.                                                           *)

\* A hangup is never reported without input, so that the close callback and the
\* read callback, which would each report a close, do not meet in one pass.
HangUpComesWithInput == pc = "close" => ~HangUp

LEMMA InvGives ==
    IInv => TypeOK /\ WriteInterestIffOutput /\ BytesAccounted /\ CloseReportedOnce
            /\ HangUpComesWithInput
<1> SUFFICES ASSUME IInv
             PROVE  TypeOK /\ WriteInterestIffOutput /\ BytesAccounted /\ CloseReportedOnce
                    /\ HangUpComesWithInput
  OBVIOUS
<1>1. TypeOK /\ Interest /\ Disabled /\ Reported /\ Stale /\ BytesAccounted
  BY DEF IInv
<1>2. WriteInterestIffOutput
  BY <1>1 DEF WriteInterestIffOutput, Interest, Writing
<1>3. CloseReportedOnce
  BY <1>1 DEF CloseReportedOnce, Reported, Disabled
<1>4. HangUpComesWithInput
  BY <1>1 DEF HangUpComesWithInput, HangUp, Stale
<1> QED
  BY <1>1, <1>2, <1>3, <1>4

\* A step that reports a close: the callback that makes it finds the socket at
\* its end, full although it was reported writable, or with an urgent byte only.
LEMMA StepHasCause ==
    IInv /\ [Next]_vars =>
        [closeReports' > closeReports =>
           fin \/ Broken \/ (pc = "read" /\ mark = 1 /\ received = 0)]_vars
<1> SUFFICES ASSUME IInv, Next, closeReports' > closeReports
             PROVE  fin \/ Broken \/ (pc = "read" /\ mark = 1 /\ received = 0)
  OBVIOUS
<1>1. TypeOK /\ Unborn /\ Interest /\ Disabled /\ Socket /\ Stale
  BY DEF IInv
<1>2. closeReports \in Nat /\ closeReports' # closeReports
  BY <1>1 DEF TypeOK
<1>3. CASE HandleHangUp
  <2>1. pc = "close" /\ HangUp
    BY <1>2, <1>3 DEF HandleHangUp
  <2> QED  BY <1>1, <2>1 DEF HangUp, Stale
<1>4. CASE HandleEndOfStream
  <2>1. pc = "read" /\ received = 0 /\ Reading
    BY <1>4 DEF HandleEndOfStream
  <2>2. CASE "POLLIN" \in revents
    BY <1>1, <2>1, <2>2 DEF Stale, BeforeWrite, TypeOK
  <2>3. CASE "POLLPRI" \in revents
    <3>1. mark > 0 /\ mark <= 1 /\ mark \in Nat
      BY <1>1, <2>1, <2>3 DEF Stale, BeforeWrite, Socket, TypeOK
    <3> QED  BY <2>1, <3>1
  <2> QED  BY <2>1, <2>2, <2>3 DEF Reading
<1>5. CASE HandleWriteFailure
  <2>1. pc = "write" /\ "POLLOUT" \in revents /\ "POLLOUT" \in events /\ Taken(output) = 0
    BY <1>5 DEF HandleWriteFailure, Writing
  <2>2. state = "kConnected"
    BY <1>1, <2>1 DEF Disabled, Unborn, TypeOK
  <2>3. output \in Nat /\ output > 0
    BY <1>1, <2>1, <2>2 DEF Interest, TypeOK
  <2>4. CASE CanWrite
    <3>1. ~(unsent < SendSpace)
      BY <1>1, <2>1, <2>3, <2>4, TakenFacts
    <3> QED  BY <1>1, <2>1, <3>1 DEF Stale, BeforeWrite
  <2>5. CASE ~CanWrite
    BY <1>1, <2>5 DEF CanWrite, WriteError, Socket
  <2> QED  BY <2>4, <2>5
<1>6. ~(HandleHangUp \/ HandleEndOfStream \/ HandleWriteFailure) => closeReports' = closeReports
  <2>1. ConnectEstablished \/ ConnectDestroyed \/ Poll \/ SkipCallback \/ HandleError
          \/ HandleMessage \/ HandleWrite => closeReports' = closeReports
    BY DEF ConnectEstablished, ConnectDestroyed, Poll, SkipCallback, Skip, HandleError,
           HandleMessage, HandleWrite, connVars
  <2>2. PeerSends \/ PeerSendsUrgent \/ PeerReads \/ PeerCloses \/ PeerResets \/ NetworkFails
          => closeReports' = closeReports
    BY DEF PeerSends, PeerSendsUrgent, PeerReads, PeerCloses, PeerResets, NetworkFails, connVars
  <2> QED  BY <2>1, <2>2 DEF Next, IoThread
<1> QED
  BY <1>2, <1>3, <1>4, <1>5, <1>6

\* Once it is disconnected a connection only ends its pass and is destroyed.
LEMMA StepIsSilent ==
    IInv /\ [Next]_vars =>
        [state = "kDisconnected" => UNCHANGED <<state, output, countVars, written>>]_vars
<1> SUFFICES ASSUME IInv, Next, state = "kDisconnected"
             PROVE  UNCHANGED <<state, output, countVars, written>>
  OBVIOUS
<1>1. events = {} /\ pc \in {"loop", "write", "destroyed"}
  BY DEF IInv, Disabled
<1>2. CASE ConnectDestroyed
  BY <1>2 DEF ConnectDestroyed, kernelVars
<1>3. CASE SkipCallback
  BY <1>3 DEF SkipCallback, Skip, connVars, kernelVars
<1>4. CASE PeerSends \/ PeerSendsUrgent \/ PeerReads \/ PeerCloses \/ PeerResets \/ NetworkFails
  BY <1>4 DEF PeerSends, PeerSendsUrgent, PeerReads, PeerCloses, PeerResets, NetworkFails, connVars
<1>5. ~ConnectEstablished /\ ~Poll /\ ~HandleHangUp /\ ~HandleError /\ ~HandleMessage
      /\ ~HandleEndOfStream /\ ~HandleWrite /\ ~HandleWriteFailure
  BY <1>1 DEF ConnectEstablished, Poll, HandleHangUp, HandleError, HandleMessage,
              HandleEndOfStream, HandleWrite, HandleWriteFailure, Writing
<1> QED
  BY <1>2, <1>3, <1>4, <1>5 DEF Next, IoThread

\* Every step is one of the connection's life, or none of it: a callback that
\* closes the connection finds it connected, because what comes before it in
\* the same pass did not close it.
LEMMA StepIsOfLife == IInv /\ [Next]_vars => [Life!Next]_(Life!vars)
<1> SUFFICES ASSUME IInv, [Next]_vars
             PROVE  [Life!Next]_(Life!vars)
  OBVIOUS
<1> USE DEF Life!Next, Life!vars, Life!Establish, Life!Close, Life!TearDown, Index
<1>1. TypeOK /\ Unborn /\ Interest /\ Disabled /\ Stale /\ Socket
  BY DEF IInv
<1>2. CASE ConnectEstablished
  <2>1. /\ pc = "loop" /\ state = "kConnecting" /\ state' = "kConnected"
        /\ SendInLoop({"POLLOUT"}, "loop")
    BY <1>2 DEF ConnectEstablished
  <2>2. kReadEvent \subseteq events' /\ pc' \in {"loop", "killed"}
    BY <1>1, <2>1, SendFacts
  <2> QED  BY <2>1, <2>2
<1>3. CASE ConnectDestroyed
  <2>1. CASE state = "kConnected"
    <3>1. events # {}
      BY <1>1, <1>3, <2>1 DEF ConnectDestroyed, Interest
    <3> QED  BY <1>3, <2>1, <3>1 DEF ConnectDestroyed
  <2>2. CASE state = "kDisconnected"
    <3>1. events = {}
      BY <1>1, <2>2 DEF Disabled
    <3> QED  BY <1>3, <2>2, <3>1 DEF ConnectDestroyed
  <2> QED  BY <1>1, <1>3, <2>1, <2>2 DEF ConnectDestroyed, TypeOK
<1>4. CASE Poll \/ SkipCallback \/ HandleError
  <2>1. state' = state /\ events' = events /\ pc # "destroyed" /\ pc' # "destroyed"
    BY <1>4 DEF Poll, SkipCallback, Skip, HandleError, connVars
  <2> QED  BY <2>1
<1>5. CASE HandleHangUp
  <2>1. pc = "close" /\ pc' = "error" /\ state = "kConnected"
    BY <1>1, <1>5 DEF HandleHangUp, Stale, BeforeWrite
  <2>2. events # {}
    BY <1>1, <2>1 DEF Interest
  <2>3. CASE HangUp
    <3>1. state' = "kDisconnected" /\ events' = {}
      BY <1>5, <2>3 DEF HandleHangUp, Close, EventsAfterClose
    <3> QED  BY <2>1, <2>2, <3>1
  <2>4. CASE ~HangUp
    BY <1>5, <2>1, <2>4 DEF HandleHangUp
  <2> QED  BY <2>3, <2>4
<1>6. CASE HandleMessage
  <2>1. pc = "read" /\ state = "kConnected" /\ state' = state
    BY <1>1, <1>6 DEF HandleMessage, Stale, BeforeWrite
  <2>2. SendInLoop(events, "write")
    BY <1>6, <2>1 DEF HandleMessage
  <2>3. kReadEvent \subseteq events' /\ pc' \in {"write", "killed"}
    BY <1>1, <2>2, SendFacts DEF TypeOK
  <2>4. events # {}
    BY <1>1, <2>1 DEF Interest
  <2> QED  BY <2>1, <2>3, <2>4
<1>7. CASE HandleEndOfStream
  <2>1. /\ pc = "read" /\ pc' = "write" /\ state = "kConnected"
        /\ state' = "kDisconnected" /\ events' = {}
    BY <1>1, <1>7 DEF HandleEndOfStream, Close, EventsAfterClose, Stale, BeforeWrite
  <2>2. events # {}
    BY <1>1, <2>1 DEF Interest
  <2> QED  BY <2>1, <2>2
<1>8. CASE HandleWrite \/ HandleWriteFailure
  <2>1. pc = "write" /\ "POLLOUT" \in events /\ pc' \in {"loop", "killed"}
    BY <1>8 DEF HandleWrite, HandleWriteFailure, Writing
  <2>2. state = "kConnected" /\ "POLLIN" \in events
    BY <1>1, <2>1 DEF Unborn, Disabled, Interest, TypeOK
  <2>3. CASE HandleWrite
    <3>1. state' = state /\ "POLLIN" \in events'
      BY <2>2, <2>3 DEF HandleWrite, EventsAfterWrite
    <3> QED  BY <2>1, <2>2, <3>1
  <2>4. CASE HandleWriteFailure /\ WriteKills
    BY <2>1, <2>2, <2>4 DEF HandleWriteFailure
  <2>5. CASE HandleWriteFailure /\ ~WriteKills
    <3>1. state' = "kDisconnected" /\ events' = {}
      BY <2>5 DEF HandleWriteFailure, Close, EventsAfterClose
    <3> QED  BY <2>1, <2>2, <3>1
  <2> QED  BY <1>8, <2>3, <2>4, <2>5
<1>9. CASE PeerSends \/ PeerSendsUrgent \/ PeerReads \/ PeerCloses \/ PeerResets \/ NetworkFails
           \/ UNCHANGED vars
  BY <1>9 DEF PeerSends, PeerSendsUrgent, PeerReads, PeerCloses, PeerResets, NetworkFails, vars,
              channelVars, connVars
<1> QED
  BY <1>2, <1>3, <1>4, <1>5, <1>6, <1>7, <1>8, <1>9 DEF Next, IoThread

\* The variables of a connection have their types, and the kernel's counts
\* stay within its buffers (TcpConnection).
THEOREM TypeCorrect == Spec => []TypeOK
BY InvInit, InvNext, InvGives, PTL DEF Spec

\* Between two events POLLOUT is asked for exactly while output waits
\* (TcpConnection::sendInLoop(), TcpConnection::handleWrite()).
THEOREM InterestIffOutput == Spec => []WriteInterestIffOutput
BY InvInit, InvNext, InvGives, PTL DEF Spec

\* No byte of a request or of an answer is lost or counted twice
\* (TcpConnection::sendInLoop(), TcpConnection::handleRead()).
THEOREM EveryByteAccounted == Spec => []BytesAccounted
BY InvInit, InvNext, InvGives, PTL DEF Spec

\* The end of a connection is reported to its owner once
\* (TcpConnection::handleClose()).
THEOREM OneCloseReport == Spec => []CloseReportedOnce
BY InvInit, InvNext, InvGives, PTL DEF Spec

\* Unless it reads an urgent byte alone, the program takes no result of read()
\* or write() for an end that was none (TcpConnection::handleRead(),
\* TcpConnection::handleWrite(), Channel::handleEventWithGuard()).
THEOREM NoFalseClose == Spec => CloseHasCause
BY InvInit, InvNext, StepHasCause, PTL DEF Spec, CloseHasCause

\* The two callbacks that report a close never meet in one pass
\* (Channel::handleEventWithGuard()).
THEOREM NoLoneHangUp == Spec => []HangUpComesWithInput
BY InvInit, InvNext, InvGives, PTL DEF Spec

\* A disconnected connection neither sends nor counts
\* (Channel::handleEventWithGuard()).
THEOREM QuietAfterClose == Spec => SilentAfterClose
BY InvInit, InvNext, StepIsSilent, PTL DEF Spec, SilentAfterClose

\* Whatever the server does in the middle of a pass, the connection has the
\* life of module ConnectionLife (TcpConnection::connectEstablished(),
\* TcpConnection::handleClose(), TcpConnection::connectDestroyed()).
THEOREM LifeOfConnection == Spec => ImplementsLife
<1>1. Init => Life!Init
  BY DEF Init, Life!Init, Index
<1> QED
  BY <1>1, InvInit, InvNext, StepIsOfLife, PTL DEF Spec, ImplementsLife, Life!Spec
===============================================================================
