--------------------------------- MODULE Http ----------------------------------
(***************************************************************************)
(* The callbacks of Http on the io threads, the counters they share, and   *)
(* the report the main thread prints from them while they go on.           *)
(*                                                                         *)
(* The counters are atomic but numConnSocket_, whose increment is a load   *)
(* and a store.  Every access is a step of its own, in the order of the    *)
(* code; the send() between them is left to module TcpConnection.  The     *)
(* call of onConnection() for a connection that is closed changes nothing. *)
(***************************************************************************)
EXTENDS Naturals, Sequences, FiniteSets

CONSTANTS
    IoThreads,      \* the io threads
    RequestLen,     \* requestData_.size()
    MostRead,       \* the most bytes one onMessage() finds in the buffer
    MaxCallbacks    \* bound: the calls of callbacks in all

ASSUME HttpAssumption ==
    /\ IsFiniteSet(IoThreads)
    /\ RequestLen \in Nat \ {0}
    /\ MostRead \in Nat \ {0}
    /\ MaxCallbacks \in Nat

VARIABLES
    counters,       \* the five counters of Http
    threadPc,       \* where each io thread is in a callback
    loaded,         \* what it has loaded of numConnSocket_
    callbacks,      \* the callbacks begun so far
    connected,      \* history: connections whose onConnection() has begun
    stage,          \* of the main thread: "loop", "showResult" or "shown"
    report          \* the numbers showResult() has printed

httpVars == <<counters, threadPc, loaded, callbacks, connected, stage, report>>

CounterNames == {"numConnSocket", "sendLen", "recvLen", "sendNum", "recvNum"}

\* What showResult() prints, line by line, as totals.
ReportLines ==
    <<"numConnSocket", "sendLen", "recvLen", "sendNum", "recvNum",
      "sendLen", "recvLen", "sendNum", "recvNum">>

HttpTypeOK ==
    /\ counters \in [CounterNames -> Nat]
    /\ threadPc \in [IoThreads -> {"idle", "storeConn", "recvNum", "sendLen", "sendNum"}]
    /\ loaded \in [IoThreads -> Nat]
    /\ callbacks \in 0 .. MaxCallbacks
    /\ connected \in 0 .. callbacks
    /\ stage \in {"loop", "showResult", "shown"}
    /\ report \in Seq(Nat)
    /\ Len(report) <= Len(ReportLines)
    /\ stage = "loop" => report = <<>>
    /\ stage = "shown" <=> Len(report) = Len(ReportLines)

HttpInit ==
    /\ counters = [c \in CounterNames |-> 0]
    /\ threadPc = [t \in IoThreads |-> "idle"]
    /\ loaded = [t \in IoThreads |-> 0]
    /\ callbacks = 0
    /\ connected = 0
    /\ stage = "loop"
    /\ report = <<>>

-------------------------------------------------------------------------------
(* The io threads.                                                         *)

mainVars == <<stage, report>>

At(t, from, to) ==
    /\ threadPc[t] = from
    /\ threadPc' = [threadPc EXCEPT ![t] = to]

Begin(t, to) ==
    /\ At(t, "idle", to)
    /\ callbacks < MaxCallbacks
    /\ callbacks' = callbacks + 1

Plus(counter, n) == [counters EXCEPT ![counter] = @ + n]

\* onConnection(): numConnSocket_++, the load.
OnConnection(t) ==
    /\ Begin(t, "storeConn")
    /\ connected' = connected + 1
    /\ loaded' = [loaded EXCEPT ![t] = counters.numConnSocket]
    /\ UNCHANGED <<counters, mainVars>>

\* numConnSocket_++, the store of what was loaded.
StoredConn(t) == loaded[t] + 1

StoreConn(t) ==
    /\ At(t, "storeConn", "sendLen")
    /\ counters' = [counters EXCEPT !.numConnSocket = StoredConn(t)]
    /\ UNCHANGED <<loaded, callbacks, connected, mainVars>>

\* onMessage(): recv_len_ += readableBytes(), then retrieveAll().
OnMessage(t) ==
    /\ Begin(t, "recvNum")
    /\ \E n \in 1 .. MostRead : counters' = Plus("recvLen", n)
    /\ UNCHANGED <<loaded, connected, mainVars>>

CountReceive(t) ==
    /\ At(t, "recvNum", "sendLen")
    /\ counters' = Plus("recvNum", 1)
    /\ UNCHANGED <<loaded, callbacks, connected, mainVars>>

\* Both callbacks: send_len_ += requestData_.size(), after send().
CountSentBytes(t) ==
    /\ At(t, "sendLen", "sendNum")
    /\ counters' = Plus("sendLen", RequestLen)
    /\ UNCHANGED <<loaded, callbacks, connected, mainVars>>

\* Mutant: nobody counts the requests.
SendNotCounted == counters

\* send_num_++
SendCounted == Plus("sendNum", 1)

CountSend(t) ==
    /\ At(t, "sendNum", "idle")
    /\ counters' = SendCounted
    /\ UNCHANGED <<loaded, callbacks, connected, mainVars>>

IoThread(t) ==
    \/ OnConnection(t)
    \/ StoreConn(t)
    \/ OnMessage(t)
    \/ CountReceive(t)
    \/ CountSentBytes(t)
    \/ CountSend(t)

-------------------------------------------------------------------------------
(* The main thread.                                                        *)

ioVars == <<counters, threadPc, loaded, callbacks, connected>>

\* The timer has called quit(), and loop() of the base loop returns, at any
\* time; the io threads are not told.
LoopReturns ==
    /\ stage = "loop"
    /\ stage' = "showResult"
    /\ UNCHANGED <<report, ioVars>>

\* showResult() reads the counter of its next line.
PrintLine ==
    /\ stage = "showResult"
    /\ report' = Append(report, counters[ReportLines[Len(report) + 1]])
    /\ stage' = IF Len(report') = Len(ReportLines) THEN "shown" ELSE stage
    /\ UNCHANGED ioVars

HttpNext ==
    \/ \E t \in IoThreads : IoThread(t)
    \/ LoopReturns
    \/ PrintLine

-------------------------------------------------------------------------------
\* Line k of a report that counts bytes in units of n, read before line l,
\* which counts how often: each io thread may have added the bytes of one
\* call that it has not counted yet, and between the lines further calls may
\* have been counted.
BytesMatchCalls(k, l, n) == report[k] <= n * (report[l] + Cardinality(IoThreads))

\* The figures of one report belong to different moments, and the number of
\* connections is incremented without a lock, but they cannot contradict each
\* other by more than one call per io thread: no more connections are reported
\* than were made, no more bytes than the calls account for, and the totals
\* behind the rates are not less than those printed before.  Increments of
\* numConnSocket_ may get lost, though not all of them
\* (Http::showResult(), Http::onConnection(), Http::onMessage()).
ReportIsPlausible ==
    /\ stage = "shown" =>
         /\ report[1] <= connected
         /\ BytesMatchCalls(2, 4, RequestLen) /\ BytesMatchCalls(6, 8, RequestLen)
         /\ BytesMatchCalls(3, 5, MostRead) /\ BytesMatchCalls(7, 9, MostRead)
         /\ \A k \in 6 .. 9 : report[k] >= report[k - 4]
    /\ connected > 0 /\ (\A t \in IoThreads : threadPc[t] # "storeConn") =>
         counters.numConnSocket \in 1 .. connected
===============================================================================
