------------------------------ MODULE MainProofs -------------------------------
(***************************************************************************)
(* Proofs about main(), for any command line, any URL, any number of io    *)
(* threads and any length of requests.                                     *)
(*                                                                         *)
(* The report: the invariant counts the threads between the two halves of  *)
(* a callback:                                                             *)
(* each has added its bytes and not yet its call.  A report is made of     *)
(* values the counters had, so what was printed first bounds what is       *)
(* printed later; only numConnSocket_ may decrease, and is bounded by the  *)
(* connections instead.                                                    *)
(*                                                                         *)
(* The URL: where it is cut follows from where find() stops, and that from *)
(* the least position of a character; a number has a value because the     *)
(* shortest text without one cannot exist.                                 *)
(*                                                                         *)
(* main() itself: the parser has stopped before the options are read, and  *)
(* the request, once it is made, is the one of these options.              *)
(***************************************************************************)
EXTENDS Main, CommandLineProofs, FiniteSetTheorems, WellFoundedInduction, TLAPS

NumThreads == Cardinality(IoThreads)

\* The threads that have counted the bytes of a call and not the call.
Receiving == { t \in IoThreads : threadPc[t] = "recvNum" }
Sending == { t \in IoThreads : threadPc[t] = "sendNum" }

Types ==
    /\ counters \in [CounterNames -> Nat]
    /\ threadPc \in [IoThreads -> {"idle", "storeConn", "recvNum", "sendLen", "sendNum"}]
    /\ loaded \in [IoThreads -> Nat]
    /\ connected \in Nat
    /\ report \in Seq(Nat)
    /\ Len(report) <= 9
    /\ stage = "loop" => report = <<>>
    /\ stage = "showResult" => Len(report) < 9
    /\ stage = "shown" => Len(report) = 9

BytesCounted ==
    /\ counters["sendLen"] <= RequestLen * (counters["sendNum"] + Cardinality(Sending))
    /\ counters["recvLen"] <= MostRead * (counters["recvNum"] + Cardinality(Receiving))

ConnectionsCounted ==
    /\ counters["numConnSocket"] <= connected
    /\ \A t \in IoThreads : threadPc[t] = "storeConn" => loaded[t] + 1 <= connected
    /\ connected > 0 /\ counters["numConnSocket"] = 0 =>
          \E t \in IoThreads : threadPc[t] = "storeConn"

\* What is printed is no more than the counter has now.
Past ==
    /\ Len(report) >= 1 => report[1] <= connected
    /\ \A k \in 2 .. Len(report) : report[k] <= counters[ReportLines[k]]

\* Line k of the report, in bytes, against line l, in calls, or against the
\* counter while line l is to come.
Balanced(k, l, calls, unit) ==
    /\ k <= Len(report) /\ Len(report) < l =>
          report[k] <= unit * (counters[calls] + NumThreads)
    /\ l <= Len(report) => BytesMatchCalls(k, l, unit)

AllBalanced ==
    /\ Balanced(2, 4, "sendNum", RequestLen) /\ Balanced(6, 8, "sendNum", RequestLen)
    /\ Balanced(3, 5, "recvNum", MostRead) /\ Balanced(7, 9, "recvNum", MostRead)

TotalsGrow == \A k \in 6 .. Len(report) : report[k] >= report[k - 4]

ReportInv ==
    /\ Types
    /\ BytesCounted
    /\ ConnectionsCounted
    /\ Past
    /\ AllBalanced
    /\ TotalsGrow

-------------------------------------------------------------------------------
(* Arithmetic and finite sets.                                             *)

LEMMA TimesMonotone ==
    ASSUME NEW n \in Nat, NEW a \in Nat, NEW b \in Nat, a <= b
    PROVE  n * a <= n * b /\ n * a \in Nat /\ n * b \in Nat
<1>1. PICK d \in Nat : b = a + d
  <2>1. b - a \in Nat /\ b = a + (b - a)
    OBVIOUS
  <2>2. QED
    BY <2>1
<1>2. n * b = n * a + n * d /\ n * d \in Nat /\ n * a \in Nat
  BY <1>1
<1>3. QED
  BY <1>2

LEMMA TimesOneMore ==
    ASSUME NEW n \in Nat, NEW a \in Nat
    PROVE  n * (a + 1) = n * a + n /\ n * a \in Nat
  OBVIOUS

LEMMA Numbers ==
    /\ RequestLen \in Nat /\ MostRead \in Nat /\ NumThreads \in Nat
    /\ IsFiniteSet(IoThreads)
    /\ IsFiniteSet(Sending) /\ IsFiniteSet(Receiving)
    /\ Cardinality(Sending) \in Nat /\ Cardinality(Sending) <= NumThreads
    /\ Cardinality(Receiving) \in Nat /\ Cardinality(Receiving) <= NumThreads
<1>1. IsFiniteSet(IoThreads) /\ RequestLen \in Nat /\ MostRead \in Nat
  BY HttpAssumption
<1>2. Sending \subseteq IoThreads /\ Receiving \subseteq IoThreads
  BY DEF Sending, Receiving
<1>3. /\ IsFiniteSet(Sending) /\ Cardinality(Sending) <= NumThreads
      /\ IsFiniteSet(Receiving) /\ Cardinality(Receiving) <= NumThreads
  BY <1>1, <1>2, FS_Subset DEF NumThreads
<1>4. QED
  BY <1>1, <1>3, FS_CardinalityType DEF NumThreads

\* With every thread counted in, the bytes match the calls at any moment.
LEMMA BytesBounded ==
    ASSUME Types, BytesCounted
    PROVE  /\ counters["sendLen"] <= RequestLen * (counters["sendNum"] + NumThreads)
           /\ counters["recvLen"] <= MostRead * (counters["recvNum"] + NumThreads)
<1>1. \A c \in CounterNames : counters[c] \in Nat
  BY DEF Types
<1>2. /\ counters["sendLen"] \in Nat /\ counters["sendNum"] \in Nat
      /\ counters["recvLen"] \in Nat /\ counters["recvNum"] \in Nat
  BY <1>1 DEF CounterNames
<1>3. ASSUME NEW n \in Nat, NEW a \in Nat, NEW s \in Nat, NEW b \in Nat,
             s <= NumThreads, b <= n * (a + s)
      PROVE  b <= n * (a + NumThreads)
  <2>1. NumThreads \in Nat
    BY Numbers
  <2>2. a + s \in Nat /\ a + NumThreads \in Nat /\ a + s <= a + NumThreads
    BY <1>3, <2>1
  <2>3. PICK x \in Nat : x = a + s
    BY <2>2
  <2>4. PICK y \in Nat : y = a + NumThreads
    BY <2>2
  <2>5. n * x <= n * y /\ n * x \in Nat /\ n * y \in Nat
    BY <2>2, <2>3, <2>4, TimesMonotone
  <2>6. QED
    BY <1>3, <2>3, <2>4, <2>5
<1>4. QED
  BY <1>2, <1>3, Numbers DEF BytesCounted

-------------------------------------------------------------------------------
(* The io threads.                                                         *)

\* Between the halves of a callback one counter grows, or numConnSocket_ is
\* stored; the report is left alone.
LEMMA IoThreadCounts ==
    ASSUME Types, BytesCounted, NEW t \in IoThreads, IoThread(t)
    PROVE  /\ Types'
           /\ BytesCounted'
           /\ report' = report
           /\ \A c \in CounterNames \ {"numConnSocket"} : counters[c] <= counters'[c]
           /\ connected <= connected'
<1>a. /\ \A c \in CounterNames : counters[c] \in Nat
      /\ counters["sendLen"] \in Nat /\ counters["sendNum"] \in Nat
      /\ counters["recvLen"] \in Nat /\ counters["recvNum"] \in Nat
  BY DEF Types, CounterNames
<1>b. /\ RequestLen \in Nat /\ MostRead \in Nat
      /\ IsFiniteSet(Sending) /\ IsFiniteSet(Receiving)
      /\ Cardinality(Sending) \in Nat /\ Cardinality(Receiving) \in Nat
  BY Numbers
<1>c. ASSUME NEW from, NEW to, At(t, from, to),
             to \in {"idle", "storeConn", "recvNum", "sendLen", "sendNum"}
      PROVE  /\ threadPc[t] = from
             /\ threadPc' \in [IoThreads -> {"idle", "storeConn", "recvNum", "sendLen", "sendNum"}]
             /\ threadPc'[t] = to
             /\ \A u \in IoThreads : u # t => threadPc'[u] = threadPc[u]
             /\ Sending' = IF to = "sendNum" THEN Sending \cup {t} ELSE Sending \ {t}
             /\ Receiving' = IF to = "recvNum" THEN Receiving \cup {t} ELSE Receiving \ {t}
  <2>1. /\ threadPc[t] = from
        /\ threadPc' \in [IoThreads -> {"idle", "storeConn", "recvNum", "sendLen", "sendNum"}]
        /\ threadPc'[t] = to
        /\ \A u \in IoThreads : u # t => threadPc'[u] = threadPc[u]
    BY <1>c DEF At, Types
  <2>2. QED
    BY <2>1 DEF Sending, Receiving
<1>d. ASSUME NEW c \in CounterNames, NEW n \in Nat, counters' = Plus(c, n)
      PROVE  /\ counters' \in [CounterNames -> Nat]
             /\ counters'[c] = counters[c] + n
             /\ \A d \in CounterNames : d # c => counters'[d] = counters[d]
             /\ \A d \in CounterNames : counters[d] <= counters'[d]
  <2>1. /\ counters' \in [CounterNames -> Nat]
        /\ counters'[c] = counters[c] + n
        /\ \A d \in CounterNames : d # c => counters'[d] = counters[d]
    BY <1>a, <1>d DEF Plus, Types
  <2>2. QED
    BY <1>a, <2>1
<1>e. {"numConnSocket", "sendLen", "recvLen", "sendNum", "recvNum"} = CounterNames
  BY DEF CounterNames
<1>1. CASE OnConnection(t)
  <2>1. /\ threadPc[t] = "idle"
        /\ threadPc' \in [IoThreads -> {"idle", "storeConn", "recvNum", "sendLen", "sendNum"}]
        /\ Sending' = Sending \ {t} /\ Receiving' = Receiving \ {t}
    BY <1>1, <1>c DEF OnConnection, Begin
  <2>2. Sending' = Sending /\ Receiving' = Receiving
    BY <2>1 DEF Sending, Receiving
  <2>3. counters' = counters /\ connected' = connected + 1 /\ UNCHANGED <<stage, report>>
    BY <1>1 DEF OnConnection, mainVars
  <2>4. loaded' \in [IoThreads -> Nat]
    BY <1>1, <1>a, <1>e DEF OnConnection, Types
  <2>5. Types'
    BY <2>1, <2>3, <2>4 DEF Types
  <2>6. QED
    BY <1>a, <2>2, <2>3, <2>5 DEF BytesCounted, Types
<1>2. CASE StoreConn(t)
  <2>1. /\ threadPc[t] = "storeConn"
        /\ threadPc' \in [IoThreads -> {"idle", "storeConn", "recvNum", "sendLen", "sendNum"}]
        /\ Sending' = Sending \ {t} /\ Receiving' = Receiving \ {t}
    BY <1>2, <1>c DEF StoreConn
  <2>2. Sending' = Sending /\ Receiving' = Receiving
    BY <2>1 DEF Sending, Receiving
  <2>3. /\ counters' \in [CounterNames -> Nat]
        /\ \A c \in CounterNames \ {"numConnSocket"} : counters'[c] = counters[c]
    <3>1. StoredConn(t) \in Nat
      BY DEF StoredConn, Types
    <3>2. counters' = [counters EXCEPT !["numConnSocket"] = StoredConn(t)]
      BY <1>2 DEF StoreConn
    <3>3. QED
      BY <3>1, <3>2 DEF Types
  <2>4. UNCHANGED <<loaded, connected, stage, report>>
    BY <1>2 DEF StoreConn, mainVars
  <2>5. Types'
    BY <2>1, <2>3, <2>4 DEF Types
  <2>6. /\ counters'["sendLen"] = counters["sendLen"] /\ counters'["sendNum"] = counters["sendNum"]
        /\ counters'["recvLen"] = counters["recvLen"] /\ counters'["recvNum"] = counters["recvNum"]
    BY <1>e, <2>3
  <2>7. BytesCounted'
    BY <2>2, <2>6 DEF BytesCounted
  <2>8. QED
    BY <1>a, <2>3, <2>4, <2>5, <2>7 DEF Types
<1>3. CASE OnMessage(t)
  <2>1. /\ threadPc[t] = "idle"
        /\ threadPc' \in [IoThreads -> {"idle", "storeConn", "recvNum", "sendLen", "sendNum"}]
        /\ Sending' = Sending \ {t} /\ Receiving' = Receiving \cup {t}
    BY <1>3, <1>c DEF OnMessage, Begin
  <2>2. Sending' = Sending /\ t \notin Receiving
    BY <2>1 DEF Sending, Receiving
  <2>3. Cardinality(Receiving') = Cardinality(Receiving) + 1
    BY <1>b, <2>1, <2>2, FS_AddElement
  <2>4. PICK n \in 1 .. MostRead : counters' = Plus("recvLen", n)
    BY <1>3 DEF OnMessage
  <2>5. /\ counters' \in [CounterNames -> Nat]
        /\ counters'["recvLen"] = counters["recvLen"] + n
        /\ \A d \in CounterNames : d # "recvLen" => counters'[d] = counters[d]
        /\ \A d \in CounterNames : counters[d] <= counters'[d]
    <3>1. n \in Nat /\ "recvLen" \in CounterNames
      BY <1>b, <1>e
    <3>2. QED
      BY <1>d, <2>4, <3>1
  <2>6. UNCHANGED <<loaded, connected, stage, report>>
    BY <1>3 DEF OnMessage, mainVars
  <2>7. Types'
    BY <2>1, <2>5, <2>6 DEF Types
  <2>8. counters'["recvLen"] <= MostRead * (counters'["recvNum"] + Cardinality(Receiving'))
    <3>1. counters'["recvNum"] = counters["recvNum"]
      BY <1>e, <2>5
    <3>2. PICK x \in Nat : x = counters["recvNum"] + Cardinality(Receiving)
      BY <1>a, <1>b
    <3>3. MostRead * (x + 1) = MostRead * x + MostRead /\ MostRead * x \in Nat
      BY <1>b, TimesOneMore
    <3>4. counters["recvLen"] <= MostRead * x
      BY <3>2 DEF BytesCounted
    <3>5. counters'["recvNum"] + Cardinality(Receiving') = x + 1
      BY <1>a, <1>b, <2>3, <3>1, <3>2
    <3>6. counters["recvLen"] + n <= MostRead * x + MostRead
      BY <1>a, <1>b, <3>3, <3>4
    <3>7. QED
      BY <2>5, <3>3, <3>5, <3>6
  <2>9. counters'["sendLen"] = counters["sendLen"] /\ counters'["sendNum"] = counters["sendNum"]
    BY <1>e, <2>5
  <2>10. BytesCounted'
    BY <2>2, <2>8, <2>9 DEF BytesCounted
  <2>11. QED
    BY <2>5, <2>6, <2>7, <2>10 DEF Types
<1>4. CASE CountReceive(t)
  <2>1. /\ threadPc[t] = "recvNum"
        /\ threadPc' \in [IoThreads -> {"idle", "storeConn", "recvNum", "sendLen", "sendNum"}]
        /\ Sending' = Sending \ {t} /\ Receiving' = Receiving \ {t}
    BY <1>4, <1>c DEF CountReceive
  <2>2. Sending' = Sending /\ t \in Receiving
    BY <2>1 DEF Sending, Receiving
  <2>3. Cardinality(Receiving') = Cardinality(Receiving) - 1
    BY <1>b, <2>1, <2>2, FS_RemoveElement
  <2>4. /\ counters' \in [CounterNames -> Nat]
        /\ counters'["recvNum"] = counters["recvNum"] + 1
        /\ \A d \in CounterNames : d # "recvNum" => counters'[d] = counters[d]
        /\ \A d \in CounterNames : counters[d] <= counters'[d]
    <3>1. counters' = Plus("recvNum", 1) /\ "recvNum" \in CounterNames
      BY <1>4, <1>e DEF CountReceive
    <3>2. QED
      BY <1>d, <3>1
  <2>5. UNCHANGED <<loaded, connected, stage, report>>
    BY <1>4 DEF CountReceive, mainVars
  <2>6. Types'
    BY <2>1, <2>4, <2>5 DEF Types
  <2>7. counters'["recvNum"] + Cardinality(Receiving') = counters["recvNum"] + Cardinality(Receiving)
    BY <1>a, <1>b, <2>3, <2>4
  <2>8. /\ counters'["recvLen"] = counters["recvLen"]
        /\ counters'["sendLen"] = counters["sendLen"] /\ counters'["sendNum"] = counters["sendNum"]
    BY <1>e, <2>4
  <2>9. BytesCounted'
    BY <2>2, <2>7, <2>8 DEF BytesCounted
  <2>10. QED
    BY <2>4, <2>5, <2>6, <2>9 DEF Types
<1>5. CASE CountSentBytes(t)
  <2>1. /\ threadPc[t] = "sendLen"
        /\ threadPc' \in [IoThreads -> {"idle", "storeConn", "recvNum", "sendLen", "sendNum"}]
        /\ Sending' = Sending \cup {t} /\ Receiving' = Receiving \ {t}
    BY <1>5, <1>c DEF CountSentBytes
  <2>2. Receiving' = Receiving /\ t \notin Sending
    BY <2>1 DEF Sending, Receiving
  <2>3. Cardinality(Sending') = Cardinality(Sending) + 1
    BY <1>b, <2>1, <2>2, FS_AddElement
  <2>4. /\ counters' \in [CounterNames -> Nat]
        /\ counters'["sendLen"] = counters["sendLen"] + RequestLen
        /\ \A d \in CounterNames : d # "sendLen" => counters'[d] = counters[d]
        /\ \A d \in CounterNames : counters[d] <= counters'[d]
    <3>1. counters' = Plus("sendLen", RequestLen) /\ "sendLen" \in CounterNames
      BY <1>5, <1>e DEF CountSentBytes
    <3>2. QED
      BY <1>b, <1>d, <3>1
  <2>5. UNCHANGED <<loaded, connected, stage, report>>
    BY <1>5 DEF CountSentBytes, mainVars
  <2>6. Types'
    BY <2>1, <2>4, <2>5 DEF Types
  <2>7. counters'["sendLen"] <= RequestLen * (counters'["sendNum"] + Cardinality(Sending'))
    <3>1. counters'["sendNum"] = counters["sendNum"]
      BY <1>e, <2>4
    <3>2. PICK x \in Nat : x = counters["sendNum"] + Cardinality(Sending)
      BY <1>a, <1>b
    <3>3. RequestLen * (x + 1) = RequestLen * x + RequestLen /\ RequestLen * x \in Nat
      BY <1>b, TimesOneMore
    <3>4. counters["sendLen"] <= RequestLen * x
      BY <3>2 DEF BytesCounted
    <3>5. counters'["sendNum"] + Cardinality(Sending') = x + 1
      BY <1>a, <1>b, <2>3, <3>1, <3>2
    <3>6. counters["sendLen"] + RequestLen <= RequestLen * x + RequestLen
      BY <1>a, <1>b, <3>3, <3>4
    <3>7. QED
      BY <2>4, <3>3, <3>5, <3>6
  <2>8. counters'["recvLen"] = counters["recvLen"] /\ counters'["recvNum"] = counters["recvNum"]
    BY <1>e, <2>4
  <2>9. BytesCounted'
    BY <2>2, <2>7, <2>8 DEF BytesCounted
  <2>10. QED
    BY <2>4, <2>5, <2>6, <2>9 DEF Types
<1>6. CASE CountSend(t)
  <2>1. /\ threadPc[t] = "sendNum"
        /\ threadPc' \in [IoThreads -> {"idle", "storeConn", "recvNum", "sendLen", "sendNum"}]
        /\ Sending' = Sending \ {t} /\ Receiving' = Receiving \ {t}
    BY <1>6, <1>c DEF CountSend
  <2>2. Receiving' = Receiving /\ t \in Sending
    BY <2>1 DEF Sending, Receiving
  <2>3. Cardinality(Sending') = Cardinality(Sending) - 1
    BY <1>b, <2>1, <2>2, FS_RemoveElement
  <2>4. /\ counters' \in [CounterNames -> Nat]
        /\ counters'["sendNum"] = counters["sendNum"] + 1
        /\ \A d \in CounterNames : d # "sendNum" => counters'[d] = counters[d]
        /\ \A d \in CounterNames : counters[d] <= counters'[d]
    <3>1. counters' = Plus("sendNum", 1) /\ "sendNum" \in CounterNames
      BY <1>6, <1>e DEF CountSend, SendCounted
    <3>2. QED
      BY <1>d, <3>1
  <2>5. UNCHANGED <<loaded, connected, stage, report>>
    BY <1>6 DEF CountSend, mainVars
  <2>6. Types'
    BY <2>1, <2>4, <2>5 DEF Types
  <2>7. counters'["sendNum"] + Cardinality(Sending') = counters["sendNum"] + Cardinality(Sending)
    BY <1>a, <1>b, <2>3, <2>4
  <2>8. /\ counters'["sendLen"] = counters["sendLen"]
        /\ counters'["recvLen"] = counters["recvLen"] /\ counters'["recvNum"] = counters["recvNum"]
    BY <1>e, <2>4
  <2>9. BytesCounted'
    BY <2>2, <2>7, <2>8 DEF BytesCounted
  <2>10. QED
    BY <2>4, <2>5, <2>6, <2>9 DEF Types
<1>7. QED
  BY <1>1, <1>2, <1>3, <1>4, <1>5, <1>6 DEF IoThread

\* An increment of numConnSocket_ may get lost, but stores a number that is
\* neither zero nor more than the connections.
LEMMA ConnectionsKeep ==
    ASSUME Types, ConnectionsCounted, NEW t \in IoThreads, IoThread(t)
    PROVE  ConnectionsCounted'
<1>a. counters["numConnSocket"] \in Nat /\ loaded[t] \in Nat /\ connected \in Nat
  BY DEF Types, CounterNames
<1>b. ASSUME threadPc[t] # "storeConn", threadPc'[t] # "storeConn",
             \A u \in IoThreads : u # t => threadPc'[u] = threadPc[u],
             UNCHANGED <<loaded, connected>>,
             counters'["numConnSocket"] = counters["numConnSocket"]
      PROVE  ConnectionsCounted'
  BY <1>b DEF ConnectionsCounted
<1>c. ASSUME NEW from, NEW to, At(t, from, to)
      PROVE  /\ threadPc[t] = from /\ threadPc'[t] = to
             /\ \A u \in IoThreads : u # t => threadPc'[u] = threadPc[u]
  BY <1>c DEF At, Types
<1>1. CASE OnConnection(t)
  <2>1. /\ threadPc'[t] = "storeConn" /\ threadPc[t] = "idle"
        /\ \A u \in IoThreads : u # t => threadPc'[u] = threadPc[u]
    BY <1>1, <1>c DEF OnConnection, Begin
  <2>2. counters' = counters /\ connected' = connected + 1
    BY <1>1 DEF OnConnection
  <2>3. /\ loaded'[t] = counters["numConnSocket"]
        /\ \A u \in IoThreads : u # t => loaded'[u] = loaded[u]
    BY <1>1 DEF OnConnection, Types
  <2>4. \A u \in IoThreads : loaded[u] \in Nat
    BY DEF Types
  <2>5. ASSUME NEW u \in IoThreads, threadPc'[u] = "storeConn"
        PROVE  loaded'[u] + 1 <= connected'
    <3>1. CASE u = t
      BY <1>a, <2>2, <2>3, <3>1 DEF ConnectionsCounted
    <3>2. CASE u # t
      <4>1. loaded[u] + 1 <= connected /\ loaded'[u] = loaded[u] /\ loaded[u] \in Nat
        BY <2>1, <2>3, <2>4, <2>5, <3>2 DEF ConnectionsCounted
      <4>2. QED
        BY <1>a, <2>2, <4>1
    <3>3. QED
      BY <3>1, <3>2
  <2>6. counters'["numConnSocket"] <= connected'
    BY <1>a, <2>2 DEF ConnectionsCounted
  <2>7. QED
    BY <2>1, <2>5, <2>6 DEF ConnectionsCounted
<1>2. CASE StoreConn(t)
  <2>1. /\ threadPc'[t] = "sendLen" /\ threadPc[t] = "storeConn"
        /\ \A u \in IoThreads : u # t => threadPc'[u] = threadPc[u]
    BY <1>2, <1>c DEF StoreConn
  <2>2. UNCHANGED <<loaded, connected>>
    BY <1>2 DEF StoreConn
  <2>3. counters'["numConnSocket"] = loaded[t] + 1
    <3>1. counters' = [counters EXCEPT !["numConnSocket"] = StoredConn(t)]
      BY <1>2 DEF StoreConn
    <3>2. QED
      BY <3>1 DEF Types, StoredConn, CounterNames
  <2>4. loaded[t] + 1 <= connected
    BY <2>1 DEF ConnectionsCounted
  <2>5. \A u \in IoThreads : threadPc'[u] = "storeConn" => loaded'[u] + 1 <= connected'
    BY <2>1, <2>2 DEF ConnectionsCounted
  <2>6. counters'["numConnSocket"] # 0
    BY <1>a, <2>3
  <2>7. QED
    BY <2>2, <2>3, <2>4, <2>5, <2>6 DEF ConnectionsCounted
<1>3. CASE OnMessage(t) \/ CountReceive(t) \/ CountSentBytes(t) \/ CountSend(t)
  <2>1. /\ threadPc[t] # "storeConn" /\ threadPc'[t] # "storeConn"
        /\ \A u \in IoThreads : u # t => threadPc'[u] = threadPc[u]
    BY <1>3, <1>c DEF OnMessage, Begin, CountReceive, CountSentBytes, CountSend
  <2>2. UNCHANGED <<loaded, connected>>
    BY <1>3 DEF OnMessage, CountReceive, CountSentBytes, CountSend
  <2>3. \E c \in CounterNames \ {"numConnSocket"} : \E n : counters' = Plus(c, n)
    BY <1>3 DEF OnMessage, CountReceive, CountSentBytes, CountSend, SendCounted, CounterNames
  <2>4. counters'["numConnSocket"] = counters["numConnSocket"]
    BY <2>3 DEF Plus, Types, CounterNames
  <2>5. QED
    BY <1>b, <2>1, <2>2, <2>4
<1>4. QED
  BY <1>1, <1>2, <1>3 DEF IoThread

-------------------------------------------------------------------------------
(* The report.                                                             *)

LEMMA Lines ==
    /\ Len(ReportLines) = 9
    /\ ReportLines[1] = "numConnSocket"
    /\ \A k \in 2 .. 9 : ReportLines[k] \in CounterNames \ {"numConnSocket"}
    /\ \A k \in 6 .. 9 : ReportLines[k] = ReportLines[k - 4]
    /\ ReportLines[2] = "sendLen" /\ ReportLines[4] = "sendNum"
    /\ ReportLines[6] = "sendLen" /\ ReportLines[8] = "sendNum"
    /\ ReportLines[3] = "recvLen" /\ ReportLines[5] = "recvNum"
    /\ ReportLines[7] = "recvLen" /\ ReportLines[9] = "recvNum"
  BY DEF ReportLines, CounterNames

\* What was printed stays right while the counters go on.
LEMMA ReportKept ==
    ASSUME Types, Types', Past, AllBalanced, TotalsGrow, report' = report,
           \A c \in CounterNames \ {"numConnSocket"} : counters[c] <= counters'[c],
           connected <= connected'
    PROVE  Past' /\ AllBalanced' /\ TotalsGrow'
<1>a. /\ Len(report) \in Nat /\ \A k \in 1 .. Len(report) : report[k] \in Nat
      /\ Len(report) <= 9 /\ connected \in Nat /\ connected' \in Nat
      /\ \A c \in CounterNames : counters[c] \in Nat /\ counters'[c] \in Nat
  BY DEF Types
<1>1. Past'
  <2>1. Len(report) >= 1 => report[1] <= connected'
    BY <1>a DEF Past
  <2>2. ASSUME NEW k \in 2 .. Len(report) PROVE report[k] <= counters'[ReportLines[k]]
    <3>1. k \in 2 .. 9 /\ report[k] \in Nat
      BY <1>a
    <3>2. PICK c \in CounterNames \ {"numConnSocket"} : c = ReportLines[k]
      BY <3>1, Lines
    <3>3. report[k] <= counters[c] /\ counters[c] <= counters'[c]
      BY <3>2 DEF Past
    <3>4. QED
      BY <1>a, <3>1, <3>2, <3>3
  <2>3. QED
    BY <2>1, <2>2 DEF Past
<1>2. ASSUME NEW k \in 2 .. 9, NEW l \in 2 .. 9, NEW unit \in Nat,
             NEW c \in CounterNames \ {"numConnSocket"}, Balanced(k, l, c, unit)
      PROVE  Balanced(k, l, c, unit)'
  <2>1. NumThreads \in Nat
    BY Numbers
  <2>2. PICK x \in Nat : x = counters[c] + NumThreads
    BY <1>a, <2>1
  <2>3. PICK y \in Nat : y = counters'[c] + NumThreads
    BY <1>a, <2>1
  <2>4. x <= y
    BY <1>a, <2>1, <2>2, <2>3
  <2>5. unit * x <= unit * y /\ unit * x \in Nat /\ unit * y \in Nat
    BY <2>4, TimesMonotone
  <2>6. k <= Len(report) /\ Len(report) < l => report[k] <= unit * y
    <3>1. k <= Len(report) /\ Len(report) < l => report[k] <= unit * x
      BY <1>2, <2>2 DEF Balanced
    <3>2. k <= Len(report) => report[k] \in Nat
      BY <1>a
    <3>3. QED
      BY <2>5, <3>1, <3>2
  <2>7. QED
    BY <1>2, <2>3, <2>6 DEF Balanced, BytesMatchCalls, NumThreads
<1>3. AllBalanced'
  BY <1>2, Numbers DEF AllBalanced, CounterNames
<1>4. TotalsGrow'
  BY DEF TotalsGrow
<1>5. QED
  BY <1>1, <1>3, <1>4

\* A line more.
LEMMA PrintLineReports ==
    ASSUME ReportInv, PrintLine
    PROVE  ReportInv'
<1>a. /\ Types /\ BytesCounted /\ ConnectionsCounted /\ Past /\ AllBalanced /\ TotalsGrow
      /\ Len(report) \in Nat /\ \A k \in 1 .. Len(report) : report[k] \in Nat
      /\ Len(report) < 9
      /\ \A c \in CounterNames : counters[c] \in Nat
      /\ connected \in Nat /\ NumThreads \in Nat
  BY Numbers DEF ReportInv, Types, PrintLine
<1>b. UNCHANGED <<counters, threadPc, loaded, callbacks, connected>>
  BY DEF PrintLine, ioVars
<1>c. PICK n \in 1 .. 9 : n = Len(report) + 1
  BY <1>a
<1>d. PICK c \in CounterNames : c = ReportLines[n]
  <2>1. n = 1 \/ n \in 2 .. 9
    OBVIOUS
  <2>2. QED
    BY <2>1, Lines DEF CounterNames
<1>e. report' = Append(report, counters[c])
  BY <1>c, <1>d DEF PrintLine
<1>f. /\ Len(report') = n /\ report'[n] = counters[c] /\ report' \in Seq(Nat)
      /\ \A k \in 1 .. n - 1 : report'[k] = report[k] /\ report[k] \in Nat
      /\ n - 1 = Len(report)
  <2>1. report \in Seq(Nat) /\ counters[c] \in Nat
    BY <1>a DEF Types
  <2>2. QED
    BY <1>c, <1>e, <2>1
<1>1. Types'
  <2>1. stage' = IF n = 9 THEN "shown" ELSE stage
    BY <1>f, Lines DEF PrintLine
  <2>2. stage = "showResult"
    BY DEF PrintLine
  <2>3. QED
    BY <1>a, <1>b, <1>c, <1>f, <2>1, <2>2 DEF Types
<1>2. BytesCounted' /\ ConnectionsCounted'
  BY <1>a, <1>b DEF BytesCounted, ConnectionsCounted, Sending, Receiving
<1>3. Past'
  <2>1. report'[1] <= connected
    <3>1. CASE n = 1
      BY <1>a, <1>d, <1>f, <3>1, Lines DEF ConnectionsCounted
    <3>2. CASE n # 1
      <4>1. 1 \in 1 .. n - 1 /\ Len(report) >= 1
        BY <1>c, <1>f, <3>2
      <4>2. QED
        BY <1>a, <1>f, <4>1 DEF Past
    <3>3. QED
      BY <3>1, <3>2
  <2>2. ASSUME NEW k \in 2 .. n PROVE report'[k] <= counters[ReportLines[k]]
    <3>1. CASE k = n
      BY <1>a, <1>d, <1>f, <3>1
    <3>2. CASE k # n
      <4>1. k \in 1 .. n - 1 /\ k \in 2 .. Len(report)
        BY <1>c, <1>f, <3>2
      <4>2. QED
        BY <1>a, <1>f, <4>1 DEF Past
    <3>3. QED
      BY <3>1, <3>2
  <2>3. QED
    BY <1>b, <1>f, <2>1, <2>2 DEF Past
<1>4. ASSUME NEW k \in 2 .. 9, NEW l \in 2 .. 9, k < l, NEW unit \in Nat,
             NEW bytes, NEW calls \in CounterNames,
             ReportLines[k] = bytes, ReportLines[l] = calls,
             counters[bytes] <= unit * (counters[calls] + NumThreads),
             Balanced(k, l, calls, unit)
      PROVE  Balanced(k, l, calls, unit)'
  <2>1. CASE n < k
    BY <1>f, <1>4, <2>1 DEF Balanced
  <2>2. CASE n = k
    <3>1. report'[k] <= unit * (counters'[calls] + NumThreads)
      BY <1>b, <1>d, <1>f, <1>4, <2>2
    <3>2. QED
      BY <1>f, <1>4, <2>2, <3>1 DEF Balanced, NumThreads
  <2>3. CASE k < n /\ n <= l
    <3>1. k \in 1 .. n - 1 /\ k <= Len(report) /\ Len(report) < l
      BY <1>f, <2>3
    <3>2. report'[k] <= unit * (counters[calls] + NumThreads)
      BY <1>f, <1>4, <3>1 DEF Balanced
    <3>3. n = l => report'[l] = counters[calls]
      BY <1>d, <1>f, <1>4
    <3>4. QED
      BY <1>b, <1>f, <2>3, <3>2, <3>3 DEF Balanced, BytesMatchCalls, NumThreads
  <2>4. CASE l < n
    <3>1. k \in 1 .. n - 1 /\ l \in 1 .. n - 1 /\ l <= Len(report)
      <4>1. n \in Nat /\ Len(report) = n - 1 /\ k \in 2 .. 9 /\ l \in 2 .. 9
        BY <1>c, <1>f
      <4>2. k < l
        BY <1>4
      <4>3. QED
        BY <2>4, <4>1, <4>2
    <3>2. report'[k] = report[k] /\ report'[l] = report[l]
      BY <1>f, <3>1
    <3>3. QED
      BY <1>f, <1>4, <2>4, <3>1, <3>2 DEF Balanced, BytesMatchCalls
  <2>5. QED
    BY <1>c, <2>1, <2>2, <2>3, <2>4
<1>5. AllBalanced'
  <2>1. /\ counters["sendLen"] <= RequestLen * (counters["sendNum"] + NumThreads)
        /\ counters["recvLen"] <= MostRead * (counters["recvNum"] + NumThreads)
    BY <1>a, BytesBounded
  <2>2. "sendNum" \in CounterNames /\ "recvNum" \in CounterNames
    BY DEF CounterNames
  <2>3. Balanced(2, 4, "sendNum", RequestLen)' /\ Balanced(6, 8, "sendNum", RequestLen)'
    BY <1>a, <1>4, <2>1, <2>2, Lines, Numbers DEF AllBalanced
  <2>4. Balanced(3, 5, "recvNum", MostRead)' /\ Balanced(7, 9, "recvNum", MostRead)'
    BY <1>a, <1>4, <2>1, <2>2, Lines, Numbers DEF AllBalanced
  <2>5. QED
    BY <2>3, <2>4 DEF AllBalanced
<1>6. TotalsGrow'
  <2>1. ASSUME NEW k \in 6 .. n PROVE report'[k] >= report'[k - 4]
    <3>1. k - 4 \in 1 .. n - 1 /\ k - 4 \in 2 .. Len(report)
      BY <1>c, <1>f
    <3>2. CASE k = n
      <4>1. report'[k - 4] <= counters[ReportLines[k - 4]] /\ report'[k - 4] \in Nat
        BY <1>a, <1>f, <3>1 DEF Past
      <4>2. ReportLines[k - 4] = c
        BY <1>d, <3>2, Lines
      <4>3. QED
        BY <1>a, <1>f, <3>2, <4>1, <4>2
    <3>3. CASE k # n
      <4>1. k \in 1 .. n - 1 /\ k \in 6 .. Len(report)
        BY <1>f, <3>3
      <4>2. QED
        BY <1>a, <1>f, <3>1, <4>1 DEF TotalsGrow
    <3>4. QED
      BY <3>2, <3>3
  <2>2. QED
    BY <1>f, <2>1 DEF TotalsGrow
<1>7. QED
  BY <1>1, <1>2, <1>3, <1>5, <1>6 DEF ReportInv

-------------------------------------------------------------------------------

LEMMA ReportInit == HttpInit => ReportInv
<1> SUFFICES ASSUME HttpInit PROVE ReportInv
  OBVIOUS
<1>1. /\ counters["sendLen"] = 0 /\ counters["sendNum"] = 0
      /\ counters["recvLen"] = 0 /\ counters["recvNum"] = 0
      /\ counters["numConnSocket"] = 0 /\ counters \in [CounterNames -> Nat]
  BY DEF HttpInit, CounterNames
<1>2. Types
  BY <1>1 DEF HttpInit, Types
<1>3. Sending = {} /\ Receiving = {}
  BY DEF HttpInit, Sending, Receiving
<1>4. Cardinality({}) = 0
  BY FS_EmptySet
<1>5. BytesCounted
  BY <1>1, <1>3, <1>4, Numbers DEF BytesCounted
<1>6. ConnectionsCounted
  BY <1>1 DEF HttpInit, ConnectionsCounted
<1>7. Len(report) = 0
  BY DEF HttpInit
<1>8. Past /\ AllBalanced /\ TotalsGrow
  BY <1>7 DEF Past, AllBalanced, Balanced, TotalsGrow
<1>9. QED
  BY <1>2, <1>5, <1>6, <1>8 DEF ReportInv

LEMMA ReportStep == ReportInv /\ [HttpNext]_httpVars => ReportInv'
<1> SUFFICES ASSUME ReportInv, [HttpNext]_httpVars PROVE ReportInv'
  OBVIOUS
<1>1. ASSUME NEW t \in IoThreads, IoThread(t) PROVE ReportInv'
  <2>1. /\ Types' /\ BytesCounted' /\ report' = report /\ connected <= connected'
        /\ \A c \in CounterNames \ {"numConnSocket"} : counters[c] <= counters'[c]
    BY <1>1, IoThreadCounts DEF ReportInv
  <2>2. ConnectionsCounted'
    BY <1>1, ConnectionsKeep DEF ReportInv
  <2>3. Past' /\ AllBalanced' /\ TotalsGrow'
    BY <2>1, ReportKept DEF ReportInv
  <2>4. QED
    BY <2>1, <2>2, <2>3 DEF ReportInv
<1>2. ASSUME UNCHANGED <<counters, threadPc, loaded, connected, report>>,
             stage' # "loop" \/ report = <<>>,
             stage' # "showResult" \/ Len(report) < 9,
             stage' # "shown" \/ Len(report) = 9
      PROVE  ReportInv'
  BY <1>2
     DEF ReportInv, Types, BytesCounted, Sending, Receiving, ConnectionsCounted, Past,
         AllBalanced, Balanced, BytesMatchCalls, TotalsGrow
<1>3. CASE LoopReturns
  BY <1>2, <1>3 DEF LoopReturns, ioVars, ReportInv, Types
<1>4. CASE PrintLine
  BY <1>4, PrintLineReports
<1>5. CASE UNCHANGED httpVars
  BY <1>2, <1>5 DEF httpVars, ReportInv, Types
<1>6. QED
  BY <1>1, <1>3, <1>4, <1>5 DEF HttpNext

LEMMA ReportInvPlausible == ReportInv => ReportIsPlausible
<1> SUFFICES ASSUME ReportInv PROVE ReportIsPlausible
  OBVIOUS
<1>1. /\ counters["numConnSocket"] \in Nat /\ connected \in Nat
  BY DEF ReportInv, Types, CounterNames
<1>2. ASSUME connected > 0, \A t \in IoThreads : threadPc[t] # "storeConn"
      PROVE  counters["numConnSocket"] \in 1 .. connected
  BY <1>1, <1>2 DEF ReportInv, ConnectionsCounted
<1>3. ASSUME stage = "shown"
      PROVE  /\ report[1] <= connected
             /\ BytesMatchCalls(2, 4, RequestLen) /\ BytesMatchCalls(6, 8, RequestLen)
             /\ BytesMatchCalls(3, 5, MostRead) /\ BytesMatchCalls(7, 9, MostRead)
             /\ \A k \in 6 .. 9 : report[k] >= report[k - 4]
  <2>1. Len(report) = 9
    BY <1>3 DEF ReportInv, Types
  <2>2. QED
    BY <2>1 DEF ReportInv, Past, AllBalanced, Balanced, TotalsGrow
<1>4. QED
  BY <1>2, <1>3 DEF ReportIsPlausible

\* The report of main() is plausible for any number of io threads, whenever the
\* timer ends the loop: no more connections than were made, no more bytes than
\* the calls account for by one call per thread, totals that do not decrease;
\* and not all increments of numConnSocket_ get lost.
THEOREM PlausibleReport == Spec => []ReportIsPlausible
<1>1. Init => ReportInv
  BY ReportInit DEF Init
<1>2. ReportInv /\ [Next]_vars => ReportInv'
  <2>1. [Next]_vars => [HttpNext]_httpVars
    BY DEF Next, vars, Parse, UrlMissing, RequestAborts, StartBenchmark, Benchmark
  <2>2. QED
    BY <2>1, ReportStep
<1>3. QED
  BY <1>1, <1>2, ReportInvPlausible, PTL DEF Spec
-------------------------------------------------------------------------------
(* The URL.                                                                *)

\* A set of numbers has a smallest one.
LEMMA LeastNumber ==
    ASSUME NEW T, T \subseteq Nat, T # {}
    PROVE  /\ Min(T) \in T
           /\ \A y \in T : Min(T) <= y
<1> DEFINE Less == {ss \in Nat \X Nat : ss[1] < ss[2]}
<1>1. IsWellFoundedOn(Less, Nat)
  BY NatLessThanWellFounded DEF OpToRel
<1>2. \A x, y \in Nat : y < x => <<y, x>> \in Less
  OBVIOUS
<1> HIDE DEF Less
<1>3. \E x \in T : \A y \in T : <<y, x>> \notin Less
  BY <1>1, WFMin
<1>4. PICK x \in T : \A y \in T : <<y, x>> \notin Less
  BY <1>3
<1>5. ASSUME NEW y \in T PROVE x <= y
  <2>1. x \in Nat /\ y \in Nat /\ ~ y < x
    BY <1>2, <1>4
  <2> QED
    BY <2>1
<1> QED
  BY <1>5 DEF Min

\* find() of a character that is at position p and not before it.
LEMMA FindsFirst ==
    ASSUME NEW S, NEW text \in Seq(S), NEW c, NEW p \in 1 .. Len(text) + 1,
           p <= Len(text) => text[p] = c,
           \A k \in 1 .. p - 1 : text[k] # c
    PROVE  Find(text, c) = p
<1> DEFINE found == { k \in DOMAIN text : text[k] = c }
<1>1. DOMAIN text = 1 .. Len(text) /\ Len(text) \in Nat
  OBVIOUS
<1>2. Find(text, c) = IF found = {} THEN Len(text) + 1 ELSE Min(found)
  BY DEF Find
<1>3. CASE p = Len(text) + 1
  <2>1. found = {}
    BY <1>1, <1>3
  <2> QED
    BY <1>2, <1>3, <2>1
<1>4. CASE p # Len(text) + 1
  <2>1. p \in found /\ found \subseteq Nat /\ \A k \in found : p <= k
    BY <1>1, <1>4
  <2> HIDE DEF found
  <2>2. Min(found) \in found /\ \A k \in found : Min(found) <= k
    BY <2>1, LeastNumber
  <2>3. Min(found) = p
    <3>1. Min(found) \in Nat /\ p \in Nat /\ Min(found) <= p /\ p <= Min(found)
      BY <1>1, <2>1, <2>2
    <3> QED
      BY <3>1
  <2> QED
    BY <1>2, <2>1, <2>3
<1> QED
  BY <1>3, <1>4

LEMMA PartSeqs ==
    ASSUME NEW S, NEW s \in Seq(S), NEW j \in 0 .. Len(s), NEW k \in j .. Len(s)
    PROVE  /\ SubSeq(s, j + 1, k) \in Seq(S)
           /\ Len(SubSeq(s, j + 1, k)) = k - j
           /\ \A n \in 1 .. k - j : SubSeq(s, j + 1, k)[n] = s[j + n]
  OBVIOUS

LEMMA FrontSeqs ==
    ASSUME NEW S, NEW s \in Seq(S), NEW k \in 0 .. Len(s)
    PROVE  /\ SubSeq(s, 1, k) \in Seq(S)
           /\ Len(SubSeq(s, 1, k)) = k
           /\ \A n \in 1 .. k : SubSeq(s, 1, k)[n] = s[n]
  OBVIOUS

\* The value of a digit.
LEMMA DigitValue ==
    /\ \A c \in DOMAIN Digit : Digit[c] \in Nat
    /\ ":" \notin DOMAIN Digit /\ "/" \notin DOMAIN Digit
<1>1. ToSet(Digits) = {"0", "1", "2", "3", "4", "5", "6", "7", "8", "9"}
  BY DEF ToSet, Digits
<1>2. ASSUME NEW c \in ToSet(Digits) PROVE \E d \in 0 .. 9 : Digits[d + 1] = c
  <2>1. PICK k \in DOMAIN Digits : Digits[k] = c
    BY DEF ToSet
  <2>2. DOMAIN Digits = 1 .. 10
    BY DEF Digits
  <2>3. k - 1 \in 0 .. 9 /\ Digits[(k - 1) + 1] = c
    BY <2>1, <2>2
  <2> QED
    BY <2>3
<1>3. ASSUME NEW c \in ToSet(Digits) PROVE Digit[c] \in 0 .. 9
  BY <1>2, <1>3 DEF Digit
<1>4. DOMAIN Digit = ToSet(Digits)
  BY DEF Digit
<1> QED
  BY <1>1, <1>3, <1>4

\* The numbers the first n digits of a text stand for.
ReadsUpTo(read, text, n) ==
    /\ read \in [0 .. n -> Nat]
    /\ read[0] = 0
    /\ \A k \in 1 .. n : read[k] = 10 * read[k - 1] + Digit[text[k]]

\* However many digits there are, the recursion of Numeral() has a solution.
LEMMA NumeralReads ==
    ASSUME NEW text, NEW len \in Nat, \A k \in 1 .. len : text[k] \in DOMAIN Digit
    PROVE  \E read : ReadsUpTo(read, text, len)
<1> DEFINE Unread == { n \in 0 .. len : ~ \E read : ReadsUpTo(read, text, n) }
<1> SUFFICES ASSUME Unread # {} PROVE FALSE
  OBVIOUS
<1>1. PICK n \in Unread : \A m \in Unread : n <= m
  <2>1. Unread \subseteq Nat
    OBVIOUS
  <2> HIDE DEF Unread
  <2> QED
    BY <2>1, LeastNumber
<1>2. n # 0
  <2>1. ReadsUpTo([k \in 0 .. 0 |-> 0], text, 0)
    BY DEF ReadsUpTo
  <2> QED
    BY <2>1
<1>3. n \in 1 .. len /\ n - 1 \in 0 .. len /\ n - 1 \notin Unread
  BY <1>1, <1>2
<1>4. PICK read : ReadsUpTo(read, text, n - 1)
  BY <1>3
<1> DEFINE longer == [k \in 0 .. n |-> IF k = n THEN 10 * read[n - 1] + Digit[text[n]]
                                              ELSE read[k]]
<1>5. Digit[text[n]] \in Nat /\ read[n - 1] \in Nat
  BY <1>3, <1>4, DigitValue DEF ReadsUpTo
<1>6. ReadsUpTo(longer, text, n)
  <2>1. ASSUME NEW k \in 0 .. n, k # n
        PROVE  k \in 0 .. n - 1 /\ longer[k] = read[k] /\ read[k] \in Nat
    <3>1. k \in 0 .. n - 1
      BY <1>3, <2>1
    <3> QED
      BY <1>4, <2>1, <3>1 DEF ReadsUpTo
  <2>2. longer[n] = 10 * read[n - 1] + Digit[text[n]] /\ longer[n] \in Nat
    BY <1>3, <1>5
  <2>3. longer \in [0 .. n -> Nat]
    <3>1. \A k \in 0 .. n : longer[k] \in Nat
      BY <2>1, <2>2
    <3> QED
      BY <3>1
  <2>4. longer[0] = 0
    BY <1>3, <1>4, <2>1 DEF ReadsUpTo
  <2> HIDE DEF longer
  <2>5. ASSUME NEW k \in 1 .. n PROVE longer[k] = 10 * longer[k - 1] + Digit[text[k]]
    <3>1. k - 1 \in 0 .. n /\ k - 1 # n /\ longer[k - 1] = read[k - 1]
      BY <1>3, <2>1
    <3>2. CASE k = n
      BY <2>2, <3>1, <3>2
    <3>3. CASE k # n
      <4>1. k \in 1 .. n - 1 /\ longer[k] = read[k]
        BY <1>3, <2>1, <3>3
      <4> QED
        BY <1>4, <3>1, <4>1 DEF ReadsUpTo
    <3> QED
      BY <3>2, <3>3
  <2> QED
    BY <2>3, <2>4, <2>5 DEF ReadsUpTo
<1>7. n \notin Unread
  BY <1>6
<1> QED
  BY <1>1, <1>7

\* Digits stand for a number.
LEMMA NumeralType ==
    ASSUME NEW S, NEW text \in Seq(S), \A k \in 1 .. Len(text) : text[k] \in DOMAIN Digit
    PROVE  Numeral(text) \in Nat
<1> DEFINE len == Len(text)
           step(read) == [n \in 0 .. len |->
                            IF n = 0 THEN 0 ELSE 10 * read[n - 1] + Digit[text[n]]]
           chosen == CHOOSE read : read = step(read)
<1>1. len \in Nat
  OBVIOUS
<1>2. PICK r : ReadsUpTo(r, text, len)
  BY <1>1, NumeralReads
<1>3. r = step(r)
  <2>1. r \in [0 .. len -> Nat]
    BY <1>2 DEF ReadsUpTo
  <2>2. ASSUME NEW n \in 0 .. len
        PROVE  r[n] = IF n = 0 THEN 0 ELSE 10 * r[n - 1] + Digit[text[n]]
    <3>1. n # 0 => n \in 1 .. len
      BY <1>1
    <3> QED
      BY <1>2, <3>1 DEF ReadsUpTo
  <2> HIDE DEF len
  <2> QED
    BY <2>1, <2>2
<1>4. chosen = step(chosen)
  <2>1. \E read : read = step(read)
    BY <1>3
  <2> HIDE DEF step
  <2> QED
    BY <2>1
<1>5. Numeral(text) = chosen[len]
  BY DEF Numeral
<1> HIDE DEF chosen
<1>6. /\ chosen[0] = 0
      /\ \A n \in 1 .. len : chosen[n] = 10 * chosen[n - 1] + Digit[text[n]]
  <2>1. \A n \in 0 .. len :
          chosen[n] = IF n = 0 THEN 0 ELSE 10 * chosen[n - 1] + Digit[text[n]]
    BY <1>4
  <2> QED
    BY <1>1, <2>1
<1> HIDE DEF step
<1> DEFINE Odd == { n \in 0 .. len : chosen[n] \notin Nat }
<1>7. Odd = {}
  <2> SUFFICES ASSUME Odd # {} PROVE FALSE
    OBVIOUS
  <2>1. PICK n \in Odd : \A m \in Odd : n <= m
    <3>1. Odd \subseteq Nat
      BY <1>1
    <3> HIDE DEF Odd
    <3> QED
      BY <3>1, LeastNumber
  <2>2. n \in 1 .. len /\ n - 1 \in 0 .. len /\ n - 1 \notin Odd
    BY <1>1, <1>6, <2>1
  <2>3. chosen[n - 1] \in Nat /\ Digit[text[n]] \in Nat
    BY <2>2, DigitValue
  <2>4. chosen[n] \in Nat
    BY <1>6, <2>2, <2>3
  <2> QED
    BY <2>1, <2>4
<1> QED
  BY <1>1, <1>5, <1>7
-------------------------------------------------------------------------------
\* atoi() of digits only.
LEMMA AtoiOfDigits ==
    ASSUME NEW text, \A k \in DOMAIN text : text[k] \in DOMAIN Digit
    PROVE  Atoi(text) = Numeral(text)
BY DEF Atoi

\* Whatever is behind the colon, port_ is a number.
LEMMA AtoiType ==
    ASSUME NEW S, NEW text \in Seq(S)
    PROVE  Atoi(text) \in Nat
<1> DEFINE others == { k \in DOMAIN text : text[k] \notin DOMAIN Digit }
<1>1. DOMAIN text = 1 .. Len(text) /\ Len(text) \in Nat
  OBVIOUS
<1>2. Atoi(text) = Numeral(IF others = {} THEN text ELSE Before(text, Min(others)))
  BY DEF Atoi
<1>3. CASE others = {}
  BY <1>1, <1>2, <1>3, NumeralType
<1>4. CASE others # {}
  <2>1. others \subseteq 1 .. Len(text) /\ others \subseteq Nat
    BY <1>1
  <2>2. \A k \in 1 .. Len(text) : k \notin others => text[k] \in DOMAIN Digit
    BY <1>1
  <2> HIDE DEF others
  <2>3. PICK p \in others : p = Min(others) /\ \A k \in others : p <= k
    BY <1>4, <2>1, LeastNumber
  <2>4. p - 1 \in 0 .. Len(text)
    BY <1>1, <2>1, <2>3
  <2> DEFINE front == SubSeq(text, 1, p - 1)
  <2>5. front \in Seq(S) /\ Len(front) = p - 1 /\ \A n \in 1 .. p - 1 : front[n] = text[n]
    BY <1>1, <2>4, FrontSeqs
  <2> HIDE DEF front
  <2>6. ASSUME NEW n \in 1 .. Len(front) PROVE front[n] \in DOMAIN Digit
    <3>1. n \in 1 .. p - 1 /\ n \in 1 .. Len(text) /\ n \notin others
      BY <1>1, <2>1, <2>3, <2>4, <2>5
    <3> QED
      BY <2>2, <2>5, <3>1
  <2>7. Numeral(front) \in Nat
    BY <2>5, <2>6, NumeralType
  <2>8. Atoi(text) = Numeral(front)
    BY <1>2, <1>4, <2>3 DEF Before, front
  <2> QED
    BY <2>7, <2>8
<1> QED
  BY <1>3, <1>4

\* The positions find() can return.
LEMMA FindType ==
    ASSUME NEW S, NEW text \in Seq(S), NEW c
    PROVE  Find(text, c) \in 1 .. Len(text) + 1
<1> DEFINE found == { k \in DOMAIN text : text[k] = c }
<1>1. DOMAIN text = 1 .. Len(text) /\ Len(text) \in Nat
  OBVIOUS
<1>2. Find(text, c) = IF found = {} THEN Len(text) + 1 ELSE Min(found)
  BY DEF Find
<1>3. found \subseteq 1 .. Len(text) /\ found \subseteq Nat
  BY <1>1
<1> HIDE DEF found
<1>4. found # {} => Min(found) \in 1 .. Len(text)
  BY <1>3, LeastNumber
<1> QED
  BY <1>1, <1>2, <1>4

LEMMA PartTypes ==
    ASSUME NEW S, NEW url, url.rest \in Seq(S), "/" \in S
    PROVE  /\ Authority(url) \in Seq(S)
           /\ HostOf(url) \in Seq(S)
           /\ PathOf(url) \in Seq(S)
           /\ PortOf(url) \in Nat
           /\ SinPort(url) \in 0 .. PortModulus - 1
<1>1. ASSUME NEW s \in Seq(S), NEW c
      PROVE  /\ Before(s, Find(s, c)) \in Seq(S)
             /\ After(s, Find(s, c)) \in Seq(S)
             /\ From(s, Find(s, c)) \in Seq(S)
  <2>1. PICK p \in 1 .. Len(s) + 1 : p = Find(s, c)
    BY FindType
  <2>2. SubSeq(s, 1, p - 1) \in Seq(S) /\ SubSeq(s, p + 1, Len(s)) \in Seq(S)
        /\ SubSeq(s, p, Len(s)) \in Seq(S)
    OBVIOUS
  <2> QED
    BY <2>1, <2>2 DEF Before, After, From
<1>2. Authority(url) \in Seq(S) /\ HostOf(url) \in Seq(S)
  BY <1>1 DEF Authority, HostOf
<1>3. PathOf(url) \in Seq(S)
  <2>1. <<"/">> \in Seq(S)
    OBVIOUS
  <2> QED
    BY <1>1, <2>1 DEF PathOf
<1>4. PortOf(url) \in Nat
  <2>1. After(Authority(url), Find(Authority(url), ":")) \in Seq(S)
    BY <1>1, <1>2
  <2> QED
    BY <2>1, AtoiType DEF PortOf, DefaultPort
<1>5. SinPort(url) \in 0 .. PortModulus - 1
  BY <1>4, RequestAssumption DEF SinPort
<1> QED
  BY <1>2, <1>3, <1>4, <1>5

\* A URL that is a host, a port and a path one behind the other is cut there.
LEMMA CutAtItsParts ==
    ASSUME NEW S, NEW url, url.rest \in Seq(S),
           NEW j \in 0 .. Len(url.rest), NEW k \in j .. Len(url.rest),
           IsHost(SubSeq(url.rest, 1, j)),
           IsPort(SubSeq(url.rest, j + 1, k)),
           IsPath(SubSeq(url.rest, k + 1, Len(url.rest)))
    PROVE  /\ HostOf(url) = SubSeq(url.rest, 1, j)
           /\ PortOf(url) = PortMeant(SubSeq(url.rest, j + 1, k))
           /\ PathOf(url) = PathMeant(SubSeq(url.rest, k + 1, Len(url.rest)))
<1> DEFINE rest == url.rest
           len == Len(url.rest)
           host == SubSeq(rest, 1, j)
           port == SubSeq(rest, j + 1, k)
           path == SubSeq(rest, k + 1, len)
           auth == SubSeq(rest, 1, k)
<1>1. len \in Nat /\ rest \in Seq(S) /\ DOMAIN rest = 1 .. len /\ j \in Nat /\ k \in Nat
      /\ j <= k /\ k <= len
  OBVIOUS
<1>2. /\ host \in Seq(S) /\ Len(host) = j /\ \A n \in 1 .. j : host[n] = rest[n]
      /\ auth \in Seq(S) /\ Len(auth) = k /\ \A n \in 1 .. k : auth[n] = rest[n]
      /\ port \in Seq(S) /\ Len(port) = k - j /\ \A n \in 1 .. k - j : port[n] = rest[j + n]
      /\ path \in Seq(S) /\ Len(path) = len - k /\ \A n \in 1 .. len - k : path[n] = rest[k + n]
  BY <1>1
<1>3. SubSeq(auth, 1, j) = host /\ SubSeq(auth, j + 2, k) = SubSeq(port, 2, k - j)
  BY <1>1
<1> HIDE DEF rest, len, host, port, path, auth
<1>4. \A n \in 1 .. j : rest[n] # ":" /\ rest[n] # "/"
  <2>1. IsHost(host)
    BY DEF host, rest
  <2>2. DOMAIN host = 1 .. j
    BY <1>2
  <2>3. \A n \in 1 .. j : host[n] # ":" /\ host[n] # "/"
    BY <2>1, <2>2 DEF IsHost
  <2> QED
    BY <1>2, <2>3
<1>5. j < k => /\ rest[j + 1] = ":"
               /\ j + 1 < k
               /\ \A n \in j + 2 .. k : rest[n] \in DOMAIN Digit
  <2> SUFFICES ASSUME j < k
               PROVE  /\ rest[j + 1] = ":"
                      /\ j + 1 < k
                      /\ \A n \in j + 2 .. k : rest[n] \in DOMAIN Digit
    OBVIOUS
  <2>0. port # <<>>
    BY <1>1, <1>2
  <2>1. IsPort(port) /\ port # <<>> /\ Len(port) = k - j
    BY <1>2, <2>0 DEF port, rest
  <2>2. /\ port[1] = ":" /\ k - j > 1
        /\ \A n \in 2 .. k - j : port[n] \in DOMAIN Digit
    BY <2>1 DEF IsPort
  <2>3. ASSUME NEW n \in j + 2 .. k PROVE rest[n] \in DOMAIN Digit
    <3>1. n - j \in 2 .. k - j /\ n - j \in 1 .. k - j /\ j + (n - j) = n
      BY <1>1
    <3>2. port[n - j] = rest[n]
      BY <1>2, <3>1
    <3> QED
      BY <2>2, <3>1, <3>2
  <2>4. 1 \in 1 .. k - j
    BY <1>1
  <2> QED
    BY <1>1, <1>2, <2>2, <2>3, <2>4
<1>6. k < len => rest[k + 1] = "/"
  <2> SUFFICES ASSUME k < len PROVE rest[k + 1] = "/"
    OBVIOUS
  <2>0. path # <<>> /\ 1 \in 1 .. len - k
    BY <1>1, <1>2
  <2>1. IsPath(path)
    BY DEF path, rest, len
  <2> QED
    BY <1>2, <2>0, <2>1 DEF IsPath
<1>7. \A n \in 1 .. k : rest[n] # "/"
  <2>1. ASSUME NEW n \in 1 .. k PROVE rest[n] # "/"
    <3>1. n \in 1 .. j \/ (n = j + 1 /\ j < k) \/ (n \in j + 2 .. k /\ j < k)
      BY <1>1
    <3> QED
      BY <1>4, <1>5, <3>1, DigitValue
  <2> QED
    BY <2>1
<1>8. Find(rest, "/") = k + 1
  <2>1. k + 1 \in 1 .. Len(rest) + 1 /\ Len(rest) = len /\ (k + 1) - 1 = k
    BY <1>1 DEF rest, len
  <2>2. k + 1 <= Len(rest) => rest[k + 1] = "/"
    BY <1>1, <1>6, <2>1
  <2> QED
    BY <1>1, <1>7, <2>1, <2>2, FindsFirst
<1>9. Authority(url) = auth
  <2>1. (k + 1) - 1 = k
    BY <1>1
  <2> QED
    BY <1>8, <2>1 DEF Authority, Before, auth, rest
<1>10. Find(auth, ":") = j + 1
  <2>1. j + 1 \in 1 .. Len(auth) + 1 /\ (j + 1) - 1 = j
    BY <1>1, <1>2
  <2>2. j + 1 <= Len(auth) => auth[j + 1] = ":"
    BY <1>1, <1>2, <1>5
  <2>3. \A n \in 1 .. (j + 1) - 1 : auth[n] # ":"
    BY <1>1, <1>2, <1>4
  <2>4. auth \in Seq(S)
    BY <1>2
  <2> QED
    BY <2>1, <2>2, <2>3, <2>4, FindsFirst
<1>11. HostOf(url) = host
  <2>1. (j + 1) - 1 = j
    BY <1>1
  <2> QED
    BY <1>3, <1>9, <1>10, <2>1 DEF HostOf, Before
<1>12. PathOf(url) = PathMeant(path)
  <2>1. CASE k < len
    <3>1. Contains(rest, "/")
      <4>1. k + 1 \in 1 .. Len(rest)
        BY <1>1, <2>1 DEF rest, len
      <4> QED
        BY <1>6, <2>1, <4>1 DEF Contains
    <3>2. path # <<>>
      BY <1>1, <1>2, <2>1
    <3> QED
      BY <1>8, <3>1, <3>2 DEF PathOf, PathMeant, From, path, rest, len
  <2>2. CASE k = len
    <3>1. ~Contains(rest, "/")
      BY <1>7, <2>2 DEF Contains, rest, len
    <3>2. path = <<>>
      BY <1>1, <1>2, <2>2
    <3> QED
      BY <3>1, <3>2 DEF PathOf, PathMeant, rest
  <2> QED
    BY <1>1, <2>1, <2>2
<1>13. PortOf(url) = PortMeant(port)
  <2>1. CASE j < k
    <3>1. Contains(auth, ":")
      <4>1. j + 1 \in 1 .. Len(auth) /\ auth[j + 1] = ":"
        BY <1>1, <1>2, <1>5, <2>1
      <4> QED
        BY <4>1 DEF Contains
    <3>2. port # <<>> /\ Tail(port) = SubSeq(port, 2, k - j)
      <4>1. port # <<>>
        BY <1>1, <1>2, <2>1
      <4>2. Tail(port) = SubSeq(port, 2, Len(port))
        BY <1>2, <4>1
      <4> QED
        BY <1>2, <4>1, <4>2
    <3>3. After(auth, j + 1) = Tail(port)
      <4>1. (j + 1) + 1 = j + 2
        BY <1>1
      <4> QED
        BY <1>2, <1>3, <3>2, <4>1 DEF After
    <3>4. \A n \in DOMAIN Tail(port) : Tail(port)[n] \in DOMAIN Digit
      <4>1. Len(Tail(port)) = (k - j) - 1 /\ \A n \in 1 .. (k - j) - 1 :
                Tail(port)[n] = port[n + 1]
        BY <1>1, <1>2, <2>1
      <4>2. ASSUME NEW n \in 1 .. (k - j) - 1 PROVE Tail(port)[n] \in DOMAIN Digit
        <5>1. n + 1 \in 1 .. k - j /\ j + (n + 1) \in j + 2 .. k
          BY <1>1
        <5> QED
          BY <1>2, <1>5, <2>1, <4>1, <5>1
      <4>3. DOMAIN Tail(port) = 1 .. Len(Tail(port))
        BY <1>2, <3>2
      <4> QED
        BY <4>1, <4>2, <4>3
    <3>5. Atoi(Tail(port)) = Numeral(Tail(port))
      BY <3>4, AtoiOfDigits
    <3> QED
      BY <1>9, <1>10, <3>1, <3>2, <3>3, <3>5 DEF PortOf, PortMeant
  <2>2. CASE j = k
    <3>1. ~Contains(auth, ":")
      BY <1>2, <1>4, <2>2 DEF Contains
    <3>2. port = <<>>
      BY <1>1, <1>2, <2>2
    <3> QED
      BY <1>9, <3>1, <3>2 DEF PortOf, PortMeant
  <2> QED
    BY <1>1, <2>1, <2>2
<1> QED
  BY <1>11, <1>12, <1>13 DEF host, port, path, rest, len

LEMMA UrlUnderstood ==
    ASSUME NEW S, NEW url, url.rest \in Seq(S), "/" \in S, NEW method, NEW version
    PROVE  UnderstoodAs(url, ServerAddr(url), DefaultRequest(url, method, version))
<1> DEFINE Host(j) == SubSeq(url.rest, 1, j)
           Port(j, k) == SubSeq(url.rest, j + 1, k)
           Path(k) == SubSeq(url.rest, k + 1, Len(url.rest))
<1>1. ASSUME NEW j \in 0 .. Len(url.rest), NEW k \in j .. Len(url.rest),
             IsHost(Host(j)), IsPort(Port(j, k)), IsPath(Path(k))
      PROVE  /\ ServerAddr(url) = [host |-> Host(j),
                                   port |-> PortMeant(Port(j, k)) % PortModulus]
             /\ DefaultRequest(url, method, version).host = Host(j)
             /\ DefaultRequest(url, method, version).path = PathMeant(Path(k))
  <2>1. /\ HostOf(url) = Host(j)
        /\ PortOf(url) = PortMeant(Port(j, k))
        /\ PathOf(url) = PathMeant(Path(k))
    BY <1>1, CutAtItsParts
  <2> QED
    BY <2>1 DEF ServerAddr, SinPort, DefaultRequest
<1> QED
  BY <1>1 DEF UnderstoodAs

-------------------------------------------------------------------------------
(* main().                                                                 *)

\* What Types leaves open: the bound of the calls, the connections among them,
\* and the stages.
CallbacksCounted ==
    /\ stage \in {"loop", "showResult", "shown"}
    /\ callbacks \in 0 .. MaxCallbacks
    /\ connected \in 0 .. callbacks

\* The request is the one of the options, which no longer change.
RequestMade ==
    /\ request = DefaultRequest(Get("url"), Get("method"), Get("version"))
    /\ serverAddr = ServerAddr(Get("url"))
    /\ Get("url") \in Urls

MainInv ==
    /\ argv \in CommandLines
    /\ ParserTypeOK
    /\ ReportInv
    /\ CallbacksCounted
    /\ mainPc \in {"parse", "getOptions", "benchmark", "returned",
                   "terminated", "aborted"}
    /\ request \in Requests \cup {NoValue}
    /\ serverAddr \in Addresses \cup {NoValue}
    /\ mainPc \in {"benchmark", "returned"} <=> request # NoValue
    /\ request = NoValue <=> serverAddr = NoValue
    /\ request # NoValue => RequestMade
    /\ stage # "loop" => request # NoValue
    /\ mainPc = "returned" <=> stage = "shown"

LEMMA CallbacksStep ==
    ASSUME CallbacksCounted, [HttpNext]_httpVars
    PROVE  CallbacksCounted'
<1> USE DEF CallbacksCounted
<1>1. ASSUME NEW t \in IoThreads, IoThread(t) PROVE CallbacksCounted'
  <2>1. CASE OnConnection(t)
    BY <2>1, HttpAssumption DEF OnConnection, Begin, mainVars
  <2>2. CASE OnMessage(t)
    BY <2>2, HttpAssumption DEF OnMessage, Begin, mainVars
  <2>3. CASE StoreConn(t) \/ CountReceive(t) \/ CountSentBytes(t) \/ CountSend(t)
    BY <2>3 DEF StoreConn, CountReceive, CountSentBytes, CountSend, mainVars
  <2> QED
    BY <1>1, <2>1, <2>2, <2>3 DEF IoThread
<1>2. CASE LoopReturns \/ PrintLine \/ UNCHANGED httpVars
  BY <1>2 DEF LoopReturns, PrintLine, ioVars, httpVars
<1> QED
  BY <1>1, <1>2 DEF HttpNext

\* The types of the report, with the bound of the calls.
LEMMA HttpTypes ==
    ASSUME ReportInv, CallbacksCounted
    PROVE  HttpTypeOK
<1>1. Len(ReportLines) = 9
  BY DEF ReportLines
<1>2. Len(<<>>) = 0
  OBVIOUS
<1>3. stage = "shown" <=> Len(report) = 9
  <2>1. stage = "loop" => Len(report) = 0
    BY <1>2 DEF ReportInv, Types
  <2>2. stage = "showResult" => Len(report) < 9
    BY DEF ReportInv, Types
  <2>3. stage = "shown" => Len(report) = 9
    BY DEF ReportInv, Types
  <2>4. Len(report) \in Nat
    BY DEF ReportInv, Types
  <2>5. CASE stage = "shown"
    BY <2>3, <2>5
  <2>6. CASE stage # "shown"
    <3>1. Len(report) < 9
      BY <2>1, <2>2, <2>6 DEF CallbacksCounted
    <3>2. \A n \in Nat : n < 9 => n # 9
      OBVIOUS
    <3>3. Len(report) # 9
      BY <2>4, <3>1, <3>2
    <3> QED
      BY <2>6, <3>3
  <2> QED
    BY <2>5, <2>6
<1> QED
  BY <1>1, <1>3 DEF ReportInv, Types, CallbacksCounted, HttpTypeOK

\* An option with a value has one of the arguments.
LEMMA OptionsHaveValues ==
    ASSUME ParserTypeOK, Get("url") # NoValue
    PROVE  /\ Get("url") \in Arguments
           /\ Get("method") \in Arguments
           /\ Get("version") \in Arguments
BY MainAssumption, CommandLineAssumption DEF Get, Value, ParserTypeOK

LEMMA MadeTypes ==
    ASSUME NEW url \in Urls, NEW method \in Arguments, NEW version \in Arguments
    PROVE  /\ DefaultRequest(url, method, version) \in Requests
           /\ ServerAddr(url) \in Addresses
<1>1. url.rest \in Seq(Characters)
  BY DEF Urls
<1>2. /\ HostOf(url) \in Seq(Characters) /\ PathOf(url) \in Seq(Characters)
      /\ SinPort(url) \in 0 .. PortModulus - 1
  BY <1>1, RequestAssumption, PartTypes
<1> QED
  BY <1>2 DEF DefaultRequest, ServerAddr, Requests, Addresses

LEMMA MainInvInit == Init => MainInv
<1> SUFFICES ASSUME Init PROVE MainInv
  OBVIOUS
<1>1. argv \in CommandLines /\ ParserTypeOK
  BY InvInit DEF Init, IInv
<1>2. ReportInv
  BY ReportInit DEF Init
<1>3. CallbacksCounted /\ stage = "loop"
  BY HttpAssumption DEF Init, HttpInit, CallbacksCounted
<1> QED
  BY <1>1, <1>2, <1>3 DEF Init, MainInv

LEMMA MainInvNext == MainInv /\ [Next]_vars => MainInv'
<1> SUFFICES ASSUME MainInv, [Next]_vars PROVE MainInv'
  OBVIOUS
<1>1. [ParserNext]_parserVars /\ [HttpNext]_httpVars
  BY DEF Next, vars, Parse, UrlMissing, RequestAborts, StartBenchmark, Benchmark
<1>2. argv' \in CommandLines /\ ParserTypeOK'
  BY <1>1, TypesPreserved DEF MainInv
<1>3. ReportInv' /\ CallbacksCounted'
  BY <1>1, ReportStep, CallbacksStep DEF MainInv
<1>4. CASE Parse
  <2>1. /\ mainPc = "parse" /\ mainPc' \in {"parse", "terminated", "getOptions"}
        /\ UNCHANGED <<request, serverAddr, stage>>
    BY <1>4 DEF Parse, httpVars
  <2> QED
    BY <1>2, <1>3, <2>1 DEF MainInv
<1>5. CASE UrlMissing
  <2>1. /\ mainPc = "getOptions" /\ mainPc' = "terminated"
        /\ UNCHANGED <<request, serverAddr, stage>>
    BY <1>5 DEF UrlMissing, httpVars
  <2> QED
    BY <1>2, <1>3, <2>1 DEF MainInv
<1>6. CASE RequestAborts
  <2>1. /\ mainPc = "getOptions" /\ mainPc' = "aborted"
        /\ UNCHANGED <<request, serverAddr, stage>>
    BY <1>6 DEF RequestAborts, httpVars
  <2> QED
    BY <1>2, <1>3, <2>1 DEF MainInv
<1>7. CASE StartBenchmark
  <2>1. /\ mainPc = "getOptions" /\ mainPc' = "benchmark" /\ stage' = stage
        /\ Get("url") # NoValue
        /\ request' = DefaultRequest(Get("url"), Get("method"), Get("version"))
        /\ serverAddr' = ServerAddr(Get("url"))
        /\ values' = values
    BY <1>7 DEF StartBenchmark, httpVars, parserVars
  <2>2. /\ Get("url") \in Urls
        /\ Get("method") \in Arguments /\ Get("version") \in Arguments
    BY <2>1, OptionsHaveValues, MainAssumption DEF MainInv
  <2>3. request' \in Requests /\ serverAddr' \in Addresses
    BY <2>1, <2>2, MadeTypes
  <2>4. request' # NoValue /\ serverAddr' # NoValue
    BY <2>3, MainAssumption
  <2>5. RequestMade'
    BY <2>1, <2>2 DEF RequestMade, Get, Value
  <2> QED
    BY <1>2, <1>3, <2>1, <2>3, <2>4, <2>5 DEF MainInv
<1>8. ASSUME UNCHANGED <<values, request, serverAddr>> PROVE RequestMade' <=> RequestMade
  BY <1>8 DEF RequestMade, Get, Value
<1>9. CASE Benchmark
  <2>1. /\ mainPc = "benchmark"
        /\ mainPc' = IF stage' = "shown" THEN "returned" ELSE "benchmark"
        /\ UNCHANGED <<request, serverAddr, values>>
    BY <1>9 DEF Benchmark, parserVars
  <2> QED
    BY <1>2, <1>3, <1>8, <2>1 DEF MainInv
<1>10. CASE UNCHANGED vars
  <2>1. UNCHANGED <<values, request, serverAddr, mainPc, stage>>
    BY <1>10 DEF vars, parserVars, httpVars
  <2> QED
    BY <1>2, <1>3, <1>8, <2>1 DEF MainInv
<1> QED
  BY <1>4, <1>5, <1>6, <1>7, <1>9, <1>10 DEF Next

\* The variables of main() keep their types: there is a request from the start
\* of the benchmark on, its port passes htons(), and the report is complete
\* when main() returns (main(), Request::parseUrl()).
THEOREM MainTypeCorrect == Spec => []TypeOK
<1>1. MainInv => TypeOK
  BY HttpTypes DEF MainInv, TypeOK
<1> QED
  BY <1>1, MainInvInit, MainInvNext, PTL DEF Spec

\* For a URL of any length and any options, the server, the port and the path
\* are those of the URL (Request::parseUrl(), Request::defaultRequest()).
THEOREM UrlPartsCorrect == Spec => []UrlPartsRight
<1>1. MainInv => UrlPartsRight
  <2> SUFFICES ASSUME MainInv, request # NoValue
               PROVE  UnderstoodAs(Get("url"), serverAddr, request)
    BY DEF UrlPartsRight
  <2>1. RequestMade
    BY DEF MainInv
  <2>2. Get("url").rest \in Seq(Characters)
    BY <2>1 DEF RequestMade, Urls
  <2>3. UnderstoodAs(Get("url"), ServerAddr(Get("url")),
                     DefaultRequest(Get("url"), Get("method"), Get("version")))
    BY <2>2, RequestAssumption, UrlUnderstood
  <2> QED
    BY <2>1, <2>3 DEF RequestMade
<1> QED
  BY <1>1, MainInvInit, MainInvNext, PTL DEF Spec

\* What main() does between the arguments and the report is a run of parse():
\* what holds of the parser holds in the whole program, the benchmark included
\* (main(), Parser::parse()).
THEOREM MainRunsParser == Spec => ParserSpec /\ []OptionsAreRight
<1>1. Init => ParserInit
  BY DEF Init
<1>2. [Next]_vars => [ParserNext]_parserVars
  BY DEF Next, vars, Parse, UrlMissing, RequestAborts, StartBenchmark, Benchmark
<1>3. Spec => ParserSpec
  BY <1>1, <1>2, PTL DEF Spec, ParserSpec
<1> QED
  BY <1>3, OptionsCorrect, PTL
===============================================================================
