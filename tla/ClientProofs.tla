----------------------------- MODULE ClientProofs -----------------------------
(***************************************************************************)
(* Proofs about Client for any number of clients, loops, descriptors and   *)
(* connections.                                                            *)
(*                                                                         *)
(* A connection is new, up, closed or torn down.  The invariant says which *)
(* functors may be pending for it at each of these stages and whether it   *)
(* has its entry in connections_; that a loop's functors are distinct, and *)
(* connectEstablished() of a connection comes before its                   *)
(* connectDestroyed(); and that no two connections that are not torn down  *)
(* share a descriptor, because one of them still holds it.                 *)
(***************************************************************************)
EXTENDS Client, FiniteSetTheorems, TLAPS

Established(c) == Functor("connectEstablished", c)
Destroyed(c) == Functor("connectDestroyed", c)
Removal(c) == Functor("removeConnectionInLoop", c)

New(c) == conns[c].state = "kConnecting" /\ conns[c].index = "kNew"
Up(c) == conns[c].state = "kConnected" /\ conns[c].index = "kAdded"
Closed(c) == conns[c].state = "kDisconnected" /\ conns[c].index = "kDeleted"
TornDown(c) == conns[c].state = "kDisconnected" /\ conns[c].index = "kNew"

\* The connection has its entry in connections_.
Mapped(c) == \E fd \in DOMAIN connections : connections[fd] = c

\* The functors of each loop, as a sequence and as a set.
Queue == [l \in Loops |-> Pending(l)]
Posted == [l \in Loops |-> ToSet(Queue[l])]

\* No functor twice, and connectEstablished() before connectDestroyed().
Orderly(s) ==
    /\ \A i, j \in 1 .. Len(s) : s[i] = s[j] => i = j
    /\ \A i, j \in 1 .. Len(s) :
          /\ s[i].call = "connectEstablished"
          /\ s[j].call = "connectDestroyed"
          /\ s[i].conn = s[j].conn
          => i < j

MainRuns == mainPc \in {"start", "loop"}

-------------------------------------------------------------------------------
(* The parts of the invariant.                                             *)

\* The io threads are told to quit by the destructors only.
Shutdown ==
    /\ mainPc \in {"wakeThread", "joinThread"} => closing \in IoLoops
    /\ mainPc = "quitThread" => closing \in 1 .. NumLoops + 1
    /\ mainPc \in {"start", "loop", "~Client"} =>
          running = IoLoops /\ \A l \in IoLoops : ~quit[l]
    /\ \A l \in IoLoops : l \notin running => batch[l] = <<>>

Stages == \A c \in ConnIds : New(c) \/ Up(c) \/ Closed(c) \/ TornDown(c)

\* Functors are posted to the loop of their connection.
Addressed ==
    /\ \A l \in IoLoops : \A f \in Posted[l] :
          /\ f.conn \in ConnIds
          /\ conns[f.conn].loop = l
          /\ f.call \in {"connectEstablished", "connectDestroyed"}
    /\ MainRuns =>
          \A f \in Posted[Base] : f.conn \in ConnIds /\ f.call = "removeConnectionInLoop"

Queues ==
    /\ \A l \in IoLoops : Orderly(Queue[l])
    /\ MainRuns => Orderly(Queue[Base])

\* What is pending for a connection on its loop.
Lives ==
    \A c \in ConnIds :
        /\ Established(c) \in Posted[conns[c].loop] => New(c)
        /\ New(c) /\ conns[c].loop \in running => Established(c) \in Posted[conns[c].loop]
        /\ TornDown(c) \/ Mapped(c) => Destroyed(c) \notin Posted[conns[c].loop]
        /\ TornDown(c) => ~Mapped(c)

\* While the base loop runs, what is not torn down is held by the map, or by
\* the functor that will tear it down.
Held ==
    MainRuns =>
        \A c \in ConnIds :
            /\ \/ TornDown(c)
               \/ Mapped(c)
               \/ Closed(c) /\ Destroyed(c) \in Posted[conns[c].loop]
            /\ Removal(c) \in Posted[Base] => Closed(c) /\ Mapped(c)

Entries ==
    \A fd \in DOMAIN connections :
        connections[fd] \in ConnIds /\ conns[connections[fd]].fd = fd

\* A descriptor is not given away before its connection is torn down, neither
\* to another connection ...
Descriptors ==
    \A c, d \in ConnIds :
        c # d /\ ~TornDown(c) /\ ~TornDown(d) => conns[c].fd # conns[d].fd

\* ... nor to an attempt.
Unused == \A c \in ConnIds : conns[c].fd \in connecting => TornDown(c)

ConnInv ==
    /\ Stages
    /\ Addressed
    /\ Queues
    /\ Lives
    /\ Held
    /\ Entries
    /\ Descriptors

IInv ==
    /\ TypeOK
    /\ Shutdown
    /\ ConnInv
    /\ Unused

-------------------------------------------------------------------------------
(* Lemmas about sequences.                                                 *)

LEMMA ElementsOfConcat ==
    ASSUME NEW S, NEW s \in Seq(S), NEW t \in Seq(S)
    PROVE  ToSet(s \o t) = ToSet(s) \cup ToSet(t)
<1>1. ASSUME NEW x \in ToSet(s \o t) PROVE x \in ToSet(s) \cup ToSet(t)
  <2>1. PICK i \in 1 .. Len(s) + Len(t) : x = (s \o t)[i]
    BY <1>1 DEF ToSet
  <2>2. CASE i <= Len(s)
    BY <2>1, <2>2 DEF ToSet
  <2>3. CASE i > Len(s)
    <3>1. i - Len(s) \in 1 .. Len(t) /\ x = t[i - Len(s)]
      BY <2>1, <2>3
    <3>2. QED
      BY <3>1 DEF ToSet
  <2>4. QED
    BY <2>2, <2>3
<1>2. ASSUME NEW x \in ToSet(s) PROVE x \in ToSet(s \o t)
  <2>1. PICK i \in 1 .. Len(s) : x = s[i]
    BY <1>2 DEF ToSet
  <2>2. i \in 1 .. Len(s) + Len(t) /\ x = (s \o t)[i]
    BY <2>1
  <2>3. QED
    BY <2>2 DEF ToSet
<1>3. ASSUME NEW x \in ToSet(t) PROVE x \in ToSet(s \o t)
  <2>1. PICK i \in 1 .. Len(t) : x = t[i]
    BY <1>3 DEF ToSet
  <2>2. Len(s) + i \in 1 .. Len(s) + Len(t) /\ x = (s \o t)[Len(s) + i]
    BY <2>1
  <2>3. QED
    BY <2>2 DEF ToSet
<1>4. QED
  BY <1>1, <1>2, <1>3

LEMMA ConcatAppend ==
    ASSUME NEW S, NEW s \in Seq(S), NEW t \in Seq(S), NEW e \in S
    PROVE  s \o Append(t, e) = Append(s \o t, e)
  OBVIOUS

LEMMA ConcatTail ==
    ASSUME NEW S, NEW s \in Seq(S), NEW t \in Seq(S), s # <<>>
    PROVE  /\ s \o t # <<>>
           /\ Head(s \o t) = Head(s)
           /\ Tail(s \o t) = Tail(s) \o t
  OBVIOUS

LEMMA ConcatEmpty ==
    ASSUME NEW S, NEW s \in Seq(S)
    PROVE  s \o <<>> = s /\ <<>> \o s = s
  OBVIOUS

LEMMA SeqChange ==
    ASSUME NEW S, NEW s \in Seq(S), NEW i \in 1 .. Len(s), NEW e \in S
    PROVE  LET t == [s EXCEPT ![i] = e]
           IN  /\ t \in Seq(S) /\ DOMAIN t = DOMAIN s
               /\ t[i] = e /\ \A j \in DOMAIN s : j # i => t[j] = s[j]
  OBVIOUS

\* Posting a functor that is not there yet, and establishes no connection that
\* has one, leaves a queue in order.
LEMMA OrderlyAppend ==
    ASSUME NEW S, NEW s \in Seq(S), NEW f \in S, Orderly(s), f \notin ToSet(s),
           f.call = "connectEstablished" => \A g \in ToSet(s) : g.conn # f.conn
    PROVE  Orderly(Append(s, f)) /\ ToSet(Append(s, f)) = ToSet(s) \cup {f}
<1> DEFINE t == Append(s, f)
<1>1. Len(s) \in Nat /\ Len(t) = Len(s) + 1 /\ t[Len(s) + 1] = f
  OBVIOUS
<1>2. ASSUME NEW k \in 1 .. Len(s) PROVE t[k] = s[k] /\ s[k] \in ToSet(s)
  BY DEF ToSet
<1>3. \A i \in 1 .. Len(t) : i \in 1 .. Len(s) \/ i = Len(s) + 1
  BY <1>1
<1>4. DOMAIN s = 1 .. Len(s) /\ DOMAIN t = 1 .. Len(t)
  OBVIOUS
<1> HIDE DEF t
<1>5. ASSUME NEW i \in 1 .. Len(t), NEW j \in 1 .. Len(t), t[i] = t[j] PROVE i = j
  <2>1. CASE i \in 1 .. Len(s) /\ j \in 1 .. Len(s)
    BY <1>2, <1>5, <2>1 DEF Orderly
  <2>2. CASE i = Len(s) + 1 \/ j = Len(s) + 1
    BY <1>1, <1>2, <1>3, <1>5, <2>2
  <2>3. QED
    BY <1>3, <2>1, <2>2
<1>6. ASSUME NEW i \in 1 .. Len(t), NEW j \in 1 .. Len(t),
             t[i].call = "connectEstablished", t[j].call = "connectDestroyed",
             t[i].conn = t[j].conn
      PROVE  i < j
  <2>1. CASE i \in 1 .. Len(s) /\ j \in 1 .. Len(s)
    BY <1>2, <1>6, <2>1 DEF Orderly
  <2>2. CASE j = Len(s) + 1 /\ i \in 1 .. Len(s)
    BY <1>1, <2>2
  <2>3. CASE i = Len(s) + 1 /\ j \in 1 .. Len(s)
    BY <1>1, <1>2, <1>6, <2>3
  <2>4. CASE i = Len(s) + 1 /\ j = Len(s) + 1
    BY <1>6, <2>4
  <2>5. QED
    BY <1>3, <2>1, <2>2, <2>3, <2>4
<1>7. Orderly(t)
  BY <1>5, <1>6 DEF Orderly
<1>8. ToSet(t) = ToSet(s) \cup {f}
  <2>1. ASSUME NEW x \in ToSet(t) PROVE x \in ToSet(s) \cup {f}
    BY <1>1, <1>2, <1>3, <1>4 DEF ToSet
  <2>2. f \in ToSet(t)
    BY <1>1, <1>4 DEF ToSet
  <2>3. ASSUME NEW x \in ToSet(s) PROVE x \in ToSet(t)
    <3>1. PICK k \in 1 .. Len(s) : x = s[k]
      BY <1>4 DEF ToSet
    <3>2. k \in 1 .. Len(t) /\ x = t[k]
      BY <1>1, <1>2, <3>1
    <3>3. QED
      BY <1>4, <3>2 DEF ToSet
  <2>4. QED
    BY <2>1, <2>2, <2>3
<1>9. QED
  BY <1>7, <1>8 DEF t

\* The first functor of a queue in order, and what is left without it.
LEMMA OrderlyTail ==
    ASSUME NEW S, NEW s \in Seq(S), s # <<>>, Orderly(s)
    PROVE  /\ Orderly(Tail(s))
           /\ ToSet(Tail(s)) = ToSet(s) \ {Head(s)}
           /\ Head(s) \in ToSet(s)
           /\ Head(s).call = "connectDestroyed" =>
                 \A g \in ToSet(s) :
                     g.call = "connectEstablished" => g.conn # Head(s).conn
<1> DEFINE t == Tail(s)
<1>1. Len(s) \in Nat \ {0} /\ Len(t) = Len(s) - 1 /\ Head(s) = s[1]
  OBVIOUS
<1>2. \A k \in 1 .. Len(t) : t[k] = s[k + 1] /\ k + 1 \in 1 .. Len(s)
  OBVIOUS
<1>3. DOMAIN s = 1 .. Len(s) /\ DOMAIN t = 1 .. Len(t)
  OBVIOUS
<1> HIDE DEF t
<1>4. Orderly(t)
  <2>1. ASSUME NEW i \in 1 .. Len(t), NEW j \in 1 .. Len(t), t[i] = t[j] PROVE i = j
    <3>1. i + 1 = j + 1
      BY <1>2, <2>1 DEF Orderly
    <3>2. QED
      BY <1>1, <3>1
  <2>2. ASSUME NEW i \in 1 .. Len(t), NEW j \in 1 .. Len(t),
               t[i].call = "connectEstablished", t[j].call = "connectDestroyed",
               t[i].conn = t[j].conn
        PROVE  i < j
    <3>1. i + 1 < j + 1
      BY <1>2, <2>2 DEF Orderly
    <3>2. QED
      BY <1>1, <3>1
  <2>3. QED
    BY <2>1, <2>2 DEF Orderly
<1>5. Head(s) \in ToSet(s)
  BY <1>1, <1>3 DEF ToSet
<1>6. ToSet(t) = ToSet(s) \ {Head(s)}
  <2>1. ASSUME NEW x \in ToSet(t) PROVE x \in ToSet(s) \ {Head(s)}
    <3>1. PICK k \in 1 .. Len(t) : x = t[k]
      BY <1>3 DEF ToSet
    <3>2. x = s[k + 1] /\ k + 1 \in 1 .. Len(s) /\ k + 1 # 1 /\ 1 \in 1 .. Len(s)
      BY <1>1, <1>2, <3>1
    <3>3. s[k + 1] # s[1]
      BY <3>2 DEF Orderly
    <3>4. QED
      BY <1>1, <1>3, <3>2, <3>3 DEF ToSet
  <2>2. ASSUME NEW x \in ToSet(s) \ {Head(s)} PROVE x \in ToSet(t)
    <3>1. PICK k \in 1 .. Len(s) : x = s[k]
      BY <1>3 DEF ToSet
    <3>2. k # 1
      BY <1>1, <3>1
    <3>3. k - 1 \in 1 .. Len(t) /\ (k - 1) + 1 = k
      BY <1>1, <3>1, <3>2
    <3>4. x = t[k - 1]
      BY <1>2, <3>1, <3>3
    <3>5. QED
      BY <1>3, <3>3, <3>4 DEF ToSet
  <2>3. QED
    BY <2>1, <2>2
<1>7. ASSUME NEW g \in ToSet(s), Head(s).call = "connectDestroyed",
             g.call = "connectEstablished", g.conn = Head(s).conn
      PROVE  FALSE
  <2>1. PICK k \in 1 .. Len(s) : g = s[k]
    BY <1>3 DEF ToSet
  <2>2. 1 \in 1 .. Len(s)
    BY <1>1
  <2>3. k < 1
    BY <1>1, <1>7, <2>1, <2>2 DEF Orderly
  <2>4. QED
    BY <2>1, <2>3
<1>8. QED
  BY <1>4, <1>5, <1>6, <1>7 DEF t

-------------------------------------------------------------------------------
(* Types.                                                                  *)

Conns == [fd : Fds, loop : IoLoops,
          state : {"kConnecting", "kConnected", "kDisconnected"},
          index : {"kNew", "kAdded", "kDeleted"}]

LEMMA Indices ==
    /\ NumSocks \in Nat /\ NumSocks > 0 /\ NumLoops \in Nat /\ NumLoops > 0
    /\ IoLoops \subseteq Nat /\ Base \notin IoLoops
    /\ Loops = {Base} \cup IoLoops
    /\ 1 \in IoLoops
  BY ClientAssumption DEF IoLoops, Loops, Base

\* A functor that names a connection.
LEMMA FunctorType ==
    ASSUME TypeOK, NEW c \in ConnIds,
           NEW call \in {"connectEstablished", "connectDestroyed",
                         "removeConnectionInLoop"}
    PROVE  /\ Functor(call, c) \in Functors
           /\ Functor(call, c).call = call
           /\ Functor(call, c).conn = c
<1>1. c \in Nat
  BY DEF TypeOK, ConnIds
<1>2. QED
  BY <1>1 DEF Functor, Functors

LEMMA TypeInit == Init => TypeOK /\ Shutdown
<1> SUFFICES ASSUME Init PROVE TypeOK /\ Shutdown
  OBVIOUS
<1> USE DEF Init
<1>1. connections = <<>> /\ DOMAIN connections = {} /\ Range(connections) = {}
  BY DEF Range
<1>2. conns \in Seq([fd : Fds, loop : IoLoops,
                     state : {"kConnecting", "kConnected", "kDisconnected"},
                     index : {"kNew", "kAdded", "kDeleted"}])
  OBVIOUS
<1>3. /\ queue \in [Loops -> Seq(Functors)] /\ batch \in [Loops -> Seq(Functors)]
      /\ spent \in [Loops -> SUBSET ConnIds] /\ quit \in [Loops -> BOOLEAN]
  OBVIOUS
<1>4. toConnect \in 0 .. NumSocks /\ closing \in 0 .. NumLoops + 1 /\ nextLoop \in IoLoops
  BY Indices
<1>5. TypeOK
  BY <1>1, <1>2, <1>3, <1>4 DEF TypeOK
<1>6. Shutdown
  BY Indices DEF Shutdown
<1>7. QED
  BY <1>5, <1>6

\* What taking a functor does to the queues.
LEMMA RunFunctorTypes ==
    ASSUME TypeOK, NEW l \in Loops, NEW call, NEW c \in ConnIds, RunFunctor(l, call, c)
    PROVE  /\ batch' \in [Loops -> Seq(Functors)]
           /\ spent' \in [Loops -> SUBSET ConnIds]
           /\ Functor(call, c) \in Functors
<1>1. batch[l] \in Seq(Functors) /\ batch[l] # <<>>
  BY DEF TypeOK, RunFunctor
<1>2. Tail(batch[l]) \in Seq(Functors) /\ Head(batch[l]) \in Functors
  BY <1>1
<1>3. QED
  BY <1>2 DEF TypeOK, RunFunctor

LEMMA PostTypes ==
    ASSUME TypeOK, NEW l \in Loops, NEW f \in Functors
    PROVE  Post(l, f) \in [Loops -> Seq(Functors)]
<1>1. Append(queue[l], f) \in Seq(Functors)
  BY DEF TypeOK
<1>2. QED
  BY <1>1 DEF Post, TypeOK

\* An entry of connections_ less.
LEMMA EraseTypes ==
    ASSUME TypeOK, NEW sockfd
    PROVE  /\ DOMAIN Erase(sockfd) = DOMAIN connections \ {sockfd}
           /\ \A fd \in DOMAIN Erase(sockfd) : Erase(sockfd)[fd] = connections[fd]
           /\ Range(Erase(sockfd)) \subseteq ConnIds
<1>1. /\ DOMAIN Erase(sockfd) = DOMAIN connections \ {sockfd}
      /\ \A fd \in DOMAIN Erase(sockfd) : Erase(sockfd)[fd] = connections[fd]
  BY DEF Erase, Restrict
<1>2. Range(Erase(sockfd)) \subseteq Range(connections)
  BY <1>1 DEF Range
<1>3. QED
  BY <1>1, <1>2 DEF TypeOK

LEMMA ConnType ==
    ASSUME TypeOK
    PROVE  /\ conns \in Seq(Conns)
           /\ \A c \in ConnIds : /\ conns[c] \in Conns /\ conns[c].fd \in Fds
                                 /\ conns[c].loop \in IoLoops /\ conns[c].loop \in Loops
                                 /\ c \in Nat
<1>1. conns \in Seq(Conns)
  BY DEF TypeOK, Conns
<1>2. ASSUME NEW c \in ConnIds PROVE conns[c] \in Conns /\ c \in Nat
  BY <1>1 DEF ConnIds
<1>3. \A c \in Conns : c.fd \in Fds /\ c.loop \in IoLoops
  BY DEF Conns
<1>4. QED
  BY <1>1, <1>2, <1>3, Indices

\* One connection more, as number Len(conns) + 1.
LEMMA NewConn ==
    ASSUME TypeOK, NEW conn \in Conns, conns' = Append(conns, conn)
    PROVE  /\ Len(conns) + 1 \in ConnIds' /\ Len(conns) + 1 \notin ConnIds
           /\ Len(conns) + 1 \in Nat
           /\ ConnIds' = ConnIds \cup {Len(conns) + 1}
           /\ \A c \in ConnIds : conns'[c] = conns[c]
           /\ conns'[Len(conns) + 1] = conn
           /\ conns' \in Seq(Conns)
<1>1. conns \in Seq(Conns)
  BY DEF TypeOK, Conns
<1>2. QED
  BY <1>1 DEF ConnIds

\* One connection changes its state and the index of its channel.
LEMMA ConnChange ==
    ASSUME TypeOK, NEW c \in ConnIds,
           NEW state \in {"kConnecting", "kConnected", "kDisconnected"},
           NEW index \in {"kNew", "kAdded", "kDeleted"},
           conns' = [conns EXCEPT ![c].state = state, ![c].index = index]
    PROVE  /\ ConnIds' = ConnIds
           /\ conns' \in Seq(Conns)
           /\ \A d \in ConnIds : d # c => conns'[d] = conns[d]
           /\ conns'[c].state = state /\ conns'[c].index = index
           /\ conns'[c].fd = conns[c].fd /\ conns'[c].loop = conns[c].loop
<1>1. conns \in Seq(Conns)
  BY DEF TypeOK, Conns
<1>2. conns[c] \in Conns /\ c \in 1 .. Len(conns)
  BY <1>1 DEF ConnIds
<1> DEFINE conn == [conns[c] EXCEPT !.state = state, !.index = index]
<1>3. /\ conn \in Conns /\ conn.state = state /\ conn.index = index
      /\ conn.fd = conns[c].fd /\ conn.loop = conns[c].loop
  BY <1>2 DEF Conns
<1>4. conns' = [conns EXCEPT ![c] = conn]
  BY <1>1, <1>2 DEF Conns
<1> HIDE DEF conn
<1>5. LET t == [conns EXCEPT ![c] = conn]
      IN  /\ t \in Seq(Conns) /\ DOMAIN t = DOMAIN conns
          /\ t[c] = conn /\ \A d \in DOMAIN conns : d # c => t[d] = conns[d]
  <2>1. conn \in Conns
    BY <1>3
  <2>2. QED
    BY <1>1, <1>2, <2>1, SeqChange
<1>6. QED
  BY <1>3, <1>4, <1>5 DEF ConnIds

LEMMA WithConnectionTypes ==
    ASSUME NEW sockfd, NEW c
    PROVE  LET m == WithConnection(sockfd, c)
           IN  /\ DOMAIN m = DOMAIN connections \cup {sockfd}
               /\ m[sockfd] = c
               /\ \A fd \in DOMAIN connections : fd # sockfd => m[fd] = connections[fd]
               /\ Range(m) \subseteq Range(connections) \cup {c}
  BY DEF WithConnection, Range

LEMMA TypeStep == TypeOK /\ Shutdown /\ [Next]_vars => TypeOK'
<1> SUFFICES ASSUME TypeOK, Shutdown, [Next]_vars PROVE TypeOK'
  OBVIOUS
<1> USE DEF mainVars, connectorVars, clientVars, executorVars
<1>a. /\ toConnect \in 0 .. NumSocks /\ Base \in Loops /\ IoLoops \subseteq Loops
      /\ closing \in 0 .. NumLoops + 1
  BY Indices DEF TypeOK
<1>b. conns' = conns => ConnIds' = ConnIds
  BY DEF ConnIds
<1>1. CASE ConnectStarts \/ ConnectFails
  <2>1. toConnect' \in 0 .. NumSocks
    BY <1>1, <1>a, Indices DEF ConnectStarts, ConnectFails, BeginConnect
  <2>2. /\ connecting' \subseteq Fds /\ baseChannels' \subseteq Fds /\ lost' \in Nat
    BY <1>1 DEF ConnectStarts, ConnectFails, BeginConnect, TypeOK
  <2>3. UNCHANGED <<mainPc, closing, quit, running, connections, conns, nextLoop,
                    queue, batch, spent>>
    BY <1>1 DEF ConnectStarts, ConnectFails, BeginConnect
  <2>4. QED
    BY <1>b, <2>1, <2>2, <2>3 DEF TypeOK
<1>2. ASSUME NEW sockfd \in connecting, HandleConnected(sockfd) PROVE TypeOK'
  <2> DEFINE c == Len(conns) + 1
             conn == [fd |-> sockfd, loop |-> nextLoop,
                      state |-> "kConnecting", index |-> "kNew"]
  <2>1. conn \in Conns /\ sockfd \in Fds /\ nextLoop \in IoLoops
    BY DEF TypeOK, Conns
  <2>2. conns' = Append(conns, conn)
    BY <1>2 DEF HandleConnected
  <2>3. /\ c \in ConnIds' /\ c \in Nat /\ ConnIds' = ConnIds \cup {c}
        /\ conns' \in Seq(Conns)
    BY <2>1, <2>2, NewConn
  <2>4. Functor("connectEstablished", c) \in Functors
    BY <2>3 DEF Functor, Functors
  <2>5. queue' \in [Loops -> Seq(Functors)]
    BY <1>2, <1>a, <2>1, <2>4, PostTypes DEF HandleConnected
  <2>6. connections' = WithConnection(sockfd, c)
    BY <1>2 DEF HandleConnected
  <2>7. DOMAIN connections' \subseteq Fds /\ Range(connections') \subseteq ConnIds'
    <3>1. LET m == WithConnection(sockfd, c)
          IN  /\ DOMAIN m = DOMAIN connections \cup {sockfd}
              /\ Range(m) \subseteq Range(connections) \cup {c}
      BY WithConnectionTypes
    <3> HIDE DEF c
    <3>2. QED
      BY <2>1, <2>3, <2>6, <3>1 DEF TypeOK
  <2>8. nextLoop' \in IoLoops
    BY <1>2, Indices DEF HandleConnected, NextLoop, TypeOK, IoLoops
  <2>9. /\ UNCHANGED <<mainPc, closing, quit, running, toConnect, lost, batch, spent>>
        /\ connecting' \subseteq Fds /\ baseChannels' \subseteq Fds
    BY <1>2 DEF HandleConnected, TypeOK
  <2>10. spent' \in [Loops -> SUBSET ConnIds']
    BY <2>3, <2>9 DEF TypeOK
  <2> HIDE DEF c, conn
  <2>11. QED
    BY <2>3, <2>5, <2>7, <2>8, <2>9, <2>10 DEF TypeOK, Conns
<1>3. ASSUME NEW sockfd \in connecting, HandleConnectError(sockfd) PROVE TypeOK'
  BY <1>b, <1>3 DEF HandleConnectError, TypeOK
<1>4. ASSUME NEW l \in Loops, SwapFunctors(l) \/ EndPendingFunctors(l) PROVE TypeOK'
  <2>1. CASE SwapFunctors(l)
    <3>1. queue' \in [Loops -> Seq(Functors)] /\ batch' \in [Loops -> Seq(Functors)]
      BY <2>1 DEF SwapFunctors, TypeOK
    <3>2. UNCHANGED <<mainVars, connectorVars, clientVars, spent>>
      BY <2>1 DEF SwapFunctors
    <3>3. QED
      BY <1>b, <3>1, <3>2 DEF TypeOK
  <2>2. CASE EndPendingFunctors(l)
    BY <1>b, <2>2 DEF EndPendingFunctors, TypeOK
  <2>3. QED
    BY <1>4, <2>1, <2>2
<1>5. ASSUME NEW l \in IoLoops, NEW c \in ConnIds,
             ConnectEstablished(l, c) \/ ConnectDestroyed(l, c)
      PROVE  TypeOK'
  <2>1. /\ batch' \in [Loops -> Seq(Functors)]
        /\ spent' \in [Loops -> SUBSET ConnIds]
    BY <1>5, <1>a, RunFunctorTypes DEF ConnectEstablished, ConnectDestroyed
  <2>2. PICK state \in {"kConnecting", "kConnected", "kDisconnected"},
             index \in {"kNew", "kAdded", "kDeleted"} :
          conns' = [conns EXCEPT ![c].state = state, ![c].index = index]
    <3>1. CASE ConnectEstablished(l, c)
      BY <3>1 DEF ConnectEstablished, IndexAfterUpdate
    <3>2. CASE ConnectDestroyed(l, c)
      <4>1. conns \in Seq(Conns)
        BY DEF TypeOK, Conns
      <4>2. conns[c] \in Conns
        BY <4>1 DEF ConnIds
      <4> DEFINE state == IF conns[c].state = "kConnected" THEN "kDisconnected"
                                                          ELSE conns[c].state
      <4>3. state \in {"kConnecting", "kConnected", "kDisconnected"}
        BY <4>2 DEF Conns
      <4>4. conns' = [conns EXCEPT ![c].state = state, ![c].index = "kNew"]
        BY <3>2 DEF ConnectDestroyed, IndexAfterRemove
      <4>5. QED
        BY <4>3, <4>4
    <3>3. QED
      BY <1>5, <3>1, <3>2
  <2>3. conns' \in Seq(Conns) /\ ConnIds' = ConnIds
    BY <2>2, ConnChange
  <2>4. UNCHANGED <<mainPc, closing, quit, running, toConnect, connecting,
                    baseChannels, lost, connections, nextLoop, queue>>
    BY <1>5 DEF ConnectEstablished, ConnectDestroyed
  <2>5. QED
    BY <2>1, <2>3, <2>4 DEF TypeOK, Conns
<1>6. ASSUME NEW c \in ConnIds, RemoveConnectionInLoop(c) PROVE TypeOK'
  <2>1. /\ batch' \in [Loops -> Seq(Functors)]
        /\ spent' \in [Loops -> SUBSET ConnIds]
    BY <1>6, <1>a, RunFunctorTypes DEF RemoveConnectionInLoop
  <2>2. conns[c].loop \in Loops
    BY ConnType
  <2>3. queue' \in [Loops -> Seq(Functors)]
    BY <1>6, <2>2, FunctorType, PostTypes DEF RemoveConnectionInLoop
  <2>4. DOMAIN connections' \subseteq Fds /\ Range(connections') \subseteq ConnIds
    BY <1>6, EraseTypes DEF RemoveConnectionInLoop, TypeOK
  <2>5. toConnect' \in 0 .. NumSocks
    BY <1>6, Indices DEF RemoveConnectionInLoop, Reconnects
  <2>6. UNCHANGED <<mainPc, closing, quit, running, connecting,
                    baseChannels, lost, conns, nextLoop>>
    BY <1>6 DEF RemoveConnectionInLoop
  <2>7. QED
    BY <1>b, <2>1, <2>3, <2>4, <2>5, <2>6 DEF TypeOK
<1>7. ASSUME NEW c \in ConnIds, HandleClose(c) PROVE TypeOK'
  <2>1. conns' = [conns EXCEPT ![c].state = "kDisconnected", ![c].index = "kDeleted"]
    BY <1>7 DEF HandleClose, IndexAfterUpdate
  <2>2. conns' \in Seq(Conns) /\ ConnIds' = ConnIds
    BY <2>1, ConnChange
  <2>3. queue' \in [Loops -> Seq(Functors)]
    BY <1>7, <1>a, FunctorType, PostTypes DEF HandleClose
  <2>4. UNCHANGED <<mainPc, closing, quit, running, toConnect, connecting,
                    baseChannels, lost, connections, nextLoop, batch, spent>>
    BY <1>7 DEF HandleClose
  <2>5. QED
    BY <2>2, <2>3, <2>4 DEF TypeOK, Conns
<1>8. CASE DestroyConnection
  <2>1. PICK sockfd \in DOMAIN connections :
          /\ queue' = Post(conns[connections[sockfd]].loop,
                           Functor("connectDestroyed", connections[sockfd]))
          /\ connections' = Erase(sockfd)
    BY <1>8 DEF DestroyConnection
  <2>2. connections[sockfd] \in ConnIds
    BY DEF TypeOK, Range
  <2>3. conns[connections[sockfd]].loop \in Loops
    BY <2>2, ConnType
  <2>4. queue' \in [Loops -> Seq(Functors)]
    BY <2>1, <2>2, <2>3, FunctorType, PostTypes
  <2>5. DOMAIN connections' \subseteq Fds /\ Range(connections') \subseteq ConnIds
    BY <2>1, EraseTypes DEF TypeOK
  <2>6. UNCHANGED <<mainPc, closing, quit, running, connectorVars, conns, nextLoop,
                    batch, spent>>
    BY <1>8 DEF DestroyConnection
  <2>7. QED
    BY <1>b, <2>4, <2>5, <2>6 DEF TypeOK
<1>9. ASSUME NEW l \in IoLoops, IoLoopReturns(l) PROVE TypeOK'
  BY <1>b, <1>9, <1>a DEF IoLoopReturns, TypeOK
<1>10. CASE \/ EnterLoop \/ TimerQuits \/ LoopReturns \/ DestroyPool \/ QuitThread
            \/ WakeThread \/ JoinThread \/ PoolDestroyed
  <2>1. closing' \in 0 .. NumLoops + 1
    BY <1>10, <1>a, Indices
       DEF EnterLoop, TimerQuits, LoopReturns, DestroyPool, QuitThread,
           WakeThread, JoinThread, PoolDestroyed, Shutdown, IoLoops
  <2>2. quit' \in [Loops -> BOOLEAN]
    BY <1>10, <1>a
       DEF EnterLoop, TimerQuits, LoopReturns, DestroyPool, QuitThread, QuitStore,
           WakeThread, JoinThread, PoolDestroyed, TypeOK
  <2>3. mainPc' \in {"start", "loop", "~Client", "quitThread", "wakeThread",
                     "joinThread", "~EventLoop", "returned", "aborted"}
    BY <1>10
       DEF EnterLoop, TimerQuits, LoopReturns, DestroyPool, QuitThread,
           WakeThread, JoinThread, PoolDestroyed, TypeOK
  <2>4. UNCHANGED <<running, connectorVars, clientVars, executorVars>>
    BY <1>10
       DEF EnterLoop, TimerQuits, LoopReturns, DestroyPool, QuitThread,
           WakeThread, JoinThread, PoolDestroyed
  <2>5. QED
    BY <1>b, <2>1, <2>2, <2>3, <2>4 DEF TypeOK
<1>11. CASE DestroyBaseLoop
  BY <1>b, <1>11, <1>a DEF DestroyBaseLoop, TypeOK
<1>12. CASE UNCHANGED vars
  BY <1>b, <1>12 DEF vars, TypeOK
<1>13. QED
  BY <1>a, <1>1, <1>2, <1>3, <1>4, <1>5, <1>6, <1>7, <1>8, <1>9, <1>10, <1>11, <1>12
     DEF Next, MainProgress, IoProgress, Network

\* The loops of the threads run, and are not told to quit, until ~Client() has
\* let go of the connections.
LEMMA ShutdownStep == TypeOK /\ Shutdown /\ [Next]_vars => Shutdown'
<1> SUFFICES ASSUME TypeOK, Shutdown, [Next]_vars PROVE Shutdown'
  OBVIOUS
<1> USE DEF mainVars, connectorVars, clientVars, executorVars
<1>a. Base \in Loops /\ Base \notin IoLoops /\ IoLoops \subseteq Loops
  BY Indices
<1>b. batch \in [Loops -> Seq(Functors)] /\ quit \in [Loops -> BOOLEAN]
  BY DEF TypeOK
<1>1. CASE UNCHANGED mainVars /\ UNCHANGED batch
  BY <1>1 DEF Shutdown
<1>2. ASSUME NEW l \in Loops, UNCHANGED mainVars, InLoop(l),
             \A k \in Loops : k # l => batch'[k] = batch[k]
      PROVE  Shutdown'
  BY <1>2, <1>a DEF Shutdown, InLoop
<1>3. ASSUME NEW l \in Loops, SwapFunctors(l) PROVE Shutdown'
  BY <1>2, <1>3, <1>b DEF SwapFunctors, Dispatching
<1>4. ASSUME NEW l \in Loops, NEW call, NEW c, RunFunctor(l, call, c), UNCHANGED mainVars
      PROVE  Shutdown'
  BY <1>2, <1>4, <1>b DEF RunFunctor
<1>5. ASSUME NEW l \in IoLoops, IoLoopReturns(l) PROVE Shutdown'
  <2>1. mainPc \notin {"start", "loop", "~Client"} /\ batch[l] = <<>>
    BY <1>5 DEF IoLoopReturns, Dispatching, BetweenBatches, Shutdown
  <2>2. UNCHANGED <<mainPc, closing, batch>> /\ running' = running \ {l}
    BY <1>5 DEF IoLoopReturns
  <2>3. QED
    BY <2>1, <2>2 DEF Shutdown
<1>6. CASE \/ EnterLoop \/ LoopReturns \/ DestroyPool \/ WakeThread \/ PoolDestroyed
  <2>1. CASE EnterLoop
    BY <2>1 DEF EnterLoop, Shutdown
  <2>2. CASE LoopReturns
    BY <2>2 DEF LoopReturns, Shutdown, Dispatching, InLoop
  <2>3. CASE DestroyPool
    <3>1. 1 \in 1 .. NumLoops + 1
      BY Indices
    <3>2. QED
      BY <2>3, <3>1 DEF DestroyPool, Shutdown
  <2>4. CASE WakeThread
    BY <2>4 DEF WakeThread, Shutdown
  <2>5. CASE PoolDestroyed
    BY <2>5 DEF PoolDestroyed, Shutdown
  <2>6. QED
    BY <1>6, <2>1, <2>2, <2>3, <2>4, <2>5
<1>7. CASE TimerQuits
  BY <1>7, <1>a, <1>b DEF TimerQuits, Shutdown
<1>8. CASE QuitThread
  BY <1>8 DEF QuitThread, Shutdown
<1>9. CASE JoinThread
  <2>1. closing \in IoLoops /\ closing' = closing + 1 /\ mainPc' = "quitThread"
        /\ UNCHANGED <<quit, running, batch>>
    BY <1>9 DEF JoinThread, Shutdown
  <2>2. closing' \in 1 .. NumLoops + 1
    BY <2>1, Indices DEF IoLoops
  <2>3. QED
    BY <2>1, <2>2 DEF Shutdown
<1>10. CASE DestroyBaseLoop
  BY <1>10 DEF DestroyBaseLoop, Shutdown
<1>11. CASE UNCHANGED vars
  BY <1>1, <1>11 DEF vars
<1>12. CASE DestroyConnection
  BY <1>1, <1>12 DEF DestroyConnection
<1>13. CASE ConnectStarts \/ ConnectFails
  BY <1>1, <1>13 DEF ConnectStarts, ConnectFails, BeginConnect
<1>14. ASSUME NEW sockfd, HandleConnected(sockfd) \/ HandleConnectError(sockfd)
       PROVE  Shutdown'
  BY <1>1, <1>14 DEF HandleConnected, HandleConnectError
<1>15. ASSUME NEW c, HandleClose(c) PROVE Shutdown'
  BY <1>1, <1>15 DEF HandleClose
<1>16. ASSUME NEW l \in Loops, EndPendingFunctors(l) PROVE Shutdown'
  BY <1>1, <1>16 DEF EndPendingFunctors
<1>17. ASSUME NEW l \in IoLoops, NEW c, ConnectEstablished(l, c) \/ ConnectDestroyed(l, c)
       PROVE  Shutdown'
  BY <1>4, <1>17, <1>a DEF ConnectEstablished, ConnectDestroyed
<1>18. ASSUME NEW c, RemoveConnectionInLoop(c) PROVE Shutdown'
  BY <1>4, <1>18, <1>a DEF RemoveConnectionInLoop
<1>19. QED
  BY <1>a, <1>3, <1>5, <1>6, <1>7, <1>8, <1>9, <1>10, <1>11, <1>12, <1>13, <1>14,
     <1>15, <1>16, <1>17, <1>18
     DEF Next, MainProgress, IoProgress, Network

\* The variables of the pool keep their types for any number of clients and
\* loops: getNextLoop() stays inside the vector of loops, connections_ names
\* connections that exist, and ~EventLoopThreadPool() stays in its threads_.
THEOREM TypeCorrect == Spec => []TypeOK
  BY TypeInit, TypeStep, ShutdownStep, PTL DEF Spec

-------------------------------------------------------------------------------
(* What the steps do to the queues.                                        *)

LEMMA Calls ==
    \A c : /\ Established(c).call = "connectEstablished" /\ Established(c).conn = c
           /\ Destroyed(c).call = "connectDestroyed" /\ Destroyed(c).conn = c
           /\ Removal(c).call = "removeConnectionInLoop" /\ Removal(c).conn = c
  BY DEF Established, Destroyed, Removal, Functor

LEMMA QueueType ==
    ASSUME TypeOK
    PROVE  /\ Queue \in [Loops -> Seq(Functors)]
           /\ \A l \in Loops : Queue[l] = batch[l] \o queue[l] /\ Posted[l] = ToSet(Queue[l])
           /\ Posted = [l \in Loops |-> Posted[l]]
  BY DEF TypeOK, Queue, Posted, Pending

\* Posting a functor appends it to the queue of the loop.
LEMMA PostEffect ==
    ASSUME TypeOK, NEW l \in Loops, NEW f \in Functors,
           queue' = Post(l, f), batch' = batch
    PROVE  Queue' = [Queue EXCEPT ![l] = Append(@, f)]
<1>1. ASSUME NEW k \in Loops PROVE queue[k] \in Seq(Functors) /\ batch[k] \in Seq(Functors)
  BY DEF TypeOK
<1>2. ASSUME NEW k \in Loops
      PROVE  Queue'[k] = IF k = l THEN Append(Queue[k], f) ELSE Queue[k]
  <2>1. Queue'[k] = batch[k] \o queue'[k] /\ Queue[k] = batch[k] \o queue[k]
    BY DEF Queue, Pending
  <2>2. CASE k = l
    <3>1. queue'[k] = Append(queue[k], f)
      BY <2>2 DEF Post, TypeOK
    <3>2. batch[l] \o Append(queue[l], f) = Append(batch[l] \o queue[l], f)
      <4>1. ASSUME NEW b \in Seq(Functors), NEW q \in Seq(Functors)
            PROVE  b \o Append(q, f) = Append(b \o q, f)
        BY ConcatAppend
      <4>2. queue[l] \in Seq(Functors) /\ batch[l] \in Seq(Functors)
        BY <1>1
      <4>3. QED
        BY <4>1, <4>2
    <3>3. QED
      BY <2>1, <2>2, <3>1, <3>2
  <2>3. CASE k # l
    BY <2>1, <2>3 DEF Post, TypeOK
  <2>4. QED
    BY <2>2, <2>3
<1>3. QED
  BY <1>2, QueueType DEF Queue

\* A functor that runs is the first of the queue of the loop.
LEMMA RunEffect ==
    ASSUME TypeOK, NEW l \in Loops, NEW call, NEW c, RunFunctor(l, call, c)
    PROVE  /\ Queue[l] # <<>> /\ Head(Queue[l]) = Functor(call, c)
           /\ \A k \in Loops : batch'[k] \o queue[k] = IF k = l THEN Tail(Queue[k]) ELSE Queue[k]
<1>1. ASSUME NEW k \in Loops PROVE queue[k] \in Seq(Functors) /\ batch[k] \in Seq(Functors)
  BY DEF TypeOK
<1>2. /\ batch[l] # <<>> /\ Head(batch[l]) = Functor(call, c)
      /\ batch'[l] = Tail(batch[l])
      /\ \A k \in Loops : k # l => batch'[k] = batch[k]
  BY DEF RunFunctor, TypeOK
<1>3. \A k \in Loops : Queue[k] = batch[k] \o queue[k]
  BY DEF Queue, Pending
<1>4. /\ batch[l] \o queue[l] # <<>>
      /\ Head(batch[l] \o queue[l]) = Head(batch[l])
      /\ Tail(batch[l] \o queue[l]) = Tail(batch[l]) \o queue[l]
  BY <1>1, <1>2, ConcatTail
<1>5. QED
  BY <1>2, <1>3, <1>4

\* What is appended becomes pending, in order.
LEMMA PostedAfterPost ==
    ASSUME TypeOK, NEW l \in Loops, NEW f \in Functors,
           Orderly(Queue[l]), f \notin Posted[l],
           f.call = "connectEstablished" => \A g \in Posted[l] : g.conn # f.conn,
           Queue' = [Queue EXCEPT ![l] = Append(@, f)]
    PROVE  /\ \A k \in Loops : k # l => Queue'[k] = Queue[k]
           /\ Orderly(Queue'[l])
           /\ \A k \in Loops : Posted'[k] = IF k = l THEN Posted[k] \cup {f} ELSE Posted[k]
<1>1. /\ Queue[l] \in Seq(Functors) /\ Queue'[l] = Append(Queue[l], f)
      /\ \A k \in Loops : k # l => Queue'[k] = Queue[k]
      /\ Posted[l] = ToSet(Queue[l])
  BY QueueType
<1>2. /\ Orderly(Append(Queue[l], f))
      /\ ToSet(Append(Queue[l], f)) = ToSet(Queue[l]) \cup {f}
  BY <1>1, OrderlyAppend
<1>3. \A k \in Loops : Posted'[k] = ToSet(Queue'[k]) /\ Posted[k] = ToSet(Queue[k])
  BY DEF Posted
<1>4. ASSUME NEW k \in Loops
      PROVE  Posted'[k] = IF k = l THEN Posted[k] \cup {f} ELSE Posted[k]
  <2>1. CASE k = l
    BY <1>1, <1>2, <1>3, <2>1
  <2>2. CASE k # l
    BY <1>1, <1>3, <2>2
  <2>3. QED
    BY <2>1, <2>2
<1>5. QED
  BY <1>1, <1>2, <1>4

\* The other loops do not see what is appended to the queue of one.
LEMMA PostedElsewhere ==
    ASSUME TypeOK, NEW l \in Loops, NEW f, Queue' = [Queue EXCEPT ![l] = Append(@, f)]
    PROVE  \A k \in Loops : k # l => Queue'[k] = Queue[k] /\ Posted'[k] = Posted[k]
  BY QueueType DEF Posted

\* What runs is no longer pending.
LEMMA PostedAfterRun ==
    ASSUME TypeOK, NEW l \in Loops, NEW f,
           Orderly(Queue[l]), Queue[l] # <<>>, Head(Queue[l]) = f,
           \A k \in Loops : Queue'[k] = IF k = l THEN Tail(Queue[k]) ELSE Queue[k]
    PROVE  /\ Orderly(Queue'[l])
           /\ f \in Posted[l]
           /\ \A k \in Loops : Posted'[k] = IF k = l THEN Posted[k] \ {f} ELSE Posted[k]
           /\ f.call = "connectDestroyed" =>
                \A g \in Posted[l] : g.call = "connectEstablished" => g.conn # f.conn
<1>1. Queue[l] \in Seq(Functors) /\ Queue'[l] = Tail(Queue[l])
  BY QueueType
<1>2. /\ Orderly(Tail(Queue[l]))
      /\ ToSet(Tail(Queue[l])) = ToSet(Queue[l]) \ {f}
      /\ f \in ToSet(Queue[l])
      /\ f.call = "connectDestroyed" =>
           \A g \in ToSet(Queue[l]) : g.call = "connectEstablished" => g.conn # f.conn
  BY <1>1, OrderlyTail
<1>3. \A k \in Loops : Posted'[k] = ToSet(Queue'[k]) /\ Posted[k] = ToSet(Queue[k])
  BY DEF Posted
<1>4. QED
  BY <1>1, <1>2, <1>3

\* A step that leaves connections and queues alone keeps what is said of them.
LEMMA Frame ==
    ASSUME TypeOK, ConnInv, UNCHANGED <<conns, connections, running>>,
           \A l \in IoLoops : Queue'[l] = Queue[l],
           MainRuns' => MainRuns /\ Queue'[Base] = Queue[Base]
    PROVE  ConnInv'
<1>1. \A l \in IoLoops : Posted'[l] = Posted[l]
  BY Indices DEF Posted
<1>2. MainRuns' => Posted'[Base] = Posted[Base]
  BY Indices DEF Posted
<1>3. /\ ConnIds' = ConnIds
      /\ \A c : /\ New(c)' <=> New(c)
                /\ Up(c)' <=> Up(c)
                /\ Closed(c)' <=> Closed(c)
                /\ TornDown(c)' <=> TornDown(c)
                /\ Mapped(c)' <=> Mapped(c)
  BY DEF ConnIds, New, Up, Closed, TornDown, Mapped
<1>4. Stages'
  BY <1>3 DEF ConnInv, Stages
<1>5. Addressed'
  BY <1>1, <1>2, <1>3 DEF ConnInv, Addressed
<1>6. Queues'
  BY DEF ConnInv, Queues
<1>7. Lives'
  <2>1. \A c \in ConnIds : conns[c].loop \in IoLoops
    BY ConnType
  <2>2. QED
    BY <1>1, <1>3, <2>1 DEF ConnInv, Lives
<1>8. Held'
  <2>1. \A c \in ConnIds : conns[c].loop \in IoLoops
    BY ConnType
  <2>2. QED
    BY <1>1, <1>2, <1>3, <2>1 DEF ConnInv, Held
<1>9. Entries' /\ Descriptors'
  BY <1>3 DEF ConnInv, Entries, Descriptors
<1>10. QED
  BY <1>4, <1>5, <1>6, <1>7, <1>8, <1>9 DEF ConnInv

-------------------------------------------------------------------------------
(* The steps that change connections or queues.                            *)

\* A new connection: its number and its descriptor are nobody else's.
LEMMA HandleConnectedKeeps ==
    ASSUME IInv, NEW sockfd \in connecting, HandleConnected(sockfd)
    PROVE  ConnInv' /\ Unused'
<1>a. TypeOK /\ ConnInv /\ Unused /\ MainRuns
  BY DEF IInv, HandleConnected, Dispatching, InLoop, MainRuns
<1>k. PICK c \in Nat : c = Len(conns) + 1
  BY <1>a, ConnType
<1>m. PICK l \in IoLoops : l = nextLoop
  BY <1>a DEF TypeOK
<1> DEFINE conn == [fd |-> sockfd, loop |-> l,
                    state |-> "kConnecting", index |-> "kNew"]
           f == Established(c)
<1>b. conn \in Conns /\ sockfd \in Fds /\ l \in IoLoops /\ l \in Loops /\ l # Base
  BY <1>a, Indices DEF TypeOK, Conns
<1>c. conns' = Append(conns, conn)
  BY <1>m DEF HandleConnected
<1>d. /\ c \in ConnIds' /\ c \notin ConnIds /\ c \in Nat /\ ConnIds' = ConnIds \cup {c}
      /\ \A d \in ConnIds : conns'[d] = conns[d]
      /\ conns'[c] = conn
  BY <1>a, <1>b, <1>c, <1>k, NewConn
<1>e. /\ DOMAIN connections' = DOMAIN connections \cup {sockfd}
      /\ connections'[sockfd] = c
      /\ \A fd \in DOMAIN connections : fd # sockfd => connections'[fd] = connections[fd]
  <2>1. connections' = WithConnection(sockfd, c)
    BY <1>k DEF HandleConnected
  <2>2. LET m == WithConnection(sockfd, c)
        IN  /\ DOMAIN m = DOMAIN connections \cup {sockfd}
            /\ m[sockfd] = c
            /\ \A fd \in DOMAIN connections : fd # sockfd => m[fd] = connections[fd]
    BY DEF WithConnection
  <2>3. QED
    BY <2>1, <2>2
<1>f. f \in Functors /\ queue' = Post(l, f) /\ batch' = batch /\ UNCHANGED mainVars
  BY <1>d, <1>k, <1>m DEF HandleConnected, Established, Functor, Functors
<1>g. /\ conn.fd = sockfd /\ conn.loop = l
      /\ conn.state = "kConnecting" /\ conn.index = "kNew"
  OBVIOUS
<1>h. f.call = "connectEstablished" /\ f.conn = c
  BY Calls
<1>i. \A d \in ConnIds : conns[d].loop \in IoLoops /\ conns[d].loop \in Loops
  BY <1>a, ConnType
<1>x. connecting' = connecting \ {sockfd}
  BY DEF HandleConnected
<1> HIDE DEF conn, f
<1>1. \A g \in Posted[l] : g.conn # c
  BY <1>a, <1>b, <1>d DEF ConnInv, Addressed
<1>2. Queue' = [Queue EXCEPT ![l] = Append(@, f)]
  BY <1>a, <1>b, <1>f, PostEffect
<1>3. /\ \A k \in Loops : k # l => Queue'[k] = Queue[k]
      /\ Orderly(Queue'[l])
      /\ \A k \in Loops : Posted'[k] = IF k = l THEN Posted[k] \cup {f} ELSE Posted[k]
  <2>1. Orderly(Queue[l]) /\ f \notin Posted[l]
    BY <1>a, <1>b, <1>h, <1>1 DEF ConnInv, Queues
  <2>2. QED
    BY <1>a, <1>b, <1>f, <1>h, <1>1, <1>2, <2>1, PostedAfterPost
<1>4. /\ New(c)' /\ ~Up(c)' /\ ~Closed(c)' /\ ~TornDown(c)' /\ Mapped(c)'
      /\ conns'[c].fd = sockfd /\ conns'[c].loop = l
  BY <1>d, <1>e, <1>g DEF New, Up, Closed, TornDown, Mapped
<1>5. \A d \in ConnIds : conns[d].fd = sockfd => TornDown(d)
  BY <1>a DEF Unused
<1>6. ASSUME NEW d \in ConnIds
      PROVE  /\ New(d)' <=> New(d)
             /\ Up(d)' <=> Up(d)
             /\ Closed(d)' <=> Closed(d)
             /\ TornDown(d)' <=> TornDown(d)
             /\ Mapped(d)' <=> Mapped(d)
             /\ d # c
  <2>1. Mapped(d) => Mapped(d)'
    <3>1. ASSUME NEW fd \in DOMAIN connections, connections[fd] = d PROVE fd # sockfd
      <4>1. conns[d].fd = fd /\ Mapped(d)
        BY <1>a, <3>1 DEF ConnInv, Entries, Mapped
      <4>2. ~TornDown(d)
        BY <1>a, <4>1 DEF ConnInv, Lives
      <4>3. QED
        BY <1>5, <4>1, <4>2
    <3>2. QED
      BY <1>e, <3>1 DEF Mapped
  <2>2. Mapped(d)' => Mapped(d)
    BY <1>d, <1>e DEF Mapped
  <2>3. QED
    BY <1>d, <2>1, <2>2 DEF New, Up, Closed, TornDown
<1>7. Stages'
  BY <1>a, <1>d, <1>4, <1>6 DEF ConnInv, Stages
<1>8. Addressed'
  <2>1. ASSUME NEW k \in IoLoops, NEW g \in Posted'[k]
        PROVE  /\ g.conn \in ConnIds' /\ conns'[g.conn].loop = k
               /\ g.call \in {"connectEstablished", "connectDestroyed"}
    <3>1. CASE g \in Posted[k]
      BY <1>a, <1>d, <3>1 DEF ConnInv, Addressed
    <3>2. CASE g = f /\ k = l
      BY <1>d, <1>h, <1>4, <3>2
    <3>3. QED
      BY <1>3, <2>1, <3>1, <3>2, Indices
  <2>2. Posted'[Base] = Posted[Base]
    BY <1>3, <1>b, Indices
  <2>3. QED
    BY <1>a, <1>d, <2>1, <2>2 DEF ConnInv, Addressed
<1>9. Queues'
  BY <1>a, <1>b, <1>3, Indices DEF ConnInv, Queues
<1>10. Lives'
  <2> SUFFICES ASSUME NEW d \in ConnIds'
               PROVE  /\ Established(d) \in Posted'[conns'[d].loop] => New(d)'
                      /\ New(d)' /\ conns'[d].loop \in running' =>
                           Established(d) \in Posted'[conns'[d].loop]
                      /\ TornDown(d)' \/ Mapped(d)' =>
                           Destroyed(d) \notin Posted'[conns'[d].loop]
                      /\ TornDown(d)' => ~Mapped(d)'
    BY DEF Lives
  <2>1. CASE d = c
    <3>1. Destroyed(c) \notin Posted'[l]
      <4>1. Destroyed(c).conn = c /\ Destroyed(c).call = "connectDestroyed"
        BY Calls
      <4>2. Destroyed(c) # f /\ Destroyed(c) \notin Posted[l]
        BY <1>h, <1>1, <4>1
      <4>3. QED
        BY <1>b, <1>3, <4>2
    <3>2. Established(c) \in Posted'[l]
      BY <1>b, <1>3 DEF f
    <3>3. QED
      BY <1>4, <2>1, <3>1, <3>2
  <2>2. CASE d \in ConnIds
    <3>1. Established(d) # f /\ Destroyed(d) # f
      BY <1>6, <1>h, <2>2, Calls
    <3>2. /\ Established(d) \in Posted'[conns'[d].loop]
               <=> Established(d) \in Posted[conns[d].loop]
          /\ Destroyed(d) \in Posted'[conns'[d].loop]
               <=> Destroyed(d) \in Posted[conns[d].loop]
          /\ conns'[d].loop = conns[d].loop
      <4>1. conns'[d] = conns[d] /\ conns[d].loop \in Loops
        BY <1>d, <1>i, <2>2
      <4>2. \A k \in Loops : \A g : g # f => (g \in Posted'[k] <=> g \in Posted[k])
        BY <1>3
      <4>3. QED
        BY <3>1, <4>1, <4>2
    <3>3. running' = running
      BY <1>f DEF mainVars
    <3>4. QED
      BY <1>a, <1>6, <2>2, <3>2, <3>3 DEF ConnInv, Lives
  <2>3. QED
    BY <1>d, <2>1, <2>2
<1>11. Held'
  <2>1. Posted'[Base] = Posted[Base]
    BY <1>3, <1>b, Indices
  <2> SUFFICES ASSUME NEW d \in ConnIds'
               PROVE  /\ \/ TornDown(d)'
                         \/ Mapped(d)'
                         \/ Closed(d)' /\ Destroyed(d) \in Posted'[conns'[d].loop]
                      /\ Removal(d) \in Posted'[Base] => Closed(d)' /\ Mapped(d)'
    BY DEF Held
  <2>2. CASE d = c
    <3>1. Removal(c) \notin Posted[Base]
      BY <1>a, <1>d, Calls DEF ConnInv, Addressed
    <3>2. QED
      BY <1>4, <2>1, <2>2, <3>1
  <2>3. CASE d \in ConnIds
    <3>1. Destroyed(d) \in Posted[conns[d].loop] => Destroyed(d) \in Posted'[conns'[d].loop]
      BY <1>d, <1>i, <1>3, <2>3
    <3>2. QED
      BY <1>a, <1>6, <2>1, <2>3, <3>1 DEF ConnInv, Held
  <2>4. QED
    BY <1>d, <2>2, <2>3
<1>12. Entries'
  <2>1. ASSUME NEW fd \in DOMAIN connections'
        PROVE  connections'[fd] \in ConnIds' /\ conns'[connections'[fd]].fd = fd
    <3>1. CASE fd = sockfd
      BY <1>d, <1>e, <1>4, <3>1
    <3>2. CASE fd # sockfd
      <4>1. fd \in DOMAIN connections /\ connections'[fd] = connections[fd]
        BY <1>e, <2>1, <3>2
      <4>2. PICK d \in ConnIds : d = connections[fd] /\ conns[d].fd = fd
        BY <1>a, <4>1 DEF ConnInv, Entries
      <4>3. QED
        BY <1>d, <4>1, <4>2
    <3>3. QED
      BY <3>1, <3>2
  <2>2. QED
    BY <2>1 DEF Entries
<1>13. Descriptors'
  BY <1>a, <1>d, <1>4, <1>5, <1>6 DEF ConnInv, Descriptors
<1>14. Unused'
  BY <1>a, <1>d, <1>x, <1>4, <1>6 DEF Unused
<1>15. QED
  BY <1>7, <1>8, <1>9, <1>10, <1>11, <1>12, <1>13, <1>14 DEF ConnInv

\* A functor that an io loop runs is one of a connection of that loop, and no
\* longer pending.
LEMMA FunctorTaken ==
    ASSUME TypeOK, ConnInv, NEW l \in IoLoops, NEW c \in ConnIds, NEW call, NEW f,
           f = Functor(call, c), f.call = call, f.conn = c,
           RunFunctor(l, call, c), queue' = queue
    PROVE  /\ f \in Posted[l] /\ conns[c].loop = l
           /\ Orderly(Queue'[l])
           /\ \A k \in Loops : k # l => Queue'[k] = Queue[k]
           /\ \A k \in Loops : Posted'[k] = IF k = l THEN Posted[k] \ {f} ELSE Posted[k]
           /\ \A g \in Posted[l] :
                 call = "connectDestroyed" /\ g.call = "connectEstablished" => g.conn # c
<1>1. l \in Loops
  BY Indices
<1>2. /\ Queue[l] # <<>> /\ Head(Queue[l]) = f
      /\ \A k \in Loops : batch'[k] \o queue[k] = IF k = l THEN Tail(Queue[k]) ELSE Queue[k]
  <2>1. /\ Queue[l] # <<>> /\ Head(Queue[l]) = Functor(call, c)
        /\ \A k \in Loops : batch'[k] \o queue[k] = IF k = l THEN Tail(Queue[k]) ELSE Queue[k]
    BY <1>1, RunEffect
  <2>2. QED
    BY <2>1
<1>3. \A k \in Loops : Queue'[k] = IF k = l THEN Tail(Queue[k]) ELSE Queue[k]
  <2>1. \A k \in Loops : Queue'[k] = batch'[k] \o queue'[k]
    BY DEF Queue, Pending
  <2>2. QED
    BY <1>2, <2>1
<1>4. Orderly(Queue[l])
  BY DEF ConnInv, Queues
<1>5. /\ Orderly(Queue'[l])
      /\ f \in Posted[l]
      /\ \A k \in Loops : Posted'[k] = IF k = l THEN Posted[k] \ {f} ELSE Posted[k]
      /\ f.call = "connectDestroyed" =>
           \A g \in Posted[l] : g.call = "connectEstablished" => g.conn # f.conn
  BY <1>1, <1>2, <1>3, <1>4, PostedAfterRun
<1>6. conns[c].loop = l
  BY <1>5 DEF ConnInv, Addressed
<1>7. QED
  BY <1>3, <1>5, <1>6

\* Where one connection changes, the stages of the others do not.
LEMMA OthersKeepStage ==
    ASSUME TypeOK, NEW c \in ConnIds,
           NEW state \in {"kConnecting", "kConnected", "kDisconnected"},
           NEW index \in {"kNew", "kAdded", "kDeleted"},
           conns' = [conns EXCEPT ![c].state = state, ![c].index = index]
    PROVE  /\ ConnIds' = ConnIds
           /\ conns'[c].state = state /\ conns'[c].index = index
           /\ \A d \in ConnIds : /\ conns'[d].fd = conns[d].fd
                                 /\ conns'[d].loop = conns[d].loop
                                 /\ conns[d].loop \in IoLoops /\ conns[d].loop \in Loops
           /\ \A d \in ConnIds :
                 d # c => /\ New(d)' <=> New(d)
                          /\ Up(d)' <=> Up(d)
                          /\ Closed(d)' <=> Closed(d)
                          /\ TornDown(d)' <=> TornDown(d)
<1>1. /\ ConnIds' = ConnIds
      /\ \A d \in ConnIds : d # c => conns'[d] = conns[d]
      /\ conns'[c].state = state /\ conns'[c].index = index
      /\ conns'[c].fd = conns[c].fd /\ conns'[c].loop = conns[c].loop
  BY ConnChange
<1>2. \A d \in ConnIds : conns[d].loop \in IoLoops /\ conns[d].loop \in Loops
  BY ConnType
<1>3. QED
  BY <1>1, <1>2 DEF New, Up, Closed, TornDown

\* connectEstablished() finds its connection new.
LEMMA ConnectEstablishedKeeps ==
    ASSUME IInv, NEW l \in IoLoops, NEW c \in ConnIds, ConnectEstablished(l, c)
    PROVE  ConnInv' /\ Unused'
<1> DEFINE f == Established(c)
<1>a. TypeOK /\ ConnInv /\ Unused
  BY DEF IInv
<1>b. f = Functor("connectEstablished", c) /\ f.call = "connectEstablished" /\ f.conn = c
  BY Calls DEF Established
<1>c. /\ RunFunctor(l, "connectEstablished", c) /\ queue' = queue
      /\ conns' = [conns EXCEPT ![c].state = "kConnected", ![c].index = "kAdded"]
      /\ connections' = connections /\ UNCHANGED <<mainPc, running, connecting>>
  BY DEF ConnectEstablished, IndexAfterUpdate, mainVars, connectorVars
<1>d. l \in Loops /\ l # Base
  BY Indices
<1> HIDE DEF f
<1>1. /\ f \in Posted[l] /\ conns[c].loop = l
      /\ Orderly(Queue'[l])
      /\ \A k \in Loops : k # l => Queue'[k] = Queue[k]
      /\ \A k \in Loops : Posted'[k] = IF k = l THEN Posted[k] \ {f} ELSE Posted[k]
  BY <1>a, <1>b, <1>c, FunctorTaken
<1>2. New(c)
  BY <1>a, <1>1 DEF ConnInv, Lives, f
<1>3. /\ ConnIds' = ConnIds
      /\ conns'[c].state = "kConnected" /\ conns'[c].index = "kAdded"
      /\ \A d \in ConnIds : /\ conns'[d].fd = conns[d].fd
                            /\ conns'[d].loop = conns[d].loop
                            /\ conns[d].loop \in IoLoops /\ conns[d].loop \in Loops
      /\ \A d \in ConnIds :
            d # c => /\ New(d)' <=> New(d)
                     /\ Up(d)' <=> Up(d)
                     /\ Closed(d)' <=> Closed(d)
                     /\ TornDown(d)' <=> TornDown(d)
  BY <1>a, <1>c, OthersKeepStage
<1>4. /\ Up(c)' /\ ~New(c)' /\ ~Closed(c)' /\ ~TornDown(c)' /\ ~TornDown(c) /\ ~Closed(c)
  BY <1>2, <1>3 DEF New, Up, Closed, TornDown
<1>5. \A d : Mapped(d)' <=> Mapped(d)
  BY <1>c DEF Mapped
<1>6. MainRuns' <=> MainRuns
  BY <1>c DEF MainRuns
<1>7. Stages'
  BY <1>a, <1>3, <1>4 DEF ConnInv, Stages
<1>8. Addressed'
  <2>1. \A k \in Loops : Posted'[k] \subseteq Posted[k]
    BY <1>1
  <2>2. QED
    BY <1>a, <1>3, <1>6, <2>1, Indices DEF ConnInv, Addressed
<1>9. Queues'
  BY <1>a, <1>d, <1>1, <1>6, Indices DEF ConnInv, Queues
<1>10. \A d \in ConnIds : /\ Posted'[conns'[d].loop] \subseteq Posted[conns[d].loop]
                          /\ \A g \in Posted[conns[d].loop] :
                                g # f => g \in Posted'[conns'[d].loop]
  <2>1. \A k \in Loops : /\ Posted'[k] \subseteq Posted[k]
                        /\ \A g \in Posted[k] : g # f => g \in Posted'[k]
    BY <1>1
  <2>2. \A d \in ConnIds : conns'[d].loop = conns[d].loop /\ conns[d].loop \in Loops
    BY <1>3
  <2>3. QED
    BY <2>1, <2>2
<1>11. Lives'
  <2> SUFFICES ASSUME NEW d \in ConnIds
               PROVE  /\ Established(d) \in Posted'[conns'[d].loop] => New(d)'
                      /\ New(d)' /\ conns'[d].loop \in running' =>
                           Established(d) \in Posted'[conns'[d].loop]
                      /\ TornDown(d)' \/ Mapped(d)' =>
                           Destroyed(d) \notin Posted'[conns'[d].loop]
                      /\ TornDown(d)' => ~Mapped(d)'
    BY <1>3 DEF Lives
  <2>1. CASE d = c
    <3>1. Established(c) \notin Posted'[l]
      BY <1>d, <1>1 DEF f
    <3>2. QED
      BY <1>a, <1>1, <1>3, <1>4, <1>5, <1>10, <2>1, <3>1 DEF ConnInv, Lives
  <2>2. CASE d # c
    <3>1. Established(d) # f
      BY <1>b, <2>2, Calls
    <3>2. /\ Established(d) \in Posted'[conns'[d].loop]
               <=> Established(d) \in Posted[conns[d].loop]
          /\ Destroyed(d) \in Posted'[conns'[d].loop]
               => Destroyed(d) \in Posted[conns[d].loop]
      BY <1>10, <3>1
    <3>3. /\ New(d)' <=> New(d)
          /\ TornDown(d)' <=> TornDown(d)
          /\ Mapped(d)' <=> Mapped(d)
          /\ conns'[d].loop = conns[d].loop /\ running' = running
      BY <1>c, <1>3, <1>5, <2>2
    <3>4. QED
      BY <1>a, <3>2, <3>3 DEF ConnInv, Lives
  <2>3. QED
    BY <2>1, <2>2
<1>12. Held'
  <2> SUFFICES ASSUME MainRuns, NEW d \in ConnIds
               PROVE  /\ \/ TornDown(d)'
                         \/ Mapped(d)'
                         \/ Closed(d)' /\ Destroyed(d) \in Posted'[conns'[d].loop]
                      /\ Removal(d) \in Posted'[Base] => Closed(d)' /\ Mapped(d)'
    BY <1>3, <1>6 DEF Held
  <2>1. Posted'[Base] = Posted[Base]
    BY <1>d, <1>1, Indices
  <2>2. Destroyed(d) # f
    BY <1>b, Calls
  <2>3. CASE d = c
    BY <1>a, <1>4, <1>5, <2>1, <2>3 DEF ConnInv, Held
  <2>4. CASE d # c
    BY <1>a, <1>3, <1>5, <1>10, <2>1, <2>2, <2>4 DEF ConnInv, Held
  <2>5. QED
    BY <2>3, <2>4
<1>13. Entries'
  <2>1. \A fd \in DOMAIN connections :
          connections[fd] \in ConnIds /\ conns[connections[fd]].fd = fd
    BY <1>a DEF ConnInv, Entries
  <2>2. \A fd \in DOMAIN connections :
          connections[fd] \in ConnIds /\ conns'[connections[fd]].fd = fd
    BY <1>3, <2>1
  <2>3. QED
    BY <1>c, <1>3, <2>2 DEF Entries
<1>14. \A d \in ConnIds : TornDown(d) => TornDown(d)'
  BY <1>3, <1>4
<1>15. Descriptors'
  BY <1>a, <1>3, <1>14 DEF ConnInv, Descriptors
<1>16. Unused'
  BY <1>a, <1>c, <1>3, <1>14 DEF Unused
<1>17. QED
  BY <1>7, <1>8, <1>9, <1>11, <1>12, <1>13, <1>15, <1>16 DEF ConnInv

\* connectDestroyed() finds its connection up or closed, and without an entry.
LEMMA ConnectDestroyedKeeps ==
    ASSUME IInv, NEW l \in IoLoops, NEW c \in ConnIds, ConnectDestroyed(l, c)
    PROVE  ConnInv' /\ Unused'
<1> DEFINE f == Destroyed(c)
<1>a. TypeOK /\ ConnInv /\ Unused
  BY DEF IInv
<1>b. f = Functor("connectDestroyed", c) /\ f.call = "connectDestroyed" /\ f.conn = c
  BY Calls DEF Destroyed
<1>c. /\ RunFunctor(l, "connectDestroyed", c) /\ queue' = queue
      /\ conns' = [conns EXCEPT
                     ![c].state = IF @ = "kConnected" THEN "kDisconnected" ELSE @,
                     ![c].index = "kNew"]
      /\ connections' = connections /\ UNCHANGED <<mainPc, running, connecting>>
  BY DEF ConnectDestroyed, IndexAfterRemove, mainVars, connectorVars
<1>d. l \in Loops /\ l # Base
  BY Indices
<1> HIDE DEF f
<1>1. /\ f \in Posted[l] /\ conns[c].loop = l
      /\ Orderly(Queue'[l])
      /\ \A k \in Loops : k # l => Queue'[k] = Queue[k]
      /\ \A k \in Loops : Posted'[k] = IF k = l THEN Posted[k] \ {f} ELSE Posted[k]
      /\ \A g \in Posted[l] : g.call = "connectEstablished" => g.conn # c
  BY <1>a, <1>b, <1>c, FunctorTaken
<1>2. ~New(c) /\ ~TornDown(c) /\ ~Mapped(c) /\ Established(c) \notin Posted[l]
  <2>1. Established(c) \notin Posted[l]
    BY <1>1, Calls
  <2>2. l \in running
    BY <1>c, <1>d DEF RunFunctor, InLoop
  <2>3. QED
    BY <1>a, <1>1, <2>1, <2>2 DEF ConnInv, Lives, f
<1>x. conns' = [conns EXCEPT ![c].state = "kDisconnected", ![c].index = "kNew"]
  <2>1. conns[c].state \in {"kConnected", "kDisconnected"}
    BY <1>a, <1>2 DEF ConnInv, Stages, Up, Closed
  <2>2. QED
    BY <1>c, <2>1
<1>3. /\ ConnIds' = ConnIds
      /\ conns'[c].state = "kDisconnected" /\ conns'[c].index = "kNew"
      /\ \A d \in ConnIds : /\ conns'[d].fd = conns[d].fd
                            /\ conns'[d].loop = conns[d].loop
                            /\ conns[d].loop \in IoLoops /\ conns[d].loop \in Loops
      /\ \A d \in ConnIds :
            d # c => /\ New(d)' <=> New(d)
                     /\ Up(d)' <=> Up(d)
                     /\ Closed(d)' <=> Closed(d)
                     /\ TornDown(d)' <=> TornDown(d)
  BY <1>a, <1>x, OthersKeepStage
<1>4. TornDown(c)' /\ ~New(c)' /\ ~Up(c)' /\ ~Closed(c)'
  BY <1>3 DEF New, Up, Closed, TornDown
<1>5. \A d : Mapped(d)' <=> Mapped(d)
  BY <1>c DEF Mapped
<1>6. MainRuns' <=> MainRuns
  BY <1>c DEF MainRuns
<1>7. Stages'
  BY <1>a, <1>3, <1>4 DEF ConnInv, Stages
<1>8. Addressed'
  <2>1. \A k \in Loops : Posted'[k] \subseteq Posted[k]
    BY <1>1
  <2>2. QED
    BY <1>a, <1>3, <1>6, <2>1, Indices DEF ConnInv, Addressed
<1>9. Queues'
  BY <1>a, <1>d, <1>1, <1>6, Indices DEF ConnInv, Queues
<1>10. \A d \in ConnIds : /\ Posted'[conns'[d].loop] \subseteq Posted[conns[d].loop]
                          /\ \A g \in Posted[conns[d].loop] :
                                g # f => g \in Posted'[conns'[d].loop]
  <2>1. \A k \in Loops : /\ Posted'[k] \subseteq Posted[k]
                        /\ \A g \in Posted[k] : g # f => g \in Posted'[k]
    BY <1>1
  <2>2. \A d \in ConnIds : conns'[d].loop = conns[d].loop /\ conns[d].loop \in Loops
    BY <1>3
  <2>3. QED
    BY <2>1, <2>2
<1>11. Lives'
  <2> SUFFICES ASSUME NEW d \in ConnIds
               PROVE  /\ Established(d) \in Posted'[conns'[d].loop] => New(d)'
                      /\ New(d)' /\ conns'[d].loop \in running' =>
                           Established(d) \in Posted'[conns'[d].loop]
                      /\ TornDown(d)' \/ Mapped(d)' =>
                           Destroyed(d) \notin Posted'[conns'[d].loop]
                      /\ TornDown(d)' => ~Mapped(d)'
    BY <1>3 DEF Lives
  <2>1. CASE d = c
    <3>1. Destroyed(c) \notin Posted'[l] /\ Established(c) \notin Posted'[l]
      BY <1>d, <1>1, <1>2 DEF f
    <3>2. QED
      BY <1>1, <1>2, <1>3, <1>4, <1>5, <2>1, <3>1
  <2>2. CASE d # c
    <3>1. Established(d) # f
      BY <1>b, Calls
    <3>2. /\ Established(d) \in Posted'[conns'[d].loop]
               <=> Established(d) \in Posted[conns[d].loop]
          /\ Destroyed(d) \in Posted'[conns'[d].loop]
               => Destroyed(d) \in Posted[conns[d].loop]
      BY <1>10, <3>1
    <3>3. /\ New(d)' <=> New(d)
          /\ TornDown(d)' <=> TornDown(d)
          /\ Mapped(d)' <=> Mapped(d)
          /\ conns'[d].loop = conns[d].loop /\ running' = running
      BY <1>c, <1>3, <1>5, <2>2
    <3>4. QED
      BY <1>a, <3>2, <3>3 DEF ConnInv, Lives
  <2>3. QED
    BY <2>1, <2>2
<1>12. Held'
  <2> SUFFICES ASSUME MainRuns, NEW d \in ConnIds
               PROVE  /\ \/ TornDown(d)'
                         \/ Mapped(d)'
                         \/ Closed(d)' /\ Destroyed(d) \in Posted'[conns'[d].loop]
                      /\ Removal(d) \in Posted'[Base] => Closed(d)' /\ Mapped(d)'
    BY <1>3, <1>6 DEF Held
  <2>1. Posted'[Base] = Posted[Base]
    BY <1>d, <1>1, Indices
  <2>2. CASE d = c
    BY <1>a, <1>2, <1>4, <2>1, <2>2 DEF ConnInv, Held
  <2>3. CASE d # c
    <3>1. Destroyed(d) # f
      BY <1>b, <2>3, Calls
    <3>2. QED
      BY <1>a, <1>3, <1>5, <1>10, <2>1, <2>3, <3>1 DEF ConnInv, Held
  <2>4. QED
    BY <2>2, <2>3
<1>13. Entries'
  <2>1. \A fd \in DOMAIN connections :
          connections[fd] \in ConnIds /\ conns[connections[fd]].fd = fd
    BY <1>a DEF ConnInv, Entries
  <2>2. \A fd \in DOMAIN connections :
          connections[fd] \in ConnIds /\ conns'[connections[fd]].fd = fd
    BY <1>3, <2>1
  <2>3. QED
    BY <1>c, <1>3, <2>2 DEF Entries
<1>14. \A d \in ConnIds : TornDown(d) => TornDown(d)'
  BY <1>3, <1>4
<1>15. Descriptors'
  BY <1>a, <1>3, <1>14 DEF ConnInv, Descriptors
<1>16. Unused'
  BY <1>a, <1>c, <1>3, <1>14 DEF Unused
<1>17. QED
  BY <1>7, <1>8, <1>9, <1>11, <1>12, <1>13, <1>15, <1>16 DEF ConnInv

\* handleClose(): while the base loop runs, the connection has its entry, and
\* no removal of it is pending yet.
LEMMA HandleCloseKeeps ==
    ASSUME IInv, NEW c \in ConnIds, HandleClose(c)
    PROVE  ConnInv' /\ Unused'
<1> DEFINE f == Removal(c)
<1>a. TypeOK /\ ConnInv /\ Unused
  BY DEF IInv
<1>b. f \in Functors /\ f.call = "removeConnectionInLoop" /\ f.conn = c
  BY <1>a, FunctorType DEF Removal
<1>c. /\ queue' = Post(Base, f) /\ batch' = batch
      /\ conns' = [conns EXCEPT ![c].state = "kDisconnected", ![c].index = "kDeleted"]
      /\ connections' = connections /\ UNCHANGED <<mainPc, running, connecting>>
      /\ conns[c].state = "kConnected"
  BY DEF HandleClose, IndexAfterUpdate, mainVars, connectorVars, Removal
<1>d. Base \in Loops /\ Base \notin IoLoops /\ IoLoops \subseteq Loops
  BY Indices
<1> HIDE DEF f
<1>1. Queue' = [Queue EXCEPT ![Base] = Append(@, f)]
  BY <1>a, <1>b, <1>c, <1>d, PostEffect
<1>2. \A k \in IoLoops : Queue'[k] = Queue[k] /\ Posted'[k] = Posted[k]
  BY <1>a, <1>d, <1>1, PostedElsewhere
<1>3. /\ ConnIds' = ConnIds
      /\ conns'[c].state = "kDisconnected" /\ conns'[c].index = "kDeleted"
      /\ \A d \in ConnIds : /\ conns'[d].fd = conns[d].fd
                            /\ conns'[d].loop = conns[d].loop
                            /\ conns[d].loop \in IoLoops /\ conns[d].loop \in Loops
      /\ \A d \in ConnIds :
            d # c => /\ New(d)' <=> New(d)
                     /\ Up(d)' <=> Up(d)
                     /\ Closed(d)' <=> Closed(d)
                     /\ TornDown(d)' <=> TornDown(d)
  BY <1>a, <1>c, OthersKeepStage
<1>4. /\ Closed(c)' /\ ~New(c)' /\ ~Up(c)' /\ ~TornDown(c)'
      /\ ~New(c) /\ ~Closed(c) /\ ~TornDown(c)
  BY <1>c, <1>3 DEF New, Up, Closed, TornDown
<1>5. \A d : Mapped(d)' <=> Mapped(d)
  BY <1>c DEF Mapped
<1>6. MainRuns' <=> MainRuns
  BY <1>c DEF MainRuns
<1>7. MainRuns => Removal(c) \notin Posted[Base] /\ Mapped(c)
  BY <1>a, <1>4 DEF ConnInv, Held
<1>8. MainRuns => Orderly(Queue'[Base]) /\ Posted'[Base] = Posted[Base] \cup {f}
  <2> SUFFICES ASSUME MainRuns
               PROVE  Orderly(Queue'[Base]) /\ Posted'[Base] = Posted[Base] \cup {f}
    OBVIOUS
  <2>1. Orderly(Queue[Base]) /\ f \notin Posted[Base]
    BY <1>a, <1>7 DEF ConnInv, Queues, f
  <2>2. f.call # "connectEstablished"
    BY <1>b
  <2>3. QED
    BY <1>a, <1>b, <1>d, <1>1, <2>1, <2>2, PostedAfterPost
<1>9. Stages'
  BY <1>a, <1>3, <1>4 DEF ConnInv, Stages
<1>10. Addressed'
  <2>1. MainRuns =>
          \A g \in Posted'[Base] : g.conn \in ConnIds /\ g.call = "removeConnectionInLoop"
    BY <1>a, <1>b, <1>8 DEF ConnInv, Addressed
  <2>2. QED
    BY <1>a, <1>2, <1>3, <1>6, <2>1 DEF ConnInv, Addressed
<1>11. Queues'
  BY <1>a, <1>2, <1>6, <1>8 DEF ConnInv, Queues
<1>12. Lives'
  <2> SUFFICES ASSUME NEW d \in ConnIds
               PROVE  /\ Established(d) \in Posted'[conns'[d].loop] => New(d)'
                      /\ New(d)' /\ conns'[d].loop \in running' =>
                           Established(d) \in Posted'[conns'[d].loop]
                      /\ TornDown(d)' \/ Mapped(d)' =>
                           Destroyed(d) \notin Posted'[conns'[d].loop]
                      /\ TornDown(d)' => ~Mapped(d)'
    BY <1>3 DEF Lives
  <2>1. Posted'[conns'[d].loop] = Posted[conns[d].loop] /\ running' = running
        /\ conns'[d].loop = conns[d].loop
    BY <1>c, <1>2, <1>3
  <2>2. CASE d = c
    BY <1>a, <1>4, <1>5, <2>1, <2>2 DEF ConnInv, Lives
  <2>3. CASE d # c
    BY <1>a, <1>3, <1>5, <2>1, <2>3 DEF ConnInv, Lives
  <2>4. QED
    BY <2>2, <2>3
<1>13. Held'
  <2> SUFFICES ASSUME MainRuns, NEW d \in ConnIds
               PROVE  /\ \/ TornDown(d)'
                         \/ Mapped(d)'
                         \/ Closed(d)' /\ Destroyed(d) \in Posted'[conns'[d].loop]
                      /\ Removal(d) \in Posted'[Base] => Closed(d)' /\ Mapped(d)'
    BY <1>3, <1>6 DEF Held
  <2>1. Posted'[conns'[d].loop] = Posted[conns[d].loop]
    BY <1>2, <1>3
  <2>2. CASE d = c
    BY <1>4, <1>5, <1>7, <2>2
  <2>3. CASE d # c
    <3>1. Removal(d) # f
      BY <1>b, <2>3, Calls
    <3>2. QED
      BY <1>a, <1>3, <1>5, <1>8, <2>1, <2>3, <3>1 DEF ConnInv, Held
  <2>4. QED
    BY <2>2, <2>3
<1>14. Entries'
  <2>1. \A fd \in DOMAIN connections :
          connections[fd] \in ConnIds /\ conns[connections[fd]].fd = fd
    BY <1>a DEF ConnInv, Entries
  <2>2. \A fd \in DOMAIN connections :
          connections[fd] \in ConnIds /\ conns'[connections[fd]].fd = fd
    BY <1>3, <2>1
  <2>3. QED
    BY <1>c, <1>3, <2>2 DEF Entries
<1>15. \A d \in ConnIds : TornDown(d) => TornDown(d)'
  BY <1>3, <1>4
<1>16. Descriptors'
  BY <1>a, <1>3, <1>15 DEF ConnInv, Descriptors
<1>17. Unused'
  BY <1>a, <1>c, <1>3, <1>15 DEF Unused
<1>18. QED
  BY <1>9, <1>10, <1>11, <1>12, <1>13, <1>14, <1>16, <1>17 DEF ConnInv

\* An entry is erased, and connectDestroyed() of its connection posted; unless
\* main() is about to end, the connection was closed and its removal ran.
LEMMA EraseKeeps ==
    ASSUME TypeOK, ConnInv, NEW c \in ConnIds, NEW fd \in DOMAIN connections,
           connections[fd] = c, connections' = Erase(fd),
           UNCHANGED <<conns, running>>, NEW l \in IoLoops, l = conns[c].loop,
           \A k \in IoLoops :
              /\ Posted'[k] = IF k = l THEN Posted[k] \cup {Destroyed(c)} ELSE Posted[k]
              /\ Orderly(Queue'[k]),
           MainRuns' => /\ MainRuns /\ Closed(c)
                        /\ Orderly(Queue'[Base])
                        /\ Posted'[Base] = Posted[Base] \ {Removal(c)}
    PROVE  ConnInv'
<1> DEFINE f == Destroyed(c)
<1>a. f.call = "connectDestroyed" /\ f.conn = c
  BY Calls
<1>b. /\ ConnIds' = ConnIds
      /\ \A d : /\ New(d)' <=> New(d)
                /\ Up(d)' <=> Up(d)
                /\ Closed(d)' <=> Closed(d)
                /\ TornDown(d)' <=> TornDown(d)
  BY DEF ConnIds, New, Up, Closed, TornDown
<1>c. /\ DOMAIN connections' = DOMAIN connections \ {fd}
      /\ \A k \in DOMAIN connections' : connections'[k] = connections[k]
  <2>1. /\ DOMAIN Erase(fd) = DOMAIN connections \ {fd}
        /\ \A k \in DOMAIN Erase(fd) : Erase(fd)[k] = connections[k]
    BY EraseTypes
  <2>2. QED
    BY <2>1
<1>d. \A d \in ConnIds : conns[d].loop \in IoLoops
  BY ConnType
<1> HIDE DEF f
<1>1. Mapped(c) /\ ~Mapped(c)' /\ ~TornDown(c)
  <2>1. Mapped(c) /\ ~TornDown(c)
    BY DEF Mapped, ConnInv, Lives
  <2>2. \A k \in DOMAIN connections : connections[k] = c => k = fd
    BY DEF ConnInv, Entries
  <2>3. QED
    BY <1>c, <2>1, <2>2 DEF Mapped
<1>2. \A d \in ConnIds : d # c => (Mapped(d)' <=> Mapped(d))
  BY <1>c DEF Mapped
<1>3. Stages'
  BY <1>b DEF ConnInv, Stages
<1>4. Addressed'
  <2>1. ASSUME NEW k \in IoLoops, NEW g \in Posted'[k]
        PROVE  /\ g.conn \in ConnIds /\ conns[g.conn].loop = k
               /\ g.call \in {"connectEstablished", "connectDestroyed"}
    <3>1. CASE g \in Posted[k]
      BY <3>1 DEF ConnInv, Addressed
    <3>2. CASE g = f /\ k = l
      BY <1>a, <3>2
    <3>3. QED
      BY <2>1, <3>1, <3>2 DEF f
  <2>2. ConnIds' = ConnIds /\ conns' = conns
    BY <1>b
  <2>3. MainRuns' =>
          \A g \in Posted'[Base] : g.conn \in ConnIds' /\ g.call = "removeConnectionInLoop"
    BY <1>b DEF ConnInv, Addressed
  <2>4. QED
    BY <2>1, <2>2, <2>3 DEF Addressed
<1>5. Queues'
  BY DEF ConnInv, Queues
<1>6. Lives'
  <2> SUFFICES ASSUME NEW d \in ConnIds
               PROVE  /\ Established(d) \in Posted'[conns[d].loop] => New(d)
                      /\ New(d) /\ conns[d].loop \in running =>
                           Established(d) \in Posted'[conns[d].loop]
                      /\ TornDown(d) \/ Mapped(d)' =>
                           Destroyed(d) \notin Posted'[conns[d].loop]
                      /\ TornDown(d) => ~Mapped(d)'
    BY <1>b DEF Lives
  <2>1. Established(d) # f
    BY <1>a, Calls
  <2>2. Established(d) \in Posted'[conns[d].loop] <=> Established(d) \in Posted[conns[d].loop]
    BY <1>d, <2>1 DEF f
  <2>3. CASE d = c
    BY <1>1, <2>2, <2>3 DEF ConnInv, Lives
  <2>4. CASE d # c
    <3>1. Destroyed(d) # f
      BY <1>a, <2>4, Calls
    <3>2. Destroyed(d) \in Posted'[conns[d].loop] <=> Destroyed(d) \in Posted[conns[d].loop]
      BY <1>d, <3>1 DEF f
    <3>3. QED
      BY <1>2, <2>2, <2>4, <3>2 DEF ConnInv, Lives
  <2>5. QED
    BY <2>3, <2>4
<1>7. Held'
  <2> SUFFICES ASSUME MainRuns', NEW d \in ConnIds
               PROVE  /\ \/ TornDown(d)
                         \/ Mapped(d)'
                         \/ Closed(d) /\ Destroyed(d) \in Posted'[conns[d].loop]
                      /\ Removal(d) \in Posted'[Base] => Closed(d) /\ Mapped(d)'
    BY <1>b DEF Held
  <2>1. CASE d = c
    BY <2>1
  <2>2. CASE d # c
    <3>1. Destroyed(d) \in Posted[conns[d].loop] => Destroyed(d) \in Posted'[conns[d].loop]
      BY <1>d
    <3>2. Removal(d) \in Posted'[Base] => Removal(d) \in Posted[Base]
      OBVIOUS
    <3>3. QED
      BY <1>2, <2>2, <3>1, <3>2 DEF ConnInv, Held
  <2>3. QED
    BY <2>1, <2>2
<1>8. Entries'
  BY <1>b, <1>c DEF ConnInv, Entries
<1>9. Descriptors'
  BY <1>b DEF ConnInv, Descriptors
<1>10. QED
  BY <1>3, <1>4, <1>5, <1>6, <1>7, <1>8, <1>9 DEF ConnInv

\* removeConnectionInLoop() finds the connection closed, and under its
\* descriptor its own entry.
LEMMA RemovalEffect ==
    ASSUME IInv, NEW c \in ConnIds, RemoveConnectionInLoop(c)
    PROVE  /\ MainRuns /\ Closed(c)
           /\ conns[c].fd \in DOMAIN connections /\ connections[conns[c].fd] = c
           /\ Head(Queue[Base]) = Removal(c) /\ Queue[Base] # <<>>
           /\ \A k \in Loops : batch'[k] \o queue[k] =
                  IF k = Base THEN Tail(Queue[k]) ELSE Queue[k]
<1>a. TypeOK /\ ConnInv /\ Base \in Loops
  BY Indices DEF IInv
<1>b. RunFunctor(Base, "removeConnectionInLoop", c)
  BY DEF RemoveConnectionInLoop
<1>1. MainRuns
  BY <1>b DEF RunFunctor, InLoop, MainRuns
<1>2. /\ Queue[Base] # <<>> /\ Head(Queue[Base]) = Removal(c)
      /\ \A k \in Loops : batch'[k] \o queue[k] =
             IF k = Base THEN Tail(Queue[k]) ELSE Queue[k]
  <2>1. /\ Queue[Base] # <<>> /\ Head(Queue[Base]) = Functor("removeConnectionInLoop", c)
        /\ \A k \in Loops : batch'[k] \o queue[k] =
               IF k = Base THEN Tail(Queue[k]) ELSE Queue[k]
    BY <1>a, <1>b, RunEffect
  <2>2. QED
    BY <2>1 DEF Removal
<1>3. Removal(c) \in Posted[Base]
  <2>1. Queue[Base] \in Seq(Functors) /\ Posted[Base] = ToSet(Queue[Base])
    BY <1>a, QueueType
  <2>2. Head(Queue[Base]) = Queue[Base][1] /\ 1 \in DOMAIN Queue[Base]
    BY <1>2, <2>1
  <2>3. QED
    BY <1>2, <2>1, <2>2 DEF ToSet
<1>4. Closed(c) /\ Mapped(c)
  BY <1>a, <1>1, <1>3 DEF ConnInv, Held
<1>5. conns[c].fd \in DOMAIN connections /\ connections[conns[c].fd] = c
  BY <1>a, <1>4 DEF ConnInv, Entries, Mapped
<1>6. QED
  BY <1>1, <1>2, <1>4, <1>5

LEMMA RemoveConnectionKeeps ==
    ASSUME IInv, NEW c \in ConnIds, RemoveConnectionInLoop(c)
    PROVE  ConnInv' /\ Unused'
<1>a. TypeOK /\ ConnInv /\ Unused /\ Base \in Loops /\ Base \notin IoLoops
  BY Indices DEF IInv
<1>1. /\ MainRuns /\ Closed(c)
      /\ conns[c].fd \in DOMAIN connections /\ connections[conns[c].fd] = c
      /\ Head(Queue[Base]) = Removal(c) /\ Queue[Base] # <<>>
      /\ \A k \in Loops : batch'[k] \o queue[k] =
             IF k = Base THEN Tail(Queue[k]) ELSE Queue[k]
  BY RemovalEffect
<1>2. PICK l \in IoLoops : l = conns[c].loop
  BY <1>a, ConnType
<1>3. PICK fd \in DOMAIN connections : fd = conns[c].fd
  BY <1>1
<1>b. l \in Loops /\ l # Base
  BY <1>a, Indices
<1> DEFINE f == Destroyed(c)
<1>4. /\ queue' = Post(l, f) /\ connections' = Erase(fd)
      /\ UNCHANGED <<conns, mainPc, running, connecting>>
  BY <1>2, <1>3 DEF RemoveConnectionInLoop, Destroyed, mainVars
<1>5. f \in Functors /\ f.call = "connectDestroyed"
  BY <1>a, FunctorType DEF Destroyed
<1> HIDE DEF f
<1>6. /\ \A k \in Loops : k # l => queue'[k] = queue[k]
      /\ queue'[l] = Append(queue[l], f)
  BY <1>a, <1>b, <1>4 DEF Post, TypeOK
<1>7. \A k \in Loops : Queue'[k] = batch'[k] \o queue'[k]
  BY DEF Queue, Pending
<1>8. Queue'[Base] = Tail(Queue[Base])
  BY <1>a, <1>b, <1>1, <1>6, <1>7
<1>9. Queue'[l] = Append(Queue[l], f)
  <2>1. batch'[l] = batch[l]
    BY <1>b DEF RemoveConnectionInLoop, RunFunctor
  <2>2. ASSUME NEW b \in Seq(Functors), NEW q \in Seq(Functors)
        PROVE  b \o Append(q, f) = Append(b \o q, f)
    BY <1>5, ConcatAppend
  <2>3. batch[l] \in Seq(Functors) /\ queue[l] \in Seq(Functors)
    BY <1>a, <1>b DEF TypeOK
  <2>4. Queue[l] = batch[l] \o queue[l]
    BY <1>b DEF Queue, Pending
  <2>5. QED
    BY <1>b, <1>6, <1>7, <2>1, <2>2, <2>3, <2>4
<1>10. \A k \in Loops : k # l /\ k # Base => Queue'[k] = Queue[k]
  BY <1>1, <1>6, <1>7
<1>11. Queue \in [Loops -> Seq(Functors)] /\ \A k \in Loops : Posted[k] = ToSet(Queue[k])
  BY <1>a, QueueType
<1>12. \A k \in Loops : Posted'[k] = ToSet(Queue'[k])
  BY DEF Posted
<1>13. Orderly(Queue'[Base]) /\ Posted'[Base] = Posted[Base] \ {Removal(c)}
  <2>1. Orderly(Queue[Base]) /\ Queue[Base] \in Seq(Functors)
    BY <1>a, <1>1, <1>11 DEF ConnInv, Queues
  <2>2. /\ Orderly(Tail(Queue[Base]))
        /\ ToSet(Tail(Queue[Base])) = ToSet(Queue[Base]) \ {Head(Queue[Base])}
    BY <1>1, <2>1, OrderlyTail
  <2>3. QED
    BY <1>a, <1>1, <1>8, <1>11, <1>12, <2>2
<1>14. Orderly(Queue'[l]) /\ Posted'[l] = Posted[l] \cup {f}
  <2>1. f \notin Posted[l]
    <3>1. Mapped(c)
      BY <1>1 DEF Mapped
    <3>2. QED
      BY <1>a, <1>2, <3>1 DEF ConnInv, Lives, f
  <2>2. Orderly(Queue[l]) /\ Queue[l] \in Seq(Functors) /\ f \notin ToSet(Queue[l])
    BY <1>a, <1>b, <1>11, <2>1 DEF ConnInv, Queues
  <2>3. /\ Orderly(Append(Queue[l], f))
        /\ ToSet(Append(Queue[l], f)) = ToSet(Queue[l]) \cup {f}
    BY <1>5, <2>2, OrderlyAppend
  <2>4. QED
    BY <1>b, <1>9, <1>11, <1>12, <2>3
<1>15. \A k \in IoLoops :
          /\ Posted'[k] = IF k = l THEN Posted[k] \cup {Destroyed(c)} ELSE Posted[k]
          /\ Orderly(Queue'[k])
  <2>1. ASSUME NEW k \in IoLoops, k # l PROVE Queue'[k] = Queue[k] /\ Posted'[k] = Posted[k]
    BY <1>a, <1>10, <1>11, <1>12, <2>1, Indices
  <2>2. \A k \in IoLoops : Orderly(Queue[k])
    BY <1>a DEF ConnInv, Queues
  <2>3. QED
    BY <1>14, <2>1, <2>2 DEF f
<1>16. ConnInv'
  BY <1>a, <1>1, <1>2, <1>3, <1>4, <1>13, <1>15, EraseKeeps
<1>17. Unused'
  BY <1>a, <1>4 DEF Unused, ConnIds, TornDown
<1>18. QED
  BY <1>16, <1>17

\* ~Client() posts connectDestroyed() once for every entry it erases.
LEMMA DestroyConnectionKeeps ==
    ASSUME IInv, DestroyConnection
    PROVE  ConnInv' /\ Unused'
<1>a. TypeOK /\ ConnInv /\ Unused
  BY DEF IInv
<1>1. PICK fd \in DOMAIN connections :
        /\ queue' = Post(conns[connections[fd]].loop,
                         Functor("connectDestroyed", connections[fd]))
        /\ connections' = Erase(fd)
  BY DEF DestroyConnection
<1>2. PICK c \in ConnIds : connections[fd] = c
  BY <1>a DEF ConnInv, Entries
<1>3. PICK l \in IoLoops : l = conns[c].loop
  BY <1>a, ConnType
<1>b. l \in Loops
  BY Indices
<1> DEFINE f == Destroyed(c)
<1>4. /\ queue' = Post(l, f) /\ batch' = batch
      /\ UNCHANGED <<conns, mainPc, running, connecting>> /\ mainPc = "~Client"
  BY <1>1, <1>2, <1>3 DEF DestroyConnection, Destroyed, mainVars, connectorVars
<1>5. f \in Functors /\ f.call = "connectDestroyed"
  BY <1>a, FunctorType DEF Destroyed
<1> HIDE DEF f
<1>6. Queue' = [Queue EXCEPT ![l] = Append(@, f)]
  BY <1>a, <1>b, <1>4, <1>5, PostEffect
<1>7. /\ \A k \in Loops : k # l => Queue'[k] = Queue[k]
      /\ Orderly(Queue'[l])
      /\ \A k \in Loops : Posted'[k] = IF k = l THEN Posted[k] \cup {f} ELSE Posted[k]
  <2>1. Mapped(c)
    BY <1>2 DEF Mapped
  <2>2. f \notin Posted[l]
    BY <1>a, <1>3, <2>1 DEF ConnInv, Lives, f
  <2>3. Orderly(Queue[l]) /\ f.call # "connectEstablished"
    BY <1>a, <1>5 DEF ConnInv, Queues
  <2>4. QED
    BY <1>a, <1>b, <1>5, <1>6, <2>2, <2>3, PostedAfterPost
<1>8. \A k \in IoLoops :
          /\ Posted'[k] = IF k = l THEN Posted[k] \cup {Destroyed(c)} ELSE Posted[k]
          /\ Orderly(Queue'[k])
  <2>1. \A k \in IoLoops : Orderly(Queue[k]) /\ k \in Loops
    BY <1>a, Indices DEF ConnInv, Queues
  <2>2. QED
    BY <1>7, <2>1 DEF f
<1>9. ~MainRuns'
  BY <1>4 DEF MainRuns
<1>10. ConnInv'
  BY <1>a, <1>1, <1>2, <1>3, <1>4, <1>8, <1>9, EraseKeeps
<1>11. Unused'
  BY <1>a, <1>4 DEF Unused, ConnIds, TornDown
<1>12. QED
  BY <1>10, <1>11

\* A loop that returns drops its functors, but not while the base loop runs.
LEMMA IoLoopReturnsKeeps ==
    ASSUME IInv, NEW l \in IoLoops, IoLoopReturns(l)
    PROVE  ConnInv' /\ Unused'
<1>a. TypeOK /\ ConnInv /\ Unused /\ Shutdown /\ l \in Loops
  BY Indices DEF IInv
<1>b. /\ batch[l] = <<>> /\ batch' = batch /\ queue' = [queue EXCEPT ![l] = <<>>]
      /\ UNCHANGED <<conns, connections, mainPc, connecting>>
      /\ running' = running \ {l} /\ quit[l]
  BY DEF IoLoopReturns, Dispatching, BetweenBatches, connectorVars, clientVars
<1>1. ~MainRuns'
  BY <1>a, <1>b DEF Shutdown, MainRuns
<1>2. \A k \in Loops : Queue'[k] = IF k = l THEN <<>> ELSE Queue[k]
  <2>1. \A k \in Loops : k # l => queue'[k] = queue[k]
    BY <1>a, <1>b DEF TypeOK
  <2>2. queue'[l] = <<>>
    BY <1>a, <1>b DEF TypeOK
  <2>3. \A k \in Loops : /\ Queue[k] = batch[k] \o queue[k]
                         /\ Queue'[k] = batch'[k] \o queue'[k]
    BY DEF Queue, Pending
  <2>4. <<>> \o <<>> = <<>>
    BY ConcatEmpty
  <2>5. Queue'[l] = <<>>
    BY <1>a, <1>b, <2>2, <2>3, <2>4
  <2>6. \A k \in Loops : k # l => Queue'[k] = Queue[k]
    BY <1>b, <2>1, <2>3
  <2>7. QED
    BY <2>5, <2>6
<1>3. \A k \in IoLoops : /\ Posted'[k] = IF k = l THEN {} ELSE Posted[k]
                         /\ Orderly(Queue'[k])
  <2>1. Orderly(<<>>) /\ ToSet(<<>>) = {}
    BY DEF Orderly, ToSet
  <2>2. \A k \in IoLoops : k \in Loops /\ Orderly(Queue[k])
    BY <1>a, Indices DEF ConnInv, Queues
  <2>3. \A k \in Loops : Posted[k] = ToSet(Queue[k]) /\ Posted'[k] = ToSet(Queue'[k])
    BY DEF Posted
  <2>4. QED
    BY <1>2, <2>1, <2>2, <2>3
<1>4. /\ ConnIds' = ConnIds
      /\ \A c : /\ New(c)' <=> New(c)
                /\ Up(c)' <=> Up(c)
                /\ Closed(c)' <=> Closed(c)
                /\ TornDown(c)' <=> TornDown(c)
                /\ Mapped(c)' <=> Mapped(c)
  BY <1>b DEF ConnIds, New, Up, Closed, TornDown, Mapped
<1>5. Stages' /\ Held'
  BY <1>a, <1>1, <1>4 DEF ConnInv, Stages, Held
<1>6. Addressed'
  BY <1>a, <1>b, <1>1, <1>3, <1>4 DEF ConnInv, Addressed
<1>7. Queues'
  BY <1>1, <1>3 DEF Queues
<1>8. Lives'
  <2>1. \A c \in ConnIds : conns[c].loop \in IoLoops
    BY <1>a, ConnType
  <2>2. QED
    BY <1>a, <1>b, <1>3, <1>4, <2>1 DEF ConnInv, Lives
<1>9. Entries' /\ Descriptors' /\ Unused'
  BY <1>a, <1>b, <1>4 DEF ConnInv, Entries, Descriptors, Unused
<1>10. QED
  BY <1>5, <1>6, <1>7, <1>8, <1>9 DEF ConnInv

\* What is not torn down is held while the base loop runs, so that its
\* descriptor stays open.
KeptAlive ==
    MainRuns =>
        /\ \A c \in ConnIds : TornDown(c) \/ c \in Alive
        /\ Alive \subseteq ConnIds

LEMMA HeldIsAlive == IInv => KeptAlive
<1> SUFFICES ASSUME IInv, MainRuns
             PROVE  /\ \A c \in ConnIds : TornDown(c) \/ c \in Alive
                    /\ Alive \subseteq ConnIds
  BY DEF KeptAlive
<1>a. TypeOK /\ ConnInv
  BY DEF IInv
<1>1. ASSUME NEW l \in Loops
      PROVE  \A c : c \in ConnsOf(queue[l]) \cup ConnsOf(batch[l])
                       <=> \E f \in Posted[l] : f.conn = c
  <2>1. queue[l] \in Seq(Functors) /\ batch[l] \in Seq(Functors)
    BY <1>a DEF TypeOK
  <2>2. Posted[l] = ToSet(batch[l] \o queue[l])
    BY DEF Posted, Queue, Pending
  <2>3. Posted[l] = ToSet(batch[l]) \cup ToSet(queue[l])
    BY <2>1, <2>2, ElementsOfConcat
  <2>4. \A s : \A c : c \in ConnsOf(s) <=> \E f \in ToSet(s) : f.conn = c
    BY DEF ConnsOf, ToSet
  <2>5. QED
    BY <2>3, <2>4
<1>2. ASSUME NEW c \in ConnIds, ~TornDown(c) PROVE c \in Alive
  <2>1. Mapped(c) \/ Destroyed(c) \in Posted[conns[c].loop]
    BY <1>a, <1>2 DEF ConnInv, Held
  <2>2. CASE Mapped(c)
    BY <2>2 DEF Mapped, Alive, Range
  <2>3. CASE Destroyed(c) \in Posted[conns[c].loop]
    <3>1. conns[c].loop \in Loops /\ Destroyed(c).conn = c
      BY <1>a, ConnType, Calls
    <3>2. c \in ConnsOf(queue[conns[c].loop]) \cup ConnsOf(batch[conns[c].loop])
      BY <1>1, <2>3, <3>1
    <3>3. QED
      BY <3>1, <3>2 DEF Alive
  <2>4. QED
    BY <2>1, <2>2, <2>3
<1>3. ASSUME NEW c \in Alive PROVE c \in ConnIds
  <2>1. CASE c \in Range(connections)
    BY <1>a, <2>1 DEF TypeOK
  <2>2. ASSUME NEW l \in Loops, c \in ConnsOf(queue[l]) \cup ConnsOf(batch[l])
        PROVE  c \in ConnIds
    <3>1. PICK f \in Posted[l] : f.conn = c
      BY <1>1, <2>2
    <3>2. QED
      BY <1>a, <3>1, Indices DEF ConnInv, Addressed
  <2>3. ASSUME NEW l \in Loops, c \in spent[l] PROVE c \in ConnIds
    BY <1>a, <2>3 DEF TypeOK
  <2>4. QED
    BY <2>1, <2>2, <2>3 DEF Alive
<1>4. QED
  BY <1>2, <1>3

\* The kernel gives no descriptor of a connection that is not torn down.
LEMMA ConnectStartsKeeps ==
    ASSUME IInv, ConnectStarts
    PROVE  ConnInv' /\ Unused'
<1>a. TypeOK /\ ConnInv /\ Unused /\ MainRuns
  BY DEF IInv, ConnectStarts, BeginConnect, MainRuns
<1>1. PICK sockfd \in Fds \ OpenFds : connecting' = connecting \cup {sockfd}
  BY DEF ConnectStarts
<1>2. UNCHANGED <<mainVars, clientVars, executorVars>>
  BY DEF ConnectStarts, BeginConnect
<1>3. ConnInv'
  <2>1. Queue' = Queue /\ UNCHANGED <<conns, connections, running>>
        /\ (MainRuns' <=> MainRuns)
    BY <1>2 DEF Queue, Pending, executorVars, clientVars, mainVars, MainRuns
  <2>2. QED
    BY <1>a, <2>1, Frame
<1>4. ASSUME NEW c \in ConnIds, conns[c].fd = sockfd PROVE TornDown(c)
  BY <1>a, <1>4, HeldIsAlive DEF KeptAlive, OpenFds
<1>5. Unused'
  BY <1>a, <1>1, <1>2, <1>4 DEF Unused, ConnIds, TornDown, clientVars
<1>6. QED
  BY <1>3, <1>5

\* No step disturbs the inductive invariant of the pool.
LEMMA IInvStep == IInv /\ [Next]_vars => IInv'
<1> SUFFICES ASSUME IInv, [Next]_vars PROVE ConnInv' /\ Unused'
  BY TypeStep, ShutdownStep DEF IInv
<1> USE DEF mainVars, connectorVars, clientVars, executorVars
<1>a. TypeOK /\ ConnInv /\ Unused
  BY DEF IInv
<1>b. /\ Base \in Loops /\ Base \notin IoLoops /\ Loops = {Base} \cup IoLoops
      /\ queue \in [Loops -> Seq(Functors)] /\ batch \in [Loops -> Seq(Functors)]
  BY <1>a, Indices DEF TypeOK
<1>c. ASSUME UNCHANGED <<conns, connections, running>>,
             \A l \in IoLoops : Queue'[l] = Queue[l],
             MainRuns' => MainRuns /\ Queue'[Base] = Queue[Base],
             \A fd \in connecting' : fd \in connecting
      PROVE  ConnInv' /\ Unused'
  <2>1. ConnInv'
    BY <1>a, <1>c, Frame
  <2>2. Unused'
    BY <1>a, <1>c DEF Unused, ConnIds, TornDown
  <2>3. QED
    BY <2>1, <2>2
<1>1. ASSUME UNCHANGED <<conns, connections, running, queue, batch, connecting>>,
             MainRuns' => MainRuns
      PROVE  ConnInv' /\ Unused'
  <2>1. Queue' = Queue
    BY <1>1 DEF Queue, Pending
  <2>2. QED
    BY <1>1, <1>c, <2>1
<1>2. CASE ConnectStarts
  BY <1>2, ConnectStartsKeeps
<1>3. CASE \/ ConnectFails \/ EnterLoop \/ LoopReturns \/ DestroyPool \/ QuitThread
           \/ WakeThread \/ JoinThread \/ PoolDestroyed \/ TimerQuits \/ UNCHANGED vars
  BY <1>1, <1>3
     DEF ConnectFails, BeginConnect, EnterLoop, LoopReturns, DestroyPool, QuitThread,
         WakeThread, JoinThread, PoolDestroyed, TimerQuits, vars, MainRuns
<1>4. ASSUME NEW l \in Loops, EndPendingFunctors(l) PROVE ConnInv' /\ Unused'
  BY <1>1, <1>4 DEF EndPendingFunctors, MainRuns
<1>5. ASSUME NEW l \in Loops, SwapFunctors(l) PROVE ConnInv' /\ Unused'
  <2>1. /\ batch[l] = <<>> /\ batch'[l] = queue[l] /\ queue'[l] = <<>>
        /\ \A k \in Loops : k # l => batch'[k] = batch[k] /\ queue'[k] = queue[k]
    BY <1>5, <1>b DEF SwapFunctors, Dispatching, BetweenBatches
  <2>2. \A k \in Loops : /\ Queue[k] = batch[k] \o queue[k]
                         /\ Queue'[k] = batch'[k] \o queue'[k]
    BY DEF Queue, Pending
  <2>3. queue[l] \in Seq(Functors)
    BY <1>b
  <2>4. <<>> \o queue[l] = queue[l] /\ queue[l] \o <<>> = queue[l]
    BY <2>3, ConcatEmpty
  <2>5. \A k \in Loops : Queue'[k] = Queue[k]
    BY <2>1, <2>2, <2>4
  <2>6. UNCHANGED <<conns, connections, running, connecting, mainPc>>
    BY <1>5 DEF SwapFunctors
  <2>7. QED
    BY <1>b, <1>c, <2>5, <2>6 DEF MainRuns
<1>6. ASSUME NEW sockfd \in connecting, HandleConnectError(sockfd)
      PROVE  ConnInv' /\ Unused'
  <2>1. Queue' = Queue
    BY <1>6 DEF HandleConnectError, Queue, Pending
  <2>2. QED
    BY <1>6, <1>c, <2>1 DEF HandleConnectError, MainRuns
<1>7. CASE DestroyBaseLoop
  <2>1. \A k \in IoLoops : queue'[k] = queue[k] /\ batch'[k] = batch[k]
    BY <1>7, <1>b DEF DestroyBaseLoop
  <2>2. \A k \in IoLoops : Queue'[k] = Queue[k]
    BY <1>b, <2>1 DEF Queue, Pending
  <2>3. QED
    BY <1>7, <1>c, <2>2 DEF DestroyBaseLoop, MainRuns
<1>8. QED
  BY <1>b, <1>2, <1>3, <1>4, <1>5, <1>6, <1>7, HandleConnectedKeeps,
     ConnectEstablishedKeeps, ConnectDestroyedKeeps, HandleCloseKeeps,
     RemoveConnectionKeeps, DestroyConnectionKeeps, IoLoopReturnsKeeps
     DEF Next, MainProgress, IoProgress, Network

LEMMA InitIInv == Init => IInv
<1> SUFFICES ASSUME Init PROVE IInv
  OBVIOUS
<1>1. ConnIds = {} /\ DOMAIN connections = {}
  BY DEF Init, ConnIds
<1>2. \A l \in Loops : Queue[l] = <<>> /\ Posted[l] = {}
  <2>1. \A l \in Loops : queue[l] = <<>> /\ batch[l] = <<>>
    BY DEF Init
  <2>2. <<>> \o <<>> = <<>> /\ ToSet(<<>>) = {}
    BY ConcatEmpty DEF ToSet
  <2>3. QED
    BY <2>1, <2>2 DEF Queue, Posted, Pending
<1>3. Orderly(<<>>)
  BY DEF Orderly
<1>4. ConnInv /\ Unused
  BY <1>1, <1>2, <1>3, Indices
     DEF ConnInv, Unused, Stages, Addressed, Queues, Lives, Held, Entries, Descriptors
<1>5. QED
  BY <1>4, TypeInit DEF IInv

LEMMA IInvariant == Spec => []IInv
  BY InitIInv, IInvStep, PTL DEF Spec

-------------------------------------------------------------------------------
(* What follows from the invariant.                                        *)

\* A functor is what its call and its connection say.
LEMMA FunctorParts ==
    \A f \in Functors : f = Functor(f.call, f.conn)
  BY DEF Functors, Functor

\* A removal finds the entry of its own connection.
LEMMA RemovalFinds == IInv => RemovalFindsItsEntry
<1> SUFFICES ASSUME IInv, mainPc = "loop", NEW c \in ConnsOf(Pending(Base))
             PROVE  conns[c].fd \in DOMAIN connections /\ connections[conns[c].fd] = c
  BY DEF RemovalFindsItsEntry
<1>a. TypeOK /\ ConnInv /\ MainRuns /\ Base \in Loops
  BY Indices DEF IInv, MainRuns
<1>1. Queue[Base] \in Seq(Functors) /\ Posted[Base] = ToSet(Queue[Base])
  BY <1>a, QueueType
<1>2. PICK i \in DOMAIN Queue[Base] : Queue[Base][i].conn = c
  BY <1>a DEF ConnsOf, Queue
<1>3. PICK f \in Functors : f \in Posted[Base] /\ f.conn = c
  BY <1>1, <1>2 DEF ToSet
<1>4. c \in ConnIds /\ f.call = "removeConnectionInLoop"
  BY <1>a, <1>3 DEF ConnInv, Addressed
<1>5. Removal(c) \in Posted[Base]
  BY <1>3, <1>4, FunctorParts DEF Removal
<1>6. QED
  BY <1>a, <1>4, <1>5 DEF ConnInv, Held, Entries, Mapped

\* The entry that Client::removeConnectionInLoop() erases is the entry of the
\* connection it was posted for, though the map's key is a descriptor that the
\* kernel may have given away again.
THEOREM RemovalsFindTheirEntries == Spec => []RemovalFindsItsEntry
  BY IInvariant, RemovalFinds, PTL

\* A channel in a poller is that of a connection that is not torn down.
LEMMA ChannelPerFd == IInv => OneChannelPerFd
<1> SUFFICES ASSUME IInv, NEW c \in ConnIds, NEW d \in ConnIds,
                    c # d, conns[c].fd = conns[d].fd,
                    conns[c].index # "kNew", conns[d].index # "kNew"
             PROVE  FALSE
  BY DEF OneChannelPerFd
<1>1. ~TornDown(c) /\ ~TornDown(d)
  BY DEF TornDown
<1>2. QED
  BY <1>1 DEF IInv, ConnInv, Descriptors

\* The assertions of EPoller::updateChannel() hold in the pollers of all io
\* loops: no two connections of a loop have channels for one descriptor.
THEOREM ChannelsAreDistinct == Spec => []OneChannelPerFd
  BY IInvariant, ChannelPerFd, PTL

\* The functor an io loop runs next finds its connection as the code asserts.
LEMMA FunctorMeets == IInv => FunctorMeetsItsState
<1> SUFFICES ASSUME IInv, NEW l \in IoLoops, batch[l] # <<>>,
                    NEW f, f = Head(batch[l])
             PROVE  IF f.call = "connectEstablished"
                    THEN conns[f.conn].state = "kConnecting"
                    ELSE conns[f.conn].index # "kNew"
  BY DEF FunctorMeetsItsState
<1>a. TypeOK /\ ConnInv /\ Shutdown /\ l \in Loops
  BY Indices DEF IInv
<1>b. l \in running
  BY <1>a DEF Shutdown
<1>1. /\ Queue[l] \in Seq(Functors) /\ Posted[l] = ToSet(Queue[l])
      /\ Queue[l] = batch[l] \o queue[l]
  BY <1>a, QueueType
<1>2. batch[l] \in Seq(Functors) /\ queue[l] \in Seq(Functors)
  BY <1>a DEF TypeOK
<1>3. Queue[l] # <<>> /\ Head(Queue[l]) = f
  <2>1. /\ batch[l] \o queue[l] # <<>>
        /\ Head(batch[l] \o queue[l]) = Head(batch[l])
    BY <1>2, ConcatTail
  <2>2. QED
    BY <1>1, <2>1
<1>4. Orderly(Queue[l])
  BY <1>a DEF ConnInv, Queues
<1>5. /\ f \in Posted[l]
      /\ f.call = "connectDestroyed" =>
           \A g \in Posted[l] : g.call = "connectEstablished" => g.conn # f.conn
  <2>1. PICK s \in Seq(Functors) : s = Queue[l]
    BY <1>1
  <2>2. s # <<>> /\ Head(s) = f /\ Orderly(s)
    BY <1>3, <1>4, <2>1
  <2>3. /\ Head(s) \in ToSet(s)
        /\ Head(s).call = "connectDestroyed" =>
              \A g \in ToSet(s) : g.call = "connectEstablished" => g.conn # Head(s).conn
    BY <2>2, OrderlyTail
  <2>4. QED
    BY <1>1, <2>1, <2>2, <2>3
<1>6. f = Functor(f.call, f.conn)
  <2>1. f \in Functors
    BY <1>2
  <2>2. QED
    BY <2>1, FunctorParts
<1>7. PICK c \in ConnIds : c = f.conn /\ conns[c].loop = l
  BY <1>a, <1>5 DEF ConnInv, Addressed
<1>8. f.call \in {"connectEstablished", "connectDestroyed"}
  BY <1>a, <1>5 DEF ConnInv, Addressed
<1>9. CASE f.call = "connectEstablished"
  <2>1. Established(c) \in Posted[l]
    BY <1>5, <1>6, <1>7, <1>9 DEF Established
  <2>2. New(c)
    BY <1>a, <1>7, <2>1 DEF ConnInv, Lives
  <2>3. QED
    BY <1>7, <1>9, <2>2 DEF New
<1>10. CASE f.call = "connectDestroyed"
  <2>1. Destroyed(c) \in Posted[l]
    BY <1>5, <1>6, <1>7, <1>10 DEF Destroyed
  <2>2. ~TornDown(c)
    BY <1>a, <1>7, <2>1 DEF ConnInv, Lives
  <2>3. Established(c) \notin Posted[l]
    BY <1>5, <1>7, <1>10, Calls
  <2>4. ~New(c)
    BY <1>a, <1>b, <1>7, <2>3 DEF ConnInv, Lives
  <2>5. Up(c) \/ Closed(c)
    BY <1>a, <2>2, <2>4 DEF ConnInv, Stages
  <2>6. QED
    BY <1>7, <1>10, <2>5 DEF Up, Closed
<1>11. QED
  BY <1>8, <1>9, <1>10

\* assert(state_ == kConnecting) of connectEstablished() and the assertions of
\* removeChannel() under connectDestroyed() hold, whichever thread posted the
\* functors and in whatever order their batches run.
THEOREM FunctorsMeetTheirStates == Spec => []FunctorMeetsItsState
  BY IInvariant, FunctorMeets, PTL

-------------------------------------------------------------------------------
(* The number of clients.                                                  *)

Finite == IsFiniteSet(DOMAIN connections) /\ IsFiniteSet(connecting)

\* Every client asked for is connected, on its way, or lost to a failed
\* attempt: a removal and its reconnection never change the number.
ClientsAccounted ==
    mainPc \in {"start", "loop"} =>
        Cardinality(DOMAIN connections) + Cardinality(connecting)
            + toConnect + lost = NumSocks

Counted == Finite /\ ClientsAccounted

\* The entry of a descriptor that is being connected is free.
LEMMA EntryIsFree ==
    ASSUME IInv, NEW sockfd \in connecting
    PROVE  sockfd \notin DOMAIN connections
<1> SUFFICES ASSUME sockfd \in DOMAIN connections PROVE FALSE
  OBVIOUS
<1>1. PICK c \in ConnIds : c = connections[sockfd] /\ conns[c].fd = sockfd
  BY DEF IInv, ConnInv, Entries
<1>2. TornDown(c)
  BY <1>1 DEF IInv, Unused
<1>3. Mapped(c)
  BY <1>1 DEF Mapped
<1>4. QED
  BY <1>2, <1>3 DEF IInv, ConnInv, Lives

\* A client passes from connect() to connecting, from there to connections_ or
\* to the lost ones, and from connections_ back to connect(): one at a time, as
\* the contract of the pool has it.
LEMMA PoolStep == IInv /\ Finite /\ [Next]_vars => Finite' /\ [Pool!Next]_(Pool!vars)
<1> SUFFICES ASSUME IInv, Finite, [Next]_vars PROVE Finite' /\ [Pool!Next]_(Pool!vars)
  OBVIOUS
<1> USE DEF mainVars, connectorVars, clientVars, executorVars
<1>a. /\ TypeOK /\ toConnect \in Nat /\ lost \in Nat
      /\ IsFiniteSet(DOMAIN connections) /\ IsFiniteSet(connecting)
      /\ Cardinality(DOMAIN connections) \in Nat /\ Cardinality(connecting) \in Nat
  <2>1. TypeOK /\ IsFiniteSet(DOMAIN connections) /\ IsFiniteSet(connecting)
    BY DEF IInv, Finite
  <2>2. toConnect \in Nat /\ lost \in Nat
    BY <2>1, Indices DEF TypeOK
  <2>3. QED
    BY <2>1, <2>2, FS_CardinalityType
<1>c. ASSUME UNCHANGED <<connections, connecting, toConnect, lost>>, MainRuns' = MainRuns
      PROVE  Finite' /\ [Pool!Next]_(Pool!vars)
  BY <1>a, <1>c DEF Finite, Pool!vars, MainRuns
<1>1. CASE \/ EnterLoop \/ DestroyPool \/ QuitThread \/ WakeThread \/ JoinThread
           \/ PoolDestroyed \/ DestroyBaseLoop \/ TimerQuits \/ UNCHANGED vars
  BY <1>c, <1>1
     DEF EnterLoop, DestroyPool, QuitThread, WakeThread, JoinThread, PoolDestroyed,
         DestroyBaseLoop, TimerQuits, vars, MainRuns
<1>2. ASSUME NEW l \in Loops,
             SwapFunctors(l) \/ EndPendingFunctors(l)
      PROVE  Finite' /\ [Pool!Next]_(Pool!vars)
  BY <1>c, <1>2 DEF SwapFunctors, EndPendingFunctors, MainRuns
<1>3. ASSUME NEW l \in IoLoops, IoLoopReturns(l)
      PROVE  Finite' /\ [Pool!Next]_(Pool!vars)
  BY <1>c, <1>3 DEF IoLoopReturns, MainRuns
<1>4. ASSUME NEW l \in IoLoops, NEW c \in ConnIds,
             ConnectEstablished(l, c) \/ ConnectDestroyed(l, c)
      PROVE  Finite' /\ [Pool!Next]_(Pool!vars)
  BY <1>c, <1>4 DEF ConnectEstablished, ConnectDestroyed, MainRuns
<1>5. ASSUME NEW c \in ConnIds, HandleClose(c)
      PROVE  Finite' /\ [Pool!Next]_(Pool!vars)
  BY <1>c, <1>5 DEF HandleClose, MainRuns
<1>6. CASE ConnectStarts
  <2>1. PICK sockfd \in Fds \ OpenFds : connecting' = connecting \cup {sockfd}
    BY <1>6 DEF ConnectStarts
  <2>2. sockfd \notin connecting
    BY <2>1 DEF OpenFds
  <2>3. IsFiniteSet(connecting') /\ Cardinality(connecting') = Cardinality(connecting) + 1
    BY <1>a, <2>1, <2>2, FS_AddElement
  <2>4. /\ mainPc \in {"start", "loop"} /\ toConnect > 0 /\ toConnect' = toConnect - 1
        /\ UNCHANGED <<mainPc, connections, lost>>
    BY <1>6 DEF ConnectStarts, BeginConnect
  <2>5. Pool!Try
    BY <2>3, <2>4 DEF Pool!Try
  <2>6. QED
    BY <1>a, <2>3, <2>4, <2>5 DEF Finite, Pool!Next
<1>7. CASE ConnectFails
  <2>1. /\ mainPc \in {"start", "loop"} /\ toConnect > 0 /\ toConnect' = toConnect - 1
        /\ lost' = lost + 1 /\ UNCHANGED <<mainPc, connections, connecting>>
    BY <1>7 DEF ConnectFails, BeginConnect
  <2>2. Pool!Refuse
    BY <2>1 DEF Pool!Refuse
  <2>3. QED
    BY <1>a, <2>1, <2>2 DEF Finite, Pool!Next
<1>8. ASSUME NEW sockfd \in connecting, HandleConnected(sockfd)
      PROVE  Finite' /\ [Pool!Next]_(Pool!vars)
  <2>1. PICK c : connections' = WithConnection(sockfd, c)
    BY <1>8 DEF HandleConnected
  <2>2. DOMAIN connections' = DOMAIN connections \cup {sockfd}
    BY <2>1, WithConnectionTypes
  <2>3. sockfd \notin DOMAIN connections
    BY EntryIsFree
  <2>4. /\ IsFiniteSet(DOMAIN connections')
        /\ Cardinality(DOMAIN connections') = Cardinality(DOMAIN connections) + 1
    BY <1>a, <2>2, <2>3, FS_AddElement
  <2>5. /\ mainPc = "loop" /\ toConnect = 0 /\ connecting' = connecting \ {sockfd}
        /\ UNCHANGED <<mainPc, toConnect, lost>>
    BY <1>8 DEF HandleConnected, Dispatching, InLoop
  <2>6. /\ IsFiniteSet(connecting')
        /\ Cardinality(connecting') = Cardinality(connecting) - 1
    BY <1>a, <2>5, FS_RemoveElement
  <2>7. Cardinality(connecting) > 0
    BY <1>a, <2>6, FS_CardinalityType
  <2>8. Pool!Connect
    BY <2>4, <2>5, <2>6, <2>7 DEF Pool!Connect
  <2>9. QED
    BY <2>4, <2>6, <2>8 DEF Finite, Pool!Next
<1>9. ASSUME NEW sockfd \in connecting, HandleConnectError(sockfd)
      PROVE  Finite' /\ [Pool!Next]_(Pool!vars)
  <2>1. /\ mainPc = "loop" /\ toConnect = 0 /\ connecting' = connecting \ {sockfd}
        /\ lost' = lost + 1 /\ UNCHANGED <<mainPc, toConnect, connections>>
    BY <1>9 DEF HandleConnectError, Dispatching, InLoop
  <2>2. /\ IsFiniteSet(connecting')
        /\ Cardinality(connecting') = Cardinality(connecting) - 1
    BY <1>a, <2>1, FS_RemoveElement
  <2>3. Cardinality(connecting) > 0
    BY <1>a, <2>2, FS_CardinalityType
  <2>4. Pool!Fail
    BY <2>1, <2>2, <2>3 DEF Pool!Fail
  <2>5. QED
    BY <1>a, <2>1, <2>2, <2>4 DEF Finite, Pool!Next
<1>10. ASSUME NEW sockfd \in DOMAIN connections, connections' = Erase(sockfd)
       PROVE  /\ IsFiniteSet(DOMAIN connections')
              /\ Cardinality(DOMAIN connections') = Cardinality(DOMAIN connections) - 1
              /\ Cardinality(DOMAIN connections) > 0
  <2>1. DOMAIN connections' = DOMAIN connections \ {sockfd}
    BY <1>a, <1>10, EraseTypes
  <2>2. /\ IsFiniteSet(DOMAIN connections')
        /\ Cardinality(DOMAIN connections') = Cardinality(DOMAIN connections) - 1
    BY <1>a, <1>10, <2>1, FS_RemoveElement
  <2>3. QED
    BY <1>a, <2>2, FS_CardinalityType
<1>11. ASSUME NEW c \in ConnIds, RemoveConnectionInLoop(c)
       PROVE  Finite' /\ [Pool!Next]_(Pool!vars)
  <2>1. conns[c].fd \in DOMAIN connections
    BY <1>11, RemovalEffect
  <2>2. /\ mainPc = "loop" /\ toConnect = 0 /\ toConnect' = 1
        /\ connections' = Erase(conns[c].fd) /\ UNCHANGED <<mainPc, connecting, lost>>
    BY <1>11 DEF RemoveConnectionInLoop, RunFunctor, InLoop, Reconnects
  <2>3. /\ IsFiniteSet(DOMAIN connections')
        /\ Cardinality(DOMAIN connections') = Cardinality(DOMAIN connections) - 1
        /\ Cardinality(DOMAIN connections) > 0
    BY <1>10, <2>1, <2>2
  <2>4. Pool!Replace
    BY <2>2, <2>3 DEF Pool!Replace
  <2>5. QED
    BY <1>a, <2>2, <2>3, <2>4 DEF Finite, Pool!Next
<1>12. CASE DestroyConnection
  <2>1. PICK sockfd \in DOMAIN connections : connections' = Erase(sockfd)
    BY <1>12 DEF DestroyConnection
  <2>2. /\ IsFiniteSet(DOMAIN connections')
        /\ Cardinality(DOMAIN connections') = Cardinality(DOMAIN connections) - 1
        /\ Cardinality(DOMAIN connections) > 0
    BY <1>10, <2>1
  <2>3. mainPc = "~Client" /\ UNCHANGED <<mainPc, toConnect, connecting, lost>>
    BY <1>12 DEF DestroyConnection
  <2>4. Pool!Release
    BY <2>2, <2>3 DEF Pool!Release
  <2>5. QED
    BY <1>a, <2>2, <2>3, <2>4 DEF Finite, Pool!Next
<1>13. CASE LoopReturns
  <2>1. /\ mainPc = "loop" /\ toConnect = 0 /\ mainPc' = "~Client"
        /\ UNCHANGED <<connections, connecting, toConnect, lost>>
    BY <1>13 DEF LoopReturns, Dispatching, InLoop
  <2>2. Pool!Stop
    BY <2>1 DEF Pool!Stop
  <2>3. QED
    BY <1>a, <2>1, <2>2 DEF Finite, Pool!Next
<1>14. QED
  BY <1>1, <1>2, <1>3, <1>4, <1>5, <1>6, <1>7, <1>8, <1>9, <1>11, <1>12, <1>13, Indices
     DEF Next, MainProgress, IoProgress, Network

\* No step of the contract changes the number of clients while it is open.
LEMMA CountedStep == IInv /\ Counted /\ [Next]_vars => Counted'
<1> SUFFICES ASSUME IInv, Counted, [Next]_vars PROVE Counted'
  OBVIOUS
<1>1. Finite' /\ [Pool!Next]_(Pool!vars)
  BY PoolStep DEF Counted
<1> DEFINE connected == Cardinality(DOMAIN connections)
           trying == Cardinality(connecting)
<1>2. /\ toConnect \in Nat /\ lost \in Nat /\ NumSocks \in Nat
      /\ connected \in Nat /\ trying \in Nat
      /\ toConnect' \in Nat /\ lost' \in Nat
      /\ connected' \in Nat /\ trying' \in Nat
  <2>1. Finite /\ Finite' /\ TypeOK /\ TypeOK'
    BY <1>1, IInvStep DEF IInv, Counted
  <2>2. /\ toConnect \in Nat /\ lost \in Nat /\ NumSocks \in Nat
        /\ toConnect' \in Nat /\ lost' \in Nat
    BY <2>1, Indices DEF TypeOK
  <2>3. QED
    BY <2>1, <2>2, FS_CardinalityType DEF Finite
<1>3. MainRuns => connected + trying + toConnect + lost = NumSocks
  BY DEF Counted, ClientsAccounted, MainRuns
<1>4. ASSUME MainRuns'
      PROVE  /\ MainRuns
             /\ connected' + trying' + toConnect' + lost'
                   = connected + trying + toConnect + lost
  <2>1. MainRuns
    BY <1>1, <1>4
       DEF Pool!Next, Pool!vars, Pool!Try, Pool!Refuse, Pool!Connect, Pool!Fail,
           Pool!Replace, Pool!Stop, Pool!Release, MainRuns
  <2>2. \/ UNCHANGED <<connected, trying, toConnect, lost>>
        \/ /\ trying' = trying + 1 /\ toConnect' = toConnect - 1
           /\ UNCHANGED <<connected, lost>>
        \/ /\ lost' = lost + 1 /\ toConnect' = toConnect - 1
           /\ UNCHANGED <<connected, trying>>
        \/ /\ connected' = connected + 1 /\ trying' = trying - 1
           /\ UNCHANGED <<toConnect, lost>>
        \/ /\ lost' = lost + 1 /\ trying' = trying - 1
           /\ UNCHANGED <<connected, toConnect>>
        \/ /\ connected' = connected - 1 /\ toConnect' = toConnect + 1
           /\ UNCHANGED <<trying, lost>>
    BY <1>1, <1>2, <1>4, <2>1
       DEF Pool!Next, Pool!vars, Pool!Try, Pool!Refuse, Pool!Connect, Pool!Fail,
           Pool!Replace, Pool!Stop, Pool!Release, MainRuns
  <2>3. QED
    BY ONLY <1>2, <2>1, <2>2
<1>5. MainRuns' => connected' + trying' + toConnect' + lost' = NumSocks
  BY <1>3, <1>4
<1>6. QED
  BY <1>1, <1>5 DEF Counted, ClientsAccounted, MainRuns

LEMMA CountedInit == Init => Counted
<1> SUFFICES ASSUME Init PROVE Counted
  OBVIOUS
<1>1. DOMAIN connections = {} /\ connecting = {} /\ toConnect = NumSocks /\ lost = 0
  BY DEF Init
<1>2. IsFiniteSet({}) /\ Cardinality({}) = 0
  BY FS_EmptySet
<1>3. QED
  BY <1>1, <1>2, Indices DEF Counted, Finite, ClientsAccounted

\* Every client asked for is connected, on its way, or lost to a failed
\* attempt: whatever the network does, a removal is replaced by exactly one
\* connect(), and no descriptor is counted twice.
THEOREM NoClientIsForgotten == Spec => []ClientsAccounted
<1>1. Init => IInv /\ Counted
  BY InitIInv, CountedInit
<1>2. IInv /\ Counted /\ [Next]_vars => (IInv /\ Counted)'
  BY IInvStep, CountedStep
<1>3. IInv /\ Counted => ClientsAccounted
  BY DEF Counted
<1>4. QED
  BY <1>1, <1>2, <1>3, PTL DEF Spec

\* The pool keeps what it promises the benchmark, for any number of clients and
\* connections: two threads, functors under way and reused descriptors amount
\* to one client moved at a time.
THEOREM ImplementsClientPool == Spec => ImplementsPool
<1>1. Init => IInv /\ Counted /\ Pool!Init
  <2>1. Init => Cardinality(connecting) = 0 /\ Cardinality(DOMAIN connections) = 0
    BY FS_EmptySet DEF Init
  <2>2. Init => Pool!Init
    BY <2>1 DEF Init, Pool!Init
  <2>3. QED
    BY <2>2, InitIInv, CountedInit
<1>2. IInv /\ Counted /\ [Next]_vars => (IInv /\ Counted)'
  BY IInvStep, CountedStep
<1>3. IInv /\ Counted /\ [Next]_vars => [Pool!Next]_(Pool!vars)
  BY PoolStep DEF Counted
<1>4. QED
  BY <1>1, <1>2, <1>3, PTL DEF Spec, ImplementsPool, Pool!Spec

-------------------------------------------------------------------------------
(* The end of a connection.                                                *)

\* conns only grows.
LEMMA ConnIdsGrow == TypeOK /\ Shutdown /\ [Next]_vars => ConnIds \subseteq ConnIds'
<1> SUFFICES ASSUME TypeOK, Shutdown, [Next]_vars PROVE ConnIds \subseteq ConnIds'
  OBVIOUS
<1> USE DEF mainVars, connectorVars, clientVars, executorVars
<1>a. conns \in Seq(Conns)
  BY ConnType
<1>1. ASSUME conns' = conns PROVE ConnIds \subseteq ConnIds'
  BY <1>1 DEF ConnIds
<1>2. CASE \/ ConnectStarts \/ ConnectFails \/ EnterLoop \/ LoopReturns
           \/ DestroyConnection \/ DestroyPool \/ QuitThread \/ WakeThread
           \/ JoinThread \/ PoolDestroyed \/ DestroyBaseLoop \/ TimerQuits
           \/ UNCHANGED vars
  BY <1>1, <1>2
     DEF ConnectStarts, ConnectFails, BeginConnect, EnterLoop, LoopReturns,
         DestroyConnection, DestroyPool, QuitThread, WakeThread, JoinThread,
         PoolDestroyed, DestroyBaseLoop, TimerQuits, vars
<1>3. ASSUME NEW l, SwapFunctors(l) \/ EndPendingFunctors(l) \/ IoLoopReturns(l)
      PROVE  ConnIds \subseteq ConnIds'
  BY <1>1, <1>3 DEF SwapFunctors, EndPendingFunctors, IoLoopReturns
<1>4. ASSUME NEW c \in ConnIds, RemoveConnectionInLoop(c) PROVE ConnIds \subseteq ConnIds'
  BY <1>1, <1>4 DEF RemoveConnectionInLoop
<1>5. ASSUME NEW l, NEW c \in ConnIds,
             ConnectEstablished(l, c) \/ ConnectDestroyed(l, c) \/ HandleClose(c)
      PROVE  ConnIds \subseteq ConnIds'
  <2>1. DOMAIN conns' = DOMAIN conns
    BY <1>5 DEF ConnectEstablished, ConnectDestroyed, HandleClose
  <2>2. QED
    BY <2>1 DEF ConnIds
<1>6. ASSUME NEW sockfd \in connecting, HandleConnected(sockfd)
      PROVE  ConnIds \subseteq ConnIds'
  <2>1. PICK conn : conns' = Append(conns, conn)
    BY <1>6 DEF HandleConnected
  <2>2. DOMAIN conns' = 1 .. Len(conns) + 1 /\ DOMAIN conns = 1 .. Len(conns)
        /\ Len(conns) \in Nat
    BY <1>a, <2>1
  <2>3. QED
    BY <2>2 DEF ConnIds
<1>7. ASSUME NEW sockfd \in connecting, HandleConnectError(sockfd)
      PROVE  ConnIds \subseteq ConnIds'
  BY <1>1, <1>7 DEF HandleConnectError
<1>8. QED
  BY <1>2, <1>3, <1>4, <1>5, <1>6, <1>7
     DEF Next, MainProgress, IoProgress, Network

\* The base loop runs until it does not.
LEMMA MainRunsBefore == [Next]_vars /\ mainPc' = "loop" => MainRuns
<1> SUFFICES ASSUME [Next]_vars, mainPc' = "loop" PROVE MainRuns
  OBVIOUS
<1> USE DEF mainVars, connectorVars, clientVars, executorVars
<1>1. ASSUME mainPc' = mainPc PROVE MainRuns
  BY <1>1 DEF MainRuns
<1>2. CASE \/ ConnectStarts \/ ConnectFails \/ EnterLoop \/ LoopReturns
           \/ DestroyConnection \/ DestroyPool \/ QuitThread \/ WakeThread
           \/ JoinThread \/ PoolDestroyed \/ DestroyBaseLoop \/ TimerQuits
           \/ UNCHANGED vars
  BY <1>1, <1>2
     DEF ConnectStarts, ConnectFails, BeginConnect, EnterLoop, LoopReturns,
         DestroyConnection, DestroyPool, QuitThread, WakeThread, JoinThread,
         PoolDestroyed, DestroyBaseLoop, TimerQuits, vars, MainRuns
<1>3. ASSUME NEW l, SwapFunctors(l) \/ EndPendingFunctors(l) \/ IoLoopReturns(l)
      PROVE  MainRuns
  BY <1>1, <1>3 DEF SwapFunctors, EndPendingFunctors, IoLoopReturns
<1>4. ASSUME NEW l, NEW c,
             \/ RemoveConnectionInLoop(c) \/ ConnectEstablished(l, c)
             \/ ConnectDestroyed(l, c) \/ HandleClose(c)
             \/ HandleConnected(c) \/ HandleConnectError(c)
      PROVE  MainRuns
  BY <1>1, <1>4
     DEF RemoveConnectionInLoop, ConnectEstablished, ConnectDestroyed, HandleClose,
         HandleConnected, HandleConnectError
<1>5. QED
  BY <1>2, <1>3, <1>4 DEF Next, MainProgress, IoProgress, Network

\* While the base loop runs a connection is destroyed only when it is
\* disconnected and out of the poller: the last reference is never dropped by
\* the thread that still has work for it.
THEOREM ConnectionsDieTornDown == Spec => DestroyedAfterTeardown
<1>1. ASSUME IInv, IInv', [Next]_vars
      PROVE  mainPc' = "loop" =>
               \A c \in Alive \ Alive' :
                   conns'[c].state = "kDisconnected" /\ conns'[c].index = "kNew"
  <2>1. SUFFICES ASSUME mainPc' = "loop", NEW c \in Alive \ Alive'
                 PROVE  conns'[c].state = "kDisconnected" /\ conns'[c].index = "kNew"
    OBVIOUS
  <2>2. MainRuns /\ MainRuns'
    <3>1. MainRuns'
      BY <2>1 DEF MainRuns
    <3>2. QED
      BY <1>1, <2>1, <3>1, MainRunsBefore
  <2>3. KeptAlive /\ KeptAlive'
    BY <1>1, HeldIsAlive, PTL
  <2>4. c \in ConnIds
    BY <2>1, <2>2, <2>3 DEF KeptAlive
  <2>5. c \in ConnIds'
    BY <1>1, <2>4, ConnIdsGrow DEF IInv
  <2>6. TornDown(c)'
    BY <2>1, <2>2, <2>3, <2>5 DEF KeptAlive
  <2>7. QED
    BY <2>6 DEF TornDown
<1>2. QED
  BY <1>1, IInvariant, PTL DEF Spec, DestroyedAfterTeardown

-------------------------------------------------------------------------------
(* The end of the threads.                                                 *)

\* The destructors pass a thread only when it has ended, and the pool is gone
\* when all are passed.
Passed ==
    /\ \A l \in IoLoops : l < closing => l \notin running
    /\ mainPc \in {"~EventLoop", "returned"} => closing > NumLoops

\* An io thread posts the closes it sees to the base loop and calls the Client
\* for it (Client::removeConnection()): neither is destroyed while a thread may
\* still do so, wherever the threads are when the destructors begin.
BaseLoopOutlivesThreads == mainPc \in {"~EventLoop", "returned"} => running = {}

LEMMA PassedStep == TypeOK /\ Shutdown /\ Passed /\ [Next]_vars => Passed'
<1> SUFFICES ASSUME TypeOK, Shutdown, Passed, [Next]_vars PROVE Passed'
  OBVIOUS
<1> USE DEF mainVars, connectorVars, clientVars, executorVars
<1>a. NumLoops \in Nat /\ closing \in 0 .. NumLoops + 1 /\ IoLoops = 1 .. NumLoops
  BY Indices DEF TypeOK, IoLoops
<1>1. ASSUME UNCHANGED mainVars PROVE Passed'
  BY <1>1 DEF Passed
<1>2. CASE ConnectStarts \/ ConnectFails \/ DestroyConnection \/ UNCHANGED vars
  BY <1>1, <1>2 DEF ConnectStarts, ConnectFails, BeginConnect, DestroyConnection, vars
<1>3. ASSUME NEW l, SwapFunctors(l) \/ EndPendingFunctors(l) PROVE Passed'
  BY <1>1, <1>3 DEF SwapFunctors, EndPendingFunctors
<1>4. ASSUME NEW l, NEW c,
             \/ RemoveConnectionInLoop(c) \/ ConnectEstablished(l, c)
             \/ ConnectDestroyed(l, c) \/ HandleClose(c)
             \/ HandleConnected(c) \/ HandleConnectError(c)
      PROVE  Passed'
  BY <1>1, <1>4
     DEF RemoveConnectionInLoop, ConnectEstablished, ConnectDestroyed, HandleClose,
         HandleConnected, HandleConnectError
<1>5. CASE EnterLoop \/ LoopReturns \/ TimerQuits \/ QuitThread \/ WakeThread
  <2>1. UNCHANGED <<closing, running>>
    BY <1>5 DEF EnterLoop, LoopReturns, TimerQuits, QuitThread, WakeThread
  <2>2. mainPc' \notin {"~EventLoop", "returned"} \/ mainPc' = mainPc
    BY <1>5 DEF EnterLoop, LoopReturns, TimerQuits, QuitThread, WakeThread
  <2>3. QED
    BY <2>1, <2>2 DEF Passed
<1>6. CASE DestroyPool
  <2>1. closing' = 1 /\ mainPc' = "quitThread"
    BY <1>6 DEF DestroyPool
  <2>2. QED
    BY <1>a, <2>1 DEF Passed
<1>7. CASE JoinThread
  <2>1. closing \notin running /\ closing' = closing + 1 /\ mainPc' = "quitThread"
        /\ running' = running
    BY <1>7 DEF JoinThread
  <2>2. ASSUME NEW l \in IoLoops, l < closing' PROVE l \notin running'
    <3>1. l < closing \/ l = closing
      BY <1>a, <2>1, <2>2
    <3>2. QED
      BY <2>1, <3>1 DEF Passed
  <2>3. QED
    BY <2>1, <2>2 DEF Passed
<1>8. ASSUME NEW l, IoLoopReturns(l) PROVE Passed'
  BY <1>8 DEF IoLoopReturns, Passed
<1>9. CASE PoolDestroyed
  BY <1>9 DEF PoolDestroyed, Passed
<1>10. CASE DestroyBaseLoop
  BY <1>10 DEF DestroyBaseLoop, Passed
<1>11. QED
  BY <1>2, <1>3, <1>4, <1>5, <1>6, <1>7, <1>8, <1>9, <1>10
     DEF Next, MainProgress, IoProgress, Network

\* For any number of threads, wherever each is when the time is over, the base
\* loop and the Client are destroyed after the last of them.
THEOREM ThreadsEndFirst == Spec => []BaseLoopOutlivesThreads
<1>1. Init => Passed
  BY DEF Init, Passed, IoLoops
<1>2. TypeOK /\ Passed => BaseLoopOutlivesThreads
  <2> SUFFICES ASSUME TypeOK, Passed, mainPc \in {"~EventLoop", "returned"}
               PROVE  running = {}
    BY DEF BaseLoopOutlivesThreads
  <2>1. NumLoops \in Nat /\ closing \in Nat /\ closing > NumLoops
        /\ running \subseteq IoLoops
    BY Indices DEF TypeOK, Passed
  <2>2. \A l \in IoLoops : l < closing
    BY <2>1 DEF IoLoops
  <2>3. QED
    BY <2>1, <2>2 DEF Passed
<1>3. QED
  BY <1>1, <1>2, TypeInit, TypeStep, ShutdownStep, PassedStep, PTL DEF Spec

-------------------------------------------------------------------------------
(* The lives of connections.                                               *)

\* One connection goes on with its life, the others stay where they are.
LEMMA OneGoesOn ==
    ASSUME TypeOK, NEW e, NEW c \in ConnIds,
           NEW state \in {"kConnecting", "kConnected", "kDisconnected"},
           NEW index \in {"kNew", "kAdded", "kDeleted"},
           conns' = [conns EXCEPT ![c].state = state, ![c].index = index],
           \/ New(c) /\ state = "kConnected" /\ index = "kAdded"
           \/ Up(c) /\ state = "kDisconnected" /\ index = "kDeleted"
           \/ (Up(c) \/ Closed(c)) /\ state = "kDisconnected" /\ index = "kNew"
    PROVE  [Connection(e)!Next]_(Connection(e)!vars)
<1> USE DEF Connection!Next, Connection!vars, Connection!Establish, Connection!Close,
            Connection!TearDown
<1>1. /\ ConnIds' = ConnIds
      /\ \A d \in ConnIds : d # c => conns'[d] = conns[d]
      /\ conns'[c].state = state /\ conns'[c].index = index
  BY ConnChange
<1>2. CASE e # c
  <2>1. e \in ConnIds => conns'[e] = conns[e]
    BY <1>1, <1>2
  <2>2. StateOf(e)' = StateOf(e) /\ IndexOf(e)' = IndexOf(e)
    BY ONLY <1>1, <2>1 DEF StateOf, IndexOf
  <2>3. QED
    BY ONLY <2>2 DEF Connection!vars
<1>3. CASE e = c
  <2>1. /\ StateOf(e) = conns[c].state /\ IndexOf(e) = conns[c].index
        /\ StateOf(e)' = state /\ IndexOf(e)' = index
    BY <1>1, <1>3 DEF StateOf, IndexOf
  <2>2. QED
    BY <2>1 DEF New, Up, Closed
<1>4. QED
  BY <1>2, <1>3

\* A step that changes no connection leaves every life as it is.
LEMMA NoneGoesOn ==
    ASSUME NEW e, conns' = conns
    PROVE  [Connection(e)!Next]_(Connection(e)!vars)
  BY DEF Connection!Next, Connection!vars, StateOf, IndexOf, ConnIds

\* The functor that runs next is one for which its connection is ready.
LEMMA StepIsOfLives ==
    ASSUME IInv, [Next]_vars, NEW e
    PROVE  [Connection(e)!Next]_(Connection(e)!vars)
<1> USE DEF mainVars, connectorVars, clientVars, executorVars
<1>a. TypeOK /\ Stages /\ FunctorMeetsItsState
  BY FunctorMeets DEF IInv, ConnInv
<1>1. CASE \/ ConnectStarts \/ ConnectFails \/ EnterLoop \/ LoopReturns
           \/ DestroyConnection \/ DestroyPool \/ QuitThread \/ WakeThread
           \/ JoinThread \/ PoolDestroyed \/ DestroyBaseLoop \/ TimerQuits
           \/ UNCHANGED vars
  BY <1>1, NoneGoesOn
     DEF ConnectStarts, ConnectFails, BeginConnect, EnterLoop, LoopReturns,
         DestroyConnection, DestroyPool, QuitThread, WakeThread, JoinThread,
         PoolDestroyed, DestroyBaseLoop, TimerQuits, vars
<1>2. ASSUME NEW l, SwapFunctors(l) \/ EndPendingFunctors(l) \/ IoLoopReturns(l)
      PROVE  [Connection(e)!Next]_(Connection(e)!vars)
  BY <1>2, NoneGoesOn DEF SwapFunctors, EndPendingFunctors, IoLoopReturns
<1>3. ASSUME NEW c, RemoveConnectionInLoop(c) \/ HandleConnectError(c)
      PROVE  [Connection(e)!Next]_(Connection(e)!vars)
  BY <1>3, NoneGoesOn DEF RemoveConnectionInLoop, HandleConnectError
<1>4. ASSUME NEW l \in IoLoops, NEW c \in ConnIds, ConnectEstablished(l, c)
      PROVE  [Connection(e)!Next]_(Connection(e)!vars)
  <2>1. batch[l] # <<>> /\ Head(batch[l]) = Functor("connectEstablished", c)
    BY <1>4 DEF ConnectEstablished, RunFunctor
  <2>2. conns[c].state = "kConnecting"
    BY <1>a, <2>1 DEF FunctorMeetsItsState, Functor
  <2>3. New(c)
    BY <1>a, <2>2 DEF Stages, Up, Closed, TornDown
  <2>4. conns' = [conns EXCEPT ![c].state = "kConnected", ![c].index = "kAdded"]
    BY <1>4 DEF ConnectEstablished, IndexAfterUpdate
  <2>5. QED
    BY <1>a, <2>3, <2>4, OneGoesOn
<1>5. ASSUME NEW l \in IoLoops, NEW c \in ConnIds, ConnectDestroyed(l, c)
      PROVE  [Connection(e)!Next]_(Connection(e)!vars)
  <2>1. batch[l] # <<>> /\ Head(batch[l]) = Functor("connectDestroyed", c)
    BY <1>5 DEF ConnectDestroyed, RunFunctor
  <2>2. conns[c].index # "kNew"
    BY <1>a, <2>1 DEF FunctorMeetsItsState, Functor
  <2>3. Up(c) \/ Closed(c)
    BY <1>a, <2>2 DEF Stages, New, TornDown
  <2>4. conns' = [conns EXCEPT ![c].state = "kDisconnected", ![c].index = "kNew"]
    <3>1. (IF conns[c].state = "kConnected" THEN "kDisconnected" ELSE conns[c].state)
              = "kDisconnected"
      BY <2>3 DEF Up, Closed
    <3>2. QED
      BY <1>5, <3>1 DEF ConnectDestroyed, IndexAfterRemove
  <2>5. QED
    BY <1>a, <2>3, <2>4, OneGoesOn
<1>6. ASSUME NEW c \in ConnIds, HandleClose(c)
      PROVE  [Connection(e)!Next]_(Connection(e)!vars)
  <2>1. Up(c)
    BY <1>a, <1>6 DEF HandleClose, Stages, New, Closed, TornDown
  <2>2. conns' = [conns EXCEPT ![c].state = "kDisconnected", ![c].index = "kDeleted"]
    BY <1>6 DEF HandleClose, IndexAfterUpdate
  <2>3. QED
    BY <1>a, <2>1, <2>2, OneGoesOn
<1>7. ASSUME NEW sockfd \in connecting, HandleConnected(sockfd)
      PROVE  [Connection(e)!Next]_(Connection(e)!vars)
  <2> DEFINE conn == [fd |-> sockfd, loop |-> nextLoop, state |-> "kConnecting",
                      index |-> "kNew"]
  <2>1. conn \in Conns /\ conns' = Append(conns, conn)
    BY <1>a, <1>7 DEF HandleConnected, TypeOK, Conns
  <2>2. conn.state = "kConnecting" /\ conn.index = "kNew"
    OBVIOUS
  <2> HIDE DEF conn
  <2>3. StateOf(e)' = StateOf(e) /\ IndexOf(e)' = IndexOf(e)
    <3>1. /\ Len(conns) + 1 \notin ConnIds
          /\ ConnIds' = ConnIds \cup {Len(conns) + 1}
          /\ \A c \in ConnIds : conns'[c] = conns[c]
          /\ conns'[Len(conns) + 1] = conn
      BY <1>a, <2>1, NewConn
    <3>2. QED
      BY <2>2, <3>1 DEF StateOf, IndexOf
  <2>4. QED
    BY <2>3 DEF Connection!vars
<1>8. QED
  BY <1>1, <1>2, <1>3, <1>4, <1>5, <1>6, <1>7
     DEF Next, MainProgress, IoProgress, Network

\* Every connection has the life of module ConnectionLife, with the functors of
\* the base loop and of its io loop in any order the queues allow: it is
\* established once, and torn down once, by removeConnectionInLoop() or by
\* ~Client(), never by both.
THEOREM LivesOfConnections == Spec => ImplementsLife
<1>1. Init => \A c \in 1 .. MaxConns : Connection(c)!Init
  <2>1. Init => ConnIds = {}
    BY DEF Init, ConnIds
  <2>2. QED
    BY <2>1 DEF Connection!Init, StateOf, IndexOf
<1>2. IInv /\ [Next]_vars =>
        [\A c \in 1 .. MaxConns : [Connection(c)!Next]_(Connection(c)!vars)]_vars
  BY StepIsOfLives
<1>3. QED
  BY <1>1, <1>2, IInvariant, PTL DEF Spec, ImplementsLife
===============================================================================
