----------------------------- MODULE EPollerProofs -----------------------------
(***************************************************************************)
(* Proofs about EPoller, for any pollers, descriptors and bounds.          *)
(*                                                                         *)
(* Calls on the pollers are operators from states to states.  A state is   *)
(* well formed, and Agrees when the kernel watches what the channels ask   *)
(* for; Touched says what a call does to its channel.  Each call is one    *)
(* lemma on these, under the condition that its channel is alone with its  *)
(* descriptor at its poller.  That it is alone follows from the lives of   *)
(* channels, of which Owners says what the actions keep.                   *)
(***************************************************************************)
EXTENDS EPoller, TLAPS

EventSets == SUBSET {"read", "write"}

WellFormed(s) ==
    /\ s = [chan |-> s.chan, channels |-> s.channels, epoll |-> s.epoll]
    /\ s.chan \in Seq(Channels)
    /\ s.channels \in [Pollers -> [Fds -> DOMAIN s.chan \cup {None}]]
    /\ s.epoll \in [Pollers -> [Fds -> [channel : DOMAIN s.chan \cup {None},
                                        events : EventSets]]]

Unused == {"done", "lost", "removed", "destroyed"}

\* An entry of the kernel is that of a channel in use.
RegisteredAt(s, opn, p, fd) ==
    LET c == s.epoll[p][fd].channel
    IN  /\ c \in DOMAIN s.chan
        /\ s.chan[c].life \notin Unused
        /\ s.chan[c].home = p
        /\ s.chan[c].fd = fd
        /\ fd \in opn
        /\ s.channels[p][fd] = c
        /\ s.chan[c].index = "kAdded"
        /\ s.epoll[p][fd].events = s.chan[c].events

Registered(s, opn) ==
    \A p \in Pollers, fd \in Fds : s.epoll[p][fd] # NoEntry => RegisteredAt(s, opn, p, fd)

\* A channel in use has the entry it asks for.
Watched(s) ==
    \A c \in DOMAIN s.chan : s.chan[c].life \notin Unused /\ s.chan[c].events # {} =>
        s.epoll[s.chan[c].home][s.chan[c].fd] = Entry(s, c)

AddedIfAsked(s) ==
    \A c \in DOMAIN s.chan : s.chan[c].index = "kAdded" <=> s.chan[c].events # {}

\* Only a channel that is new may be missing in channels_.
Mapped(s) ==
    \A c \in DOMAIN s.chan : s.chan[c].life \notin Unused /\ s.chan[c].index # "kNew" =>
        s.channels[s.chan[c].home][s.chan[c].fd] = c

Agrees(s, opn) == Registered(s, opn) /\ Watched(s) /\ AddedIfAsked(s) /\ Mapped(s)

\* No other channel in use has the descriptor at the same poller.
Alone(s, c) ==
    \A d \in DOMAIN s.chan :
        /\ d # c
        /\ s.chan[d].home = s.chan[c].home
        /\ s.chan[d].fd = s.chan[c].fd
        => s.chan[d].life \in Unused

\* t is s but for channel c.
Touched(s, t, c, events, index, life) ==
    /\ DOMAIN t.chan = DOMAIN s.chan
    /\ \A d \in DOMAIN s.chan : d # c => t.chan[d] = s.chan[d]
    /\ t.chan[c].fd = s.chan[c].fd
    /\ t.chan[c].home = s.chan[c].home
    /\ t.chan[c].events = events
    /\ t.chan[c].index = index
    /\ t.chan[c].life = life

\* As Touched, as far as the life of a connection goes.
Turns(s, t, c, index, life) ==
    /\ DOMAIN t.chan = DOMAIN s.chan
    /\ \A d \in DOMAIN s.chan : d # c => t.chan[d] = s.chan[d]
    /\ t.chan[c].home = s.chan[c].home
    /\ t.chan[c].index = index
    /\ t.chan[c].life = life

\* t is s with one channel more: one of Connector, or one of a new connection.
Adds(s, t, n) ==
    /\ n \notin DOMAIN s.chan
    /\ DOMAIN t.chan = DOMAIN s.chan \cup {n}
    /\ \A d \in DOMAIN s.chan : t.chan[d] = s.chan[d]
    /\ \/ t.chan[n].home = Base
       \/ t.chan[n].index = "kNew" /\ t.chan[n].life = "posted"

\* What a call does to poller p, at the descriptor of its channel.
Placed(s, t, p, fd, mapped, entry) ==
    /\ t.channels[p][fd] = mapped
    /\ t.epoll[p][fd] = entry
    /\ \A q \in Pollers, g \in Fds : ~(q = p /\ g = fd) =>
         t.channels[q][g] = s.channels[q][g] /\ t.epoll[q][g] = s.epoll[q][g]

-------------------------------------------------------------------------------
(* Single assignments.                                                     *)

\* A sequence with one element replaced.
LEMMA SeqExcept ==
    ASSUME NEW S, NEW q \in Seq(S), NEW i \in DOMAIN q, NEW e \in S
    PROVE  /\ [q EXCEPT ![i] = e] \in Seq(S)
           /\ DOMAIN [q EXCEPT ![i] = e] = DOMAIN q
           /\ [q EXCEPT ![i] = e][i] = e
           /\ \A j \in DOMAIN q : j # i => [q EXCEPT ![i] = e][j] = q[j]
<1>1. q \in [1 .. Len(q) -> S] /\ Len(q) \in Nat /\ DOMAIN q = 1 .. Len(q)
  OBVIOUS
<1>2. [q EXCEPT ![i] = e] \in [1 .. Len(q) -> S]
  BY <1>1
<1>3. [q EXCEPT ![i] = e] \in Seq(S)
  BY <1>1, <1>2
<1> QED
  BY <1>1, <1>2, <1>3

\* An entry of a function of functions replaced.
LEMMA TableExcept ==
    ASSUME NEW A, NEW B, NEW S, NEW m \in [A -> [B -> S]], NEW a \in A, NEW b \in B, NEW v \in S
    PROVE  LET n == [m EXCEPT ![a] = [m[a] EXCEPT ![b] = v]]
           IN  /\ n \in [A -> [B -> S]]
               /\ n[a][b] = v
               /\ \A x \in A, y \in B : ~(x = a /\ y = b) => n[x][y] = m[x][y]
<1> DEFINE r == [m[a] EXCEPT ![b] = v]
<1>1. m[a] \in [B -> S]
  OBVIOUS
<1>2. r \in [B -> S] /\ r[b] = v /\ \A y \in B : y # b => r[y] = m[a][y]
  BY <1>1
<1> HIDE DEF r
<1>3. [m EXCEPT ![a] = r] \in [A -> [B -> S]] /\ [m EXCEPT ![a] = r][a] = r
      /\ \A x \in A : x # a => [m EXCEPT ![a] = r][x] = m[x]
  BY <1>2
<1>4. \A x \in A, y \in B : ~(x = a /\ y = b) => [m EXCEPT ![a] = r][x][y] = m[x][y]
  BY <1>2, <1>3
<1>5. [m EXCEPT ![a] = r][a][b] = v
  BY <1>2, <1>3
<1> QED
  BY <1>3, <1>4, <1>5 DEF r

\* The fields of a channel are of their types.
LEMMA ChannelTypes ==
    ASSUME NEW s, WellFormed(s), NEW c \in DOMAIN s.chan
    PROVE  /\ s.chan[c] \in Channels
           /\ s.chan[c].fd \in Fds
           /\ s.chan[c].home \in Pollers
           /\ s.chan[c].home # Connector
           /\ s.chan[c].events \in EventSets
           /\ s.chan[c].index \in {"kNew", "kAdded", "kDeleted"}
           /\ s.chan[c].life \in Lives
<1>1. s.chan[c] \in Channels
  BY DEF WellFormed
<1> QED
  BY <1>1, EPollerAssumption DEF Channels, Pollers, Base, Connector, EventSets

\* SetEvents().
LEMMA SetEventsEffect ==
    ASSUME NEW s, WellFormed(s), NEW c \in DOMAIN s.chan, NEW events \in EventSets
    PROVE  LET t == SetEvents(s, c, events)
           IN  /\ WellFormed(t)
               /\ Touched(s, t, c, events, s.chan[c].index, s.chan[c].life)
               /\ t.channels = s.channels /\ t.epoll = s.epoll
<1> DEFINE e == [s.chan[c] EXCEPT !.events = events]
           q == [s.chan EXCEPT ![c] = e]
<1>1. e \in Channels /\ e.events = events /\ e.index = s.chan[c].index
      /\ e.life = s.chan[c].life /\ e.fd = s.chan[c].fd /\ e.home = s.chan[c].home
  BY ChannelTypes DEF Channels, EventSets
<1>2. SetEvents(s, c, events) = [chan |-> q, channels |-> s.channels, epoll |-> s.epoll]
  <2>1. s = [chan |-> s.chan, channels |-> s.channels, epoll |-> s.epoll]
    BY DEF WellFormed
  <2> QED  BY <2>1 DEF SetEvents
<1>3. s.chan \in Seq(Channels)
  BY DEF WellFormed
<1>4. q \in Seq(Channels) /\ DOMAIN q = DOMAIN s.chan /\ q[c] = e
      /\ \A j \in DOMAIN s.chan : j # c => q[j] = s.chan[j]
  <2> HIDE DEF e
  <2> QED  BY <1>1, <1>3, SeqExcept
<1> HIDE DEF e, q
<1> QED
  BY <1>1, <1>2, <1>4 DEF WellFormed, Touched

\* SetIndex().
LEMMA SetIndexEffect ==
    ASSUME NEW s, WellFormed(s), NEW c \in DOMAIN s.chan,
           NEW index \in {"kNew", "kAdded", "kDeleted"}
    PROVE  LET t == SetIndex(s, c, index)
           IN  /\ WellFormed(t)
               /\ Touched(s, t, c, s.chan[c].events, index, s.chan[c].life)
               /\ t.channels = s.channels /\ t.epoll = s.epoll
<1> DEFINE e == [s.chan[c] EXCEPT !.index = index]
           q == [s.chan EXCEPT ![c] = e]
<1>1. e \in Channels /\ e.events = s.chan[c].events /\ e.index = index
      /\ e.life = s.chan[c].life /\ e.fd = s.chan[c].fd /\ e.home = s.chan[c].home
  BY ChannelTypes DEF Channels
<1>2. SetIndex(s, c, index) = [chan |-> q, channels |-> s.channels, epoll |-> s.epoll]
  <2>1. s = [chan |-> s.chan, channels |-> s.channels, epoll |-> s.epoll]
    BY DEF WellFormed
  <2> QED  BY <2>1 DEF SetIndex
<1>3. s.chan \in Seq(Channels)
  BY DEF WellFormed
<1>4. q \in Seq(Channels) /\ DOMAIN q = DOMAIN s.chan /\ q[c] = e
      /\ \A j \in DOMAIN s.chan : j # c => q[j] = s.chan[j]
  <2> HIDE DEF e
  <2> QED  BY <1>1, <1>3, SeqExcept
<1> HIDE DEF e, q
<1> QED
  BY <1>1, <1>2, <1>4 DEF WellFormed, Touched

\* SetLife().
LEMMA SetLifeEffect ==
    ASSUME NEW s, WellFormed(s), NEW c \in DOMAIN s.chan, NEW life \in Lives
    PROVE  LET t == SetLife(s, c, life)
           IN  /\ WellFormed(t)
               /\ Touched(s, t, c, s.chan[c].events, s.chan[c].index, life)
               /\ t.channels = s.channels /\ t.epoll = s.epoll
<1> DEFINE e == [s.chan[c] EXCEPT !.life = life]
           q == [s.chan EXCEPT ![c] = e]
<1>1. e \in Channels /\ e.events = s.chan[c].events /\ e.index = s.chan[c].index
      /\ e.life = life /\ e.fd = s.chan[c].fd /\ e.home = s.chan[c].home
  BY ChannelTypes DEF Channels
<1>2. SetLife(s, c, life) = [chan |-> q, channels |-> s.channels, epoll |-> s.epoll]
  <2>1. s = [chan |-> s.chan, channels |-> s.channels, epoll |-> s.epoll]
    BY DEF WellFormed
  <2> QED  BY <2>1 DEF SetLife
<1>3. s.chan \in Seq(Channels)
  BY DEF WellFormed
<1>4. q \in Seq(Channels) /\ DOMAIN q = DOMAIN s.chan /\ q[c] = e
      /\ \A j \in DOMAIN s.chan : j # c => q[j] = s.chan[j]
  <2> HIDE DEF e
  <2> QED  BY <1>1, <1>3, SeqExcept
<1> HIDE DEF e, q
<1> QED
  BY <1>1, <1>2, <1>4 DEF WellFormed, Touched

\* An assignment to channels_ and one to the epoll set.
LEMMA MapEffect ==
    ASSUME NEW s, WellFormed(s), NEW p \in Pollers, NEW fd \in Fds,
           NEW c \in DOMAIN s.chan \cup {None}
    PROVE  LET t == [s EXCEPT !.channels[p][fd] = c]
           IN  /\ WellFormed(t)
               /\ t.chan = s.chan /\ t.epoll = s.epoll
               /\ t.channels[p][fd] = c
               /\ \A q \in Pollers, g \in Fds : ~(q = p /\ g = fd) =>
                     t.channels[q][g] = s.channels[q][g]
<1> DEFINE m == [s.channels EXCEPT ![p] = [s.channels[p] EXCEPT ![fd] = c]]
<1>1. [s EXCEPT !.channels[p][fd] = c] = [chan |-> s.chan, channels |-> m, epoll |-> s.epoll]
  <2>1. s = [chan |-> s.chan, channels |-> s.channels, epoll |-> s.epoll]
    BY DEF WellFormed
  <2> QED  BY <2>1
<1>2. m \in [Pollers -> [Fds -> DOMAIN s.chan \cup {None}]]
      /\ m[p][fd] = c
      /\ \A q \in Pollers, g \in Fds : ~(q = p /\ g = fd) => m[q][g] = s.channels[q][g]
  <2>1. s.channels \in [Pollers -> [Fds -> DOMAIN s.chan \cup {None}]]
    BY DEF WellFormed
  <2> QED  BY <2>1, TableExcept
<1> HIDE DEF m
<1> QED
  BY <1>1, <1>2 DEF WellFormed

LEMMA CtlEffect ==
    ASSUME NEW s, WellFormed(s), NEW p \in Pollers, NEW fd \in Fds,
           NEW e \in [channel : DOMAIN s.chan \cup {None}, events : EventSets]
    PROVE  LET t == [s EXCEPT !.epoll[p][fd] = e]
           IN  /\ WellFormed(t)
               /\ t.chan = s.chan /\ t.channels = s.channels
               /\ t.epoll[p][fd] = e
               /\ \A q \in Pollers, g \in Fds : ~(q = p /\ g = fd) =>
                     t.epoll[q][g] = s.epoll[q][g]
<1> DEFINE m == [s.epoll EXCEPT ![p] = [s.epoll[p] EXCEPT ![fd] = e]]
<1>1. [s EXCEPT !.epoll[p][fd] = e] = [chan |-> s.chan, channels |-> s.channels, epoll |-> m]
  <2>1. s = [chan |-> s.chan, channels |-> s.channels, epoll |-> s.epoll]
    BY DEF WellFormed
  <2> QED  BY <2>1
<1>2. m \in [Pollers -> [Fds -> [channel : DOMAIN s.chan \cup {None}, events : EventSets]]]
      /\ m[p][fd] = e
      /\ \A q \in Pollers, g \in Fds : ~(q = p /\ g = fd) => m[q][g] = s.epoll[q][g]
  <2>1. s.epoll \in [Pollers -> [Fds -> [channel : DOMAIN s.chan \cup {None},
                                        events : EventSets]]]
    BY DEF WellFormed
  <2> QED  BY <2>1, TableExcept
<1> HIDE DEF m
<1> QED
  BY <1>1, <1>2 DEF WellFormed

-------------------------------------------------------------------------------
(* updateChannel() and removeChannel().                                    *)

\* Entries are of their type, and none is NoEntry.
LEMMA EntryType ==
    ASSUME NEW s, WellFormed(s), NEW c \in DOMAIN s.chan
    PROVE  /\ Entry(s, c) \in [channel : DOMAIN s.chan \cup {None}, events : EventSets]
           /\ Entry(s, c) # NoEntry
<1>1. s.chan[c].events \in EventSets
  BY ChannelTypes
<1>2. c # None
  <2>1. s.chan \in Seq(Channels)
    BY DEF WellFormed
  <2> QED  BY <2>1, EPollerAssumption
<1> QED
  BY <1>1, <1>2 DEF Entry, NoEntry

\* One change after the other.
LEMMA TouchedTwice ==
    ASSUME NEW s, NEW t, NEW u, NEW c \in DOMAIN s.chan,
           NEW events, NEW index, NEW life, NEW events2, NEW index2, NEW life2,
           Touched(s, t, c, events, index, life),
           Touched(t, u, c, events2, index2, life2)
    PROVE  Touched(s, u, c, events2, index2, life2)
BY DEF Touched

\* updateChannel() of a channel the kernel does not watch yet.
LEMMA UpdateAdds ==
    ASSUME NEW s, WellFormed(s), NEW c \in DOMAIN s.chan, NEW p \in Pollers,
           s.chan[c].index # "kAdded",
           s.chan[c].index = "kDeleted" => s.channels[p][s.chan[c].fd] = c,
           s.epoll[p][s.chan[c].fd] = NoEntry
    PROVE  LET t == Update(s, p, c)
           IN  /\ WellFormed(t)
               /\ Touched(s, t, c, s.chan[c].events, "kAdded", s.chan[c].life)
               /\ Placed(s, t, p, s.chan[c].fd, c, Entry(s, c))
<1> DEFINE fd == s.chan[c].fd
           m == IF s.chan[c].index = "kNew" THEN [s EXCEPT !.channels[p][fd] = c] ELSE s
           i == SetIndex(m, c, "kAdded")
           t == [i EXCEPT !.epoll[p][fd] = Entry(s, c)]
<1>1. fd \in Fds /\ s.chan[c].index \in {"kNew", "kDeleted"}
  BY ChannelTypes
<1>2. /\ WellFormed(m) /\ m.chan = s.chan /\ m.epoll = s.epoll /\ m.channels[p][fd] = c
      /\ \A q \in Pollers, g \in Fds : ~(q = p /\ g = fd) => m.channels[q][g] = s.channels[q][g]
  <2>1. CASE s.chan[c].index = "kNew"
    BY <1>1, <2>1, MapEffect
  <2>2. CASE s.chan[c].index = "kDeleted"
    BY <1>1, <2>2
  <2> QED  BY <1>1, <2>1, <2>2
<1>3. /\ WellFormed(i) /\ i.channels = m.channels /\ i.epoll = m.epoll
      /\ Touched(s, i, c, s.chan[c].events, "kAdded", s.chan[c].life)
  <2>1. /\ WellFormed(i) /\ i.channels = m.channels /\ i.epoll = m.epoll
        /\ Touched(m, i, c, m.chan[c].events, "kAdded", m.chan[c].life)
    <3> HIDE DEF m
    <3> QED  BY <1>2, SetIndexEffect
  <2> HIDE DEF m, i
  <2> QED  BY <1>2, <2>1 DEF Touched
<1>4. i.chan[c].fd = fd /\ Entry(i, c) = Entry(s, c) /\ DOMAIN i.chan = DOMAIN s.chan
  BY <1>3 DEF Touched, Entry
<1>5. Update(s, p, c) = t
  <2>1. i.epoll[p][i.chan[c].fd] = NoEntry
    BY <1>2, <1>3, <1>4
  <2>2. CtlAdd(i, p, c) = t
    <3> HIDE DEF i
    <3> QED  BY <2>1, <1>4 DEF CtlAdd
  <2>3. CASE s.chan[c].index = "kNew"
    BY <2>2, <2>3 DEF Update
  <2>4. CASE s.chan[c].index = "kDeleted"
    BY <2>2, <2>4 DEF Update
  <2> QED  BY <1>1, <2>3, <2>4
<1>6. /\ WellFormed(t) /\ t.chan = i.chan /\ t.channels = i.channels
      /\ t.epoll[p][fd] = Entry(s, c)
      /\ \A q \in Pollers, g \in Fds : ~(q = p /\ g = fd) => t.epoll[q][g] = i.epoll[q][g]
  <2>1. Entry(s, c) \in [channel : DOMAIN i.chan \cup {None}, events : EventSets]
    BY <1>4, EntryType
  <2> HIDE DEF i, fd
  <2> QED  BY <1>1, <1>3, <2>1, CtlEffect
<1>7. Touched(s, t, c, s.chan[c].events, "kAdded", s.chan[c].life)
  <2> HIDE DEF t, i
  <2> QED  BY <1>3, <1>6 DEF Touched
<1>8. Placed(s, t, p, fd, c, Entry(s, c))
  <2> HIDE DEF t, i, m, fd
  <2> QED  BY <1>2, <1>3, <1>6 DEF Placed
<1> QED
  BY <1>5, <1>6, <1>7, <1>8

\* updateChannel() of a channel the kernel watches.
LEMMA UpdateModifies ==
    ASSUME NEW s, WellFormed(s), NEW c \in DOMAIN s.chan, NEW p \in Pollers,
           s.chan[c].index = "kAdded", s.chan[c].events # {},
           s.epoll[p][s.chan[c].fd] # NoEntry
    PROVE  LET t == Update(s, p, c)
           IN  /\ WellFormed(t)
               /\ t.chan = s.chan
               /\ Placed(s, t, p, s.chan[c].fd, s.channels[p][s.chan[c].fd], Entry(s, c))
<1> DEFINE t == [s EXCEPT !.epoll[p][s.chan[c].fd] = Entry(s, c)]
<1>1. Update(s, p, c) = t
  BY DEF Update, CtlMod
<1>2. s.chan[c].fd \in Fds
  BY ChannelTypes
<1>3. /\ WellFormed(t) /\ t.chan = s.chan /\ t.channels = s.channels
      /\ t.epoll[p][s.chan[c].fd] = Entry(s, c)
      /\ \A q \in Pollers, g \in Fds : ~(q = p /\ g = s.chan[c].fd) =>
            t.epoll[q][g] = s.epoll[q][g]
  BY <1>2, EntryType, CtlEffect
<1> HIDE DEF t
<1> QED
  BY <1>1, <1>3 DEF Placed

\* updateChannel() of a channel that asks for nothing any more.
LEMMA UpdateDeletes ==
    ASSUME NEW s, WellFormed(s), NEW c \in DOMAIN s.chan, NEW p \in Pollers,
           s.chan[c].index = "kAdded", s.chan[c].events = {}
    PROVE  LET t == Update(s, p, c)
           IN  /\ WellFormed(t)
               /\ Touched(s, t, c, {}, "kDeleted", s.chan[c].life)
               /\ Placed(s, t, p, s.chan[c].fd, s.channels[p][s.chan[c].fd], NoEntry)
<1> DEFINE d == [s EXCEPT !.epoll[p][s.chan[c].fd] = NoEntry]
           t == SetIndex(d, c, "kDeleted")
<1>1. Update(s, p, c) = t
  BY DEF Update, CtlDel
<1>2. s.chan[c].fd \in Fds
  BY ChannelTypes
<1>3. /\ WellFormed(d) /\ d.chan = s.chan /\ d.channels = s.channels
      /\ d.epoll[p][s.chan[c].fd] = NoEntry
      /\ \A q \in Pollers, g \in Fds : ~(q = p /\ g = s.chan[c].fd) =>
            d.epoll[q][g] = s.epoll[q][g]
  <2>1. NoEntry \in [channel : DOMAIN s.chan \cup {None}, events : EventSets]
    BY DEF NoEntry, EventSets
  <2> QED  BY <1>2, <2>1, CtlEffect
<1>4. /\ WellFormed(t) /\ t.channels = d.channels /\ t.epoll = d.epoll
      /\ Touched(d, t, c, d.chan[c].events, "kDeleted", d.chan[c].life)
  <2> HIDE DEF d
  <2> QED  BY <1>3, SetIndexEffect
<1> HIDE DEF d, t
<1> QED
  BY <1>1, <1>3, <1>4 DEF Touched, Placed

\* removeChannel() of a channel the kernel does not watch.
LEMMA RemoveUnmaps ==
    ASSUME NEW s, WellFormed(s), NEW c \in DOMAIN s.chan, NEW p \in Pollers,
           s.chan[c].index # "kAdded"
    PROVE  LET t == Remove(s, p, c)
           IN  /\ WellFormed(t)
               /\ Touched(s, t, c, s.chan[c].events, "kNew", s.chan[c].life)
               /\ Placed(s, t, p, s.chan[c].fd, None, s.epoll[p][s.chan[c].fd])
<1> DEFINE d == [s EXCEPT !.channels[p][s.chan[c].fd] = None]
           t == SetIndex(d, c, "kNew")
<1>1. Remove(s, p, c) = t
  BY DEF Remove
<1>2. s.chan[c].fd \in Fds
  BY ChannelTypes
<1>3. /\ WellFormed(d) /\ d.chan = s.chan /\ d.epoll = s.epoll
      /\ d.channels[p][s.chan[c].fd] = None
      /\ \A q \in Pollers, g \in Fds : ~(q = p /\ g = s.chan[c].fd) =>
            d.channels[q][g] = s.channels[q][g]
  BY <1>2, MapEffect
<1>4. /\ WellFormed(t) /\ t.channels = d.channels /\ t.epoll = d.epoll
      /\ Touched(d, t, c, d.chan[c].events, "kNew", d.chan[c].life)
  <2> HIDE DEF d
  <2> QED  BY <1>3, SetIndexEffect
<1> HIDE DEF d, t
<1> QED
  BY <1>1, <1>3, <1>4 DEF Touched, Placed

-------------------------------------------------------------------------------
(* What keeps the kernel and the channels in agreement.                    *)

\* A call on the poller of a channel that is alone there.
LEMMA PlacedAgrees ==
    ASSUME NEW s, WellFormed(s), NEW t, WellFormed(t), NEW opn, Agrees(s, opn),
           NEW c \in DOMAIN s.chan, s.chan[c].life \notin Unused, Alone(s, c),
           s.chan[c].fd \in opn,
           NEW events, NEW index, NEW mapped, NEW entry,
           Touched(s, t, c, events, index, s.chan[c].life),
           Placed(s, t, s.chan[c].home, s.chan[c].fd, mapped, entry),
           index = "kAdded" <=> events # {},
           index # "kNew" => mapped = c,
           entry = IF events = {} THEN NoEntry ELSE [channel |-> c, events |-> events]
    PROVE  Agrees(t, opn)
<1> DEFINE home == s.chan[c].home
           fd == s.chan[c].fd
<1>1. home \in Pollers /\ fd \in Fds /\ c # None
  <2>1. c # None
    BY EntryType, EPollerAssumption DEF WellFormed
  <2> QED  BY <2>1, ChannelTypes
<1>2. /\ t.chan[c].home = home /\ t.chan[c].fd = fd /\ t.chan[c].life = s.chan[c].life
      /\ t.chan[c].events = events /\ t.chan[c].index = index
      /\ DOMAIN t.chan = DOMAIN s.chan
      /\ \A d \in DOMAIN s.chan : d # c => t.chan[d] = s.chan[d]
  BY DEF Touched
<1>3. Registered(t, opn)
  <2> SUFFICES ASSUME NEW p \in Pollers, NEW g \in Fds, t.epoll[p][g] # NoEntry
               PROVE  RegisteredAt(t, opn, p, g)
    BY DEF Registered
  <2>1. CASE p = home /\ g = fd
    <3>1. t.epoll[p][g] = [channel |-> c, events |-> events] /\ events # {}
      BY <2>1 DEF Placed
    <3>2. t.channels[p][g] = c
      BY <2>1, <3>1 DEF Placed
    <3> QED  BY <1>2, <2>1, <3>1, <3>2 DEF RegisteredAt
  <2>2. CASE ~(p = home /\ g = fd)
    <3>1. t.epoll[p][g] = s.epoll[p][g] /\ t.channels[p][g] = s.channels[p][g]
      BY <2>2 DEF Placed
    <3>2. RegisteredAt(s, opn, p, g)
      BY <3>1 DEF Agrees, Registered
    <3>3. s.epoll[p][g].channel # c
      BY <2>2, <3>2 DEF RegisteredAt
    <3> QED  BY <1>2, <3>1, <3>2, <3>3 DEF RegisteredAt
  <2> QED  BY <2>1, <2>2
<1>4. Watched(t)
  <2> SUFFICES ASSUME NEW d \in DOMAIN t.chan,
                      t.chan[d].life \notin Unused, t.chan[d].events # {}
               PROVE  t.epoll[t.chan[d].home][t.chan[d].fd]
                        = [channel |-> d, events |-> t.chan[d].events]
    BY DEF Watched, Entry
  <2>1. CASE d = c
    BY <1>2, <2>1 DEF Placed
  <2>2. CASE d # c
    <3>1. t.chan[d] = s.chan[d] /\ d \in DOMAIN s.chan
      BY <1>2, <2>2
    <3>2. ~(s.chan[d].home = home /\ s.chan[d].fd = fd)
      BY <2>2, <3>1 DEF Alone
    <3>3. s.chan[d].home \in Pollers /\ s.chan[d].fd \in Fds
      BY <3>1, ChannelTypes
    <3>4. t.epoll[s.chan[d].home][s.chan[d].fd] = s.epoll[s.chan[d].home][s.chan[d].fd]
      BY <3>2, <3>3 DEF Placed
    <3>5. s.epoll[s.chan[d].home][s.chan[d].fd] = [channel |-> d, events |-> s.chan[d].events]
      BY <3>1 DEF Agrees, Watched, Entry
    <3> QED  BY <3>1, <3>4, <3>5
  <2> QED  BY <2>1, <2>2
<1>5. AddedIfAsked(t)
  BY <1>2 DEF AddedIfAsked, Agrees
<1>6. Mapped(t)
  <2> SUFFICES ASSUME NEW d \in DOMAIN t.chan,
                      t.chan[d].life \notin Unused, t.chan[d].index # "kNew"
               PROVE  t.channels[t.chan[d].home][t.chan[d].fd] = d
    BY DEF Mapped
  <2>1. CASE d = c
    BY <1>2, <2>1 DEF Placed
  <2>2. CASE d # c
    <3>1. t.chan[d] = s.chan[d] /\ d \in DOMAIN s.chan
      BY <1>2, <2>2
    <3>2. ~(s.chan[d].home = home /\ s.chan[d].fd = fd)
      BY <2>2, <3>1 DEF Alone
    <3>3. s.chan[d].home \in Pollers /\ s.chan[d].fd \in Fds
      BY <3>1, ChannelTypes
    <3>4. t.channels[s.chan[d].home][s.chan[d].fd] = s.channels[s.chan[d].home][s.chan[d].fd]
      BY <3>2, <3>3 DEF Placed
    <3>5. s.channels[s.chan[d].home][s.chan[d].fd] = d
      BY <3>1 DEF Agrees, Mapped
    <3> QED  BY <3>1, <3>4, <3>5
  <2> QED  BY <2>1, <2>2
<1> QED
  BY <1>3, <1>4, <1>5, <1>6 DEF Agrees

\* What an entry of epoll says, named by its channel.
LEMMA RegisteredFacts ==
    ASSUME NEW s, NEW opn, NEW p, NEW g, NEW k,
           k = s.epoll[p][g].channel, RegisteredAt(s, opn, p, g)
    PROVE  /\ k \in DOMAIN s.chan
           /\ s.chan[k].life \notin Unused
           /\ s.chan[k].home = p /\ s.chan[k].fd = g
           /\ g \in opn
           /\ s.channels[p][g] = k
           /\ s.chan[k].index = "kAdded"
           /\ s.epoll[p][g].events = s.chan[k].events
  BY DEF RegisteredAt

\* An entry stays right while its channel keeps its place and stays in use.
LEMMA RegisteredKept ==
    ASSUME NEW s, NEW t, NEW opn, NEW opn2, NEW p, NEW g, NEW k,
           k = s.epoll[p][g].channel, RegisteredAt(s, opn, p, g),
           t.epoll[p][g] = s.epoll[p][g], t.channels[p][g] = s.channels[p][g],
           k \in DOMAIN t.chan, t.chan[k].life \notin Unused,
           t.chan[k].home = s.chan[k].home, t.chan[k].fd = s.chan[k].fd,
           t.chan[k].index = s.chan[k].index, t.chan[k].events = s.chan[k].events,
           g \in opn2
    PROVE  RegisteredAt(t, opn2, p, g)
  BY DEF RegisteredAt

\* The kernel watches no channel under the descriptor of one that is alone
\* and asks for nothing.
LEMMA NoEntryOfOthers ==
    ASSUME NEW s, WellFormed(s), NEW opn, Agrees(s, opn),
           NEW c \in DOMAIN s.chan, Alone(s, c), s.chan[c].events = {}
    PROVE  s.epoll[s.chan[c].home][s.chan[c].fd] = NoEntry
<1> DEFINE e == s.epoll[s.chan[c].home][s.chan[c].fd]
<1>1. s.chan[c].home \in Pollers /\ s.chan[c].fd \in Fds
  BY ChannelTypes
<1>2. e # NoEntry => /\ e.channel \in DOMAIN s.chan
                     /\ s.chan[e.channel].life \notin Unused
                     /\ s.chan[e.channel].home = s.chan[c].home
                     /\ s.chan[e.channel].fd = s.chan[c].fd
                     /\ s.chan[e.channel].index = "kAdded"
  <2>1. Registered(s, opn)
    BY DEF Agrees
  <2> DEFINE home == s.chan[c].home
             fd == s.chan[c].fd
  <2>2. home \in Pollers /\ fd \in Fds
    BY <1>1
  <2> HIDE DEF home, fd
  <2>3. s.epoll[home][fd] # NoEntry =>
          /\ s.epoll[home][fd].channel \in DOMAIN s.chan
          /\ s.chan[s.epoll[home][fd].channel].life \notin Unused
          /\ s.chan[s.epoll[home][fd].channel].home = home
          /\ s.chan[s.epoll[home][fd].channel].fd = fd
          /\ s.chan[s.epoll[home][fd].channel].index = "kAdded"
    <3>1. SUFFICES ASSUME s.epoll[home][fd] # NoEntry
                   PROVE  /\ s.epoll[home][fd].channel \in DOMAIN s.chan
                          /\ s.chan[s.epoll[home][fd].channel].life \notin Unused
                          /\ s.chan[s.epoll[home][fd].channel].home = home
                          /\ s.chan[s.epoll[home][fd].channel].fd = fd
                          /\ s.chan[s.epoll[home][fd].channel].index = "kAdded"
      OBVIOUS
    <3>2. RegisteredAt(s, opn, home, fd)
      BY <2>1, <2>2, <3>1 DEF Registered
    <3>3. PICK k : k = s.epoll[home][fd].channel
      OBVIOUS
    <3> QED  BY <3>2, <3>3, RegisteredFacts
  <2> QED  BY <2>3 DEF home, fd
<1>3. s.chan[c].index # "kAdded"
  BY DEF Agrees, AddedIfAsked
<1> QED
  BY <1>2, <1>3 DEF Alone

\* enableReading() and enableWriting().
LEMMA EnableAgrees ==
    ASSUME NEW s, WellFormed(s), NEW opn, Agrees(s, opn),
           NEW c \in DOMAIN s.chan, s.chan[c].life \notin Unused, Alone(s, c),
           s.chan[c].fd \in opn, NEW more \in EventSets, more # {}
    PROVE  LET t == Enable(s, c, more)
           IN  /\ WellFormed(t)
               /\ Agrees(t, opn)
               /\ Touched(s, t, c, s.chan[c].events \cup more, "kAdded", s.chan[c].life)
<1> DEFINE home == s.chan[c].home
           fd == s.chan[c].fd
           ev == s.chan[c].events \cup more
           e == SetEvents(s, c, ev)
           t == Update(e, home, c)
<1>0. Enable(s, c, more) = t
  BY DEF Enable
<1>1. home \in Pollers /\ fd \in Fds /\ ev \in EventSets /\ ev # {}
      /\ s.chan[c].index \in {"kNew", "kAdded", "kDeleted"}
  BY ChannelTypes DEF EventSets
<1>2. /\ WellFormed(e)
      /\ Touched(s, e, c, ev, s.chan[c].index, s.chan[c].life)
      /\ e.channels = s.channels /\ e.epoll = s.epoll
  BY <1>1, SetEventsEffect
<1> HIDE DEF e, ev
<1>3. /\ c \in DOMAIN e.chan /\ e.chan[c].index = s.chan[c].index /\ e.chan[c].fd = fd
      /\ e.chan[c].events = ev /\ e.chan[c].life = s.chan[c].life
      /\ Entry(e, c) = [channel |-> c, events |-> ev]
  BY <1>2 DEF Touched, Entry
<1>4. /\ WellFormed(t)
      /\ Touched(e, t, c, ev, "kAdded", s.chan[c].life)
      /\ Placed(e, t, home, fd, c, [channel |-> c, events |-> ev])
  <2>1. CASE s.chan[c].index # "kAdded"
    <3>1. s.chan[c].events = {}
      BY <2>1 DEF Agrees, AddedIfAsked
    <3>2. e.epoll[home][fd] = NoEntry
      BY <1>2, <3>1, NoEntryOfOthers
    <3>3. s.chan[c].index = "kDeleted" => e.channels[home][fd] = c
      BY <1>2 DEF Agrees, Mapped
    <3> HIDE DEF t, home, fd
    <3>4. LET u == Update(e, home, c)
          IN  /\ WellFormed(u)
              /\ Touched(e, u, c, e.chan[c].events, "kAdded", e.chan[c].life)
              /\ Placed(e, u, home, e.chan[c].fd, c, Entry(e, c))
      BY <1>1, <1>2, <1>3, <2>1, <3>2, <3>3, UpdateAdds
    <3> QED  BY <1>3, <3>4 DEF t
  <2>2. CASE s.chan[c].index = "kAdded"
    <3>1. s.chan[c].events # {}
      BY <2>2 DEF Agrees, AddedIfAsked
    <3>2. e.epoll[home][fd] # NoEntry
      BY <1>2, <3>1, EntryType DEF Agrees, Watched
    <3>3. e.channels[home][fd] = c
      BY <1>2, <2>2 DEF Agrees, Mapped
    <3> HIDE DEF t, home, fd
    <3>4. LET u == Update(e, home, c)
          IN  /\ WellFormed(u)
              /\ u.chan = e.chan
              /\ Placed(e, u, home, e.chan[c].fd, e.channels[home][e.chan[c].fd], Entry(e, c))
      BY <1>1, <1>2, <1>3, <2>2, <3>2, UpdateModifies
    <3>5. Touched(e, t, c, ev, "kAdded", s.chan[c].life)
      BY <1>3, <2>2, <3>4 DEF t, Touched
    <3> QED  BY <1>3, <3>3, <3>4, <3>5 DEF t
  <2> QED  BY <2>1, <2>2
<1> HIDE DEF t
<1>5. Touched(s, t, c, ev, "kAdded", s.chan[c].life)
  BY <1>2, <1>4 DEF Touched
<1>6. Placed(s, t, home, fd, c, [channel |-> c, events |-> ev])
  BY <1>2, <1>4 DEF Placed
<1>7. Agrees(t, opn)
  BY <1>1, <1>4, <1>5, <1>6, PlacedAgrees
<1> QED
  BY <1>0, <1>4, <1>5, <1>7 DEF ev

\* disableWriting() and disableAll(), of a channel the kernel watches.
LEMMA DisableAgrees ==
    ASSUME NEW s, WellFormed(s), NEW opn, Agrees(s, opn),
           NEW c \in DOMAIN s.chan, s.chan[c].life \notin Unused, Alone(s, c),
           s.chan[c].fd \in opn, s.chan[c].events # {}, NEW less \in EventSets
    PROVE  LET t == Disable(s, c, less)
               ev == s.chan[c].events \ less
           IN  /\ WellFormed(t)
               /\ Agrees(t, opn)
               /\ Touched(s, t, c, ev, IF ev = {} THEN "kDeleted" ELSE "kAdded", s.chan[c].life)
<1> DEFINE home == s.chan[c].home
           fd == s.chan[c].fd
           ev == s.chan[c].events \ less
           index == IF ev = {} THEN "kDeleted" ELSE "kAdded"
           entry == IF ev = {} THEN NoEntry ELSE [channel |-> c, events |-> ev]
           e == SetEvents(s, c, ev)
           t == Update(e, home, c)
<1>0. Disable(s, c, less) = t
  BY DEF Disable
<1>1. home \in Pollers /\ fd \in Fds /\ ev \in EventSets /\ s.chan[c].index = "kAdded"
  BY ChannelTypes DEF EventSets, Agrees, AddedIfAsked
<1>2. /\ WellFormed(e)
      /\ Touched(s, e, c, ev, s.chan[c].index, s.chan[c].life)
      /\ e.channels = s.channels /\ e.epoll = s.epoll
  BY <1>1, SetEventsEffect
<1> HIDE DEF e, ev
<1>3. /\ c \in DOMAIN e.chan /\ e.chan[c].index = "kAdded" /\ e.chan[c].fd = fd
      /\ e.chan[c].events = ev /\ e.chan[c].life = s.chan[c].life
      /\ Entry(e, c) = [channel |-> c, events |-> ev]
  BY <1>1, <1>2 DEF Touched, Entry
<1>4. e.channels[home][fd] = c /\ e.epoll[home][fd] # NoEntry
  <2>1. e.epoll[home][fd] # NoEntry
    BY <1>2, EntryType DEF Agrees, Watched
  <2>2. e.channels[home][fd] = c
    BY <1>1, <1>2 DEF Agrees, Mapped
  <2> QED  BY <2>1, <2>2
<1>5. /\ WellFormed(t)
      /\ Touched(e, t, c, ev, index, s.chan[c].life)
      /\ Placed(e, t, home, fd, c, entry)
  <2>1. CASE ev = {}
    <3> HIDE DEF t, home, fd
    <3>1. LET u == Update(e, home, c)
          IN  /\ WellFormed(u)
              /\ Touched(e, u, c, {}, "kDeleted", e.chan[c].life)
              /\ Placed(e, u, home, e.chan[c].fd, e.channels[home][e.chan[c].fd], NoEntry)
      BY <1>1, <1>2, <1>3, <2>1, UpdateDeletes
    <3> QED  BY <1>3, <1>4, <2>1, <3>1 DEF t
  <2>2. CASE ev # {}
    <3> HIDE DEF t, home, fd
    <3>1. LET u == Update(e, home, c)
          IN  /\ WellFormed(u)
              /\ u.chan = e.chan
              /\ Placed(e, u, home, e.chan[c].fd, e.channels[home][e.chan[c].fd], Entry(e, c))
      BY <1>1, <1>2, <1>3, <1>4, <2>2, UpdateModifies
    <3>2. Touched(e, t, c, ev, "kAdded", s.chan[c].life)
      BY <1>3, <3>1 DEF t, Touched
    <3> QED  BY <1>3, <1>4, <2>2, <3>1, <3>2 DEF t
  <2> QED  BY <2>1, <2>2
<1> HIDE DEF t
<1>6. Touched(s, t, c, ev, index, s.chan[c].life)
  BY <1>2, <1>5 DEF Touched
<1>7. Placed(s, t, home, fd, c, entry)
  BY <1>2, <1>5 DEF Placed
<1>8. index = "kAdded" <=> ev # {}
  OBVIOUS
<1>9. Agrees(t, opn)
  BY <1>1, <1>5, <1>6, <1>7, <1>8, PlacedAgrees
<1> QED
  BY <1>0, <1>5, <1>6, <1>9 DEF ev

\* removeChannel() of a channel that asks for nothing, at its own poller.
LEMMA RemoveAgrees ==
    ASSUME NEW s, WellFormed(s), NEW opn, Agrees(s, opn),
           NEW c \in DOMAIN s.chan, s.chan[c].life \notin Unused, Alone(s, c),
           s.chan[c].fd \in opn, s.chan[c].events = {}
    PROVE  LET t == Remove(s, s.chan[c].home, c)
           IN  /\ WellFormed(t)
               /\ Agrees(t, opn)
               /\ Touched(s, t, c, {}, "kNew", s.chan[c].life)
<1> DEFINE home == s.chan[c].home
           fd == s.chan[c].fd
           t == Remove(s, home, c)
<1>1. s.chan[c].index # "kAdded" /\ home \in Pollers
  BY ChannelTypes DEF Agrees, AddedIfAsked
<1>2. s.epoll[home][fd] = NoEntry
  BY NoEntryOfOthers
<1>3. /\ WellFormed(t)
      /\ Touched(s, t, c, s.chan[c].events, "kNew", s.chan[c].life)
      /\ Placed(s, t, home, fd, None, s.epoll[home][fd])
  BY <1>1, RemoveUnmaps
<1> HIDE DEF t
<1>4. Touched(s, t, c, {}, "kNew", s.chan[c].life)
  BY <1>3
<1>5. Placed(s, t, home, fd, None, NoEntry)
  BY <1>2, <1>3
<1>6. Agrees(t, opn)
  <2> DEFINE events == {}
             index == "kNew"
             entry == IF events = {} THEN NoEntry ELSE [channel |-> c, events |-> events]
  <2>1. /\ index = "kAdded" <=> events # {}
        /\ index # "kNew" => None = c
        /\ entry = NoEntry
    OBVIOUS
  <2> HIDE DEF events, index
  <2>2. /\ Touched(s, t, c, events, index, s.chan[c].life)
        /\ Placed(s, t, s.chan[c].home, s.chan[c].fd, None, entry)
    BY <1>4, <1>5, <2>1 DEF events, index
  <2> QED  BY <1>3, <2>1, <2>2, PlacedAgrees
<1> QED
  BY <1>3, <1>4, <1>6 DEF t

\* removeChannel() at the second poller of the base loop.
LEMMA RemoveElsewhere ==
    ASSUME NEW s, WellFormed(s), NEW opn, Agrees(s, opn),
           NEW c \in DOMAIN s.chan, s.chan[c].index = "kNew"
    PROVE  LET t == Remove(s, Connector, c)
           IN  /\ WellFormed(t)
               /\ Agrees(t, opn)
               /\ Touched(s, t, c, s.chan[c].events, "kNew", s.chan[c].life)
<1> DEFINE t == Remove(s, Connector, c)
           fd == s.chan[c].fd
<1>1. Connector \in Pollers /\ fd \in Fds
  BY ChannelTypes DEF Pollers
<1>2. /\ WellFormed(t)
      /\ Touched(s, t, c, s.chan[c].events, "kNew", s.chan[c].life)
      /\ Placed(s, t, Connector, fd, None, s.epoll[Connector][fd])
  BY <1>1, RemoveUnmaps
<1> HIDE DEF t
<1>3. /\ DOMAIN t.chan = DOMAIN s.chan
      /\ \A d \in DOMAIN s.chan : /\ t.chan[d].fd = s.chan[d].fd
                                  /\ t.chan[d].home = s.chan[d].home
                                  /\ t.chan[d].events = s.chan[d].events
                                  /\ t.chan[d].index = s.chan[d].index
                                  /\ t.chan[d].life = s.chan[d].life
  BY <1>2 DEF Touched
<1>4. /\ \A p \in Pollers, g \in Fds : t.epoll[p][g] = s.epoll[p][g]
      /\ \A p \in Pollers, g \in Fds : p # Connector => t.channels[p][g] = s.channels[p][g]
  BY <1>2 DEF Placed
<1>5. \A d \in DOMAIN s.chan : s.chan[d].home \in Pollers /\ s.chan[d].home # Connector
                               /\ s.chan[d].fd \in Fds
  BY ChannelTypes
<1>6. Registered(t, opn)
  <2> SUFFICES ASSUME NEW p \in Pollers, NEW g \in Fds, t.epoll[p][g] # NoEntry
               PROVE  RegisteredAt(t, opn, p, g)
    BY DEF Registered
  <2>1. t.epoll[p][g] = s.epoll[p][g]
    BY <1>4
  <2>2. RegisteredAt(s, opn, p, g)
    <3>1. Registered(s, opn)
      BY DEF Agrees
    <3> QED  BY <2>1, <3>1 DEF Registered
  <2>3. t.channels[p][g] = s.channels[p][g]
    BY <1>4, <1>5, <2>2 DEF RegisteredAt
  <2> QED  BY <1>3, <2>1, <2>2, <2>3 DEF RegisteredAt
<1>7. Watched(t)
  <2>1. Watched(s)
    BY DEF Agrees
  <2> QED  BY <1>3, <1>4, <1>5, <2>1, SMTT(20) DEF Watched, Entry
<1>8. AddedIfAsked(t)
  BY <1>3 DEF Agrees, AddedIfAsked
<1>9. Mapped(t)
  <2>1. Mapped(s)
    BY DEF Agrees
  <2> QED  BY <1>3, <1>4, <1>5, <2>1, SMTT(20) DEF Mapped
<1> QED
  BY <1>2, <1>6, <1>7, <1>8, <1>9 DEF t, Agrees

\* Connector::connecting(): the second poller finds the channel registered
\* and, having no entry for it, does nothing.
LEMMA RegisterAgrees ==
    ASSUME NEW s, WellFormed(s), NEW opn, Agrees(s, opn),
           NEW c \in DOMAIN s.chan, s.chan[c].life \notin Unused, Alone(s, c),
           s.chan[c].fd \in opn
    PROVE  LET t == Register(s, c)
           IN  /\ WellFormed(t)
               /\ Agrees(t, opn)
               /\ Touched(s, t, c, s.chan[c].events \cup {"write"}, "kAdded", s.chan[c].life)
<1> DEFINE e == Enable(s, c, {"write"})
           fd == s.chan[c].fd
<1>1. /\ WellFormed(e)
      /\ Agrees(e, opn)
      /\ Touched(s, e, c, s.chan[c].events \cup {"write"}, "kAdded", s.chan[c].life)
  BY EnableAgrees DEF EventSets
<1> HIDE DEF e
<1>2. /\ e.chan[c].index = "kAdded" /\ e.chan[c].fd = fd /\ c \in DOMAIN e.chan
      /\ e.chan[c].events # {}
  BY <1>1 DEF Touched
<1>3. e.epoll[Connector][fd] = NoEntry
  <2>1. Connector \in Pollers /\ fd \in Fds
    BY ChannelTypes DEF Pollers
  <2>2. \A d \in DOMAIN e.chan : e.chan[d].home # Connector
    BY <1>1, ChannelTypes
  <2>3. Registered(e, opn)
    BY <1>1 DEF Agrees
  <2> HIDE DEF fd
  <2> QED  BY <2>1, <2>2, <2>3, SMTT(20) DEF Registered, RegisteredAt
<1>4. Update(e, Connector, c) = e
  BY <1>2, <1>3 DEF Update, CtlMod
<1> QED
  BY <1>1, <1>4 DEF Register, e

\* The end of Connector::handleWrite().
LEMMA DeregisterAgrees ==
    ASSUME NEW s, WellFormed(s), NEW opn, Agrees(s, opn),
           NEW c \in DOMAIN s.chan, s.chan[c].life \notin Unused, Alone(s, c),
           s.chan[c].fd \in opn, s.chan[c].events # {}, s.chan[c].home = Base
    PROVE  LET t == Deregister(s, c)
           IN  /\ WellFormed(t)
               /\ Agrees(t, opn)
               /\ Touched(s, t, c, {}, "kNew", s.chan[c].life)
<1> DEFINE d == DisableAll(s, c)
           r == Remove(d, Base, c)
<1>1. /\ WellFormed(d)
      /\ Agrees(d, opn)
      /\ Touched(s, d, c, {}, "kDeleted", s.chan[c].life)
  <2>1. {"read", "write"} \in EventSets /\ s.chan[c].events \ {"read", "write"} = {}
    BY ChannelTypes DEF EventSets
  <2> QED  BY <2>1, DisableAgrees DEF DisableAll
<1> HIDE DEF d
<1>2. /\ c \in DOMAIN d.chan /\ d.chan[c].home = Base /\ d.chan[c].life \notin Unused
      /\ d.chan[c].fd \in opn /\ d.chan[c].events = {} /\ Alone(d, c)
  <2>1. /\ c \in DOMAIN d.chan /\ d.chan[c].home = Base /\ d.chan[c].life \notin Unused
        /\ d.chan[c].fd \in opn /\ d.chan[c].events = {}
    BY <1>1 DEF Touched
  <2>2. Alone(d, c)
    BY <1>1 DEF Touched, Alone
  <2> QED  BY <2>1, <2>2
<1>3. /\ WellFormed(r)
      /\ Agrees(r, opn)
      /\ Touched(d, r, c, {}, "kNew", d.chan[c].life)
  <2>1. LET t == Remove(d, d.chan[c].home, c)
        IN  WellFormed(t) /\ Agrees(t, opn) /\ Touched(d, t, c, {}, "kNew", d.chan[c].life)
    BY <1>1, <1>2, RemoveAgrees
  <2> QED  BY <1>2, <2>1
<1> HIDE DEF r
<1>4. Touched(s, r, c, {}, "kNew", s.chan[c].life)
  BY <1>1, <1>3 DEF Touched
<1>5. LET t == Remove(r, Connector, c)
      IN  /\ WellFormed(t)
          /\ Agrees(t, opn)
          /\ Touched(r, t, c, {}, "kNew", s.chan[c].life)
  <2>1. /\ c \in DOMAIN r.chan /\ r.chan[c].index = "kNew" /\ r.chan[c].events = {}
        /\ r.chan[c].life = s.chan[c].life
    BY <1>4 DEF Touched
  <2>2. LET t == Remove(r, Connector, c)
        IN  /\ WellFormed(t)
            /\ Agrees(t, opn)
            /\ Touched(r, t, c, r.chan[c].events, "kNew", r.chan[c].life)
    BY <1>3, <2>1, RemoveElsewhere
  <2> QED  BY <2>1, <2>2
<1>6. Deregister(s, c) = Remove(r, Connector, c)
  BY DEF Deregister, r, d
<1> DEFINE t == Remove(r, Connector, c)
<1>7. WellFormed(t) /\ Agrees(t, opn) /\ Touched(r, t, c, {}, "kNew", s.chan[c].life)
  BY <1>5
<1> HIDE DEF t
<1>8. Touched(s, t, c, {}, "kNew", s.chan[c].life)
  BY <1>4, <1>7 DEF Touched
<1> QED
  BY <1>6, <1>7, <1>8 DEF t

\* The life of a channel goes on, or ends when it asks for nothing.
LEMMA SetLifeAgrees ==
    ASSUME NEW s, WellFormed(s), NEW opn, Agrees(s, opn),
           NEW c \in DOMAIN s.chan, s.chan[c].life \notin Unused,
           NEW life \in Lives, life \in Unused => s.chan[c].events = {}
    PROVE  LET t == SetLife(s, c, life)
           IN  /\ WellFormed(t)
               /\ Agrees(t, opn)
               /\ Touched(s, t, c, s.chan[c].events, s.chan[c].index, life)
<1> DEFINE t == SetLife(s, c, life)
<1>1. /\ WellFormed(t)
      /\ Touched(s, t, c, s.chan[c].events, s.chan[c].index, life)
      /\ t.channels = s.channels /\ t.epoll = s.epoll
  BY SetLifeEffect
<1> HIDE DEF t
<1>2. /\ DOMAIN t.chan = DOMAIN s.chan
      /\ \A d \in DOMAIN s.chan : /\ t.chan[d].fd = s.chan[d].fd
                                  /\ t.chan[d].home = s.chan[d].home
                                  /\ t.chan[d].events = s.chan[d].events
                                  /\ t.chan[d].index = s.chan[d].index
                                  /\ d # c => t.chan[d].life = s.chan[d].life
      /\ t.chan[c].life = life
  BY <1>1 DEF Touched
<1>3. Registered(s, opn) /\ Watched(s) /\ AddedIfAsked(s) /\ Mapped(s)
  BY DEF Agrees
<1>4. Registered(t, opn)
  <2> SUFFICES ASSUME NEW p \in Pollers, NEW g \in Fds, t.epoll[p][g] # NoEntry
               PROVE  RegisteredAt(t, opn, p, g)
    BY DEF Registered
  <2>1. RegisteredAt(s, opn, p, g)
    BY <1>1, <1>3 DEF Registered
  <2>2. PICK k : k = s.epoll[p][g].channel
    OBVIOUS
  <2>3. /\ k \in DOMAIN s.chan /\ s.chan[k].life \notin Unused
        /\ s.chan[k].index = "kAdded" /\ g \in opn
    BY <2>1, <2>2, RegisteredFacts
  <2>4. t.chan[k].life \notin Unused
    BY <1>2, <1>3, <2>3 DEF AddedIfAsked
  <2>5. t.epoll = s.epoll /\ t.channels = s.channels
    BY <1>1
  <2> QED  BY <1>2, <2>1, <2>2, <2>3, <2>4, <2>5, RegisteredKept
<1>5. Watched(t)
  BY <1>1, <1>2, <1>3 DEF Watched, Entry
<1>6. AddedIfAsked(t)
  BY <1>2, <1>3 DEF AddedIfAsked
<1>7. Mapped(t)
  BY <1>1, <1>2, <1>3 DEF Mapped
<1> QED
  BY <1>1, <1>4, <1>5, <1>6, <1>7 DEF t, Agrees

\* The only holder of a descriptor closes it.
LEMMA CloseAgrees ==
    ASSUME NEW s, WellFormed(s), NEW opn, Agrees(s, opn),
           NEW c \in DOMAIN s.chan, NEW life \in Lives, life \in Unused,
           \A d \in DOMAIN s.chan : d # c /\ s.chan[d].fd = s.chan[c].fd
                                    => s.chan[d].life \in Unused
    PROVE  LET t == CloseFd(SetLife(s, c, life), s.chan[c].fd)
           IN  /\ WellFormed(t)
               /\ Agrees(t, opn \ {s.chan[c].fd})
               /\ Touched(s, t, c, s.chan[c].events, s.chan[c].index, life)
<1> DEFINE u == SetLife(s, c, life)
           fd == s.chan[c].fd
           m == [p \in Pollers |-> [u.epoll[p] EXCEPT ![fd] = NoEntry]]
           t == CloseFd(u, fd)
<1>1. /\ WellFormed(u)
      /\ Touched(s, u, c, s.chan[c].events, s.chan[c].index, life)
      /\ u.channels = s.channels /\ u.epoll = s.epoll
  BY SetLifeEffect
<1>2. fd \in Fds
  BY ChannelTypes
<1> HIDE DEF u, fd
<1>3. t = [chan |-> u.chan, channels |-> u.channels, epoll |-> m]
  <2>1. u = [chan |-> u.chan, channels |-> u.channels, epoll |-> u.epoll]
    BY <1>1 DEF WellFormed
  <2> QED  BY <2>1 DEF CloseFd
<1>4. /\ m \in [Pollers -> [Fds -> [channel : DOMAIN u.chan \cup {None}, events : EventSets]]]
      /\ \A p \in Pollers : m[p][fd] = NoEntry
      /\ \A p \in Pollers, g \in Fds : g # fd => m[p][g] = u.epoll[p][g]
  <2>1. u.epoll \in [Pollers -> [Fds -> [channel : DOMAIN u.chan \cup {None}, events : EventSets]]]
    BY <1>1 DEF WellFormed
  <2>2. NoEntry \in [channel : DOMAIN u.chan \cup {None}, events : EventSets]
    BY DEF NoEntry, EventSets
  <2> QED  BY <1>2, <2>1, <2>2
<1> HIDE DEF m
<1>5. WellFormed(t) /\ t.chan = u.chan /\ t.channels = s.channels /\ t.epoll = m
  BY <1>1, <1>3, <1>4 DEF WellFormed
<1> HIDE DEF t
<1>6. Touched(s, t, c, s.chan[c].events, s.chan[c].index, life)
  BY <1>1, <1>5 DEF Touched
<1>7. /\ DOMAIN t.chan = DOMAIN s.chan
      /\ \A d \in DOMAIN s.chan : /\ t.chan[d].fd = s.chan[d].fd
                                  /\ t.chan[d].home = s.chan[d].home
                                  /\ t.chan[d].events = s.chan[d].events
                                  /\ t.chan[d].index = s.chan[d].index
                                  /\ d # c => t.chan[d].life = s.chan[d].life
      /\ t.chan[c].life = life
  BY <1>6 DEF Touched
<1>8. Registered(s, opn) /\ Watched(s) /\ AddedIfAsked(s) /\ Mapped(s)
  BY DEF Agrees
<1>9. /\ \A p \in Pollers : t.epoll[p][fd] = NoEntry
      /\ \A p \in Pollers, g \in Fds : g # fd => t.epoll[p][g] = s.epoll[p][g]
  BY <1>1, <1>4, <1>5
<1>10. \A d \in DOMAIN t.chan : t.chan[d].life \notin Unused =>
          d # c /\ t.chan[d].fd # fd /\ t.chan[d].home \in Pollers /\ t.chan[d].fd \in Fds
  BY <1>5, <1>7, ChannelTypes DEF fd
<1>11. Registered(t, opn \ {fd})
  <2> SUFFICES ASSUME NEW p \in Pollers, NEW g \in Fds, t.epoll[p][g] # NoEntry
               PROVE  RegisteredAt(t, opn \ {fd}, p, g)
    BY DEF Registered
  <2>1. g # fd /\ t.epoll[p][g] = s.epoll[p][g]
    BY <1>9
  <2>2. RegisteredAt(s, opn, p, g)
    BY <1>8, <2>1 DEF Registered
  <2>3. PICK k : k = s.epoll[p][g].channel
    OBVIOUS
  <2>4. /\ k \in DOMAIN s.chan /\ s.chan[k].life \notin Unused
        /\ s.chan[k].fd = g /\ g \in opn
    BY <2>2, <2>3, RegisteredFacts
  <2>5. k # c
    BY <2>1, <2>4 DEF fd
  <2>6. k \in DOMAIN t.chan /\ t.chan[k].life \notin Unused
    BY <1>7, <2>4, <2>5
  <2>7. t.channels[p][g] = s.channels[p][g] /\ g \in opn \ {fd}
    BY <1>5, <2>1, <2>4
  <2> QED  BY <1>7, <2>1, <2>2, <2>3, <2>4, <2>6, <2>7, RegisteredKept
<1>12. Watched(t)
  BY <1>7, <1>8, <1>9, <1>10, SMTT(20) DEF Watched, Entry
<1>13. AddedIfAsked(t)
  BY <1>7, <1>8 DEF AddedIfAsked
<1>14. Mapped(t)
  BY <1>5, <1>7, <1>8, <1>10 DEF Mapped
<1> QED
  BY <1>5, <1>6, <1>11, <1>12, <1>13, <1>14 DEF Agrees, t, u, fd

\* Another descriptor is opened.
LEMMA OpenAgrees ==
    ASSUME NEW s, NEW opn, Agrees(s, opn), NEW fd
    PROVE  Agrees(s, opn \cup {fd})
<1>1. Registered(s, opn \cup {fd})
  <2> SUFFICES ASSUME NEW p \in Pollers, NEW g \in Fds, s.epoll[p][g] # NoEntry
               PROVE  RegisteredAt(s, opn \cup {fd}, p, g)
    BY DEF Registered
  <2>1. RegisteredAt(s, opn, p, g)
    BY DEF Agrees, Registered
  <2> QED  BY <2>1 DEF RegisteredAt
<1> QED
  BY <1>1 DEF Agrees

\* A new channel.
LEMMA NewAgrees ==
    ASSUME NEW s, WellFormed(s), NEW opn, Agrees(s, opn),
           NEW fd \in Fds, NEW home \in IoPollers \cup {Base}, NEW life \in Lives
    PROVE  LET t == NewChannel(s, fd, home, life)
               n == Len(s.chan) + 1
           IN  /\ WellFormed(t)
               /\ Agrees(t, opn)
               /\ n \notin DOMAIN s.chan
               /\ DOMAIN t.chan = DOMAIN s.chan \cup {n}
               /\ \A d \in DOMAIN s.chan : t.chan[d] = s.chan[d]
               /\ t.chan[n] = [fd |-> fd, home |-> home, events |-> {},
                               index |-> "kNew", life |-> life]
<1> DEFINE e == [fd |-> fd, home |-> home, events |-> {}, index |-> "kNew", life |-> life]
           q == Append(s.chan, e)
           n == Len(s.chan) + 1
           t == NewChannel(s, fd, home, life)
<1>1. e \in Channels
  BY DEF Channels
<1>2. t = [chan |-> q, channels |-> s.channels, epoll |-> s.epoll]
  <2>1. s = [chan |-> s.chan, channels |-> s.channels, epoll |-> s.epoll]
    BY DEF WellFormed
  <2> QED  BY <2>1, SMTT(20) DEF NewChannel
<1>3. s.chan \in Seq(Channels)
  BY DEF WellFormed
<1>4. /\ q \in Seq(Channels) /\ n \notin DOMAIN s.chan /\ DOMAIN q = DOMAIN s.chan \cup {n}
      /\ q[n] = e /\ \A d \in DOMAIN s.chan : q[d] = s.chan[d]
  <2> HIDE DEF e
  <2> QED  BY <1>1, <1>3
<1> HIDE DEF q, n, t
<1>5. t.chan = q /\ t.channels = s.channels /\ t.epoll = s.epoll
  BY <1>2
<1>6. WellFormed(t)
  <2>1. s.channels \in [Pollers -> [Fds -> DOMAIN s.chan \cup {None}]]
    BY DEF WellFormed
  <2>2. s.epoll \in [Pollers -> [Fds -> [channel : DOMAIN s.chan \cup {None}, events : EventSets]]]
    BY DEF WellFormed
  <2>3. t.channels \in [Pollers -> [Fds -> DOMAIN t.chan \cup {None}]]
    BY <1>4, <1>5, <2>1
  <2>4. t.epoll \in [Pollers -> [Fds -> [channel : DOMAIN t.chan \cup {None}, events : EventSets]]]
    BY <1>4, <1>5, <2>2
  <2> QED  BY <1>2, <1>4, <1>5, <2>3, <2>4 DEF WellFormed
<1>7. Registered(s, opn) /\ Watched(s) /\ AddedIfAsked(s) /\ Mapped(s)
  BY DEF Agrees
<1>8. Registered(t, opn)
  <2> SUFFICES ASSUME NEW p \in Pollers, NEW g \in Fds, t.epoll[p][g] # NoEntry
               PROVE  RegisteredAt(t, opn, p, g)
    BY DEF Registered
  <2>1. RegisteredAt(s, opn, p, g)
    BY <1>5, <1>7 DEF Registered
  <2>2. PICK k : k = s.epoll[p][g].channel
    OBVIOUS
  <2>3. k \in DOMAIN s.chan /\ s.chan[k].life \notin Unused /\ g \in opn
    BY <2>1, <2>2, RegisteredFacts
  <2>4. k \in DOMAIN t.chan /\ t.chan[k] = s.chan[k]
    BY <1>4, <1>5, <2>3
  <2> QED  BY <1>5, <2>1, <2>2, <2>3, <2>4, RegisteredKept
<1>9. Watched(t)
  BY <1>4, <1>5, <1>7 DEF Watched, Entry
<1>10. AddedIfAsked(t)
  BY <1>4, <1>5, <1>7 DEF AddedIfAsked
<1>11. Mapped(t)
  BY <1>4, <1>5, <1>7 DEF Mapped
<1> QED
  BY <1>4, <1>5, <1>6, <1>8, <1>9, <1>10, <1>11 DEF Agrees, t, n

-------------------------------------------------------------------------------
(* The owners of channels.                                                 *)

\* Connector has its channels at the base loop, io loops have the others.
Homes(s) ==
    \A c \in DOMAIN s.chan :
        s.chan[c].home = Base <=> s.chan[c].life \in {"connecting", "done", "lost"}

\* What a channel asks for at each stage of its life.
Stages(s) ==
    \A c \in DOMAIN s.chan :
        /\ s.chan[c].life = "connecting" => s.chan[c].events # {}
        /\ s.chan[c].life = "established" => "read" \in s.chan[c].events
        /\ s.chan[c].life \in {"posted", "closed", "erased"} => s.chan[c].events = {}

Unheld == {"done", "lost", "destroyed"}

\* The descriptor of a channel is open until its owner closes it.
OpenWhileHeld(s, opn) ==
    \A c \in DOMAIN s.chan : s.chan[c].life \notin Unheld => s.chan[c].fd \in opn

Fresh == {"posted", "established", "closed"}

\* Two channels have one descriptor only while Connector hands it over.
HandedOver(s, hnd) ==
    \A c, d \in DOMAIN s.chan :
        /\ c # d
        /\ s.chan[c].fd = s.chan[d].fd
        /\ s.chan[c].life \notin Unheld
        /\ s.chan[d].life \notin Unheld
        => \/ c = hnd /\ s.chan[d].life \in Fresh
           \/ d = hnd /\ s.chan[c].life \in Fresh

\* Connector is at a channel that its loop found active.
HandlesActive(s, act, hnd) ==
    hnd # None => hnd \in act[Base] /\ s.chan[hnd].life = "connecting"

\* After the base loop nothing happens there.
StoppedForGood(act, hnd, stp) == stp => hnd = None /\ act[Base] = {}

ActiveAreLive(s, act) ==
    \A p \in IoPollers \cup {Base} : \A c \in act[p] :
        c \in DOMAIN s.chan /\ s.chan[c].home = p /\ s.chan[c].life \notin Unused

Owners(s, opn, act, hnd, stp) ==
    /\ Homes(s)
    /\ Stages(s)
    /\ OpenWhileHeld(s, opn)
    /\ HandedOver(s, hnd)
    /\ HandlesActive(s, act, hnd)
    /\ StoppedForGood(act, hnd, stp)
    /\ ActiveAreLive(s, act)

\* A channel in use, and one that was removed, is held; it is alone at its
\* poller.
LEMMA OwnersAlone ==
    ASSUME NEW s, NEW opn, NEW act, NEW hnd, NEW stp,
           WellFormed(s), Owners(s, opn, act, hnd, stp),
           NEW c \in DOMAIN s.chan, s.chan[c].life \notin Unused
    PROVE  Alone(s, c) /\ s.chan[c].fd \in opn
<1>1. s.chan[c].fd \in opn
  BY DEF Owners, OpenWhileHeld, Unused, Unheld
<1>2. Alone(s, c)
  <2> SUFFICES ASSUME NEW d \in DOMAIN s.chan, d # c,
                      s.chan[d].home = s.chan[c].home, s.chan[d].fd = s.chan[c].fd,
                      s.chan[d].life \notin Unused
               PROVE  FALSE
    BY DEF Alone
  <2>1. s.chan[c].life \notin Unheld /\ s.chan[d].life \notin Unheld
    BY DEF Unused, Unheld
  <2>2. \/ c = hnd /\ s.chan[d].life \in Fresh
        \/ d = hnd /\ s.chan[c].life \in Fresh
    BY <2>1 DEF Owners, HandedOver
  <2>3. c # None /\ d # None
    BY EPollerAssumption DEF WellFormed
  <2>4. CASE c = hnd /\ s.chan[d].life \in Fresh
    <3>1. s.chan[c].home = Base /\ s.chan[d].home # Base
      BY <2>3, <2>4 DEF Owners, HandlesActive, Homes, Fresh
    <3> QED  BY <3>1
  <2>5. CASE d = hnd /\ s.chan[c].life \in Fresh
    <3>1. s.chan[d].home = Base /\ s.chan[c].home # Base
      BY <2>3, <2>5 DEF Owners, HandlesActive, Homes, Fresh
    <3> QED  BY <3>1
  <2> QED  BY <2>2, <2>4, <2>5
<1> QED
  BY <1>1, <1>2

\* The life of a channel and what it asks for may go on together.
LEMMA OwnersGoOn ==
    ASSUME NEW s, NEW opn, NEW act, NEW hnd, NEW stp, NEW t,
           WellFormed(s),
           Owners(s, opn, act, hnd, stp),
           NEW c \in DOMAIN s.chan, NEW events, NEW index, NEW life \in Lives,
           Touched(s, t, c, events, index, life),
           s.chan[c].life \notin Unused,
           s.chan[c].home # Base, life \notin {"connecting", "done", "lost"},
           life = "established" => "read" \in events,
           life \in {"posted", "closed", "erased"} => events = {},
           s.chan[c].life \in Fresh => life \in Fresh \/ hnd = None,
           life \in Unused => life = "removed" /\ act[s.chan[c].home] = {}
    PROVE  Owners(t, opn, act, hnd, stp)
<1>1. /\ DOMAIN t.chan = DOMAIN s.chan
      /\ \A d \in DOMAIN s.chan : /\ t.chan[d].fd = s.chan[d].fd
                                  /\ t.chan[d].home = s.chan[d].home
                                  /\ d # c => t.chan[d] = s.chan[d]
      /\ t.chan[c].life = life /\ t.chan[c].events = events
  BY DEF Touched
<1>2. s.chan[c].life \notin {"connecting", "done", "lost"}
  BY DEF Owners, Homes
<1>3. Homes(t)
  BY <1>1, <1>2 DEF Owners, Homes
<1>4. Stages(t)
  BY <1>1 DEF Owners, Stages
<1>5. OpenWhileHeld(t, opn)
  <2>1. s.chan[c].life \notin Unheld
    BY DEF Unheld, Unused
  <2> QED  BY <1>1, <2>1 DEF Owners, OpenWhileHeld
<1>6. HandedOver(t, hnd)
  <2>1. s.chan[c].life \notin Unheld
    BY DEF Unheld, Unused
  <2>2. HandedOver(s, hnd)
    BY DEF Owners
  <2>3. None \notin DOMAIN s.chan
    BY EPollerAssumption DEF WellFormed
  <2> SUFFICES ASSUME NEW a \in DOMAIN s.chan, NEW b \in DOMAIN s.chan,
                      a # b, s.chan[a].fd = s.chan[b].fd,
                      t.chan[a].life \notin Unheld, t.chan[b].life \notin Unheld
               PROVE  \/ a = hnd /\ t.chan[b].life \in Fresh
                      \/ b = hnd /\ t.chan[a].life \in Fresh
    BY <1>1 DEF HandedOver
  <2>4. \/ a = hnd /\ s.chan[b].life \in Fresh
        \/ b = hnd /\ s.chan[a].life \in Fresh
    BY <1>1, <2>1, <2>2 DEF HandedOver
  <2>5. hnd # None
    BY <2>3, <2>4
  <2>6. s.chan[c].life \in Fresh => life \in Fresh
    BY <2>5
  <2> QED  BY <1>1, <2>4, <2>6
<1>7. HandlesActive(t, act, hnd)
  <2>1. HandlesActive(s, act, hnd)
    BY DEF Owners
  <2>2. hnd # None => hnd \in DOMAIN s.chan
    BY <2>1 DEF Owners, ActiveAreLive, HandlesActive
  <2>3. hnd # c \/ hnd = None
    BY <1>2, <2>1 DEF HandlesActive
  <2> QED  BY <1>1, <2>1, <2>2, <2>3 DEF HandlesActive
<1>8. ActiveAreLive(t, act)
  BY <1>1 DEF Owners, ActiveAreLive
<1> QED
  BY <1>3, <1>4, <1>5, <1>6, <1>7, <1>8 DEF Owners

-------------------------------------------------------------------------------
(* The invariant, and what each action does to it.                         *)

Good(s, opn, act, hnd, stp) ==
    /\ WellFormed(s)
    /\ Agrees(s, opn)
    /\ Owners(s, opn, act, hnd, stp)
    /\ opn \subseteq Fds
    /\ act \in [IoPollers \cup {Base} -> SUBSET DOMAIN s.chan]
    /\ hnd \in DOMAIN s.chan \cup {None}

IInv ==
    /\ Good(State, open, active, handling, stopping)
    /\ toConnect \in 0 .. NumSocks
    /\ stopping \in BOOLEAN

\* None is no channel.
LEMMA NoneIsNoChannel ==
    ASSUME NEW s, WellFormed(s)
    PROVE  None \notin DOMAIN s.chan
BY EPollerAssumption DEF WellFormed

\* connecting().
LEMMA ConnectingGood ==
    ASSUME NEW s, NEW opn, NEW act, NEW hnd, NEW stp, Good(s, opn, act, hnd, stp),
           NEW fd \in Fds \ opn, NEW n, n = Len(s.chan) + 1
    PROVE  LET t == Register(NewChannel(s, fd, Base, "connecting"), n)
           IN  Good(t, opn \cup {fd}, act, hnd, stp) /\ Adds(s, t, n)
<1> DEFINE new == opn \cup {fd}
           a == NewChannel(s, fd, Base, "connecting")
           t == Register(a, n)
<1>1. WellFormed(s) /\ Agrees(s, opn) /\ Owners(s, opn, act, hnd, stp)
  BY DEF Good
<1>2. /\ WellFormed(a)
      /\ Agrees(a, new)
      /\ n \notin DOMAIN s.chan
      /\ DOMAIN a.chan = DOMAIN s.chan \cup {n}
      /\ \A d \in DOMAIN s.chan : a.chan[d] = s.chan[d]
      /\ a.chan[n] = [fd |-> fd, home |-> Base, events |-> {},
                      index |-> "kNew", life |-> "connecting"]
  <2>1. "connecting" \in Lives /\ Base \in IoPollers \cup {Base}
    BY DEF Lives
  <2>2. Agrees(a, opn)
    BY <1>1, <2>1, NewAgrees
  <2>3. Agrees(a, new)
    <3> HIDE DEF a
    <3> QED  BY <2>2, OpenAgrees
  <2> QED  BY <1>1, <2>1, <2>3, NewAgrees, SMTT(20)
<1> HIDE DEF a
<1>3. \A d \in DOMAIN s.chan : s.chan[d].fd = fd => s.chan[d].life \in Unheld
  BY <1>1 DEF Owners, OpenWhileHeld
<1>4. Alone(a, n)
  BY <1>2, <1>3 DEF Alone, Unused, Unheld
<1>5. /\ WellFormed(t)
      /\ Agrees(t, new)
      /\ Touched(a, t, n, {"write"}, "kAdded", "connecting")
  <2>1. /\ n \in DOMAIN a.chan /\ a.chan[n].life \notin Unused /\ a.chan[n].fd \in new
        /\ a.chan[n].events \cup {"write"} = {"write"} /\ a.chan[n].life = "connecting"
    BY <1>2 DEF Unused
  <2> HIDE DEF new, t
  <2>2. LET u == Register(a, n)
        IN  /\ WellFormed(u)
            /\ Agrees(u, new)
            /\ Touched(a, u, n, a.chan[n].events \cup {"write"}, "kAdded", a.chan[n].life)
    BY <1>2, <1>4, <2>1, RegisterAgrees
  <2> QED  BY <2>1, <2>2 DEF t
<1> HIDE DEF t
<1>6. /\ DOMAIN t.chan = DOMAIN s.chan \cup {n}
      /\ \A d \in DOMAIN s.chan : t.chan[d] = s.chan[d]
      /\ t.chan[n].fd = fd /\ t.chan[n].home = Base /\ t.chan[n].life = "connecting"
      /\ t.chan[n].events = {"write"}
  BY <1>2, <1>5 DEF Touched
<1>7. Owners(t, new, act, hnd, stp)
  <2>1. Homes(t)
    BY <1>1, <1>6 DEF Owners, Homes
  <2>2. Stages(t)
    BY <1>1, <1>6 DEF Owners, Stages
  <2>3. OpenWhileHeld(t, new)
    BY <1>1, <1>6 DEF Owners, OpenWhileHeld
  <2>4. HandedOver(t, hnd)
    BY <1>1, <1>2, <1>3, <1>6 DEF Owners, HandedOver
  <2>5. HandlesActive(t, act, hnd)
    BY <1>1, <1>6 DEF Owners, HandlesActive, ActiveAreLive
  <2>6. ActiveAreLive(t, act)
    BY <1>1, <1>6 DEF Owners, ActiveAreLive
  <2>7. StoppedForGood(act, hnd, stp)
    BY <1>1 DEF Owners
  <2> QED  BY <2>1, <2>2, <2>3, <2>4, <2>5, <2>6, <2>7 DEF Owners
<1>8. act \in [IoPollers \cup {Base} -> SUBSET DOMAIN t.chan]
  BY <1>6 DEF Good
<1>9. Adds(s, t, n)
  BY <1>2, <1>6 DEF Adds
<1>10. Good(t, new, act, hnd, stp)
  BY <1>5, <1>6, <1>7, <1>8 DEF Good
<1> QED
  BY <1>9, <1>10 DEF t, a

\* An io loop changes a channel of its own.
LEMMA GoOnGood ==
    ASSUME NEW s, NEW opn, NEW act, NEW hnd, NEW stp, Good(s, opn, act, hnd, stp),
           NEW t, WellFormed(t), Agrees(t, opn),
           NEW c \in DOMAIN s.chan, NEW events, NEW index, NEW life \in Lives,
           Touched(s, t, c, events, index, life),
           s.chan[c].life \notin Unused,
           s.chan[c].home # Base, life \notin {"connecting", "done", "lost"},
           life = "established" => "read" \in events,
           life \in {"posted", "closed", "erased"} => events = {},
           s.chan[c].life \in Fresh => life \in Fresh \/ hnd = None,
           life \in Unused => life = "removed" /\ act[s.chan[c].home] = {}
    PROVE  Good(t, opn, act, hnd, stp) /\ DOMAIN t.chan = DOMAIN s.chan
<1>1. DOMAIN t.chan = DOMAIN s.chan
  BY DEF Touched
<1>2. WellFormed(s) /\ Owners(s, opn, act, hnd, stp)
  BY DEF Good
<1>3. Owners(t, opn, act, hnd, stp)
  BY <1>2, OwnersGoOn
<1> QED
  BY <1>1, <1>3 DEF Good

\* HandleConnectError().
LEMMA ConnectErrorGood ==
    ASSUME NEW s, NEW opn, NEW act, NEW stp, Good(s, opn, act, None, stp), NEW c \in act[Base]
    PROVE  LET t == CloseFd(SetLife(s, c, "lost"), s.chan[c].fd)
           IN  /\ Good(t, opn \ {s.chan[c].fd}, [act EXCEPT ![Base] = @ \ {c}], None, stp)
               /\ Turns(s, t, c, s.chan[c].index, "lost") /\ s.chan[c].home = Base
<1> DEFINE fd == s.chan[c].fd
           t == CloseFd(SetLife(s, c, "lost"), fd)
           act2 == [act EXCEPT ![Base] = @ \ {c}]
<1>1. /\ WellFormed(s) /\ Agrees(s, opn) /\ Owners(s, opn, act, None, stp)
      /\ c \in DOMAIN s.chan /\ s.chan[c].home = Base /\ s.chan[c].life \notin Unused
  BY DEF Good, Owners, ActiveAreLive
<1>2. s.chan[c].life \notin Unheld
  BY <1>1 DEF Unused, Unheld
<1>3. \A d \in DOMAIN s.chan : d # c /\ s.chan[d].fd = fd => s.chan[d].life \in Unheld
  BY <1>1, <1>2, NoneIsNoChannel DEF Owners, HandedOver
<1>4. /\ WellFormed(t)
      /\ Agrees(t, opn \ {fd})
      /\ Touched(s, t, c, s.chan[c].events, s.chan[c].index, "lost")
  <2>1. "lost" \in Lives /\ "lost" \in Unused
    BY DEF Lives, Unused
  <2>2. \A d \in DOMAIN s.chan : d # c /\ s.chan[d].fd = s.chan[c].fd => s.chan[d].life \in Unused
    BY <1>3 DEF Unheld, Unused
  <2> QED  BY <1>1, <2>1, <2>2, CloseAgrees
<1> HIDE DEF t
<1>5. /\ DOMAIN t.chan = DOMAIN s.chan
      /\ \A d \in DOMAIN s.chan : d # c => t.chan[d] = s.chan[d]
      /\ t.chan[c].fd = fd /\ t.chan[c].home = Base /\ t.chan[c].life = "lost"
  BY <1>1, <1>4 DEF Touched
<1>6. /\ act2 \in [IoPollers \cup {Base} -> SUBSET DOMAIN t.chan]
      /\ c \notin act2[Base]
      /\ act2[Base] \subseteq act[Base]
      /\ \A p \in IoPollers : act2[p] = act[p]
  BY <1>5, EPollerAssumption DEF Good
<1> HIDE DEF act2
<1>7. Owners(t, opn \ {fd}, act2, None, stp)
  <2>1. Homes(t)
    BY <1>1, <1>5 DEF Owners, Homes
  <2>2. Stages(t)
    BY <1>1, <1>5 DEF Owners, Stages
  <2>3. OpenWhileHeld(t, opn \ {fd})
    BY <1>1, <1>3, <1>5 DEF Owners, OpenWhileHeld, Unheld
  <2>4. HandedOver(t, None)
    BY <1>1, <1>5 DEF Owners, HandedOver, Unheld
  <2>5. HandlesActive(t, act2, None)
    BY DEF HandlesActive
  <2>6. ActiveAreLive(t, act2)
    <3>1. \A p \in IoPollers \cup {Base} : \A d \in act2[p] : d \in act[p]
      BY <1>6
    <3>2. \A p \in IoPollers \cup {Base} : \A d \in act2[p] : d # c
      BY <1>1, <1>6, EPollerAssumption DEF Owners, ActiveAreLive
    <3> QED  BY <1>1, <1>5, <3>1, <3>2 DEF Owners, ActiveAreLive
  <2>7. StoppedForGood(act2, None, stp)
    BY <1>1, <1>6 DEF Owners, StoppedForGood
  <2> QED  BY <2>1, <2>2, <2>3, <2>4, <2>5, <2>6, <2>7 DEF Owners
<1>8. opn \ {fd} \subseteq Fds
  BY DEF Good
<1>9. Turns(s, t, c, s.chan[c].index, "lost")
  BY <1>4 DEF Touched, Turns
<1> QED
  BY <1>1, <1>4, <1>5, <1>6, <1>7, <1>8, <1>9 DEF Good, t, act2

\* HandleConnected().
LEMMA ConnectedGood ==
    ASSUME NEW s, NEW opn, NEW act, NEW stp, Good(s, opn, act, None, stp), NEW c \in act[Base],
           NEW p \in IoPollers
    PROVE  LET t == NewChannel(s, s.chan[c].fd, p, "posted")
           IN  Good(t, opn, act, c, stp) /\ Adds(s, t, Len(s.chan) + 1)
<1> DEFINE fd == s.chan[c].fd
           t == NewChannel(s, fd, p, "posted")
           n == Len(s.chan) + 1
<1>1. /\ WellFormed(s) /\ Agrees(s, opn) /\ Owners(s, opn, act, None, stp)
      /\ c \in DOMAIN s.chan /\ s.chan[c].home = Base /\ s.chan[c].life \notin Unused
  BY DEF Good, Owners, ActiveAreLive
<1>2. s.chan[c].life = "connecting" /\ fd \in Fds /\ fd \in opn /\ p # Base
  <2>1. s.chan[c].life = "connecting"
    BY <1>1 DEF Owners, Homes, Unused
  <2>2. fd \in Fds
    BY <1>1, ChannelTypes
  <2>3. fd \in opn
    BY <1>1, <2>1 DEF Owners, OpenWhileHeld, Unheld
  <2> QED  BY <2>1, <2>2, <2>3, EPollerAssumption
<1>3. \A d \in DOMAIN s.chan : d # c /\ s.chan[d].fd = fd => s.chan[d].life \in Unheld
  BY <1>1, <1>2, NoneIsNoChannel DEF Owners, HandedOver, Unheld
<1>4. /\ WellFormed(t)
      /\ Agrees(t, opn)
      /\ n \notin DOMAIN s.chan
      /\ DOMAIN t.chan = DOMAIN s.chan \cup {n}
      /\ \A d \in DOMAIN s.chan : t.chan[d] = s.chan[d]
      /\ t.chan[n] = [fd |-> fd, home |-> p, events |-> {}, index |-> "kNew", life |-> "posted"]
  <2>1. "posted" \in Lives /\ p \in IoPollers \cup {Base}
    BY DEF Lives
  <2> HIDE DEF fd
  <2> QED  BY <1>1, <1>2, <2>1, NewAgrees
<1> HIDE DEF t, n
<1>5. /\ t.chan[n].fd = fd /\ t.chan[n].home = p /\ t.chan[n].events = {}
      /\ t.chan[n].life = "posted"
  BY <1>4
<1>6. Owners(t, opn, act, c, stp)
  <2>1. Homes(t)
    BY <1>1, <1>2, <1>4, <1>5 DEF Owners, Homes
  <2>2. Stages(t)
    BY <1>1, <1>4, <1>5 DEF Owners, Stages
  <2>3. OpenWhileHeld(t, opn)
    BY <1>1, <1>2, <1>4, <1>5 DEF Owners, OpenWhileHeld
  <2>4. HandedOver(t, c)
    <3>1. \A a, b \in DOMAIN s.chan :
             /\ a # b /\ s.chan[a].fd = s.chan[b].fd /\ s.chan[a].life \notin Unheld
             => s.chan[b].life \in Unheld
      BY <1>1, NoneIsNoChannel DEF Owners, HandedOver
    <3> QED  BY <1>3, <1>4, <1>5, <3>1 DEF HandedOver, Fresh
  <2>5. HandlesActive(t, act, c)
    BY <1>1, <1>2, <1>4 DEF HandlesActive
  <2>6. ActiveAreLive(t, act)
    BY <1>1, <1>4 DEF Owners, ActiveAreLive
  <2>7. StoppedForGood(act, c, stp)
    BY <1>1 DEF Owners, StoppedForGood
  <2> QED  BY <2>1, <2>2, <2>3, <2>4, <2>5, <2>6, <2>7 DEF Owners
<1>7. /\ act \in [IoPollers \cup {Base} -> SUBSET DOMAIN t.chan]
      /\ c \in DOMAIN t.chan \cup {None}
  BY <1>1, <1>4 DEF Good
<1>8. Adds(s, t, n)
  BY <1>4 DEF Adds
<1> QED
  BY <1>4, <1>6, <1>7, <1>8 DEF Good, t, n

\* ForgetChannel.
LEMMA ForgetGood ==
    ASSUME NEW s, NEW opn, NEW act, NEW c, NEW stp, Good(s, opn, act, c, stp), c # None
    PROVE  LET t == SetLife(Deregister(s, c), c, "done")
           IN  /\ Good(t, opn, [act EXCEPT ![Base] = @ \ {c}], None, stp)
               /\ Turns(s, t, c, "kNew", "done") /\ s.chan[c].home = Base
               /\ c \in DOMAIN s.chan
<1> DEFINE r == Deregister(s, c)
           t == SetLife(r, c, "done")
           act2 == [act EXCEPT ![Base] = @ \ {c}]
<1>1. /\ WellFormed(s) /\ Agrees(s, opn) /\ Owners(s, opn, act, c, stp)
      /\ c \in DOMAIN s.chan /\ s.chan[c].life = "connecting" /\ c \in act[Base]
  BY DEF Good, Owners, HandlesActive
<1>2. /\ s.chan[c].home = Base /\ s.chan[c].life \notin Unused /\ s.chan[c].events # {}
      /\ s.chan[c].life \notin Unheld
  BY <1>1 DEF Owners, Homes, Stages, Unused, Unheld
<1>3. Alone(s, c) /\ s.chan[c].fd \in opn
  BY <1>1, <1>2, OwnersAlone
<1>4. /\ WellFormed(r)
      /\ Agrees(r, opn)
      /\ Touched(s, r, c, {}, "kNew", s.chan[c].life)
  BY <1>1, <1>2, <1>3, DeregisterAgrees
<1> HIDE DEF r
<1>5. /\ c \in DOMAIN r.chan /\ r.chan[c].life \notin Unused /\ r.chan[c].events = {}
      /\ r.chan[c].index = "kNew"
  BY <1>1, <1>2, <1>4 DEF Touched
<1>6. /\ WellFormed(t)
      /\ Agrees(t, opn)
      /\ Touched(r, t, c, r.chan[c].events, r.chan[c].index, "done")
  <2>1. "done" \in Lives
    BY DEF Lives
  <2> QED  BY <1>4, <1>5, <2>1, SetLifeAgrees
<1> HIDE DEF t
<1>7. /\ DOMAIN t.chan = DOMAIN s.chan
      /\ \A d \in DOMAIN s.chan : d # c => t.chan[d] = s.chan[d]
      /\ t.chan[c].fd = s.chan[c].fd /\ t.chan[c].home = Base /\ t.chan[c].life = "done"
  BY <1>2, <1>4, <1>6 DEF Touched
<1>8. /\ act2 \in [IoPollers \cup {Base} -> SUBSET DOMAIN t.chan]
      /\ c \notin act2[Base]
      /\ act2[Base] \subseteq act[Base]
      /\ \A p \in IoPollers : act2[p] = act[p]
  BY <1>7, EPollerAssumption DEF Good
<1> HIDE DEF act2
<1>9. Owners(t, opn, act2, None, stp)
  <2>1. Homes(t)
    BY <1>1, <1>7 DEF Owners, Homes
  <2>2. Stages(t)
    BY <1>1, <1>7 DEF Owners, Stages
  <2>3. OpenWhileHeld(t, opn)
    BY <1>1, <1>7 DEF Owners, OpenWhileHeld, Unheld
  <2>4. HandedOver(t, None)
    BY <1>1, <1>7 DEF Owners, HandedOver, Unheld
  <2>5. HandlesActive(t, act2, None)
    BY DEF HandlesActive
  <2>6. ActiveAreLive(t, act2)
    <3>1. \A p \in IoPollers \cup {Base} : \A d \in act2[p] : d \in act[p]
      BY <1>8
    <3>2. \A p \in IoPollers \cup {Base} : \A d \in act2[p] : d # c
      BY <1>1, <1>2, <1>8, EPollerAssumption DEF Owners, ActiveAreLive
    <3> QED  BY <1>1, <1>7, <3>1, <3>2 DEF Owners, ActiveAreLive
  <2>7. StoppedForGood(act2, None, stp)
    BY <1>1, <1>8 DEF Owners, StoppedForGood
  <2> QED  BY <2>1, <2>2, <2>3, <2>4, <2>5, <2>6, <2>7 DEF Owners
<1>10. Turns(s, t, c, "kNew", "done")
  BY <1>4, <1>5, <1>6 DEF Touched, Turns
<1> QED
  BY <1>1, <1>2, <1>6, <1>8, <1>9, <1>10 DEF Good, r, t, act2

\* removeConnectionInLoop() before it connects anew.
LEMMA EraseGood ==
    ASSUME NEW s, NEW opn, NEW act, NEW stp, Good(s, opn, act, None, stp),
           NEW c \in DOMAIN s.chan, s.chan[c].life = "closed"
    PROVE  LET t == SetLife(s, c, "erased")
           IN  /\ Good(t, opn, act, None, stp) /\ DOMAIN t.chan = DOMAIN s.chan
               /\ Turns(s, t, c, s.chan[c].index, "erased")
<1> DEFINE t == SetLife(s, c, "erased")
<1>1. /\ WellFormed(s) /\ Agrees(s, opn) /\ s.chan[c].life \notin Unused
      /\ s.chan[c].home # Base /\ s.chan[c].events = {}
      /\ "erased" \in Lives /\ "erased" \notin Unused
  BY DEF Good, Owners, Homes, Stages, Unused, Lives
<1>2. /\ WellFormed(t)
      /\ Agrees(t, opn)
      /\ Touched(s, t, c, s.chan[c].events, s.chan[c].index, "erased")
  BY <1>1, SetLifeAgrees
<1> HIDE DEF t
<1>3. Good(t, opn, act, None, stp) /\ DOMAIN t.chan = DOMAIN s.chan
  BY <1>1, <1>2, GoOnGood
<1>4. Turns(s, t, c, s.chan[c].index, "erased")
  BY <1>2 DEF Touched, Turns
<1> QED
  BY <1>3, <1>4 DEF t

\* ConnectEstablished().
LEMMA EstablishedGood ==
    ASSUME NEW s, NEW opn, NEW act, NEW hnd, NEW stp, Good(s, opn, act, hnd, stp),
           NEW c \in DOMAIN s.chan, s.chan[c].life = "posted"
    PROVE  LET t == SetLife(Enable(Enable(s, c, {"write"}), c, {"read"}), c, "established")
           IN  Good(t, opn, act, hnd, stp) /\ Turns(s, t, c, "kAdded", "established")
<1> DEFINE a == Enable(s, c, {"write"})
           b == Enable(a, c, {"read"})
           t == SetLife(b, c, "established")
<1>1. /\ WellFormed(s) /\ Agrees(s, opn) /\ s.chan[c].life \notin Unused
      /\ s.chan[c].home # Base /\ s.chan[c].events = {}
  BY DEF Good, Owners, Homes, Stages, Unused
<1>2. Alone(s, c) /\ s.chan[c].fd \in opn
  BY <1>1, OwnersAlone DEF Good
<1>3. {"write"} \in EventSets /\ {"read"} \in EventSets
  BY DEF EventSets
<1>4. /\ WellFormed(a) /\ Agrees(a, opn)
      /\ Touched(s, a, c, s.chan[c].events \cup {"write"}, "kAdded", s.chan[c].life)
  BY <1>1, <1>2, <1>3, EnableAgrees
<1> HIDE DEF a
<1>5. /\ c \in DOMAIN a.chan /\ a.chan[c].life \notin Unused /\ a.chan[c].fd \in opn
      /\ Alone(a, c)
  BY <1>1, <1>2, <1>4 DEF Touched, Alone
<1>6. /\ WellFormed(b) /\ Agrees(b, opn)
      /\ Touched(a, b, c, a.chan[c].events \cup {"read"}, "kAdded", a.chan[c].life)
  BY <1>3, <1>4, <1>5, EnableAgrees
<1> HIDE DEF b
<1>7. c \in DOMAIN b.chan /\ b.chan[c].life \notin Unused
  BY <1>5, <1>6 DEF Touched
<1>8. "established" \in Lives /\ "established" \notin Unused
  BY DEF Lives, Unused
<1>9. /\ WellFormed(t) /\ Agrees(t, opn)
      /\ Touched(b, t, c, b.chan[c].events, b.chan[c].index, "established")
  BY <1>6, <1>7, <1>8, SetLifeAgrees
<1> HIDE DEF t
<1>10. Touched(s, t, c, t.chan[c].events, t.chan[c].index, "established")
       /\ "read" \in t.chan[c].events
  BY <1>4, <1>6, <1>9 DEF Touched
<1>11. "established" \in Fresh
  BY DEF Fresh
<1>12. Good(t, opn, act, hnd, stp) /\ DOMAIN t.chan = DOMAIN s.chan
  <2> DEFINE life == "established"
  <2>1. /\ life \in Lives /\ life \notin {"connecting", "done", "lost"} /\ life \notin Unused
        /\ life \notin {"posted", "closed", "erased"} /\ life \in Fresh
    BY <1>8, <1>11
  <2>2. Touched(s, t, c, t.chan[c].events, t.chan[c].index, life)
    BY <1>10
  <2> HIDE DEF life
  <2> QED  BY <1>1, <1>9, <1>10, <2>1, <2>2, GoOnGood
<1>13. Turns(s, t, c, "kAdded", "established")
  BY <1>4, <1>6, <1>9 DEF Touched, Turns
<1> QED
  BY <1>12, <1>13 DEF t, b, a

\* A channel that is handled enables writing or not, and reading.
LEMMA EnableGood ==
    ASSUME NEW s, NEW opn, NEW act, NEW hnd, NEW stp, Good(s, opn, act, hnd, stp),
           NEW c \in DOMAIN s.chan, s.chan[c].life = "established",
           NEW more \in EventSets, more # {}
    PROVE  LET t == Enable(s, c, more)
           IN  /\ Good(t, opn, act, hnd, stp)
               /\ DOMAIN t.chan = DOMAIN s.chan
               /\ t.chan[c].life = "established"
               /\ Turns(s, t, c, "kAdded", "established")
<1> DEFINE t == Enable(s, c, more)
<1>1. /\ WellFormed(s) /\ Agrees(s, opn) /\ s.chan[c].life \notin Unused
      /\ s.chan[c].home # Base /\ "read" \in s.chan[c].events
  BY DEF Good, Owners, Homes, Stages, Unused
<1>2. Alone(s, c) /\ s.chan[c].fd \in opn
  BY <1>1, OwnersAlone DEF Good
<1>3. /\ WellFormed(t) /\ Agrees(t, opn)
      /\ Touched(s, t, c, s.chan[c].events \cup more, "kAdded", s.chan[c].life)
  BY <1>1, <1>2, EnableAgrees
<1> HIDE DEF t
<1>4. t.chan[c].life = "established"
  BY <1>3 DEF Touched
<1>5. Good(t, opn, act, hnd, stp) /\ DOMAIN t.chan = DOMAIN s.chan
  <2> DEFINE life == s.chan[c].life
  <2>1. /\ life \in Lives /\ life \notin {"connecting", "done", "lost"} /\ life \notin Unused
        /\ life \notin {"posted", "closed", "erased"} /\ life \in Fresh
    BY DEF Lives, Unused, Fresh
  <2>2. "read" \in s.chan[c].events \cup more
    BY <1>1
  <2>3. Touched(s, t, c, s.chan[c].events \cup more, "kAdded", life)
    BY <1>3
  <2> QED  BY <1>1, <1>3, <2>1, <2>2, <2>3, GoOnGood
<1>6. Turns(s, t, c, "kAdded", "established")
  BY <1>3 DEF Touched, Turns
<1> QED
  BY <1>4, <1>5, <1>6 DEF t

\* A channel that is handled disables writing.
LEMMA WrittenGood ==
    ASSUME NEW s, NEW opn, NEW act, NEW hnd, NEW stp, Good(s, opn, act, hnd, stp),
           NEW c \in DOMAIN s.chan, s.chan[c].life = "established"
    PROVE  LET t == Disable(s, c, {"write"})
           IN  Good(t, opn, act, hnd, stp) /\ Turns(s, t, c, "kAdded", "established")
<1> DEFINE t == Disable(s, c, {"write"})
           ev == s.chan[c].events \ {"write"}
<1>1. /\ WellFormed(s) /\ Agrees(s, opn) /\ s.chan[c].life \notin Unused
      /\ s.chan[c].home # Base /\ "read" \in s.chan[c].events
      /\ {"write"} \in EventSets
  BY DEF Good, Owners, Homes, Stages, Unused, EventSets
<1>2. Alone(s, c) /\ s.chan[c].fd \in opn
  BY <1>1, OwnersAlone DEF Good
<1>3. "read" \in ev /\ ev # {}
  BY <1>1
<1>4. /\ WellFormed(t) /\ Agrees(t, opn)
      /\ Touched(s, t, c, ev, IF ev = {} THEN "kDeleted" ELSE "kAdded", s.chan[c].life)
  BY <1>1, <1>2, DisableAgrees
<1> HIDE DEF t, ev
<1>5. Touched(s, t, c, ev, "kAdded", s.chan[c].life)
  BY <1>3, <1>4
<1>6. Good(t, opn, act, hnd, stp) /\ DOMAIN t.chan = DOMAIN s.chan
  <2> DEFINE life == s.chan[c].life
  <2>1. /\ life \in Lives /\ life \notin {"connecting", "done", "lost"} /\ life \notin Unused
        /\ life \notin {"posted", "closed", "erased"} /\ life \in Fresh
    BY DEF Lives, Unused, Fresh
  <2> QED  BY <1>1, <1>3, <1>4, <1>5, <2>1, GoOnGood
<1>7. Turns(s, t, c, "kAdded", "established")
  BY <1>5 DEF Touched, Turns
<1> QED
  BY <1>6, <1>7 DEF t

\* disableAll() of a channel of an io loop.
LEMMA DisableAllAgrees ==
    ASSUME NEW s, NEW opn, NEW act, NEW hnd, NEW stp, Good(s, opn, act, hnd, stp),
           NEW c \in DOMAIN s.chan, s.chan[c].life = "established"
    PROVE  LET t == DisableAll(s, c)
           IN  /\ WellFormed(t)
               /\ Agrees(t, opn)
               /\ Touched(s, t, c, {}, "kDeleted", "established")
               /\ Alone(t, c)
               /\ s.chan[c].fd \in opn
<1> DEFINE t == DisableAll(s, c)
<1>1. /\ WellFormed(s) /\ Agrees(s, opn) /\ s.chan[c].life \notin Unused
      /\ s.chan[c].events # {}
      /\ {"read", "write"} \in EventSets
  BY DEF Good, Owners, Homes, Stages, Unused, EventSets
<1>2. Alone(s, c) /\ s.chan[c].fd \in opn
  BY <1>1, OwnersAlone DEF Good
<1>3. s.chan[c].events \ {"read", "write"} = {}
  BY <1>1, ChannelTypes DEF EventSets
<1>4. /\ WellFormed(t) /\ Agrees(t, opn)
      /\ Touched(s, t, c, {}, "kDeleted", s.chan[c].life)
  BY <1>1, <1>2, <1>3, DisableAgrees DEF DisableAll
<1> HIDE DEF t
<1>5. Alone(t, c)
  BY <1>2, <1>4 DEF Touched, Alone
<1> QED
  BY <1>2, <1>4, <1>5 DEF t

\* HandleClose().
LEMMA ClosedGood ==
    ASSUME NEW s, NEW opn, NEW act, NEW hnd, NEW stp, Good(s, opn, act, hnd, stp),
           NEW c \in DOMAIN s.chan, s.chan[c].life = "established"
    PROVE  LET t == SetLife(DisableAll(s, c), c, "closed")
           IN  Good(t, opn, act, hnd, stp) /\ Turns(s, t, c, "kDeleted", "closed")
<1> DEFINE a == DisableAll(s, c)
           t == SetLife(a, c, "closed")
<1>1. /\ WellFormed(a) /\ Agrees(a, opn)
      /\ Touched(s, a, c, {}, "kDeleted", "established")
  BY DisableAllAgrees
<1> HIDE DEF a
<1>2. c \in DOMAIN a.chan /\ a.chan[c].life \notin Unused
      /\ "closed" \in Lives /\ "closed" \notin Unused
  BY <1>1 DEF Touched, Lives, Unused
<1>3. /\ WellFormed(t) /\ Agrees(t, opn)
      /\ Touched(a, t, c, a.chan[c].events, a.chan[c].index, "closed")
  BY <1>1, <1>2, SetLifeAgrees
<1> HIDE DEF t
<1>4. Touched(s, t, c, {}, "kDeleted", "closed")
  BY <1>1, <1>3 DEF Touched
<1>5. Good(t, opn, act, hnd, stp) /\ DOMAIN t.chan = DOMAIN s.chan
  <2> DEFINE life == "closed"
             ev == {}
  <2>1. /\ life \in Lives /\ life \notin {"connecting", "done", "lost"} /\ life \notin Unused
        /\ life # "established" /\ life \in Fresh /\ ev = {}
    BY DEF Lives, Unused, Fresh
  <2>2. Touched(s, t, c, ev, "kDeleted", life)
    BY <1>4
  <2>3. WellFormed(s) /\ s.chan[c].life \notin Unused /\ s.chan[c].home # Base
    BY DEF Good, Owners, Homes, Unused
  <2> HIDE DEF life, ev
  <2> QED  BY <1>3, <2>1, <2>2, <2>3, GoOnGood
<1>6. Turns(s, t, c, "kDeleted", "closed")
  BY <1>4 DEF Touched, Turns
<1> QED
  BY <1>5, <1>6 DEF t, a

\* ConnectDestroyed().
LEMMA RemovedGood ==
    ASSUME NEW s, NEW opn, NEW act, NEW hnd, NEW stp, Good(s, opn, act, hnd, stp),
           NEW c \in DOMAIN s.chan, act[s.chan[c].home] = {},
           \/ s.chan[c].life = "erased"
           \/ hnd = None /\ s.chan[c].life \in {"established", "closed"}
    PROVE  LET t == SetLife(Remove(DisableIfConnected(s, c), s.chan[c].home, c), c, "removed")
           IN  Good(t, opn, act, hnd, stp) /\ Turns(s, t, c, "kNew", "removed")
<1> DEFINE a == DisableIfConnected(s, c)
           b == Remove(a, s.chan[c].home, c)
           t == SetLife(b, c, "removed")
<1>1. /\ WellFormed(s) /\ Agrees(s, opn) /\ s.chan[c].life \notin Unused
      /\ s.chan[c].home # Base
      /\ s.chan[c].life # "established" => s.chan[c].events = {}
  BY DEF Good, Owners, Homes, Stages, Unused
<1>2. Alone(s, c) /\ s.chan[c].fd \in opn
  BY <1>1, OwnersAlone DEF Good
<1>3. /\ WellFormed(a) /\ Agrees(a, opn) /\ Alone(a, c)
      /\ Touched(s, a, c, {}, a.chan[c].index, s.chan[c].life)
  <2>1. CASE s.chan[c].life = "established"
    <3>1. a = DisableAll(s, c)
      BY <2>1 DEF DisableIfConnected
    <3>2. /\ WellFormed(a) /\ Agrees(a, opn) /\ Alone(a, c)
          /\ Touched(s, a, c, {}, "kDeleted", "established")
      BY <2>1, <3>1, DisableAllAgrees
    <3> QED  BY <2>1, <3>2 DEF Touched
  <2>2. CASE s.chan[c].life # "established"
    <3>1. a = s
      BY <2>2 DEF DisableIfConnected
    <3> QED  BY <1>1, <1>2, <2>2, <3>1 DEF Touched
  <2> QED  BY <2>1, <2>2
<1> HIDE DEF a
<1>4. /\ c \in DOMAIN a.chan /\ a.chan[c].life \notin Unused /\ a.chan[c].events = {}
      /\ a.chan[c].fd \in opn /\ a.chan[c].home = s.chan[c].home
  BY <1>1, <1>2, <1>3 DEF Touched
<1>5. /\ WellFormed(b) /\ Agrees(b, opn)
      /\ Touched(a, b, c, {}, "kNew", a.chan[c].life)
  BY <1>3, <1>4, RemoveAgrees
<1> HIDE DEF b
<1>6. /\ c \in DOMAIN b.chan /\ b.chan[c].life \notin Unused /\ b.chan[c].events = {}
      /\ "removed" \in Lives
  BY <1>4, <1>5 DEF Touched, Lives
<1>7. /\ WellFormed(t) /\ Agrees(t, opn)
      /\ Touched(b, t, c, b.chan[c].events, b.chan[c].index, "removed")
  BY <1>5, <1>6, SetLifeAgrees
<1> HIDE DEF t
<1>8. Touched(s, t, c, {}, "kNew", "removed")
  BY <1>3, <1>5, <1>7 DEF Touched
<1>9. Good(t, opn, act, hnd, stp) /\ DOMAIN t.chan = DOMAIN s.chan
  <2> DEFINE life == "removed"
             ev == {}
  <2>1. /\ life \in Lives /\ life \notin {"connecting", "done", "lost"}
        /\ life # "established" /\ life = "removed" /\ ev = {}
    BY DEF Lives
  <2>2. Touched(s, t, c, ev, "kNew", life)
    BY <1>8
  <2>3. s.chan[c].life \in Fresh => hnd = None
    BY DEF Fresh
  <2> HIDE DEF life, ev
  <2> QED  BY <1>1, <1>7, <2>1, <2>2, <2>3, GoOnGood
<1>10. Turns(s, t, c, "kNew", "removed")
  BY <1>8 DEF Touched, Turns
<1> QED
  BY <1>9, <1>10 DEF t, b, a

\* Destroy().
LEMMA DestroyedGood ==
    ASSUME NEW s, NEW opn, NEW act, NEW hnd, NEW stp, Good(s, opn, act, hnd, stp),
           NEW c \in DOMAIN s.chan, s.chan[c].life = "removed"
    PROVE  LET t == CloseFd(SetLife(s, c, "destroyed"), s.chan[c].fd)
           IN  /\ Good(t, opn \ {s.chan[c].fd}, act, hnd, stp)
               /\ Turns(s, t, c, s.chan[c].index, "destroyed")
<1> DEFINE fd == s.chan[c].fd
           t == CloseFd(SetLife(s, c, "destroyed"), fd)
<1>1. /\ WellFormed(s) /\ Agrees(s, opn) /\ Owners(s, opn, act, hnd, stp)
      /\ s.chan[c].home # Base
  BY DEF Good, Owners, Homes
<1>2. \A d \in DOMAIN s.chan : d # c /\ s.chan[d].fd = fd => s.chan[d].life \in Unheld
  <2>1. s.chan[c].life \notin Unheld /\ s.chan[c].life \notin Fresh /\ hnd # c
    BY <1>1, NoneIsNoChannel DEF Unheld, Fresh, Owners, HandlesActive
  <2> QED  BY <1>1, <2>1 DEF Owners, HandedOver
<1>3. /\ WellFormed(t)
      /\ Agrees(t, opn \ {fd})
      /\ Touched(s, t, c, s.chan[c].events, s.chan[c].index, "destroyed")
  <2>1. "destroyed" \in Lives /\ "destroyed" \in Unused
    BY DEF Lives, Unused
  <2>2. \A d \in DOMAIN s.chan : d # c /\ s.chan[d].fd = s.chan[c].fd => s.chan[d].life \in Unused
    BY <1>2 DEF Unheld, Unused
  <2> QED  BY <1>1, <2>1, <2>2, CloseAgrees
<1> HIDE DEF t
<1>4. /\ DOMAIN t.chan = DOMAIN s.chan
      /\ \A d \in DOMAIN s.chan : d # c => t.chan[d] = s.chan[d]
      /\ t.chan[c].fd = fd /\ t.chan[c].home = s.chan[c].home /\ t.chan[c].life = "destroyed"
  BY <1>3 DEF Touched
<1>5. Owners(t, opn \ {fd}, act, hnd, stp)
  <2>1. Homes(t)
    BY <1>1, <1>4 DEF Owners, Homes
  <2>2. Stages(t)
    BY <1>1, <1>4 DEF Owners, Stages
  <2>3. OpenWhileHeld(t, opn \ {fd})
    BY <1>1, <1>2, <1>4 DEF Owners, OpenWhileHeld, Unheld
  <2>4. HandedOver(t, hnd)
    BY <1>1, <1>4 DEF Owners, HandedOver, Unheld
  <2>5. HandlesActive(t, act, hnd)
    <3>1. hnd # None => hnd \in DOMAIN s.chan /\ hnd # c
      BY <1>1 DEF Owners, HandlesActive, ActiveAreLive
    <3> QED  BY <1>1, <1>4, <3>1 DEF Owners, HandlesActive
  <2>6. ActiveAreLive(t, act)
    BY <1>1, <1>4 DEF Owners, ActiveAreLive, Unused
  <2>7. StoppedForGood(act, hnd, stp)
    BY <1>1 DEF Owners
  <2> QED  BY <2>1, <2>2, <2>3, <2>4, <2>5, <2>6, <2>7 DEF Owners
<1>6. Turns(s, t, c, s.chan[c].index, "destroyed")
  BY <1>3 DEF Touched, Turns
<1> QED
  BY <1>3, <1>4, <1>5, <1>6 DEF Good, t

\* Fewer channels are active.
LEMMA HandledGood ==
    ASSUME NEW s, NEW opn, NEW act, NEW hnd, NEW stp, Good(s, opn, act, hnd, stp),
           NEW p \in IoPollers, NEW c
    PROVE  Good(s, opn, [act EXCEPT ![p] = @ \ {c}], hnd, stp)
<1> DEFINE act2 == [act EXCEPT ![p] = @ \ {c}]
<1>1. Owners(s, opn, act, hnd, stp)
  BY DEF Good
<1>2. /\ act2 \in [IoPollers \cup {Base} -> SUBSET DOMAIN s.chan]
      /\ \A q \in IoPollers \cup {Base} : act2[q] \subseteq act[q]
      /\ act2[Base] = act[Base]
  BY EPollerAssumption DEF Good
<1> HIDE DEF act2
<1>3. ActiveAreLive(s, act2)
  BY <1>1, <1>2 DEF Owners, ActiveAreLive
<1>4. HandlesActive(s, act2, hnd)
  BY <1>1, <1>2 DEF Owners, HandlesActive
<1>5. StoppedForGood(act2, hnd, stp)
  BY <1>1, <1>2 DEF Owners, StoppedForGood
<1>6. Owners(s, opn, act2, hnd, stp)
  BY <1>1, <1>3, <1>4, <1>5 DEF Owners
<1> QED
  BY <1>2, <1>6 DEF Good, act2

\* Poll().
LEMMA PolledGood ==
    ASSUME NEW s, NEW opn, NEW act, NEW hnd, NEW stp, Good(s, opn, act, hnd, stp),
           NEW p \in IoPollers \cup {Base}, p = Base => hnd = None /\ ~stp,
           NEW ready \in SUBSET { fd \in Fds : s.epoll[p][fd] # NoEntry }
    PROVE  Good(s, opn, [act EXCEPT ![p] = { s.epoll[p][fd].channel : fd \in ready }], hnd, stp)
<1> DEFINE found == { s.epoll[p][fd].channel : fd \in ready }
           act2 == [act EXCEPT ![p] = found]
<1>1. Owners(s, opn, act, hnd, stp) /\ Registered(s, opn)
  BY DEF Good, Agrees
<1>2. \A d \in found : d \in DOMAIN s.chan /\ s.chan[d].home = p /\ s.chan[d].life \notin Unused
  BY <1>1 DEF Registered, Pollers, RegisteredAt
<1> HIDE DEF found
<1>3. /\ act2 \in [IoPollers \cup {Base} -> SUBSET DOMAIN s.chan]
      /\ act2[p] = found
      /\ \A q \in IoPollers \cup {Base} : q # p => act2[q] = act[q]
  BY <1>2 DEF Good
<1> HIDE DEF act2
<1>4. ActiveAreLive(s, act2)
  BY <1>1, <1>2, <1>3 DEF Owners, ActiveAreLive
<1>5. HandlesActive(s, act2, hnd)
  BY <1>1, <1>3 DEF Owners, HandlesActive
<1>6. StoppedForGood(act2, hnd, stp)
  BY <1>1, <1>3 DEF Owners, StoppedForGood
<1>7. Owners(s, opn, act2, hnd, stp)
  BY <1>1, <1>4, <1>5, <1>6 DEF Owners
<1> QED
  BY <1>3, <1>7 DEF Good, act2, found

-------------------------------------------------------------------------------
(* The theorems.                                                           *)

LEMMA InvInit == Init => IInv
<1> SUFFICES ASSUME Init PROVE IInv
  OBVIOUS
<1>1. /\ State.chan = <<>> /\ State.channels = channels /\ State.epoll = epoll
      /\ DOMAIN <<>> = {}
      /\ <<>> \in Seq(Channels)
      /\ State = [chan |-> State.chan, channels |-> State.channels, epoll |-> State.epoll]
  BY DEF Init, State
<1>2. WellFormed(State)
  BY <1>1 DEF Init, WellFormed, NoEntry, EventSets
<1>3. Agrees(State, open)
  <2>1. Registered(State, open)
    BY <1>1 DEF Init, Registered
  <2> QED  BY <1>1, <2>1 DEF Agrees, Watched, AddedIfAsked, Mapped
<1>4. Owners(State, open, active, handling, stopping)
  <2>1. StoppedForGood(active, handling, stopping) /\ HandlesActive(State, active, handling)
    BY DEF Init, StoppedForGood, HandlesActive
  <2>2. ActiveAreLive(State, active)
    BY DEF Init, ActiveAreLive
  <2> QED  BY <1>1, <2>1, <2>2
             DEF Owners, Homes, Stages, OpenWhileHeld, HandedOver
<1>5. /\ open \subseteq Fds
      /\ active \in [IoPollers \cup {Base} -> SUBSET DOMAIN State.chan]
      /\ handling \in DOMAIN State.chan \cup {None}
      /\ toConnect \in 0 .. NumSocks
      /\ stopping \in BOOLEAN
  <2>1. active \in [IoPollers \cup {Base} -> SUBSET DOMAIN State.chan]
    <3> DEFINE D == DOMAIN State.chan
    <3> HIDE DEF D
    <3>1. active \in [IoPollers \cup {Base} -> SUBSET D]
      BY DEF Init
    <3> QED  BY <3>1 DEF D
  <2>2. toConnect \in 0 .. NumSocks
    BY EPollerAssumption DEF Init
  <2>3. open \subseteq Fds /\ handling \in DOMAIN State.chan \cup {None} /\ stopping \in BOOLEAN
    BY DEF Init
  <2> QED  BY <2>1, <2>2, <2>3
<1> QED
  BY <1>2, <1>3, <1>4, <1>5 DEF IInv, Good

LEMMA InvNext == IInv /\ [Next]_vars => IInv'
<1> SUFFICES ASSUME IInv, [Next]_vars PROVE IInv'
  OBVIOUS
<1>1. /\ Good(State, open, active, handling, stopping)
      /\ State.chan = chan /\ State.channels = channels /\ State.epoll = epoll
      /\ toConnect \in 0 .. NumSocks /\ stopping \in BOOLEAN
      /\ WellFormed(State)
      /\ Ids = DOMAIN State.chan
  BY DEF IInv, State, Good, Ids
\* The state a step comes to is the one its calls make.
<1>2. \A t : Becomes(t) /\ WellFormed(t) => State' = t
  BY DEF Becomes, State, WellFormed
<1>3. /\ UNCHANGED <<chan, channels, epoll>> => State' = State
      /\ Becomes(State) => State' = State
  BY DEF Becomes, State
<1>4. CASE Connect
  <2>1. CASE Connecting(State)
    <3>1. PICK fd \in Fds \ open :
            /\ open' = open \cup {fd}
            /\ Becomes(Register(NewChannel(State, fd, Base, "connecting"), Len(chan) + 1))
      BY <2>1 DEF Connecting
    <3> DEFINE t == Register(NewChannel(State, fd, Base, "connecting"), Len(chan) + 1)
    <3>2. Good(t, open \cup {fd}, active, handling, stopping)
      BY <1>1, ConnectingGood
    <3> HIDE DEF t
    <3>3. State' = t
      BY <1>2, <3>1, <3>2 DEF t, Good
    <3>4. /\ UNCHANGED <<active, handling, stopping>>
          /\ toConnect' \in 0 .. NumSocks
      BY <1>1, <1>4, EPollerAssumption DEF Connect
    <3> QED  BY <1>1, <3>1, <3>2, <3>3, <3>4 DEF IInv
  <2>2. CASE NotConnecting(State)
    <3>1. State' = State /\ UNCHANGED open
      BY <1>3, <2>2 DEF NotConnecting
    <3>2. /\ UNCHANGED <<active, handling, stopping>>
          /\ toConnect' \in 0 .. NumSocks
      BY <1>1, <1>4, EPollerAssumption DEF Connect
    <3> QED  BY <1>1, <3>1, <3>2 DEF IInv
  <2> QED  BY <1>4, <2>1, <2>2 DEF Connect
<1>5. CASE ForgetChannel
  <2> DEFINE t == SetLife(Deregister(State, handling), handling, "done")
             act == [active EXCEPT ![Base] = @ \ {handling}]
  <2>1. Good(t, open, act, None, stopping)
    BY <1>1, <1>5, ForgetGood DEF ForgetChannel
  <2>2. /\ Becomes(t) /\ active' = act /\ handling' = None
        /\ UNCHANGED <<open, toConnect, stopping>>
    BY <1>5 DEF ForgetChannel
  <2> HIDE DEF t, act
  <2>3. State' = t
    BY <1>2, <2>1, <2>2 DEF Good
  <2> QED  BY <1>1, <2>1, <2>2, <2>3 DEF IInv
<1>6. CASE Stop
  <2>1. /\ State' = State /\ stopping' = TRUE
        /\ UNCHANGED <<open, active, handling, toConnect>>
        /\ active[Base] = {} /\ handling = None
    BY <1>3, <1>6 DEF Stop, RunsFunctors
  <2>2. Good(State, open, active, handling, TRUE)
    BY <1>1, <2>1 DEF Good, Owners, StoppedForGood
  <2> QED  BY <1>1, <2>1, <2>2 DEF IInv
<1>7. ASSUME NEW c \in Ids, HandleConnectError(c) PROVE IInv'
  <2> DEFINE t == CloseFd(SetLife(State, c, "lost"), chan[c].fd)
             act == [active EXCEPT ![Base] = @ \ {c}]
  <2>1. Good(t, open \ {chan[c].fd}, act, None, stopping)
    BY <1>1, <1>7, ConnectErrorGood DEF HandleConnectError
  <2>2. /\ Becomes(t) /\ active' = act /\ handling' = None /\ open' = open \ {chan[c].fd}
        /\ UNCHANGED <<toConnect, stopping>>
    BY <1>7 DEF HandleConnectError
  <2> HIDE DEF t, act
  <2>3. State' = t
    BY <1>2, <2>1, <2>2 DEF Good
  <2> QED  BY <1>1, <2>1, <2>2, <2>3 DEF IInv
<1>8. ASSUME NEW c \in Ids, HandleConnected(c) PROVE IInv'
  <2>1. PICK p \in IoPollers : Becomes(NewChannel(State, chan[c].fd, p, "posted"))
    BY <1>8 DEF HandleConnected
  <2> DEFINE t == NewChannel(State, chan[c].fd, p, "posted")
  <2>2. Good(t, open, active, c, stopping)
    BY <1>1, <1>8, ConnectedGood DEF HandleConnected
  <2>3. Becomes(t) /\ handling' = c /\ UNCHANGED <<open, active, toConnect, stopping>>
    BY <1>8, <2>1 DEF HandleConnected
  <2> HIDE DEF t
  <2>4. State' = t
    BY <1>2, <2>2, <2>3 DEF Good
  <2> QED  BY <1>1, <2>2, <2>3, <2>4 DEF IInv
<1>9. ASSUME NEW c \in Ids, RemoveConnection(c) PROVE IInv'
  <2> DEFINE s == SetLife(State, c, "erased")
  <2>1. /\ handling = None /\ chan[c].life = "closed"
        /\ UNCHANGED <<active, handling, toConnect, stopping>>
        /\ Connecting(s) \/ NotConnecting(s)
    BY <1>9 DEF RemoveConnection, RunsFunctors
  <2>2. Good(s, open, active, None, stopping) /\ DOMAIN s.chan = DOMAIN chan
    BY <1>1, <2>1, EraseGood
  <2> HIDE DEF s
  <2>3. CASE Connecting(s)
    <3>1. PICK fd \in Fds \ open :
            /\ open' = open \cup {fd}
            /\ Becomes(Register(NewChannel(s, fd, Base, "connecting"), Len(chan) + 1))
      BY <2>3 DEF Connecting
    <3> DEFINE t == Register(NewChannel(s, fd, Base, "connecting"), Len(chan) + 1)
    <3>2. Len(chan) + 1 = Len(s.chan) + 1
      <4>1. s.chan \in Seq(Channels) /\ chan \in Seq(Channels)
        BY <1>1, <2>2 DEF Good, WellFormed
      <4>2. Len(s.chan) \in Nat /\ Len(chan) \in Nat /\ 1 .. Len(s.chan) = 1 .. Len(chan)
        BY <2>2, <4>1
      <4> QED  BY <4>2
    <3>3. Good(t, open \cup {fd}, active, None, stopping)
      BY <2>2, <3>2, ConnectingGood
    <3> HIDE DEF t
    <3>4. State' = t
      BY <1>2, <3>1, <3>3 DEF t, Good
    <3> QED  BY <1>1, <2>1, <3>1, <3>3, <3>4 DEF IInv
  <2>4. CASE NotConnecting(s)
    <3>1. State' = s /\ UNCHANGED open
      BY <1>2, <2>2, <2>4 DEF NotConnecting, Good
    <3> QED  BY <1>1, <2>1, <2>2, <3>1 DEF IInv
  <2> QED  BY <2>1, <2>3, <2>4
<1>10. ASSUME NEW c \in Ids, ConnectEstablished(c) PROVE IInv'
  <2> DEFINE t == SetLife(Enable(Enable(State, c, {"write"}), c, {"read"}), c, "established")
  <2>1. Good(t, open, active, handling, stopping)
    BY <1>1, <1>10, EstablishedGood DEF ConnectEstablished
  <2>2. Becomes(t) /\ UNCHANGED <<open, active, handling, toConnect, stopping>>
    BY <1>10 DEF ConnectEstablished, unchangedByIo
  <2> HIDE DEF t
  <2>3. State' = t
    BY <1>2, <2>1, <2>2 DEF Good
  <2> QED  BY <1>1, <2>1, <2>2, <2>3 DEF IInv
<1>11. ASSUME NEW c \in Ids, HandleMessage(c) PROVE IInv'
  <2>1. PICK more \in SUBSET ({"write"} \ chan[c].events) :
          Becomes(Enable(IF more = {} THEN State ELSE Enable(State, c, more), c, {"read"}))
    BY <1>11 DEF HandleMessage
  <2> DEFINE a == IF more = {} THEN State ELSE Enable(State, c, more)
             t == Enable(a, c, {"read"})
  <2>2. chan[c].life = "established"
    BY <1>11 DEF HandleMessage, Handles
  <2>3. /\ Good(a, open, active, handling, stopping) /\ c \in DOMAIN a.chan
        /\ a.chan[c].life = "established"
    <3>1. CASE more = {}
      BY <1>1, <2>2, <3>1
    <3>2. CASE more # {}
      <4>1. more \in EventSets
        BY DEF EventSets
      <4> QED  BY <1>1, <2>2, <3>2, <4>1, EnableGood
    <3> QED  BY <3>1, <3>2
  <2> HIDE DEF a
  <2>4. Good(t, open, active, handling, stopping)
    <3>1. {"read"} \in EventSets /\ {"read"} # {}
      BY DEF EventSets
    <3> QED  BY <2>3, <3>1, EnableGood
  <2>5. Becomes(t) /\ UNCHANGED <<open, active, handling, toConnect, stopping>>
    BY <1>11, <2>1 DEF HandleMessage, unchangedByIo, a
  <2> HIDE DEF t
  <2>6. State' = t
    BY <1>2, <2>4, <2>5 DEF Good
  <2> QED  BY <1>1, <2>4, <2>5, <2>6 DEF IInv
<1>12. ASSUME NEW c \in Ids, HandleWritten(c) PROVE IInv'
  <2> DEFINE t == Disable(State, c, {"write"})
  <2>1. Good(t, open, active, handling, stopping)
    BY <1>1, <1>12, WrittenGood DEF HandleWritten, Handles
  <2>2. Becomes(t) /\ UNCHANGED <<open, active, handling, toConnect, stopping>>
    BY <1>12 DEF HandleWritten, unchangedByIo
  <2> HIDE DEF t
  <2>3. State' = t
    BY <1>2, <2>1, <2>2 DEF Good
  <2> QED  BY <1>1, <2>1, <2>2, <2>3 DEF IInv
<1>13. ASSUME NEW c \in Ids, HandleClose(c) PROVE IInv'
  <2> DEFINE t == SetLife(DisableAll(State, c), c, "closed")
  <2>1. Good(t, open, active, handling, stopping)
    BY <1>1, <1>13, ClosedGood DEF HandleClose, Handles
  <2>2. Becomes(t) /\ UNCHANGED <<open, active, handling, toConnect, stopping>>
    BY <1>13 DEF HandleClose, unchangedByIo
  <2> HIDE DEF t
  <2>3. State' = t
    BY <1>2, <2>1, <2>2 DEF Good
  <2> QED  BY <1>1, <2>1, <2>2, <2>3 DEF IInv
<1>14. ASSUME NEW c \in Ids, ConnectDestroyed(c) PROVE IInv'
  <2> DEFINE t == SetLife(Remove(DisableIfConnected(State, c), chan[c].home, c), c, "removed")
  <2>1. stopping => handling = None
    BY <1>1 DEF Good, Owners, StoppedForGood
  <2>2. /\ active[chan[c].home] = {}
        /\ \/ chan[c].life = "erased"
           \/ handling = None /\ chan[c].life \in {"established", "closed"}
    BY <1>14, <2>1 DEF ConnectDestroyed, RunsFunctors
  <2>3. Good(t, open, active, handling, stopping)
    BY <1>1, <2>2, RemovedGood
  <2>4. Becomes(t) /\ UNCHANGED <<open, active, handling, toConnect, stopping>>
    BY <1>14 DEF ConnectDestroyed, unchangedByIo
  <2> HIDE DEF t
  <2>5. State' = t
    BY <1>2, <2>3, <2>4 DEF Good
  <2> QED  BY <1>1, <2>3, <2>4, <2>5 DEF IInv
<1>15. ASSUME NEW c \in Ids, Destroy(c) PROVE IInv'
  <2> DEFINE t == CloseFd(SetLife(State, c, "destroyed"), chan[c].fd)
  <2>1. Good(t, open \ {chan[c].fd}, active, handling, stopping)
    BY <1>1, <1>15, DestroyedGood DEF Destroy, Destroyable
  <2>2. /\ Becomes(t) /\ open' = open \ {chan[c].fd}
        /\ UNCHANGED <<active, handling, toConnect, stopping>>
    BY <1>15 DEF Destroy
  <2> HIDE DEF t
  <2>3. State' = t
    BY <1>2, <2>1, <2>2 DEF Good
  <2> QED  BY <1>1, <2>1, <2>2, <2>3 DEF IInv
<1>16. ASSUME NEW p \in IoPollers, NEW c \in Ids, Handled(p, c) PROVE IInv'
  <2> DEFINE act == [active EXCEPT ![p] = @ \ {c}]
  <2>1. Good(State, open, act, handling, stopping)
    BY <1>1, HandledGood
  <2>2. /\ State' = State /\ active' = act
        /\ UNCHANGED <<open, handling, toConnect, stopping>>
    BY <1>3, <1>16 DEF Handled, unchangedByIo
  <2> HIDE DEF act
  <2> QED  BY <1>1, <2>1, <2>2 DEF IInv
<1>17. ASSUME NEW p \in IoPollers \cup {Base}, Poll(p) PROVE IInv'
  <2>1. PICK ready \in SUBSET { fd \in Fds : epoll[p][fd] # NoEntry } :
          active' = [active EXCEPT ![p] = { epoll[p][fd].channel : fd \in ready }]
    BY <1>17 DEF Poll
  <2> DEFINE act == [active EXCEPT ![p] = { epoll[p][fd].channel : fd \in ready }]
  <2>2. p = Base => handling = None /\ ~stopping
    BY <1>17 DEF Poll, RunsFunctors
  <2>3. Good(State, open, act, handling, stopping)
    BY <1>1, <2>2, PolledGood
  <2>4. /\ State' = State /\ active' = act
        /\ UNCHANGED <<open, handling, toConnect, stopping>>
    BY <1>3, <1>17, <2>1 DEF Poll, unchangedByIo
  <2> HIDE DEF act
  <2> QED  BY <1>1, <2>3, <2>4 DEF IInv
<1>18. CASE UNCHANGED vars
  <2>1. State' = State /\ UNCHANGED <<open, active, handling, toConnect, stopping>>
    BY <1>3, <1>18 DEF vars
  <2> QED  BY <1>1, <2>1 DEF IInv
<1> QED
  BY <1>4, <1>5, <1>6, <1>7, <1>8, <1>9, <1>10, <1>11, <1>12, <1>13, <1>14,
     <1>15, <1>16, <1>17, <1>18 DEF Next

LEMMA InvTypes == IInv => TypeOK
<1> SUFFICES ASSUME IInv PROVE TypeOK
  OBVIOUS
<1>1. /\ State.chan = chan /\ State.channels = channels /\ State.epoll = epoll
      /\ WellFormed(State) /\ AddedIfAsked(State)
  BY DEF IInv, Good, Agrees, State
<1>2. /\ open \subseteq Fds
      /\ active \in [IoPollers \cup {Base} -> SUBSET Ids]
      /\ handling \in Ids \cup {None}
      /\ toConnect \in 0 .. NumSocks
      /\ stopping \in BOOLEAN
  BY <1>1 DEF IInv, Good, Ids
<1>3. /\ chan \in Seq(Channels)
      /\ channels \in [Pollers -> [Fds -> Ids \cup {None}]]
      /\ epoll \in [Pollers -> [Fds -> [channel : Ids \cup {None},
                                        events : SUBSET {"read", "write"}]]]
  BY <1>1 DEF WellFormed, Ids, EventSets
<1>4. \A c \in Ids : chan[c].index = "kAdded" <=> chan[c].events # {}
  BY <1>1 DEF AddedIfAsked, Ids
<1> QED
  BY <1>2, <1>3, <1>4 DEF TypeOK

LEMMA InvAgrees == IInv => KernelAgrees
<1> SUFFICES ASSUME IInv PROVE KernelAgrees
  OBVIOUS
<1>1. /\ State.chan = chan /\ State.channels = channels /\ State.epoll = epoll
      /\ Registered(State, open) /\ Watched(State)
  BY DEF IInv, Good, Agrees, State
<1>2. \A p \in Pollers, fd \in Fds : epoll[p][fd] # NoEntry =>
         LET c == epoll[p][fd].channel
         IN  /\ InUse(c) /\ chan[c].home = p /\ chan[c].fd = fd
             /\ fd \in open
             /\ channels[p][fd] = c
             /\ chan[c].index = "kAdded"
             /\ epoll[p][fd].events = chan[c].events
  BY <1>1 DEF Registered, InUse, Unused, RegisteredAt
<1>3. \A c \in Ids : InUse(c) /\ chan[c].events # {} =>
         epoll[chan[c].home][chan[c].fd] = Entry(State, c)
  BY <1>1 DEF Watched, InUse, Unused, Ids
<1> QED
  BY <1>2, <1>3 DEF KernelAgrees

LEMMA InvActive == IInv => ActiveChannelsLive
<1> SUFFICES ASSUME IInv PROVE ActiveChannelsLive
  OBVIOUS
<1>1. State.chan = chan /\ ActiveAreLive(State, active)
  BY DEF IInv, Good, Owners, State
<1> QED
  BY <1>1 DEF ActiveAreLive, ActiveChannelsLive, Unused

\* Pollers map descriptors to channels that exist, and index_ says kAdded
\* exactly while the channel asks for events (EPoller::updateChannel()).
THEOREM TypeCorrect == Spec => []TypeOK
BY InvInit, InvNext, InvTypes, PTL DEF Spec

\* The kernel watches what the channels ask for, with any number of loops, of
\* descriptors and of channels (EPoller::updateChannel(), removeChannel()).
THEOREM KernelWatchesChannels == Spec => []KernelAgrees
BY InvInit, InvNext, InvAgrees, PTL DEF Spec

\* A loop handles events of live channels of its own only (EventLoop::loop()).
THEOREM HandledChannelsLive == Spec => []ActiveChannelsLive
BY InvInit, InvNext, InvActive, PTL DEF Spec

-------------------------------------------------------------------------------
(* The lives of connections.                                               *)

\* A connection's channel is registered as its life demands.
Follows(s) ==
    \A c \in DOMAIN s.chan : s.chan[c].home # Base =>
        /\ s.chan[c].life = "posted" => s.chan[c].index = "kNew"
        /\ s.chan[c].life = "established" => s.chan[c].index = "kAdded"
        /\ s.chan[c].life \in {"closed", "erased"} => s.chan[c].index = "kDeleted"

\* What becomes of the channel of a connection in one step.
Moves(life, index, life2, index2) ==
    \/ life2 = life /\ index2 = index
    \/ life = "posted" /\ life2 = "established" /\ index2 = "kAdded"
    \/ life = "established" /\ life2 = "closed" /\ index2 = "kDeleted"
    \/ life = "closed" /\ life2 = "erased" /\ index2 = index
    \/ life \in {"established", "closed", "erased"} /\ life2 = "removed" /\ index2 = "kNew"
    \/ life = "removed" /\ life2 = "destroyed" /\ index2 = index

MovesOn(s, t) ==
    /\ DOMAIN s.chan \subseteq DOMAIN t.chan
    /\ \A c \in DOMAIN s.chan :
          /\ t.chan[c].home = s.chan[c].home
          /\ s.chan[c].home # Base =>
                 Moves(s.chan[c].life, s.chan[c].index, t.chan[c].life, t.chan[c].index)
    /\ \A c \in DOMAIN t.chan \ DOMAIN s.chan :
          \/ t.chan[c].home = Base
          \/ t.chan[c].life = "posted" /\ t.chan[c].index = "kNew"

\* One channel goes on, the others stay.
LEMMA TurnsMovesOn ==
    ASSUME NEW s, NEW t, NEW c \in DOMAIN s.chan, NEW index, NEW life,
           Turns(s, t, c, index, life),
           \/ s.chan[c].home = Base
           \/ Moves(s.chan[c].life, s.chan[c].index, life, index)
    PROVE  MovesOn(s, t)
<1>1. \A d \in DOMAIN s.chan : Moves(s.chan[d].life, s.chan[d].index, s.chan[d].life, s.chan[d].index)
  BY DEF Moves
<1> QED
  BY <1>1 DEF Turns, MovesOn

\* A channel that is made after that, or alone.
LEMMA AddsMovesOn ==
    ASSUME NEW s, NEW t, NEW u, NEW n, MovesOn(s, t), DOMAIN t.chan = DOMAIN s.chan, Adds(t, u, n)
    PROVE  MovesOn(s, u)
BY DEF Adds, MovesOn

LEMMA StaysMovesOn ==
    ASSUME NEW s
    PROVE  MovesOn(s, s)
BY DEF MovesOn, Moves

LEMMA FollowsOn ==
    ASSUME NEW s, NEW t, Follows(s), MovesOn(s, t)
    PROVE  Follows(t)
<1> SUFFICES ASSUME NEW c \in DOMAIN t.chan, t.chan[c].home # Base
             PROVE  /\ t.chan[c].life = "posted" => t.chan[c].index = "kNew"
                    /\ t.chan[c].life = "established" => t.chan[c].index = "kAdded"
                    /\ t.chan[c].life \in {"closed", "erased"} => t.chan[c].index = "kDeleted"
  BY DEF Follows
<1>1. CASE c \in DOMAIN s.chan
  BY <1>1 DEF Follows, MovesOn, Moves
<1>2. CASE c \notin DOMAIN s.chan
  BY <1>2 DEF MovesOn
<1> QED
  BY <1>1, <1>2

\* Every action moves one connection at most, and by one stage.
LEMMA StepMovesOn == IInv /\ Follows(State) /\ [Next]_vars => MovesOn(State, State')
<1> SUFFICES ASSUME IInv, Follows(State), [Next]_vars PROVE MovesOn(State, State')
  OBVIOUS
<1>1. /\ Good(State, open, active, handling, stopping)
      /\ State.chan = chan
      /\ WellFormed(State)
      /\ Ids = DOMAIN State.chan
  BY DEF IInv, State, Good, Ids
<1>2. \A t : Becomes(t) /\ WellFormed(t) => State' = t
  BY DEF Becomes, State, WellFormed
<1>3. /\ UNCHANGED <<chan, channels, epoll>> => State' = State
      /\ Becomes(State) => State' = State
  BY DEF Becomes, State
<1>4. State' = State => MovesOn(State, State')
  BY StaysMovesOn
<1>5. CASE Connect
  <2>1. CASE Connecting(State)
    <3>1. PICK fd \in Fds \ open :
            Becomes(Register(NewChannel(State, fd, Base, "connecting"), Len(chan) + 1))
      BY <2>1 DEF Connecting
    <3> DEFINE t == Register(NewChannel(State, fd, Base, "connecting"), Len(chan) + 1)
    <3>2. Good(t, open \cup {fd}, active, handling, stopping) /\ Adds(State, t, Len(chan) + 1)
      BY <1>1, ConnectingGood
    <3> HIDE DEF t
    <3>3. State' = t
      BY <1>2, <3>1, <3>2 DEF t, Good
    <3> QED  BY <3>2, <3>3, StaysMovesOn, AddsMovesOn
  <2>2. CASE NotConnecting(State)
    BY <1>3, <1>4, <2>2 DEF NotConnecting
  <2> QED  BY <1>5, <2>1, <2>2 DEF Connect
<1>6. CASE ForgetChannel
  <2> DEFINE t == SetLife(Deregister(State, handling), handling, "done")
             act == [active EXCEPT ![Base] = @ \ {handling}]
  <2>1. /\ Good(t, open, act, None, stopping)
        /\ Turns(State, t, handling, "kNew", "done") /\ State.chan[handling].home = Base
        /\ handling \in DOMAIN State.chan
    BY <1>1, <1>6, ForgetGood DEF ForgetChannel
  <2>2. Becomes(t)
    BY <1>6 DEF ForgetChannel
  <2> HIDE DEF t, act
  <2>3. State' = t
    BY <1>2, <2>1, <2>2 DEF Good
  <2> QED  BY <2>1, <2>3, TurnsMovesOn
<1>7. ASSUME NEW c \in Ids, HandleConnectError(c) PROVE MovesOn(State, State')
  <2> DEFINE t == CloseFd(SetLife(State, c, "lost"), chan[c].fd)
             act == [active EXCEPT ![Base] = @ \ {c}]
  <2>1. /\ Good(t, open \ {chan[c].fd}, act, None, stopping)
        /\ Turns(State, t, c, State.chan[c].index, "lost") /\ State.chan[c].home = Base
    BY <1>1, <1>7, ConnectErrorGood DEF HandleConnectError
  <2>2. Becomes(t)
    BY <1>7 DEF HandleConnectError
  <2> HIDE DEF t, act
  <2>3. State' = t
    BY <1>2, <2>1, <2>2 DEF Good
  <2> QED  BY <1>1, <2>1, <2>3, TurnsMovesOn
<1>8. ASSUME NEW c \in Ids, HandleConnected(c) PROVE MovesOn(State, State')
  <2>1. PICK p \in IoPollers : Becomes(NewChannel(State, chan[c].fd, p, "posted"))
    BY <1>8 DEF HandleConnected
  <2> DEFINE t == NewChannel(State, chan[c].fd, p, "posted")
  <2>2. Good(t, open, active, c, stopping) /\ Adds(State, t, Len(chan) + 1)
    BY <1>1, <1>8, ConnectedGood DEF HandleConnected
  <2> HIDE DEF t
  <2>3. State' = t
    BY <1>2, <2>1, <2>2 DEF Good, t
  <2> QED  BY <2>2, <2>3, StaysMovesOn, AddsMovesOn
<1>9. ASSUME NEW c \in Ids, RemoveConnection(c) PROVE MovesOn(State, State')
  <2> DEFINE s == SetLife(State, c, "erased")
  <2>1. /\ handling = None /\ chan[c].life = "closed"
        /\ Connecting(s) \/ NotConnecting(s)
    BY <1>9 DEF RemoveConnection, RunsFunctors
  <2>2. /\ Good(s, open, active, None, stopping) /\ DOMAIN s.chan = DOMAIN chan
        /\ Turns(State, s, c, State.chan[c].index, "erased")
    BY <1>1, <2>1, EraseGood
  <2> HIDE DEF s
  <2>3. MovesOn(State, s)
    <3>1. Moves(State.chan[c].life, State.chan[c].index, "erased", State.chan[c].index)
      BY <1>1, <2>1 DEF Moves
    <3> QED  BY <1>1, <2>2, <3>1, TurnsMovesOn
  <2>4. CASE Connecting(s)
    <3>1. PICK fd \in Fds \ open :
            Becomes(Register(NewChannel(s, fd, Base, "connecting"), Len(chan) + 1))
      BY <2>4 DEF Connecting
    <3> DEFINE n == Len(chan) + 1
               t == Register(NewChannel(s, fd, Base, "connecting"), n)
    <3>2. n = Len(s.chan) + 1
      <4>1. s.chan \in Seq(Channels) /\ chan \in Seq(Channels)
        BY <1>1, <2>2 DEF Good, WellFormed
      <4>2. Len(s.chan) \in Nat /\ Len(chan) \in Nat /\ 1 .. Len(s.chan) = 1 .. Len(chan)
        BY <2>2, <4>1
      <4> QED  BY <4>2
    <3>3. Good(t, open \cup {fd}, active, None, stopping) /\ Adds(s, t, n)
      BY <2>2, <3>2, ConnectingGood
    <3> HIDE DEF t
    <3>4. State' = t
      BY <1>2, <3>1, <3>3 DEF t, Good
    <3> QED  BY <1>1, <2>2, <2>3, <3>3, <3>4, AddsMovesOn
  <2>5. CASE NotConnecting(s)
    <3>1. State' = s
      BY <1>2, <2>2, <2>5 DEF NotConnecting, Good
    <3> QED  BY <2>3, <3>1
  <2> QED  BY <2>1, <2>4, <2>5
<1>10. ASSUME NEW c \in Ids, ConnectEstablished(c) PROVE MovesOn(State, State')
  <2> DEFINE t == SetLife(Enable(Enable(State, c, {"write"}), c, {"read"}), c, "established")
  <2>1. /\ Good(t, open, active, handling, stopping)
        /\ Turns(State, t, c, "kAdded", "established")
    BY <1>1, <1>10, EstablishedGood DEF ConnectEstablished
  <2>2. Becomes(t) /\ chan[c].life = "posted"
    BY <1>10 DEF ConnectEstablished
  <2> HIDE DEF t
  <2>3. State' = t
    BY <1>2, <2>1, <2>2 DEF Good
  <2>4. Moves(State.chan[c].life, State.chan[c].index, "established", "kAdded")
    BY <1>1, <2>2 DEF Moves
  <2> QED  BY <1>1, <2>1, <2>3, <2>4, TurnsMovesOn
\* What an established channel becomes when it stays so.
<1>11. ASSUME NEW c \in Ids, NEW t, chan[c].life = "established",
              Turns(State, t, c, "kAdded", "established")
       PROVE  MovesOn(State, t)
  <2>1. State.chan[c].home # Base
    BY <1>1, <1>11 DEF Good, Owners, Homes
  <2>2. State.chan[c].index = "kAdded"
    BY <1>1, <1>11, <2>1 DEF Follows
  <2>3. Moves(State.chan[c].life, State.chan[c].index, "established", "kAdded")
    BY <1>1, <1>11, <2>2 DEF Moves
  <2> QED  BY <1>1, <1>11, <2>3, TurnsMovesOn
<1>12. ASSUME NEW c \in Ids, HandleMessage(c) PROVE MovesOn(State, State')
  <2>1. PICK more \in SUBSET ({"write"} \ chan[c].events) :
          Becomes(Enable(IF more = {} THEN State ELSE Enable(State, c, more), c, {"read"}))
    BY <1>12 DEF HandleMessage
  <2> DEFINE a == IF more = {} THEN State ELSE Enable(State, c, more)
             t == Enable(a, c, {"read"})
  <2>2. chan[c].life = "established"
    BY <1>12 DEF HandleMessage, Handles
  <2>3. /\ Good(a, open, active, handling, stopping) /\ c \in DOMAIN a.chan
        /\ a.chan[c].life = "established"
        /\ a = State \/ Turns(State, a, c, "kAdded", "established")
    <3>1. CASE more = {}
      BY <1>1, <2>2, <3>1
    <3>2. CASE more # {}
      <4>1. more \in EventSets
        BY DEF EventSets
      <4> QED  BY <1>1, <2>2, <3>2, <4>1, EnableGood
    <3> QED  BY <3>1, <3>2
  <2> HIDE DEF a
  <2>4. Good(t, open, active, handling, stopping) /\ Turns(a, t, c, "kAdded", "established")
    <3>1. {"read"} \in EventSets /\ {"read"} # {}
      BY DEF EventSets
    <3> QED  BY <2>3, <3>1, EnableGood
  <2>5. Becomes(t)
    BY <2>1 DEF a
  <2> HIDE DEF t
  <2>6. State' = t
    BY <1>2, <2>4, <2>5 DEF Good
  <2>7. Turns(State, t, c, "kAdded", "established")
    BY <2>3, <2>4 DEF Turns
  <2> QED  BY <1>11, <2>2, <2>6, <2>7
<1>13. ASSUME NEW c \in Ids, HandleWritten(c) PROVE MovesOn(State, State')
  <2> DEFINE t == Disable(State, c, {"write"})
  <2>1. chan[c].life = "established" /\ Becomes(t)
    BY <1>13 DEF HandleWritten, Handles
  <2>2. /\ Good(t, open, active, handling, stopping)
        /\ Turns(State, t, c, "kAdded", "established")
    BY <1>1, <2>1, WrittenGood
  <2> HIDE DEF t
  <2>3. State' = t
    BY <1>2, <2>1, <2>2 DEF Good
  <2> QED  BY <1>11, <2>1, <2>2, <2>3
<1>14. ASSUME NEW c \in Ids, HandleClose(c) PROVE MovesOn(State, State')
  <2> DEFINE t == SetLife(DisableAll(State, c), c, "closed")
  <2>1. chan[c].life = "established" /\ Becomes(t)
    BY <1>14 DEF HandleClose, Handles
  <2>2. /\ Good(t, open, active, handling, stopping)
        /\ Turns(State, t, c, "kDeleted", "closed")
    BY <1>1, <2>1, ClosedGood
  <2> HIDE DEF t
  <2>3. State' = t
    BY <1>2, <2>1, <2>2 DEF Good
  <2>4. Moves(State.chan[c].life, State.chan[c].index, "closed", "kDeleted")
    BY <1>1, <2>1 DEF Moves
  <2> QED  BY <1>1, <2>2, <2>3, <2>4, TurnsMovesOn
<1>15. ASSUME NEW c \in Ids, ConnectDestroyed(c) PROVE MovesOn(State, State')
  <2> DEFINE t == SetLife(Remove(DisableIfConnected(State, c), chan[c].home, c), c, "removed")
  <2>1. stopping => handling = None
    BY <1>1 DEF Good, Owners, StoppedForGood
  <2>2. /\ active[chan[c].home] = {}
        /\ \/ chan[c].life = "erased"
           \/ handling = None /\ chan[c].life \in {"established", "closed"}
    BY <1>15, <2>1 DEF ConnectDestroyed, RunsFunctors
  <2>3. /\ Good(t, open, active, handling, stopping)
        /\ Turns(State, t, c, "kNew", "removed")
    BY <1>1, <2>2, RemovedGood
  <2>4. Becomes(t)
    BY <1>15 DEF ConnectDestroyed
  <2> HIDE DEF t
  <2>5. State' = t
    BY <1>2, <2>3, <2>4 DEF Good
  <2>6. Moves(State.chan[c].life, State.chan[c].index, "removed", "kNew")
    BY <1>1, <2>2 DEF Moves
  <2> QED  BY <1>1, <2>3, <2>5, <2>6, TurnsMovesOn
<1>16. ASSUME NEW c \in Ids, Destroy(c) PROVE MovesOn(State, State')
  <2> DEFINE t == CloseFd(SetLife(State, c, "destroyed"), chan[c].fd)
  <2>1. chan[c].life = "removed" /\ Becomes(t)
    BY <1>16 DEF Destroy, Destroyable
  <2>2. /\ Good(t, open \ {chan[c].fd}, active, handling, stopping)
        /\ Turns(State, t, c, State.chan[c].index, "destroyed")
    BY <1>1, <2>1, DestroyedGood
  <2> HIDE DEF t
  <2>3. State' = t
    BY <1>2, <2>1, <2>2 DEF Good
  <2>4. Moves(State.chan[c].life, State.chan[c].index, "destroyed", State.chan[c].index)
    BY <1>1, <2>1 DEF Moves
  <2> QED  BY <1>1, <2>2, <2>3, <2>4, TurnsMovesOn
<1>17. ASSUME NEW p, NEW c, Handled(p, c) PROVE MovesOn(State, State')
  BY <1>3, <1>4, <1>17 DEF Handled
<1>18. ASSUME NEW p, Poll(p) PROVE MovesOn(State, State')
  BY <1>3, <1>4, <1>18 DEF Poll
<1>19. CASE Stop \/ UNCHANGED vars
  BY <1>3, <1>4, <1>19 DEF Stop, vars
<1> QED
  BY <1>5, <1>6, <1>7, <1>8, <1>9, <1>10, <1>12, <1>13, <1>14, <1>15, <1>16,
     <1>17, <1>18, <1>19 DEF Next

\* A move is a step of the connection's life, or none of it.
LEMMA MoveIsOfLife ==
    ASSUME Follows(State), MovesOn(State, State'), NEW c
    PROVE  [Connection(c)!Next]_(Connection(c)!vars)
<1>1. State.chan = chan /\ State'.chan = chan' /\ Ids = DOMAIN chan
  BY DEF State, Ids
<1>2. CASE OfConnection(c)
  <2>1. c \in DOMAIN chan /\ c \in DOMAIN chan' /\ chan[c].home # Base /\ chan'[c].home # Base
    BY <1>1, <1>2 DEF OfConnection, MovesOn
  <2>2. Moves(chan[c].life, chan[c].index, chan'[c].life, chan'[c].index)
    BY <1>1, <2>1 DEF MovesOn
  <2>3. /\ chan[c].life = "posted" => chan[c].index = "kNew"
        /\ chan[c].life = "established" => chan[c].index = "kAdded"
        /\ chan[c].life \in {"closed", "erased"} => chan[c].index = "kDeleted"
    BY <1>1, <2>1 DEF Follows
  <2>4. /\ IndexOf(c) = chan[c].index /\ IndexOf(c)' = chan'[c].index
        /\ StateOf(c) = (IF chan[c].life = "posted" THEN "kConnecting"
                         ELSE IF chan[c].life = "established" THEN "kConnected"
                         ELSE "kDisconnected")
        /\ StateOf(c)' = (IF chan'[c].life = "posted" THEN "kConnecting"
                          ELSE IF chan'[c].life = "established" THEN "kConnected"
                          ELSE "kDisconnected")
    BY <2>1 DEF IndexOf, StateOf, OfConnection, Ids
  <2> QED  BY ONLY <2>2, <2>3, <2>4
           DEF Moves, Connection!Next, Connection!vars, Connection!Establish,
               Connection!Close, Connection!TearDown
<1>3. CASE ~OfConnection(c)
  <2>1. IndexOf(c)' = "kNew" /\ StateOf(c)' = "kConnecting"
    <3>1. CASE c \in DOMAIN chan
      <4>1. ~OfConnection(c)'
        BY <1>1, <1>3, <3>1 DEF OfConnection, MovesOn
      <4> QED  BY <4>1 DEF IndexOf, StateOf
    <3>2. CASE c \notin DOMAIN chan /\ c \in DOMAIN chan'
      <4>1. \/ chan'[c].home = Base
            \/ chan'[c].life = "posted" /\ chan'[c].index = "kNew"
        BY <1>1, <3>2 DEF MovesOn
      <4> QED  BY <4>1 DEF IndexOf, StateOf, OfConnection
    <3>3. CASE c \notin DOMAIN chan'
      BY <3>3 DEF IndexOf, StateOf, OfConnection, Ids
    <3> QED  BY <3>1, <3>2, <3>3
  <2>2. IndexOf(c) = "kNew" /\ StateOf(c) = "kConnecting"
    BY <1>3 DEF IndexOf, StateOf
  <2> QED  BY ONLY <2>1, <2>2 DEF Connection!vars
<1> QED
  BY <1>2, <1>3

\* With any pollers and descriptors, the channel of a connection is in the
\* poller as module ConnectionLife says, and at no other stage of its life
\* (EPoller::updateChannel(), EPoller::removeChannel()).
THEOREM LivesOfChannels == Spec => ImplementsLife
<1>1. Init => Follows(State) /\ \A c \in 1 .. MaxChannels : Connection(c)!Init
  <2> SUFFICES ASSUME Init
               PROVE  Follows(State) /\ \A c \in 1 .. MaxChannels : Connection(c)!Init
    OBVIOUS
  <2>1. DOMAIN State.chan = {} /\ Ids = {}
    BY DEF Init, State, Ids
  <2> QED  BY <2>1 DEF Follows, Connection!Init, StateOf, IndexOf, OfConnection
<1>2. IInv /\ Follows(State) /\ [Next]_vars => Follows(State)'
  BY StepMovesOn, FollowsOn
<1>3. IInv /\ Follows(State) /\ [Next]_vars =>
        [\A c \in 1 .. MaxChannels : [Connection(c)!Next]_(Connection(c)!vars)]_vars
  BY StepMovesOn, MoveIsOfLife
<1> QED
  BY <1>1, <1>2, <1>3, InvInit, InvNext, PTL DEF Spec, ImplementsLife
===============================================================================
