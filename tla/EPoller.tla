-------------------------------- MODULE EPoller --------------------------------
(***************************************************************************)
(* Channels and the pollers they are registered with: the one of the base  *)
(* loop, those of the io loops, and the second one of the base loop, which *)
(* Connector owns, fills and never polls.  A channel knows its index_ in   *)
(* "the" poller, a poller keeps channels_ and an epoll set of the kernel,  *)
(* whose entries hold raw pointers to channels; errors of epoll_ctl() are  *)
(* ignored.                                                                *)
(*                                                                         *)
(* The life of channels is the one Connector and TcpConnection give them,  *)
(* and module Client has the functors behind it: the base loop connects,   *)
(* an io loop establishes the connection, reports its end, and destroys it *)
(* after the base loop has removed it.  Functors of a loop run only while  *)
(* it is not dispatching, that is, while its active is empty.              *)
(***************************************************************************)
EXTENDS Naturals, Sequences, FiniteSets

CONSTANTS
    IoPollers,      \* the pollers of the io loops
    Fds,            \* the descriptors the process may have for sockets
    NumSocks,       \* numsocks_
    MaxChannels,    \* bound: the channels made in all
    None            \* no channel

Base == "base"
Connector == "connector"
Pollers == IoPollers \cup {Base, Connector}

ASSUME EPollerAssumption ==
    /\ Base \notin IoPollers /\ Connector \notin IoPollers
    /\ NumSocks \in Nat
    /\ MaxChannels \in Nat
    /\ None \notin Nat

VARIABLES
    chan,       \* the channels made so far: fd_, events_, index_, the poller
                \* of loop_, and the life of the owner
    channels,   \* channels_ of each poller
    epoll,      \* the epoll set of each poller: channel and events per fd
    open,       \* the open descriptors
    active,     \* activeChannels_ of each loop, as far as not handled
    handling,   \* the channel whose handleWrite() of Connector is half done
    toConnect,  \* iterations Connector::connect() has still to do
    stopping    \* ~Client() has handed connectDestroyed() to all loops

vars == <<chan, channels, epoll, open, active, handling, toConnect, stopping>>

Ids == DOMAIN chan

\* A channel of Connector is connecting until it is done or lost, with a
\* failed attempt; one of a TcpConnection passes through the others.
Lives == {"connecting", "done", "lost",
          "posted", "established", "closed", "erased", "removed", "destroyed"}

Channels == [fd : Fds, home : IoPollers \cup {Base},
             events : SUBSET {"read", "write"},
             index : {"kNew", "kAdded", "kDeleted"}, life : Lives]

NoEntry == [channel |-> None, events |-> {}]

TypeOK ==
    /\ chan \in Seq(Channels)
    /\ channels \in [Pollers -> [Fds -> Ids \cup {None}]]
    /\ epoll \in [Pollers -> [Fds -> [channel : Ids \cup {None},
                                      events : SUBSET {"read", "write"}]]]
    /\ open \subseteq Fds
    /\ active \in [IoPollers \cup {Base} -> SUBSET Ids]
    /\ handling \in Ids \cup {None}
    /\ toConnect \in 0 .. NumSocks
    /\ stopping \in BOOLEAN
    /\ \A c \in Ids : chan[c].index = "kAdded" <=> chan[c].events # {}

Init ==
    /\ chan = <<>>
    /\ channels = [p \in Pollers |-> [fd \in Fds |-> None]]
    /\ epoll = [p \in Pollers |-> [fd \in Fds |-> NoEntry]]
    /\ open = {}
    /\ active = [p \in IoPollers \cup {Base} |-> {}]
    /\ handling = None
    /\ toConnect = NumSocks
    /\ stopping = FALSE

-------------------------------------------------------------------------------
(* One call after the other on the pollers: operators from state to state. *)

State == [chan |-> chan, channels |-> channels, epoll |-> epoll]

Becomes(s) == chan' = s.chan /\ channels' = s.channels /\ epoll' = s.epoll

SetEvents(s, c, events) == [s EXCEPT !.chan[c].events = events]
SetIndex(s, c, index) == [s EXCEPT !.chan[c].index = index]
SetLife(s, c, life) == [s EXCEPT !.chan[c].life = life]

Entry(s, c) == [channel |-> c, events |-> s.chan[c].events]

\* epoll_ctl(): ADD fails on an entry, MOD and DEL without one.
CtlAdd(s, p, c) ==
    IF s.epoll[p][s.chan[c].fd] = NoEntry
    THEN [s EXCEPT !.epoll[p][s.chan[c].fd] = Entry(s, c)] ELSE s

CtlMod(s, p, c) ==
    IF s.epoll[p][s.chan[c].fd] # NoEntry
    THEN [s EXCEPT !.epoll[p][s.chan[c].fd] = Entry(s, c)] ELSE s

CtlDel(s, p, c) == [s EXCEPT !.epoll[p][s.chan[c].fd] = NoEntry]

\* updateChannel()
Update(s, p, c) ==
    CASE s.chan[c].index = "kNew" ->
            CtlAdd(SetIndex([s EXCEPT !.channels[p][s.chan[c].fd] = c], c, "kAdded"), p, c)
      [] s.chan[c].index = "kDeleted" ->
            CtlAdd(SetIndex(s, c, "kAdded"), p, c)
      [] s.chan[c].index = "kAdded" /\ s.chan[c].events = {} ->
            SetIndex(CtlDel(s, p, c), c, "kDeleted")
      [] OTHER -> CtlMod(s, p, c)

\* removeChannel()
Remove(s, p, c) ==
    LET erased == [s EXCEPT !.channels[p][s.chan[c].fd] = None]
    IN  SetIndex(IF s.chan[c].index = "kAdded" THEN CtlDel(erased, p, c) ELSE erased,
                 c, "kNew")

\* enableReading() and enableWriting() of a channel.
Enable(s, c, events) ==
    Update(SetEvents(s, c, s.chan[c].events \cup events), s.chan[c].home, c)

\* Mutant: disableWriting() leaves no event.
DisableEverything(s, c, events) ==
    Update(SetEvents(s, c, {}), s.chan[c].home, c)

\* disableWriting() and, of both events, disableAll().
Disable(s, c, events) ==
    Update(SetEvents(s, c, s.chan[c].events \ events), s.chan[c].home, c)
DisableAll(s, c) == Disable(s, c, {"read", "write"})

\* A new Channel, as number Len(s.chan) + 1.
NewChannel(s, fd, home, life) ==
    [s EXCEPT !.chan = Append(@, [fd |-> fd, home |-> home, events |-> {},
                                  index |-> "kNew", life |-> life])]

\* close() takes the descriptor out of every epoll set.
CloseFd(s, fd) == [s EXCEPT !.epoll = [p \in Pollers |-> [@[p] EXCEPT ![fd] = NoEntry]]]

-------------------------------------------------------------------------------
(* The base loop.                                                          *)

RunsFunctors(p) == active[p] = {} /\ (p = Base => handling = None /\ ~stopping)

\* Mutant: the connector's own poller comes first.
RegisterConnectorFirst(s, c) ==
    Enable(Update(SetEvents(s, c, {"write"}), Connector, c), c, {"write"})

\* connecting(): enableWriting(), then the poller of Connector.
Register(s, c) == Update(Enable(s, c, {"write"}), Connector, c)

\* One round of connect() with a socket that is connecting.
Connecting(s) ==
    /\ Len(chan) < MaxChannels
    /\ \E fd \in Fds \ open :
         /\ \A lower \in Fds \ open : fd <= lower
         /\ open' = open \cup {fd}
         /\ Becomes(Register(NewChannel(s, fd, Base, "connecting"), Len(chan) + 1))

\* A round that ends without a channel: no descriptor, or connect() failed
\* at once.
NotConnecting(s) == Becomes(s) /\ UNCHANGED open

Connect ==
    /\ toConnect > 0
    /\ toConnect' = toConnect - 1
    /\ Connecting(State) \/ NotConnecting(State)
    /\ UNCHANGED <<active, handling, stopping>>

\* handleWrite() of Connector finds an error: retry() closes the descriptor
\* and leaves the channel where it is.
HandleConnectError(c) ==
    /\ handling = None
    /\ c \in active[Base]
    /\ Becomes(CloseFd(SetLife(State, c, "lost"), chan[c].fd))
    /\ open' = open \ {chan[c].fd}
    /\ active' = [active EXCEPT ![Base] = @ \ {c}]
    /\ UNCHANGED <<handling, toConnect, stopping>>

\* handleWrite() of Connector: newConnection() posts connectEstablished() to
\* the next loop, which may run it before this callback goes on.
HandleConnected(c) ==
    /\ handling = None
    /\ c \in active[Base]
    /\ Len(chan) < MaxChannels
    /\ \E p \in IoPollers : Becomes(NewChannel(State, chan[c].fd, p, "posted"))
    /\ handling' = c
    /\ UNCHANGED <<open, active, toConnect, stopping>>

\* The rest of handleWrite(): disableAll(), and remove() from both pollers.
Deregister(s, c) == Remove(Remove(DisableAll(s, c), Base, c), Connector, c)

ForgetChannel ==
    /\ handling # None
    /\ Becomes(SetLife(Deregister(State, handling), handling, "done"))
    /\ active' = [active EXCEPT ![Base] = @ \ {handling}]
    /\ handling' = None
    /\ UNCHANGED <<open, toConnect, stopping>>

\* removeConnectionInLoop(): erases the connection and connects anew.
RemoveConnection(c) ==
    /\ RunsFunctors(Base) /\ toConnect = 0
    /\ chan[c].life = "closed"
    /\ LET s == SetLife(State, c, "erased") IN Connecting(s) \/ NotConnecting(s)
    /\ UNCHANGED <<active, handling, toConnect, stopping>>

\* The base loop has returned, and ~Client() runs.
Stop ==
    /\ RunsFunctors(Base) /\ toConnect = 0
    /\ stopping' = TRUE
    /\ UNCHANGED <<chan, channels, epoll, open, active, handling, toConnect>>

-------------------------------------------------------------------------------
(* The io loops.                                                           *)

unchangedByIo == <<open, handling, toConnect, stopping>>

\* connectEstablished(), with onConnection() and its first send().
ConnectEstablished(c) ==
    /\ chan[c].life = "posted"
    /\ RunsFunctors(chan[c].home)
    /\ Becomes(SetLife(Enable(Enable(State, c, {"write"}), c, {"read"}), c, "established"))
    /\ UNCHANGED <<active, unchangedByIo>>

Handles(c) ==
    /\ c \in active[chan[c].home]
    /\ chan[c].life = "established"

\* onMessage() sends: writing is enabled if the socket does not take it all.
HandleMessage(c) ==
    /\ Handles(c)
    /\ \E more \in SUBSET ({"write"} \ chan[c].events) :
         Becomes(Enable(IF more = {} THEN State ELSE Enable(State, c, more), c, {"read"}))
    /\ UNCHANGED <<active, unchangedByIo>>

\* handleWrite() of TcpConnection has written all output.
HandleWritten(c) ==
    /\ Handles(c)
    /\ "write" \in chan[c].events
    /\ Becomes(Disable(State, c, {"write"}))
    /\ UNCHANGED <<active, unchangedByIo>>

\* handleClose(), which posts removeConnectionInLoop() to the base loop.
HandleClose(c) ==
    /\ Handles(c)
    /\ Becomes(SetLife(DisableAll(State, c), c, "closed"))
    /\ UNCHANGED <<active, unchangedByIo>>

\* handleEvent() returns.
Handled(p, c) ==
    /\ c \in active[p]
    /\ active' = [active EXCEPT ![p] = @ \ {c}]
    /\ UNCHANGED <<chan, channels, epoll, unchangedByIo>>

\* Mutant: nothing is disabled before the channel is removed.
DisableNothing(s, c) == s

\* connectDestroyed() of a connection that is still connected.
DisableIfConnected(s, c) ==
    IF s.chan[c].life = "established" THEN DisableAll(s, c) ELSE s

\* connectDestroyed(), posted by removeConnectionInLoop() or ~Client().
ConnectDestroyed(c) ==
    /\ \/ chan[c].life = "erased"
       \/ stopping /\ chan[c].life \in {"established", "closed"}
    /\ RunsFunctors(chan[c].home)
    /\ Becomes(SetLife(Remove(DisableIfConnected(State, c), chan[c].home, c), c, "removed"))
    /\ UNCHANGED <<active, unchangedByIo>>

\* Mutant: the functor does not hold the connection.
DestroyableOnceErased == {"erased", "removed"}

\* The lives after which nobody need hold the connection any more.
Destroyable == {"removed"}

\* The last reference goes, in any thread: ~TcpConnection() closes the
\* descriptor and destroys the channel.
Destroy(c) ==
    /\ chan[c].life \in Destroyable
    /\ Becomes(CloseFd(SetLife(State, c, "destroyed"), chan[c].fd))
    /\ open' = open \ {chan[c].fd}
    /\ UNCHANGED <<active, handling, toConnect, stopping>>

\* poll(): epoll_wait() reports any of the entries, fillActiveChannels()
\* follows their pointers.
Poll(p) ==
    /\ RunsFunctors(p)
    /\ p = Base => toConnect = 0
    /\ \E ready \in SUBSET { fd \in Fds : epoll[p][fd] # NoEntry } :
         active' = [active EXCEPT ![p] = { epoll[p][fd].channel : fd \in ready }]
    /\ UNCHANGED <<chan, channels, epoll, unchangedByIo>>

Next ==
    \/ Connect
    \/ ForgetChannel
    \/ Stop
    \/ \E c \in Ids :
         \/ HandleConnectError(c)
         \/ HandleConnected(c)
         \/ RemoveConnection(c)
         \/ ConnectEstablished(c)
         \/ HandleMessage(c)
         \/ HandleWritten(c)
         \/ HandleClose(c)
         \/ ConnectDestroyed(c)
         \/ Destroy(c)
    \/ \E p \in IoPollers, c \in Ids : Handled(p, c)
    \/ \E p \in IoPollers \cup {Base} : Poll(p)

Spec == Init /\ [][Next]_vars

-------------------------------------------------------------------------------
\* The owner still wants to hear of the channel.
InUse(c) == chan[c].life \notin {"done", "lost", "removed", "destroyed"}

\* What the kernel watches is what the channels ask for: an entry of an epoll
\* set belongs to a channel in use, of an open descriptor, that channels_ has
\* as well, and has its events; and no channel that asks for events is without
\* its entry.  Neither the second poller nor the reuse of descriptors nor the
\* errors of epoll_ctl() that update() drops may break it
\* (EPoller::updateChannel(), EPoller::removeChannel()).
KernelAgrees ==
    /\ \A p \in Pollers, fd \in Fds : epoll[p][fd] # NoEntry =>
         LET c == epoll[p][fd].channel
         IN  /\ InUse(c) /\ chan[c].home = p /\ chan[c].fd = fd
             /\ fd \in open
             /\ channels[p][fd] = c
             /\ chan[c].index = "kAdded"
             /\ epoll[p][fd].events = chan[c].events
    /\ \A c \in Ids : InUse(c) /\ chan[c].events # {} =>
         epoll[chan[c].home][chan[c].fd] = Entry(State, c)

\* handleEvent() is never called through a pointer to a channel that was
\* destroyed: activeChannels_ holds raw pointers while other threads let go
\* of connections (EventLoop::loop(), EPoller::fillActiveChannels()).
ActiveChannelsLive ==
    \A p \in IoPollers \cup {Base} : \A c \in active[p] :
        chan[c].home = p /\ chan[c].life \notin {"lost", "done", "removed", "destroyed"}

\* The state_ of a TcpConnection that has its channel here, and index_.  A
\* channel of Connector is none, and stays as it is.
OfConnection(c) == c \in Ids /\ chan[c].home # Base
StateOf(c) ==
    IF ~OfConnection(c) \/ chan[c].life = "posted" THEN "kConnecting"
    ELSE IF chan[c].life = "established" THEN "kConnected" ELSE "kDisconnected"
IndexOf(c) == IF OfConnection(c) THEN chan[c].index ELSE "kNew"

Connection(c) == INSTANCE ConnectionLife WITH state <- StateOf(c), index <- IndexOf(c)

\* The calls on the poller give every channel of a connection the index_ that
\* the owner takes for granted at each stage of its life, whichever descriptor
\* it was given and whatever another poller has of it
\* (EPoller::updateChannel(), EPoller::removeChannel()).
ImplementsLife ==
    /\ \A c \in 1 .. MaxChannels : Connection(c)!Init
    /\ [][\A c \in 1 .. MaxChannels :
            [Connection(c)!Next]_(Connection(c)!vars)]_vars
===============================================================================
