---------------------------- MODULE ConnectionLife ----------------------------
(***************************************************************************)
(* The life of a TcpConnection as its owner may rely on it: established     *)
(* once, closed at most once, and torn down once, connected or closed.      *)
(* The state of the connection and the index of its channel, which says    *)
(* whether the poller of its loop has it, move together.                    *)
(*                                                                         *)
(* Three modules implement this, each with a part of what it takes:        *)
(* TcpConnection with the callbacks of one pass, EPoller with the calls on *)
(* the poller, and Client, which takes both for granted, with the functors *)
(* of two threads.                                                         *)
(***************************************************************************)

VARIABLES
    state,      \* state_
    index       \* index_ of channel_

vars == <<state, index>>

Init ==
    /\ state = "kConnecting"
    /\ index = "kNew"

\* connectEstablished() enables the channel.
Establish ==
    /\ state = "kConnecting" /\ index = "kNew"
    /\ state' = "kConnected" /\ index' = "kAdded"

\* handleClose() disables it, before the owner hears of it.
Close ==
    /\ state = "kConnected" /\ index = "kAdded"
    /\ state' = "kDisconnected" /\ index' = "kDeleted"

\* connectDestroyed() takes it out of channels_.
TearDown ==
    /\ <<state, index>> \in {<<"kConnected", "kAdded">>, <<"kDisconnected", "kDeleted">>}
    /\ state' = "kDisconnected" /\ index' = "kNew"

Next == Establish \/ Close \/ TearDown

Spec == Init /\ [][Next]_vars
===============================================================================
