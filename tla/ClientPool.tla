------------------------------- MODULE ClientPool ------------------------------
(***************************************************************************)
(* What Client and Connector promise to the benchmark: every client asked  *)
(* for is connected or lost to one failed attempt, a connection that the   *)
(* server ends is replaced by exactly one attempt, and connect() comes to  *)
(* its end before anything else happens.  Descriptors, functors, threads   *)
(* and the objects of the connections do not appear; module Client shows   *)
(* how they implement this.                                                *)
(***************************************************************************)
EXTENDS Naturals

CONSTANT Clients        \* the number of clients asked for

VARIABLES
    asked,              \* clients connect() has still to try
    trying,             \* attempts in progress
    connected,          \* connections the pool counts as its own
    lost,               \* clients whose attempt failed
    open                \* nobody has ended the pool

vars == <<asked, trying, connected, lost, open>>

Init ==
    /\ asked = Clients
    /\ trying = 0
    /\ connected = 0
    /\ lost = 0
    /\ open = TRUE

Try ==
    /\ open /\ asked > 0
    /\ asked' = asked - 1
    /\ trying' = trying + 1
    /\ UNCHANGED <<connected, lost, open>>

\* The attempt fails at once.
Refuse ==
    /\ open /\ asked > 0
    /\ asked' = asked - 1
    /\ lost' = lost + 1
    /\ UNCHANGED <<trying, connected, open>>

Connect ==
    /\ open /\ asked = 0 /\ trying > 0
    /\ trying' = trying - 1
    /\ connected' = connected + 1
    /\ UNCHANGED <<asked, lost, open>>

Fail ==
    /\ open /\ asked = 0 /\ trying > 0
    /\ trying' = trying - 1
    /\ lost' = lost + 1
    /\ UNCHANGED <<asked, connected, open>>

\* A connection has ended, and its client is asked for once more.
Replace ==
    /\ open /\ asked = 0 /\ connected > 0
    /\ connected' = connected - 1
    /\ asked' = 1
    /\ UNCHANGED <<trying, lost, open>>

\* After the end no connection is made, and those there are go one by one.
Stop ==
    /\ open /\ asked = 0
    /\ open' = FALSE
    /\ UNCHANGED <<asked, trying, connected, lost>>

Release ==
    /\ ~open /\ connected > 0
    /\ connected' = connected - 1
    /\ UNCHANGED <<asked, trying, lost, open>>

Next == Try \/ Refuse \/ Connect \/ Fail \/ Replace \/ Stop \/ Release

Spec == Init /\ [][Next]_vars
===============================================================================
