---------------------------- MODULE SerialExecutor ----------------------------
(***************************************************************************)
(* What an EventLoop promises to the threads that hand it functors with    *)
(* queueInLoop(): one worker runs them, each at most once, in the order in *)
(* which they were handed over, and it stops only after somebody asked it  *)
(* to.  Nothing is said of eventfds, epoll or vectors: module EventLoop    *)
(* shows how they implement this, and module Client builds on the promise. *)
(***************************************************************************)
EXTENDS SequencesExt

CONSTANT Functors       \* the functors that may be handed over

VARIABLES
    queue,              \* handed over, not yet started: Seq(Functors)
    executed,           \* started, oldest first: Seq(Functors)
    stopAsked,          \* somebody called quit()
    stopped             \* the worker is gone

vars == <<queue, executed, stopAsked, stopped>>

Init ==
    /\ queue = <<>>
    /\ executed = <<>>
    /\ stopAsked = FALSE
    /\ stopped = FALSE

\* Every functor is a fresh closure: it is handed over once.
Post(f) ==
    /\ f \notin ToSet(queue) \cup ToSet(executed)
    /\ queue' = Append(queue, f)
    /\ UNCHANGED <<executed, stopAsked, stopped>>

Run ==
    /\ ~stopped
    /\ queue # <<>>
    /\ executed' = Append(executed, Head(queue))
    /\ queue' = Tail(queue)
    /\ UNCHANGED <<stopAsked, stopped>>

AskStop ==
    /\ stopAsked' = TRUE
    /\ UNCHANGED <<queue, executed, stopped>>

\* The functors still queued at this point are never run.
Stop ==
    /\ stopAsked
    /\ stopped' = TRUE
    /\ UNCHANGED <<queue, executed, stopAsked>>

Next ==
    \/ \E f \in Functors : Post(f)
    \/ Run
    \/ AskStop
    \/ Stop

Spec == Init /\ [][Next]_vars

FairSpec == Spec /\ WF_vars(Run)
===============================================================================
