------------------------------ MODULE MCEventLoop ------------------------------
(***************************************************************************)
(* EventLoop with two callers, three functors and one I/O channel.  No     *)
(* symmetry: the run has liveness properties.                              *)
(***************************************************************************)
EXTENDS EventLoop
===============================================================================
