--------------------------- MODULE MCEventLoopThread ---------------------------
(***************************************************************************)
(* EventLoopThread with a few io threads.                           *)
(***************************************************************************)
EXTENDS EventLoopThread
===============================================================================
