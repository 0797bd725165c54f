---------------------------- MODULE MCTcpConnection ----------------------------
(***************************************************************************)
(* TcpConnection with requests of two bytes, a send buffer of one or more   *)
(* and a server that sends a few bytes, read one or two at a time.         *)
(***************************************************************************)
EXTENDS TcpConnection
===============================================================================
