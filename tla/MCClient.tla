-------------------------------- MODULE MCClient -------------------------------
(***************************************************************************)
(* Client with two clients, two io loops and one descriptor to spare.       *)
(***************************************************************************)
EXTENDS Client
===============================================================================
