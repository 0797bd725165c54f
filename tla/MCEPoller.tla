------------------------------- MODULE MCEPoller -------------------------------
(***************************************************************************)
(* EPoller with two io pollers and few descriptors.                        *)
(***************************************************************************)
EXTENDS EPoller
===============================================================================
