------------------------------- MODULE MCBuffer --------------------------------
(***************************************************************************)
(* Buffer with two values of a byte, one of them the value that resize()   *)
(* fills with, and strings of up to three bytes: longer than the room that *)
(* the vector starts with and than extrabuf.                               *)
(***************************************************************************)
EXTENDS Buffer, SequencesExt

Strings == BoundedSeq(Byte, 3)
===============================================================================
