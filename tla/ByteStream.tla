------------------------------ MODULE ByteStream -------------------------------
(***************************************************************************)
(* What a Buffer promises: a sequence of bytes that grows at its end and   *)
(* shrinks at its front, and can be corrected at either end.  Nothing is   *)
(* said of indices, of spare room or of moving bytes about.                *)
(***************************************************************************)
EXTENDS Naturals, Sequences

CONSTANT Data        \* the byte strings that may be handed over

VARIABLE content

Init == content = <<>>

Extend(data) == content' = content \o data

Retrieve(len) == content' = SubSeq(content, len + 1, Len(content))

Prepend(data) == content' = data \o content

Unwrite(len) == content' = SubSeq(content, 1, Len(content) - len)

Next ==
    \/ \E data \in Data : Extend(data)
    \/ \E len \in 0 .. Len(content) : Retrieve(len)
    \/ \E data \in Data : Prepend(data)
    \/ \E len \in 0 .. Len(content) : Unwrite(len)

Spec == Init /\ [][Next]_content
===============================================================================
