----------------------------- MODULE MCLoad232 ------------------------------
(* Short transfers, of the two bytes that also begin frames.               *)
EXTENDS Load232

MCBytes == {DD, EE}
=============================================================================
