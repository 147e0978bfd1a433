----------------------------- MODULE MCKeyQueue -----------------------------
(* A small key queue: two keys and FF, in a buffer with any boot contents. *)
EXTENDS KeyQueue

MCBytes   == {65, 97, 255}
MCAnyByte == {0, 66}
=============================================================================
