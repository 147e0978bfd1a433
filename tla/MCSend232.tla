----------------------------- MODULE MCSend232 ------------------------------
(* A letter and the byte that begins a frame.                              *)
EXTENDS Send232

MCBytes == {97, DD}
=============================================================================
