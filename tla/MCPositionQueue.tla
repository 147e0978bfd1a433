-------------------------- MODULE MCPositionQueue --------------------------
(* A small position queue: two places that differ in both coordinates, one *)
(* of them so far to the left that its x comes out negative.               *)
EXTENDS PositionQueue

MCCoords == {<<-7, 200>>, <<300, 40>>}
=============================================================================
