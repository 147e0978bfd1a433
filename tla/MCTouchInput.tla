---------------------------- MODULE MCTouchInput ----------------------------
(* Instances of TouchInput: Enter as the key, places that differ in both   *)
(* coordinates, a buffer that was zero at boot.                            *)
EXTENDS TouchInput

MCEnter  == {13}
MCCoords == {<<300, 40>>}
MCEdge   == {<<-7, 40>>}
MCZero   == {0}
MCLine   == {1}
MCLines  == {1, 2}
=============================================================================
