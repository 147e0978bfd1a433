----------------------------- MODULE ScreenStack -----------------------------
(***************************************************************************)
(* What SaveScreen and RestoreScreen promise to a menu or a window that    *)
(* covers a part of the screen: what is under it is put on a stack, and    *)
(* comes back.                                                             *)
(***************************************************************************)
EXTENDS Integers, Sequences

CONSTANTS
    Cells,   \* the parts of the screen that are told apart
    Inks,    \* what a part may show
    Depth    \* how many pictures can be kept

VARIABLES
    screen,  \* what is shown
    saved,   \* the pictures that are kept, each over the area it was saved of
    request  \* what was asked for last: an operation and its area

vars == <<screen, saved, request>>

Top == saved[Len(saved)]

Init ==
    screen \in [Cells -> Inks] /\ saved = <<>> /\ request = <<"none", {}>>

Draw ==
    /\ request' = <<"draw", {}>>
    /\ screen' \in [Cells -> Inks] /\ UNCHANGED saved

(* A picture that finds no room is not kept, and nobody is told.           *)
Save(area) ==
    /\ request' = <<"save", area>>
    /\ saved' = IF Len(saved) < Depth
                THEN Append(saved, [c \in area |-> screen[c]])
                ELSE saved
    /\ UNCHANGED screen

(* Cells that the picture on top does not have may come back as anything;  *)
(* with no picture kept, nothing changes.                                  *)
Restore(area) ==
    /\ request' = <<"restore", area>>
    /\ IF saved = <<>>
       THEN UNCHANGED <<screen, saved>>
       ELSE
         /\ screen' \in [Cells -> Inks]
         /\ \A c \in Cells : c \notin area => screen'[c] = screen[c]
         /\ \A c \in area \cap DOMAIN Top : screen'[c] = Top[c]
         /\ saved' = SubSeq(saved, 1, Len(saved) - 1)

Next == Draw \/ \E area \in SUBSET Cells : Save(area) \/ Restore(area)

Spec == Init /\ [][Next]_vars
=============================================================================
