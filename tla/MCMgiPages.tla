----------------------------- MODULE MCMgiPages ------------------------------
(* Five parts of the screen: the bar, the menu on its own, where menu and  *)
(* windows overlap, the middle, and an edge that only messages reach.      *)
EXTENDS MgiPages

MCCells    == {"bar", "menu", "overlap", "middle", "edge"}
MCInks     == {"boot", "wallpaper", "bar", "menu", "window", "program", "hourglass"}
MCBar      == {"bar"}
MCMenuArea == {"menu", "overlap"}
MCArea     == [setup   |-> {"overlap", "middle"}, date |-> {"overlap", "middle"},
               message |-> {"overlap", "middle", "edge"}]
MCCentre   == {"middle"}
=============================================================================
