------------------------------- MODULE MCShell ------------------------------
(* Dates at the ends of months, years and centuries; one that does not     *)
(* exist and is not of this century; and numbers that are none of a date   *)
(* or a time.                                                              *)
EXTENDS Shell

MCDates == {<<1, 1, 2000>>, <<31, 12, 2099>>, <<29, 2, 2024>>, <<31, 2, 2147>>}

MCShortDates == {<<9, 3, 99>>, <<31, 14, 24>>}

MCTimes == {<<3, 8, 5>>, <<45, 59, 247>>}

MCJunk == {255}

(* Folders and clock share nothing but a restart, and TLC need not see     *)
(* every state of the one with every state of the other.                   *)
OneKind ==
    \/ FsInit
    \/ /\ ~spoiled /\ fresh
       /\ reg = [f \in Field |-> IF f \in {"day", "month"} THEN 1 ELSE
                                  IF f = "hour" THEN 3 ELSE IF f = "minute" THEN 8 ELSE
                                  IF f = "second" THEN 5 ELSE 0]

(* Bounds: the folders, and how deep the shell goes once nothing is said   *)
(* of where it is; a clock is spoiled by the last date and time only.      *)
(* Nothing is lost by the others: no step of the clock looks at what was   *)
(* chosen or at the kernel time, and a write that fails at its end, and a  *)
(* restart that cannot read the clock, lead to the same without them.      *)
MaxFolders == 3
MaxOdd     == 1

Bounded ==
    /\ OneKind
    /\ Cardinality(folders) <= MaxFolders
    /\ odd \/ wild => Len(vdiratu) <= MaxOdd
    /\ spoiled => reg["second"] = Bin2bcd(247) /\ reg["day"] = Bin2bcd(31)
    /\ chosen = Nothing /\ ~(spoiled /\ fresh) /\ (~fresh => time = <<0, 0>>)
=============================================================================
