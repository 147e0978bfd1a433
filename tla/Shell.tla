-------------------------------- MODULE Shell -------------------------------
(***************************************************************************)
(* The commands of the shell that leave something behind: the current      *)
(* folder and the folders of the card, the clock and the kernel time, and  *)
(* what is left of them when the power goes and comes back. They share     *)
(* nothing else.                                                           *)
(***************************************************************************)
EXTENDS ShellFs, RtcTime

vars == <<fsVars, clockVars>>

Init == FsInit /\ ClockInit

(* The card and the registers of the clock, which has a battery, keep what *)
(* they hold; the current folder and the kernel time are lost.             *)
Restart == FsBoot /\ ClockBoot

Next ==
    \/ FsNext /\ UNCHANGED clockVars
    \/ ClockNext /\ UNCHANGED fsVars
    \/ Restart

Spec == Init /\ [][Next]_vars

TypeOK == FsTypeOK /\ ClockTypeOK
=============================================================================
