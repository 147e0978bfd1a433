----------------------------- MODULE ScreenPages -----------------------------
(***************************************************************************)
(* The pages of video memory. Page 0 is the copy in memory of what the     *)
(* panel shows; SaveScreen of CScrTft copies a part of it to the page      *)
(* vpagescr and moves on to the next, RestoreScreen goes back a page and   *)
(* copies from there, to page 0 and to the panel.                          *)
(*                                                                         *)
(* A page is as large as the screen, and keeps what earlier uses have left *)
(* outside the part that was saved in it. Boxes, texts and images are      *)
(* drawn on the panel and in page 0; dots and lines on the panel only, and *)
(* have no part in this module.                                            *)
(***************************************************************************)
EXTENDS Integers, Sequences

CONSTANTS
    Cells,   \* the parts of the screen that are told apart
    Inks,    \* what a part may show
    Depth    \* the last page for SaveScreen, 8 in the code

ASSUME ScreenPagesAssumption == Depth \in 1 .. 254 /\ Inks # {}

VARIABLES
    video,     \* pBaseVideoMem: pages 0 .. Depth
    vpagescr   \* the page that SaveScreen writes next

VARIABLES   \* history
    covers,    \* for each page below vpagescr, the area saved there
    request    \* the last call: "draw", "save" or "restore", and its area

memory == <<video, vpagescr, covers>>
pages  == <<memory, request>>

Shown == video[0]

(* over, where area lies over it, and old elsewhere; the mutant does not   *)
(* look at the area.                                                       *)
CopyWhole(area, over, old) == over
Copy(area, over, old) == [c \in Cells |-> IF c \in area THEN over[c] ELSE old[c]]

InitPages ==
    /\ \E ink \in Inks : video = [p \in 0 .. Depth |-> [c \in Cells |-> ink]]
    /\ vpagescr = 1
    /\ covers = <<>> /\ request = <<"none", {}>>

DrawOver(picture) ==
    /\ request' = <<"draw", {}>>
    /\ video' = [video EXCEPT ![0] = picture]
    /\ UNCHANGED <<vpagescr, covers>>

(* "if (vpagescr <= 8)"; the mutant takes the page of the keyboard, too.    *)
PageFreeOneMore == vpagescr <= Depth + 1
PageFree == vpagescr <= Depth

(* vpagescr++, and the mutant without it                                   *)
NextPageSame == vpagescr
NextPage == vpagescr + 1

SaveScreen(area) ==
    /\ request' = <<"save", area>>
    /\ IF PageFree
       THEN /\ video' = [video EXCEPT ![vpagescr] = Copy(area, Shown, @)]
            /\ vpagescr' = NextPage
            /\ covers' = Append(covers, area)
       ELSE UNCHANGED memory

(* --vpagescr, an unsigned char                                            *)
PageBelow == (vpagescr - 1) % 256

(* From page 1 it copies page 0 to page 0, and stays.                      *)
RestoreScreen(area) ==
    /\ request' = <<"restore", area>>
    /\ video' = [video EXCEPT ![0] = Copy(area, video[PageBelow], @)]
    /\ vpagescr' = IF PageBelow < 1 THEN 1 ELSE PageBelow
    /\ covers' = SubSeq(covers, 1, Len(covers) - 1)

NextPages ==
    \/ \E picture \in [Cells -> Inks] : DrawOver(picture)
    \/ \E area \in SUBSET Cells : SaveScreen(area) \/ RestoreScreen(area)

SpecPages == InitPages /\ [][NextPages]_pages

-----------------------------------------------------------------------------
Requests == {"none", "draw", "save", "restore"} \X SUBSET Cells

TypeOKPages ==
    /\ video \in [0 .. Depth -> [Cells -> Inks]]
    /\ vpagescr \in 1 .. Depth + 1
    /\ covers \in Seq(SUBSET Cells) /\ Len(covers) = vpagescr - 1
    /\ request \in Requests

Stack == INSTANCE ScreenStack WITH
    screen <- Shown,
    saved  <- [p \in 1 .. vpagescr - 1 |-> [c \in covers[p] |-> video[p][c]]]

(* The pages are a stack of pictures: a page that is in use keeps what was *)
(* saved in it, whatever is drawn, saved and restored above it, and        *)
(* RestoreScreen without a picture changes nothing.                        *)
ImplementsStack == Stack!Spec
=============================================================================
