------------------------------ MODULE MgiPages -------------------------------
(***************************************************************************)
(* The graphical interface as the user of the screen pages: the desktop,   *)
(* its menu, the programs of its icons and the windows that it opens.      *)
(***************************************************************************)
EXTENDS ScreenPages

CONSTANTS
    Bar,        \* the bar at the top, drawn by desenhaMenu
    MenuArea,   \* what showMenu covers
    Area,       \* what each kind of window covers
    Centre      \* where the hourglass is put

(* The windows of setupMGI, setupDateTimer and message.                    *)
Kinds == {"setup", "date", "message"}

ASSUME MgiPagesAssumption ==
    /\ Bar \subseteq Cells /\ MenuArea \subseteq Cells \ Bar
    /\ Area \in [Kinds -> SUBSET Cells]
    /\ Centre \subseteq Area["setup"] \cap Area["date"]
    /\ {"boot", "wallpaper", "bar", "menu", "window", "program", "hourglass"}
         \subseteq Inks

VARIABLES
    pc,     \* where the interface is
    open    \* the windows that are open: kind, where to go on (back)

VARIABLES   \* history
    lostSave,   \* a SaveScreen found no page
    menuItem    \* an item of the menu was chosen

vars == <<pages, pc, open, lostSave, menuItem>>

Init ==
    /\ InitPages /\ Shown = [c \in Cells |-> "boot"]
    /\ pc = "wallpaper" /\ open = <<>>
    /\ lostSave = FALSE /\ menuItem = FALSE

Draw(area, ink) ==
    /\ DrawOver(Copy(area, [c \in Cells |-> ink], Shown))
    /\ UNCHANGED <<lostSave, menuItem>>

Save(area) ==
    /\ SaveScreen(area)
    /\ lostSave' = (lostSave \/ ~PageFree)
    /\ UNCHANGED menuItem

Restore(area) == RestoreScreen(area) /\ UNCHANGED lostSave

Goto(from, to) == pc = from /\ pc' = to

-----------------------------------------------------------------------------
(* The desktop.                                                            *)

(* redrawMain: wallpaper, SaveScreen, bar; redrawMainRest has RestoreScreen *)
(* for the wallpaper and goes on the same way.                             *)
RedrawMain ==
    Goto("wallpaper", "keep") /\ Draw(Cells, "wallpaper") /\ UNCHANGED open

RedrawMainRest ==
    Goto("rest", "keep") /\ Restore(Cells) /\ UNCHANGED <<open, menuItem>>

(* The mutant does not save the wallpaper.                                 *)
KeepSkipped == Goto("keep", "bar") /\ UNCHANGED <<pages, open, lostSave, menuItem>>
Keep == Goto("keep", "bar") /\ Save(Cells) /\ UNCHANGED open

DesenhaMenu == Goto("bar", "desktop") /\ Draw(Bar, "bar") /\ UNCHANGED open

(* An icon is touched: its program prints where it likes,                  *)
RunProgram(area) ==
    Goto("desktop", "rest") /\ Draw(area, "program") /\ UNCHANGED open

(* or it is MGI, which starts again and does not return.                   *)
RunMgi ==
    Goto("desktop", "wallpaper") /\ UNCHANGED <<pages, open, lostSave, menuItem>>

-----------------------------------------------------------------------------
(* The menu. Each round of its loop ends with a RestoreScreen, and only a  *)
(* touch that misses the items ends the loop.                              *)

ShowMenu == Goto("desktop", "draw_menu") /\ Save(MenuArea) /\ UNCHANGED open

DrawMenu == Goto("draw_menu", "menu") /\ Draw(MenuArea, "menu") /\ UNCHANGED open

MenuItem(next) ==
    /\ Goto("menu", next) /\ Restore(MenuArea) /\ UNCHANGED open
    /\ menuItem' = TRUE

MenuOutside ==
    Goto("menu", "desktop") /\ Restore(MenuArea) /\ UNCHANGED <<open, menuItem>>

-----------------------------------------------------------------------------
(* Windows. A window remembers, as history, what it covers (under) and     *)
(* whether all that was saved since it opened found a page (kept).         *)

CWindow(kind, from, back) ==
    /\ Goto(from, "draw_window") /\ Save(Area[kind])
    /\ open' = Append([w \in DOMAIN open |-> [open[w] EXCEPT !.kept = @ /\ PageFree]],
                      [kind |-> kind, back |-> back, kept |-> PageFree,
                       under |-> [c \in Area[kind] |-> Shown[c]]])

Window == open[Len(open)]

DrawWindow ==
    /\ Goto("draw_window", "window") /\ Draw(Area[Window.kind], "window")
    /\ UNCHANGED open

SetupMGI       == CWindow("setup", "setup", "menu")
Help           == CWindow("message", "help", "menu")
SetupDateTimer == CWindow("date", "desktop", "desktop")
ReadRTCError   == CWindow("message", "desktop", "desktop")

(* Cancel, or the only button of a message.                                *)
Dismiss ==
    Goto("window", "close") /\ UNCHANGED <<pages, open, lostSave, menuItem>>

(* OK of the two windows with settings; that of setupDateTimer writes the  *)
(* clock and reads it again, and either may fail with a message.           *)
Accept ==
    /\ pc = "window" /\ Window.kind # "message"
    /\ pc' = IF Window.kind = "date" THEN "write" ELSE "close"
    /\ Draw(Centre, "hourglass") /\ UNCHANGED open

Written ==
    Goto("write", "reread") /\ UNCHANGED <<pages, open, lostSave, menuItem>>
WriteRTCError == CWindow("message", "write", "reread")

Reread ==
    Goto("reread", "close") /\ UNCHANGED <<pages, open, lostSave, menuItem>>
RereadError == CWindow("message", "reread", "close")

(* The mutant restores more than the window saved.                         *)
ClosedAreaAll(w) == Cells
ClosedArea(w) == Area[w.kind]

Close ==
    /\ Goto("close", Window.back) /\ Restore(ClosedArea(Window))
    /\ open' = SubSeq(open, 1, Len(open) - 1)
    /\ UNCHANGED menuItem

-----------------------------------------------------------------------------
Desktop == RedrawMain \/ RedrawMainRest \/ Keep \/ DesenhaMenu \/ RunMgi
           \/ \E area \in SUBSET Cells : RunProgram(area)
Menu    == ShowMenu \/ DrawMenu \/ MenuOutside
           \/ \E next \in {"menu", "setup", "help"} : MenuItem(next)
Windows == SetupMGI \/ Help \/ SetupDateTimer \/ ReadRTCError \/ DrawWindow
           \/ Dismiss \/ Accept \/ Written \/ WriteRTCError
           \/ Reread \/ RereadError \/ Close

Next == Desktop \/ Menu \/ Windows

Spec == Init /\ [][Next]_vars

-----------------------------------------------------------------------------
PC == {"wallpaper", "rest", "keep", "bar", "desktop", "draw_menu", "menu", "setup",
       "help", "draw_window", "window", "write", "reread", "close"}

Pictures == UNION {[area -> Inks] : area \in SUBSET Cells}

TypeOK ==
    /\ TypeOKPages
    /\ pc \in PC
    /\ open \in Seq([kind : Kinds, back : PC, kept : BOOLEAN, under : Pictures])
    /\ lostSave \in BOOLEAN /\ menuItem \in BOOLEAN

(* Closing a window puts back what was there when it opened, whatever was  *)
(* opened, drawn and closed over it, if its saved screen and theirs found  *)
(* a page: delete of a CWindow undoes its constructor.                     *)
CloseRestores ==
    [][Len(open') < Len(open) /\ Window.kept =>
         \A c \in Area[Window.kind] : video'[0][c] = Window.under[c]]_vars

(* What a RestoreScreen of the menu, of a window or of the desktop changes *)
(* was saved, in the page that it copies from, by the SaveScreen before    *)
(* it, also in the rounds of the menu that nothing was saved for: it never *)
(* shows what an earlier use left in the page.                             *)
Restoring == pc \in {"menu", "rest", "close"}

RestoresOnlySaved ==
    [][Restoring /\ (pc = "close" => Window.kept) =>
         \A c \in Cells :
             video'[0][c] # Shown[c] => c \in covers[Len(covers)]]_vars

(* Back on the desktop, after programs, menus and windows, the wallpaper   *)
(* and the bar are what is shown, unless an item of the menu was chosen or *)
(* a screen found no page.                                                 *)
DesktopShown ==
    pc = "desktop" /\ ~menuItem /\ ~lostSave =>
        Shown = [c \in Cells |-> IF c \in Bar THEN "bar" ELSE "wallpaper"]

(* Pages 1 to 8 are for use, page 0 is the screen, says the comment of     *)
(* TFT_RestoreScreen: where the interface restores, it has saved a page.   *)
RestoresAPage == Restoring => PageBelow \in 1 .. Depth
=============================================================================
