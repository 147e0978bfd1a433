----------------------------- MODULE TouchInput -----------------------------
(***************************************************************************)
(* Touch input as a whole: the interrupt handler TCHVerif, its key queue   *)
(* and its position queue, the on-screen keyboard, and the main program    *)
(* that shows and hides the keyboard and polls with getKey and getPos.     *)
(*                                                                         *)
(* A touch reaches the model as what ReturnKeyboard makes of it: the kind  *)
(* of key under the finger, if any. ReturnKeyboard tests the position of   *)
(* the last keyboard, drawn or not.                                        *)
(***************************************************************************)
EXTENDS Integers, Sequences

CONSTANTS
    Cap,        \* entries of each queue, 16 in the code
    KeyCodes,   \* what keys may type; the function keys 1, 2, 3 do not type
    EnterCode,  \* 13
    Column, Rows,          \* where funcKey asks for the keyboard: 50, by line
    KeyWidth, KeyHeight,   \* its size: 221 by 72
    InitByte, Coords, Stale   \* see KeyQueue and PositionQueue

OutsideCode == 255
Bytes == KeyCodes \cup {OutsideCode}

ASSUME TouchInputAssumption ==
    /\ Cap \in Nat \ {0}
    /\ KeyCodes \subseteq 4 .. 254 /\ EnterCode \in KeyCodes
    /\ InitByte \subseteq 0 .. 255
    /\ Coords \subseteq (Int \ {0}) \X (Int \ {0})
    /\ Stale \in Int
    /\ Column \in Nat /\ Rows \subseteq Nat /\ Rows # {}
    /\ KeyWidth \in Nat \ {0} /\ KeyHeight \in Nat \ {0}

VARIABLES keyBuffer, icount, kpc, kix, kreg, key, typed, want, lost, dirty
VARIABLES pxxx, pyyy, icountp, ppc, pix, preg, pos,
          lastTouch, wantPos, hadPos, posLost
VARIABLES
    pkeyativo,        \* the keyboard takes keys; also a byte of pyyyreturn[16]
    pshowkeyontouch,  \* a touch shows the keyboard again
    vkeyrep,          \* a touch was handled and the finger not lifted since
    keyvxx, keyvyy,   \* where the keyboard is, or was last
    shown,            \* the cells of the screen that show a keyboard ...
    page9,            \* ... and of the copy of what is under the keyboard
    pc,               \* where the main program is
    kbdRace           \* history: a touch cut into the showing of the keyboard,
                      \* or met a full position queue

Keys      == INSTANCE KeyQueue
Positions == INSTANCE PositionQueue

keyVars == <<keyBuffer, icount, kpc, kix, kreg, key, typed, want, lost, dirty>>
posVars == <<pxxx, pyyy, icountp, ppc, pix, preg, pos,
             lastTouch, wantPos, hadPos, posLost>>
place   == <<keyvxx, keyvyy>>
kbdVars == <<pkeyativo, pshowkeyontouch, vkeyrep, place, shown, page9, kbdRace>>
vars    == <<keyVars, posVars, kbdVars, pc>>

Init ==
    /\ Keys!Init /\ Positions!Init
    /\ pshowkeyontouch = FALSE /\ vkeyrep = FALSE
    /\ keyvxx = 0 /\ keyvyy = 0
    /\ shown = {} /\ page9 = {} /\ kbdRace = FALSE
    /\ pc = "command"

-----------------------------------------------------------------------------
(* ShowKeyboard and HideKeyboard, run by the handler in one step. Screen   *)
(* and page 9 are copied place by place, so what another keyboard left     *)
(* outside the area stays. (The line of the frame that TFT_Box draws       *)
(* beside the area is in LineEditor.)                                      *)
Area == (keyvxx .. keyvxx + KeyWidth - 1) \X (keyvyy .. keyvyy + KeyHeight - 1)

Copied(to, from) == (to \ Area) \cup (from \cap Area)

(* "if (!pkeyativo)" save the screen under the keyboard; the mutant saves  *)
(* it also when it only redraws the keyboard.                              *)
SavedAlways == Copied(page9, shown)
Saved == IF pkeyativo THEN page9 ELSE Copied(page9, shown)

ShowKeyboard ==
    /\ page9' = Saved
    /\ pkeyativo' = TRUE /\ shown' = shown \cup Area

HideKeyboard ==
    /\ pkeyativo' = FALSE /\ shown' = Copied(shown, page9)
    /\ UNCHANGED page9

(* TCHVerif, one disjunct for each way through it. "Function keys while    *)
(* the finger is held, or on a hidden keyboard" changes nothing.           *)

ShowOnTouch == pshowkeyontouch /\ ~pkeyativo /\ ~vkeyrep

TouchShows ==
    /\ ShowOnTouch /\ vkeyrep' = TRUE
    /\ ShowKeyboard
    /\ kbdRace' = (kbdRace \/ pc = "show_save")
    /\ UNCHANGED <<keyVars, posVars, pshowkeyontouch, place, pc>>

(* Mutant: the key is stored and not counted.                              *)
TouchKeyUncounted ==
    /\ pkeyativo /\ ~vkeyrep /\ vkeyrep' = TRUE
    /\ \E code \in KeyCodes : keyBuffer' = [keyBuffer EXCEPT ![icount] = code]
    /\ UNCHANGED <<icount, kpc, kix, kreg, key, typed, want, lost, dirty>>
    /\ UNCHANGED <<posVars, pkeyativo, pshowkeyontouch, place, shown, page9, kbdRace,
                   pc>>

TouchKey ==
    /\ pkeyativo /\ ~vkeyrep /\ vkeyrep' = TRUE
    /\ \E code \in KeyCodes : Keys!Store(code)
    /\ UNCHANGED <<posVars, pkeyativo, pshowkeyontouch, place, shown, page9, kbdRace,
                   pc>>

(* Caps, the layout key, or a blank key: the keyboard is drawn again.      *)
TouchMode ==
    /\ pkeyativo /\ ~vkeyrep /\ vkeyrep' = TRUE
    /\ ShowKeyboard
    /\ UNCHANGED <<keyVars, posVars, pshowkeyontouch, place, kbdRace, pc>>

TouchClose ==
    /\ pkeyativo /\ ~vkeyrep /\ vkeyrep' = TRUE
    /\ HideKeyboard
    /\ kbdRace' = (kbdRace \/ pc = "show_draw")
    /\ UNCHANGED <<keyVars, posVars, pshowkeyontouch, place, pc>>

(* Outside the keyboard: FF joins the keys and the position the positions. *)
(* The byte FF and the position are stored at every interrupt of a held    *)
(* finger, too.                                                            *)
TouchOutside ==
    /\ ~ShowOnTouch /\ vkeyrep' = (vkeyrep \/ pkeyativo)
    /\ Keys!Store(OutsideCode)
    /\ \E c \in Coords : Positions!Store(c)
    /\ kbdRace' = (kbdRace \/ icountp = Cap)
    /\ UNCHANGED <<pshowkeyontouch, place, shown, page9, pc>>

(* A key of a hidden keyboard, or a finger held on a key: ptec says "key", *)
(* so the count goes up, and nothing has been stored.                      *)
TouchPhantom ==
    /\ vkeyrep \/ (~pkeyativo /\ ~pshowkeyontouch)
    /\ Keys!CountOnly
    /\ UNCHANGED <<posVars, kbdVars, pc>>

(* No valid reading of the touch controller: the finger is gone.           *)
Release ==
    /\ vkeyrep' = FALSE
    /\ UNCHANGED <<keyVars, posVars, pkeyativo, pshowkeyontouch, place, shown, page9,
                   kbdRace, pc>>

Touch == \/ TouchShows \/ TouchKey \/ TouchMode \/ TouchClose
         \/ TouchOutside \/ TouchPhantom

TCHVerif == Touch \/ Release

-----------------------------------------------------------------------------
(* funcKey of the main program (command 0xDB): the same ShowKeyboard and   *)
(* HideKeyboard, but the handler may come between their steps.             *)

Goto(l) == pc' = l

ShowFlag ==
    /\ pc = "show_flag" /\ Goto("show_column")
    /\ pshowkeyontouch' = TRUE
    /\ UNCHANGED <<keyVars, posVars, pkeyativo, vkeyrep, place, shown, page9, kbdRace>>

(* The new place comes after the flag. A keyboard that a touch has shown   *)
(* at the old one in between loses the area that is its own.               *)
ShowColumn ==
    /\ pc = "show_column" /\ Goto("show_row")
    /\ keyvxx' = Column
    /\ kbdRace' = (kbdRace \/ (pkeyativo /\ keyvxx # Column))
    /\ UNCHANGED <<keyVars, posVars, pkeyativo, pshowkeyontouch, vkeyrep, keyvyy,
                   shown, page9>>

ShowRow ==
    /\ pc = "show_row" /\ Goto("show_test")
    /\ \E row \in Rows :
        /\ keyvyy' = row
        /\ kbdRace' = (kbdRace \/ (pkeyativo /\ keyvyy # row))
    /\ UNCHANGED <<keyVars, posVars, pkeyativo, pshowkeyontouch, vkeyrep, keyvxx,
                   shown, page9>>

ShowTest ==
    /\ pc = "show_test" /\ Goto(IF pkeyativo THEN "show_draw" ELSE "show_save")
    /\ UNCHANGED <<keyVars, posVars, kbdVars>>

ShowSave ==
    /\ pc = "show_save" /\ Goto("show_active")
    /\ page9' = Copied(page9, shown)
    /\ UNCHANGED <<keyVars, posVars, pkeyativo, pshowkeyontouch, vkeyrep, place, shown,
                   kbdRace>>

ShowActive ==
    /\ pc = "show_active" /\ Goto("show_draw")
    /\ pkeyativo' = TRUE
    /\ UNCHANGED <<keyVars, posVars, pshowkeyontouch, vkeyrep, place, shown, page9,
                   kbdRace>>

ShowDraw ==
    /\ pc = "show_draw" /\ Goto("prompt")
    /\ shown' = shown \cup Area
    /\ UNCHANGED <<keyVars, posVars, pkeyativo, pshowkeyontouch, vkeyrep, place, page9,
                   kbdRace>>

HideFlag ==
    /\ pc = "hide_flag" /\ Goto("hide_active")
    /\ pshowkeyontouch' = FALSE
    /\ UNCHANGED <<keyVars, posVars, pkeyativo, vkeyrep, place, shown, page9, kbdRace>>

HideActive ==
    /\ pc = "hide_active" /\ Goto("hide_restore")
    /\ pkeyativo' = FALSE
    /\ UNCHANGED <<keyVars, posVars, pshowkeyontouch, vkeyrep, place, shown, page9,
                   kbdRace>>

HideRestore ==
    /\ pc = "hide_restore" /\ Goto("command")
    /\ shown' = Copied(shown, page9)
    /\ UNCHANGED <<keyVars, posVars, pkeyativo, pshowkeyontouch, vkeyrep, place, page9,
                   kbdRace>>

FuncKey == \/ ShowFlag \/ ShowColumn \/ ShowRow \/ ShowTest \/ ShowSave
           \/ ShowActive \/ ShowDraw
           \/ HideFlag \/ HideActive \/ HideRestore

-----------------------------------------------------------------------------
(* The main program. At the prompt it polls with getKey; Enter hides the   *)
(* keyboard and runs the command, and every other byte, FF included, goes  *)
(* to the line.                                                            *)

PromptPolls ==
    /\ pc = "prompt" /\ Keys!Call /\ Goto("prompt_key")
    /\ UNCHANGED <<posVars, kbdVars>>

PromptGotKey ==
    /\ pc = "prompt_key" /\ kpc = "idle"
    /\ Goto(IF key = EnterCode THEN "hide_flag" ELSE "prompt")
    /\ UNCHANGED <<keyVars, posVars, kbdVars>>

(* processCmd, or the MGI that runs before the first prompt: it may call   *)
(* VerifyTouchLcd any number of times, clear the screen, and return.       *)
CommandVerifies ==
    /\ pc = "command" /\ Keys!Call /\ Goto("verify")
    /\ UNCHANGED <<posVars, kbdVars>>

(* VerifyTouchLcd: FF fetches the position. No key polls again when the    *)
(* caller said WHAITTOUCH, and otherwise ends it, as any other key does.   *)
VerifyOutside ==
    /\ pc = "verify" /\ kpc = "idle" /\ key = OutsideCode
    /\ Positions!Call /\ Goto("verify_pos")
    /\ UNCHANGED <<keyVars, pkeyativo, pshowkeyontouch, vkeyrep, place, shown, page9,
                   kbdRace>>

VerifyAgain ==
    /\ pc = "verify" /\ kpc = "idle" /\ key = 0
    /\ Keys!Call /\ Goto("verify")
    /\ UNCHANGED <<posVars, kbdVars>>

(* Mutant: the positions that still wait are forgotten.                    *)
VerifyDoneForgets ==
    /\ \/ pc = "verify" /\ kpc = "idle" /\ key # OutsideCode
       \/ pc = "verify_pos" /\ ppc = "idle"
    /\ Goto("command")
    /\ icountp' = 0
    /\ UNCHANGED <<pxxx, pyyy, ppc, pix, preg, pos, lastTouch, wantPos, hadPos, posLost>>
    /\ UNCHANGED <<keyVars, kbdVars>>

VerifyDone ==
    /\ \/ pc = "verify" /\ kpc = "idle" /\ key # OutsideCode
       \/ pc = "verify_pos" /\ ppc = "idle"
    /\ Goto("command")
    /\ UNCHANGED <<keyVars, posVars, kbdVars>>

GetKey ==
    /\ Keys!Step
    /\ UNCHANGED <<posVars, kbdVars, pc>>

GetPos ==
    /\ Positions!Step
    /\ UNCHANGED <<keyVars, pshowkeyontouch, vkeyrep, place, shown, page9, kbdRace, pc>>

CommandClearsScreen ==
    /\ pc = "command" /\ shown # {} /\ shown' = {}
    /\ UNCHANGED <<keyVars, posVars, pkeyativo, pshowkeyontouch, vkeyrep, place,
                   page9, kbdRace, pc>>

CommandDone ==
    /\ pc = "command" /\ Goto("show_flag")
    /\ UNCHANGED <<keyVars, posVars, kbdVars>>

Program == \/ FuncKey \/ GetKey \/ GetPos
           \/ PromptPolls \/ PromptGotKey
           \/ CommandVerifies \/ VerifyOutside \/ VerifyAgain \/ VerifyDone
           \/ CommandClearsScreen \/ CommandDone

Next == TCHVerif \/ Program

Spec == Init /\ [][Next]_vars

(* The main program never blocks and the handler returns, so the program   *)
(* always takes its next step, and a command sooner or later polls or      *)
(* returns. Nothing makes anyone touch the screen.                         *)
FairSpec == Spec /\ WF_vars(Program)

-----------------------------------------------------------------------------
ShowPC == {"show_flag", "show_column", "show_row", "show_test", "show_save",
           "show_active", "show_draw"}
HidePC == {"hide_flag", "hide_active", "hide_restore"}
CommandPC == {"command", "verify", "verify_pos"}
PC     == {"prompt", "prompt_key"} \cup CommandPC \cup ShowPC \cup HidePC

TypeOK ==
    /\ Keys!TypeOK /\ Positions!TypeOK
    /\ {pshowkeyontouch, vkeyrep, kbdRace} \subseteq BOOLEAN
    /\ keyvxx \in {0, Column} /\ keyvyy \in {0} \cup Rows
    /\ shown \subseteq Int \X Int /\ page9 \subseteq Int \X Int
    /\ pc \in PC

(* The program waits for a running getKey or getPos, and runs one at a     *)
(* time: the registers of the two are never live together.                 *)
OneCallAtATime ==
    /\ kpc # "idle" => pc \in {"prompt_key", "verify"} /\ ppc = "idle"
    /\ ppc # "idle" => pc = "verify_pos"

(* While the main program is not showing or hiding it, the screen shows    *)
(* the keyboard, whole and at its place, exactly when it takes keys, and   *)
(* page 9 has none in it; while a command runs there is none on the        *)
(* screen. Only a touch that shows the keyboard between the flag and a new *)
(* place, or between the test of pkeyativo and the copy of the screen, one *)
(* that closes a keyboard still being drawn, or a touch after Cap waiting  *)
(* positions breaks it.                                                    *)
KeyboardShownIffActive ==
    ~kbdRace =>
        /\ pc \notin ShowPC \cup HidePC =>
              shown = (IF pkeyativo THEN Area ELSE {}) /\ page9 = {}
        /\ pc \in CommandPC => shown = {}

(* Once nobody touches the screen, the polling empties the key queue: it   *)
(* is empty again and again, or someone touches the screen again and again.*)
QueueDrains == []<><<Touch>>_vars \/ []<>(icount = 0)

(* The handler and the main program together use the key queue as KeyQueue *)
(* says its users do, so what holds of KeyQueue holds here.                *)
UsesKeyQueue == Keys!Spec

(* And the position queue as PositionQueue says.                           *)
UsesPositionQueue == Positions!Spec

(* 0xDD "returns the position if touched outside the keyboard": what       *)
(* VerifyTouchLcd gets from getPos is a position that was touched, at      *)
(* least if no touch came while getKey or getPos was shifting.             *)
PositionWasTouched ==
    (pc = "verify_pos" /\ ppc = "idle" /\ ~lost /\ ~posLost) =>
        pos \in {<<Positions!Low16(c[2]), Positions!Low16(c[1])>> : c \in Coords}

(* HideKeyboard "restores the old screen": when a command starts to run,   *)
(* no keyboard is left on the screen.                                      *)
HideRestoresOldScreen == pc = "command" => shown = {}
=============================================================================
