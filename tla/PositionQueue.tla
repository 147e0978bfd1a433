--------------------------- MODULE PositionQueue ---------------------------
(***************************************************************************)
(* pxxxreturn, pyyyreturn and icountp of CLcdVdg: the positions of touches *)
(* outside the keyboard, which the touch interrupt stores and the main     *)
(* program takes out with getPos (command 0xDD of commVDG). Interrupts and *)
(* steps are those of KeyQueue; the four byte reads of Return are one step *)
(* (only a touch that meets a full queue could come between them).         *)
(*                                                                         *)
(* The handler writes entry 16 of both arrays when they are full, and      *)
(* getPos reads it. In the layout of the class (the object file lcd_vdg.o  *)
(* records it) pxxxreturn[16] is pyyyreturn[0], and pyyyreturn[16] is the  *)
(* word made of ptec[0..2] and, as its top byte, pkeyativo.                *)
(***************************************************************************)
EXTENDS Integers

CONSTANTS
    Cap,     \* entries of each array, 16 in the code
    Coords,  \* the pairs <<x, y>> that the touch controller may report
    Stale    \* what paramVDG[2..3] holds when getPos stores nothing

ASSUME PositionQueueAssumption ==
    /\ Cap \in Nat \ {0}
    /\ Coords \subseteq (Int \ {0}) \X (Int \ {0})
    /\ Stale \in Int

VARIABLES
    pxxx, pyyy,  \* pxxxreturn, pyyyreturn
    icountp,
    pkeyativo,   \* the byte is not zero: the keyboard takes keys
    ppc,         \* the next access of getPos, or "idle"
    pix, preg,   \* its loop counter; the value it carries
    pos          \* what getPos returns: <<pPostX, pPostY>>

(* History variables.                                                      *)
VARIABLES
    lastTouch,   \* where the latest touch outside the keyboard was
    wantPos,     \* the same, when getPos last found the queue empty
    hadPos,      \* getPos stored a position
    posLost      \* a touch met a full queue, or fell into Window

queue   == <<pxxx, pyyy, icountp>>
getter  == <<ppc, pix, preg, pos>>
history == <<lastTouch, wantPos, hadPos, posLost>>
vars    == <<queue, pkeyativo, getter, history>>

(* paramVDG holds 16 bits of each coordinate; without a position its first *)
(* two bytes are still the request 01 DD that getPos wrote there.          *)
Low16(w) == w % 65536
NoPosition == <<Stale, 477>>

TopByteNotZero(w) == w < 0

(* The arrays are as malloc left them; entries are read below icountp, or  *)
(* travel through entries at and above it, so zeros stand for any content. *)
Init ==
    /\ pxxx = [i \in 0 .. Cap - 1 |-> 0] /\ pyyy = [i \in 0 .. Cap - 1 |-> 0]
    /\ icountp = 0 /\ pkeyativo = FALSE
    /\ ppc = "idle" /\ pix = 1 /\ preg = 0 /\ pos = <<0, 0>>
    /\ lastTouch = <<0, 0>> /\ wantPos = <<0, 0>>
    /\ hadPos = FALSE /\ posLost = FALSE

-----------------------------------------------------------------------------
(* The interrupt's side.                                                   *)

(* getPos has read the x of the last entry: it will not see a new one.     *)
Window ==
    \/ ppc \in {"store_x", "load_y", "store_y"} /\ pix = icountp
    \/ ppc \in {"clr_x_ix", "clr_x", "clr_y_ix", "clr_y", "dec_ix", "dec"}

(* "if (icountp < 16) icountp++", and with "<=".                           *)
RaisedOnceMore == IF icountp <= Cap THEN icountp + 1 ELSE icountp
Raised == IF icountp < Cap THEN icountp + 1 ELSE icountp

(* The two axes change places on their way into the arrays.                *)
Store(c) ==
    /\ IF icountp < Cap
       THEN /\ pxxx' = [pxxx EXCEPT ![icountp] = c[2]]
            /\ pyyy' = [pyyy EXCEPT ![icountp] = c[1]]
            /\ UNCHANGED pkeyativo
       ELSE /\ pyyy' = [pyyy EXCEPT ![0] = c[2]]
            /\ pkeyativo' = TopByteNotZero(c[1])
            /\ UNCHANGED pxxx
    /\ icountp' = Raised
    /\ lastTouch' = <<Low16(c[2]), Low16(c[1])>>
    /\ posLost' = (posLost \/ icountp = Cap \/ Window)
    /\ UNCHANGED <<getter, wantPos, hadPos>>

(* ShowKeyboard and HideKeyboard set the byte.                             *)
SetActive(on) ==
    /\ pkeyativo' = on
    /\ UNCHANGED <<queue, getter, history>>

-----------------------------------------------------------------------------
(* getPos: "while (icountp > 0)" return entry 0 and shift. Whoever calls   *)
(* it finds its request, or its last position, in paramVDG. The mutants of *)
(* its condition are one off.                                              *)

NotEmptyAtZero == icountp >= 0
NotEmptyAboveOne == icountp > 1
NotEmpty == icountp > 0

MoreToShift(ix) == ix <= icountp

Call ==
    /\ ppc = "idle" /\ ppc' = "test"
    /\ pos' = NoPosition /\ hadPos' = FALSE
    /\ UNCHANGED <<queue, pkeyativo, pix, preg, lastTouch, wantPos, posLost>>

TestEmpty ==
    /\ ppc = "test" /\ ~NotEmpty /\ ppc' = "idle"
    /\ wantPos' = lastTouch
    /\ UNCHANGED <<queue, pkeyativo, pix, preg, pos, lastTouch, hadPos, posLost>>

TestMore ==
    /\ ppc = "test" /\ NotEmpty /\ ppc' = "return"
    /\ UNCHANGED <<queue, pkeyativo, pix, preg, pos, history>>

Return ==
    /\ ppc = "return" /\ ppc' = "load_x"
    /\ pos' = <<Low16(pxxx[0]), Low16(pyyy[0])>> /\ hadPos' = TRUE
    /\ pix' = 1
    /\ UNCHANGED <<queue, pkeyativo, preg, lastTouch, wantPos, posLost>>

LoadX ==
    /\ ppc = "load_x" /\ ppc' = "store_x"
    /\ preg' = IF pix < Cap THEN pxxx[pix] ELSE pyyy[0]
    /\ UNCHANGED <<queue, pkeyativo, pix, pos, history>>

StoreX ==
    /\ ppc = "store_x" /\ ppc' = "load_y"
    /\ pxxx' = [pxxx EXCEPT ![pix - 1] = preg]
    /\ UNCHANGED <<pyyy, icountp, pkeyativo, pix, preg, pos, history>>

(* Beyond the array it reads ptec and pkeyativo, whose value goes no       *)
(* further than an entry that is free again; 0 stands for it.              *)
LoadY ==
    /\ ppc = "load_y" /\ ppc' = "store_y"
    /\ preg' = IF pix < Cap THEN pyyy[pix] ELSE 0
    /\ UNCHANGED <<queue, pkeyativo, pix, pos, history>>

StoreY ==
    /\ ppc = "store_y"
    /\ pyyy' = [pyyy EXCEPT ![pix - 1] = preg]
    /\ preg' = 0
    /\ IF MoreToShift(pix + 1) THEN ppc' = "load_x" /\ pix' = pix + 1
                              ELSE ppc' = "clr_x_ix" /\ pix' = 1
    /\ UNCHANGED <<pxxx, icountp, pkeyativo, pos, history>>

(* "pxxxreturn[icountp] = 0; pyyyreturn[icountp] = 0; icountp--": each     *)
(* reads icountp and then writes.                                          *)
LoadCount ==
    /\ \/ ppc = "clr_x_ix" /\ ppc' = "clr_x"
       \/ ppc = "clr_y_ix" /\ ppc' = "clr_y"
       \/ ppc = "dec_ix" /\ ppc' = "dec"
    /\ preg' = icountp
    /\ UNCHANGED <<queue, pkeyativo, pix, pos, history>>

(* Of a full queue this clears pyyyreturn[0].                              *)
ClearX ==
    /\ ppc = "clr_x" /\ ppc' = "clr_y_ix"
    /\ IF preg < Cap
       THEN pxxx' = [pxxx EXCEPT ![preg] = 0] /\ UNCHANGED pyyy
       ELSE pyyy' = [pyyy EXCEPT ![0] = 0] /\ UNCHANGED pxxx
    /\ UNCHANGED <<icountp, pkeyativo, pix, preg, pos, history>>

(* Of a full queue this clears pkeyativo.                                  *)
ClearY ==
    /\ ppc = "clr_y" /\ ppc' = "dec_ix"
    /\ IF preg < Cap
       THEN pyyy' = [pyyy EXCEPT ![preg] = 0] /\ UNCHANGED pkeyativo
       ELSE pkeyativo' = FALSE /\ UNCHANGED pyyy
    /\ UNCHANGED <<pxxx, icountp, pix, preg, pos, history>>

Decrement ==
    /\ ppc = "dec" /\ ppc' = "test"
    /\ icountp' = preg - 1 /\ preg' = 0
    /\ UNCHANGED <<pxxx, pyyy, pkeyativo, pix, pos, history>>

Step == \/ TestEmpty \/ TestMore \/ Return \/ LoadX \/ StoreX \/ LoadY \/ StoreY
        \/ LoadCount \/ ClearX \/ ClearY \/ Decrement

Next ==
    \/ Call \/ Step
    \/ \E c \in Coords : Store(c)
    \/ \E on \in BOOLEAN : SetActive(on)

Spec == Init /\ [][Next]_vars

-----------------------------------------------------------------------------
PPC == {"idle", "test", "return", "load_x", "store_x", "load_y", "store_y",
        "clr_x_ix", "clr_x", "clr_y_ix", "clr_y", "dec_ix", "dec"}

(* Every field keeps its type; icountp stays within 0..16.                 *)
TypeOK ==
    /\ pxxx \in [0 .. Cap - 1 -> Int] /\ pyyy \in [0 .. Cap - 1 -> Int]
    /\ icountp \in 0 .. Cap /\ pkeyativo \in BOOLEAN
    /\ ppc \in PPC /\ pix \in 1 .. Cap /\ preg \in Int /\ pos \in Int \X Int
    /\ lastTouch \in Int \X Int /\ wantPos \in Int \X Int
    /\ hadPos \in BOOLEAN /\ posLost \in BOOLEAN

(* getPos leaves the arrays by one entry at most, wherever the handler     *)
(* cuts in, and the count it is about to decrement is not 0.               *)
IndexSafe ==
    /\ ppc \in {"return", "load_x", "store_x", "load_y", "store_y"} => icountp > 0
    /\ ppc \in {"clr_x", "clr_y", "dec"} => preg \in 1 .. Cap

(* getPos drops every position but the latest, and that is the one it      *)
(* returns, unless a touch met a full queue or fell into Window. (It needs *)
(* three entries: to take one out of a full queue clears the y of entry 0, *)
(* which must not be the latest.)                                          *)
ReturnsLastTouch ==
    (ppc = "idle" /\ hadPos /\ ~posLost) => pos = wantPos
=============================================================================
