------------------------------ MODULE KeyQueue ------------------------------
(***************************************************************************)
(* keyBuffer and icount of CLcdVdg: a queue of touched keys that the touch *)
(* interrupt fills and the main program empties with getKey (command 0xDC  *)
(* of commVDG).                                                            *)
(*                                                                         *)
(* The Raspberry Pi Zero has one core and interrupts do not nest, so the   *)
(* handler is one atomic step. It may fall between any two accesses that   *)
(* getKey makes to the two volatile fields, so each of those is a step;    *)
(* two are merged only where an interrupt between them changes nothing     *)
(* that an interrupt before or after them would not. The loop counter and  *)
(* the byte in transit are registers in the compiled code (lcd_vdg.o).     *)
(***************************************************************************)
EXTENDS Integers, Sequences

CONSTANTS
    Cap,       \* entries of keyBuffer, 16 in the code
    Bytes,     \* what the handler may store: key codes, and FF for "outside"
    InitByte   \* what the uninitialised keyBuffer may hold at boot

ASSUME KeyQueueAssumption ==
    /\ Cap \in Nat \ {0}
    /\ Bytes \subseteq 0 .. 255
    /\ InitByte \subseteq 0 .. 255

VARIABLES
    keyBuffer,  \* slot Cap is the padding byte after the array
    icount,
    kpc,        \* the next access of getKey, or "idle"
    kix, kreg,  \* its loop counter; the value it carries
    key         \* what it returns

(* History variables: they only record.                                    *)
VARIABLES
    typed,      \* bytes queued and not taken out, oldest first
    want,       \* the byte that the current getKey ought to return
    lost,       \* a touch met a full queue, or fell into Window
    dirty       \* keyBuffer held a nonzero byte at boot

queue   == <<keyBuffer, icount>>
getter  == <<kpc, kix, kreg, key>>
history == <<typed, want, lost, dirty>>
vars    == <<queue, getter, history>>

(* TFT_Init sets the count and leaves the array as malloc gave it.         *)
Init ==
    /\ keyBuffer \in [0 .. Cap -> InitByte]
    /\ icount = 0
    /\ kpc = "idle" /\ kix = 1 /\ kreg = 0 /\ key = 0
    /\ typed = <<>> /\ want = 0 /\ lost = FALSE
    /\ dirty = (\E i \in 0 .. Cap : keyBuffer[i] # 0)

-----------------------------------------------------------------------------
(* The interrupt's side.                                                   *)

(* getKey has passed the end of the queue, or holds the byte of an empty   *)
(* queue and has not looked at icount yet.                                 *)
Window ==
    \/ kpc = "test" /\ icount = 0
    \/ kpc = "store" /\ kix = icount
    \/ kpc \in {"clr_ix", "clr", "dec_ix", "dec"}

(* "if (icount < 16) icount++"; the mutant is not stopped by the array.    *)
RaisedUnbounded == icount + 1
Raised == IF icount < Cap THEN icount + 1 ELSE icount

(* What slot icount holds joins the queue.                                 *)
Push(byte) ==
    /\ icount' = Raised
    /\ lost' = (lost \/ icount = Cap \/ Window)
    /\ typed' = IF lost' THEN <<>> ELSE Append(typed, byte)
    /\ UNCHANGED <<getter, want, dirty>>

(* A touch with a byte of its own; with a full queue it lands in slot Cap. *)
Store(byte) ==
    /\ keyBuffer' = [keyBuffer EXCEPT ![icount] = byte]
    /\ Push(byte)

(* A held finger, or a touch where a hidden keyboard has a key, counts     *)
(* without storing: the slot keeps what it held.                           *)
CountOnly ==
    /\ UNCHANGED keyBuffer
    /\ IF icount < Cap THEN Push(keyBuffer[icount])
                       ELSE UNCHANGED <<icount, getter, history>>

-----------------------------------------------------------------------------
(* getKey. Registers nobody reads any more are reset, so that they do not  *)
(* tell states apart. The mutants of its two conditions are one off.       *)

NotEmptyAtZero == icount >= 0
NotEmptyAboveOne == icount > 1
NotEmpty == icount > 0

MoreToShiftTooFar(ix) == ix <= icount + 1
MoreToShiftTooShort(ix) == ix < icount
MoreToShift(ix) == ix <= icount

Call ==
    /\ kpc = "idle" /\ kpc' = "read"
    /\ UNCHANGED <<queue, kix, kreg, key, history>>

(* "*vparam = keyBuffer[0]", whatever the count is.                        *)
Read ==
    /\ kpc = "read" /\ kpc' = "test"
    /\ key' = keyBuffer[0]
    /\ want' = IF typed = <<>> THEN 0 ELSE Head(typed)
    /\ typed' = IF typed = <<>> THEN <<>> ELSE Tail(typed)
    /\ UNCHANGED <<queue, kix, kreg, lost, dirty>>

Test ==
    /\ kpc = "test"
    /\ kpc' = IF NotEmpty THEN "load" ELSE "idle"
    /\ kix' = 1
    /\ UNCHANGED <<queue, kreg, key, history>>

Load ==
    /\ kpc = "load" /\ kpc' = "store"
    /\ kreg' = keyBuffer[kix]
    /\ UNCHANGED <<queue, kix, key, history>>

Shift ==
    /\ kpc = "store"
    /\ keyBuffer' = [keyBuffer EXCEPT ![kix - 1] = kreg]
    /\ kix' = kix + 1
    /\ kpc' = IF MoreToShift(kix + 1) THEN "load" ELSE "clr_ix"
    /\ UNCHANGED <<icount, kreg, key, history>>

(* "keyBuffer[icount] = 0" reads icount, then writes the array ...         *)
ClearIndex ==
    /\ kpc = "clr_ix" /\ kpc' = "clr"
    /\ kreg' = icount /\ kix' = 1
    /\ UNCHANGED <<queue, key, history>>

Clear ==
    /\ kpc = "clr" /\ kpc' = "dec_ix"
    /\ keyBuffer' = [keyBuffer EXCEPT ![kreg] = 0]
    /\ UNCHANGED <<icount, kix, kreg, key, history>>

(* ... and "icount--" reads it again, then writes it.                      *)
DecrementIndex ==
    /\ kpc = "dec_ix" /\ kpc' = "dec"
    /\ kreg' = icount
    /\ UNCHANGED <<queue, kix, key, history>>

Decrement ==
    /\ kpc = "dec" /\ kpc' = "idle"
    /\ icount' = kreg - 1 /\ kreg' = 0
    /\ UNCHANGED <<keyBuffer, kix, key, history>>

Step == \/ Read \/ Test \/ Load \/ Shift
        \/ ClearIndex \/ Clear \/ DecrementIndex \/ Decrement

Interrupt == CountOnly \/ \E byte \in Bytes : Store(byte)

Next == Call \/ Step \/ Interrupt

Spec == Init /\ [][Next]_vars

-----------------------------------------------------------------------------
KPC == {"idle", "read", "test", "load", "store", "clr_ix", "clr", "dec_ix", "dec"}

(* Every field keeps its type; icount stays within 0..16.                  *)
TypeOK ==
    /\ keyBuffer \in [0 .. Cap -> 0 .. 255]
    /\ icount \in 0 .. Cap
    /\ kpc \in KPC /\ kix \in 1 .. Cap + 1
    /\ kreg \in 0 .. 255 \cup 0 .. Cap
    /\ key \in 0 .. 255
    /\ typed \in Seq(0 .. 255) /\ want \in 0 .. 255
    /\ lost \in BOOLEAN /\ dirty \in BOOLEAN

(* Wherever the handler cuts in, getKey reads and writes only keyBuffer    *)
(* and the byte after it, and the count it is about to decrement is not 0: *)
(* the handler may raise icount under getKey, and never lowers it.         *)
IndexSafe ==
    /\ kpc \in {"load", "store"} => kix \in 1 .. Cap
    /\ kpc = "clr" => kreg \in 1 .. Cap
    /\ kpc = "dec" => kreg \in 1 .. Cap

(* getKey delivers the touched keys in order, each once, and with a buffer *)
(* that was zero at boot it delivers nothing when nothing was touched. It  *)
(* may fail only after a touch met a full queue or fell into Window.       *)
KeysInOrder ==
    (kpc = "idle" /\ ~lost) => (key = want \/ (dirty /\ want = 0))
=============================================================================
