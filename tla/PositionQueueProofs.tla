------------------------ MODULE PositionQueueProofs ------------------------
(* What TLAPS proves of the position queue, wherever the handler cuts in:  *)
(* for every size it keeps its types and getPos stays inside the arrays;   *)
(* for every size of three or more getPos returns the latest touch.        *)
EXTENDS PositionQueue, TLAPS

USE PositionQueueAssumption DEF PositionQueueAssumption, Raised, NotEmpty, MoreToShift

(* IndexSafe is not inductive: that the count getPos reads again is not 0  *)
(* comes from its being positive since the test, because the handler only  *)
(* raises it.                                                              *)
Shifting == {"return", "load_x", "store_x", "load_y", "store_y"}
Removing == {"clr_x_ix", "clr_x", "clr_y_ix", "clr_y", "dec_ix", "dec"}

IndexInv ==
    /\ TypeOK
    /\ ppc \in Shifting \cup Removing => icountp > 0
    /\ ppc \in {"load_x", "store_x", "load_y", "store_y"} => pix <= icountp
    /\ ppc \in {"clr_x", "clr_y", "dec"} => preg \in 1 .. icountp

(* The invariant without its parts on arrays and pairs.                    *)
CountInv ==
    /\ icountp \in 0 .. Cap /\ ppc \in PPC /\ pix \in 1 .. Cap /\ preg \in Int
    /\ ppc \in Shifting \cup Removing => icountp > 0
    /\ ppc \in {"load_x", "store_x", "load_y", "store_y"} => pix <= icountp
    /\ ppc \in {"clr_x", "clr_y", "dec"} => preg \in 1 .. icountp

DataTypes ==
    /\ pxxx \in [0 .. Cap - 1 -> Int] /\ pyyy \in [0 .. Cap - 1 -> Int]
    /\ pkeyativo \in BOOLEAN /\ pos \in Int \X Int
    /\ lastTouch \in Int \X Int /\ wantPos \in Int \X Int
    /\ hadPos \in BOOLEAN /\ posLost \in BOOLEAN

LEMMA InvParts == IndexInv <=> CountInv /\ DataTypes
  BY DEF IndexInv, CountInv, DataTypes, TypeOK

LEMMA InvPartsNext == IndexInv' <=> CountInv' /\ DataTypes'
  BY DEF IndexInv, CountInv, DataTypes, TypeOK

-----------------------------------------------------------------------------
LEMMA InitIndexInv == Init => IndexInv
  <1> SUFFICES ASSUME Init PROVE IndexInv
    OBVIOUS
  <1>1. CountInv
    BY DEF Init, CountInv, PPC, Shifting, Removing
  <1>2. pxxx \in [0 .. Cap - 1 -> Int] /\ pyyy \in [0 .. Cap - 1 -> Int]
    BY DEF Init
  <1>3. pos \in Int \X Int /\ lastTouch \in Int \X Int /\ wantPos \in Int \X Int
    BY DEF Init
  <1>4. pkeyativo \in BOOLEAN /\ hadPos \in BOOLEAN /\ posLost \in BOOLEAN
    BY DEF Init
  <1> QED BY <1>1, <1>2, <1>3, <1>4, InvParts DEF DataTypes

(* A word is an integer, and so are its low 16 bits.                       *)
LEMMA Low16Type == \A w \in Int : Low16(w) \in Int
  BY DEF Low16

(* A touch: entry 16 of the arrays is pyyyreturn[0] and pkeyativo.         *)
LEMMA StoreKeepsInv ==
    ASSUME IndexInv, NEW c \in Coords, Store(c)
    PROVE  IndexInv'
  <1> USE DEF queue, getter, history
  <1>0. CountInv /\ DataTypes BY InvParts
  <1>1. c[1] \in Int /\ c[2] \in Int
    OBVIOUS
  <1>2. CountInv'
    BY <1>0 DEF Store, CountInv, PPC, Shifting, Removing
  <1>3. pxxx' \in [0 .. Cap - 1 -> Int] /\ pyyy' \in [0 .. Cap - 1 -> Int]
    BY <1>0, <1>1 DEF Store, CountInv, DataTypes
  <1>4. pkeyativo' \in BOOLEAN /\ posLost' \in BOOLEAN /\ hadPos' \in BOOLEAN
    <2>1. pkeyativo' = pkeyativo \/ pkeyativo' = TRUE \/ pkeyativo' = FALSE
      BY DEF Store, TopByteNotZero
    <2>2. posLost' = (posLost \/ icountp = Cap \/ Window)
      BY DEF Store
    <2>3. hadPos' = hadPos
      BY DEF Store
    <2>4. pkeyativo' \in BOOLEAN
      BY <1>0, <2>1, Zenon DEF DataTypes
    <2>5. posLost' \in BOOLEAN
      BY <2>2, Zenon
    <2> QED BY <1>0, <2>3, <2>4, <2>5 DEF DataTypes
  <1>5. pos' \in Int \X Int /\ wantPos' \in Int \X Int /\ lastTouch' \in Int \X Int
    BY <1>0, <1>1, Low16Type DEF Store, DataTypes
  <1> QED BY <1>2, <1>3, <1>4, <1>5, InvPartsNext DEF DataTypes

(* A step of getPos moves the counters so that they stay inside.           *)
LEMMA StepKeepsCounts ==
    ASSUME IndexInv, Call \/ Step
    PROVE  CountInv'
  <1> USE DEF CountInv, PPC, Shifting, Removing, queue, getter, history
  <1>0. CountInv /\ DataTypes BY InvParts
  <1>1. CASE Call \/ TestEmpty
    BY <1>0, <1>1 DEF Call, TestEmpty
  <1>7. CASE TestMore
    BY <1>0, <1>7 DEF TestMore
  <1>8. CASE Return
    BY <1>0, <1>8 DEF Return
  <1>2. CASE LoadX \/ LoadY
    <2>1. preg' \in Int
      BY <1>0, <1>2 DEF LoadX, LoadY, DataTypes
    <2>2. /\ UNCHANGED <<icountp, pix>>
          /\ \/ ppc = "load_x" /\ ppc' = "store_x"
             \/ ppc = "load_y" /\ ppc' = "store_y"
      BY <1>2 DEF LoadX, LoadY
    <2> QED BY <1>0, <2>1, <2>2
  <1>3. CASE StoreX \/ StoreY
    BY <1>0, <1>3 DEF StoreX, StoreY
  <1>4. CASE LoadCount
    BY <1>0, <1>4 DEF LoadCount
  <1>5. CASE ClearX \/ ClearY
    BY <1>0, <1>5 DEF ClearX, ClearY
  <1>6. CASE Decrement
    BY <1>0, <1>6 DEF Decrement
  <1> QED BY <1>1, <1>2, <1>3, <1>4, <1>5, <1>6, <1>7, <1>8 DEF Step

(* And what it moves are words.                                            *)
LEMMA StepKeepsTypes ==
    ASSUME IndexInv, Call \/ Step
    PROVE  DataTypes'
  <1> USE DEF queue, getter, history
  <1>0. CountInv /\ DataTypes BY InvParts
  <1>1. CASE Call
    <2>1. pos' \in Int \X Int /\ hadPos' = FALSE
      BY <1>1 DEF Call, NoPosition
    <2>2. UNCHANGED <<queue, pkeyativo, lastTouch, wantPos, posLost>>
      BY <1>1 DEF Call
    <2> QED BY <1>0, <2>1, <2>2 DEF DataTypes
  <1>2. CASE TestEmpty \/ TestMore \/ LoadX \/ LoadY \/ LoadCount
    BY <1>0, <1>2 DEF TestEmpty, TestMore, LoadX, LoadY, LoadCount, DataTypes
  <1>3. CASE Return
    <2>1. pxxx[0] \in Int /\ pyyy[0] \in Int
      BY <1>0 DEF DataTypes
    <2>2. pos' \in Int \X Int /\ hadPos' = TRUE
      BY <1>3, <2>1, Low16Type DEF Return
    <2> QED BY <1>0, <1>3, <2>2 DEF Return, DataTypes
  <1>4. CASE StoreX \/ StoreY \/ Decrement
    BY <1>0, <1>4 DEF StoreX, StoreY, Decrement, DataTypes, CountInv
  <1>5. CASE ClearX \/ ClearY
    <2>1. pxxx' \in [0 .. Cap - 1 -> Int] /\ pyyy' \in [0 .. Cap - 1 -> Int]
      <3>0. preg \in Int
        BY <1>0 DEF CountInv
      <3>1. CASE ClearX
        BY <1>0, <3>0, <3>1 DEF ClearX, DataTypes
      <3>2. CASE ClearY
        BY <1>0, <3>0, <3>2 DEF ClearY, DataTypes
      <3> QED BY <1>5, <3>1, <3>2
    <2>2. pkeyativo' = pkeyativo \/ pkeyativo' = FALSE
      BY <1>5 DEF ClearX, ClearY
    <2>3. UNCHANGED <<pos, history>>
      BY <1>5 DEF ClearX, ClearY
    <2> QED BY <1>0, <2>1, <2>2, <2>3 DEF DataTypes
  <1> QED BY <1>1, <1>2, <1>3, <1>4, <1>5 DEF Step

LEMMA NextIndexInv == IndexInv /\ [Next]_vars => IndexInv'
  <1> SUFFICES ASSUME IndexInv, [Next]_vars PROVE IndexInv'
    OBVIOUS
  <1>1. CASE Call \/ Step
    BY <1>1, StepKeepsCounts, StepKeepsTypes, InvPartsNext
  <1>2. CASE \E c \in Coords : Store(c)
    BY <1>2, StoreKeepsInv
  <1>3. CASE \E on \in BOOLEAN : SetActive(on)
    BY <1>3 DEF SetActive, IndexInv, TypeOK, queue, getter, history
  <1>4. CASE UNCHANGED vars
    BY <1>4 DEF vars, IndexInv, TypeOK, queue, getter, history
  <1> QED BY <1>1, <1>2, <1>3, <1>4 DEF Next

THEOREM IndexInvariant == Spec => []IndexInv
  BY InitIndexInv, NextIndexInv, PTL DEF Spec

(* TypeOK: every field of the position queue keeps its type, and icountp   *)
(* stays within 0..Cap, for every size and every set of positions.         *)
THEOREM TypeCorrect == Spec => []TypeOK
  <1>1. IndexInv => TypeOK BY DEF IndexInv
  <1> QED BY <1>1, IndexInvariant, PTL

(* IndexSafe: getPos indexes nothing beyond entry Cap of the two arrays    *)
(* and never decrements a zero count.                                      *)
THEOREM IndicesSafe == Spec => []IndexSafe
  <1>1. IndexInv => IndexSafe
    BY DEF IndexInv, TypeOK, IndexSafe, Shifting, Removing
  <1> QED BY <1>1, IndexInvariant, PTL
-----------------------------------------------------------------------------
(* The latest touch. As long as none was lost, it is the last entry before *)
(* the shift, the last but one when everything is shifted, and in pos when *)
(* it was the only one. While entry pix moves, it may be on its way: its x *)
(* in preg or one entry ahead of its y. Of a full queue the clearing of    *)
(* "entry Cap" clears the y of entry 0, so a queue of two would lose the   *)
(* one that is left.                                                       *)
LastX(i) == Low16(pxxx[i]) = lastTouch[1]
LastY(i) == Low16(pyyy[i]) = lastTouch[2]
LastAt(i) == LastX(i) /\ LastY(i)

Waiting == icountp > 0 => LastAt(icountp - 1)

(* Everything is shifted, or all but the entry beyond the last.            *)
Shifted == IF icountp = 1 THEN pos = lastTouch ELSE LastAt(icountp - 2)

(* The last entry is still to be moved, or is moved now.                   *)
Moving == pix < icountp

Answered == hadPos => pos = lastTouch

AtRest    == ppc \in {"idle", "test", "return"} => Waiting
AtTest    == ppc = "test" /\ icountp = 0 => Answered
AtIdle    == ppc = "idle" /\ hadPos => pos = wantPos
AtLoadX   == ppc = "load_x" => IF Moving THEN LastAt(icountp - 1) ELSE Shifted
AtStoreX  == ppc = "store_x" =>
                 IF ~Moving THEN Shifted
                 ELSE /\ LastAt(icountp - 1)
                      /\ pix = icountp - 1 => Low16(preg) = lastTouch[1]
AtLoadY   == ppc = "load_y" =>
                 IF ~Moving THEN Shifted
                 ELSE /\ LastAt(icountp - 1)
                      /\ pix = icountp - 1 => LastX(icountp - 2)
AtStoreY  == ppc = "store_y" =>
                 IF ~Moving THEN Shifted
                 ELSE /\ LastAt(icountp - 1)
                      /\ pix = icountp - 1 =>
                            LastX(icountp - 2) /\ Low16(preg) = lastTouch[2]
AtClosing == ppc \in Removing =>
                 Shifted /\ (ppc \in {"clr_x", "clr_y", "dec"} => preg = icountp)

LastInv == ~posLost => /\ AtRest /\ AtTest /\ AtIdle /\ AtLoadX /\ AtStoreX
                       /\ AtLoadY /\ AtStoreY /\ AtClosing

LastParts == AtRest /\ AtTest /\ AtIdle /\ AtLoadX /\ AtStoreX /\ AtLoadY
             /\ AtStoreY /\ AtClosing

LEMMA PairEqual ==
    ASSUME NEW a \in Int \X Int, NEW b, b = <<a[1], a[2]>>
    PROVE  b = a
  OBVIOUS

(* A step that leaves an entry alone leaves the latest touch where it is.  *)
LEMMA LastKept ==
    ASSUME icountp' = icountp, lastTouch' = lastTouch,
           pxxx'[icountp - 1] = pxxx[icountp - 1],
           pyyy'[icountp - 1] = pyyy[icountp - 1]
    PROVE  LastAt(icountp - 1) => LastAt(icountp - 1)'
  BY DEF LastAt, LastX, LastY

LEMMA ShiftedKept ==
    ASSUME icountp' = icountp, pos' = pos, lastTouch' = lastTouch,
           icountp # 1 => /\ pxxx'[icountp - 2] = pxxx[icountp - 2]
                          /\ pyyy'[icountp - 2] = pyyy[icountp - 2]
    PROVE  Shifted => Shifted'
  BY DEF Shifted, LastAt, LastX, LastY

LEMMA InitLastInv == Init => LastInv
  BY DEF Init, LastInv, AtRest, AtTest, AtIdle, AtLoadX, AtStoreX, AtLoadY, AtStoreY,
         AtClosing, Waiting, Answered, Removing

(* A touch that is not lost becomes the last entry, and what is moved then *)
(* is not the last.                                                        *)
LEMMA StoreKeepsLast ==
    ASSUME IndexInv, LastInv, NEW c \in Coords, Store(c), ~posLost'
    PROVE  LastParts'
  <1>0. CountInv /\ DataTypes BY InvParts
  <1>1. ~posLost /\ icountp # Cap /\ ~Window
    BY DEF Store
  <1>2. /\ pxxx' = [pxxx EXCEPT ![icountp] = c[2]]
        /\ pyyy' = [pyyy EXCEPT ![icountp] = c[1]]
        /\ icountp' = icountp + 1 /\ icountp \in 0 .. Cap - 1
        /\ lastTouch' = <<Low16(c[2]), Low16(c[1])>>
        /\ UNCHANGED <<ppc, pix, preg, pos, wantPos, hadPos>>
    BY <1>0, <1>1 DEF Store, CountInv, getter
  <1>3. /\ pxxx'[icountp] = c[2] /\ pyyy'[icountp] = c[1]
        /\ icountp' - 1 = icountp
    BY <1>0, <1>2 DEF DataTypes
  <1>4. ppc \in {"load_x", "store_x", "load_y", "store_y"} => pix <= icountp /\ pix \in Nat
    BY <1>0 DEF CountInv
  <1>5. ppc \notin Removing /\ (ppc \in {"store_x", "load_y", "store_y"} => pix # icountp)
    BY <1>1 DEF Window, Removing
  <1>6. LastAt(icountp - 1)'
    BY <1>2, <1>3 DEF LastAt, LastX, LastY
  <1>7. AtRest' /\ AtTest' /\ AtClosing'
    BY <1>2, <1>5, <1>6 DEF AtRest, AtTest, AtClosing, Waiting
  <1>8. AtIdle'
    BY <1>1, <1>2 DEF LastInv, AtIdle
  <1>9. AtLoadX'
    BY <1>2, <1>4, <1>6 DEF AtLoadX, Moving
  <1>10. AtStoreX' /\ AtLoadY' /\ AtStoreY'
    <2>1. ppc \in {"store_x", "load_y", "store_y"} =>
              Moving' /\ pix' # icountp' - 1
      BY <1>2, <1>4, <1>5 DEF Moving
    <2> QED BY <1>2, <1>6, <2>1 DEF AtStoreX, AtLoadY, AtStoreY
  <1> QED BY <1>7, <1>8, <1>9, <1>10 DEF LastParts

(* getPos, one access at a time.                                           *)
LEMMA StepKeepsLast ==
    ASSUME IndexInv, LastInv, Cap >= 3, Call \/ Step, ~posLost'
    PROVE  LastParts'
  <1> USE DEF queue, getter, history
  <1>0. CountInv /\ DataTypes BY InvParts
  <1>1. ~posLost /\ lastTouch' = lastTouch
    BY DEF Call, Step, TestEmpty, TestMore, Return, LoadX, StoreX, LoadY, StoreY,
           LoadCount, ClearX, ClearY, Decrement
  <1>2. LastParts
    BY <1>1 DEF LastInv, LastParts
  <1>3. /\ icountp \in 0 .. Cap /\ pix \in 1 .. Cap /\ preg \in Int
        /\ ppc \in Shifting \cup Removing => icountp > 0
        /\ ppc \in {"load_x", "store_x", "load_y", "store_y"} => pix <= icountp
        /\ pxxx \in [0 .. Cap - 1 -> Int] /\ pyyy \in [0 .. Cap - 1 -> Int]
        /\ lastTouch \in Int \X Int
    BY <1>0 DEF CountInv, DataTypes
  <1> USE DEF LastParts
  <1>4. CASE Call
    BY <1>1, <1>2, <1>4 DEF Call, AtRest, AtTest, AtIdle, AtLoadX, AtStoreX, AtLoadY,
       AtStoreY, AtClosing, Waiting, LastAt, LastX, LastY, Answered, Removing
  <1>5. CASE TestEmpty
    BY <1>1, <1>2, <1>3, <1>5 DEF TestEmpty, AtRest, AtTest, AtIdle, AtLoadX, AtStoreX,
       AtLoadY, AtStoreY, AtClosing, Waiting, LastAt, LastX, LastY, Answered, Removing
  <1>6. CASE TestMore
    BY <1>1, <1>2, <1>6 DEF TestMore, AtRest, AtTest, AtIdle, AtLoadX, AtStoreX,
       AtLoadY, AtStoreY, AtClosing, Waiting, LastAt, LastX, LastY, Removing
  <1>7. CASE Return
    <2>1. /\ ppc = "return" /\ ppc' = "load_x" /\ pix' = 1 /\ icountp > 0
          /\ pos' = <<Low16(pxxx[0]), Low16(pyyy[0])>>
          /\ UNCHANGED <<pxxx, pyyy, icountp>>
      BY <1>3, <1>7 DEF Return, Shifting
    <2>2. LastAt(icountp - 1) /\ LastAt(icountp - 1)'
      BY <1>1, <1>2, <2>1 DEF AtRest, Waiting, LastAt, LastX, LastY
    <2>3. CASE icountp = 1
      <3>1. pos' = <<lastTouch[1], lastTouch[2]>>
        BY <2>1, <2>2, <2>3 DEF LastAt, LastX, LastY
      <3>2. pos' = lastTouch'
        BY <1>1, <1>3, <3>1, PairEqual
      <3> QED BY <2>1, <2>3, <3>2 DEF AtRest, AtTest, AtIdle, AtLoadX, AtStoreX,
              AtLoadY, AtStoreY, AtClosing, Moving, Shifted, Removing
    <2>4. CASE icountp > 1
      BY <2>1, <2>2, <2>4 DEF AtRest, AtTest, AtIdle, AtLoadX, AtStoreX,
         AtLoadY, AtStoreY, AtClosing, Moving, Removing
    <2> QED BY <1>3, <2>1, <2>3, <2>4
  <1>8. CASE LoadX
    <2>1. /\ ppc = "load_x" /\ ppc' = "store_x" /\ pix <= icountp
          /\ pix < Cap => preg' = pxxx[pix]
          /\ UNCHANGED <<pxxx, pyyy, icountp, pix, pos>>
      BY <1>3, <1>8 DEF LoadX
    <2>2. IF Moving THEN LastAt(icountp - 1) ELSE Shifted
      BY <1>2, <2>1 DEF AtLoadX
    <2>3. Moving' <=> Moving
      BY <2>1 DEF Moving
    <2>4. (Shifted => Shifted') /\ (LastAt(icountp - 1) => LastAt(icountp - 1)')
      BY <1>1, <2>1, ShiftedKept, LastKept
    <2>5. ASSUME Moving, pix = icountp - 1, LastAt(icountp - 1)
          PROVE  Low16(preg') = lastTouch[1]
      <3>1. preg' = pxxx[icountp - 1]
        BY <1>3, <2>1, <2>5
      <3> QED BY <2>5, <3>1 DEF LastAt, LastX
    <2>6. AtStoreX'
      BY <1>1, <2>1, <2>2, <2>3, <2>4, <2>5 DEF AtStoreX
    <2> QED BY <2>1, <2>6 DEF AtRest, AtTest, AtIdle, AtLoadX, AtLoadY, AtStoreY,
            AtClosing, Removing
  <1>9. CASE StoreX
    <2>1. /\ ppc = "store_x" /\ ppc' = "load_y" /\ pix <= icountp /\ icountp > 0
          /\ pxxx'[pix - 1] = preg
          /\ \A i \in 0 .. Cap - 1 : i # pix - 1 => pxxx'[i] = pxxx[i]
          /\ UNCHANGED <<pyyy, icountp, pix, pos>>
      BY <1>3, <1>9 DEF StoreX, Shifting
    <2>2. CASE Moving
      <3>1. /\ LastAt(icountp - 1)
            /\ pix = icountp - 1 => Low16(preg) = lastTouch[1]
        BY <1>2, <2>1, <2>2 DEF AtStoreX
      <3>2. LastAt(icountp - 1)'
        <4>1. icountp - 1 # pix - 1 /\ icountp - 1 \in 0 .. Cap - 1
          BY <1>3, <2>1, <2>2 DEF Moving
        <4> QED BY <1>1, <2>1, <3>1, <4>1, LastKept
      <3>3. ASSUME pix = icountp - 1
            PROVE  LastX(icountp - 2)'
        <4>1. pix - 1 = icountp - 2 /\ Low16(preg) = lastTouch[1]
          BY <1>3, <3>1, <3>3
        <4>2. pxxx'[icountp' - 2] = preg
          BY <2>1, <4>1
        <4> QED BY <1>1, <4>1, <4>2 DEF LastX
      <3>4. AtLoadY'
        BY <2>1, <2>2, <3>2, <3>3 DEF AtLoadY, Moving, LastX
      <3> QED BY <2>1, <3>4 DEF AtRest, AtTest, AtIdle, AtLoadX, AtStoreX, AtStoreY,
              AtClosing, Removing
    <2>3. CASE ~Moving
      <3>1. Shifted /\ pix = icountp
        BY <1>2, <1>3, <2>1, <2>3 DEF AtStoreX, Moving
      <3>2. Shifted'
        <4>1. icountp # 1 => icountp - 2 # pix - 1 /\ icountp - 2 \in 0 .. Cap - 1
          BY <1>3, <2>1, <3>1
        <4> QED BY <1>1, <2>1, <3>1, <4>1, ShiftedKept
      <3>3. AtLoadY'
        BY <2>1, <2>3, <3>2 DEF AtLoadY, Moving
      <3> QED BY <2>1, <3>3 DEF AtRest, AtTest, AtIdle, AtLoadX, AtStoreX, AtStoreY,
              AtClosing, Removing
    <2> QED BY <2>2, <2>3
  <1>10. CASE LoadY
    <2>1. /\ ppc = "load_y" /\ ppc' = "store_y" /\ pix <= icountp
          /\ pix < Cap => preg' = pyyy[pix]
          /\ UNCHANGED <<pxxx, pyyy, icountp, pix, pos>>
      BY <1>3, <1>10 DEF LoadY
    <2>2. IF ~Moving THEN Shifted
          ELSE LastAt(icountp - 1) /\ (pix = icountp - 1 => LastX(icountp - 2))
      BY <1>2, <2>1 DEF AtLoadY
    <2>3. (Moving' <=> Moving) /\ (LastX(icountp - 2) => LastX(icountp - 2)')
      BY <1>1, <2>1 DEF Moving, LastX
    <2>4. (Shifted => Shifted') /\ (LastAt(icountp - 1) => LastAt(icountp - 1)')
      BY <1>1, <2>1, ShiftedKept, LastKept
    <2>5. ASSUME Moving, pix = icountp - 1, LastAt(icountp - 1)
          PROVE  Low16(preg') = lastTouch[2]
      <3>1. preg' = pyyy[icountp - 1]
        BY <1>3, <2>1, <2>5
      <3> QED BY <2>5, <3>1 DEF LastAt, LastY
    <2>6. AtStoreY'
      BY <1>1, <2>1, <2>2, <2>3, <2>4, <2>5 DEF AtStoreY
    <2> QED BY <2>1, <2>6 DEF AtRest, AtTest, AtIdle, AtLoadX, AtLoadY, AtStoreX,
            AtClosing, Removing
  <1>11. CASE StoreY
    <2>1. /\ ppc = "store_y" /\ pix <= icountp /\ icountp > 0
          /\ pyyy'[pix - 1] = preg
          /\ \A i \in 0 .. Cap - 1 : i # pix - 1 => pyyy'[i] = pyyy[i]
          /\ IF pix + 1 <= icountp THEN ppc' = "load_x" /\ pix' = pix + 1
                                   ELSE ppc' = "clr_x_ix"
          /\ UNCHANGED <<pxxx, icountp, pos>>
      BY <1>3, <1>11 DEF StoreY, Shifting
    <2>2. CASE Moving
      <3>0. ppc' = "load_x" /\ pix' = pix + 1 /\ pix < icountp
        BY <1>3, <2>1, <2>2 DEF Moving
      <3>1. /\ LastAt(icountp - 1)
            /\ pix = icountp - 1 => LastX(icountp - 2) /\ Low16(preg) = lastTouch[2]
        BY <1>2, <2>1, <2>2 DEF AtStoreY
      <3>2. LastAt(icountp - 1)'
        <4>1. icountp - 1 # pix - 1 /\ icountp - 1 \in 0 .. Cap - 1
          BY <1>3, <2>1, <3>0
        <4> QED BY <1>1, <2>1, <3>1, <4>1, LastKept
      <3>3. ASSUME pix = icountp - 1
            PROVE  LastAt(icountp - 2)' /\ icountp # 1
        <4>1. icountp # 1 /\ pix - 1 = icountp - 2
          BY <1>3, <3>3
        <4>2. Low16(pxxx[icountp - 2]) = lastTouch[1] /\ Low16(preg) = lastTouch[2]
          BY <3>1, <3>3 DEF LastX
        <4>3. /\ pxxx'[icountp' - 2] = pxxx[icountp - 2]
              /\ pyyy'[icountp' - 2] = preg
          BY <2>1, <4>1
        <4> QED BY <1>1, <4>1, <4>2, <4>3 DEF LastAt, LastX, LastY
      <3>4. ~Moving' => pix = icountp - 1
        BY <1>3, <2>1, <3>0 DEF Moving
      <3>5. ~Moving' => Shifted'
        BY <2>1, <3>3, <3>4 DEF Shifted
      <3>6. AtLoadX'
        BY <3>2, <3>5 DEF AtLoadX
      <3> QED BY <3>0, <3>6 DEF AtRest, AtTest, AtIdle, AtStoreX, AtLoadY, AtStoreY,
              AtClosing, Removing
    <2>3. CASE ~Moving
      <3>1. Shifted /\ pix = icountp
        BY <1>2, <1>3, <2>1, <2>3 DEF AtStoreY, Moving
      <3>2. ppc' = "clr_x_ix"
        BY <1>3, <2>1, <3>1
      <3>3. Shifted'
        <4>1. icountp # 1 => icountp - 2 # pix - 1 /\ icountp - 2 \in 0 .. Cap - 1
          BY <1>3, <2>1, <3>1
        <4> QED BY <1>1, <2>1, <3>1, <4>1, ShiftedKept
      <3> QED BY <3>2, <3>3 DEF AtRest, AtTest, AtIdle, AtLoadX, AtStoreX, AtLoadY, AtStoreY,
              AtClosing, Removing
    <2> QED BY <2>2, <2>3
  <1>12. CASE LoadCount
    <2>1. /\ ppc \in Removing /\ ppc' \in {"clr_x", "clr_y", "dec"} /\ preg' = icountp
          /\ UNCHANGED <<pxxx, pyyy, icountp, pos>>
      BY <1>12 DEF LoadCount, Removing
    <2>2. Shifted'
      BY <1>1, <1>2, <2>1, ShiftedKept DEF AtClosing
    <2> QED BY <2>1, <2>2 DEF AtRest, AtTest, AtIdle, AtLoadX, AtStoreX, AtLoadY,
            AtStoreY, AtClosing, Removing
  <1>13. CASE ClearX
    <2>1. /\ ppc = "clr_x" /\ ppc' = "clr_y_ix" /\ icountp > 0
          /\ IF preg < Cap
             THEN pxxx' = [pxxx EXCEPT ![preg] = 0] /\ pyyy' = pyyy
             ELSE pyyy' = [pyyy EXCEPT ![0] = 0] /\ pxxx' = pxxx
          /\ UNCHANGED <<icountp, pos>>
      BY <1>3, <1>13 DEF ClearX, Removing
    <2>2. Shifted /\ preg = icountp
      BY <1>2, <2>1 DEF AtClosing, Removing
    <2>3. icountp # 1 => /\ pxxx'[icountp - 2] = pxxx[icountp - 2]
                         /\ pyyy'[icountp - 2] = pyyy[icountp - 2]
      BY <1>3, <2>1, <2>2
    <2>4. Shifted'
      BY <1>1, <2>1, <2>2, <2>3, ShiftedKept
    <2> QED BY <2>1, <2>4 DEF AtRest, AtTest, AtIdle, AtLoadX, AtStoreX, AtLoadY,
            AtStoreY, AtClosing, Removing
  <1>14. CASE ClearY
    <2>1. /\ ppc = "clr_y" /\ ppc' = "dec_ix" /\ icountp > 0
          /\ pyyy' = IF preg < Cap THEN [pyyy EXCEPT ![preg] = 0] ELSE pyyy
          /\ UNCHANGED <<pxxx, icountp, pos>>
      BY <1>3, <1>14 DEF ClearY, Removing
    <2>2. Shifted /\ preg = icountp
      BY <1>2, <2>1 DEF AtClosing, Removing
    <2>3. icountp # 1 => pyyy'[icountp - 2] = pyyy[icountp - 2]
      BY <1>3, <2>1, <2>2
    <2>4. Shifted'
      BY <1>1, <2>1, <2>2, <2>3, ShiftedKept
    <2> QED BY <2>1, <2>4 DEF AtRest, AtTest, AtIdle, AtLoadX, AtStoreX, AtLoadY,
            AtStoreY, AtClosing, Removing
  <1>15. CASE Decrement
    <2>1. /\ ppc = "dec" /\ ppc' = "test" /\ icountp' = preg - 1
          /\ UNCHANGED <<pxxx, pyyy, pos>>
      BY <1>15 DEF Decrement
    <2>2. Shifted /\ preg = icountp /\ icountp > 0
      BY <1>2, <1>3, <2>1 DEF AtClosing, Removing
    <2>3. Waiting' /\ (icountp' = 0 => Answered')
      BY <1>1, <1>3, <2>1, <2>2 DEF Waiting, Answered, Shifted, LastAt, LastX, LastY
    <2> QED BY <2>1, <2>3 DEF AtRest, AtTest, AtIdle, AtLoadX, AtStoreX, AtLoadY,
            AtStoreY, AtClosing, Removing
  <1> QED BY <1>4, <1>5, <1>6, <1>7, <1>8, <1>9, <1>10, <1>11, <1>12, <1>13, <1>14,
             <1>15 DEF Step

LEMMA NextLastInv == Cap >= 3 /\ IndexInv /\ LastInv /\ [Next]_vars => LastInv'
  <1> SUFFICES ASSUME Cap >= 3, IndexInv, LastInv, [Next]_vars, ~posLost' PROVE LastParts'
    BY DEF LastInv, LastParts
  <1>1. CASE Call \/ Step
    BY <1>1, StepKeepsLast
  <1>2. CASE \E c \in Coords : Store(c)
    BY <1>2, StoreKeepsLast
  <1>3. CASE (\E on \in BOOLEAN : SetActive(on)) \/ UNCHANGED vars
    <2>1. UNCHANGED <<pxxx, pyyy, icountp, ppc, pix, preg, pos, lastTouch, wantPos,
                      hadPos, posLost>>
      BY <1>3 DEF SetActive, vars, queue, getter, history
    <2> QED BY <2>1 DEF LastInv, LastParts, AtRest, AtTest, AtIdle, AtLoadX, AtStoreX,
            AtLoadY, AtStoreY, AtClosing, Waiting, Answered, Moving, Shifted, LastAt,
            LastX, LastY
  <1> QED BY <1>1, <1>2, <1>3 DEF Next

(* ReturnsLastTouch: getPos returns the latest touch, wherever the handler *)
(* cuts in, unless a touch met a full queue or fell into Window, for every *)
(* size of three entries or more (of 16 in the code).                      *)
THEOREM LastTouchReturned == Cap >= 3 => (Spec => []ReturnsLastTouch)
  <1> SUFFICES ASSUME Cap >= 3 PROVE Spec => []ReturnsLastTouch
    OBVIOUS
  <1>1. LastInv => ReturnsLastTouch
    BY DEF LastInv, AtIdle, ReturnsLastTouch
  <1>2. IndexInv /\ LastInv /\ [Next]_vars => LastInv'
    BY NextLastInv
  <1> QED BY <1>1, <1>2, InitLastInv, IndexInvariant, PTL DEF Spec
=============================================================================
