-------------------------- MODULE ScreenPagesProofs --------------------------
(***************************************************************************)
(* The pages implement a stack of pictures, for every number of pages and  *)
(* every screen. The invariant is the type invariant: in it, the pages     *)
(* below vpagescr are the stack, and covers has an area for each.          *)
(***************************************************************************)
EXTENDS ScreenPages, SequenceTheorems, TLAPS

LEMMA DepthFacts == Depth \in Nat /\ Depth >= 1 /\ Depth <= 254
BY ScreenPagesAssumption

(* Copying a part of one picture over another gives a picture.             *)
LEMMA CopyType ==
    ASSUME NEW area, NEW over \in [Cells -> Inks], NEW old \in [Cells -> Inks]
    PROVE  Copy(area, over, old) \in [Cells -> Inks]
BY DEF Copy

(* In a typed state, the page that RestoreScreen copies from exists, and   *)
(* is vpagescr - 1: the decrement does not wrap.                           *)
LEMMA PageBelowFacts ==
    ASSUME TypeOKPages
    PROVE  PageBelow = vpagescr - 1 /\ PageBelow \in 0 .. Depth
<1>1. vpagescr \in Nat /\ 1 <= vpagescr /\ vpagescr <= Depth + 1
      BY DepthFacts DEF TypeOKPages
<1>2. vpagescr - 1 \in 0 .. 255
      BY <1>1, DepthFacts
<1>3. (vpagescr - 1) % 256 = vpagescr - 1
      BY <1>2
<1> QED BY <1>1, <1>3, DepthFacts DEF PageBelow

LEMMA RequestFacts ==
    /\ <<"none", {}>> \in Requests /\ <<"draw", {}>> \in Requests
    /\ \A area \in SUBSET Cells :
         <<"save", area>> \in Requests /\ <<"restore", area>> \in Requests
BY DEF Requests

-----------------------------------------------------------------------------
LEMMA InitType == InitPages => TypeOKPages
<1> SUFFICES ASSUME InitPages PROVE TypeOKPages
    OBVIOUS
<1>1. vpagescr \in 1 .. Depth + 1
      BY DepthFacts DEF InitPages
<1>2. covers = <<>> /\ covers \in Seq(SUBSET Cells) /\ Len(covers) = vpagescr - 1
      BY DEF InitPages
<1>3. request \in Requests
      BY RequestFacts DEF InitPages
<1> QED BY <1>1, <1>2, <1>3 DEF InitPages, TypeOKPages

LEMMA DrawType ==
    ASSUME TypeOKPages, NEW picture \in [Cells -> Inks], DrawOver(picture)
    PROVE  TypeOKPages'
<1>1. request' \in Requests
      BY RequestFacts DEF DrawOver
<1> QED BY <1>1, DepthFacts DEF TypeOKPages, DrawOver

LEMMA SaveType ==
    ASSUME TypeOKPages, NEW area \in SUBSET Cells, SaveScreen(area)
    PROVE  TypeOKPages'
<1>0. request' \in Requests
      BY RequestFacts DEF SaveScreen
<1>1. CASE PageFree
  <2>1. vpagescr \in 1 .. Depth
        BY <1>1, DepthFacts DEF TypeOKPages, PageFree
  <2>2. Copy(area, Shown, video[vpagescr]) \in [Cells -> Inks]
    <3>1. Shown \in [Cells -> Inks] /\ video[vpagescr] \in [Cells -> Inks]
          BY <2>1, DepthFacts DEF TypeOKPages, Shown
    <3> QED BY <3>1, CopyType
  <2>3. video' \in [0 .. Depth -> [Cells -> Inks]]
        BY <1>1, <2>2 DEF TypeOKPages, SaveScreen
  <2>4. vpagescr' \in 1 .. Depth + 1
        BY <1>1, <2>1, DepthFacts DEF SaveScreen, NextPage
  <2>5. covers' \in Seq(SUBSET Cells) /\ Len(covers') = Len(covers) + 1
        BY <1>1, AppendProperties DEF TypeOKPages, SaveScreen
  <2>6. Len(covers') = vpagescr' - 1
        BY <1>1, <2>1, <2>5, DepthFacts DEF TypeOKPages, SaveScreen, NextPage
  <2> QED BY <1>0, <2>3, <2>4, <2>5, <2>6 DEF TypeOKPages
<1>2. CASE ~PageFree
      BY <1>0, <1>2 DEF TypeOKPages, SaveScreen, memory
<1> QED BY <1>1, <1>2

LEMMA RestoreType ==
    ASSUME TypeOKPages, NEW area \in SUBSET Cells, RestoreScreen(area)
    PROVE  TypeOKPages'
<1>0. request' \in Requests
      BY RequestFacts DEF RestoreScreen
<1>1. Copy(area, video[PageBelow], Shown) \in [Cells -> Inks]
  <2>1. Shown \in [Cells -> Inks] /\ video[PageBelow] \in [Cells -> Inks]
        BY PageBelowFacts, DepthFacts DEF TypeOKPages, Shown
  <2> QED BY <2>1, CopyType
<1>2. video' \in [0 .. Depth -> [Cells -> Inks]]
      BY <1>1 DEF TypeOKPages, RestoreScreen, Shown
<1>3. vpagescr \in Int /\ vpagescr >= 1 /\ vpagescr <= Depth + 1
      BY DepthFacts DEF TypeOKPages
<1>4. CASE vpagescr = 1
  <2>1. vpagescr' = 1
        BY <1>4, PageBelowFacts DEF RestoreScreen
  <2>2. covers = <<>>
        BY <1>4, EmptySeq DEF TypeOKPages
  <2>3. covers' = <<>>
        BY <2>2, SubSeqEmpty, EmptySeq DEF RestoreScreen
  <2> QED BY <1>0, <1>2, <2>1, <2>3, <1>4, EmptySeq, DepthFacts DEF TypeOKPages
<1>5. CASE vpagescr > 1
  <2>1. vpagescr' = vpagescr - 1
        BY <1>3, <1>5, PageBelowFacts DEF RestoreScreen
  <2>2. covers' = SubSeq(covers, 1, Len(covers) - 1)
        BY DEF RestoreScreen
  <2>3. covers' \in Seq(SUBSET Cells) /\ Len(covers') = Len(covers) - 1
        BY <1>3, <1>5, <2>2, SubSeqProperties DEF TypeOKPages
  <2> QED BY <1>0, <1>2, <1>3, <1>5, <2>1, <2>3, DepthFacts DEF TypeOKPages
<1> QED BY <1>3, <1>4, <1>5

LEMMA StepType == TypeOKPages /\ [NextPages]_pages => TypeOKPages'
<1> SUFFICES ASSUME TypeOKPages, [NextPages]_pages PROVE TypeOKPages'
    OBVIOUS
<1>1. CASE \E picture \in [Cells -> Inks] : DrawOver(picture)
      BY <1>1, DrawType
<1>2. CASE \E area \in SUBSET Cells : SaveScreen(area) \/ RestoreScreen(area)
      BY <1>2, SaveType, RestoreType
<1>3. CASE UNCHANGED pages
      BY <1>3 DEF TypeOKPages, pages, memory
<1> QED BY <1>1, <1>2, <1>3 DEF NextPages

(* vpagescr stays within 1 .. Depth + 1 and never wraps, and every page    *)
(* holds a picture: SaveScreen and RestoreScreen stay within the pages     *)
(* that are not the keyboard's.                                            *)
THEOREM TypeCorrect == SpecPages => []TypeOKPages
<1> QED BY InitType, StepType, PTL DEF SpecPages

-----------------------------------------------------------------------------
(* The stack that the pages stand for.                                     *)
Saved == [p \in 1 .. vpagescr - 1 |-> [c \in covers[p] |-> video[p][c]]]

LEMMA SavedFacts ==
    ASSUME TypeOKPages
    PROVE  /\ vpagescr - 1 \in Nat
           /\ Len(Saved) = vpagescr - 1
           /\ Shown \in [Cells -> Inks]
           /\ \A p \in 1 .. vpagescr - 1 : p \in 1 .. Depth /\ covers[p] \in SUBSET Cells
<1>1. vpagescr - 1 \in Nat /\ vpagescr - 1 <= Depth
      BY DepthFacts DEF TypeOKPages
<1>2. Len(Saved) = vpagescr - 1
      BY <1>1 DEF Saved
<1>3. \A p \in 1 .. vpagescr - 1 : p \in 1 .. Depth /\ covers[p] \in SUBSET Cells
      BY <1>1, DepthFacts, ElementOfSeq DEF TypeOKPages
<1>4. Shown \in [Cells -> Inks]
      BY DepthFacts DEF TypeOKPages, Shown
<1> QED BY <1>1, <1>2, <1>3, <1>4

LEMMA InitMaps == InitPages => Stack!Init
<1> SUFFICES ASSUME InitPages PROVE Stack!Init
    OBVIOUS
<1>1. Shown \in [Cells -> Inks]
      BY InitType, SavedFacts
<1>2. Saved = <<>>
      BY DEF InitPages, Saved
<1>3. request = <<"none", {}>>
      BY DEF InitPages
<1> QED BY <1>1, <1>2, <1>3 DEF Stack!Init, Saved

LEMMA DrawMaps ==
    ASSUME TypeOKPages, NEW picture \in [Cells -> Inks], DrawOver(picture)
    PROVE  Stack!Draw
<1>1. Shown' \in [Cells -> Inks]
      BY DepthFacts DEF TypeOKPages, DrawOver, Shown
<1>2. \A p \in 1 .. vpagescr - 1 : video'[p] = video[p]
      BY SavedFacts, DepthFacts DEF TypeOKPages, DrawOver
<1>3. Saved' = Saved
      BY <1>2 DEF DrawOver, Saved
<1>4. request' = <<"draw", {}>>
      BY DEF DrawOver
<1> QED BY <1>1, <1>3, <1>4 DEF Stack!Draw, Saved

LEMMA SaveMaps ==
    ASSUME TypeOKPages, NEW area \in SUBSET Cells, SaveScreen(area)
    PROVE  Stack!Save(area)
<1> DEFINE n == vpagescr - 1
<1>1. n \in Nat /\ n <= Depth /\ Len(Saved) = n /\ vpagescr = n + 1
      BY SavedFacts, DepthFacts DEF TypeOKPages
<1>0. request' = <<"save", area>>
      BY DEF SaveScreen
<1>2. CASE PageFree
  <2>1. n < Depth /\ vpagescr \in 1 .. Depth
        BY <1>1, <1>2, DepthFacts DEF PageFree
  <2>2. /\ video' = [video EXCEPT ![vpagescr] = Copy(area, Shown, video[vpagescr])]
        /\ vpagescr' = n + 2 /\ covers' = Append(covers, area)
        BY <1>1, <1>2 DEF SaveScreen, NextPage
  <2>3. Shown' = Shown
        BY <2>1, <2>2, DepthFacts DEF TypeOKPages, Shown
  <2>4. \A p \in 1 .. n : covers'[p] = covers[p] /\ video'[p] = video[p]
        BY <1>1, <2>1, <2>2, AppendProperties, DepthFacts DEF TypeOKPages
  <2>5. covers'[n + 1] = area
        BY <1>1, <2>2, AppendProperties DEF TypeOKPages
  <2>6. \A c \in area : video'[n + 1][c] = Shown[c]
        BY <1>1, <2>1, <2>2, DepthFacts DEF TypeOKPages, Copy
  <2>7. Saved' = [p \in 1 .. n + 1 |-> [c \in covers'[p] |-> video'[p][c]]]
    <3>1. vpagescr' - 1 = n + 1
          BY <1>1, <2>2
    <3> HIDE DEF n
    <3> QED BY <3>1 DEF Saved
  <2>8. Saved' = Append(Saved, [c \in area |-> Shown[c]])
    <3>1. Append(Saved, [c \in area |-> Shown[c]])
            = [p \in 1 .. n + 1 |-> IF p = n + 1 THEN [c \in area |-> Shown[c]]
                                                 ELSE Saved[p]]
          BY <1>1 DEF Saved
    <3>2. \A p \in 1 .. n : Saved[p] = [c \in covers'[p] |-> video'[p][c]]
          BY <1>1, <2>4 DEF Saved
    <3>3. [c \in covers'[n + 1] |-> video'[n + 1][c]] = [c \in area |-> Shown[c]]
          BY <2>5, <2>6
    <3>4. Saved' = [p \in 1 .. n + 1 |-> IF p = n + 1 THEN [c \in area |-> Shown[c]]
                                                    ELSE Saved[p]]
      <4>1. \A p \in 1 .. n + 1 : p = n + 1 \/ p \in 1 .. n
            BY <1>1
      <4> HIDE DEF n
      <4> QED BY <2>7, <3>2, <3>3, <4>1
    <3> QED BY <3>1, <3>4
  <2> QED BY <1>0, <1>1, <2>1, <2>3, <2>8 DEF Stack!Save, Saved
<1>3. CASE ~PageFree
  <2>1. ~(Len(Saved) < Depth)
        BY <1>1, <1>3, DepthFacts DEF PageFree
  <2>2. Saved' = Saved /\ Shown' = Shown
        BY <1>3 DEF SaveScreen, memory, Saved, Shown
  <2> QED BY <1>0, <2>1, <2>2 DEF Stack!Save, Saved
<1> QED BY <1>2, <1>3

LEMMA RestoreMaps ==
    ASSUME TypeOKPages, NEW area \in SUBSET Cells, RestoreScreen(area)
    PROVE  Stack!Restore(area)
<1> DEFINE n == vpagescr - 1
<1>1. /\ n \in Nat /\ n <= Depth /\ Len(Saved) = n /\ vpagescr = n + 1
      /\ Shown \in [Cells -> Inks] /\ Len(covers) = n
      BY SavedFacts, DepthFacts DEF TypeOKPages
<1>2. /\ video' = [video EXCEPT ![0] = Copy(area, video[n], Shown)]
      /\ vpagescr' = IF n < 1 THEN 1 ELSE n
      /\ covers' = SubSeq(covers, 1, n - 1)
      BY <1>1, PageBelowFacts DEF RestoreScreen, Shown
<1>0. request' = <<"restore", area>>
      BY DEF RestoreScreen
<1>3. Shown' = Copy(area, video[n], Shown) /\ Shown' \in [Cells -> Inks]
      BY <1>2, RestoreType, SavedFacts, DepthFacts DEF TypeOKPages, Shown
<1>4. CASE n = 0
  <2>1. Saved = <<>> /\ Saved' = <<>>
        BY <1>1, <1>2, <1>4 DEF Saved
  <2>2. Shown' = Shown
        BY <1>1, <1>3, <1>4 DEF Copy, Shown
  <2> QED BY <1>0, <2>1, <2>2 DEF Stack!Restore, Saved
<1>5. CASE n > 0
  <2>1. Saved # <<>> /\ Saved[Len(Saved)] = [c \in covers[n] |-> video[n][c]]
        BY <1>1, <1>5 DEF Saved
  <2>2. covers[n] \subseteq Cells
        BY <1>1, <1>5, SavedFacts
  <2>3. \A c \in Cells : c \notin area => Shown'[c] = Shown[c]
        BY <1>3 DEF Copy
  <2>4. \A c \in area \cap covers[n] : Shown'[c] = video[n][c]
        BY <1>3, <2>2 DEF Copy
  <2>5. \A p \in 1 .. n - 1 : covers'[p] = covers[p] /\ video'[p] = video[p]
        BY <1>1, <1>2, <1>5, DepthFacts DEF TypeOKPages
  <2>6. Saved' = [p \in 1 .. n - 1 |-> Saved[p]]
        BY <1>1, <1>2, <1>5, <2>5 DEF Saved
  <2>7. SubSeq(Saved, 1, Len(Saved) - 1) = [p \in 1 .. n - 1 |-> Saved[p]]
        BY <1>1, <1>5
  <2>8. Stack!Top = [c \in covers[n] |-> video[n][c]]
        BY <2>1 DEF Stack!Top, Saved
  <2> QED BY <1>0, <1>3, <2>1, <2>3, <2>4, <2>6, <2>7, <2>8 DEF Stack!Restore, Saved
<1> QED BY <1>1, <1>4, <1>5

(* SaveScreen and RestoreScreen keep what they promise: what is saved in a *)
(* page that is in use comes back, and RestoreScreen at page 1 does        *)
(* nothing, for every number of pages, every area and every drawing.       *)
THEOREM PagesImplementStack == SpecPages => ImplementsStack
<1>1. TypeOKPages /\ [NextPages]_pages => [Stack!Next]_(Stack!vars)
  <2> SUFFICES ASSUME TypeOKPages, [NextPages]_pages
               PROVE  Stack!Next \/ UNCHANGED Stack!vars
      OBVIOUS
  <2>1. CASE \E picture \in [Cells -> Inks] : DrawOver(picture)
        BY <2>1, DrawMaps DEF Stack!Next
  <2>2. CASE \E area \in SUBSET Cells : SaveScreen(area) \/ RestoreScreen(area)
        BY <2>2, SaveMaps, RestoreMaps DEF Stack!Next
  <2>3. CASE UNCHANGED pages
        BY <2>3 DEF pages, memory, Shown, Stack!vars
  <2> QED BY <2>1, <2>2, <2>3 DEF NextPages
<1> QED BY <1>1, InitMaps, TypeCorrect, PTL DEF SpecPages, ImplementsStack, Stack!Spec
=============================================================================
