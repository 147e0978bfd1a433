--------------------------- MODULE MgiPagesProofs ----------------------------
(***************************************************************************)
(* What windows, menu and programs cover comes back, for every screen,     *)
(* every number of pages and every way through the interface.              *)
(*                                                                         *)
(* IInv says where each open window has its page: windows are opened and   *)
(* closed like brackets, only windows save and restore while one is open,  *)
(* so the page of the w-th window from the top is the w-th below vpagescr, *)
(* unless a window over it found none (kept). SavedAreas says what area    *)
(* was saved in each page, and DeskInv what the desktop's page, the screen *)
(* and the pages of the windows show.                                      *)
(***************************************************************************)
EXTENDS MgiPages, ScreenPagesProofs

WindowRecord == [kind : Kinds, back : PC, kept : BOOLEAN, under : Pictures]

(* The control states in which a window is open.                           *)
WindowPC == {"draw_window", "window", "write", "reread", "close"}

Brackets ==
    /\ pc \in WindowPC <=> open # <<>>
    /\ \A w \in DOMAIN open :
         open[w].back \in IF w = 1 THEN {"desktop", "menu"} ELSE {"reread", "close"}

KeptAbove ==
    \A v, w \in DOMAIN open : v < w /\ open[v].kept => open[w].kept

PageOf(w) == vpagescr - 1 - (Len(open) - w)

UnderIsSaved ==
    \A w \in DOMAIN open :
        open[w].kept =>
            /\ PageOf(w) >= 1
            /\ \A c \in Area[open[w].kind] : video[PageOf(w)][c] = open[w].under[c]

IInv == TypeOK /\ Brackets /\ KeptAbove /\ UnderIsSaved

-----------------------------------------------------------------------------
(* What drawing, saving and restoring do to the pages.                     *)

LEMMA DrawStep ==
    ASSUME TypeOK, NEW area,
           NEW ink \in {"wallpaper", "bar", "menu", "window", "program", "hourglass"},
           Draw(area, ink)
    PROVE  /\ NextPages /\ TypeOKPages'
           /\ vpagescr' = vpagescr
           /\ \A p \in 1 .. Depth : video'[p] = video[p]
           /\ lostSave' \in BOOLEAN /\ menuItem' \in BOOLEAN
<1> DEFINE picture == Copy(area, [c \in Cells |-> ink], Shown)
<1>1. TypeOKPages /\ DrawOver(picture) /\ UNCHANGED <<lostSave, menuItem>>
      BY DEF TypeOK, Draw
<1>2. picture \in [Cells -> Inks]
  <2>1. ink \in Inks
        BY MgiPagesAssumption
  <2>2. [c \in Cells |-> ink] \in [Cells -> Inks] /\ Shown \in [Cells -> Inks]
        BY <1>1, <2>1, SavedFacts
  <2> QED BY <2>2, CopyType
<1>3. NextPages /\ TypeOKPages'
      BY <1>1, <1>2, DrawType DEF NextPages
<1>4. vpagescr' = vpagescr /\ \A p \in 1 .. Depth : video'[p] = video[p]
      BY <1>1, DepthFacts DEF DrawOver, TypeOKPages
<1>5. lostSave' \in BOOLEAN /\ menuItem' \in BOOLEAN
      BY <1>1 DEF TypeOK
<1> QED BY <1>3, <1>4, <1>5

LEMMA SaveStep ==
    ASSUME TypeOK, NEW area \in SUBSET Cells, Save(area)
    PROVE  /\ NextPages /\ TypeOKPages'
           /\ PageFree => /\ vpagescr' = vpagescr + 1 /\ vpagescr \in 1 .. Depth
                          /\ \A c \in area : video'[vpagescr][c] = Shown[c]
           /\ \A p \in 1 .. vpagescr - 1 : video'[p] = video[p]
           /\ lostSave' \in BOOLEAN /\ menuItem' \in BOOLEAN
<1>1. TypeOKPages /\ SaveScreen(area)
      BY DEF TypeOK, Save
<1>2. NextPages /\ TypeOKPages'
      BY <1>1, SaveType DEF NextPages
<1>3. lostSave' \in BOOLEAN
      BY DEF TypeOK, Save
<1>4. menuItem' \in BOOLEAN
      BY DEF TypeOK, Save
<1>5. vpagescr \in Int /\ 1 <= vpagescr /\ vpagescr <= Depth + 1
      BY <1>1, DepthFacts DEF TypeOKPages
<1>6. CASE PageFree
  <2>1. vpagescr \in 1 .. Depth
        BY <1>5, <1>6, DepthFacts DEF PageFree
  <2>2. /\ video' = [video EXCEPT ![vpagescr] = Copy(area, Shown, video[vpagescr])]
        /\ vpagescr' = vpagescr + 1
        BY <1>1, <1>6 DEF SaveScreen, NextPage
  <2>3. \A c \in area : video'[vpagescr][c] = Shown[c]
        BY <1>1, <2>1, <2>2, DepthFacts DEF TypeOKPages, Copy
  <2>4. \A p \in 1 .. vpagescr - 1 : video'[p] = video[p]
        BY <1>1, <2>1, <2>2, DepthFacts DEF TypeOKPages
  <2> QED BY <1>2, <1>3, <1>4, <1>6, <2>1, <2>2, <2>3, <2>4
<1>7. CASE ~PageFree
  <2>1. UNCHANGED memory
        BY <1>1, <1>7 DEF SaveScreen
  <2> QED BY <1>2, <1>3, <1>4, <1>7, <2>1 DEF memory
<1> QED BY <1>6, <1>7

LEMMA RestoreStep ==
    ASSUME TypeOK, NEW area \in SUBSET Cells, Restore(area)
    PROVE  /\ NextPages /\ TypeOKPages'
           /\ vpagescr > 1 => vpagescr' = vpagescr - 1
           /\ \A p \in 1 .. Depth : video'[p] = video[p]
           /\ \A c \in area : video'[0][c] = video[vpagescr - 1][c]
           /\ lostSave' \in BOOLEAN
<1>1. TypeOKPages /\ RestoreScreen(area)
      BY DEF TypeOK, Restore
<1>2. NextPages /\ TypeOKPages'
      BY <1>1, RestoreType DEF NextPages
<1>3. lostSave' \in BOOLEAN
      BY DEF TypeOK, Restore
<1>4. /\ video' = [video EXCEPT ![0] = Copy(area, video[vpagescr - 1], video[0])]
      /\ vpagescr' = IF vpagescr - 1 < 1 THEN 1 ELSE vpagescr - 1
      BY <1>1, PageBelowFacts DEF RestoreScreen
<1>5. vpagescr > 1 => vpagescr' = vpagescr - 1
      BY <1>1, <1>4, DepthFacts DEF TypeOKPages
<1>6. /\ \A p \in 1 .. Depth : video'[p] = video[p]
      /\ \A c \in area : video'[0][c] = video[vpagescr - 1][c]
      BY <1>1, <1>4, DepthFacts DEF TypeOKPages, Copy
<1> QED BY <1>2, <1>3, <1>5, <1>6

-----------------------------------------------------------------------------
LEMMA InitInvariant == Init => IInv
<1> SUFFICES ASSUME Init PROVE IInv
    OBVIOUS
<1>1. TypeOKPages
      BY InitType DEF Init
<1>2. TypeOK
  <2>1. open \in Seq([kind : Kinds, back : PC, kept : BOOLEAN, under : Pictures])
        BY EmptySeq DEF Init
  <2>2. lostSave \in BOOLEAN /\ menuItem \in BOOLEAN
        BY DEF Init
  <2>3. pc \in PC
        BY DEF Init, PC
  <2> QED BY <1>1, <2>1, <2>2, <2>3 DEF TypeOK
<1>3. Brackets
      BY DEF Init, Brackets, WindowPC
<1> QED BY <1>2, <1>3 DEF Init, IInv, KeptAbove, UnderIsSaved

LEMMA OpenFacts ==
    ASSUME TypeOK
    PROVE  /\ Len(open) \in Nat /\ DOMAIN open = 1 .. Len(open)
           /\ open = <<>> <=> Len(open) = 0
           /\ \A w \in 1 .. Len(open) : open[w] \in WindowRecord
BY LenProperties, EmptySeq, ElementOfSeq DEF TypeOK, WindowRecord

(* A step that opens and closes no window keeps the invariant, if it does  *)
(* not touch the pages in use while a window is open.                      *)
LEMMA QuietStep ==
    ASSUME IInv, TypeOKPages', pc' \in PC, pc' \in WindowPC <=> pc \in WindowPC,
           UNCHANGED open, lostSave' \in BOOLEAN, menuItem' \in BOOLEAN,
           \/ pc \notin WindowPC
           \/ vpagescr' = vpagescr /\ \A p \in 1 .. Depth : video'[p] = video[p]
    PROVE  IInv'
<1>1. TypeOK'
      BY DEF IInv, TypeOK
<1>2. Brackets'
      BY DEF IInv, Brackets
<1>3. KeptAbove'
      BY DEF IInv, KeptAbove
<1>4. UnderIsSaved'
  <2>1. CASE pc \notin WindowPC
    <3>1. open' = <<>>
          BY <2>1 DEF IInv, Brackets
    <3> QED BY <3>1 DEF UnderIsSaved
  <2>2. CASE vpagescr' = vpagescr /\ \A p \in 1 .. Depth : video'[p] = video[p]
    <3>1. \A w \in DOMAIN open : PageOf(w)' = PageOf(w)
          BY <2>2 DEF PageOf
    <3>2. \A w \in DOMAIN open : PageOf(w) >= 1 => PageOf(w) \in 1 .. Depth
          BY OpenFacts, DepthFacts DEF IInv, TypeOK, TypeOKPages, PageOf
    <3> QED BY <2>2, <3>1, <3>2 DEF IInv, UnderIsSaved
  <2> QED BY <2>1, <2>2
<1> QED BY <1>1, <1>2, <1>3, <1>4 DEF IInv

-----------------------------------------------------------------------------
(* Opening and closing a window, as the list of windows sees it.           *)
LEMMA OpenedWindow ==
    ASSUME TypeOK, NEW kind \in Kinds, NEW from, NEW back \in PC,
           CWindow(kind, from, back)
    PROVE  /\ Save(Area[kind]) /\ Area[kind] \in SUBSET Cells
           /\ pc = from /\ pc' = "draw_window"
           /\ open' \in Seq(WindowRecord)
           /\ DOMAIN open' = 1 .. Len(open) + 1 /\ Len(open') = Len(open) + 1
           /\ \A w \in 1 .. Len(open) :
                /\ open'[w].kind = open[w].kind /\ open'[w].back = open[w].back
                /\ open'[w].under = open[w].under
                /\ (open'[w].kept <=> open[w].kept /\ PageFree)
           /\ LET new == open'[Len(open) + 1]
              IN  /\ new.kind = kind /\ new.back = back /\ new.kept = PageFree
                  /\ new.under = [c \in Area[kind] |-> Shown[c]]
<1> DEFINE n    == Len(open)
           old  == [w \in DOMAIN open |-> [open[w] EXCEPT !.kept = @ /\ PageFree]]
           new  == [kind |-> kind, back |-> back, kept |-> PageFree,
                    under |-> [c \in Area[kind] |-> Shown[c]]]
<1>1. Area[kind] \in SUBSET Cells /\ Save(Area[kind])
      BY MgiPagesAssumption DEF CWindow
<1>2. pc = from /\ pc' = "draw_window" /\ open' = Append(old, new)
      BY DEF CWindow, Goto
<1>3. n \in Nat /\ DOMAIN open = 1 .. n /\ \A w \in 1 .. n : open[w] \in WindowRecord
      BY OpenFacts
<1>4. PageFree \in BOOLEAN
      BY DEF PageFree
<1>5. new \in WindowRecord
  <2>1. Shown \in [Cells -> Inks]
        BY SavedFacts DEF TypeOK
  <2>2. [c \in Area[kind] |-> Shown[c]] \in [Area[kind] -> Inks]
        BY <1>1, <2>1
  <2>3. [c \in Area[kind] |-> Shown[c]] \in Pictures
        BY <1>1, <2>2 DEF Pictures
  <2> QED BY <1>4, <2>3 DEF WindowRecord
<1>6. \A w \in 1 .. n : /\ old[w] \in WindowRecord
                        /\ old[w].kind = open[w].kind /\ old[w].back = open[w].back
                        /\ old[w].under = open[w].under
                        /\ (old[w].kept <=> open[w].kept /\ PageFree)
      BY <1>3, <1>4 DEF WindowRecord
<1>7. old \in Seq(WindowRecord) /\ Len(old) = n
  <2>1. old \in [1 .. n -> WindowRecord]
        BY <1>3, <1>6
  <2> HIDE DEF old
  <2> QED BY <1>3, <2>1
<1>8. /\ open' \in Seq(WindowRecord) /\ Len(open') = n + 1
      /\ \A w \in 1 .. n : open'[w] = old[w]
      /\ open'[n + 1] = new
  <2> HIDE DEF old, new, n
  <2> QED BY <1>2, <1>5, <1>7, AppendProperties
<1>9. DOMAIN open' = 1 .. n + 1
      BY <1>3, <1>8
<1>10. \A w \in 1 .. n :
         /\ open'[w].kind = open[w].kind /\ open'[w].back = open[w].back
         /\ open'[w].under = open[w].under
         /\ (open'[w].kept <=> open[w].kept /\ PageFree)
       BY <1>6, <1>8
<1>11. /\ open'[n + 1].kind = kind /\ open'[n + 1].back = back
       /\ open'[n + 1].kept = PageFree
       /\ open'[n + 1].under = [c \in Area[kind] |-> Shown[c]]
       BY <1>8
<1> QED BY <1>1, <1>2, <1>8, <1>9, <1>10, <1>11

(* Opening a window: the one more on the list, with its page just below    *)
(* vpagescr; those under it keep theirs, or none is kept.                  *)
LEMMA OpenStep ==
    ASSUME IInv, NEW kind \in Kinds, NEW from, NEW back \in PC,
           CWindow(kind, from, back),
           IF open = <<>> THEN back \in {"desktop", "menu"}
                          ELSE back \in {"reread", "close"}
    PROVE  NextPages /\ IInv'
<1> DEFINE n == Len(open)
<1>1. Area[kind] \in SUBSET Cells /\ Save(Area[kind])
      BY OpenedWindow DEF IInv
<1>2. TypeOK
      BY DEF IInv
<1>3. pc' = "draw_window"
      BY <1>2, OpenedWindow
<1>4. n \in Nat /\ DOMAIN open = 1 .. n
      BY <1>2, OpenFacts
<1>5. open' \in Seq(WindowRecord) /\ Len(open') = n + 1
      BY <1>2, OpenedWindow
<1>6. DOMAIN open' = 1 .. n + 1
       BY <1>2, OpenedWindow
<1>7. \A w \in 1 .. n : /\ open'[w].kind = open[w].kind
                         /\ open'[w].back = open[w].back
                         /\ open'[w].under = open[w].under
                         /\ (open'[w].kept <=> open[w].kept /\ PageFree)
       BY <1>2, OpenedWindow
<1>8. /\ open'[n + 1].kind = kind /\ open'[n + 1].back = back
       /\ open'[n + 1].kept = PageFree
       /\ open'[n + 1].under = [c \in Area[kind] |-> Shown[c]]
       BY <1>2, OpenedWindow
<1>9. NextPages
       BY <1>1, <1>2, SaveStep
<1>10. TypeOK'
  <2>1. TypeOKPages' /\ lostSave' \in BOOLEAN /\ menuItem' \in BOOLEAN
        BY <1>1, <1>2, SaveStep
  <2>2. pc' \in PC
        BY <1>3 DEF PC
  <2> QED BY <1>5, <2>1, <2>2 DEF TypeOK, WindowRecord
<1>11. Brackets'
  <2>1. open' # <<>> /\ pc' \in WindowPC
        BY <1>3, <1>4, <1>6 DEF WindowPC
  <2>2. open = <<>> <=> n = 0
        BY <1>2, OpenFacts
  <2>3. \A w \in 1 .. n + 1 :
          open'[w].back \in IF w = 1 THEN {"desktop", "menu"} ELSE {"reread", "close"}
    <3>1. \A w \in 1 .. n :
            open[w].back \in IF w = 1 THEN {"desktop", "menu"} ELSE {"reread", "close"}
          BY <1>4 DEF IInv, Brackets
    <3>2. back \in IF n + 1 = 1 THEN {"desktop", "menu"} ELSE {"reread", "close"}
          BY <1>4, <2>2
    <3>3. \A w \in 1 .. n + 1 : w = n + 1 \/ w \in 1 .. n
          BY <1>4
    <3> QED BY <1>7, <1>8, <3>1, <3>2, <3>3
  <2> QED BY <1>6, <2>1, <2>3 DEF Brackets
<1>12. KeptAbove'
  <2>1. \A v, w \in 1 .. n + 1 : v < w /\ open'[v].kept => open'[w].kept
    <3> SUFFICES ASSUME NEW v \in 1 .. n + 1, NEW w \in 1 .. n + 1,
                        v < w, open'[v].kept
                 PROVE  open'[w].kept
        OBVIOUS
    <3>1. v \in 1 .. n
          BY <1>4
    <3>2. open[v].kept /\ PageFree
          BY <1>7, <3>1
    <3>3. CASE w = n + 1
          BY <1>8, <3>2, <3>3
    <3>4. CASE w \in 1 .. n
      <4>1. open[w].kept
            BY <1>4, <3>1, <3>2, <3>4 DEF IInv, KeptAbove
      <4> QED BY <1>7, <3>2, <3>4, <4>1
    <3> QED BY <1>4, <3>3, <3>4
  <2> QED BY <1>6, <2>1 DEF KeptAbove
<1>13. UnderIsSaved'
  <2> SUFFICES ASSUME NEW w \in 1 .. n + 1, open'[w].kept
               PROVE  /\ PageOf(w)' >= 1
                      /\ \A c \in Area[open'[w].kind] :
                           video'[PageOf(w)'][c] = open'[w].under[c]
      BY <1>6 DEF UnderIsSaved
  <2>1. PageFree
        BY <1>4, <1>7, <1>8
  <2>2. /\ vpagescr' = vpagescr + 1 /\ vpagescr \in 1 .. Depth
        /\ \A c \in Area[kind] : video'[vpagescr][c] = Shown[c]
        /\ \A p \in 1 .. vpagescr - 1 : video'[p] = video[p]
        BY <1>1, <1>2, <2>1, SaveStep
  <2>3. PageOf(w)' = vpagescr - (n + 1 - w)
        BY <1>4, <1>5, <2>2, DepthFacts DEF PageOf
  <2>4. CASE w = n + 1
    <3>1. PageOf(w)' = vpagescr
          BY <1>4, <2>2, <2>3, <2>4, DepthFacts
    <3> QED BY <1>8, <2>2, <2>4, <3>1
  <2>5. CASE w \in 1 .. n
    <3>1. PageOf(w)' = PageOf(w) /\ PageOf(w) \in Int /\ PageOf(w) <= vpagescr - 1
          BY <1>4, <2>2, <2>3, <2>5, DepthFacts DEF PageOf
    <3>2. /\ PageOf(w) >= 1
          /\ \A c \in Area[open[w].kind] : video[PageOf(w)][c] = open[w].under[c]
          BY <1>4, <1>7, <2>5 DEF IInv, UnderIsSaved
    <3>3. video'[PageOf(w)] = video[PageOf(w)]
          BY <2>2, <3>1, <3>2, DepthFacts
    <3> QED BY <1>7, <2>5, <3>1, <3>2, <3>3
  <2> QED BY <1>4, <2>4, <2>5
<1> QED BY <1>9, <1>10, <1>11, <1>12, <1>13 DEF IInv

-----------------------------------------------------------------------------
LEMMA ClosedWindow ==
    ASSUME IInv, Close
    PROVE  /\ Restore(Area[Window.kind]) /\ Area[Window.kind] \in SUBSET Cells
           /\ pc = "close" /\ pc' = Window.back /\ menuItem' = menuItem
           /\ Len(open) \in Nat /\ Len(open) >= 1 /\ Window = open[Len(open)]
           /\ DOMAIN open = 1 .. Len(open)
           /\ Len(open') = Len(open) - 1 /\ DOMAIN open' = 1 .. Len(open) - 1
           /\ \A w \in 1 .. Len(open) - 1 : open'[w] = open[w]
<1> DEFINE n == Len(open)
<1>1. /\ pc = "close" /\ pc' = Window.back /\ Restore(Area[Window.kind])
      /\ open' = SubSeq(open, 1, n - 1) /\ menuItem' = menuItem
      BY DEF Close, Goto, ClosedArea
<1>2. open # <<>>
      BY <1>1 DEF IInv, Brackets, WindowPC
<1>3. /\ n \in Nat /\ n >= 1 /\ DOMAIN open = 1 .. n
      /\ \A w \in 1 .. n : open[w] \in WindowRecord
      /\ Window = open[n]
      BY <1>2, OpenFacts DEF Window, IInv
<1>4. Area[Window.kind] \in SUBSET Cells
      BY <1>3, MgiPagesAssumption DEF WindowRecord
<1>5. /\ Len(open') = n - 1 /\ DOMAIN open' = 1 .. n - 1
      /\ \A w \in 1 .. n - 1 : open'[w] = open[w]
  <2> HIDE DEF n
  <2>1. \A w \in 1 .. n - 1 : open[w] \in WindowRecord
        BY <1>3
  <2>2. open' \in Seq(WindowRecord) /\ Len(open') = n - 1
        BY <1>1, <1>3, <2>1, SubSeqProperties
  <2> QED BY <1>1, <1>3, <2>1, <2>2, SubSeqProperties
<1> QED BY <1>1, <1>3, <1>4, <1>5

(* Closing a window: its page, if it has one, is the one just below        *)
(* vpagescr, and still holds what was under it.                            *)
LEMMA CloseStep ==
    ASSUME IInv, Close
    PROVE  /\ NextPages /\ IInv'
           /\ Window.kept =>
                \A c \in Area[Window.kind] : video'[0][c] = Window.under[c]
<1> DEFINE n == Len(open)
<1>1. TypeOK
      BY DEF IInv
<1>2. /\ pc = "close" /\ pc' = Window.back /\ Restore(Area[Window.kind])
      /\ open' = SubSeq(open, 1, n - 1) /\ UNCHANGED menuItem
      BY DEF Close, Goto, ClosedArea
<1>3. open # <<>>
      BY <1>2 DEF IInv, Brackets, WindowPC
<1>4. /\ n \in Nat /\ n >= 1 /\ DOMAIN open = 1 .. n
      /\ \A w \in 1 .. n : open[w] \in WindowRecord
      /\ Window = open[n]
      BY <1>1, <1>3, OpenFacts DEF Window
<1>5. Area[Window.kind] \in SUBSET Cells
      BY <1>4, MgiPagesAssumption DEF WindowRecord
<1>6. /\ open' \in Seq(WindowRecord) /\ Len(open') = n - 1
      /\ \A w \in 1 .. n - 1 : open'[w] = open[w]
  <2> HIDE DEF n
  <2>1. \A w \in 1 .. n - 1 : open[w] \in WindowRecord
        BY <1>4
  <2> QED BY <1>2, <1>4, <2>1, SubSeqProperties
<1>7. DOMAIN open' = 1 .. n - 1
      BY <1>4, <1>6
<1>8. NextPages
      BY <1>1, <1>2, <1>5, RestoreStep
<1>9. \A w \in 1 .. n : open[w].kept => Window.kept
  <2> SUFFICES ASSUME NEW w \in 1 .. n, open[w].kept PROVE open[n].kept
      BY <1>4
  <2>1. CASE w = n
        BY <2>1
  <2>2. CASE w < n
    <3>1. w \in DOMAIN open /\ n \in DOMAIN open
          BY <1>4
    <3> HIDE DEF n
    <3> QED BY <2>2, <3>1 DEF IInv, KeptAbove
  <2>3. w = n \/ w < n
    <3>1. n \in Nat
          BY <1>4
    <3> HIDE DEF n
    <3> QED BY <3>1
  <2> QED BY <2>1, <2>2, <2>3
<1>10. Window.kept =>
          /\ vpagescr > 1
          /\ \A c \in Area[Window.kind] : video[vpagescr - 1][c] = Window.under[c]
  <2>1. PageOf(n) = vpagescr - 1
        BY <1>1, <1>4, DepthFacts DEF PageOf, TypeOK, TypeOKPages
  <2>2. n \in DOMAIN open
        BY <1>4
  <2>3. open[n].kept =>
          /\ vpagescr - 1 >= 1
          /\ \A c \in Area[open[n].kind] : video[vpagescr - 1][c] = open[n].under[c]
    <3> HIDE DEF n
    <3> QED BY <2>1, <2>2 DEF IInv, UnderIsSaved
  <2>4. vpagescr \in Int
        BY <1>1, DepthFacts DEF TypeOK, TypeOKPages
  <2> QED BY <1>4, <2>3, <2>4
<1>11. Window.kept => \A c \in Area[Window.kind] : video'[0][c] = Window.under[c]
       BY <1>1, <1>2, <1>5, <1>10, RestoreStep
<1>12. TypeOK'
  <2>1. TypeOKPages' /\ lostSave' \in BOOLEAN
        BY <1>1, <1>2, <1>5, RestoreStep
  <2>2. menuItem' \in BOOLEAN
        BY <1>1, <1>2 DEF TypeOK
  <2>3. pc' \in PC
        BY <1>2, <1>4 DEF WindowRecord
  <2> QED BY <1>6, <2>1, <2>2, <2>3 DEF TypeOK, WindowRecord
<1>13. Brackets'
  <2>1. Window.back \in IF n = 1 THEN {"desktop", "menu"} ELSE {"reread", "close"}
        BY <1>4 DEF IInv, Brackets
  <2>2. pc' \in WindowPC <=> n # 1
        BY <1>2, <2>1 DEF WindowPC
  <2>3. open' = <<>> <=> n = 1
        BY <1>4, <1>6, EmptySeq
  <2>4. \A w \in 1 .. n - 1 :
          open'[w].back \in IF w = 1 THEN {"desktop", "menu"} ELSE {"reread", "close"}
        BY <1>4, <1>6 DEF IInv, Brackets
  <2> QED BY <1>7, <2>2, <2>3, <2>4 DEF Brackets
<1>14. KeptAbove'
       BY <1>4, <1>6, <1>7 DEF IInv, KeptAbove
<1>15. UnderIsSaved'
  <2> SUFFICES ASSUME NEW w \in 1 .. n - 1, open[w].kept
               PROVE  /\ PageOf(w)' >= 1
                      /\ \A c \in Area[open[w].kind] :
                           video'[PageOf(w)'][c] = open[w].under[c]
      BY <1>6, <1>7 DEF UnderIsSaved
  <2>1. w \in 1 .. n /\ Window.kept
        BY <1>4, <1>9
  <2>2. /\ vpagescr' = vpagescr - 1
        /\ \A p \in 1 .. Depth : video'[p] = video[p]
        BY <1>1, <1>2, <1>5, <1>10, <2>1, RestoreStep
  <2>3. /\ PageOf(w) >= 1
        /\ \A c \in Area[open[w].kind] : video[PageOf(w)][c] = open[w].under[c]
        BY <1>4, <2>1 DEF IInv, UnderIsSaved
  <2>4. PageOf(w)' = PageOf(w)
        BY <1>1, <1>4, <1>6, <2>2, DepthFacts DEF PageOf, TypeOK, TypeOKPages
  <2>5. PageOf(w) \in 1 .. Depth
        BY <1>1, <1>4, <2>3, DepthFacts DEF PageOf, TypeOK, TypeOKPages
  <2> QED BY <2>2, <2>3, <2>4, <2>5
<1> QED BY <1>8, <1>11, <1>12, <1>13, <1>14, <1>15 DEF IInv

-----------------------------------------------------------------------------
LEMMA DesktopStep ==
    ASSUME IInv, Desktop
    PROVE  IInv' /\ [NextPages]_pages /\ open' = open
<1>1. TypeOK
      BY DEF IInv
<1>2. CASE RedrawMain
  <2>1. Goto("wallpaper", "keep") /\ Draw(Cells, "wallpaper") /\ open' = open
        BY <1>2 DEF RedrawMain
  <2> QED BY <1>1, <2>1, DrawStep, QuietStep DEF Goto, PC, WindowPC
<1>3. CASE RedrawMainRest
  <2>1. /\ Goto("rest", "keep") /\ Restore(Cells) /\ open' = open
        /\ menuItem' \in BOOLEAN
        BY <1>1, <1>3 DEF RedrawMainRest, TypeOK
  <2> QED BY <1>1, <2>1, RestoreStep, QuietStep DEF Goto, PC, WindowPC
<1>4. CASE Keep
  <2>1. Goto("keep", "bar") /\ Save(Cells) /\ open' = open
        BY <1>4 DEF Keep
  <2> QED BY <1>1, <2>1, SaveStep, QuietStep DEF Goto, PC, WindowPC
<1>5. CASE DesenhaMenu
  <2>1. Goto("bar", "desktop") /\ Draw(Bar, "bar") /\ open' = open
        BY <1>5 DEF DesenhaMenu
  <2> QED BY <1>1, <2>1, DrawStep, QuietStep DEF Goto, PC, WindowPC
<1>6. CASE RunMgi
  <2>1. Goto("desktop", "wallpaper") /\ UNCHANGED <<pages, open>>
        BY <1>6 DEF RunMgi
  <2>2. TypeOKPages' /\ lostSave' \in BOOLEAN /\ menuItem' \in BOOLEAN
        BY <1>1, <1>6 DEF RunMgi, TypeOK, TypeOKPages, pages, memory
  <2> QED BY <2>1, <2>2, QuietStep DEF Goto, PC, WindowPC
<1>7. CASE \E area \in SUBSET Cells : RunProgram(area)
  <2>1. PICK area \in SUBSET Cells : RunProgram(area)
        BY <1>7
  <2>2. Goto("desktop", "rest") /\ Draw(area, "program") /\ open' = open
        BY <2>1 DEF RunProgram
  <2> QED BY <1>1, <2>2, DrawStep, QuietStep DEF Goto, PC, WindowPC
<1> QED BY <1>2, <1>3, <1>4, <1>5, <1>6, <1>7 DEF Desktop

LEMMA MenuStep ==
    ASSUME IInv, Menu
    PROVE  IInv' /\ [NextPages]_pages /\ open' = open
<1>1. TypeOK /\ MenuArea \in SUBSET Cells
      BY MgiPagesAssumption DEF IInv
<1>2. CASE ShowMenu
  <2>1. Goto("desktop", "draw_menu") /\ Save(MenuArea) /\ open' = open
        BY <1>2 DEF ShowMenu
  <2> QED BY <1>1, <2>1, SaveStep, QuietStep DEF Goto, PC, WindowPC
<1>3. CASE DrawMenu
  <2>1. Goto("draw_menu", "menu") /\ Draw(MenuArea, "menu") /\ open' = open
        BY <1>3 DEF DrawMenu
  <2> QED BY <1>1, <2>1, DrawStep, QuietStep DEF Goto, PC, WindowPC
<1>4. CASE MenuOutside
  <2>1. /\ Goto("menu", "desktop") /\ Restore(MenuArea) /\ open' = open
        /\ menuItem' \in BOOLEAN
        BY <1>1, <1>4 DEF MenuOutside, TypeOK
  <2> QED BY <1>1, <2>1, RestoreStep, QuietStep DEF Goto, PC, WindowPC
<1>5. CASE \E next \in {"menu", "setup", "help"} : MenuItem(next)
  <2>1. PICK next \in {"menu", "setup", "help"} : MenuItem(next)
        BY <1>5
  <2>2. /\ Goto("menu", next) /\ Restore(MenuArea) /\ open' = open
        /\ menuItem' \in BOOLEAN
        BY <2>1 DEF MenuItem
  <2> QED BY <1>1, <2>2, RestoreStep, QuietStep DEF Goto, PC, WindowPC
<1> QED BY <1>2, <1>3, <1>4, <1>5 DEF Menu

(* Windows, but for Close, which CloseStep is about.                       *)
LEMMA WindowStep ==
    ASSUME IInv, Windows, ~Close
    PROVE  IInv' /\ [NextPages]_pages /\ Len(open') >= Len(open)
<1>1. TypeOK /\ Len(open) \in Nat
      BY OpenFacts DEF IInv
<1>2. pc \notin WindowPC => open = <<>>
      BY DEF IInv, Brackets
<1>3. pc \in WindowPC => open # <<>>
      BY DEF IInv, Brackets
<1>4. ASSUME NEW kind \in Kinds, NEW from, NEW back \in PC,
             CWindow(kind, from, back),
             IF from \in WindowPC THEN back \in {"reread", "close"}
                                  ELSE back \in {"desktop", "menu"}
      PROVE  IInv' /\ [NextPages]_pages /\ Len(open') >= Len(open)
  <2>1. pc = from
        BY <1>4 DEF CWindow, Goto
  <2>2. NextPages /\ IInv'
        BY <1>2, <1>3, <1>4, <2>1, OpenStep
  <2>3. Len(open') = Len(open) + 1
    <3> DEFINE old == [w \in DOMAIN open |-> [open[w] EXCEPT !.kept = @ /\ PageFree]]
    <3>1. Len(old) = Len(open)
          BY <1>1, OpenFacts
    <3>2. PICK new : open' = Append(old, new)
          BY <1>4 DEF CWindow
    <3> QED BY <1>1, <3>1, <3>2
  <2> QED BY <1>1, <2>2, <2>3
<1>5. CASE SetupMGI
      BY <1>4, <1>5 DEF SetupMGI, Kinds, PC, WindowPC
<1>6. CASE Help
      BY <1>4, <1>6 DEF Help, Kinds, PC, WindowPC
<1>7. CASE SetupDateTimer
      BY <1>4, <1>7 DEF SetupDateTimer, Kinds, PC, WindowPC
<1>8. CASE ReadRTCError
      BY <1>4, <1>8 DEF ReadRTCError, Kinds, PC, WindowPC
<1>9. CASE WriteRTCError
      BY <1>4, <1>9 DEF WriteRTCError, Kinds, PC, WindowPC
<1>10. CASE RereadError
      BY <1>4, <1>10 DEF RereadError, Kinds, PC, WindowPC
<1>11. CASE DrawWindow
  <2>1. /\ Goto("draw_window", "window") /\ Draw(Area[Window.kind], "window")
        /\ open' = open
        BY <1>11 DEF DrawWindow
  <2> QED BY <1>1, <2>1, DrawStep, QuietStep DEF Goto, PC, WindowPC
<1>12. CASE Accept
  <2>1. /\ pc = "window" /\ pc' \in {"write", "close"}
        /\ Draw(Centre, "hourglass") /\ open' = open
        BY <1>12 DEF Accept
  <2> QED BY <1>1, <2>1, DrawStep, QuietStep DEF PC, WindowPC
<1>13. CASE Dismiss \/ Written \/ Reread
  <2>1. /\ pc \in WindowPC /\ pc' \in WindowPC /\ pc' \in PC
        /\ UNCHANGED <<pages, open, lostSave, menuItem>>
        BY <1>13 DEF Dismiss, Written, Reread, Goto, PC, WindowPC
  <2>2. TypeOKPages' /\ lostSave' \in BOOLEAN /\ menuItem' \in BOOLEAN
        BY <1>1, <2>1 DEF TypeOK, TypeOKPages, pages, memory
  <2>3. vpagescr' = vpagescr /\ \A p \in 1 .. Depth : video'[p] = video[p]
        BY <2>1 DEF pages, memory
  <2> QED BY <1>1, <2>1, <2>2, <2>3, QuietStep
<1> QED BY <1>5, <1>6, <1>7, <1>8, <1>9, <1>10, <1>11, <1>12, <1>13 DEF Windows

(* The two facts about a step that the theorems are made of.               *)
LEMMA Step ==
    ASSUME IInv, [Next]_vars
    PROVE  /\ IInv'
           /\ [NextPages]_pages
           /\ Len(open') < Len(open) /\ Window.kept =>
                \A c \in Area[Window.kind] : video'[0][c] = Window.under[c]
<1>1. Len(open) \in Nat
      BY OpenFacts DEF IInv
<1>2. CASE Desktop
      BY <1>1, <1>2, DesktopStep
<1>3. CASE Menu
      BY <1>1, <1>3, MenuStep
<1>4. CASE Windows /\ ~Close
  <2>1. Len(open') \in Nat
        BY <1>4, WindowStep, OpenFacts DEF IInv, TypeOK
  <2> QED BY <1>1, <1>4, <2>1, WindowStep
<1>5. CASE Close
      BY <1>5, CloseStep
<1>6. CASE UNCHANGED vars
  <2>1. IInv'
        BY <1>6 DEF IInv, TypeOK, TypeOKPages, Brackets, KeptAbove, UnderIsSaved,
                    PageOf, vars, pages, memory
  <2> QED BY <1>1, <1>6, <2>1 DEF vars
<1> QED BY <1>2, <1>3, <1>4, <1>5, <1>6 DEF Next

THEOREM Invariant == Spec => []IInv
<1>1. IInv /\ [Next]_vars => IInv'
      BY Step
<1> QED BY <1>1, InitInvariant, PTL DEF Spec

(* The interface never leaves the pages and its variables keep their types.*)
THEOREM TypesCorrect == Spec => []TypeOK
<1>1. IInv => TypeOK
      BY DEF IInv
<1> QED BY <1>1, Invariant, PTL

(* delete of a CWindow undoes its constructor, whatever windows were       *)
(* opened over it and whatever was drawn, if each of them found a page.    *)
THEOREM WindowsRestore == Spec => CloseRestores
<1>1. IInv /\ [Next]_vars =>
        [Len(open') < Len(open) /\ Window.kept =>
           \A c \in Area[Window.kind] : video'[0][c] = Window.under[c]]_vars
      BY Step
<1> QED BY <1>1, Invariant, PTL DEF Spec, CloseRestores

(* Menu, windows and programs use the screen pages as a stack of pictures. *)
THEOREM InterfaceUsesStack == Spec => ImplementsStack
<1>1. Init => InitPages
      BY DEF Init
<1>2. IInv /\ [Next]_vars => [NextPages]_pages
      BY Step
<1>3. Spec => SpecPages
      BY <1>1, <1>2, Invariant, PTL DEF Spec, SpecPages
<1> QED BY <1>3, PagesImplementStack

-----------------------------------------------------------------------------
(* What was saved in which page. All pages hold whole screens, but for the *)
(* one of the menu while it is shown, and those of the windows.            *)

(* The same three calls, with what was saved (covers) and what is shown.   *)
LEMMA DrawPages ==
    ASSUME TypeOK, NEW area, NEW ink, Draw(area, ink)
    PROVE  /\ UNCHANGED <<vpagescr, covers, lostSave, menuItem>>
           /\ \A p \in 1 .. Depth : video'[p] = video[p]
           /\ \A c \in Cells : video'[0][c] = IF c \in area THEN ink ELSE video[0][c]
BY DepthFacts DEF TypeOK, TypeOKPages, Draw, DrawOver, Copy, Shown

LEMMA SavePages ==
    ASSUME TypeOK, NEW area \in SUBSET Cells, Save(area)
    PROVE  /\ menuItem' = menuItem /\ lostSave' = (lostSave \/ ~PageFree)
           /\ video'[0] = video[0]
           /\ \A p \in 1 .. vpagescr - 1 : video'[p] = video[p] /\ covers'[p] = covers[p]
           /\ PageFree => /\ vpagescr' = vpagescr + 1
                          /\ covers'[vpagescr] = area
                          /\ \A c \in area : video'[vpagescr][c] = video[0][c]
           /\ ~PageFree => vpagescr' = vpagescr /\ vpagescr = Depth + 1
<1>1. vpagescr \in Int /\ 1 <= vpagescr /\ vpagescr <= Depth + 1
      BY DepthFacts DEF TypeOK, TypeOKPages
<1>2. menuItem' = menuItem /\ lostSave' = (lostSave \/ ~PageFree)
      BY DEF Save
<1>3. CASE PageFree
  <2>1. /\ video' = [video EXCEPT ![vpagescr] = Copy(area, Shown, video[vpagescr])]
        /\ vpagescr' = vpagescr + 1
        /\ covers' = Append(covers, area)
        BY <1>3 DEF Save, SaveScreen, NextPage
  <2>2. vpagescr \in 1 .. Depth
        BY <1>1, <1>3, DepthFacts DEF PageFree
  <2>3. /\ video'[0] = video[0]
        /\ \A p \in 1 .. vpagescr - 1 : video'[p] = video[p]
        /\ \A c \in area : video'[vpagescr][c] = video[0][c]
        BY <2>1, <2>2, DepthFacts DEF TypeOK, TypeOKPages, Copy, Shown
  <2>4. /\ \A p \in 1 .. Len(covers) : covers'[p] = covers[p]
        /\ covers'[Len(covers) + 1] = area
        BY <2>1, AppendProperties DEF TypeOK, TypeOKPages
  <2>5. Len(covers) = vpagescr - 1 /\ Len(covers) + 1 = vpagescr
        BY <1>1 DEF TypeOK, TypeOKPages
  <2> QED BY <1>2, <1>3, <2>1, <2>3, <2>4, <2>5
<1>4. CASE ~PageFree
  <2>1. UNCHANGED <<video, vpagescr, covers>>
        BY <1>4 DEF Save, SaveScreen, memory
  <2>2. vpagescr = Depth + 1
        BY <1>1, <1>4, DepthFacts DEF PageFree
  <2> QED BY <1>2, <1>4, <2>1, <2>2
<1> QED BY <1>3, <1>4

LEMMA RestorePages ==
    ASSUME TypeOK, NEW area \in SUBSET Cells, Restore(area)
    PROVE  /\ lostSave' = lostSave
           /\ vpagescr' = IF vpagescr = 1 THEN 1 ELSE vpagescr - 1
           /\ \A p \in 1 .. Depth : video'[p] = video[p]
           /\ \A p \in 1 .. vpagescr - 2 : covers'[p] = covers[p]
           /\ \A c \in Cells : video'[0][c] = IF c \in area THEN video[vpagescr - 1][c]
                                                            ELSE video[0][c]
<1>1. vpagescr \in Int /\ 1 <= vpagescr /\ vpagescr <= Depth + 1
      BY DepthFacts DEF TypeOK, TypeOKPages
<1>2. /\ lostSave' = lostSave
      /\ video' = [video EXCEPT ![0] = Copy(area, video[vpagescr - 1], video[0])]
      /\ vpagescr' = IF vpagescr - 1 < 1 THEN 1 ELSE vpagescr - 1
      /\ covers' = SubSeq(covers, 1, Len(covers) - 1)
      BY PageBelowFacts DEF Restore, RestoreScreen, TypeOK
<1>3. /\ \A p \in 1 .. Depth : video'[p] = video[p]
      /\ \A c \in Cells : video'[0][c] = IF c \in area THEN video[vpagescr - 1][c]
                                                       ELSE video[0][c]
      BY <1>2, DepthFacts DEF TypeOK, TypeOKPages, Copy
<1>4. vpagescr' = IF vpagescr = 1 THEN 1 ELSE vpagescr - 1
      BY <1>1, <1>2
<1>5. \A p \in 1 .. vpagescr - 2 : covers'[p] = covers[p]
  <2> SUFFICES ASSUME NEW p \in 1 .. vpagescr - 2 PROVE covers'[p] = covers[p]
      OBVIOUS
  <2>1. Len(covers) \in Nat /\ Len(covers) - 1 = vpagescr - 2 /\ 1 <= Len(covers) - 1
        BY <1>1 DEF TypeOK, TypeOKPages
  <2>2. \A q \in 1 .. Len(covers) - 1 : covers[q] \in SUBSET Cells
        BY <2>1, ElementOfSeq DEF TypeOK, TypeOKPages
  <2>3. \A q \in 1 .. Len(covers) - 1 : covers'[q] = covers[q]
        BY <1>2, <2>1, SubSeqProperties DEF TypeOK, TypeOKPages
  <2> QED BY <2>1, <2>3
<1> QED BY <1>2, <1>3, <1>4, <1>5

MenuPC == {"draw_menu", "menu"}

(* The page saved last, and the one saved last for neither menu nor window.*)
Top  == vpagescr - 1
Base == Top - Len(open) - (IF pc \in MenuPC THEN 1 ELSE 0)

SavedAreas ==
    /\ \A p \in 1 .. Base : covers[p] = Cells
    /\ pc \in MenuPC /\ Top >= 1 => covers[Top] \in {MenuArea, Cells}
    /\ \A w \in DOMAIN open : open[w].kept => covers[PageOf(w)] = Area[open[w].kind]

LEMMA InitSaved == Init => SavedAreas
<1> SUFFICES ASSUME Init PROVE SavedAreas
    OBVIOUS
<1>1. open = <<>> /\ Len(open) = 0 /\ DOMAIN open = {} /\ pc \notin MenuPC /\ Top = 0
      BY DEF Init, InitPages, MenuPC, Top
<1> QED BY <1>1 DEF SavedAreas, Base

(* With no window open, the pages of the desktop and of the menu.          *)
LEMMA SavedClosed ==
    ASSUME IInv, SavedAreas, Desktop \/ Menu
    PROVE  SavedAreas'
<1>1. TypeOK /\ MenuArea \in SUBSET Cells
      BY MgiPagesAssumption DEF IInv
<1>2. open = <<>> /\ open' = <<>> /\ Len(open) = 0 /\ Len(open') = 0
  <2>1. pc \notin WindowPC
        BY DEF Desktop, RedrawMain, RedrawMainRest, Keep, DesenhaMenu, RunMgi, RunProgram,
               Menu, ShowMenu, DrawMenu, MenuOutside, MenuItem, Goto, WindowPC
  <2>2. open' = open
        BY DEF Desktop, RedrawMain, RedrawMainRest, Keep, DesenhaMenu, RunMgi, RunProgram,
               Menu, ShowMenu, DrawMenu, MenuOutside, MenuItem
  <2> QED BY <2>1, <2>2 DEF IInv, Brackets
<1>3. vpagescr \in Int /\ 1 <= vpagescr /\ vpagescr <= Depth + 1
      BY <1>1, DepthFacts DEF TypeOK, TypeOKPages
<1>4. /\ Top = vpagescr - 1 /\ Base = IF pc \in MenuPC THEN vpagescr - 2 ELSE vpagescr - 1
      /\ Top' = vpagescr' - 1
      /\ Base' = IF pc' \in MenuPC THEN vpagescr' - 1 - 1 ELSE vpagescr' - 1
  <2>1. vpagescr' \in Int
    <3>1. TypeOK'
          BY DesktopStep, MenuStep DEF IInv
    <3> QED BY <3>1, DepthFacts DEF TypeOK, TypeOKPages
  <2> QED BY <1>2, <1>3, <2>1 DEF Top, Base
<1>5. /\ \A p \in 1 .. Base : covers[p] = Cells
      /\ pc \in MenuPC /\ Top >= 1 => covers[Top] \in {MenuArea, Cells}
      BY DEF SavedAreas
<1> DEFINE StillSaved ==
             /\ \A p \in 1 .. Base' : covers'[p] = Cells
             /\ pc' \in MenuPC /\ Top' >= 1 => covers'[Top'] \in {MenuArea, Cells}
<1> SUFFICES StillSaved
    BY <1>2 DEF SavedAreas
<1>6. ASSUME UNCHANGED <<vpagescr, covers>>, pc' \in MenuPC <=> pc \in MenuPC
      PROVE  StillSaved
  <2>1. Base' = Base /\ Top' = Top
        BY <1>3, <1>4, <1>6
  <2> QED BY <1>5, <1>6, <2>1
<1>7. CASE RedrawMain \/ DesenhaMenu \/ (\E area \in SUBSET Cells : RunProgram(area))
  <2>1. /\ \E area, ink : Draw(area, ink)
        /\ pc \notin MenuPC /\ pc' \notin MenuPC
        BY <1>7 DEF RedrawMain, DesenhaMenu, RunProgram, Goto, MenuPC
  <2> QED BY <1>1, <1>6, <2>1, DrawPages
<1>8. CASE RunMgi
  <2>1. UNCHANGED <<vpagescr, covers>> /\ pc \notin MenuPC /\ pc' \notin MenuPC
        BY <1>8 DEF RunMgi, Goto, MenuPC, pages, memory
  <2> QED BY <1>6, <2>1
<1>9. CASE DrawMenu
  <2>1. Draw(MenuArea, "menu") /\ pc \in MenuPC /\ pc' \in MenuPC
        BY <1>9 DEF DrawMenu, Goto, MenuPC
  <2> QED BY <1>1, <1>6, <2>1, DrawPages
<1>10. CASE Keep
  <2>1. Save(Cells) /\ pc \notin MenuPC /\ pc' \notin MenuPC
        BY <1>10 DEF Keep, Goto, MenuPC
  <2>2. CASE PageFree
    <3>1. /\ vpagescr' = vpagescr + 1 /\ covers'[vpagescr] = Cells
          /\ \A p \in 1 .. vpagescr - 1 : covers'[p] = covers[p]
          BY <1>1, <2>1, <2>2, SavePages
    <3>2. \A p \in 1 .. Base' : p = vpagescr \/ p \in 1 .. Base
          BY <1>3, <1>4, <2>1, <3>1
    <3> QED BY <1>3, <1>4, <1>5, <2>1, <3>1, <3>2
  <2>3. CASE ~PageFree
    <3>1. vpagescr' = vpagescr /\ \A p \in 1 .. vpagescr - 1 : covers'[p] = covers[p]
          BY <1>1, <2>1, <2>3, SavePages
    <3> QED BY <1>3, <1>4, <1>5, <2>1, <3>1
  <2> QED BY <2>2, <2>3
<1>11. CASE ShowMenu
  <2>1. Save(MenuArea) /\ pc \notin MenuPC /\ pc' \in MenuPC
        BY <1>11 DEF ShowMenu, Goto, MenuPC
  <2>2. CASE PageFree
    <3>1. /\ vpagescr' = vpagescr + 1 /\ covers'[vpagescr] = MenuArea
          /\ \A p \in 1 .. vpagescr - 1 : covers'[p] = covers[p]
          BY <1>1, <2>1, <2>2, SavePages
    <3>2. Top' = vpagescr /\ Base' = vpagescr - 1 /\ Base = vpagescr - 1
          BY <1>3, <1>4, <2>1, <3>1
    <3> QED BY <1>3, <1>5, <2>1, <3>1, <3>2
  <2>3. CASE ~PageFree
    <3>1. /\ vpagescr' = vpagescr /\ vpagescr = Depth + 1
          /\ \A p \in 1 .. vpagescr - 1 : covers'[p] = covers[p]
          BY <1>1, <2>1, <2>3, SavePages
    <3>2. Top' = vpagescr - 1 /\ Base' = vpagescr - 2 /\ Base = vpagescr - 1
          BY <1>3, <1>4, <2>1, <3>1
    <3> QED BY <1>3, <1>5, <2>1, <3>1, <3>2, DepthFacts
  <2> QED BY <2>2, <2>3
<1>12. CASE RedrawMainRest \/ MenuOutside \/ \E next \in {"menu", "setup", "help"} : MenuItem(next)
  <2>1. /\ \E area \in SUBSET Cells : Restore(area)
        /\ pc' \in MenuPC => pc \in MenuPC
        BY <1>1, <1>12 DEF RedrawMainRest, MenuOutside, MenuItem, Goto, MenuPC
  <2>2. /\ vpagescr' = IF vpagescr = 1 THEN 1 ELSE vpagescr - 1
        /\ \A p \in 1 .. vpagescr - 2 : covers'[p] = covers[p]
        BY <1>1, <2>1, RestorePages
  <2>3. Top' >= 1 => Top' = vpagescr - 2
        BY <1>3, <1>4, <2>2
  <2>4. \A p \in 1 .. Top' : p \in 1 .. vpagescr - 2 /\ p \in 1 .. Base
        BY <1>3, <1>4, <2>2
  <2>5. \A p \in 1 .. Top' : covers'[p] = Cells
        BY <1>5, <2>2, <2>4
  <2>6. Top' \in Int /\ Base' \in Int /\ Base' <= Top'
        BY <1>3, <1>4, <2>2
  <2> QED BY <2>5, <2>6
<1> QED BY <1>7, <1>8, <1>9, <1>10, <1>11, <1>12 DEF Desktop, Menu

LEMMA SavedOpen ==
    ASSUME IInv, SavedAreas, NEW kind \in Kinds, NEW from, NEW back \in PC,
           CWindow(kind, from, back), from \notin MenuPC
    PROVE  SavedAreas'
<1> DEFINE n == Len(open)
<1>1. TypeOK /\ n \in Nat /\ DOMAIN open = 1 .. n
      BY OpenFacts DEF IInv
<1>2. vpagescr \in Int /\ 1 <= vpagescr /\ vpagescr <= Depth + 1
      BY <1>1, DepthFacts DEF TypeOK, TypeOKPages
<1>3. /\ Save(Area[kind]) /\ Area[kind] \in SUBSET Cells
      /\ pc \notin MenuPC /\ pc' \notin MenuPC
      /\ Len(open') = n + 1 /\ DOMAIN open' = 1 .. n + 1
      /\ \A w \in 1 .. n : /\ open'[w].kind = open[w].kind
                           /\ (open'[w].kept <=> open[w].kept /\ PageFree)
      /\ open'[n + 1].kind = kind /\ open'[n + 1].kept = PageFree
  <2>1. pc \notin MenuPC /\ pc' \notin MenuPC
        BY <1>1, OpenedWindow DEF MenuPC
  <2> QED BY <1>1, <2>1, OpenedWindow
<1>4. Base = vpagescr - 1 - n /\ Base' = vpagescr' - 1 - (n + 1)
  <2>1. vpagescr' \in Int
        BY <1>1, <1>2, <1>3, SavePages
  <2> QED BY <1>1, <1>2, <1>3, <2>1 DEF Base, Top
<1>5. /\ \A p \in 1 .. Base : covers[p] = Cells
      /\ \A w \in 1 .. n : open[w].kept => covers[PageOf(w)] = Area[open[w].kind]
      BY <1>1 DEF SavedAreas
<1>6. /\ \A p \in 1 .. vpagescr - 1 : covers'[p] = covers[p]
      /\ PageFree => vpagescr' = vpagescr + 1 /\ covers'[vpagescr] = Area[kind]
      /\ ~PageFree => vpagescr' = vpagescr
      BY <1>1, <1>3, SavePages
<1>7. \A p \in 1 .. Base' : p \in 1 .. Base /\ p \in 1 .. vpagescr - 1
      BY <1>1, <1>2, <1>4, <1>6
<1>8. \A p \in 1 .. Base' : covers'[p] = Cells
      BY <1>5, <1>6, <1>7
<1>9. ASSUME NEW w \in 1 .. n + 1, open'[w].kept
      PROVE  covers'[PageOf(w)'] = Area[open'[w].kind]
  <2>1. PageFree
        BY <1>1, <1>3, <1>9
  <2>2. PageOf(w)' = vpagescr - (n + 1 - w)
        BY <1>1, <1>2, <1>3, <1>6, <2>1 DEF PageOf
  <2>3. CASE w = n + 1
    <3>1. PageOf(w)' = vpagescr
          BY <1>1, <1>2, <2>2, <2>3
    <3> QED BY <1>3, <1>6, <2>1, <2>3, <3>1
  <2>4. CASE w \in 1 .. n
    <3>1. PageOf(w)' = PageOf(w) /\ PageOf(w) <= vpagescr - 1
          BY <1>1, <1>2, <2>2, <2>4 DEF PageOf
    <3>2. open[w].kept /\ PageOf(w) >= 1
          BY <1>1, <1>3, <1>9, <2>4 DEF IInv, UnderIsSaved
    <3>3. PageOf(w) \in 1 .. vpagescr - 1
          BY <1>1, <1>2, <2>4, <3>1, <3>2 DEF PageOf
    <3> QED BY <1>3, <1>5, <1>6, <2>4, <3>1, <3>2, <3>3
  <2> QED BY <1>1, <2>3, <2>4
<1> QED BY <1>3, <1>8, <1>9 DEF SavedAreas

LEMMA SavedClose ==
    ASSUME IInv, SavedAreas, Close
    PROVE  SavedAreas'
<1> DEFINE n == Len(open)
<1>1. TypeOK
      BY DEF IInv
<1>2. vpagescr \in Int /\ 1 <= vpagescr /\ vpagescr <= Depth + 1
      BY <1>1, DepthFacts DEF TypeOK, TypeOKPages
<1>3. /\ Restore(Area[Window.kind]) /\ Area[Window.kind] \in SUBSET Cells
      /\ n \in Nat /\ n >= 1 /\ Window = open[n] /\ DOMAIN open = 1 .. n
      /\ Len(open') = n - 1 /\ DOMAIN open' = 1 .. n - 1
      /\ \A w \in 1 .. n - 1 : open'[w] = open[w]
      BY ClosedWindow
<1>4. pc \notin MenuPC /\ (pc' \in MenuPC => n = 1)
  <2>1. pc = "close" /\ pc' = Window.back
        BY ClosedWindow
  <2>2. n \in DOMAIN open
        BY <1>3
  <2>3. Window.back \in IF n = 1 THEN {"desktop", "menu"} ELSE {"reread", "close"}
    <3> HIDE DEF n
    <3> QED BY <1>3, <2>2 DEF IInv, Brackets
  <2> QED BY <2>1, <2>3 DEF MenuPC
<1>5. /\ vpagescr' = IF vpagescr = 1 THEN 1 ELSE vpagescr - 1
      /\ \A p \in 1 .. vpagescr - 2 : covers'[p] = covers[p]
      BY <1>1, <1>3, RestorePages
<1>6. /\ Base = vpagescr - 1 - n /\ Top' = vpagescr' - 1
      /\ Base' = vpagescr' - 1 - (n - 1) - (IF pc' \in MenuPC THEN 1 ELSE 0)
  <2>1. vpagescr' \in Int
        BY <1>2, <1>5
  <2> QED BY <1>2, <1>3, <1>4, <2>1 DEF Base, Top
<1>7. /\ \A p \in 1 .. Base : covers[p] = Cells
      /\ \A w \in 1 .. n : open[w].kept => covers[PageOf(w)] = Area[open[w].kind]
      BY <1>3 DEF SavedAreas
<1>8. \A p \in 1 .. Base' : p \in 1 .. Base /\ p \in 1 .. vpagescr - 2
      BY <1>2, <1>3, <1>5, <1>6
<1>9. \A p \in 1 .. Base' : covers'[p] = Cells
      BY <1>5, <1>7, <1>8
<1>10. pc' \in MenuPC /\ Top' >= 1 => covers'[Top'] \in {MenuArea, Cells}
  <2> SUFFICES ASSUME pc' \in MenuPC, Top' >= 1 PROVE covers'[Top'] = Cells
      OBVIOUS
  <2>1. n = 1 /\ Base = vpagescr - 1 - n /\ Top' = vpagescr' - 1
        BY <1>4, <1>6
  <2>2. vpagescr' = vpagescr - 1
        BY <1>2, <1>5, <2>1
  <2>3. Top' = vpagescr - 2 /\ Base = vpagescr - 2
        BY <1>2, <2>1, <2>2
  <2>4. Top' \in 1 .. Base /\ Top' \in 1 .. vpagescr - 2
        BY <1>2, <2>3
  <2> QED BY <1>5, <1>7, <2>4
<1>11. ASSUME NEW w \in 1 .. n - 1, open'[w].kept
       PROVE  covers'[PageOf(w)'] = Area[open'[w].kind]
  <2>1. open[w].kept /\ w \in 1 .. n
        BY <1>3, <1>11
  <2>2. PageOf(w) >= 1 /\ covers[PageOf(w)] = Area[open[w].kind]
        BY <1>3, <1>7, <2>1 DEF IInv, UnderIsSaved
  <2>3. PageOf(w) = vpagescr - 1 - (n - w)
        BY DEF PageOf
  <2>4. PageOf(w) \in 1 .. vpagescr - 2 /\ vpagescr' = vpagescr - 1
        BY <1>2, <1>3, <1>5, <2>2, <2>3
  <2>5. PageOf(w)' = PageOf(w)
        BY <1>2, <1>3, <2>3, <2>4 DEF PageOf
  <2> QED BY <1>3, <1>5, <2>2, <2>4, <2>5
<1> QED BY <1>3, <1>9, <1>10, <1>11 DEF SavedAreas

(* Windows are opened, closed, or only drawn, inside their areas.          *)
LEMMA WindowCases ==
    ASSUME IInv, Windows, ~Close
    PROVE  \/ \E kind \in Kinds, from \in {"desktop", "setup", "help"} \cup WindowPC, back \in PC :
                CWindow(kind, from, back) /\ (back = "menu" => from \in {"setup", "help"})
           \/ /\ pc \in WindowPC /\ pc' \in WindowPC
              /\ UNCHANGED <<vpagescr, covers, open, lostSave, menuItem>>
              /\ \A p \in 1 .. Depth : video'[p] = video[p]
              /\ \A c \in Cells : c \notin Area[Window.kind] => video'[0][c] = video[0][c]
<1>1. TypeOK
      BY DEF IInv
<1>2. CASE SetupMGI \/ Help \/ SetupDateTimer \/ ReadRTCError \/ WriteRTCError \/ RereadError
      BY <1>2 DEF SetupMGI, Help, SetupDateTimer, ReadRTCError, WriteRTCError, RereadError,
               Kinds, PC, WindowPC
<1>3. CASE DrawWindow
  <2>1. /\ Draw(Area[Window.kind], "window") /\ open' = open
        /\ pc \in WindowPC /\ pc' \in WindowPC
        BY <1>3 DEF DrawWindow, Goto, WindowPC
  <2> QED BY <1>1, <2>1, DrawPages
<1>4. CASE Accept
  <2>1. /\ Draw(Centre, "hourglass") /\ open' = open
        /\ pc \in WindowPC /\ pc' \in WindowPC /\ Window.kind # "message"
        BY <1>4 DEF Accept, WindowPC
  <2>2. Window \in WindowRecord
        BY <1>1, <2>1, OpenFacts DEF IInv, Brackets, Window
  <2>3. Centre \subseteq Area[Window.kind]
        BY <2>1, <2>2, MgiPagesAssumption DEF WindowRecord, Kinds
  <2> QED BY <1>1, <2>1, <2>3, DrawPages
<1>5. CASE Dismiss \/ Written \/ Reread
      BY <1>5 DEF Dismiss, Written, Reread, Goto, WindowPC, pages, memory
<1> QED BY <1>2, <1>3, <1>4, <1>5 DEF Windows

LEMMA SavedQuiet ==
    ASSUME SavedAreas, UNCHANGED <<vpagescr, covers, open>>,
           pc \notin MenuPC, pc' \notin MenuPC
    PROVE  SavedAreas'
<1>1. Base' = Base /\ Top' = Top /\ \A w \in DOMAIN open : PageOf(w)' = PageOf(w)
      BY DEF Base, Top, PageOf
<1> QED BY <1>1 DEF SavedAreas

LEMMA SavedStep ==
    ASSUME IInv, SavedAreas, [Next]_vars
    PROVE  SavedAreas'
<1>1. CASE Desktop \/ Menu
      BY <1>1, SavedClosed
<1>2. CASE Windows /\ ~Close
      BY <1>2, WindowCases, SavedOpen, SavedQuiet DEF WindowPC, MenuPC
<1>3. CASE Close
      BY <1>3, SavedClose
<1>4. CASE UNCHANGED vars
      BY <1>4 DEF vars, pages, memory, SavedAreas, Base, Top, PageOf
<1> QED BY <1>1, <1>2, <1>3, <1>4 DEF Next

(* Where the interface restores, the page that it copies from holds at     *)
(* least the area that is copied, or there is no page to copy from.        *)
LEMMA RestoredIsSaved ==
    ASSUME IInv, SavedAreas, [Next]_vars, Restoring, pc = "close" => Window.kept,
           ~UNCHANGED vars
    PROVE  \A c \in Cells : video'[0][c] # Shown[c] => c \in covers[Len(covers)]
<1>1. TypeOK /\ MenuArea \in SUBSET Cells
      BY MgiPagesAssumption DEF IInv
<1>2. vpagescr \in Int /\ 1 <= vpagescr /\ Top = vpagescr - 1 /\ Len(covers) = Top
      BY <1>1, DepthFacts DEF TypeOK, TypeOKPages, Top
<1>3. PICK area \in SUBSET Cells : Restore(area) /\ (Top >= 1 => area \subseteq covers[Top])
  <2>1. CASE pc = "close"
    <3>1. Close
          BY <2>1 DEF Next, Desktop, RedrawMain, RedrawMainRest, Keep, DesenhaMenu, RunMgi,
                 RunProgram, Menu, ShowMenu, DrawMenu, MenuOutside, MenuItem, Windows,
                 SetupMGI, Help, SetupDateTimer, ReadRTCError, WriteRTCError, RereadError,
                 CWindow, DrawWindow, Accept, Dismiss, Written, Reread, Goto
    <3>2. /\ Restore(Area[Window.kind]) /\ Area[Window.kind] \in SUBSET Cells
          /\ Len(open) \in DOMAIN open /\ Window = open[Len(open)]
          BY <3>1, ClosedWindow
    <3>3. PageOf(Len(open)) = Top
          BY <1>1, <1>2, OpenFacts DEF PageOf
    <3>4. covers[Top] = Area[Window.kind]
          BY <2>1, <3>2, <3>3 DEF SavedAreas
    <3> QED BY <3>2, <3>4
  <2>2. CASE pc = "menu"
    <3>1. Restore(MenuArea)
          BY <2>2 DEF Next, Desktop, RedrawMain, RedrawMainRest, Keep, DesenhaMenu, RunMgi,
                 RunProgram, Menu, ShowMenu, DrawMenu, MenuOutside, MenuItem, Windows,
                 SetupMGI, Help, SetupDateTimer, ReadRTCError, WriteRTCError, RereadError,
                 CWindow, DrawWindow, Accept, Dismiss, Written, Reread, Close, Goto
    <3>2. Top >= 1 => covers[Top] \in {MenuArea, Cells}
          BY <2>2 DEF SavedAreas, MenuPC
    <3> QED BY <1>1, <3>1, <3>2
  <2>3. CASE pc = "rest"
    <3>1. Restore(Cells)
          BY <2>3 DEF Next, Desktop, RedrawMain, RedrawMainRest, Keep, DesenhaMenu, RunMgi,
                 RunProgram, Menu, ShowMenu, DrawMenu, MenuOutside, MenuItem, Windows,
                 SetupMGI, Help, SetupDateTimer, ReadRTCError, WriteRTCError, RereadError,
                 CWindow, DrawWindow, Accept, Dismiss, Written, Reread, Close, Goto
    <3>2. open = <<>> /\ Len(open) = 0
          BY <2>3 DEF IInv, Brackets, WindowPC
    <3>3. Base = Top
          BY <1>2, <2>3, <3>2 DEF Base, MenuPC
    <3>4. Top >= 1 => covers[Top] = Cells
          BY <1>2, <3>3 DEF SavedAreas
    <3> QED BY <3>1, <3>4
  <2> QED BY <2>1, <2>2, <2>3 DEF Restoring
<1>4. \A c \in Cells : video'[0][c] = IF c \in area THEN video[vpagescr - 1][c]
                                                    ELSE video[0][c]
      BY <1>1, <1>3, RestorePages
<1>5. SUFFICES ASSUME NEW c \in Cells, video'[0][c] # video[0][c]
               PROVE  c \in covers[Top]
      BY <1>2 DEF Shown
<1>6. c \in area /\ video[Top] # video[0]
      BY <1>2, <1>4, <1>5
<1>7. Top >= 1
      BY <1>2, <1>6
<1> QED BY <1>3, <1>6, <1>7

LEMMA SavedInvariant == Spec => [](IInv /\ SavedAreas)
<1>1. IInv /\ SavedAreas /\ [Next]_vars => IInv' /\ SavedAreas'
      BY Step, SavedStep
<1> QED BY <1>1, InitInvariant, InitSaved, PTL DEF Spec

(* What an earlier use left in a page is never shown: what RestoreScreen   *)
(* changes was saved in the page it copies from.                           *)
THEOREM OnlySavedRestored == Spec => RestoresOnlySaved
<1>1. IInv /\ SavedAreas /\ [Next]_vars =>
        [Restoring /\ (pc = "close" => Window.kept) =>
           \A c \in Cells :
             video'[0][c] # Shown[c] => c \in covers[Len(covers)]]_vars
      BY RestoredIsSaved
<1> QED BY <1>1, SavedInvariant, PTL DEF Spec, RestoresOnlySaved

-----------------------------------------------------------------------------
(* What is shown, and what is under the windows. As long as each screen    *)
(* found a page and no item of the menu was chosen, the page saved last by *)
(* redrawMain holds the wallpaper; the screen shows the desktop where      *)
(* neither a window nor the menu covers it; and what a window covers was   *)
(* the desktop, where no window below it covers it too.                    *)
Desk == [c \in Cells |-> IF c \in Bar THEN "bar" ELSE "wallpaper"]

(* None of the first k windows covers the part c.                          *)
Clear(c, k) == \A v \in 1 .. k : c \notin Area[open[v].kind]

WallpaperSaved ==
    pc \in {"bar", "desktop", "rest"} \cup MenuPC \cup WindowPC =>
        Base >= 1 /\ \A c \in Cells : video[Base][c] = "wallpaper"

MenuSaved == pc \in MenuPC => \A c \in MenuArea : video[Top][c] = Desk[c]

WallpaperShown == pc \in {"keep", "bar"} => \A c \in Cells : Shown[c] = "wallpaper"

DeskAround ==
    pc \in {"desktop"} \cup MenuPC \cup WindowPC =>
        \A c \in Cells :
            Clear(c, Len(open)) /\ (pc = "menu" => c \notin MenuArea) => Shown[c] = Desk[c]

DeskUnder ==
    \A w \in DOMAIN open : \A c \in Area[open[w].kind] :
        Clear(c, w - 1) => open[w].under[c] = Desk[c]

WindowsReturn ==
    /\ pc \notin {"setup", "help"}
    /\ \A w \in DOMAIN open : open[w].kept /\ open[w].back # "menu"

DeskInv ==
    ~menuItem /\ ~lostSave =>
        /\ WallpaperSaved /\ MenuSaved /\ WallpaperShown
        /\ DeskAround /\ DeskUnder /\ WindowsReturn

LEMMA InitDesk == Init => DeskInv
<1> SUFFICES ASSUME Init PROVE DeskInv
    OBVIOUS
<1>1. pc = "wallpaper" /\ open = <<>> /\ DOMAIN open = {}
      BY DEF Init
<1> QED BY <1>1 DEF DeskInv, WallpaperSaved, MenuSaved, WallpaperShown, DeskAround,
                    DeskUnder, WindowsReturn, MenuPC, WindowPC

(* The desktop and the menu.                                               *)
LEMMA DeskClosed ==
    ASSUME IInv, DeskInv, Desktop \/ Menu
    PROVE  DeskInv'
<1> SUFFICES ASSUME ~menuItem', ~lostSave'
             PROVE  /\ WallpaperSaved' /\ MenuSaved' /\ WallpaperShown'
                    /\ DeskAround' /\ DeskUnder' /\ WindowsReturn'
    BY DEF DeskInv
<1>1. TypeOK /\ TypeOK' /\ MenuArea \in SUBSET Cells /\ Bar \subseteq Cells
      BY MgiPagesAssumption, DesktopStep, MenuStep DEF IInv
<1>2. open = <<>> /\ open' = <<>> /\ Len(open) = 0 /\ Len(open') = 0
  <2>1. pc \notin WindowPC
        BY DEF Desktop, RedrawMain, RedrawMainRest, Keep, DesenhaMenu, RunMgi, RunProgram,
               Menu, ShowMenu, DrawMenu, MenuOutside, MenuItem, Goto, WindowPC
  <2>2. open' = open
        BY DesktopStep, MenuStep
  <2> QED BY <2>1, <2>2 DEF IInv, Brackets
<1>3. /\ vpagescr \in Int /\ 1 <= vpagescr /\ vpagescr <= Depth + 1 /\ vpagescr' \in Int
      /\ Depth \in Int
      BY <1>1, DepthFacts DEF TypeOK, TypeOKPages
<1>4. /\ Top = vpagescr - 1 /\ Base = IF pc \in MenuPC THEN vpagescr - 2 ELSE vpagescr - 1
      /\ Top' = vpagescr' - 1
      /\ Base' = IF pc' \in MenuPC THEN vpagescr' - 2 ELSE vpagescr' - 1
      BY <1>2, <1>3 DEF Top, Base
<1>5. DeskUnder' /\ (pc' \notin {"setup", "help"} => WindowsReturn')
      BY <1>2 DEF DeskUnder, WindowsReturn
<1>6. \A c : Clear(c, Len(open)) /\ Clear(c, Len(open))'
      BY <1>2 DEF Clear
<1>7. ASSUME ~menuItem, ~lostSave
      PROVE  WallpaperSaved /\ MenuSaved /\ WallpaperShown /\ DeskAround
      BY <1>7 DEF DeskInv
<1>8. CASE RedrawMain
  <2>1. /\ Draw(Cells, "wallpaper") /\ pc' = "keep"
        BY <1>8 DEF RedrawMain, Goto
  <2>2. \A c \in Cells : video'[0][c] = "wallpaper"
        BY <1>1, <2>1, DrawPages
  <2> QED BY <1>5, <2>1, <2>2 DEF WallpaperSaved, MenuSaved, WallpaperShown, DeskAround,
                                  MenuPC, WindowPC, Shown
<1>9. CASE RedrawMainRest
  <2>1. /\ Restore(Cells) /\ pc = "rest" /\ pc' = "keep" /\ ~menuItem
        BY <1>9 DEF RedrawMainRest, Goto
  <2>2. Base = vpagescr - 1 /\ Base >= 1 /\ \A c \in Cells : video[Base][c] = "wallpaper"
        BY <1>1, <1>4, <1>7, <2>1, RestorePages DEF WallpaperSaved, MenuPC
  <2>3. \A c \in Cells : video'[0][c] = "wallpaper"
        BY <1>1, <2>1, <2>2, RestorePages
  <2> QED BY <1>5, <2>1, <2>3 DEF WallpaperSaved, MenuSaved, WallpaperShown, DeskAround,
                                  MenuPC, WindowPC, Shown
<1>10. CASE Keep
  <2>1. /\ Save(Cells) /\ pc = "keep" /\ pc' = "bar"
        BY <1>10 DEF Keep, Goto
  <2>2. ~menuItem /\ ~lostSave /\ PageFree
        BY <1>1, <2>1, SavePages
  <2>3. \A c \in Cells : video[0][c] = "wallpaper"
        BY <1>7, <2>1, <2>2 DEF WallpaperShown, Shown
  <2>4. /\ vpagescr' = vpagescr + 1 /\ video'[0] = video[0]
        /\ \A c \in Cells : video'[vpagescr][c] = video[0][c]
        BY <1>1, <2>1, <2>2, SavePages
  <2>5. Base' = vpagescr
        BY <1>3, <1>4, <2>1, <2>4 DEF MenuPC
  <2>6. WallpaperSaved'
        BY <1>3, <2>3, <2>4, <2>5 DEF WallpaperSaved
  <2>7. WallpaperShown'
        BY <2>3, <2>4 DEF WallpaperShown, Shown
  <2> QED BY <1>5, <2>1, <2>6, <2>7 DEF MenuSaved, DeskAround, MenuPC, WindowPC
<1>11. CASE DesenhaMenu
  <2>1. /\ Draw(Bar, "bar") /\ pc = "bar" /\ pc' = "desktop"
        BY <1>11 DEF DesenhaMenu, Goto
  <2>2. ~menuItem /\ ~lostSave
        BY <1>1, <2>1, DrawPages
  <2>3. /\ \A c \in Cells : video[0][c] = "wallpaper"
        /\ Base >= 1 /\ \A c \in Cells : video[Base][c] = "wallpaper"
        BY <1>7, <2>1, <2>2 DEF WallpaperShown, WallpaperSaved, Shown
  <2>4. \A c \in Cells : video'[0][c] = Desk[c]
        BY <1>1, <2>1, <2>3, DrawPages DEF Desk
  <2>5. Base = vpagescr - 1 /\ Base' = Base /\ Base \in 1 .. Depth
    <3>1. vpagescr' = vpagescr
          BY <1>1, <2>1, DrawPages
    <3> QED BY <1>3, <1>4, <2>1, <2>3, <3>1 DEF MenuPC
  <2>6. WallpaperSaved'
        BY <1>1, <2>1, <2>3, <2>5, DrawPages DEF WallpaperSaved
  <2> QED BY <1>5, <2>1, <2>4, <2>6 DEF MenuSaved, WallpaperShown, DeskAround, MenuPC, Shown
<1>12. CASE RunMgi
  <2>1. pc' = "wallpaper"
        BY <1>12 DEF RunMgi, Goto
  <2> QED BY <1>5, <2>1 DEF WallpaperSaved, MenuSaved, WallpaperShown, DeskAround,
                            MenuPC, WindowPC
<1>13. CASE \E area \in SUBSET Cells : RunProgram(area)
  <2>1. PICK area \in SUBSET Cells : Draw(area, "program") /\ pc = "desktop" /\ pc' = "rest"
        BY <1>13 DEF RunProgram, Goto
  <2>2. ~menuItem /\ ~lostSave
        BY <1>1, <2>1, DrawPages
  <2>3. Base >= 1 /\ \A c \in Cells : video[Base][c] = "wallpaper"
        BY <1>7, <2>1, <2>2 DEF WallpaperSaved
  <2>4. Base = vpagescr - 1 /\ Base' = Base /\ Base \in 1 .. Depth
    <3>1. vpagescr' = vpagescr
          BY <1>1, <2>1, DrawPages
    <3> QED BY <1>3, <1>4, <2>1, <2>3, <3>1 DEF MenuPC
  <2>5. WallpaperSaved'
        BY <1>1, <2>1, <2>3, <2>4, DrawPages DEF WallpaperSaved
  <2> QED BY <1>5, <2>1, <2>5 DEF MenuSaved, WallpaperShown, DeskAround, MenuPC, WindowPC
<1>14. CASE ShowMenu
  <2>1. /\ Save(MenuArea) /\ pc = "desktop" /\ pc' = "draw_menu"
        BY <1>14 DEF ShowMenu, Goto
  <2>2. ~menuItem /\ ~lostSave /\ PageFree
        BY <1>1, <2>1, SavePages
  <2>3. /\ Base >= 1 /\ \A c \in Cells : video[Base][c] = "wallpaper"
        /\ \A c \in Cells : video[0][c] = Desk[c]
        BY <1>6, <1>7, <2>1, <2>2 DEF WallpaperSaved, DeskAround, Shown
  <2>4. /\ vpagescr' = vpagescr + 1 /\ video'[0] = video[0]
        /\ \A p \in 1 .. vpagescr - 1 : video'[p] = video[p]
        /\ \A c \in MenuArea : video'[vpagescr][c] = video[0][c]
        BY <1>1, <2>1, <2>2, SavePages
  <2>5. Base = vpagescr - 1 /\ Base' = Base /\ Top' = vpagescr
        BY <1>3, <1>4, <2>1, <2>4 DEF MenuPC
  <2>6. WallpaperSaved'
        BY <1>3, <2>3, <2>4, <2>5 DEF WallpaperSaved
  <2>7. MenuSaved'
        BY <1>1, <2>3, <2>4, <2>5 DEF MenuSaved, Desk
  <2> QED BY <1>5, <2>1, <2>3, <2>4, <2>6, <2>7 DEF WallpaperShown, DeskAround, Desk, Shown
<1>15. CASE DrawMenu
  <2>1. /\ Draw(MenuArea, "menu") /\ pc = "draw_menu" /\ pc' = "menu"
        BY <1>15 DEF DrawMenu, Goto
  <2>2. ~menuItem /\ ~lostSave
        BY <1>1, <2>1, DrawPages
  <2>3. /\ Base >= 1 /\ \A c \in Cells : video[Base][c] = "wallpaper"
        /\ \A c \in MenuArea : video[Top][c] = Desk[c]
        /\ \A c \in Cells : video[0][c] = Desk[c]
        BY <1>6, <1>7, <2>1, <2>2 DEF WallpaperSaved, MenuSaved, DeskAround, MenuPC, Shown
  <2>4. /\ Base = vpagescr - 2 /\ Base' = Base /\ Base \in 1 .. Depth
        /\ Top = vpagescr - 1 /\ Top' = Top /\ Top \in 1 .. Depth
    <3>1. vpagescr' = vpagescr
          BY <1>1, <2>1, DrawPages
    <3> QED BY <1>3, <1>4, <2>1, <2>3, <3>1 DEF MenuPC
  <2>5. WallpaperSaved'
        BY <1>1, <2>1, <2>3, <2>4, DrawPages DEF WallpaperSaved
  <2>6. MenuSaved'
        BY <1>1, <2>1, <2>3, <2>4, DrawPages DEF MenuSaved, Desk
  <2>7. \A c \in Cells : c \notin MenuArea => video'[0][c] = Desk[c]
        BY <1>1, <2>1, <2>3, DrawPages
  <2> QED BY <1>5, <2>1, <2>5, <2>6, <2>7 DEF WallpaperShown, DeskAround, Desk, Shown
<1>16. CASE MenuOutside
  <2>1. /\ Restore(MenuArea) /\ pc = "menu" /\ pc' = "desktop" /\ ~menuItem
        BY <1>16 DEF MenuOutside, Goto
  <2>2. ~lostSave
        BY <1>1, <2>1, RestorePages
  <2>3. /\ Base >= 1 /\ \A c \in Cells : video[Base][c] = "wallpaper"
        /\ \A c \in MenuArea : video[Top][c] = Desk[c]
        /\ \A c \in Cells : c \notin MenuArea => video[0][c] = Desk[c]
        BY <1>6, <1>7, <2>1, <2>2 DEF WallpaperSaved, MenuSaved, DeskAround, MenuPC, Shown
  <2>4. Base = vpagescr - 2 /\ Base' = Base /\ Base \in 1 .. Depth
    <3>1. Base = vpagescr - 2
          BY <1>4, <2>1 DEF MenuPC
    <3>2. vpagescr' = vpagescr - 1
          BY <1>1, <1>3, <2>1, <2>3, <3>1, RestorePages
    <3> QED BY <1>3, <1>4, <2>1, <2>3, <3>1, <3>2 DEF MenuPC
  <2>5. WallpaperSaved'
        BY <1>1, <2>1, <2>3, <2>4, RestorePages DEF WallpaperSaved
  <2>6. \A c \in Cells : video'[0][c] = Desk[c]
        BY <1>1, <1>4, <2>1, <2>3, RestorePages
  <2> QED BY <1>5, <2>1, <2>5, <2>6 DEF MenuSaved, WallpaperShown, DeskAround, MenuPC, Desk,
                                        Shown
<1>17. CASE \E next \in {"menu", "setup", "help"} : MenuItem(next)
       BY <1>17 DEF MenuItem
<1> QED BY <1>8, <1>9, <1>10, <1>11, <1>12, <1>13, <1>14, <1>15, <1>16, <1>17
        DEF Desktop, Menu

(* Windows: what the one that is opened covers is what was shown,          *)
LEMMA DeskOpen ==
    ASSUME IInv, DeskInv, NEW kind \in Kinds,
           NEW from \in {"desktop", "setup", "help"} \cup WindowPC, NEW back \in PC,
           CWindow(kind, from, back), back = "menu" => from \in {"setup", "help"}
    PROVE  DeskInv'
<1> SUFFICES ASSUME ~menuItem', ~lostSave'
             PROVE  /\ WallpaperSaved' /\ MenuSaved' /\ WallpaperShown'
                    /\ DeskAround' /\ DeskUnder' /\ WindowsReturn'
    BY DEF DeskInv
<1> DEFINE n == Len(open)
           ClearNext(c, k) == \A v \in 1 .. k : c \notin Area[open'[v].kind]
<1>1. TypeOK /\ n \in Nat /\ DOMAIN open = 1 .. n
      BY OpenFacts DEF IInv
<1>2. /\ vpagescr \in Int /\ 1 <= vpagescr /\ vpagescr <= Depth + 1
      BY <1>1, DepthFacts DEF TypeOK, TypeOKPages
<1>3. /\ Save(Area[kind]) /\ Area[kind] \in SUBSET Cells
      /\ pc = from /\ pc' = "draw_window"
      /\ Len(open') = n + 1 /\ DOMAIN open' = 1 .. n + 1
      BY <1>1, OpenedWindow
<1>4. /\ \A w \in 1 .. n : /\ open'[w].kind = open[w].kind /\ open'[w].back = open[w].back
                           /\ open'[w].under = open[w].under
                           /\ (open'[w].kept <=> open[w].kept /\ PageFree)
      /\ open'[n + 1].kind = kind /\ open'[n + 1].back = back
      /\ open'[n + 1].kept = PageFree
      /\ open'[n + 1].under = [c \in Area[kind] |-> Shown[c]]
      BY <1>1, OpenedWindow
<1>5. ~menuItem /\ ~lostSave /\ PageFree
      BY <1>1, <1>3, SavePages
<1>6. /\ WallpaperSaved /\ DeskAround /\ DeskUnder /\ WindowsReturn
      BY <1>5 DEF DeskInv
<1>7. /\ vpagescr' = vpagescr + 1 /\ video'[0] = video[0]
      /\ \A p \in 1 .. vpagescr - 1 : video'[p] = video[p]
      BY <1>1, <1>3, <1>5, SavePages
<1>8. pc \in {"desktop"} \cup WindowPC /\ pc \notin MenuPC /\ back # "menu"
      BY <1>3, <1>6 DEF WindowsReturn, WindowPC, MenuPC
<1>9. pc' \in WindowPC /\ pc' \notin MenuPC /\ pc' \notin {"setup", "help", "keep", "bar", "menu"}
      BY <1>3 DEF WindowPC, MenuPC
<1>10. \A c : Clear(c, n) => \A c2 \in Cells : c2 = c => Shown[c] = Desk[c]
       BY <1>6, <1>8 DEF DeskAround, MenuPC
<1>11. \A c : \A k \in 0 .. n : ClearNext(c, k) <=> Clear(c, k)
       BY <1>1, <1>4 DEF Clear
<1>12. WallpaperSaved'
  <2>1. Base = vpagescr - 1 - n /\ Base' = vpagescr' - 1 - (n + 1)
        BY <1>1, <1>2, <1>3, <1>7, <1>8, <1>9 DEF Base, Top
  <2>2. Base >= 1 /\ \A c \in Cells : video[Base][c] = "wallpaper"
        BY <1>6, <1>8 DEF WallpaperSaved
  <2>3. Base' = Base /\ Base \in 1 .. vpagescr - 1
        BY <1>1, <1>2, <1>7, <2>1, <2>2
  <2> QED BY <1>7, <2>2, <2>3 DEF WallpaperSaved
<1>13. DeskAround'
  <2> SUFFICES ASSUME NEW c \in Cells, ClearNext(c, n + 1) PROVE video'[0][c] = Desk[c]
      BY <1>3, <1>9 DEF DeskAround, Clear, Shown, Desk
  <2>1. ClearNext(c, n)
        BY <1>1
  <2>2. Clear(c, n)
        BY <1>1, <1>11, <2>1
  <2> QED BY <1>7, <1>10, <2>2 DEF Shown
<1>14. DeskUnder'
  <2> SUFFICES ASSUME NEW w \in 1 .. n + 1, NEW c \in Area[open'[w].kind], ClearNext(c, w - 1)
               PROVE  open'[w].under[c] = Desk[c]
      BY <1>3 DEF DeskUnder, Clear, Desk
  <2>1. Clear(c, w - 1)
        BY <1>1, <1>11
  <2>2. CASE w \in 1 .. n
        BY <1>1, <1>4, <1>6, <2>1, <2>2 DEF DeskUnder
  <2>3. CASE w = n + 1
    <3>1. c \in Area[kind] /\ c \in Cells /\ open'[w].under[c] = Shown[c]
          BY <1>3, <1>4, <2>3
    <3>2. Clear(c, n)
          BY <1>1, <2>1, <2>3
    <3> QED BY <1>10, <3>1, <3>2
  <2> QED BY <1>1, <2>2, <2>3
<1>15. WindowsReturn'
  <2>1. \A w \in 1 .. n + 1 : w = n + 1 \/ w \in 1 .. n
        BY <1>1
  <2>2. \A w \in 1 .. n + 1 : open'[w].kept /\ open'[w].back # "menu"
        BY <1>1, <1>4, <1>5, <1>6, <1>8, <2>1 DEF WindowsReturn
  <2> QED BY <1>3, <1>9, <2>2 DEF WindowsReturn
<1> QED BY <1>9, <1>12, <1>13, <1>14, <1>15 DEF MenuSaved, WallpaperShown

(* what is drawn stays inside the window on top,                           *)
LEMMA DeskDrawn ==
    ASSUME IInv, DeskInv, pc \in WindowPC, pc' \in WindowPC,
           UNCHANGED <<vpagescr, covers, open, lostSave, menuItem>>,
           \A p \in 1 .. Depth : video'[p] = video[p],
           \A c \in Cells : c \notin Area[Window.kind] => video'[0][c] = video[0][c]
    PROVE  DeskInv'
<1> SUFFICES ASSUME ~menuItem', ~lostSave'
             PROVE  /\ WallpaperSaved' /\ MenuSaved' /\ WallpaperShown'
                    /\ DeskAround' /\ DeskUnder' /\ WindowsReturn'
    BY DEF DeskInv
<1>1. TypeOK /\ Len(open) \in Nat /\ Len(open) >= 1 /\ Window = open[Len(open)]
      BY OpenFacts DEF IInv, Brackets, Window
<1>2. WallpaperSaved /\ DeskAround /\ DeskUnder /\ WindowsReturn
      BY DEF DeskInv
<1>3. pc' \notin MenuPC /\ pc \notin MenuPC /\ pc' \notin {"setup", "help", "keep", "bar"}
      BY DEF WindowPC, MenuPC
<1>4. DeskUnder' /\ WindowsReturn'
      BY <1>2, <1>3 DEF DeskUnder, WindowsReturn, Clear, Desk
<1>5. DeskAround'
  <2> SUFFICES ASSUME NEW c \in Cells, Clear(c, Len(open)) PROVE video'[0][c] = Desk[c]
      BY DEF DeskAround, Shown, Desk, Clear
  <2>1. c \notin Area[Window.kind]
        BY <1>1 DEF Clear
  <2>2. video[0][c] = Desk[c]
        BY <1>2, <1>3 DEF DeskAround, Shown, MenuPC
  <2> QED BY <2>1, <2>2
<1>6. WallpaperSaved'
  <2>1. Base' = Base
        BY <1>3 DEF Base, Top
  <2>2. Base >= 1 /\ \A c \in Cells : video[Base][c] = "wallpaper"
        BY <1>2 DEF WallpaperSaved
  <2>3. Base \in 1 .. Depth
        BY <1>1, <1>3, <2>2, DepthFacts DEF Base, Top, TypeOK, TypeOKPages
  <2> QED BY <2>1, <2>2, <2>3 DEF WallpaperSaved
<1> QED BY <1>3, <1>4, <1>5, <1>6 DEF MenuSaved, WallpaperShown

(* and what the one that is closed puts back is the desktop, or covered.   *)
LEMMA DeskClose ==
    ASSUME IInv, DeskInv, Close
    PROVE  DeskInv'
<1> SUFFICES ASSUME ~menuItem', ~lostSave'
             PROVE  /\ WallpaperSaved' /\ MenuSaved' /\ WallpaperShown'
                    /\ DeskAround' /\ DeskUnder' /\ WindowsReturn'
    BY DEF DeskInv
<1> DEFINE n == Len(open)
           ClearNext(c, k) == \A v \in 1 .. k : c \notin Area[open'[v].kind]
<1>1. TypeOK
      BY DEF IInv
<1>2. /\ vpagescr \in Int /\ 1 <= vpagescr /\ vpagescr <= Depth + 1
      BY <1>1, DepthFacts DEF TypeOK, TypeOKPages
<1>3. /\ Restore(Area[Window.kind]) /\ Area[Window.kind] \in SUBSET Cells
      /\ pc = "close" /\ pc' = Window.back /\ menuItem' = menuItem
      /\ n \in Nat /\ n >= 1 /\ Window = open[n] /\ DOMAIN open = 1 .. n
      /\ Len(open') = n - 1 /\ DOMAIN open' = 1 .. n - 1
      /\ \A w \in 1 .. n - 1 : open'[w] = open[w]
      BY ClosedWindow
<1>4. ~menuItem /\ ~lostSave
      BY <1>1, <1>3, RestorePages
<1>5. WallpaperSaved /\ DeskAround /\ DeskUnder /\ WindowsReturn
      BY <1>4 DEF DeskInv
<1>6. n \in DOMAIN open
      BY <1>3
<1>7. Window.kept /\ pc' \in {"desktop", "reread", "close"}
  <2>1. Window.back \in {"desktop", "menu", "reread", "close"}
    <3> HIDE DEF n
    <3> QED BY <1>3, <1>6 DEF IInv, Brackets
  <2>2. Window.kept /\ Window.back # "menu"
    <3> HIDE DEF n
    <3> QED BY <1>3, <1>5, <1>6 DEF WindowsReturn
  <2> QED BY <1>3, <2>1, <2>2
<1>8. /\ pc \in WindowPC /\ pc \notin MenuPC /\ pc # "menu" /\ pc' \notin MenuPC
      /\ pc' \notin {"setup", "help", "keep", "bar", "menu"}
      BY <1>3, <1>7 DEF WindowPC, MenuPC
<1>9. Base = vpagescr - 1 - n /\ Base >= 1 /\ \A c \in Cells : video[Base][c] = "wallpaper"
      BY <1>2, <1>3, <1>5, <1>8 DEF WallpaperSaved, Base, Top
<1>10. vpagescr' = vpagescr - 1
       BY <1>1, <1>2, <1>3, <1>9, RestorePages
<1>11. Base' = Base /\ Base \in 1 .. Depth
  <2>1. Base' = vpagescr' - 1 - (n - 1)
        BY <1>2, <1>3, <1>8, <1>10 DEF Base, Top
  <2> QED BY <1>2, <1>3, <1>9, <1>10, <2>1, DepthFacts
<1>12. WallpaperSaved'
       BY <1>1, <1>3, <1>9, <1>11, RestorePages DEF WallpaperSaved
<1>13. \A c : \A k \in 0 .. n - 1 : ClearNext(c, k) <=> Clear(c, k)
       BY <1>3 DEF Clear
<1>14. DeskAround'
  <2> SUFFICES ASSUME NEW c \in Cells, ClearNext(c, n - 1) PROVE video'[0][c] = Desk[c]
      BY <1>3 DEF DeskAround, Clear, Shown, Desk
  <2>1. Clear(c, n - 1)
        BY <1>3, <1>13
  <2>2. CASE c \in Area[Window.kind]
    <3>1. video'[0][c] = Window.under[c]
          BY <1>7, <2>2, CloseStep
    <3>2. open[n].under[c] = Desk[c]
      <4> HIDE DEF n
      <4> QED BY <1>3, <1>5, <1>6, <2>1, <2>2 DEF DeskUnder
    <3> QED BY <1>3, <3>1, <3>2
  <2>3. CASE c \notin Area[Window.kind]
    <3>1. Clear(c, n)
          BY <1>3, <2>1, <2>3 DEF Clear
    <3>2. video[0][c] = Desk[c]
          BY <1>5, <1>8, <3>1 DEF DeskAround, Shown
    <3> QED BY <1>1, <1>3, <2>3, <3>2, RestorePages
  <2> QED BY <2>2, <2>3
<1>15. DeskUnder'
  <2> SUFFICES ASSUME NEW w \in 1 .. n - 1, NEW c \in Area[open'[w].kind], ClearNext(c, w - 1)
               PROVE  open'[w].under[c] = Desk[c]
      BY <1>3 DEF DeskUnder, Clear, Desk
  <2>1. Clear(c, w - 1)
        BY <1>3, <1>13
  <2>2. w \in DOMAIN open /\ open'[w] = open[w]
        BY <1>3
  <2> QED BY <1>5, <2>1, <2>2 DEF DeskUnder
<1>16. WindowsReturn'
       BY <1>3, <1>5, <1>8 DEF WindowsReturn
<1> QED BY <1>8, <1>12, <1>14, <1>15, <1>16 DEF MenuSaved, WallpaperShown

LEMMA DeskStep ==
    ASSUME IInv, DeskInv, [Next]_vars
    PROVE  DeskInv'
<1>1. CASE Desktop \/ Menu
      BY <1>1, DeskClosed
<1>2. CASE Windows /\ ~Close
      BY <1>2, WindowCases, DeskOpen, DeskDrawn
<1>3. CASE Close
      BY <1>3, DeskClose
<1>4. CASE UNCHANGED vars
      BY <1>4 DEF vars, pages, memory, DeskInv, WallpaperSaved, MenuSaved, WallpaperShown,
                  DeskAround, DeskUnder, WindowsReturn, Base, Top, Clear, Desk, Shown
<1> QED BY <1>1, <1>2, <1>3, <1>4 DEF Next

(* Programs, menus and windows leave the desktop as redrawMain drew it, as *)
(* long as no item of the menu is chosen and each screen finds a page.     *)
THEOREM DesktopReturns == Spec => []DesktopShown
<1>1. IInv /\ DeskInv /\ [Next]_vars => IInv' /\ DeskInv'
      BY Step, DeskStep
<1>2. IInv /\ DeskInv => DesktopShown
  <2> SUFFICES ASSUME IInv, DeskInv, pc = "desktop", ~menuItem, ~lostSave
               PROVE  Shown = Desk
      BY DEF DesktopShown, Desk
  <2>1. open = <<>> /\ Len(open) = 0
        BY DEF IInv, Brackets, WindowPC
  <2>2. \A c \in Cells : Clear(c, Len(open)) => Shown[c] = Desk[c]
        BY DEF DeskInv, DeskAround, MenuPC
  <2>3. \A c : Clear(c, Len(open))
        BY <2>1 DEF Clear
  <2>4. Shown \in [Cells -> Inks]
        BY SavedFacts DEF IInv, TypeOK
  <2>5. DOMAIN Shown = Cells /\ Shown = [c \in Cells |-> Shown[c]]
        BY <2>4
  <2> QED BY <2>2, <2>3, <2>5 DEF Desk
<1> QED BY <1>1, <1>2, InitInvariant, InitDesk, PTL DEF Spec
=============================================================================
