-------------------------- MODULE LineEditorProofs --------------------------
(***************************************************************************)
(* Proofs about the prompt of the shell. First, what each operator of      *)
(* Console does to a console, as equations between the parts of the        *)
(* record; the actions are then reasoned about by these alone. Then the    *)
(* invariant: the types, the keyboard, the line and its prompt, and the    *)
(* request that is sent again.                                             *)
(***************************************************************************)
EXTENDS LineEditor, SequenceTheorems, TLAPS

-----------------------------------------------------------------------------
(* The types.                                                              *)

Places  == Int \X Int
Cells   == [Panel -> Chars]
Cursors == (0 .. Rows) \X (0 .. Cols + 1)

Consoles ==
    [col : -1 .. Cols, row : 0 .. Rows, cur : Cursors, out : {"text", "window"},
     off : BOOLEAN, cell : Cells]

Texts == Letters \cup {NL}

(* The interface alone has a column of -1, and texts off the panel.        *)
ConsoleInv ==
    /\ con \in Consoles
    /\ con.out = "window" <=> pc \in {"gui", "icon"}
    /\ pc \notin {"gui", "icon"} => con.col >= 0 /\ ~con.off

StateInv ==
    /\ pc \in {"edit", "command", "print", "loading", "gui", "icon", "prompt"}
    /\ pc \in {"print", "loading", "gui", "icon"} => rest \in Seq(Texts)
    /\ pc = "prompt" => rest \in Seq({Hash})
    /\ req \in {"cursor", "off", "hide", "text", "touch"}
    /\ vinip \in 0 .. Cols
    /\ vbuf \in Seq(Letters) /\ Len(vbuf) <= BufLen

LineTypes ==
    /\ typed \in Seq(Letters) /\ places \in Seq(Places) /\ prompt \in Seq(Places)
    /\ Len(typed) = Len(places)

KeyboardTypes ==
    /\ DOMAIN under \subseteq Panel /\ under \in [DOMAIN under -> Chars]
    /\ kbd \in BOOLEAN

TypeInv == ConsoleInv /\ StateInv /\ LineTypes /\ KeyboardTypes

-----------------------------------------------------------------------------
(* What the operators of Console do.                                       *)

Same(d, c) ==
    /\ d.col = c.col /\ d.row = c.row /\ d.cur = c.cur /\ d.out = c.out /\ d.off = c.off

LEMMA Sizes == Rows \in Nat /\ Rows >= 1 /\ Cols \in Nat /\ Cols >= 2
  BY ConsoleAssumption

LEMMA KeyApart ==
    /\ Key # Blank /\ Key # Mark /\ Key # Hash /\ Key \notin Letters /\ Key # NL
    /\ Cut # Key
  <1>1. Key # Blank /\ Key # Mark /\ Key # Hash /\ Key # NL /\ Cut # Key
    BY Zenon DEF Key, Blank, Mark, Hash, NL, Cut
  <1> QED BY <1>1, LineEditorAssumption

LEMMA PanelPlaces ==
    /\ \A at \in Panel : at = <<at[1], at[2]>> /\ at[1] \in 0 .. Rows /\ at[2] \in 0 .. Cols
    /\ \A row, col : row \in 0 .. Rows /\ col \in 0 .. Cols => <<row, col>> \in Panel
    /\ \A row, col : <<row, col>> \in Panel => row \in 0 .. Rows /\ col \in 0 .. Cols
  BY Sizes DEF Panel

LEMMA ConsoleFields ==
    ASSUME NEW c \in Consoles
    PROVE  /\ c.col \in -1 .. Cols /\ c.row \in 0 .. Rows /\ c.cur \in Cursors
           /\ c.out \in {"text", "window"} /\ c.off \in BOOLEAN /\ c.cell \in Cells
  BY DEF Consoles

LEMMA DrawFields ==
    ASSUME NEW c \in Consoles, NEW at, NEW ch \in Chars
    PROVE  /\ Draw(c, at, ch) \in Consoles /\ Same(Draw(c, at, ch), c)
           /\ \A p \in Panel :
                  Draw(c, at, ch).cell[p] = IF p = at THEN ch ELSE c.cell[p]
  <1>1. CASE at \in Panel
    <2>1. Draw(c, at, ch) = [c EXCEPT !.cell = [c.cell EXCEPT ![at] = ch]]
      BY <1>1 DEF Draw, Consoles
    <2>2. /\ [c.cell EXCEPT ![at] = ch] \in Cells
          /\ \A p \in Panel :
                 [c.cell EXCEPT ![at] = ch][p] = IF p = at THEN ch ELSE c.cell[p]
      BY ConsoleFields DEF Cells
    <2> HIDE DEF Cells
    <2>3. PICK cell \in Cells : cell = [c.cell EXCEPT ![at] = ch]
      BY <2>2
    <2> QED BY <2>1, <2>2, <2>3 DEF Consoles, Same
  <1>2. CASE at \notin Panel
    BY <1>2 DEF Draw, Same
  <1> QED BY <1>1, <1>2

LEMMA CursorFields ==
    ASSUME NEW c \in Consoles
    PROVE  /\ HideCursor(c) \in Consoles /\ Same(HideCursor(c), c)
           /\ \A p \in Panel :
                  HideCursor(c).cell[p] = IF p = c.cur THEN Blank ELSE c.cell[p]
           /\ ShowCursor(c) \in Consoles /\ Same(ShowCursor(c), c)
           /\ \A p \in Panel :
                  ShowCursor(c).cell[p] = IF p = c.cur THEN Mark ELSE c.cell[p]
  <1>1. Blank \in Chars /\ Mark \in Chars
    BY DEF Chars
  <1> QED BY <1>1, DrawFields DEF HideCursor, ShowCursor

(* A row up, and a blank row.                                              *)
Below(c, p) == IF p[1] < Rows THEN c.cell[<<p[1] + 1, p[2]>>] ELSE Blank

LEMMA ScrollFields ==
    ASSUME NEW c \in Consoles
    PROVE  /\ Scroll(c) \in Consoles /\ Same(Scroll(c), c)
           /\ \A p \in Panel : Scroll(c).cell[p] = Below(c, p)
  <1> DEFINE raised == [at \in Panel |-> Below(c, at)]
  <1>1. raised \in Cells /\ \A p \in Panel : raised[p] = Below(c, p)
    <2>1. Blank \in Chars
      BY DEF Chars
    <2>2. ASSUME NEW at \in Panel PROVE Below(c, at) \in Chars
      <3>1. at[1] < Rows => <<at[1] + 1, at[2]>> \in Panel
        BY PanelPlaces, Sizes
      <3> QED BY <2>1, <3>1, ConsoleFields DEF Below, Cells
    <2> QED BY <2>2 DEF Cells
  <1>2. Scroll(c) = [c EXCEPT !.cell = raised]
    BY DEF Scroll, Below, Consoles
  <1> HIDE DEF raised
  <1> QED BY <1>1, <1>2 DEF Consoles, Same

LEMMA ClearedFields ==
    ASSUME NEW c \in Consoles
    PROVE  /\ Cleared(c) \in Consoles /\ Same(Cleared(c), c)
           /\ \A p \in Panel : Cleared(c).cell[p] = Blank
  <1> DEFINE blank == [at \in Panel |-> Blank]
  <1>1. blank \in Cells /\ \A p \in Panel : blank[p] = Blank
    BY DEF Cells, Chars
  <1>2. Cleared(c) = [c EXCEPT !.cell = blank]
    BY DEF Cleared
  <1> HIDE DEF blank
  <1> QED BY <1>1, <1>2 DEF Consoles, Same

(* The text cursor put elsewhere, or the drawn one.                        *)
Put(d, c, col, row) ==
    /\ d \in Consoles /\ d.col = col /\ d.row = row
    /\ d.cur = c.cur /\ d.out = c.out /\ d.off = c.off /\ d.cell = c.cell

LEMMA PutFields ==
    ASSUME NEW c \in Consoles, NEW col \in -1 .. Cols, NEW row \in 0 .. Rows
    PROVE  Put([c EXCEPT !.col = col, !.row = row], c, col, row)
  BY DEF Consoles, Put

PutCursor(d, c, cur) ==
    /\ d \in Consoles /\ d.cur = cur /\ d.col = c.col /\ d.row = c.row
    /\ d.out = c.out /\ d.off = c.off /\ d.cell = c.cell

LEMMA CursorPut ==
    ASSUME NEW c \in Consoles, NEW cur \in Cursors
    PROVE  PutCursor([c EXCEPT !.cur = cur], c, cur)
  BY DEF Consoles, PutCursor

(* locate.                                                                 *)
LEMMA LocateFields ==
    ASSUME NEW c \in Consoles, NEW col \in -1 .. Cols + 1, NEW row \in 0 .. Rows + 1
    PROVE  /\ Locate(c, col, row) \in Consoles
           /\ Locate(c, col, row).cur = c.cur /\ Locate(c, col, row).out = c.out
           /\ Locate(c, col, row).off = c.off
           /\ Locate(c, col, row).col =
                  IF Wraps(col) \/ Scrolls(col, row) THEN 0 ELSE col
           /\ ~Scrolls(col, row) => /\ Locate(c, col, row).row = NewRow(col, row)
                                    /\ Locate(c, col, row).cell = c.cell
           /\ Scrolls(col, row) /\ c.out = "text" =>
                  /\ Locate(c, col, row).row = Rows
                  /\ \A p \in Panel : Locate(c, col, row).cell[p] = Below(c, p)
           /\ Scrolls(col, row) /\ c.out # "text" =>
                  /\ Locate(c, col, row).row = 0
                  /\ Locate(c, col, row).cell = c.cell
  <1>1. CASE ~Scrolls(col, row)
    <2>1. PICK x, y : x = (IF Wraps(col) THEN 0 ELSE col) /\ y = NewRow(col, row)
      OBVIOUS
    <2>2. x \in -1 .. Cols /\ y \in 0 .. Rows
      BY <1>1, <2>1, Sizes DEF Scrolls, NewRow, Wraps
    <2>3. Locate(c, col, row) = [c EXCEPT !.col = x, !.row = y]
      BY <1>1, <2>1 DEF Locate
    <2>4. Put(Locate(c, col, row), c, x, y)
      BY <2>2, <2>3, PutFields
    <2> QED BY <1>1, <2>1, <2>4 DEF Put
  <1>2. CASE Scrolls(col, row) /\ c.out = "text"
    <2>1. Locate(c, col, row) = [Scroll(c) EXCEPT !.col = 0, !.row = Rows]
      BY <1>2 DEF Locate
    <2>2. PICK d \in Consoles : /\ d = Scroll(c) /\ Same(d, c)
                                /\ \A p \in Panel : d.cell[p] = Below(c, p)
      BY ScrollFields
    <2>3. Locate(c, col, row) = [d EXCEPT !.col = 0, !.row = Rows]
      BY <2>1, <2>2
    <2>4. 0 \in -1 .. Cols /\ Rows \in 0 .. Rows
      BY Sizes
    <2>5. Put(Locate(c, col, row), d, 0, Rows)
      BY <2>3, <2>4, PutFields
    <2> QED BY <1>2, <2>2, <2>5 DEF Put, Same
  <1>3. CASE Scrolls(col, row) /\ c.out # "text"
    <2>1. Locate(c, col, row) = [c EXCEPT !.col = 0, !.row = 0]
      BY <1>3 DEF Locate
    <2>2. 0 \in -1 .. Cols /\ 0 \in 0 .. Rows
      BY Sizes
    <2>3. Put(Locate(c, col, row), c, 0, 0)
      BY <2>1, <2>2, PutFields
    <2> QED BY <1>3, <2>3 DEF Put
  <1> QED BY <1>1, <1>2, <1>3

LEMMA HereOnPanel ==
    ASSUME NEW c \in Consoles, c.col >= 0
    PROVE  Here(c) \in Panel /\ Here(c) \in Cursors /\ Here(c) = <<c.row, c.col>>
  BY ConsoleFields, Sizes DEF Here, Panel, Cursors

LEMMA WriteBlankFields ==
    ASSUME NEW c \in Consoles, c.col >= 0
    PROVE  /\ WriteBlank(c) \in Consoles
           /\ WriteBlank(c).col = c.col /\ WriteBlank(c).row = c.row
           /\ WriteBlank(c).cur = Here(c)
           /\ WriteBlank(c).out = c.out /\ WriteBlank(c).off = c.off
           /\ \A p \in Panel :
                  WriteBlank(c).cell[p] =
                      IF p = Here(c) THEN Mark
                      ELSE IF p = c.cur THEN Blank ELSE c.cell[p]
  <1>1. PICK h \in Consoles :
            /\ h = HideCursor(c) /\ Same(h, c)
            /\ \A p \in Panel : h.cell[p] = IF p = c.cur THEN Blank ELSE c.cell[p]
    BY CursorFields
  <1>2. Blank \in Chars
    BY DEF Chars
  <1>3. PICK e \in Consoles :
            /\ e = Draw(h, Here(c), Blank) /\ Same(e, h)
            /\ \A p \in Panel : e.cell[p] = IF p = Here(c) THEN Blank ELSE h.cell[p]
    BY <1>2, DrawFields
  <1>4. PICK m : m = [e EXCEPT !.cur = Here(c)]
    OBVIOUS
  <1>5. PutCursor(m, e, Here(c))
    BY <1>4, CursorPut, HereOnPanel
  <1>6. WriteBlank(c) = ShowCursor(m)
    BY <1>1, <1>3, <1>4 DEF WriteBlank
  <1>7. m \in Consoles
    BY <1>5 DEF PutCursor
  <1>8. /\ ShowCursor(m) \in Consoles /\ Same(ShowCursor(m), m)
        /\ \A p \in Panel : ShowCursor(m).cell[p] = IF p = m.cur THEN Mark ELSE m.cell[p]
    BY <1>7, CursorFields
  <1> QED BY <1>1, <1>3, <1>5, <1>6, <1>8 DEF Same, PutCursor

(* writec. A character is put at the text cursor, where the drawn one goes *)
(* away.                                                                   *)
Written(c, ch, p) ==
    IF p = Here(c) THEN ch ELSE IF p = c.cur THEN Blank ELSE c.cell[p]

Typing(c, ch) ==
    [Draw(HideCursor(c), Here(c), ch) EXCEPT !.cur = <<c.row, c.col + 1>>]

LEMMA TypingFields ==
    ASSUME NEW c \in Consoles, c.col >= 0, NEW ch \in Chars
    PROVE  /\ Typing(c, ch) \in Consoles
           /\ Typing(c, ch).col = c.col /\ Typing(c, ch).row = c.row
           /\ Typing(c, ch).cur = <<c.row, c.col + 1>>
           /\ Typing(c, ch).out = c.out /\ Typing(c, ch).off = c.off
           /\ \A p \in Panel : Typing(c, ch).cell[p] = Written(c, ch, p)
  <1>1. PICK h \in Consoles :
            /\ h = HideCursor(c) /\ Same(h, c)
            /\ \A p \in Panel : h.cell[p] = IF p = c.cur THEN Blank ELSE c.cell[p]
    BY CursorFields
  <1>2. PICK e \in Consoles :
            /\ e = Draw(h, Here(c), ch) /\ Same(e, h)
            /\ \A p \in Panel : e.cell[p] = IF p = Here(c) THEN ch ELSE h.cell[p]
    BY DrawFields
  <1>3. <<c.row, c.col + 1>> \in Cursors
    BY ConsoleFields, Sizes DEF Cursors
  <1>4. PICK m : m = [e EXCEPT !.cur = <<c.row, c.col + 1>>]
    OBVIOUS
  <1>5. PutCursor(m, e, <<c.row, c.col + 1>>)
    BY <1>3, <1>4, CursorPut
  <1>6. Typing(c, ch) = m
    BY <1>1, <1>2, <1>4 DEF Typing
  <1> QED BY <1>1, <1>2, <1>5, <1>6 DEF Same, PutCursor, Written

LEMMA AfterRange ==
    ASSUME NEW c \in Consoles, c.col >= 0
    PROVE  /\ After(c)[1] \in 0 .. Rows /\ After(c)[2] \in 0 .. Cols + 1
           /\ Scrolls(After(c)[2], After(c)[1]) => Wraps(After(c)[2])
           /\ Wraps(After(c)[2]) <=> c.col = Cols
           /\ Wraps(After(c)[2]) => After(c) = <<c.row, c.col + 1>>
  <1>1. /\ c.col \in 0 .. Cols /\ c.row \in 0 .. Rows /\ Cols \in Nat /\ Rows \in Nat
        /\ Rows >= 1 /\ Cols >= 2
    BY ConsoleFields, Sizes
  <1> QED BY <1>1 DEF After, Scrolls, NewRow, Wraps

LEMMA WriteCharStays ==
    ASSUME NEW c \in Consoles, c.col >= 0, NEW ch \in Chars, ~Wraps(After(c)[2])
    PROVE  /\ WriteChar(c, ch) \in Consoles
           /\ WriteChar(c, ch).row = After(c)[1] /\ WriteChar(c, ch).col = After(c)[2]
           /\ WriteChar(c, ch).cur = <<c.row, c.col + 1>>
           /\ WriteChar(c, ch).out = c.out /\ WriteChar(c, ch).off = c.off
           /\ \A p \in Panel :
                  WriteChar(c, ch).cell[p] =
                      IF p = <<c.row, c.col + 1>> THEN Mark ELSE Written(c, ch, p)
  <1>1. PICK e \in Consoles :
            /\ e = Typing(c, ch) /\ e.col = c.col /\ e.row = c.row
            /\ e.cur = <<c.row, c.col + 1>> /\ e.out = c.out /\ e.off = c.off
            /\ \A p \in Panel : e.cell[p] = Written(c, ch, p)
    BY TypingFields
  <1>2. After(e) = After(c)
    BY <1>1 DEF After
  <1>3. PICK col, row : col = After(c)[2] /\ row = After(c)[1]
    OBVIOUS
  <1>4. /\ col \in -1 .. Cols + 1 /\ row \in 0 .. Rows + 1
        /\ ~Wraps(col) /\ ~Scrolls(col, row) /\ NewRow(col, row) = row
    BY <1>3, AfterRange, Sizes DEF NewRow
  <1>5. PICK m \in Consoles :
            /\ m = Locate(e, col, row) /\ m.cur = e.cur /\ m.out = e.out /\ m.off = e.off
            /\ m.col = col /\ m.row = row /\ m.cell = e.cell
    BY <1>4, LocateFields
  <1>6. Advance(e) = m
    BY <1>2, <1>3, <1>4, <1>5 DEF Advance, Changes
  <1>7. WriteChar(c, ch) = ShowCursor(m)
    BY <1>1, <1>6 DEF WriteChar, Typing
  <1>8. /\ ShowCursor(m) \in Consoles /\ Same(ShowCursor(m), m)
        /\ \A p \in Panel : ShowCursor(m).cell[p] = IF p = m.cur THEN Mark ELSE m.cell[p]
    BY CursorFields
  <1> QED BY <1>1, <1>3, <1>5, <1>7, <1>8 DEF Same

LEMMA WriteCharWraps ==
    ASSUME NEW c \in Consoles, c.col >= 0, c.out = "text", NEW ch \in Chars,
           Wraps(After(c)[2])
    PROVE  /\ WriteChar(c, ch) \in Consoles
           /\ WriteChar(c, ch).row = IF c.row = Rows THEN Rows ELSE c.row + 1
           /\ WriteChar(c, ch).col = 0 /\ WriteChar(c, ch).cur = Here(WriteChar(c, ch))
           /\ WriteChar(c, ch).out = c.out /\ WriteChar(c, ch).off = c.off
           /\ \A p \in Panel :
                  WriteChar(c, ch).cell[p] =
                      IF p = Here(WriteChar(c, ch)) THEN Mark
                      ELSE IF c.row < Rows THEN Written(c, ch, p)
                      ELSE IF p[1] < Rows THEN Written(c, ch, <<p[1] + 1, p[2]>>)
                      ELSE Blank
  <1>1. PICK e \in Consoles :
            /\ e = Typing(c, ch) /\ e.col = c.col /\ e.row = c.row
            /\ e.cur = <<c.row, c.col + 1>> /\ e.out = c.out /\ e.off = c.off
            /\ \A p \in Panel : e.cell[p] = Written(c, ch, p)
    BY TypingFields
  <1>2. After(e) = After(c)
    BY <1>1 DEF After
  <1>3. PICK col, row : col = After(c)[2] /\ row = After(c)[1]
    OBVIOUS
  <1>4. /\ col \in -1 .. Cols + 1 /\ row \in 0 .. Rows + 1
        /\ Wraps(col) /\ c.col = Cols /\ col = c.col + 1 /\ row = c.row
        /\ NewRow(col, row) = c.row + 1 /\ (Scrolls(col, row) <=> c.row = Rows)
    BY <1>3, AfterRange, ConsoleFields, Sizes DEF NewRow, Scrolls
  <1>5. PICK m \in Consoles :
            /\ m = Locate(e, col, row) /\ m.cur = e.cur /\ m.out = e.out /\ m.off = e.off
            /\ m.col = 0 /\ m.row = IF c.row = Rows THEN Rows ELSE c.row + 1
            /\ c.row # Rows => m.cell = e.cell
            /\ c.row = Rows => \A p \in Panel : m.cell[p] = Below(e, p)
    BY <1>1, <1>4, LocateFields
  <1>6. Advance(e) = WriteBlank(m)
    BY <1>1, <1>2, <1>3, <1>4, <1>5 DEF Advance, Changes, Reposition
  <1>7. PICK b \in Consoles :
            /\ b = WriteBlank(m) /\ b.col = m.col /\ b.row = m.row /\ b.cur = Here(m)
            /\ b.out = m.out /\ b.off = m.off
            /\ \A p \in Panel : b.cell[p] = IF p = Here(m) THEN Mark
                                            ELSE IF p = m.cur THEN Blank ELSE m.cell[p]
    BY <1>5, WriteBlankFields
  <1>8. WriteChar(c, ch) = ShowCursor(b)
    BY <1>1, <1>6, <1>7 DEF WriteChar, Typing
  <1>9. PICK d \in Consoles :
            /\ d = ShowCursor(b) /\ Same(d, b)
            /\ \A p \in Panel : d.cell[p] = IF p = b.cur THEN Mark ELSE b.cell[p]
    BY CursorFields
  <1>10. Here(d) = Here(m)
    BY <1>7, <1>9 DEF Same, Here
  <1>11. \A p \in Panel : p # m.cur
    BY <1>1, <1>4, <1>5, PanelPlaces, Sizes
  <1>12. \A p \in Panel : d.cell[p] = IF p = Here(d) THEN Mark ELSE m.cell[p]
    BY <1>7, <1>9, <1>10, <1>11
  <1>13. ASSUME NEW p \in Panel
         PROVE  m.cell[p] = IF c.row < Rows THEN Written(c, ch, p)
                            ELSE IF p[1] < Rows THEN Written(c, ch, <<p[1] + 1, p[2]>>)
                            ELSE Blank
    <2>1. p[1] < Rows => <<p[1] + 1, p[2]>> \in Panel
      BY PanelPlaces, Sizes
    <2> QED BY <1>1, <1>5, <2>1, ConsoleFields, Sizes DEF Below
  <1> QED BY <1>1, <1>5, <1>7, <1>8, <1>9, <1>10, <1>12, <1>13 DEF Same

(* Backspace.                                                              *)
LEMMA BackspaceFields ==
    ASSUME NEW c \in Consoles, c.col >= 1, ~(c.row = Rows - 1 /\ c.col = Cols),
           NEW b, b = WriteBackspace([c EXCEPT !.col = @ - 1]),
           NEW d, d = Locate(b, b.col - 1, b.row)
    PROVE  /\ d \in Consoles /\ d.row = c.row /\ d.col = c.col - 1 /\ d.cur = Here(d)
           /\ d.out = c.out /\ d.off = c.off
           /\ \A p \in Panel :
                  d.cell[p] = IF p = <<c.row, c.col - 1>> THEN Mark
                              ELSE IF p = c.cur THEN Blank ELSE c.cell[p]
  <1>0. /\ c.col \in 1 .. Cols /\ c.row \in 0 .. Rows /\ Cols \in Nat /\ Rows \in Nat
    BY ConsoleFields, Sizes
  <1>1. PICK x : x = [c EXCEPT !.col = c.col - 1]
    OBVIOUS
  <1>2. /\ x \in Consoles /\ x.col = c.col - 1 /\ x.row = c.row /\ x.cur = c.cur
        /\ x.out = c.out /\ x.off = c.off /\ x.cell = c.cell
    BY <1>0, <1>1 DEF Consoles
  <1>3. PICK h \in Consoles :
            /\ h = HideCursor(x) /\ Same(h, x)
            /\ \A p \in Panel : h.cell[p] = IF p = x.cur THEN Blank ELSE x.cell[p]
    BY <1>2, CursorFields
  <1>4. PICK e \in Consoles :
            /\ e = Draw(h, Here(x), Blank) /\ Same(e, h)
            /\ \A p \in Panel : e.cell[p] = IF p = Here(x) THEN Blank ELSE h.cell[p]
    <2>1. Blank \in Chars
      BY DEF Chars
    <2> QED BY <2>1, DrawFields
  <1>5. Here(x) = <<c.row, c.col - 1>> /\ Here(x) \in Cursors
    BY <1>0, <1>2, HereOnPanel
  <1>6. PICK m : m = [e EXCEPT !.cur = Here(x)]
    OBVIOUS
  <1>7. PutCursor(m, e, Here(x))
    BY <1>5, <1>6, CursorPut
  <1>8. After(m) = <<c.row, c.col>>
    <2>1. m.row = c.row /\ m.col + 1 = c.col
      BY <1>0, <1>2, <1>3, <1>4, <1>7 DEF Same, PutCursor
    <2> QED BY <2>1 DEF After
  <1>9. /\ ~Wraps(c.col) /\ ~Scrolls(c.col, c.row) /\ NewRow(c.col, c.row) = c.row
        /\ ~Wraps(c.col - 1) /\ ~Scrolls(c.col - 1, c.row) /\ NewRow(c.col - 1, c.row) = c.row
    BY <1>0 DEF Wraps, Scrolls, NewRow
  <1>10. m \in Consoles
    BY <1>7 DEF PutCursor
  <1>11. PICK a \in Consoles :
            /\ a = Locate(m, c.col, c.row) /\ a.cur = m.cur /\ a.out = m.out
            /\ a.off = m.off /\ a.col = c.col /\ a.row = c.row /\ a.cell = m.cell
    BY <1>0, <1>9, <1>10, LocateFields
  <1>12. Advance(m) = a
    BY <1>8, <1>9, <1>11 DEF Advance, Changes
  <1>13. b = ShowCursor(a)
    BY <1>1, <1>3, <1>4, <1>6, <1>12 DEF WriteBackspace
  <1>14. /\ b \in Consoles /\ Same(b, a)
         /\ \A p \in Panel : b.cell[p] = IF p = a.cur THEN Mark ELSE a.cell[p]
    <2>1. /\ ShowCursor(a) \in Consoles /\ Same(ShowCursor(a), a)
          /\ \A p \in Panel :
                 ShowCursor(a).cell[p] = IF p = a.cur THEN Mark ELSE a.cell[p]
      BY CursorFields
    <2> QED BY <1>13, <2>1
  <1>15. b.col - 1 = c.col - 1 /\ b.row = c.row
    BY <1>11, <1>14 DEF Same
  <1>16. /\ d \in Consoles /\ d.cur = b.cur /\ d.out = b.out /\ d.off = b.off
         /\ d.col = c.col - 1 /\ d.row = c.row /\ d.cell = b.cell
    BY <1>0, <1>9, <1>14, <1>15, LocateFields
  <1>17. d.cur = Here(d)
    BY <1>5, <1>7, <1>11, <1>14, <1>16 DEF Same, PutCursor, Here
  <1> QED BY <1>2, <1>3, <1>4, <1>5, <1>7, <1>11, <1>14, <1>16, <1>17 DEF Same, PutCursor

(* clearScr.                                                               *)
LEMMA ClearFields ==
    ASSUME NEW c \in Consoles
    PROVE  /\ Clear(c) \in Consoles /\ Clear(c).out = c.out /\ Clear(c).off = c.off
           /\ \A p \in Panel : Clear(c).cell[p] \in {Blank, Mark}
           /\ c.out = "text" => Clear(c).col = 0
  <1>1. PICK e \in Consoles :
            e = Cleared(c) /\ Same(e, c) /\ \A p \in Panel : e.cell[p] = Blank
    BY ClearedFields
  <1>2. ~Wraps(0) /\ ~Scrolls(0, 0) /\ 0 \in -1 .. Cols + 1 /\ 0 \in 0 .. Rows + 1
    BY Sizes DEF Wraps, Scrolls, NewRow
  <1>3. PICK m \in Consoles :
            /\ m = Locate(e, 0, 0) /\ m.cur = e.cur /\ m.out = e.out /\ m.off = e.off
            /\ m.col = 0 /\ m.cell = e.cell
    BY <1>2, LocateFields
  <1>4. Clear(c) = Reposition(m)
    BY <1>1, <1>3 DEF Clear
  <1>5. CASE c.out = "text"
    <2>1. Clear(c) = WriteBlank(m)
      BY <1>1, <1>3, <1>4, <1>5 DEF Reposition, Same
    <2>2. /\ WriteBlank(m) \in Consoles /\ WriteBlank(m).col = m.col
          /\ WriteBlank(m).out = m.out /\ WriteBlank(m).off = m.off
          /\ \A p \in Panel :
                 WriteBlank(m).cell[p] = IF p = Here(m) THEN Mark
                                         ELSE IF p = m.cur THEN Blank ELSE m.cell[p]
      BY <1>3, WriteBlankFields
    <2> QED BY <1>1, <1>3, <2>1, <2>2 DEF Same
  <1>6. CASE c.out # "text"
    <2>1. Clear(c) = [m EXCEPT !.col = m.col - 1]
      BY <1>1, <1>3, <1>4, <1>6 DEF Reposition, Same
    <2>2. /\ [m EXCEPT !.col = m.col - 1] \in Consoles
          /\ [m EXCEPT !.col = m.col - 1].out = m.out
          /\ [m EXCEPT !.col = m.col - 1].off = m.off
          /\ [m EXCEPT !.col = m.col - 1].cell = m.cell
      BY <1>3, Sizes DEF Consoles
    <2> QED BY <1>1, <1>3, <1>6, <2>1, <2>2 DEF Same
  <1> QED BY <1>5, <1>6

(* writes, one character.                                                  *)
LEMMA EndLineFields ==
    ASSUME NEW c \in Consoles
    PROVE  /\ EndLine(c) \in Consoles /\ EndLine(c).cur = c.cur
           /\ EndLine(c).out = c.out /\ EndLine(c).off = FALSE /\ EndLine(c).col = 0
           /\ c.row < Rows \/ c.out # "text" => EndLine(c).cell = c.cell
           /\ c.row < Rows => EndLine(c).row = c.row + 1
           /\ c.row = Rows /\ c.out = "text" =>
                  /\ EndLine(c).row = Rows
                  /\ \A p \in Panel : EndLine(c).cell[p] = Below(c, p)
  <1>1. PICK e : e = [c EXCEPT !.off = FALSE]
    OBVIOUS
  <1>2. /\ e \in Consoles /\ e.col = c.col /\ e.row = c.row /\ e.cur = c.cur
        /\ e.out = c.out /\ e.off = FALSE /\ e.cell = c.cell
    BY <1>1 DEF Consoles
  <1>3. /\ ~Wraps(0) /\ 0 \in -1 .. Cols + 1 /\ c.row + 1 \in 0 .. Rows + 1
        /\ NewRow(0, c.row + 1) = c.row + 1 /\ (Scrolls(0, c.row + 1) <=> ~(c.row < Rows))
        /\ c.row < Rows \/ c.row = Rows
    BY ConsoleFields, Sizes DEF Wraps, Scrolls, NewRow
  <1>4. PICK row : row = c.row + 1
    OBVIOUS
  <1>5. EndLine(c) = Locate(e, 0, row)
    BY <1>1, <1>4 DEF EndLine
  <1>6. PICK d \in Consoles :
            /\ d = Locate(e, 0, row) /\ d.cur = e.cur /\ d.out = e.out /\ d.off = e.off
            /\ d.col = 0
            /\ c.row < Rows => d.row = row /\ d.cell = e.cell
            /\ ~(c.row < Rows) /\ e.out = "text" =>
                  d.row = Rows /\ \A p \in Panel : d.cell[p] = Below(e, p)
            /\ ~(c.row < Rows) /\ e.out # "text" => d.cell = e.cell
    BY <1>2, <1>3, <1>4, LocateFields
  <1>7. \A p \in Panel : Below(e, p) = Below(c, p)
    BY <1>2 DEF Below
  <1>8. /\ d.out = c.out /\ d.off = FALSE /\ d.cur = c.cur
        /\ c.row < Rows => d.row = c.row + 1
        /\ c.row < Rows \/ c.out # "text" => d.cell = c.cell
    BY <1>2, <1>4, <1>6
  <1>9. c.row = Rows /\ c.out = "text" =>
            d.row = Rows /\ \A p \in Panel : d.cell[p] = Below(c, p)
    BY <1>2, <1>3, <1>6, <1>7, Sizes
  <1> QED BY <1>5, <1>6, <1>8, <1>9

Inked(c, ch) ==
    [IF OffPanel(c) THEN c ELSE Draw(c, Here(c), ch)
     EXCEPT !.off = OffPanel(c),
            !.cur = <<c.row, IF OffPanel(c) THEN Cols + 1 ELSE c.col + 1>>]

LEMMA InkedFields ==
    ASSUME NEW c \in Consoles, NEW ch \in Chars
    PROVE  /\ Inked(c, ch) \in Consoles
           /\ Inked(c, ch).col = c.col /\ Inked(c, ch).row = c.row
           /\ Inked(c, ch).out = c.out /\ Inked(c, ch).off = OffPanel(c)
           /\ ~OffPanel(c) => Inked(c, ch).cur = <<c.row, c.col + 1>>
           /\ \A p \in Panel :
                  Inked(c, ch).cell[p] =
                      IF ~OffPanel(c) /\ p = Here(c) THEN ch ELSE c.cell[p]
  <1>1. PICK off \in BOOLEAN : off = OffPanel(c)
    BY ConsoleFields DEF OffPanel
  <1>2. PICK e \in Consoles :
            /\ e = (IF off THEN c ELSE Draw(c, Here(c), ch)) /\ Same(e, c)
            /\ \A p \in Panel : e.cell[p] = IF ~off /\ p = Here(c) THEN ch ELSE c.cell[p]
    <2>1. CASE off
      BY <2>1 DEF Same
    <2>2. CASE ~off
      BY <2>2, DrawFields
    <2> QED BY <1>1, <2>1, <2>2
  <1>3. PICK cur : cur = <<c.row, IF off THEN Cols + 1 ELSE c.col + 1>>
    OBVIOUS
  <1>4. cur \in Cursors
    <2>1. ~OffPanel(c) => c.col >= 0
      BY ConsoleFields DEF OffPanel
    <2> QED BY <1>1, <1>3, <2>1, ConsoleFields, Sizes DEF Cursors
  <1>5. Inked(c, ch) = [e EXCEPT !.off = off, !.cur = cur]
    BY <1>1, <1>2, <1>3 DEF Inked
  <1>6. PICK m : m = [e EXCEPT !.off = off, !.cur = cur]
    OBVIOUS
  <1>7. /\ m \in Consoles /\ m.off = off /\ m.cur = cur /\ m.col = e.col
        /\ m.row = e.row /\ m.out = e.out /\ m.cell = e.cell
    BY <1>4, <1>6 DEF Consoles
  <1> QED BY <1>1, <1>2, <1>3, <1>5, <1>6, <1>7 DEF Same

LEMMA PrintCases ==
    ASSUME NEW c, NEW ch
    PROVE  PrintChar(c, ch) = IF ch = NL THEN EndLine(c)
                              ELSE IF Wraps(c.col + 1) THEN EndLine(Inked(c, ch))
                              ELSE Locate(Inked(c, ch), c.col + 1, c.row)
  BY DEF PrintChar, Inked

(* Of any console: a text, or the interface.                               *)
LEMMA PrintKeeps ==
    ASSUME NEW c \in Consoles, NEW ch \in Chars \cup {NL}
    PROVE  /\ PrintChar(c, ch) \in Consoles /\ PrintChar(c, ch).out = c.out
           /\ c.col >= 0 /\ ~c.off => PrintChar(c, ch).col >= 0 /\ ~PrintChar(c, ch).off
           /\ ch # Key /\ (\A p \in Panel : c.cell[p] # Key) =>
                  \A p \in Panel : PrintChar(c, ch).cell[p] # Key
  <1>0. ASSUME NEW x \in Consoles
        PROVE  /\ EndLine(x) \in Consoles /\ EndLine(x).out = x.out
               /\ EndLine(x).col >= 0 /\ ~EndLine(x).off
               /\ (\A p \in Panel : x.cell[p] # Key) =>
                      \A p \in Panel : EndLine(x).cell[p] # Key
    <2>1. /\ EndLine(x) \in Consoles /\ EndLine(x).out = x.out
          /\ EndLine(x).col = 0 /\ EndLine(x).off = FALSE
          /\ x.row < Rows \/ x.out # "text" => EndLine(x).cell = x.cell
          /\ x.row = Rows /\ x.out = "text" =>
                 \A p \in Panel : EndLine(x).cell[p] = Below(x, p)
      BY EndLineFields
    <2>2. x.row < Rows \/ x.row = Rows
      BY ConsoleFields, Sizes
    <2>3. ASSUME \A p \in Panel : x.cell[p] # Key, NEW p \in Panel
          PROVE  Below(x, p) # Key
      <3>1. p[1] < Rows => <<p[1] + 1, p[2]>> \in Panel
        BY PanelPlaces, Sizes
      <3> QED BY <2>3, <3>1, KeyApart DEF Below
    <2> QED BY <2>1, <2>2, <2>3
  <1>1. CASE ch = NL
    BY <1>0, <1>1, PrintCases
  <1>2. CASE ch # NL
    <2>1. ch \in Chars
      BY <1>2
    <2>2. PICK i \in Consoles :
              /\ i = Inked(c, ch) /\ i.col = c.col /\ i.row = c.row /\ i.out = c.out
              /\ i.off = OffPanel(c)
              /\ \A p \in Panel : i.cell[p] = IF ~OffPanel(c) /\ p = Here(c)
                                              THEN ch ELSE c.cell[p]
      BY <2>1, InkedFields
    <2>3. CASE Wraps(c.col + 1)
      <3>1. PrintChar(c, ch) = EndLine(i)
        BY <1>2, <2>2, <2>3, PrintCases
      <3> QED BY <1>0, <2>2, <3>1
    <2>4. CASE ~Wraps(c.col + 1)
      <3>1. PICK col, row : col = c.col + 1 /\ row = c.row
        OBVIOUS
      <3>2. /\ col \in -1 .. Cols + 1 /\ col >= 0 /\ row \in 0 .. Rows + 1 /\ ~Wraps(col)
            /\ ~Scrolls(col, row)
        BY <2>4, <3>1, ConsoleFields, Sizes DEF Scrolls, NewRow
      <3>3. PrintChar(c, ch) = Locate(i, col, row)
        BY <1>2, <2>2, <2>4, <3>1, PrintCases
      <3>4. PICK d \in Consoles :
                /\ d = Locate(i, col, row) /\ d.out = i.out /\ d.off = i.off
                /\ d.col = col /\ d.cell = i.cell
        BY <3>2, LocateFields
      <3>5. c.col >= 0 /\ ~c.off => ~OffPanel(c)
        BY ConsoleFields DEF OffPanel
      <3> QED BY <2>2, <3>2, <3>3, <3>4, <3>5
    <2> QED BY <2>3, <2>4
  <1> QED BY <1>1, <1>2

(* Of a text console: a new line, a character that stays in the row, and   *)
(* one that ends it.                                                       *)
LEMMA PrintLine ==
    ASSUME NEW c \in Consoles, c.out = "text"
    PROVE  /\ PrintChar(c, NL).cur = c.cur
           /\ ~PrintScrolls(c, NL) => PrintChar(c, NL).cell = c.cell
  <1>1. PrintChar(c, NL) = EndLine(c)
    BY PrintCases
  <1>2. c.row # Rows => c.row < Rows
    BY ConsoleFields, Sizes
  <1> QED BY <1>1, <1>2, EndLineFields DEF PrintScrolls

LEMMA PrintStays ==
    ASSUME NEW c \in Consoles, c.col >= 0, ~c.off, NEW ch \in Chars, ch # NL,
           ~Wraps(c.col + 1)
    PROVE  /\ PrintChar(c, ch).col = c.col + 1 /\ PrintChar(c, ch).row = c.row
           /\ PrintChar(c, ch).cur = <<c.row, c.col + 1>>
           /\ \A p \in Panel :
                  PrintChar(c, ch).cell[p] = IF p = Here(c) THEN ch ELSE c.cell[p]
  <1>1. ~OffPanel(c)
    BY ConsoleFields DEF OffPanel
  <1>2. PICK i \in Consoles :
            /\ i = Inked(c, ch) /\ i.cur = <<c.row, c.col + 1>>
            /\ \A p \in Panel : i.cell[p] = IF p = Here(c) THEN ch ELSE c.cell[p]
    BY <1>1, InkedFields
  <1>3. PICK col, row : col = c.col + 1 /\ row = c.row
    OBVIOUS
  <1>4. /\ col \in -1 .. Cols + 1 /\ row \in 0 .. Rows + 1 /\ ~Wraps(col)
        /\ ~Scrolls(col, row) /\ NewRow(col, row) = row
    BY <1>3, ConsoleFields, Sizes DEF Scrolls, NewRow
  <1>5. PrintChar(c, ch) = Locate(i, col, row)
    BY <1>2, <1>3, PrintCases
  <1>6. PICK d \in Consoles :
            /\ d = Locate(i, col, row) /\ d.cur = i.cur /\ d.col = col /\ d.row = row
            /\ d.cell = i.cell
    BY <1>4, LocateFields
  <1> QED BY <1>2, <1>3, <1>5, <1>6

LEMMA PrintWraps ==
    ASSUME NEW c \in Consoles, c.out = "text", c.col >= 0, ~c.off, NEW ch \in Chars,
           ch # NL, Wraps(c.col + 1)
    PROVE  /\ c.col = Cols
           /\ PrintChar(c, ch).col = 0 /\ PrintChar(c, ch).cur = <<c.row, Cols + 1>>
           /\ PrintChar(c, ch).row = IF c.row = Rows THEN Rows ELSE c.row + 1
           /\ \A p \in Panel :
                  PrintChar(c, ch).cell[p] =
                      IF c.row < Rows THEN IF p = Here(c) THEN ch ELSE c.cell[p]
                      ELSE IF p[1] < Rows
                      THEN IF <<p[1] + 1, p[2]>> = Here(c) THEN ch
                           ELSE c.cell[<<p[1] + 1, p[2]>>]
                      ELSE Blank
  <1>1. ~OffPanel(c) /\ c.col = Cols /\ (c.row < Rows \/ c.row = Rows) /\ ~(Rows < Rows)
    BY ConsoleFields, Sizes DEF OffPanel, Wraps
  <1>2. PICK i \in Consoles :
            /\ i = Inked(c, ch) /\ i.row = c.row /\ i.out = c.out
            /\ i.cur = <<c.row, c.col + 1>>
            /\ \A p \in Panel : i.cell[p] = IF p = Here(c) THEN ch ELSE c.cell[p]
    BY <1>1, InkedFields
  <1>3. PrintChar(c, ch) = EndLine(i)
    BY <1>2, PrintCases
  <1>4. PICK d \in Consoles :
            /\ d = EndLine(i) /\ d.cur = i.cur /\ d.col = 0
            /\ c.row < Rows => d.row = c.row + 1 /\ d.cell = i.cell
            /\ c.row = Rows => d.row = Rows /\ \A p \in Panel : d.cell[p] = Below(i, p)
    <2>1. /\ EndLine(i) \in Consoles /\ EndLine(i).cur = i.cur /\ EndLine(i).col = 0
          /\ i.row < Rows => EndLine(i).row = i.row + 1 /\ EndLine(i).cell = i.cell
          /\ i.row = Rows => /\ EndLine(i).row = Rows
                            /\ \A p \in Panel : EndLine(i).cell[p] = Below(i, p)
      BY <1>2, EndLineFields
    <2> QED BY <1>2, <2>1
  <1>5. ASSUME NEW p \in Panel
        PROVE  Below(i, p) = IF p[1] < Rows
                             THEN IF <<p[1] + 1, p[2]>> = Here(c) THEN ch
                                  ELSE c.cell[<<p[1] + 1, p[2]>>]
                             ELSE Blank
    <2>1. p[1] < Rows => <<p[1] + 1, p[2]>> \in Panel
      BY PanelPlaces, Sizes
    <2> QED BY <1>2, <2>1 DEF Below
  <1> QED BY <1>1, <1>2, <1>3, <1>4, <1>5

-----------------------------------------------------------------------------
(* What is before the text cursor stays, and moves up with the panel.      *)
Before(a, b) == a[1] < b[1] \/ (a[1] = b[1] /\ a[2] < b[2])

Raise(p, up) == <<p[1] - up, p[2]>>
Lower(p, up) == <<p[1] + up, p[2]>>

LEMMA RaisedPlaces ==
    ASSUME NEW p \in Places, NEW up \in Int
    PROVE  /\ Raise(p, up) \in Places
           /\ Raise(p, up)[1] = p[1] - up /\ Raise(p, up)[2] = p[2]
           /\ up = 0 => Raise(p, up) = p
  BY DEF Raise, Places

LEMMA PlaceParts ==
    ASSUME NEW p \in Places
    PROVE  p[1] \in Int /\ p[2] \in Int /\ p = <<p[1], p[2]>>
  BY DEF Places

(* A character is typed.                                                   *)
LEMMA TypeEffect ==
    ASSUME NEW c \in Consoles, c.col >= 0, c.out = "text", NEW ch \in Chars,
           NEW up, up = IF Scrolls(After(c)[2], After(c)[1]) THEN 1 ELSE 0,
           NEW d, d = WriteChar(c, ch)
    PROVE  /\ d \in Consoles /\ d.out = c.out /\ d.off = c.off /\ d.col >= 0
           /\ \/ d.col = c.col + 1 /\ d.row = c.row /\ up = 0
              \/ d.col = 0 /\ d.row = c.row + 1 - up
           /\ ~(d.row = Rows - 1 /\ d.col = Cols)
           /\ \A p \in Places : Before(p, Here(c)) =>
                  /\ Before(Raise(p, up), Here(d)) /\ Raise(p, up) # d.cur
                  /\ Raise(p, up) \in Panel /\ p # c.cur =>
                         p \in Panel /\ d.cell[Raise(p, up)] = c.cell[p]
           /\ Before(Raise(Here(c), up), Here(d)) /\ Raise(Here(c), up) # d.cur
           /\ Raise(Here(c), up) \in Panel => d.cell[Raise(Here(c), up)] = ch
           /\ \A p \in Panel : d.cell[p] = Key /\ ch # Key =>
                  Lower(p, up) \in Panel /\ c.cell[Lower(p, up)] = Key
  <1>0. /\ c.col \in 0 .. Cols /\ c.row \in 0 .. Rows /\ Cols \in Nat /\ Rows \in Nat
        /\ Cols >= 2 /\ Rows >= 1
        /\ Here(c) = <<c.row, c.col>> /\ Here(c) \in Panel /\ Here(c) \in Places
    BY ConsoleFields, Sizes, HereOnPanel DEF Here, Places
  <1>1. CASE ~Wraps(After(c)[2])
    <2>1. up = 0
      BY <1>1, AfterRange
    <2>2. /\ d \in Consoles /\ d.row = After(c)[1] /\ d.col = After(c)[2]
          /\ d.cur = <<c.row, c.col + 1>> /\ d.out = c.out /\ d.off = c.off
          /\ \A p \in Panel : d.cell[p] = IF p = <<c.row, c.col + 1>> THEN Mark
                                          ELSE Written(c, ch, p)
      BY <1>1, WriteCharStays
    <2>3. \/ d.col = c.col + 1 /\ d.row = c.row /\ ~(c.row = Rows - 1 /\ c.col + 1 = Cols)
          \/ d.col = 0 /\ d.row = c.row + 1 /\ c.col + 1 = Cols
      BY <2>2 DEF After
    <2>4. d.col >= 0 /\ ~(d.row = Rows - 1 /\ d.col = Cols)
      BY <1>0, <2>3
    <2>5. Here(d) = <<d.row, d.col>>
      BY DEF Here
    <2>6. ASSUME NEW p \in Places, Before(p, Here(c)) \/ p = Here(c)
          PROVE  Before(p, Here(d)) /\ p # d.cur
      BY <1>0, <2>2, <2>3, <2>5, <2>6, PlaceParts DEF Before
    <2>7. ASSUME NEW p \in Places, Before(p, Here(c)), p \in Panel, p # c.cur
          PROVE  d.cell[p] = c.cell[p]
      <3>1. p # Here(c)
        BY <1>0, <2>7 DEF Before
      <3>2. p # <<c.row, c.col + 1>>
        BY <2>2, <2>6, <2>7
      <3> QED BY <2>2, <2>7, <3>1, <3>2 DEF Written
    <2>8. d.cell[Here(c)] = ch
      <3>1. Here(c) # <<c.row, c.col + 1>>
        BY <1>0
      <3> QED BY <1>0, <2>2, <3>1 DEF Written
    <2>9. ASSUME NEW p \in Panel, d.cell[p] = Key, ch # Key
          PROVE  c.cell[p] = Key
      BY <2>2, <2>9, KeyApart DEF Written
    <2>10. \A p \in Panel : Lower(p, up) = p
      BY <2>1, PanelPlaces DEF Lower
    <2>11. \A p \in Places : Raise(p, up) = p
      BY <2>1, RaisedPlaces
    <2>12. \A p \in Places : Before(p, Here(c)) =>
              /\ Before(Raise(p, up), Here(d)) /\ Raise(p, up) # d.cur
              /\ Raise(p, up) \in Panel /\ p # c.cur =>
                     p \in Panel /\ d.cell[Raise(p, up)] = c.cell[p]
      BY <2>6, <2>7, <2>11
    <2>13. /\ Before(Raise(Here(c), up), Here(d)) /\ Raise(Here(c), up) # d.cur
           /\ Raise(Here(c), up) \in Panel => d.cell[Raise(Here(c), up)] = ch
      BY <1>0, <2>6, <2>8, <2>11
    <2>14. \/ d.col = c.col + 1 /\ d.row = c.row /\ up = 0
           \/ d.col = 0 /\ d.row = c.row + 1 - up
      BY <1>0, <2>1, <2>3
    <2> QED BY <2>2, <2>4, <2>9, <2>10, <2>12, <2>13, <2>14
  <1>2. CASE Wraps(After(c)[2])
    <2>1. /\ c.col = Cols /\ up = IF c.row = Rows THEN 1 ELSE 0
      BY <1>0, <1>2, AfterRange DEF Scrolls, NewRow
    <2>2. /\ d \in Consoles /\ d.row = c.row + 1 - up /\ d.col = 0 /\ d.cur = Here(d)
          /\ d.out = c.out /\ d.off = c.off
          /\ \A p \in Panel :
                 d.cell[p] = IF p = Here(d) THEN Mark
                             ELSE IF c.row < Rows THEN Written(c, ch, p)
                             ELSE IF p[1] < Rows THEN Written(c, ch, <<p[1] + 1, p[2]>>)
                             ELSE Blank
      BY <1>0, <1>2, <2>1, WriteCharWraps
    <2>3. Here(d) = <<c.row + 1 - up, 0>> /\ up \in {0, 1}
      BY <2>1, <2>2 DEF Here
    <2>4. ASSUME NEW p \in Places, Before(p, Here(c)) \/ p = Here(c)
          PROVE  /\ Before(Raise(p, up), Here(d)) /\ Raise(p, up) # Here(d)
                 /\ Raise(p, up) \in Panel => p \in Panel
      <3>1. p[1] \in Int /\ p[2] \in Int /\ p[1] <= c.row /\ p = <<p[1], p[2]>>
        BY <1>0, <2>4, PlaceParts DEF Before
      <3>2. Raise(p, up) = <<p[1] - up, p[2]>> /\ p[1] - up < c.row + 1 - up
        BY <1>0, <2>3, <3>1 DEF Raise
      <3>3. Raise(p, up) \in Panel => p[1] - up \in 0 .. Rows /\ p[2] \in 0 .. Cols
        BY <3>2, PanelPlaces
      <3>4. p[1] - up >= 0 /\ p[2] \in 0 .. Cols => p \in Panel
        BY <1>0, <2>3, <3>1, PanelPlaces
      <3> QED BY <1>0, <2>3, <3>1, <3>2, <3>3, <3>4 DEF Before
    <2>5. ASSUME NEW p \in Places, Before(p, Here(c)) \/ p = Here(c), Raise(p, up) \in Panel
          PROVE  d.cell[Raise(p, up)] = Written(c, ch, p)
      <3>1. p[1] \in Int /\ p[2] \in Int /\ p[1] <= c.row /\ p = <<p[1], p[2]>>
        BY <1>0, <2>5, PlaceParts DEF Before
      <3>2. Raise(p, up) # Here(d)
        BY <2>4, <2>5
      <3>3. CASE up = 0
        <4>1. c.row < Rows
          BY <1>0, <2>1, <3>3
        <4>2. Raise(p, up) = p
          BY <3>1, <3>3 DEF Raise
        <4> QED BY <2>2, <2>5, <3>2, <4>1, <4>2
      <3>4. CASE up = 1
        <4>1. /\ ~(c.row < Rows) /\ Raise(p, up)[1] < Rows
              /\ <<Raise(p, up)[1] + 1, Raise(p, up)[2]>> = p
          BY <1>0, <2>1, <3>1, <3>4 DEF Raise
        <4> QED BY <2>2, <2>5, <3>2, <4>1
      <3> QED BY <2>3, <3>3, <3>4
    <2>6. ASSUME NEW p \in Places, Before(p, Here(c)), Raise(p, up) \in Panel, p # c.cur
          PROVE  p \in Panel /\ d.cell[Raise(p, up)] = c.cell[p]
      <3>1. p # Here(c)
        BY <1>0, <2>6 DEF Before
      <3> QED BY <2>4, <2>5, <2>6, <3>1 DEF Written
    <2>7. Raise(Here(c), up) \in Panel => d.cell[Raise(Here(c), up)] = ch
      BY <1>0, <2>5 DEF Written
    <2>8. ASSUME NEW p \in Panel, d.cell[p] = Key, ch # Key
          PROVE  Lower(p, up) \in Panel /\ c.cell[Lower(p, up)] = Key
      <3>1. p = <<p[1], p[2]>> /\ p[1] \in 0 .. Rows /\ p[2] \in 0 .. Cols
        BY PanelPlaces
      <3>2. CASE up = 0
        <4>1. c.row < Rows /\ Lower(p, up) = p
          BY <1>0, <2>1, <3>1, <3>2 DEF Lower
        <4> QED BY <2>2, <2>8, <4>1, KeyApart DEF Written
      <3>3. CASE up = 1
        <4>1. ~(c.row < Rows) /\ Lower(p, up) = <<p[1] + 1, p[2]>>
          BY <1>0, <2>1, <3>1, <3>3 DEF Lower
        <4>2. p[1] < Rows /\ Written(c, ch, <<p[1] + 1, p[2]>>) = Key
          BY <2>2, <2>8, <4>1, KeyApart
        <4>3. <<p[1] + 1, p[2]>> \in Panel
          BY <1>0, <3>1, <4>2, PanelPlaces
        <4> QED BY <2>8, <4>1, <4>2, <4>3, KeyApart DEF Written
      <3> QED BY <2>3, <3>2, <3>3
    <2> QED BY <1>0, <2>1, <2>2, <2>3, <2>4, <2>6, <2>7, <2>8
  <1> QED BY <1>1, <1>2

(* The line moves with the panel.                                          *)
LEMMA KeptFields ==
    ASSUME NEW to, NEW seq \in Seq(Places),
           NEW up, up = IF Scrolls(to[2], to[1]) THEN 1 ELSE 0
    PROVE  /\ Kept(to, seq) \in Seq(Places) /\ Len(Kept(to, seq)) = Len(seq)
           /\ \A i \in 1 .. Len(seq) : Kept(to, seq)[i] = Raise(seq[i], up)
  <1>1. up \in Int /\ \A i \in 1 .. Len(seq) : seq[i] \in Places
    OBVIOUS
  <1>2. \A i \in 1 .. Len(seq) : Raise(seq[i], up) \in Places
    BY <1>1, RaisedPlaces
  <1>3. CASE up = 0
    BY <1>1, <1>3, RaisedPlaces DEF Kept
  <1>4. CASE up = 1
    <2>1. Kept(to, seq) = [i \in DOMAIN seq |-> <<seq[i][1] - 1, seq[i][2]>>]
      BY <1>4 DEF Kept
    <2>2. DOMAIN seq = 1 .. Len(seq)
      OBVIOUS
    <2>3. \A i \in 1 .. Len(seq) : <<seq[i][1] - 1, seq[i][2]>> = Raise(seq[i], up)
      BY <1>4 DEF Raise
    <2>4. Kept(to, seq) = [i \in 1 .. Len(seq) |-> Raise(seq[i], up)]
      BY <2>1, <2>2, <2>3
    <2> QED BY <1>2, <2>4
  <1>5. up = 0 \/ up = 1
    OBVIOUS
  <1> QED BY <1>3, <1>4, <1>5

(* A character of the prompt is printed.                                   *)
LEMMA PrintEffect ==
    ASSUME NEW c \in Consoles, c.col >= 0, c.out = "text", ~c.off,
           NEW ch \in Chars, ch # NL,
           NEW up, up = IF Scrolls(c.col + 1, c.row) THEN 1 ELSE 0,
           NEW d, d = PrintChar(c, ch)
    PROVE  /\ \/ d.col = c.col + 1 /\ d.row = c.row /\ up = 0 /\ d.cur = Here(d)
              \/ /\ c.col = Cols /\ d.col = 0 /\ d.row = c.row + 1 - up
                 /\ d.cur[2] = Cols + 1 /\ up \in {0, 1}
           /\ \A p \in Places : Before(p, Here(c)) \/ p = Here(c) =>
                  Before(Raise(p, up), Here(d)) /\ Raise(p, up) # d.cur
           /\ \A p \in Places : Before(p, Here(c)) /\ Raise(p, up) \in Panel =>
                  p \in Panel /\ d.cell[Raise(p, up)] = c.cell[p]
           /\ Raise(Here(c), up) \in Panel => d.cell[Raise(Here(c), up)] = ch
  <1>0. /\ c.col \in 0 .. Cols /\ c.row \in 0 .. Rows /\ Cols \in Nat /\ Rows \in Nat
        /\ Here(c) = <<c.row, c.col>> /\ Here(c) \in Panel /\ Here(c) \in Places
    BY ConsoleFields, Sizes, HereOnPanel DEF Here, Places
  <1>1. CASE ~Wraps(c.col + 1)
    <2>1. up = 0
      BY <1>0, <1>1 DEF Scrolls, NewRow
    <2>2. /\ d.col = c.col + 1 /\ d.row = c.row /\ d.cur = <<c.row, c.col + 1>>
          /\ \A p \in Panel : d.cell[p] = IF p = Here(c) THEN ch ELSE c.cell[p]
      BY <1>1, PrintStays
    <2>3. Here(d) = <<c.row, c.col + 1>>
      BY <2>2 DEF Here
    <2>4. ASSUME NEW p \in Places
          PROVE  /\ Before(p, Here(c)) \/ p = Here(c) => Before(p, Here(d)) /\ p # d.cur
                 /\ Before(p, Here(c)) => p # Here(c)
      BY <1>0, <2>2, <2>3, PlaceParts DEF Before
    <2>5. \A p \in Places : Raise(p, up) = p
      BY <2>1, RaisedPlaces
    <2> QED BY <1>0, <2>1, <2>2, <2>3, <2>4, <2>5
  <1>2. CASE Wraps(c.col + 1)
    <2>1. c.col = Cols /\ up = IF c.row = Rows THEN 1 ELSE 0
      BY <1>0, <1>2 DEF Wraps, Scrolls, NewRow
    <2>2. /\ d.col = 0 /\ d.cur = <<c.row, Cols + 1>> /\ d.row = c.row + 1 - up
          /\ \A p \in Panel :
                 d.cell[p] = IF c.row < Rows THEN IF p = Here(c) THEN ch ELSE c.cell[p]
                             ELSE IF p[1] < Rows
                             THEN IF <<p[1] + 1, p[2]>> = Here(c) THEN ch
                                  ELSE c.cell[<<p[1] + 1, p[2]>>]
                             ELSE Blank
      BY <1>0, <1>2, <2>1, PrintWraps
    <2>3. Here(d) = <<c.row + 1 - up, 0>> /\ up \in {0, 1}
      BY <2>1, <2>2 DEF Here
    <2>4. ASSUME NEW p \in Places, Before(p, Here(c)) \/ p = Here(c)
          PROVE  /\ p[1] \in Int /\ p[2] \in Int /\ p[1] <= c.row /\ p = <<p[1], p[2]>>
                 /\ p[1] = c.row => p[2] <= Cols
                 /\ Raise(p, up) = <<p[1] - up, p[2]>>
                 /\ Before(p, Here(c)) => p # Here(c)
      BY <1>0, <2>1, <2>4, PlaceParts DEF Before, Raise
    <2>5. ASSUME NEW p \in Places, Before(p, Here(c)) \/ p = Here(c)
          PROVE  Before(Raise(p, up), Here(d)) /\ Raise(p, up) # d.cur
      <3>1. /\ Raise(p, up)[1] = p[1] - up /\ Raise(p, up)[2] = p[2]
            /\ p[1] \in Int /\ p[2] \in Int /\ p[1] <= c.row
            /\ p[1] = c.row => p[2] <= Cols
        BY <2>4, <2>5
      <3>2. p[1] - up < c.row + 1 - up
        BY <1>0, <2>3, <3>1
      <3>3. ~(p[1] - up = c.row /\ p[2] = Cols + 1)
        BY <1>0, <2>3, <3>1
      <3> QED BY <2>2, <2>3, <3>1, <3>2, <3>3 DEF Before
    <2>6. ASSUME NEW p \in Places, Before(p, Here(c)) \/ p = Here(c), Raise(p, up) \in Panel
          PROVE  p \in Panel /\ d.cell[Raise(p, up)] = IF p = Here(c) THEN ch ELSE c.cell[p]
      <3>1. /\ p[1] \in Int /\ p[2] \in Int /\ p[1] <= c.row /\ p = <<p[1], p[2]>>
            /\ Raise(p, up) = <<p[1] - up, p[2]>>
        BY <2>4, <2>6
      <3>2. p[1] - up \in 0 .. Rows /\ p[2] \in 0 .. Cols
        BY <2>6, <3>1, PanelPlaces
      <3>3. p \in Panel
        BY <1>0, <2>3, <3>1, <3>2, PanelPlaces
      <3>4. CASE up = 0
        <4>1. c.row < Rows
          BY <1>0, <2>1, <3>4
        <4>2. Raise(p, up) = p
          BY <3>1, <3>4 DEF Raise
        <4> QED BY <2>2, <3>3, <4>1, <4>2
      <3>5. CASE up = 1
        <4>1. /\ ~(c.row < Rows) /\ Raise(p, up)[1] < Rows
              /\ <<Raise(p, up)[1] + 1, Raise(p, up)[2]>> = p
          BY <1>0, <2>1, <3>1, <3>5 DEF Raise
        <4> QED BY <2>2, <2>6, <3>3, <4>1
      <3> QED BY <2>3, <3>4, <3>5
    <2>7. \A p \in Places : Before(p, Here(c)) /\ Raise(p, up) \in Panel =>
              p \in Panel /\ d.cell[Raise(p, up)] = c.cell[p]
      BY <2>4, <2>6
    <2> QED BY <1>0, <2>1, <2>2, <2>3, <2>5, <2>6, <2>7
  <1> QED BY <1>1, <1>2

-----------------------------------------------------------------------------
(* The keyboard is drawn where under is, and nowhere when it is put away.  *)
KeyboardInv ==
    /\ kbd => pc = "edit"
    /\ ~smeared =>
           /\ \A at \in DOMAIN under : under[at] # Key
           /\ \A at \in Panel : con.cell[at] = Key => kbd /\ at \in DOMAIN under

-----------------------------------------------------------------------------
(* The line. Letters stand in the order of typing, before the text cursor; *)
(* those of this row, right of vinip, are the last ones, which backspace   *)
(* takes away one by one.                                                  *)
Ordered == \A i, j \in 1 .. Len(places) : i < j => Before(places[i], places[j])

Passed ==
    \A i \in 1 .. Len(places) : Before(places[i], Here(con)) /\ places[i] # con.cur

Erasable ==
    pc = "edit" /\ con.col > vinip =>
        /\ con.col - vinip <= Len(places)
        /\ \A k \in 1 .. con.col - vinip :
               places[Len(places) - k + 1] = <<con.row, con.col - k>>

Shown ==
    ~covered => \A i \in 1 .. Len(places) :
                    places[i] \in Panel => con.cell[places[i]] = typed[i]

LineInv ==
    /\ pc # "edit" => typed = <<>> /\ places = <<>> /\ ~long
    /\ pc = "edit" /\ ~long => vbuf = typed
    /\ pc = "edit" /\ con.row = Rows - 1 /\ con.col = Cols => vinip = Cols
    /\ Ordered /\ Passed /\ Erasable /\ Shown

(* A prompt is too short to reach where the keyboard is drawn above it.    *)
PromptsFit == \A n \in PromptLens : n < (KeyAbove - KeyRows + 1) * (Cols + 1)

(* The prompt ends at vinip, on this row or on one above.                  *)
PromptPassed ==
    \A i \in 1 .. Len(prompt) : Before(prompt[i], Here(con)) /\ prompt[i] # con.cur

PromptEnds ==
    pc = "edit" => \A i \in 1 .. Len(prompt) :
                       prompt[i][1] = con.row => prompt[i][2] < vinip /\ vinip <= con.col

PromptShown ==
    PromptsFit /\ ~covered =>
        \A i \in 1 .. Len(prompt) : prompt[i] \in Panel => con.cell[prompt[i]] = Hash

PromptInv ==
    /\ pc \notin {"edit", "prompt"} => prompt = <<>>
    /\ PromptPassed /\ PromptEnds /\ PromptShown

(* While it is printed: it began in column 0, q rows above.                *)
PrintingInv ==
    pc = "prompt" =>
        /\ Len(prompt) + Len(rest) \in PromptLens
        /\ prompt # <<>> => con.cur = Here(con) \/ con.cur[2] = Cols + 1
        /\ \E q \in Nat : /\ Len(prompt) = q * (Cols + 1) + con.col
                          /\ \A i \in 1 .. Len(prompt) : prompt[i][1] >= con.row - q

-----------------------------------------------------------------------------
(* What a request would do if it were sent again: nothing, until the panel *)
(* scrolls. Of the keyboard no more than a line was left, in its last row  *)
(* and column. The interface alone leaves the place of a touch.            *)
CursorIs(ch) == con.cur \in Panel => con.cell[con.cur] = ch

(* What the interface prints begins with text.                             *)
TextFirst == \A m \in Messages : m = <<>> \/ Head(m) # NL

Left(at, ch) == ch = under[at] \/ (at \in Edge /\ ch = Cut)
LineLeft == \A at \in DOMAIN under : Left(at, con.cell[at])

RequestInv ==
    /\ pc = "command" => req = "hide"
    /\ pc = "print" /\ req = "cursor" /\ rest # <<>> /\ ~scrolled => CursorIs(Mark)
    /\ pc = "print" => req \notin {"off", "touch"}
    /\ pc = "loading" => req \in {"off", "text"}
    /\ pc = "loading" /\ req = "off" /\ ~scrolled => CursorIs(Blank)
    /\ pc \in {"command", "print"} /\ req = "hide" /\ ~scrolled => LineLeft
    /\ pc = "icon" => req \in {"touch", "text"} \/ (req = "cursor" /\ rest = <<>>)
    /\ TextFirst /\ pc = "gui" =>
           rest = <<>> \/ req = "text" \/ (req = "cursor" /\ Head(rest) # NL)

(* Every character on the text screen was drawn.                           *)
Inv == /\ TypeInv /\ KeyboardInv /\ LineInv /\ PromptInv /\ PrintingInv
       /\ RequestInv /\ TextIsSeen

LEMMA InitInv == Init => Inv
  <1> SUFFICES ASSUME Init PROVE Inv
    OBVIOUS
  <1>1. /\ con.col = 0 /\ con.row = 0 /\ con.cur = <<0, 0>> /\ con.out = "text"
        /\ con.off = FALSE
        /\ con.cell = [at \in Panel |-> IF at = <<0, 0>> THEN Mark ELSE Blank]
        /\ con \in Consoles
    <2>1. [at \in Panel |-> IF at = <<0, 0>> THEN Mark ELSE Blank] \in Cells
      BY DEF Cells, Chars
    <2>2. PICK cell \in Cells : cell = [at \in Panel |-> IF at = <<0, 0>> THEN Mark ELSE Blank]
      BY <2>1
    <2>3. <<0, 0>> \in Cursors /\ 0 \in -1 .. Cols /\ 0 \in 0 .. Rows
      BY Sizes DEF Cursors
    <2> QED BY <2>2, <2>3 DEF Init, Consoles
  <1>2. TypeInv
    <2>1. ConsoleInv
      BY <1>1 DEF Init, ConsoleInv
    <2>2. StateInv
      BY Sizes, LineEditorAssumption DEF Init, StateInv, Texts
    <2>3. LineTypes
      BY DEF Init, LineTypes
    <2>4. KeyboardTypes
      BY DEF Init, KeyboardTypes
    <2> QED BY <2>1, <2>2, <2>3, <2>4 DEF TypeInv
  <1>3. KeyboardInv
    BY <1>1, KeyApart DEF Init, KeyboardInv
  <1>4. LineInv /\ PromptInv /\ PrintingInv
    BY DEF Init, LineInv, Ordered, Passed, Erasable, Shown, PromptInv, PromptPassed,
           PromptEnds, PromptShown, PrintingInv
  <1>5. RequestInv
    BY <1>1 DEF Init, RequestInv, CursorIs
  <1>6. TextIsSeen
    BY DEF Init, TextIsSeen
  <1> QED BY <1>2, <1>3, <1>4, <1>5, <1>6 DEF Inv

-----------------------------------------------------------------------------
(* The prompt is edited.                                                   *)
LEMMA EditingConsole ==
    ASSUME TypeInv, pc \notin {"gui", "icon"}
    PROVE  con \in Consoles /\ con.col >= 0 /\ con.out = "text" /\ ~con.off
  <1>1. con \in Consoles /\ con.out # "window" /\ con.col >= 0 /\ ~con.off
    BY DEF TypeInv, ConsoleInv
  <1> QED BY <1>1, ConsoleFields

LEMMA AppendFields ==
    ASSUME NEW S, NEW s \in Seq(S), NEW x \in S
    PROVE  /\ Append(s, x) \in Seq(S) /\ Len(Append(s, x)) = Len(s) + 1
           /\ \A i \in 1 .. Len(s) : Append(s, x)[i] = s[i]
           /\ Append(s, x)[Len(s) + 1] = x
  OBVIOUS

LEMMA TypeKeeps ==
    ASSUME Inv, NEW ch \in Letters, Type(ch)
    PROVE  Inv'
  <1>0. /\ pc = "edit" /\ pc' = "edit" /\ rest' = rest /\ vinip' = vinip /\ req' = "cursor"
        /\ kbd' = kbd /\ under' = under /\ covered' = covered /\ unseen' = unseen
        /\ con' = WriteChar(con, ch) /\ vbuf' = Stored(ch) /\ typed' = Append(typed, ch)
        /\ places' = Kept(After(con), Append(places, Here(con)))
        /\ prompt' = Kept(After(con), prompt)
        /\ long' = (long \/ Len(vbuf) = BufLen)
        /\ smeared' = (smeared \/ (kbd /\ Scrolls(After(con)[2], After(con)[1])))
    BY DEF Type, keyboard
  <1>1. TypeInv
    BY DEF Inv
  <1>2. PICK c \in Consoles : c = con /\ c.col >= 0 /\ c.out = "text" /\ ~c.off
    BY <1>0, <1>1, EditingConsole
  <1>3. ch \in Chars /\ ch # Key
    BY KeyApart DEF Chars
  <1>4. PICK up : up = IF Scrolls(After(c)[2], After(c)[1]) THEN 1 ELSE 0
    OBVIOUS
  <1>5. PICK d : d = WriteChar(c, ch)
    OBVIOUS
  <1>6. d = con'
    BY <1>0, <1>2, <1>5
  <1>7. /\ d \in Consoles /\ d.out = c.out /\ d.off = c.off /\ d.col >= 0
        /\ \/ d.col = c.col + 1 /\ d.row = c.row /\ up = 0
           \/ d.col = 0 /\ d.row = c.row + 1 - up
        /\ ~(d.row = Rows - 1 /\ d.col = Cols)
    BY <1>2, <1>3, <1>4, <1>5, TypeEffect
  <1>8. \A p \in Places : Before(p, Here(c)) =>
            /\ Before(Raise(p, up), Here(d)) /\ Raise(p, up) # d.cur
            /\ Raise(p, up) \in Panel /\ p # c.cur =>
                   p \in Panel /\ d.cell[Raise(p, up)] = c.cell[p]
    BY <1>2, <1>3, <1>4, <1>5, TypeEffect
  <1>9. /\ Before(Raise(Here(c), up), Here(d)) /\ Raise(Here(c), up) # d.cur
        /\ Raise(Here(c), up) \in Panel => d.cell[Raise(Here(c), up)] = ch
    BY <1>2, <1>3, <1>4, <1>5, TypeEffect
  <1>10. \A p \in Panel : d.cell[p] = Key =>
             Lower(p, up) \in Panel /\ c.cell[Lower(p, up)] = Key
    BY <1>2, <1>3, <1>4, <1>5, TypeEffect
  <1>11. /\ typed \in Seq(Letters) /\ places \in Seq(Places) /\ prompt \in Seq(Places)
         /\ Len(typed) = Len(places)
    BY <1>1 DEF TypeInv, LineTypes
  <1>12. Here(c) \in Places /\ Here(c) = <<c.row, c.col>> /\ Here(d) = <<d.row, d.col>>
    BY <1>2, HereOnPanel, ConsoleFields DEF Here, Places
  <1>13. PICK n \in Nat : n = Len(places)
    BY <1>11
  <1>14. /\ places' \in Seq(Places) /\ Len(places') = n + 1
         /\ \A i \in 1 .. n : places'[i] = Raise(places[i], up)
         /\ places'[n + 1] = Raise(Here(c), up)
    <2>1. PICK seq : seq = Append(places, Here(c))
      OBVIOUS
    <2>2. /\ seq \in Seq(Places) /\ Len(seq) = n + 1
          /\ \A i \in 1 .. n : seq[i] = places[i]
          /\ seq[n + 1] = Here(c)
      BY <1>11, <1>12, <1>13, <2>1
    <2>3. places' = Kept(After(c), seq)
      BY <1>0, <1>2, <2>1
    <2>4. /\ Kept(After(c), seq) \in Seq(Places) /\ Len(Kept(After(c), seq)) = n + 1
          /\ \A i \in 1 .. n + 1 : Kept(After(c), seq)[i] = Raise(seq[i], up)
      BY <1>4, <2>2, KeptFields
    <2> QED BY <2>2, <2>3, <2>4
  <1>15. PICK m \in Nat : m = Len(prompt)
    BY <1>11
  <1>16. /\ prompt' \in Seq(Places) /\ Len(prompt') = m
         /\ \A i \in 1 .. m : prompt'[i] = Raise(prompt[i], up)
    BY <1>0, <1>2, <1>4, <1>11, <1>15, KeptFields
  <1>17. /\ typed' \in Seq(Letters) /\ Len(typed') = n + 1
         /\ \A i \in 1 .. n : typed'[i] = typed[i]
         /\ typed'[n + 1] = ch
    BY <1>0, <1>11, <1>13
  <1>18. \A i \in 1 .. n : places[i] \in Places
    BY <1>11, <1>13
  <1>19. \A i \in 1 .. m : prompt[i] \in Places
    BY <1>11, <1>15
  <1>20. TypeInv'
    <2>1. ConsoleInv'
      BY <1>0, <1>2, <1>6, <1>7 DEF ConsoleInv
    <2>2. StateInv'
      <3>1. StateInv
        BY <1>1 DEF TypeInv
      <3>2. vbuf' \in Seq(Letters) /\ Len(vbuf') <= BufLen
        BY <1>0, <3>1, LineEditorAssumption DEF StateInv, Stored
      <3> QED BY <1>0, <3>1, <3>2 DEF StateInv
    <2>3. LineTypes'
      BY <1>14, <1>16, <1>17 DEF LineTypes
    <2>4. KeyboardTypes'
      BY <1>0, <1>1 DEF TypeInv, KeyboardTypes
    <2> QED BY <2>1, <2>2, <2>3, <2>4 DEF TypeInv
  <1>21. KeyboardInv'
    <2>1. KeyboardInv
      BY DEF Inv
    <2>2. ASSUME ~smeared', NEW at \in Panel, d.cell[at] = Key
          PROVE  kbd /\ at \in DOMAIN under
      <3>1. Lower(at, up) \in Panel /\ c.cell[Lower(at, up)] = Key
        BY <1>10, <2>2
      <3>2. ~smeared /\ kbd /\ Lower(at, up) \in DOMAIN under
        BY <1>0, <1>2, <2>1, <2>2, <3>1 DEF KeyboardInv
      <3>3. up = 0
        BY <1>0, <1>2, <1>4, <2>2, <3>2
      <3>4. Lower(at, up) = at
        BY <3>3, PanelPlaces DEF Lower
      <3> QED BY <3>2, <3>4
    <2> QED BY <1>0, <1>6, <2>1, <2>2 DEF KeyboardInv
  <1>22. LineInv'
    <2>1. LineInv
      BY DEF Inv
    <2>2. \A i \in 1 .. n : Before(places[i], Here(c)) /\ places[i] # c.cur
      BY <1>2, <1>13, <2>1 DEF LineInv, Passed
    <2>3. \A i, j \in 1 .. n + 1 : i < j => Before(places'[i], places'[j])
      <3>1. ASSUME NEW i \in 1 .. n, NEW p \in Places, Before(places[i], p)
            PROVE  Before(Raise(places[i], up), Raise(p, up))
        <4>1. up \in Int
          BY <1>4
        <4> QED BY <1>18, <3>1, <4>1, PlaceParts DEF Before, Raise
      <3>2. ASSUME NEW i \in 1 .. n, NEW j \in 1 .. n, i < j
            PROVE  Before(places'[i], places'[j])
        <4>1. Before(places[i], places[j])
          BY <1>13, <2>1, <3>2 DEF LineInv, Ordered
        <4> QED BY <1>14, <1>18, <3>1, <4>1
      <3>3. ASSUME NEW i \in 1 .. n
            PROVE  Before(places'[i], places'[n + 1])
        BY <1>12, <1>14, <2>2, <3>1
      <3>4. ASSUME NEW i \in 1 .. n + 1, NEW j \in 1 .. n + 1, i < j
            PROVE  i \in 1 .. n /\ (j \in 1 .. n \/ j = n + 1)
        BY <3>4
      <3> QED BY <3>2, <3>3, <3>4
    <2>4. \A i \in 1 .. n + 1 : Before(places'[i], Here(d)) /\ places'[i] # d.cur
      <3>1. \A i \in 1 .. n : Before(places'[i], Here(d)) /\ places'[i] # d.cur
        BY <1>8, <1>14, <1>18, <2>2
      <3>2. \A i \in 1 .. n + 1 : i \in 1 .. n \/ i = n + 1
        OBVIOUS
      <3> QED BY <1>9, <1>14, <3>1, <3>2
    <2>5. ASSUME d.col > vinip
          PROVE  /\ d.col - vinip <= n + 1
                 /\ \A k \in 1 .. d.col - vinip :
                        places'[n + 1 - k + 1] = <<d.row, d.col - k>>
      <3>1. vinip \in Nat /\ c.col \in Int /\ c.row \in Int
        BY <1>1, <1>2, ConsoleFields DEF TypeInv, StateInv
      <3>2. d.col = c.col + 1 /\ d.row = c.row /\ up = 0 /\ c.col >= vinip
        BY <1>7, <2>5, <3>1
      <3>3. /\ c.col - vinip <= n
            /\ \A k \in 1 .. c.col - vinip : places[n - k + 1] = <<c.row, c.col - k>>
        <4>1. CASE c.col > vinip
          BY <1>0, <1>2, <1>13, <2>1, <4>1 DEF LineInv, Erasable
        <4>2. CASE c.col = vinip
          BY <3>1, <4>2
        <4> QED BY <3>1, <3>2, <4>1, <4>2
      <3>4. ASSUME NEW k \in 1 .. d.col - vinip
            PROVE  places'[n + 1 - k + 1] = <<d.row, d.col - k>>
        <4>1. CASE k = 1
          <5>1. n + 1 - k + 1 = n + 1 /\ d.col - k = c.col
            BY <3>1, <3>2, <4>1
          <5> QED BY <1>12, <1>14, <3>2, <5>1, RaisedPlaces
        <4>2. CASE k > 1
          <5>1. PICK l \in 1 .. c.col - vinip : l = k - 1
            BY <3>1, <3>2, <4>2
          <5>2. /\ n + 1 - k + 1 = n - l + 1 /\ d.col - k = c.col - l
                /\ n - l + 1 \in 1 .. n
            BY <3>1, <3>2, <3>3, <5>1
          <5>3. places[n - l + 1] = <<c.row, c.col - l>>
            BY <3>3
          <5>4. PICK x \in 1 .. n : x = n - l + 1
            BY <5>2
          <5>5. places'[x] = places[x]
            <6>1. PICK p \in Places : p = places[x] /\ places'[x] = Raise(p, up)
              BY <1>14, <1>18
            <6> QED BY <3>2, <6>1, RaisedPlaces
          <5> QED BY <3>2, <5>2, <5>3, <5>4, <5>5
        <4> QED BY <4>1, <4>2
      <3>5. d.col - vinip <= n + 1
        BY <3>1, <3>2, <3>3
      <3> QED BY <3>4, <3>5
    <2>6. ASSUME ~covered, NEW i \in 1 .. n + 1, places'[i] \in Panel
          PROVE  d.cell[places'[i]] = typed'[i]
      <3>1. CASE i \in 1 .. n
        <4>1. places[i] \in Panel /\ d.cell[places'[i]] = c.cell[places[i]]
          BY <1>8, <1>14, <1>18, <2>2, <2>6, <3>1
        <4>2. c.cell[places[i]] = typed[i]
          BY <1>2, <1>13, <2>1, <2>6, <3>1, <4>1 DEF LineInv, Shown
        <4> QED BY <1>17, <3>1, <4>1, <4>2
      <3>2. CASE i = n + 1
        BY <1>9, <1>14, <1>17, <2>6, <3>2
      <3> QED BY <3>1, <3>2
    <2>7. ~long' => vbuf' = typed'
      <3>1. Len(vbuf) <= BufLen /\ Len(vbuf) \in Nat /\ BufLen \in Nat
        BY <1>1, LineEditorAssumption DEF TypeInv, StateInv
      <3>2. ~long /\ Len(vbuf) # BufLen => vbuf' = Append(typed, ch)
        BY <1>0, <2>1, <3>1 DEF LineInv, Stored
      <3> QED BY <1>0, <3>2
    <2>8. Ordered' /\ Passed'
      BY <1>6, <1>14, <2>3, <2>4 DEF Ordered, Passed
    <2>9. Erasable'
      BY <1>0, <1>6, <1>14, <2>5 DEF Erasable
    <2>10. Shown'
      BY <1>0, <1>6, <1>14, <2>6 DEF Shown
    <2> QED BY <1>0, <1>6, <1>7, <2>7, <2>8, <2>9, <2>10 DEF LineInv
  <1>23. PromptInv'
    <2>1. PromptInv
      BY DEF Inv
    <2>2. \A i \in 1 .. m : Before(prompt[i], Here(c)) /\ prompt[i] # c.cur
      BY <1>2, <1>15, <2>1 DEF PromptInv, PromptPassed
    <2>3. \A i \in 1 .. m : Before(prompt'[i], Here(d)) /\ prompt'[i] # d.cur
      BY <1>8, <1>16, <1>19, <2>2
    <2>4. ASSUME NEW i \in 1 .. m, prompt'[i][1] = d.row
          PROVE  prompt'[i][2] < vinip /\ vinip <= d.col
      <3>1. /\ vinip \in Nat /\ c.col \in Int /\ c.row \in Int /\ up \in Int
            /\ prompt[i][1] \in Int /\ prompt[i][2] \in Int
        BY <1>1, <1>2, <1>4, <1>19, ConsoleFields, PlaceParts DEF TypeInv, StateInv
      <3>2. prompt'[i][1] = prompt[i][1] - up /\ prompt'[i][2] = prompt[i][2]
        <4>1. PICK p \in Places : p = prompt[i] /\ prompt'[i] = Raise(p, up)
          BY <1>16, <1>19
        <4>2. Raise(p, up)[1] = p[1] - up /\ Raise(p, up)[2] = p[2]
          BY <3>1, <4>1, RaisedPlaces
        <4> QED BY <4>1, <4>2
      <3>3. prompt[i][1] <= c.row
        BY <1>12, <2>2, <3>1 DEF Before
      <3>4. d.col = c.col + 1 /\ prompt[i][1] = c.row
        BY <1>7, <2>4, <3>1, <3>2, <3>3
      <3>5. prompt[i][2] < vinip /\ vinip <= c.col
        BY <1>0, <1>2, <1>15, <2>1, <3>4 DEF PromptInv, PromptEnds
      <3> QED BY <3>1, <3>2, <3>4, <3>5
    <2>5. ASSUME PromptsFit, ~covered, NEW i \in 1 .. m, prompt'[i] \in Panel
          PROVE  d.cell[prompt'[i]] = Hash
      <3>1. prompt[i] \in Panel /\ d.cell[prompt'[i]] = c.cell[prompt[i]]
        BY <1>8, <1>16, <1>19, <2>2, <2>5
      <3> QED BY <1>2, <1>15, <2>1, <2>5, <3>1 DEF PromptInv, PromptShown
    <2> QED BY <1>0, <1>6, <1>16, <2>3, <2>4, <2>5
            DEF PromptInv, PromptPassed, PromptEnds, PromptShown
  <1>24. PrintingInv' /\ RequestInv' /\ TextIsSeen'
    BY <1>0 DEF Inv, PrintingInv, RequestInv, TextIsSeen
  <1> QED BY <1>20, <1>21, <1>22, <1>23, <1>24 DEF Inv

LEMMA ShorterFields ==
    ASSUME NEW S, NEW s \in Seq(S), NEW n \in Nat, Len(s) = n + 1
    PROVE  /\ Shorter(s) \in Seq(S) /\ Len(Shorter(s)) = n
           /\ \A i \in 1 .. n : Shorter(s)[i] = s[i]
  <1>1. Shorter(s) = SubSeq(s, 1, n)
    BY DEF Shorter
  <1> QED BY <1>1

LEMMA BackspaceKeeps ==
    ASSUME Inv, Backspace
    PROVE  Inv'
  <1>0. /\ pc = "edit" /\ pc' = "edit" /\ rest' = rest /\ vinip' = vinip /\ req' = "cursor"
        /\ kbd' = kbd /\ under' = under /\ covered' = covered /\ unseen' = unseen
        /\ vbuf' = Shorter(vbuf) /\ typed' = Shorter(typed) /\ places' = Shorter(places)
        /\ prompt' = prompt /\ long' = long /\ smeared' = smeared
        /\ con.col > vinip
    BY DEF Backspace, MayErase, keyboard, history
  <1>1. TypeInv /\ LineInv /\ PromptInv
    BY DEF Inv
  <1>2. PICK c \in Consoles : c = con /\ c.col >= 0 /\ c.out = "text" /\ ~c.off
    BY <1>0, <1>1, EditingConsole
  <1>3. vinip \in 0 .. Cols /\ c.col \in 0 .. Cols /\ c.row \in 0 .. Rows /\ Cols \in Nat
    BY <1>1, <1>2, ConsoleFields, Sizes DEF TypeInv, StateInv
  <1>4. c.col >= 1 /\ ~(c.row = Rows - 1 /\ c.col = Cols)
    BY <1>0, <1>1, <1>2, <1>3 DEF LineInv
  <1>5. PICK d : d = con'
    OBVIOUS
  <1>6. /\ d \in Consoles /\ d.row = c.row /\ d.col = c.col - 1 /\ d.cur = Here(d)
        /\ d.out = c.out /\ d.off = c.off
        /\ \A p \in Panel :
               d.cell[p] = IF p = <<c.row, c.col - 1>> THEN Mark
                           ELSE IF p = c.cur THEN Blank ELSE c.cell[p]
    <2>1. PICK b : b = WriteBackspace([c EXCEPT !.col = @ - 1])
      OBVIOUS
    <2>2. d = Locate(b, b.col - 1, b.row)
      BY <1>2, <1>5, <2>1 DEF Backspace
    <2> QED BY <1>4, <2>1, <2>2, BackspaceFields
  <1>7. Here(d) = <<c.row, c.col - 1>> /\ Here(c) = <<c.row, c.col>>
    BY <1>6 DEF Here
  <1>8. /\ typed \in Seq(Letters) /\ places \in Seq(Places) /\ prompt \in Seq(Places)
        /\ Len(typed) = Len(places)
    BY <1>1 DEF TypeInv, LineTypes
  <1>9. /\ con.col - vinip <= Len(places)
        /\ \A k \in 1 .. con.col - vinip :
               places[Len(places) - k + 1] = <<con.row, con.col - k>>
    BY <1>0, <1>1 DEF LineInv, Erasable
  <1>10. PICK n \in Nat : n + 1 = Len(places)
    <2>1. Len(places) \in Nat /\ Len(places) >= 1
      BY <1>0, <1>2, <1>3, <1>8, <1>9
    <2>2. Len(places) - 1 \in Nat /\ (Len(places) - 1) + 1 = Len(places)
      BY <2>1
    <2> QED BY <2>2
  <1>11. /\ places' \in Seq(Places) /\ Len(places') = n
         /\ \A i \in 1 .. n : places'[i] = places[i]
    BY <1>0, <1>8, <1>10, ShorterFields
  <1>12. /\ typed' \in Seq(Letters) /\ Len(typed') = n
         /\ \A i \in 1 .. n : typed'[i] = typed[i]
    BY <1>0, <1>8, <1>10, ShorterFields
  <1>13. places[n + 1] = <<c.row, c.col - 1>>
    <2>1. 1 \in 1 .. con.col - vinip /\ Len(places) - 1 + 1 = n + 1
      BY <1>0, <1>2, <1>3, <1>10
    <2> QED BY <1>2, <1>9, <2>1
  <1>14. ASSUME NEW i \in 1 .. n
         PROVE  /\ places[i] \in Places /\ Before(places[i], Here(d))
                /\ places[i] # c.cur /\ places[i] # Here(d)
    <2>1. places[i] \in Places
      BY <1>8, <1>10
    <2>2. Before(places[i], places[n + 1])
      BY <1>1, <1>10 DEF LineInv, Ordered
    <2>3. places[i] # c.cur
      BY <1>1, <1>2, <1>10 DEF LineInv, Passed
    <2>4. Before(places[i], Here(d))
      BY <1>7, <1>13, <2>2
    <2>5. places[i] # Here(d)
      BY <1>3, <1>7, <2>1, <2>4, PlaceParts DEF Before
    <2> QED BY <2>1, <2>3, <2>4, <2>5
  <1>15. ASSUME NEW i \in 1 .. Len(prompt)
         PROVE  /\ prompt[i] \in Places /\ Before(prompt[i], Here(d))
                /\ prompt[i] # c.cur /\ prompt[i] # Here(d)
                /\ prompt[i][1] = d.row => prompt[i][2] < vinip /\ vinip <= d.col
    <2>1. prompt[i] \in Places
      BY <1>8
    <2>2. Before(prompt[i], Here(c)) /\ prompt[i] # c.cur
      BY <1>1, <1>2 DEF PromptInv, PromptPassed
    <2>3. prompt[i][1] = c.row => prompt[i][2] < vinip
      BY <1>0, <1>1, <1>2 DEF PromptInv, PromptEnds
    <2>4. vinip <= c.col - 1
      BY <1>0, <1>2, <1>3
    <2>5. prompt[i][1] \in Int /\ prompt[i][2] \in Int
      BY <2>1, PlaceParts
    <2>6. Before(prompt[i], Here(d))
      BY <1>3, <1>7, <2>2, <2>3, <2>4, <2>5 DEF Before
    <2>7. prompt[i] # Here(d)
      BY <1>3, <1>7, <2>5, <2>6 DEF Before
    <2> QED BY <1>6, <2>1, <2>2, <2>3, <2>4, <2>6, <2>7
  <1>16. TypeInv'
    <2>1. ConsoleInv'
      BY <1>0, <1>2, <1>3, <1>4, <1>5, <1>6 DEF ConsoleInv
    <2>2. StateInv'
      <3>1. StateInv
        BY <1>1 DEF TypeInv
      <3>2. vbuf' \in Seq(Letters) /\ Len(vbuf') <= BufLen
        <4>1. vbuf \in Seq(Letters) /\ Len(vbuf) <= BufLen /\ BufLen \in Nat
          BY <3>1, LineEditorAssumption DEF StateInv
        <4>2. CASE vbuf = <<>>
          BY <1>0, <4>1, <4>2 DEF Shorter
        <4>3. CASE vbuf # <<>>
          <5>1. PICK k \in Nat : Len(vbuf) = k + 1
            <6>1. Len(vbuf) \in Nat /\ Len(vbuf) > 0
              BY <4>1, <4>3
            <6>2. Len(vbuf) - 1 \in Nat /\ Len(vbuf) = (Len(vbuf) - 1) + 1
              BY <6>1
            <6> QED BY <6>2
          <5>2. vbuf' \in Seq(Letters) /\ Len(vbuf') = k
            BY <1>0, <4>1, <5>1, ShorterFields
          <5> QED BY <4>1, <5>1, <5>2
        <4> QED BY <4>2, <4>3
      <3> QED BY <1>0, <3>1, <3>2 DEF StateInv
    <2>3. LineTypes'
      BY <1>0, <1>8, <1>11, <1>12 DEF LineTypes
    <2>4. KeyboardTypes'
      BY <1>0, <1>1 DEF TypeInv, KeyboardTypes
    <2> QED BY <2>1, <2>2, <2>3, <2>4 DEF TypeInv
  <1>17. KeyboardInv'
    <2>1. KeyboardInv
      BY DEF Inv
    <2>2. \A p \in Panel : d.cell[p] = Key => c.cell[p] = Key
      BY <1>6, KeyApart
    <2> QED BY <1>0, <1>2, <1>5, <2>1, <2>2 DEF KeyboardInv
  <1>18. LineInv'
    <2>1. Ordered'
      <3>1. ASSUME NEW i \in 1 .. n, NEW j \in 1 .. n, i < j
            PROVE  Before(places'[i], places'[j])
        <4>1. Before(places[i], places[j])
          BY <1>1, <1>10, <3>1 DEF LineInv, Ordered
        <4> QED BY <1>11, <4>1
      <3> QED BY <1>11, <3>1 DEF Ordered
    <2>2. Passed'
      BY <1>5, <1>6, <1>11, <1>14 DEF Passed
    <2>3. Erasable'
      <3>1. ASSUME d.col > vinip
            PROVE  d.col - vinip <= n
        BY <1>2, <1>3, <1>6, <1>9, <1>10
      <3>2. ASSUME d.col > vinip, NEW k \in 1 .. d.col - vinip
            PROVE  places'[n - k + 1] = <<d.row, d.col - k>>
        <4>1. PICK l \in 1 .. c.col - vinip : l = k + 1
          BY <1>3, <1>6, <3>2
        <4>2. PICK x \in 1 .. n : x = n - k + 1
          BY <1>3, <1>6, <3>1, <3>2
        <4>3. Len(places) - l + 1 = x /\ c.col - l = d.col - k
          BY <1>3, <1>6, <1>10, <4>1, <4>2
        <4>4. places[x] = <<c.row, c.col - l>>
          BY <1>2, <1>9, <4>3
        <4> QED BY <1>6, <1>11, <4>2, <4>3, <4>4
      <3> QED BY <1>0, <1>5, <1>11, <3>1, <3>2 DEF Erasable
    <2>4. Shown'
      <3>1. ASSUME ~covered, NEW i \in 1 .. n, places[i] \in Panel
            PROVE  d.cell[places[i]] = typed[i]
        <4>1. c.cell[places[i]] = typed[i]
          BY <1>1, <1>2, <1>10, <3>1 DEF LineInv, Shown
        <4> QED BY <1>6, <1>7, <1>14, <3>1, <4>1
      <3> QED BY <1>0, <1>5, <1>11, <1>12, <3>1 DEF Shown
    <2>5. ~(d.row = Rows - 1 /\ d.col = Cols)
      BY <1>3, <1>6
    <2> QED BY <1>0, <1>1, <1>5, <2>1, <2>2, <2>3, <2>4, <2>5 DEF LineInv
  <1>19. PromptInv'
    <2>1. PromptPassed' /\ PromptEnds'
      BY <1>0, <1>5, <1>6, <1>15 DEF PromptPassed, PromptEnds
    <2>2. PromptShown'
      <3>1. ASSUME PromptsFit, ~covered, NEW i \in 1 .. Len(prompt), prompt[i] \in Panel
            PROVE  d.cell[prompt[i]] = Hash
        <4>1. c.cell[prompt[i]] = Hash
          BY <1>1, <1>2, <3>1 DEF PromptInv, PromptShown
        <4> QED BY <1>6, <1>7, <1>15, <3>1, <4>1
      <3> QED BY <1>0, <1>5, <3>1 DEF PromptShown
    <2> QED BY <1>0, <2>1, <2>2 DEF PromptInv
  <1>20. PrintingInv' /\ RequestInv' /\ TextIsSeen'
    BY <1>0 DEF Inv, PrintingInv, RequestInv, TextIsSeen
  <1> QED BY <1>16, <1>17, <1>18, <1>19, <1>20 DEF Inv

(* The keyboard drawn again, put away, shown again.                        *)
LEMMA CoveredFields ==
    ASSUME NEW c \in Consoles, NEW area
    PROVE  /\ Covered(c, area) \in Consoles /\ Same(Covered(c, area), c)
           /\ \A p \in Panel :
                  Covered(c, area).cell[p] = IF p \in area THEN Key ELSE c.cell[p]
  <1> DEFINE keys == [at \in Panel |-> IF at \in area THEN Key ELSE c.cell[at]]
  <1>1. /\ keys \in Cells
        /\ \A p \in Panel : keys[p] = IF p \in area THEN Key ELSE c.cell[p]
    <2>1. Key \in Chars /\ c.cell \in [Panel -> Chars]
      BY ConsoleFields DEF Chars, Cells
    <2> QED BY <2>1 DEF Cells
  <1>2. Covered(c, area) = [c EXCEPT !.cell = keys]
    BY DEF Covered, Consoles
  <1> HIDE DEF keys
  <1> QED BY <1>1, <1>2 DEF Consoles, Same

(* What is put back, and that putting it back again changes nothing.       *)
Restored(at, ch) == IF at \in Edge THEN PutBack(under[at], ch) ELSE under[at]

LEMMA RestoredIs ==
    ASSUME NEW at, NEW ch
    PROVE  /\ Left(at, Restored(at, ch)) /\ (Left(at, ch) => Restored(at, ch) = ch)
           /\ Restored(at, ch) \in {under[at], Cut}
  <1>1. CASE at \notin Edge
    BY <1>1 DEF Restored, Left
  <1>2. CASE at \in Edge
    <2>1. PutBack(under[at], ch) \in {under[at], Cut}
      BY DEF PutBack
    <2>2. ch = Cut => PutBack(under[at], ch) = Cut
      BY KeyApart DEF PutBack
    <2>3. ch = under[at] => PutBack(under[at], ch) = ch
      BY DEF PutBack
    <2> QED BY <1>2, <2>1, <2>2, <2>3 DEF Restored, Left
  <1> QED BY <1>1, <1>2

LEMMA HiddenFields ==
    ASSUME NEW c \in Consoles, KeyboardTypes
    PROVE  /\ Hidden(c) \in Consoles /\ Same(Hidden(c), c)
           /\ \A p \in Panel :
                  Hidden(c).cell[p] = IF p \in DOMAIN under THEN Restored(p, c.cell[p])
                                      ELSE c.cell[p]
  <1> DEFINE after(at) == IF at \in DOMAIN under THEN Restored(at, c.cell[at]) ELSE c.cell[at]
             back == [at \in Panel |-> after(at)]
  <1>1. back \in Cells /\ \A p \in Panel : back[p] = after(p)
    <2>1. /\ c.cell \in [Panel -> Chars] /\ \A at \in DOMAIN under : under[at] \in Chars
          /\ Cut \in Chars
      BY ConsoleFields DEF KeyboardTypes, Cells, Chars
    <2>2. \A at \in Panel : after(at) \in Chars
      BY <2>1, RestoredIs
    <2> HIDE DEF after
    <2> QED BY <2>2 DEF Cells
  <1>2. ASSUME NEW at \in Panel
        PROVE  after(at) = IF at \in Edge THEN PutBack(under[at], c.cell[at])
                           ELSE IF at \in DOMAIN under THEN under[at] ELSE c.cell[at]
    <2>1. at \in Edge => at \in DOMAIN under
      BY DEF Edge
    <2> QED BY <2>1 DEF Restored
  <1>3. Hidden(c) = [c EXCEPT !.cell = back]
    <2>1. [at \in Panel |-> IF at \in Edge THEN PutBack(under[at], c.cell[at])
                           ELSE IF at \in DOMAIN under THEN under[at] ELSE c.cell[at]]
          = back
      <3> HIDE DEF after
      <3> QED BY <1>2
    <2> HIDE DEF back
    <2> QED BY <2>1 DEF Hidden, Consoles
  <1>4. \A p \in Panel : back[p] = IF p \in DOMAIN under THEN Restored(p, c.cell[p])
                                   ELSE c.cell[p]
    BY <1>1
  <1> HIDE DEF back
  <1> QED BY <1>1, <1>3, <1>4 DEF Consoles, Same

LEMMA NotCovered ==
    ASSUME LineTypes, TouchKeyboard, ~covered'
    PROVE  /\ ~covered
           /\ \A i \in 1 .. Len(places) : places[i] \notin DOMAIN under
           /\ \A i \in 1 .. Len(prompt) : prompt[i] \notin DOMAIN under
  <1>1. /\ ~covered
        /\ \A at \in OnPanel(places \o prompt) : at \notin DOMAIN under
    BY DEF TouchKeyboard
  <1>2. PICK n \in Nat, m \in Nat : n = Len(places) /\ m = Len(prompt)
    BY DEF LineTypes
  <1>3. /\ places \o prompt \in Seq(Places)
        /\ Len(places \o prompt) = n + m
        /\ \A i \in 1 .. n : (places \o prompt)[i] = places[i]
        /\ \A i \in 1 .. m : (places \o prompt)[n + i] = prompt[i]
    BY <1>2 DEF LineTypes
  <1>4. DOMAIN (places \o prompt) = 1 .. n + m
    BY <1>3
  <1>5. \A i \in 1 .. n + m : (places \o prompt)[i] \notin DOMAIN under
    BY <1>1, <1>4 DEF OnPanel
  <1>6. ASSUME NEW i \in 1 .. n PROVE places[i] \notin DOMAIN under
    <2>1. i \in 1 .. n + m
      OBVIOUS
    <2> QED BY <1>3, <1>5, <2>1
  <1>7. ASSUME NEW i \in 1 .. m PROVE prompt[i] \notin DOMAIN under
    <2>1. n + i \in 1 .. n + m
      OBVIOUS
    <2> QED BY <1>3, <1>5, <2>1
  <1> QED BY <1>1, <1>2, <1>6, <1>7

LEMMA TouchKeeps ==
    ASSUME Inv, TouchKeyboard, con' \in Consoles, Same(con', con),
           \A p \in Panel : p \notin DOMAIN under => con'.cell[p] = con.cell[p],
           KeyboardTypes', KeyboardInv'
    PROVE  Inv'
  <1>0. /\ pc = "edit" /\ pc' = "edit" /\ rest' = rest /\ vbuf' = vbuf /\ vinip' = vinip
        /\ req' = req /\ typed' = typed /\ places' = places /\ prompt' = prompt
        /\ long' = long /\ unseen' = unseen
    BY DEF TouchKeyboard, line, history
  <1>1. TypeInv /\ LineInv /\ PromptInv
    BY DEF Inv
  <1>2. /\ con'.col = con.col /\ con'.row = con.row /\ con'.cur = con.cur
        /\ con'.out = con.out /\ con'.off = con.off /\ Here(con') = Here(con)
    BY DEF Same, Here
  <1>3. TypeInv'
    <2>1. ConsoleInv'
      BY <1>0, <1>1, <1>2 DEF TypeInv, ConsoleInv
    <2>2. StateInv' /\ LineTypes'
      BY <1>0, <1>1 DEF TypeInv, StateInv, LineTypes
    <2> QED BY <2>1, <2>2 DEF TypeInv
  <1>4. LineInv'
    <2>1. Ordered' /\ Passed' /\ Erasable'
      BY <1>0, <1>1, <1>2 DEF LineInv, Ordered, Passed, Erasable
    <2>2. Shown'
      <3>1. ASSUME ~covered', NEW i \in 1 .. Len(places), places[i] \in Panel
            PROVE  con'.cell[places[i]] = typed[i]
        <4>1. ~covered /\ places[i] \notin DOMAIN under
          BY <1>1, <3>1, NotCovered DEF TypeInv
        <4>2. con.cell[places[i]] = typed[i]
          BY <1>1, <3>1, <4>1 DEF LineInv, Shown
        <4> QED BY <3>1, <4>1, <4>2
      <3> QED BY <1>0, <3>1 DEF Shown
    <2> QED BY <1>0, <1>1, <1>2, <2>1, <2>2 DEF LineInv
  <1>5. PromptInv'
    <2>1. PromptPassed' /\ PromptEnds'
      BY <1>0, <1>1, <1>2 DEF PromptInv, PromptPassed, PromptEnds
    <2>2. PromptShown'
      <3>1. ASSUME PromptsFit, ~covered', NEW i \in 1 .. Len(prompt), prompt[i] \in Panel
            PROVE  con'.cell[prompt[i]] = Hash
        <4>1. ~covered /\ prompt[i] \notin DOMAIN under
          BY <1>1, <3>1, NotCovered DEF TypeInv
        <4>2. con.cell[prompt[i]] = Hash
          BY <1>1, <3>1, <4>1 DEF PromptInv, PromptShown
        <4> QED BY <3>1, <4>1, <4>2
      <3> QED BY <1>0, <3>1 DEF PromptShown
    <2> QED BY <1>0, <2>1, <2>2 DEF PromptInv
  <1>6. PrintingInv' /\ RequestInv' /\ TextIsSeen'
    BY <1>0 DEF Inv, PrintingInv, RequestInv, TextIsSeen
  <1> QED BY <1>3, <1>4, <1>5, <1>6 DEF Inv

LEMMA KeyboardKeeps ==
    ASSUME Inv, Redraw \/ Close \/ Reopen
    PROVE  Inv'
  <1>0. /\ TouchKeyboard /\ pc = "edit" /\ pc' = "edit" /\ smeared' = smeared
        /\ TypeInv /\ KeyboardInv /\ KeyboardTypes
    BY DEF Redraw, Close, Reopen, TouchKeyboard, history, Inv, TypeInv
  <1>1. PICK c \in Consoles : c = con
    BY <1>0 DEF TypeInv, ConsoleInv
  <1>2. CASE Redraw
    <2>1. con' = Covered(c, DOMAIN under) /\ kbd /\ kbd' = kbd /\ under' = under
      BY <1>1, <1>2 DEF Redraw, keyboard
    <2>2. /\ con' \in Consoles /\ Same(con', con)
          /\ \A p \in Panel : con'.cell[p] = IF p \in DOMAIN under THEN Key ELSE con.cell[p]
      BY <1>1, <2>1, CoveredFields
    <2>3. KeyboardTypes'
      BY <1>0, <2>1 DEF KeyboardTypes
    <2>4. KeyboardInv'
      BY <1>0, <2>1, <2>2 DEF KeyboardInv
    <2> QED BY <1>0, <2>2, <2>3, <2>4, TouchKeeps
  <1>3. CASE Close
    <2>1. con' = Hidden(c) /\ kbd /\ kbd' = FALSE /\ under' = under
      BY <1>1, <1>3 DEF Close
    <2>2. /\ con' \in Consoles /\ Same(con', con)
          /\ \A p \in Panel :
                 con'.cell[p] = IF p \in DOMAIN under THEN Restored(p, con.cell[p])
                                ELSE con.cell[p]
      BY <1>0, <1>1, <2>1, HiddenFields
    <2>3. KeyboardTypes'
      BY <1>0, <2>1 DEF KeyboardTypes
    <2>4. KeyboardInv'
      <3>1. ASSUME ~smeared, NEW p \in Panel, p \in DOMAIN under
            PROVE  con'.cell[p] # Key
        BY <1>0, <2>2, <3>1, RestoredIs, KeyApart DEF KeyboardInv
      <3>2. ASSUME ~smeared, NEW p \in Panel, p \notin DOMAIN under
            PROVE  con'.cell[p] # Key
        BY <1>0, <2>2, <3>2 DEF KeyboardInv
      <3> QED BY <1>0, <2>1, <3>1, <3>2 DEF KeyboardInv
    <2> QED BY <1>0, <2>2, <2>3, <2>4, TouchKeeps
  <1>4. CASE Reopen
    <2>1. /\ con' = Covered(c, DOMAIN under) /\ ~kbd /\ kbd' = TRUE
          /\ under' = [at \in DOMAIN under |-> c.cell[at]]
      BY <1>1, <1>4 DEF Reopen, Picture
    <2>2. /\ con' \in Consoles /\ Same(con', con)
          /\ \A p \in Panel : con'.cell[p] = IF p \in DOMAIN under THEN Key ELSE con.cell[p]
      BY <1>1, <2>1, CoveredFields
    <2>3. DOMAIN under' = DOMAIN under /\ DOMAIN under \subseteq Panel
      BY <1>0, <2>1 DEF KeyboardTypes
    <2>4. KeyboardTypes'
      <3>1. \A at \in Panel : c.cell[at] \in Chars
        BY ConsoleFields DEF Cells
      <3> QED BY <2>1, <2>3, <3>1 DEF KeyboardTypes
    <2>5. KeyboardInv'
      <3>1. ~smeared => \A at \in DOMAIN under : under'[at] # Key
        BY <1>0, <1>1, <2>1, <2>3 DEF KeyboardInv
      <3> QED BY <1>0, <2>1, <2>2, <2>3, <3>1 DEF KeyboardInv
    <2> QED BY <1>0, <2>2, <2>4, <2>5, TouchKeeps
  <1> QED BY <1>2, <1>3, <1>4

-----------------------------------------------------------------------------
(* The command and what it prints: there is no line.                       *)
LEMMA NoLine ==
    ASSUME pc' \notin {"edit", "prompt"},
           typed' = <<>>, places' = <<>>, prompt' = <<>>, ~long'
    PROVE  LineTypes' /\ LineInv' /\ PromptInv' /\ PrintingInv'
  <1>1. LineTypes'
    BY DEF LineTypes
  <1>2. LineInv'
    BY DEF LineInv, Ordered, Passed, Erasable, Shown
  <1>3. PromptInv' /\ PrintingInv'
    BY DEF PromptInv, PromptPassed, PromptEnds, PromptShown, PrintingInv
  <1> QED BY <1>1, <1>2, <1>3

LEMMA EnterKeeps ==
    ASSUME Inv, Enter
    PROVE  Inv'
  <1>0. /\ pc = "edit" /\ pc' = "command" /\ kbd' = FALSE /\ req' = "hide"
        /\ scrolled' = Scrolls(0, con.row + 1)
        /\ typed' = <<>> /\ places' = <<>> /\ prompt' = <<>> /\ long' = FALSE
        /\ vbuf' = vbuf /\ vinip' = vinip /\ under' = under /\ smeared' = smeared
        /\ unseen' = unseen /\ rest' = rest
        /\ TypeInv /\ KeyboardInv /\ KeyboardTypes
    BY DEF Enter, line, Inv, TypeInv
  <1>1. PICK c \in Consoles : c = con /\ c.out = "text" /\ ~c.off
    BY <1>0, EditingConsole
  <1>2. PICK h \in Consoles :
            /\ h = HideCursor(c) /\ Same(h, c)
            /\ \A p \in Panel : h.cell[p] = IF p = c.cur THEN Blank ELSE c.cell[p]
    BY CursorFields
  <1>3. PICK a \in Consoles :
            /\ a = Hidden(h) /\ Same(a, h)
            /\ \A p \in Panel : a.cell[p] = IF p \in DOMAIN under
                                            THEN Restored(p, h.cell[p]) ELSE h.cell[p]
    BY <1>0, HiddenFields
  <1>4. PICK row : row = c.row + 1
    OBVIOUS
  <1>5. 0 \in -1 .. Cols + 1 /\ row \in 0 .. Rows + 1 /\ ~Wraps(0)
    BY <1>4, ConsoleFields, Sizes DEF Wraps
  <1>6. con' = Locate(a, 0, row)
    BY <1>1, <1>2, <1>3, <1>4 DEF Enter, PutAway
  <1>7. PICK d \in Consoles :
            /\ d = con' /\ d.out = "text" /\ d.off = c.off /\ d.col = 0
            /\ ~Scrolls(0, row) => d.cell = a.cell
            /\ Scrolls(0, row) => \A p \in Panel : d.cell[p] = Below(a, p)
    <2>1. a.out = "text" /\ a.off = c.off
      BY <1>1, <1>2, <1>3 DEF Same
    <2>2. /\ Locate(a, 0, row) \in Consoles /\ Locate(a, 0, row).out = a.out
          /\ Locate(a, 0, row).off = a.off /\ Locate(a, 0, row).col = 0
          /\ ~Scrolls(0, row) => Locate(a, 0, row).cell = a.cell
          /\ Scrolls(0, row) => \A p \in Panel : Locate(a, 0, row).cell[p] = Below(a, p)
      BY <1>5, <2>1, LocateFields
    <2> QED BY <1>6, <2>1, <2>2
  <1>8. LineTypes' /\ LineInv' /\ PromptInv' /\ PrintingInv'
    BY <1>0, NoLine
  <1>9. TypeInv'
    <2>1. ConsoleInv'
      BY <1>0, <1>1, <1>7 DEF ConsoleInv
    <2>2. StateInv' /\ KeyboardTypes'
      BY <1>0 DEF TypeInv, StateInv, KeyboardTypes
    <2> QED BY <1>8, <2>1, <2>2 DEF TypeInv
  <1>10. KeyboardInv'
    <2>1. ASSUME ~smeared, NEW p \in Panel
          PROVE  a.cell[p] # Key
      <3>1. CASE p \in DOMAIN under
        BY <1>0, <1>3, <2>1, <3>1, RestoredIs, KeyApart DEF KeyboardInv
      <3>2. CASE p \notin DOMAIN under
        BY <1>0, <1>1, <1>2, <1>3, <2>1, <3>2, KeyApart DEF KeyboardInv
      <3> QED BY <3>1, <3>2
    <2>2. ASSUME ~smeared, NEW p \in Panel
          PROVE  d.cell[p] # Key
      <3>1. p[1] < Rows => <<p[1] + 1, p[2]>> \in Panel
        BY PanelPlaces, Sizes
      <3>2. Below(a, p) # Key
        BY <2>1, <2>2, <3>1, KeyApart DEF Below
      <3> QED BY <1>7, <2>1, <2>2, <3>2
    <2> QED BY <1>0, <1>7, <2>2 DEF KeyboardInv
  <1>11. RequestInv'
    <2>1. ASSUME ~scrolled', NEW at \in DOMAIN under
          PROVE  Left(at, d.cell[at])
      <3>1. ~Scrolls(0, row) /\ at \in Panel
        BY <1>0, <1>1, <1>4, <2>1 DEF KeyboardTypes
      <3>2. d.cell[at] = Restored(at, h.cell[at])
        BY <1>3, <1>7, <3>1
      <3> QED BY <3>2, RestoredIs
    <2>2. ~scrolled' => LineLeft'
      BY <1>0, <1>7, <2>1 DEF LineLeft, Left, Edge
    <2> QED BY <1>0, <2>2 DEF RequestInv
  <1>12. TextIsSeen'
    BY <1>0 DEF Inv, TextIsSeen
  <1> QED BY <1>8, <1>9, <1>10, <1>11, <1>12 DEF Inv

LEMMA NoLineBetween ==
    ASSUME Inv, pc \notin {"edit", "prompt"}, pc' \notin {"edit", "prompt"},
           UNCHANGED shown
    PROVE  LineTypes' /\ LineInv' /\ PromptInv' /\ PrintingInv'
  <1>1. typed' = <<>> /\ places' = <<>> /\ prompt' = <<>> /\ ~long'
    BY DEF Inv, LineInv, PromptInv, shown
  <1> QED BY <1>1, NoLine

LEMMA CommandKeeps ==
    ASSUME Inv, NEW output \in Outputs, Command(output) \/ Mgi(output)
    PROVE  Inv'
  <1>0. /\ pc = "command" /\ rest' = output /\ UNCHANGED <<line, keyboard, shown>>
        /\ smeared' = smeared /\ scrolled' = scrolled /\ unseen' = unseen
        /\ TypeInv /\ KeyboardInv /\ RequestInv
    BY DEF Command, Mgi, InCommand, Inv
  <1>1. PICK c \in Consoles : c = con /\ c.col >= 0 /\ c.out = "text" /\ ~c.off
    BY <1>0, EditingConsole
  <1>2. pc' \in {"print", "loading"} /\ req' \in {"off", "hide"} /\ rest' \in Seq(Texts)
    BY <1>0, LineEditorAssumption DEF Command, Mgi, RequestInv, Texts
  <1>3. PICK d \in Consoles :
            /\ d = con' /\ Same(d, c)
            /\ \A p \in Panel : d.cell[p] = Key => c.cell[p] = Key
            /\ pc' = "print" => d = c
            /\ pc' = "loading" => \A p \in Panel : p = d.cur => d.cell[p] = Blank
    <2>1. CASE Command(output)
      BY <1>1, <2>1 DEF Command, Same
    <2>2. CASE Mgi(output)
      <3>1. /\ HideCursor(c) \in Consoles /\ Same(HideCursor(c), c)
            /\ \A p \in Panel :
                   HideCursor(c).cell[p] = IF p = c.cur THEN Blank ELSE c.cell[p]
        BY CursorFields
      <3> QED BY <1>1, <2>2, <3>1, KeyApart DEF Mgi, Same
    <2> QED BY <2>1, <2>2
  <1>4. LineTypes' /\ LineInv' /\ PromptInv' /\ PrintingInv'
    BY <1>0, <1>2, NoLineBetween
  <1>5. TypeInv'
    <2>1. ConsoleInv'
      BY <1>1, <1>2, <1>3 DEF ConsoleInv, Same
    <2>2. StateInv' /\ KeyboardTypes'
      BY <1>0, <1>2 DEF TypeInv, StateInv, KeyboardTypes, line, keyboard
    <2> QED BY <1>4, <2>1, <2>2 DEF TypeInv
  <1>6. KeyboardInv'
    BY <1>0, <1>1, <1>3 DEF KeyboardInv, keyboard
  <1>7. RequestInv'
    <2>1. CASE Command(output)
      <3>1. pc' = "print" /\ con' = con /\ req' = "hide" /\ under' = under
        BY <1>0, <2>1 DEF Command, RequestInv, keyboard
      <3>2. LineLeft => LineLeft'
        BY <3>1 DEF LineLeft, Left, Edge
      <3> QED BY <1>0, <3>1, <3>2 DEF RequestInv
    <2>2. CASE Mgi(output)
      <3>1. pc' = "loading" /\ req' = "off"
        BY <2>2 DEF Mgi
      <3> QED BY <1>3, <3>1 DEF RequestInv, CursorIs
    <2> QED BY <2>1, <2>2
  <1>8. TextIsSeen'
    BY <1>0 DEF Inv, TextIsSeen
  <1> QED BY <1>4, <1>5, <1>6, <1>7, <1>8 DEF Inv

(* The panel is cleared, for a text or for the interface.                  *)
LEMMA ClearKeeps ==
    ASSUME Inv, ClearScreen \/ (\E message \in Messages : EnterMgi(message)) \/ LeaveMgi
    PROVE  Inv'
  <1>0. /\ pc \in {"command", "loading", "gui"} /\ pc' \in {"print", "gui"}
        /\ UNCHANGED <<line, keyboard, shown>>
        /\ smeared' = smeared /\ unseen' = unseen /\ req' = "cursor"
        /\ pc' = "gui" => rest' \in Messages
        /\ pc' = "print" => rest' = <<>>
        /\ TypeInv /\ KeyboardInv /\ con \in Consoles
    BY DEF ClearScreen, EnterMgi, LeaveMgi, InCommand, history, Inv, TypeInv, ConsoleInv
  <1>1. rest' \in Seq(Texts)
    <2>1. rest' \in Messages \/ rest' = <<>>
      BY <1>0
    <2>2. \A m \in Messages : m \in Seq(Texts)
      BY LineEditorAssumption DEF Texts
    <2>3. <<>> \in Seq(Texts)
      OBVIOUS
    <2> QED BY <2>1, <2>2, <2>3
  <1>2. PICK d \in Consoles :
            /\ d = con' /\ (d.out = "window" <=> pc' = "gui")
            /\ pc' # "gui" => d.col >= 0 /\ ~d.off
            /\ \A p \in Panel : d.cell[p] \in {Blank, Mark}
    <2>1. CASE ClearScreen
      <3>1. PICK c \in Consoles : c = con /\ c.out = "text" /\ ~c.off
        BY <1>0, <2>1, EditingConsole DEF ClearScreen, InCommand
      <3>2. con' = Clear(c) /\ pc' = "print"
        BY <2>1, <3>1 DEF ClearScreen
      <3> QED BY <3>1, <3>2, ClearFields
    <2>2. CASE \E message \in Messages : EnterMgi(message)
      <3>1. PICK c : c = [con EXCEPT !.out = "window"]
        OBVIOUS
      <3>2. c \in Consoles /\ c.out = "window"
        BY <1>0, <3>1 DEF Consoles
      <3>3. con' = Clear(c) /\ pc' = "gui"
        BY <2>2, <3>1 DEF EnterMgi
      <3> QED BY <3>2, <3>3, ClearFields
    <2>3. CASE LeaveMgi
      <3>1. PICK c : c = [con EXCEPT !.out = "text", !.off = FALSE, !.col = 0, !.row = 0]
        OBVIOUS
      <3>2. c \in Consoles /\ c.out = "text" /\ c.off = FALSE
        <4>1. 0 \in -1 .. Cols /\ 0 \in 0 .. Rows
          BY Sizes
        <4> QED BY <1>0, <3>1, <4>1 DEF Consoles
      <3>3. PICK e \in Consoles :
                /\ e = Clear(c) /\ e.out = "text" /\ e.off = FALSE /\ e.col = 0
                /\ \A p \in Panel : e.cell[p] \in {Blank, Mark}
        BY <3>2, ClearFields
      <3>4. con' = ShowCursor(e) /\ pc' = "print"
        BY <2>3, <3>1, <3>3 DEF LeaveMgi
      <3>5. /\ ShowCursor(e) \in Consoles /\ Same(ShowCursor(e), e)
            /\ \A p \in Panel : ShowCursor(e).cell[p] = IF p = e.cur THEN Mark ELSE e.cell[p]
        BY CursorFields
      <3> QED BY <3>3, <3>4, <3>5 DEF Same
    <2> QED BY <2>1, <2>2, <2>3
  <1>3. LineTypes' /\ LineInv' /\ PromptInv' /\ PrintingInv'
    BY <1>0, NoLineBetween
  <1>4. TypeInv'
    <2>1. ConsoleInv'
      BY <1>0, <1>2 DEF ConsoleInv
    <2>2. StateInv' /\ KeyboardTypes'
      BY <1>0, <1>1 DEF TypeInv, StateInv, KeyboardTypes, line, keyboard
    <2> QED BY <1>3, <2>1, <2>2 DEF TypeInv
  <1>5. KeyboardInv'
    <2>1. \A p \in Panel : d.cell[p] # Key
      BY <1>2, KeyApart
    <2> QED BY <1>0, <1>2, <2>1 DEF KeyboardInv, keyboard
  <1>6. RequestInv'
    BY <1>0 DEF RequestInv, TextFirst
  <1>7. TextIsSeen'
    BY <1>0 DEF Inv, TextIsSeen
  <1> QED BY <1>3, <1>4, <1>5, <1>6, <1>7 DEF Inv

(* A command run from an icon, which may clear the panel; after it the     *)
(* interface's picture is put back.                                        *)
LEMMA ClearedKeeps ==
    ASSUME Inv, NEW d \in Consoles, con' = d, d.out = "window",
           \A p \in Panel : d.cell[p] \in {Blank, Mark},
           pc \in {"gui", "icon"}, pc' \in {"gui", "icon"}, rest' = <<>>,
           req' \in {"cursor", "off", "hide", "text", "touch"},
           pc' = "icon" => req' = "cursor",
           vbuf' \in Seq(Letters), Len(vbuf') <= BufLen,
           UNCHANGED <<vinip, keyboard, shown, history>>
    PROVE  Inv'
  <1>0. TypeInv /\ KeyboardInv
    BY DEF Inv
  <1>1. LineTypes' /\ LineInv' /\ PromptInv' /\ PrintingInv'
    BY NoLineBetween
  <1>2. TypeInv'
    <2>1. ConsoleInv'
      BY DEF ConsoleInv
    <2>2. StateInv'
      BY <1>0 DEF TypeInv, StateInv
    <2>3. KeyboardTypes'
      BY <1>0 DEF TypeInv, KeyboardTypes, keyboard
    <2> QED BY <1>1, <2>1, <2>2, <2>3 DEF TypeInv
  <1>3. KeyboardInv'
    <2>1. \A p \in Panel : d.cell[p] # Key
      BY KeyApart
    <2> QED BY <1>0, <2>1 DEF KeyboardInv, keyboard, history
  <1>4. RequestInv'
    BY DEF RequestInv
  <1>5. TextIsSeen'
    BY DEF Inv, TextIsSeen, history
  <1> QED BY <1>1, <1>2, <1>3, <1>4, <1>5 DEF Inv

LEMMA IconKeeps ==
    ASSUME Inv, (\E output \in Outputs : IconCommand(output)) \/ IconClears \/ IconDone
    PROVE  Inv'
  <1>0. TypeInv /\ KeyboardInv /\ StateInv /\ BufLen \in Nat
    BY LineEditorAssumption DEF Inv, TypeInv
  <1>1. PICK c \in Consoles : c = con
    BY <1>0 DEF TypeInv, ConsoleInv
  <1>2. <<>> \in Seq(Letters) /\ Len(<<>>) <= BufLen
    BY <1>0
  <1>3. ASSUME NEW output \in Outputs, IconCommand(output) PROVE Inv'
    <2>0. /\ pc = "gui" /\ pc' = "icon" /\ rest' = output /\ req' = "touch"
          /\ vbuf' = <<>> /\ vinip' = vinip /\ con' = con
          /\ UNCHANGED <<keyboard, shown, history>>
      BY <1>3 DEF IconCommand, RunIcon
    <2>1. LineTypes' /\ LineInv' /\ PromptInv' /\ PrintingInv'
      BY <2>0, NoLineBetween
    <2>2. output \in Seq(Texts)
      BY LineEditorAssumption DEF Texts
    <2>3. TypeInv'
      <3>1. ConsoleInv'
        BY <1>0, <2>0 DEF TypeInv, ConsoleInv
      <3>2. StateInv'
        BY <1>0, <1>2, <2>0, <2>2 DEF StateInv
      <3>3. KeyboardTypes'
        BY <1>0, <2>0 DEF TypeInv, KeyboardTypes, keyboard
      <3> QED BY <2>1, <3>1, <3>2, <3>3 DEF TypeInv
    <2>4. KeyboardInv'
      BY <1>0, <2>0 DEF KeyboardInv, keyboard, history
    <2>5. RequestInv'
      BY <2>0 DEF RequestInv
    <2>6. TextIsSeen'
      BY <2>0 DEF Inv, TextIsSeen, history
    <2> QED BY <2>1, <2>3, <2>4, <2>5, <2>6 DEF Inv
  <1>4. CASE IconClears
    <2>1. /\ pc = "gui" /\ pc' = "icon" /\ rest' = <<>> /\ req' = "cursor"
          /\ vbuf' = <<>> /\ con' = Clear(c)
          /\ UNCHANGED <<vinip, keyboard, shown, history>>
      BY <1>1, <1>4 DEF IconClears, RunIcon
    <2>2. c.out = "window"
      BY <1>0, <1>1, <2>1 DEF TypeInv, ConsoleInv
    <2>3. PICK d \in Consoles :
              /\ d = Clear(c) /\ d.out = "window"
              /\ \A p \in Panel : d.cell[p] \in {Blank, Mark}
      BY <2>2, ClearFields
    <2> QED BY <1>2, <2>1, <2>3, ClearedKeeps
  <1>5. CASE IconDone
    <2>1. /\ pc = "icon" /\ pc' = "gui" /\ rest' = <<>> /\ req' = req
          /\ vbuf' = vbuf /\ con' = Cleared(c)
          /\ UNCHANGED <<vinip, keyboard, shown, history>>
      BY <1>1, <1>5 DEF IconDone, line
    <2>2. /\ c.out = "window" /\ vbuf \in Seq(Letters) /\ Len(vbuf) <= BufLen
          /\ req \in {"cursor", "off", "hide", "text", "touch"}
      BY <1>0, <1>1, <2>1 DEF TypeInv, ConsoleInv, StateInv
    <2>3. PICK d \in Consoles :
              /\ d = Cleared(c) /\ d.out = "window"
              /\ \A p \in Panel : d.cell[p] \in {Blank, Mark}
      BY <2>2, ClearedFields DEF Same
    <2> QED BY <2>1, <2>2, <2>3, ClearedKeeps
  <1> QED BY <1>3, <1>4, <1>5

(* What the place of a touch may do as a request.                          *)
Alike(d, c) == d.col = c.col /\ d.row = c.row /\ d.out = c.out /\ d.off = c.off

LEMMA AsRequestFields ==
    ASSUME NEW c \in Consoles, NEW d \in AsRequest(c)
    PROVE  /\ d \in Consoles /\ Alike(d, c)
           /\ \A p \in Panel : d.cell[p] = Key => c.cell[p] = Key
  <1>1. CASE d = c
    BY <1>1 DEF Alike
  <1>2. CASE d = Cleared(c)
    BY <1>2, ClearedFields, KeyApart DEF Same, Alike
  <1>3. CASE d \in {[Draw(c, at, Cut) EXCEPT !.cur = at] : at \in Panel}
    <2>1. PICK at \in Panel : d = [Draw(c, at, Cut) EXCEPT !.cur = at]
      BY <1>3
    <2>2. Cut \in Chars
      BY DEF Chars
    <2>3. PICK e \in Consoles :
              /\ e = Draw(c, at, Cut) /\ Same(e, c)
              /\ \A p \in Panel : e.cell[p] = IF p = at THEN Cut ELSE c.cell[p]
      BY <2>2, DrawFields
    <2>4. at \in Cursors
      BY PanelPlaces, Sizes DEF Panel, Cursors
    <2>5. PutCursor(d, e, at)
      BY <2>1, <2>3, <2>4, CursorPut
    <2> QED BY <2>3, <2>5, KeyApart DEF Same, Alike, PutCursor
  <1> QED BY <1>1, <1>2, <1>3 DEF AsRequest

(* What the old request does to the panel.                                 *)
LEMMA ResentFields ==
    ASSUME NEW c \in Consoles, KeyboardTypes,
           req \in {"cursor", "off", "hide", "text", "touch"}, NEW d \in Resent(c)
    PROVE  /\ d \in Consoles /\ Alike(d, c) /\ (req # "touch" => d.cur = c.cur)
           /\ \A p \in Panel : d.cell[p] = Key =>
                  c.cell[p] = Key \/ (p \in DOMAIN under /\ under[p] = Key)
           /\ req = "cursor" => \A p \in Panel : p = c.cur => d.cell[p] = Mark
           /\ req = "off" => \A p \in Panel : p = c.cur => d.cell[p] = Blank
           /\ req = "hide" => \A p \in Panel : p \in DOMAIN under => Left(p, d.cell[p])
  <1>1. CASE req = "hide"
    <2>1. d = Hidden(c)
      BY <1>1 DEF Resent
    <2>2. /\ d \in Consoles /\ Same(d, c)
          /\ \A p \in Panel : d.cell[p] = IF p \in DOMAIN under
                                          THEN Restored(p, c.cell[p]) ELSE c.cell[p]
      BY <2>1, HiddenFields
    <2>3. ASSUME NEW p \in Panel, p \in DOMAIN under
          PROVE  Left(p, d.cell[p]) /\ (d.cell[p] = Key => under[p] = Key)
      BY <2>2, <2>3, RestoredIs, KeyApart
    <2> QED BY <1>1, <2>2, <2>3 DEF Same, Alike
  <1>2. CASE req = "cursor"
    <2>1. d = ShowCursor(c)
      BY <1>2 DEF Resent
    <2> QED BY <1>2, <2>1, CursorFields, KeyApart DEF Same, Alike
  <1>3. CASE req = "off"
    <2>1. d = HideCursor(c)
      BY <1>3 DEF Resent
    <2> QED BY <1>3, <2>1, CursorFields, KeyApart DEF Same, Alike
  <1>4. CASE req = "text"
    <2>1. d = c
      BY <1>4 DEF Resent
    <2> QED BY <1>4, <2>1 DEF Alike
  <1>5. CASE req = "touch"
    <2>1. d \in AsRequest(c)
      BY <1>5 DEF Resent
    <2> QED BY <1>5, <2>1, AsRequestFields
  <1> QED BY <1>1, <1>2, <1>3, <1>4, <1>5

LEMMA OutputKeeps ==
    ASSUME Inv, Output
    PROVE  Inv'
  <1>0. /\ pc \in {"print", "loading", "gui", "icon"} /\ pc' = pc /\ rest # <<>>
        /\ rest' = Tail(rest)
        /\ UNCHANGED <<line, keyboard, shown>> /\ smeared' = smeared
        /\ TypeInv /\ KeyboardInv /\ KeyboardTypes /\ StateInv /\ RequestInv
    BY DEF Output, Printing, Inv, TypeInv
  <1>1. PICK ch \in Texts : ch = Head(rest)
    BY <1>0 DEF StateInv
  <1>2. rest' \in Seq(Texts)
    BY <1>0 DEF StateInv
  <1>3. PICK b \in Consoles : b = con
    BY <1>0 DEF TypeInv, ConsoleInv
  <1>4. /\ b.out = "window" <=> pc \in {"gui", "icon"}
        /\ pc \notin {"gui", "icon"} => b.col >= 0 /\ ~b.off
    BY <1>0, <1>3 DEF TypeInv, ConsoleInv
  <1>5. PICK c \in IF ch = NL THEN Resent(b) ELSE {b} :
            /\ con' = PrintChar(c, ch) /\ req' = IF ch = NL THEN req ELSE "text"
            /\ scrolled' = (scrolled \/ PrintScrolls(c, ch))
            /\ unseen' = unseen \cup (IF ch # NL /\ (OffPanel(c) \/ Here(c) \notin Panel)
                                      THEN {c.out} ELSE {})
    BY <1>1, <1>3 DEF Output
  <1>6. /\ c \in Consoles /\ Alike(c, b)
        /\ \A p \in Panel : c.cell[p] = Key =>
               b.cell[p] = Key \/ (p \in DOMAIN under /\ under[p] = Key)
    <2>1. CASE ch = NL
      <3>1. req \in {"cursor", "off", "hide", "text", "touch"} /\ c \in Resent(b)
        BY <1>0, <1>5, <2>1 DEF StateInv
      <3> QED BY <1>0, <3>1, ResentFields
    <2>2. CASE ch # NL
      BY <1>5, <2>2 DEF Alike
    <2> QED BY <2>1, <2>2
  <1>7. /\ con' = PrintChar(c, ch) /\ req' = IF ch = NL THEN req ELSE "text"
        /\ scrolled' = (scrolled \/ PrintScrolls(c, ch))
        /\ unseen' = unseen \cup (IF ch # NL /\ (OffPanel(c) \/ Here(c) \notin Panel)
                                  THEN {c.out} ELSE {})
    BY <1>5
  <1>8. ch \in Chars \cup {NL} /\ ch # Key
    BY KeyApart DEF Texts, Chars
  <1>9. PICK d \in Consoles :
            /\ d = con' /\ d.out = c.out
            /\ c.col >= 0 /\ ~c.off => d.col >= 0 /\ ~d.off
            /\ (\A p \in Panel : c.cell[p] # Key) => \A p \in Panel : d.cell[p] # Key
    <2>1. PrintChar(c, ch) \in Consoles
      BY <1>6, <1>8, PrintKeeps
    <2> QED BY <1>6, <1>7, <1>8, <2>1, PrintKeeps
  <1>10. LineTypes' /\ LineInv' /\ PromptInv' /\ PrintingInv'
    BY <1>0, NoLineBetween
  <1>11. TypeInv'
    <2>1. ConsoleInv'
      BY <1>0, <1>4, <1>6, <1>9 DEF ConsoleInv, Alike
    <2>2. StateInv' /\ KeyboardTypes'
      BY <1>0, <1>2, <1>7 DEF StateInv, KeyboardTypes, line, keyboard
    <2> QED BY <1>10, <2>1, <2>2 DEF TypeInv
  <1>12. KeyboardInv'
    <2>1. ~kbd
      BY <1>0 DEF KeyboardInv
    <2>2. ~smeared => \A p \in Panel : c.cell[p] # Key
      BY <1>0, <1>3, <1>6, <2>1 DEF KeyboardInv
    <2> QED BY <1>0, <1>9, <2>1, <2>2 DEF KeyboardInv, keyboard
  <1>13. RequestInv'
    <2>1. CASE ch # NL
      BY <1>0, <1>7, <2>1 DEF RequestInv
    <2>2. CASE ch = NL
      <3>1. req' = req /\ c \in Resent(b) /\ under' = under
        BY <1>0, <1>5, <1>7, <2>2 DEF keyboard
      <3>2. /\ TextFirst /\ pc = "gui" => req = "text"
            /\ pc = "icon" => req \in {"touch", "text"}
        BY <1>0, <1>1, <2>2 DEF RequestInv
      <3>3. /\ req # "touch" => c.cur = b.cur
            /\ req = "cursor" => \A p \in Panel : p = b.cur => c.cell[p] = Mark
            /\ req = "off" => \A p \in Panel : p = b.cur => c.cell[p] = Blank
            /\ req = "hide" => \A p \in Panel : p \in DOMAIN under => Left(p, c.cell[p])
        <4>1. req \in {"cursor", "off", "hide", "text", "touch"}
          BY <1>0 DEF StateInv
        <4> QED BY <1>0, <3>1, <4>1, ResentFields
      <3>4. ASSUME ~scrolled', pc \in {"print", "loading"}
            PROVE  d.cell = c.cell /\ d.cur = c.cur /\ c.cur = b.cur
        <4>1. c.out = "text" /\ ~PrintScrolls(c, NL)
          BY <1>4, <1>6, <1>7, <2>2, <3>4, ConsoleFields DEF Alike
        <4>2. req # "touch"
          BY <1>0, <3>4 DEF RequestInv
        <4> QED BY <1>6, <1>7, <1>9, <2>2, <3>3, <4>1, <4>2, PrintLine
      <3>5. pc = "print" /\ req = "cursor" /\ ~scrolled' => CursorIs(Mark)'
        BY <1>9, <3>3, <3>4 DEF CursorIs
      <3>6. pc = "loading" /\ req = "off" /\ ~scrolled' => CursorIs(Blank)'
        BY <1>9, <3>3, <3>4 DEF CursorIs
      <3>7. pc = "print" /\ req = "hide" /\ ~scrolled' => LineLeft'
        <4>1. DOMAIN under \subseteq Panel
          BY <1>0 DEF KeyboardTypes
        <4>2. pc = "print" /\ req = "hide" /\ ~scrolled' =>
                  \A at \in DOMAIN under : Left(at, d.cell[at])
          BY <3>3, <3>4, <4>1
        <4> QED BY <1>9, <3>1, <4>2 DEF LineLeft, Left, Edge
      <3>8. /\ pc = "print" => req \notin {"off", "touch"}
            /\ pc = "loading" => req \in {"off", "text"}
        BY <1>0 DEF RequestInv
      <3> QED BY <1>0, <1>9, <3>1, <3>2, <3>5, <3>6, <3>7, <3>8 DEF RequestInv
    <2> QED BY <2>1, <2>2
  <1>14. TextIsSeen'
    <2>1. c.out # "text" \/ (~OffPanel(c) /\ Here(c) \in Panel)
      <3>1. c.out = "text" => c.col >= 0 /\ ~c.off
        BY <1>4, <1>6 DEF Alike
      <3> QED BY <1>6, <3>1, HereOnPanel, ConsoleFields DEF OffPanel
    <2> QED BY <1>7, <2>1 DEF Inv, TextIsSeen
  <1> QED BY <1>10, <1>11, <1>12, <1>13, <1>14 DEF Inv

-----------------------------------------------------------------------------
(* The prompt is printed.                                                  *)
LEMMA PromptKeeps ==
    ASSUME Inv, NEW length \in PromptLens, Prompt(length)
    PROVE  Inv'
  <1>0. /\ pc = "print" /\ pc' = "prompt" /\ rest' = [i \in 1 .. length |-> Hash]
        /\ UNCHANGED <<line, req, keyboard, shown, history>>
        /\ TypeInv /\ KeyboardInv /\ length \in Nat
    BY LineEditorAssumption DEF Prompt, Inv
  <1>1. PICK c \in Consoles : c = con /\ c.out = "text" /\ c.col >= 0 /\ ~c.off
    BY <1>0, EditingConsole
  <1>2. PICK row : row = c.row
    OBVIOUS
  <1>3. /\ 0 \in -1 .. Cols + 1 /\ row \in 0 .. Rows + 1 /\ ~Wraps(0) /\ ~Scrolls(0, row)
    BY <1>2, ConsoleFields, Sizes DEF Wraps, Scrolls, NewRow
  <1>4. con' = Locate(c, 0, row)
    BY <1>1, <1>2 DEF Prompt
  <1>5. PICK d \in Consoles :
            d = con' /\ d.out = c.out /\ d.off = c.off /\ d.col = 0 /\ d.cell = c.cell
    BY <1>3, <1>4, LocateFields
  <1>6. rest' \in Seq({Hash}) /\ Len(rest') = length
    BY <1>0
  <1>7. typed' = <<>> /\ places' = <<>> /\ prompt' = <<>> /\ ~long'
    BY <1>0 DEF Inv, LineInv, PromptInv, shown
  <1>8. LineTypes' /\ LineInv' /\ PromptInv'
    BY <1>0, <1>7 DEF LineTypes, LineInv, Ordered, Passed, Erasable, Shown, PromptInv,
       PromptPassed, PromptEnds, PromptShown
  <1>9. TypeInv'
    <2>1. ConsoleInv'
      BY <1>0, <1>1, <1>5 DEF ConsoleInv
    <2>2. StateInv' /\ KeyboardTypes'
      BY <1>0, <1>6 DEF TypeInv, StateInv, KeyboardTypes, line, keyboard
    <2> QED BY <1>8, <2>1, <2>2 DEF TypeInv
  <1>10. KeyboardInv'
    BY <1>0, <1>1, <1>5 DEF KeyboardInv, keyboard, history
  <1>11. PrintingInv'
    <2>1. Len(prompt') = 0
      BY <1>7
    <2>2. 0 = 0 * (Cols + 1) + d.col
      BY <1>5, Sizes
    <2> QED BY <1>0, <1>5, <1>6, <1>7, <2>1, <2>2 DEF PrintingInv
  <1>12. RequestInv' /\ TextIsSeen'
    BY <1>0 DEF Inv, RequestInv, TextIsSeen, history
  <1> QED BY <1>8, <1>9, <1>10, <1>11, <1>12 DEF Inv

LEMMA PromptCharKeeps ==
    ASSUME Inv, PromptChar
    PROVE  Inv'
  <1>0. /\ pc = "prompt" /\ pc' = "prompt" /\ rest # <<>> /\ rest' = Tail(rest)
        /\ con' = PrintChar(con, Hash) /\ req' = "text"
        /\ prompt' = Kept(<<con.row, con.col + 1>>, Append(prompt, Here(con)))
        /\ UNCHANGED <<line, keyboard, typed, places, long, covered, history>>
        /\ TypeInv /\ KeyboardInv /\ PromptInv /\ PrintingInv
    BY DEF PromptChar, Inv
  <1>1. PICK c \in Consoles : c = con /\ c.out = "text" /\ c.col >= 0 /\ ~c.off
    BY <1>0, EditingConsole
  <1>2. Hash \in Chars /\ Hash # NL /\ Hash # Key
    <2>1. Hash # NL
      BY Zenon DEF Hash, NL
    <2> QED BY <2>1, KeyApart DEF Chars
  <1>3. PICK up : up = IF Scrolls(c.col + 1, c.row) THEN 1 ELSE 0
    OBVIOUS
  <1>4. PICK d : d = PrintChar(c, Hash)
    OBVIOUS
  <1>5. d = con'
    BY <1>0, <1>1, <1>4
  <1>6. /\ d \in Consoles /\ d.out = "text" /\ d.col >= 0 /\ ~d.off
        /\ (\A p \in Panel : c.cell[p] # Key) => \A p \in Panel : d.cell[p] # Key
    BY <1>1, <1>2, <1>4, PrintKeeps
  <1>7. \/ d.col = c.col + 1 /\ d.row = c.row /\ up = 0 /\ d.cur = Here(d)
        \/ /\ c.col = Cols /\ d.col = 0 /\ d.row = c.row + 1 - up
           /\ d.cur[2] = Cols + 1 /\ up \in {0, 1}
    BY <1>1, <1>2, <1>3, <1>4, PrintEffect
  <1>8. /\ \A p \in Places : Before(p, Here(c)) \/ p = Here(c) =>
               Before(Raise(p, up), Here(d)) /\ Raise(p, up) # d.cur
        /\ \A p \in Places : Before(p, Here(c)) /\ Raise(p, up) \in Panel =>
               p \in Panel /\ d.cell[Raise(p, up)] = c.cell[p]
        /\ Raise(Here(c), up) \in Panel => d.cell[Raise(Here(c), up)] = Hash
    BY <1>1, <1>2, <1>3, <1>4, PrintEffect
  <1>9. Here(c) \in Places /\ Here(c) = <<c.row, c.col>> /\ c.row \in Int /\ c.col \in Int
    BY <1>1, ConsoleFields DEF Here, Places
  <1>10. prompt \in Seq(Places)
    BY <1>0 DEF TypeInv, LineTypes
  <1>11. PICK m \in Nat : m = Len(prompt)
    BY <1>10
  <1>12. /\ prompt' \in Seq(Places) /\ Len(prompt') = m + 1
         /\ \A i \in 1 .. m : prompt'[i] = Raise(prompt[i], up) /\ prompt[i] \in Places
         /\ prompt'[m + 1] = Raise(Here(c), up)
    <2>1. PICK seq : seq = Append(prompt, Here(c))
      OBVIOUS
    <2>2. /\ seq \in Seq(Places) /\ Len(seq) = m + 1
          /\ \A i \in 1 .. m : seq[i] = prompt[i]
          /\ seq[m + 1] = Here(c)
      BY <1>9, <1>10, <1>11, <2>1
    <2>3. PICK to : to = <<c.row, c.col + 1>>
      OBVIOUS
    <2>6. to[1] = c.row /\ to[2] = c.col + 1
      BY <1>9, <2>3
    <2>4. prompt' = Kept(to, seq)
      BY <1>0, <1>1, <2>1, <2>3
    <2>5. /\ Kept(to, seq) \in Seq(Places) /\ Len(Kept(to, seq)) = m + 1
          /\ \A i \in 1 .. m + 1 : Kept(to, seq)[i] = Raise(seq[i], up)
      BY <1>3, <2>2, <2>6, KeptFields
    <2> QED BY <1>10, <1>11, <2>2, <2>4, <2>5
  <1>13. rest \in Seq({Hash}) /\ rest' \in Seq({Hash}) /\ Len(rest) = Len(rest') + 1
    BY <1>0 DEF TypeInv, StateInv
  <1>14. typed = <<>> /\ places = <<>> /\ ~long
    BY <1>0 DEF Inv, LineInv
  <1>15. \A i \in 1 .. m + 1 : i \in 1 .. m \/ i = m + 1
    OBVIOUS
  <1>16. TypeInv'
    <2>1. ConsoleInv'
      BY <1>0, <1>5, <1>6 DEF ConsoleInv
    <2>2. LineTypes'
      BY <1>0, <1>12, <1>14 DEF LineTypes
    <2>3. StateInv' /\ KeyboardTypes'
      BY <1>0, <1>13 DEF TypeInv, StateInv, KeyboardTypes, line, keyboard
    <2> QED BY <2>1, <2>2, <2>3 DEF TypeInv
  <1>17. KeyboardInv'
    BY <1>0, <1>1, <1>5, <1>6 DEF KeyboardInv, keyboard, history
  <1>18. LineInv'
    BY <1>0, <1>14 DEF LineInv, Ordered, Passed, Erasable, Shown
  <1>19. PromptInv'
    <2>1. ASSUME NEW i \in 1 .. m
          PROVE  Before(prompt'[i], Here(d)) /\ prompt'[i] # d.cur
      <3>1. Before(prompt[i], Here(c))
        BY <1>0, <1>1, <1>11 DEF PromptInv, PromptPassed
      <3> QED BY <1>8, <1>12, <3>1
    <2>2. PromptPassed'
      BY <1>5, <1>8, <1>9, <1>12, <1>15, <2>1 DEF PromptPassed
    <2>3. ASSUME PromptsFit, ~covered, NEW i \in 1 .. m, prompt'[i] \in Panel
          PROVE  d.cell[prompt'[i]] = Hash
      <3>1. Before(prompt[i], Here(c))
        BY <1>0, <1>1, <1>11 DEF PromptInv, PromptPassed
      <3>2. prompt[i] \in Panel /\ d.cell[prompt'[i]] = c.cell[prompt[i]]
        BY <1>8, <1>12, <2>3, <3>1
      <3> QED BY <1>0, <1>1, <1>11, <2>3, <3>2 DEF PromptInv, PromptShown
    <2>4. PromptShown'
      BY <1>0, <1>5, <1>8, <1>12, <1>15, <2>3 DEF PromptShown
    <2> QED BY <1>0, <2>2, <2>4 DEF PromptInv, PromptEnds
  <1>20. PrintingInv'
    <2>1. Len(prompt') + Len(rest') \in PromptLens
      <3>1. m + Len(rest) \in PromptLens /\ Len(rest') \in Nat
        BY <1>0, <1>11, <1>13 DEF PrintingInv
      <3>2. m + Len(rest) = (m + 1) + Len(rest')
        BY <1>13, <3>1
      <3> QED BY <1>12, <3>1, <3>2
    <2>2. d.cur = Here(d) \/ d.cur[2] = Cols + 1
      BY <1>7
    <2>3. PICK q \in Nat : /\ m = q * (Cols + 1) + c.col
                           /\ \A i \in 1 .. m : prompt[i][1] >= c.row - q
      BY <1>0, <1>1, <1>11 DEF PrintingInv
    <2>4. \E r \in Nat : /\ m + 1 = r * (Cols + 1) + d.col
                         /\ \A i \in 1 .. m + 1 : prompt'[i][1] >= d.row - r
      <3>0. up \in Int
        BY <1>3
      <3>1. ASSUME NEW i \in 1 .. m
            PROVE  prompt'[i][1] >= c.row - q - up
        <4>1. PICK p \in Places : /\ p = prompt[i] /\ prompt'[i] = Raise(p, up)
                                  /\ p[1] >= c.row - q
          BY <1>12, <2>3
        <4>2. Raise(p, up)[1] = p[1] - up /\ p[1] \in Int
          BY <3>0, RaisedPlaces, PlaceParts
        <4> QED BY <1>9, <3>0, <4>1, <4>2
      <3>2. prompt'[m + 1][1] = c.row - up
        <4>1. PICK p \in Places : /\ p = Here(c) /\ p[1] = c.row
                                  /\ prompt'[m + 1] = Raise(p, up)
          BY <1>9, <1>12
        <4> QED BY <3>0, <4>1, RaisedPlaces
      <3>3. CASE d.col = c.col + 1 /\ d.row = c.row /\ up = 0
        <4>1. m + 1 = q * (Cols + 1) + d.col
          BY <1>9, <2>3, <3>3, Sizes
        <4>2. \A i \in 1 .. m + 1 : prompt'[i][1] >= d.row - q
          BY <1>9, <1>15, <3>1, <3>2, <3>3
        <4> QED BY <4>1, <4>2
      <3>4. CASE c.col = Cols /\ d.col = 0 /\ d.row = c.row + 1 - up
        <4>1. m + 1 = (q + 1) * (Cols + 1) + d.col
          BY <2>3, <3>4, Sizes
        <4>2. d.row - (q + 1) = c.row - q - up
          BY <1>9, <3>0, <3>4
        <4>3. c.row - up >= c.row - q - up
          BY <1>9, <3>0
        <4>4. \A i \in 1 .. m + 1 : prompt'[i][1] >= d.row - (q + 1)
          BY <1>15, <3>1, <3>2, <4>2, <4>3
        <4> QED BY <4>1, <4>4
      <3> QED BY <1>7, <3>3, <3>4
    <2> QED BY <1>5, <1>12, <2>1, <2>2, <2>4 DEF PrintingInv
  <1>21. RequestInv' /\ TextIsSeen'
    BY <1>0 DEF Inv, RequestInv, TextIsSeen, history
  <1> QED BY <1>16, <1>17, <1>18, <1>19, <1>20, <1>21 DEF Inv

LEMMA FewerRows ==
    ASSUME NEW a \in Int, NEW b \in Int, NEW n \in Nat, n >= 1, a * n < b * n
    PROVE  a < b
  <1>1. SUFFICES ASSUME a >= b PROVE FALSE
    OBVIOUS
  <1>2. PICK e \in Nat : a = b + e
    <2>1. a - b \in Nat /\ a = b + (a - b)
      BY <1>1
    <2> QED BY <2>1
  <1>3. a * n = b * n + e * n /\ e * n >= 0
    BY <1>2
  <1> QED BY <1>3

LEMMA ReadyKeeps ==
    ASSUME Inv, Ready
    PROVE  Inv'
  <1>0. /\ pc = "prompt" /\ pc' = "edit" /\ rest = <<>> /\ rest' = rest
        /\ vinip' = con.col /\ vbuf' = <<>> /\ kbd' = TRUE /\ req' = "cursor"
        /\ UNCHANGED <<shown, history>>
        /\ TypeInv /\ KeyboardInv /\ PromptInv /\ PrintingInv
    BY DEF Ready, Inv
  <1>1. PICK b \in Consoles : b = con /\ b.out = "text" /\ b.col >= 0 /\ ~b.off
    BY <1>0, EditingConsole
  <1>2. PICK c \in Consoles :
            /\ c = ShowCursor(b) /\ Same(c, b)
            /\ \A p \in Panel : c.cell[p] = IF p = b.cur THEN Mark ELSE b.cell[p]
    BY CursorFields
  <1>3. PICK area \in SUBSET Panel : area = Area(KeyPlace(c))
    BY DEF Area
  <1>4. /\ con' = Covered(c, area) /\ under' = [at \in area |-> c.cell[at]]
    BY <1>1, <1>2, <1>3 DEF Ready, Picture
  <1>5. PICK d \in Consoles :
            /\ d = con' /\ Same(d, c)
            /\ \A p \in Panel : d.cell[p] = IF p \in area THEN Key ELSE c.cell[p]
    BY <1>4, CoveredFields
  <1>6. /\ d.col = b.col /\ d.row = b.row /\ d.cur = b.cur /\ d.out = "text" /\ ~d.off
        /\ Here(d) = Here(b) /\ Here(b) = <<b.row, b.col>>
        /\ b.col \in 0 .. Cols /\ b.row \in 0 .. Rows /\ Cols \in Nat
    BY <1>1, <1>2, <1>5, ConsoleFields, Sizes DEF Same, Here
  <1>7. typed = <<>> /\ places = <<>> /\ ~long
    BY <1>0 DEF Inv, LineInv
  <1>8. DOMAIN under' = area
    BY <1>4
  <1>9. TypeInv'
    <2>1. ConsoleInv'
      BY <1>0, <1>1, <1>5, <1>6 DEF ConsoleInv
    <2>2. LineTypes'
      BY <1>0 DEF TypeInv, LineTypes, shown
    <2>3. StateInv'
      <3>1. vbuf' \in Seq(Letters) /\ Len(vbuf') <= BufLen
        BY <1>0, LineEditorAssumption
      <3> QED BY <1>0, <1>1, <1>6, <3>1 DEF StateInv
    <2>4. KeyboardTypes'
      <3>1. \A at \in Panel : c.cell[at] \in Chars
        BY ConsoleFields DEF Cells
      <3>2. under' \in [area -> Chars]
        BY <1>4, <3>1
      <3> QED BY <1>0, <1>8, <3>2 DEF KeyboardTypes
    <2> QED BY <2>1, <2>2, <2>3, <2>4 DEF TypeInv
  <1>10. KeyboardInv'
    <2>1. ASSUME ~smeared, NEW p \in Panel PROVE c.cell[p] # Key
      <3>1. b.cell[p] # Key
        BY <1>0, <1>1, <2>1 DEF KeyboardInv
      <3> QED BY <1>2, <3>1, KeyApart
    <2>2. ~smeared => \A at \in area : under'[at] # Key
      BY <1>4, <2>1
    <2>3. ~smeared => \A at \in Panel : d.cell[at] = Key => at \in area
      BY <1>5, <2>1
    <2> QED BY <1>0, <1>5, <1>8, <2>2, <2>3 DEF KeyboardInv, history
  <1>11. LineInv'
    <2>1. typed' = <<>> /\ places' = <<>> /\ ~long' /\ Len(places') = 0
      BY <1>0, <1>7 DEF shown
    <2>2. Ordered' /\ Passed' /\ Shown'
      BY <2>1 DEF Ordered, Passed, Shown
    <2>3. Erasable'
      BY <1>0, <1>1, <1>5, <1>6 DEF Erasable
    <2> QED BY <1>0, <1>1, <1>5, <1>6, <2>1, <2>2, <2>3 DEF LineInv
  <1>12. ASSUME NEW i \in 1 .. Len(prompt)
         PROVE  /\ prompt[i] \in Places /\ Before(prompt[i], Here(b)) /\ prompt[i] # b.cur
                /\ prompt[i][1] \in Int /\ prompt[i][2] \in Int
                /\ prompt[i][1] = b.row => prompt[i][2] < b.col
                /\ prompt[i][1] <= b.row
    <2>1. prompt[i] \in Places
      BY <1>0 DEF TypeInv, LineTypes
    <2>2. Before(prompt[i], Here(b)) /\ prompt[i] # b.cur
      BY <1>0, <1>1 DEF PromptInv, PromptPassed
    <2>3. prompt[i][1] \in Int /\ prompt[i][2] \in Int
      BY <2>1, PlaceParts
    <2> QED BY <1>6, <2>1, <2>2, <2>3 DEF Before
  <1>13. PromptInv'
    <2>1. prompt' = prompt /\ covered' = covered
      BY <1>0 DEF shown
    <2>2. PromptPassed'
      BY <1>5, <1>6, <1>12, <2>1 DEF PromptPassed
    <2>3. PromptEnds'
      BY <1>0, <1>1, <1>5, <1>6, <1>12, <2>1 DEF PromptEnds
    <2>4. ASSUME PromptsFit, NEW i \in 1 .. Len(prompt)
          PROVE  prompt[i] \notin area
      <3>1. PICK q \in Nat : /\ Len(prompt) = q * (Cols + 1) + b.col
                             /\ \A j \in 1 .. Len(prompt) : prompt[j][1] >= b.row - q
        BY <1>0, <1>1 DEF PrintingInv
      <3>2. Len(prompt) \in PromptLens /\ Len(prompt) \in Nat
        <4>1. Len(prompt) \in Nat /\ Len(rest) = 0 /\ Len(prompt) + Len(rest) \in PromptLens
          BY <1>0 DEF PrintingInv, TypeInv, LineTypes
        <4> QED BY <4>1
      <3>3. KeyRows \in Nat /\ KeyAbove \in Nat /\ KeyRoom \in Nat
        BY LineEditorAssumption
      <3>4. q < KeyAbove - KeyRows + 1
        <4>1. PICK n \in Nat : n = Cols + 1 /\ n >= 1
          BY <1>6
        <4>2. PICK k \in Int : k = KeyAbove - KeyRows + 1
          BY <3>3
        <4>3. Len(prompt) < k * n
          BY <2>4, <3>2, <4>1, <4>2 DEF PromptsFit
        <4>4. q * n <= Len(prompt)
          BY <1>6, <3>1, <4>1
        <4>5. q * n < k * n
          <5>1. q * n \in Int /\ k * n \in Int
            OBVIOUS
          <5> QED BY <3>2, <4>3, <4>4, <5>1
        <4>6. q < k
          BY <4>1, <4>5, FewerRows
        <4> QED BY <4>2, <4>6
      <3>5. prompt[i][1] >= b.row - q /\ prompt[i][1] <= b.row /\ prompt[i][1] \in Int
        BY <1>12, <3>1
      <3>6. c.row = b.row
        BY <1>2 DEF Same
      <3>7. prompt[i] \in area =>
                prompt[i][1] \in KeyPlace(c) .. KeyPlace(c) + KeyRows - 1
        BY <1>3 DEF Area
      <3>8. KeyPlace(c) = b.row + 1 \/ KeyPlace(c) = b.row - KeyAbove
        BY <3>6 DEF KeyPlace
      <3> QED BY <1>6, <3>3, <3>4, <3>5, <3>7, <3>8
    <2>5. ASSUME PromptsFit, ~covered, NEW i \in 1 .. Len(prompt), prompt[i] \in Panel
          PROVE  d.cell[prompt[i]] = Hash
      <3>1. b.cell[prompt[i]] = Hash
        BY <1>0, <1>1, <2>5 DEF PromptInv, PromptShown
      <3> QED BY <1>2, <1>5, <1>12, <2>4, <2>5, <3>1
    <2>6. PromptShown'
      BY <1>5, <2>1, <2>5 DEF PromptShown
    <2> QED BY <1>0, <2>2, <2>3, <2>6 DEF PromptInv
  <1>14. PrintingInv' /\ RequestInv' /\ TextIsSeen'
    BY <1>0 DEF Inv, PrintingInv, RequestInv, TextIsSeen, history
  <1> QED BY <1>9, <1>10, <1>11, <1>13, <1>14 DEF Inv

-----------------------------------------------------------------------------
(* Every action keeps the invariant.                                       *)
LEMMA NextInv == Inv /\ [Next]_vars => Inv'
  <1> SUFFICES ASSUME Inv, [Next]_vars PROVE Inv'
    OBVIOUS
  <1>1. ASSUME NEW ch \in Letters, Type(ch) PROVE Inv'
    BY <1>1, TypeKeeps
  <1>2. CASE Backspace
    BY <1>2, BackspaceKeeps
  <1>3. CASE Redraw \/ Close \/ Reopen
    BY <1>3, KeyboardKeeps
  <1>4. CASE Enter
    BY <1>4, EnterKeeps
  <1>5. ASSUME NEW output \in Outputs, Command(output) \/ Mgi(output) \/ IconCommand(output)
        PROVE  Inv'
    BY <1>5, CommandKeeps, IconKeeps
  <1>6. CASE ClearScreen \/ (\E message \in Messages : EnterMgi(message)) \/ LeaveMgi
    BY <1>6, ClearKeeps
  <1>7. CASE Output \/ IconClears \/ IconDone
    BY <1>7, OutputKeeps, IconKeeps
  <1>8. ASSUME NEW length \in PromptLens, Prompt(length) PROVE Inv'
    BY <1>8, PromptKeeps
  <1>9. CASE PromptChar
    BY <1>9, PromptCharKeeps
  <1>10. CASE Ready
    BY <1>10, ReadyKeeps
  <1>11. CASE UNCHANGED vars
    <2>1. /\ con' = con /\ pc' = pc /\ rest' = rest /\ line' = line /\ req' = req
          /\ keyboard' = keyboard /\ shown' = shown /\ history' = history
      BY <1>11 DEF vars
    <2>2. TypeInv'
      BY <2>1 DEF Inv, TypeInv, ConsoleInv, StateInv, LineTypes, KeyboardTypes,
                  line, keyboard, shown
    <2>3. KeyboardInv'
      BY <2>1 DEF Inv, KeyboardInv, keyboard, history
    <2>4. LineInv'
      BY <2>1 DEF Inv, LineInv, Ordered, Passed, Erasable, Shown, line, shown
    <2>5. PromptInv' /\ PrintingInv'
      BY <2>1 DEF Inv, PromptInv, PromptPassed, PromptEnds, PromptShown, PrintingInv,
                  line, shown
    <2>6. RequestInv' /\ TextIsSeen'
      BY <2>1 DEF Inv, RequestInv, CursorIs, LineLeft, Left, Edge, TextIsSeen, keyboard,
                  history
    <2> QED BY <2>2, <2>3, <2>4, <2>5, <2>6 DEF Inv
  <1>12. \/ \E ch \in Letters : Type(ch)
         \/ \E output \in Outputs : Command(output) \/ Mgi(output) \/ IconCommand(output)
         \/ \E length \in PromptLens : Prompt(length)
         \/ Backspace \/ Redraw \/ Close \/ Reopen \/ Enter \/ ClearScreen
         \/ IconClears \/ IconDone \/ (\E message \in Messages : EnterMgi(message))
         \/ LeaveMgi \/ Output \/ PromptChar \/ Ready \/ UNCHANGED vars
    BY DEF Next
  <1> QED BY <1>1, <1>2, <1>3, <1>4, <1>5, <1>6, <1>7, <1>8, <1>9, <1>10, <1>11, <1>12

(* The invariant holds in every state the shell's prompt comes to.         *)
THEOREM Invariant == Spec => []Inv
  BY InitInv, NextInv, PTL DEF Spec

-----------------------------------------------------------------------------
(* Every variable has its type: the cursor and the text cursor stay where  *)
(* the panel or the place behind its last column is, vbuf never holds more *)
(* than BufLen characters, and the history follows the line.               *)
THEOREM TypeCorrect == Spec => []TypeOK
  <1>1. Inv => TypeOK
    <2> SUFFICES ASSUME Inv PROVE TypeOK
      OBVIOUS
    <2>1. con \in Consoles /\ StateInv /\ Len(typed) = Len(places)
      BY DEF Inv, TypeInv, ConsoleInv, LineTypes
    <2>2. /\ con.row \in 0 .. Rows /\ con.col \in -1 .. Cols
          /\ con.cur \in (0 .. Rows) \X (0 .. Cols + 1)
          /\ con.cell \in [Panel -> Chars]
      BY <2>1 DEF Consoles, Cursors, Cells
    <2> QED BY <2>1, <2>2 DEF StateInv, TypeOK
  <1> QED BY <1>1, Invariant, PTL

(* LineIsShown, whatever is typed, erased, wrapped and scrolled: of a line *)
(* that fits into vbuf and that the keyboard has not come to stand over,   *)
(* vbuf has the letters that stand on the panel where they were typed.     *)
THEOREM LineShown == Spec => []LineIsShown
  <1>1. Inv => LineIsShown
    <2> SUFFICES ASSUME Inv, pc = "edit", ~long, ~covered
                 PROVE  /\ vbuf = typed
                        /\ \A i \in DOMAIN places :
                               places[i] \in Panel => con.cell[places[i]] = vbuf[i]
      BY DEF LineIsShown
    <2>1. vbuf = typed /\ Shown
      BY DEF Inv, LineInv
    <2>2. DOMAIN places = 1 .. Len(places)
      BY DEF Inv, TypeInv, LineTypes
    <2> QED BY <2>1, <2>2 DEF Shown
  <1> QED BY <1>1, Invariant, PTL

(* PromptStays, for every prompt too short to reach from the row of the    *)
(* cursor up to where the keyboard is drawn when there is no room below.   *)
(* The longest the code prints, of 130 characters, is.                     *)
THEOREM PromptUntouched == PromptsFit => (Spec => []PromptStays)
  <1> SUFFICES ASSUME PromptsFit PROVE Spec => []PromptStays
    OBVIOUS
  <1>1. Inv => PromptStays
    <2> SUFFICES ASSUME Inv, ~covered, NEW i \in DOMAIN prompt, prompt[i] \in Panel
                 PROVE  con.cell[prompt[i]] = Hash
      BY DEF PromptStays
    <2>1. i \in 1 .. Len(prompt)
      BY DEF Inv, TypeInv, LineTypes
    <2> QED BY <2>1 DEF Inv, PromptInv, PromptShown
  <1> QED BY <1>1, Invariant, PTL

(* KeyboardPutAway: when a command starts no character of the keyboard is  *)
(* left on the panel, unless the panel scrolled under it; a line of its    *)
(* last row and column may be, for every size and place of the keyboard.   *)
THEOREM KeyboardLeavesNothing == Spec => []KeyboardPutAway
  <1>1. Inv => KeyboardPutAway
    BY DEF Inv, KeyboardInv, KeyboardPutAway
  <1> QED BY <1>1, Invariant, PTL

(* TextIsSeen: no character of a command or of the prompt is drawn off the *)
(* panel.                                                                  *)
THEOREM TextSeen == Spec => []TextIsSeen
  <1>1. Inv => TextIsSeen
    BY DEF Inv
  <1> QED BY <1>1, Invariant, PTL

-----------------------------------------------------------------------------
(* Two consoles are the same when their parts are.                         *)
LEMMA SameConsole ==
    ASSUME NEW c \in Consoles, NEW d \in Consoles, Same(d, c),
           \A p \in Panel : d.cell[p] = c.cell[p]
    PROVE  d = c
  <1>1. d.cell = c.cell
    <2>1. c.cell \in [Panel -> Chars] /\ d.cell \in [Panel -> Chars]
      BY ConsoleFields DEF Cells
    <2> QED BY <2>1
  <1>2. /\ c = [col |-> c.col, row |-> c.row, cur |-> c.cur, out |-> c.out,
                off |-> c.off, cell |-> c.cell]
        /\ d = [col |-> d.col, row |-> d.row, cur |-> d.cur, out |-> d.out,
                off |-> d.off, cell |-> d.cell]
    BY DEF Consoles
  <1> QED BY <1>1, <1>2 DEF Same

(* Sent again before the panel has scrolled, a request draws what is there.*)
LEMMA ResentChangesNothing ==
    ASSUME Inv, TextFirst, ~scrolled, req # "touch", Printing, Head(rest) = NL,
           NEW d \in Resent(con)
    PROVE  d = con
  <1>0. /\ con \in Consoles /\ KeyboardTypes /\ RequestInv /\ rest # <<>>
        /\ req \in {"cursor", "off", "hide", "text"}
        /\ pc \in {"print", "loading", "gui", "icon"}
    BY DEF Inv, TypeInv, ConsoleInv, StateInv, Printing
  <1>1. PICK c \in Consoles : c = con
    BY <1>0
  <1>2. pc \in {"gui", "icon"} => req = "text"
    BY <1>0 DEF RequestInv
  <1>3. CASE req = "text"
    BY <1>3 DEF Resent
  <1>4. CASE req = "cursor"
    <2>1. c.cur \in Panel => c.cell[c.cur] = Mark
      BY <1>0, <1>1, <1>2, <1>4 DEF RequestInv, CursorIs
    <2>2. d = ShowCursor(c)
      BY <1>1, <1>4 DEF Resent
    <2>3. \A p \in Panel : ShowCursor(c).cell[p] = c.cell[p]
      BY <2>1, CursorFields
    <2>4. ShowCursor(c) = c
      BY <2>3, CursorFields, SameConsole
    <2> QED BY <1>1, <2>2, <2>4
  <1>5. CASE req = "off"
    <2>1. c.cur \in Panel => c.cell[c.cur] = Blank
      BY <1>0, <1>1, <1>2, <1>5 DEF RequestInv, CursorIs
    <2>2. d = HideCursor(c)
      BY <1>1, <1>5 DEF Resent
    <2>3. \A p \in Panel : HideCursor(c).cell[p] = c.cell[p]
      BY <2>1, CursorFields
    <2>4. HideCursor(c) = c
      BY <2>3, CursorFields, SameConsole
    <2> QED BY <1>1, <2>2, <2>4
  <1>6. CASE req = "hide"
    <2>1. \A p \in DOMAIN under : Left(p, c.cell[p])
      BY <1>0, <1>1, <1>2, <1>6 DEF RequestInv, LineLeft
    <2>2. d = Hidden(c)
      BY <1>1, <1>6 DEF Resent
    <2>3. \A p \in DOMAIN under : Restored(p, c.cell[p]) = c.cell[p]
      BY <2>1, RestoredIs
    <2>4. \A p \in Panel : Hidden(c).cell[p] = c.cell[p]
      BY <1>0, <2>3, HiddenFields
    <2>5. Hidden(c) = c
      BY <1>0, <2>4, HiddenFields, SameConsole
    <2> QED BY <1>1, <2>2, <2>5
  <1> QED BY <1>0, <1>3, <1>4, <1>5, <1>6

(* While there is something to print nothing else happens.                 *)
LEMMA OnlyOutput ==
    ASSUME Next, Printing
    PROVE  Output
  <1>1. rest # <<>> /\ pc \in {"print", "loading", "gui", "icon"}
    BY DEF Printing
  <1>2. ASSUME NEW ch \in Letters PROVE ~Type(ch)
    BY <1>1 DEF Type
  <1>3. ~Backspace /\ ~Redraw /\ ~Close /\ ~Reopen /\ ~Enter
    BY <1>1 DEF Backspace, Redraw, Close, Reopen, TouchKeyboard, Enter
  <1>4. ASSUME NEW output \in Outputs
        PROVE  ~Command(output) /\ ~Mgi(output) /\ ~IconCommand(output)
    BY <1>1 DEF Command, Mgi, InCommand, IconCommand, RunIcon
  <1>5. ASSUME NEW message \in Messages PROVE ~EnterMgi(message)
    BY <1>1 DEF EnterMgi
  <1>6. ~ClearScreen /\ ~IconClears /\ ~IconDone /\ ~LeaveMgi /\ ~PromptChar /\ ~Ready
    BY <1>1 DEF ClearScreen, InCommand, IconClears, RunIcon, IconDone, LeaveMgi, PromptChar,
                Ready
  <1>7. ASSUME NEW length \in PromptLens PROVE ~Prompt(length)
    BY <1>1 DEF Prompt
  <1> QED BY <1>2, <1>3, <1>4, <1>5, <1>6, <1>7 DEF Next

(* RepeatHarmless, when what the interface prints as it starts begins with *)
(* text, as it does in the code: until the panel has scrolled the request  *)
(* that a line without text sends again changes nothing, but for the place *)
(* of a touch that a command run from an icon sends.                       *)
THEOREM RepeatDoesNoHarm == TextFirst => (Spec => RepeatHarmless)
  <1> SUFFICES ASSUME TextFirst PROVE Spec => RepeatHarmless
    OBVIOUS
  <1>1. Inv /\ [Next]_vars =>
            [Printing /\ Head(rest) = NL /\ con' # PrintChar(con, NL)
             => scrolled \/ req = "touch"]_vars
    <2> SUFFICES ASSUME Inv, Next, Printing, Head(rest) = NL, con' # PrintChar(con, NL),
                        ~scrolled, req # "touch"
                 PROVE  FALSE
      OBVIOUS
    <2>1. Output
      BY OnlyOutput
    <2>2. PICK c \in Resent(con) : con' = PrintChar(c, NL)
      BY <2>1 DEF Output
    <2>3. c = con
      BY ResentChangesNothing
    <2> QED BY <2>2, <2>3
  <1> QED BY <1>1, Invariant, PTL DEF Spec, RepeatHarmless

=============================================================================
