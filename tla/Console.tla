------------------------------ MODULE Console -------------------------------
(***************************************************************************)
(* CScrTft as a console: a text cursor (vcol, vlin), the characters on the *)
(* panel, and the place where the LCD side draws its cursor (vxcur,        *)
(* vycur). The two are not the same: text moves the one behind its last    *)
(* character and locate the other. A console is a record; operators take   *)
(* one and return the next. A place is <<row, column>>; what is drawn off  *)
(* the panel is seen by nobody.                                            *)
(***************************************************************************)
EXTENDS Integers, Sequences

CONSTANTS
    Rows,      \* vymax, the last row: 23
    Cols       \* vxmax, the last column: 39

ASSUME ConsoleAssumption == Rows \in Nat \ {0} /\ Cols \in Nat \ {0, 1}

Blank == " "
Mark  == "_"    \* the cursor
NL    == "nl"

Panel == (0 .. Rows) \X (0 .. Cols)

Here(c) == <<c.row, c.col>>

Draw(c, at, ch) == IF at \in Panel THEN [c EXCEPT !.cell[at] = ch] ELSE c

(* desativaCursor and ativaCursor, at vxcur, vycur.                        *)
HideCursor(c) == Draw(c, c.cur, Blank)
ShowCursor(c) == Draw(c, c.cur, Mark)

(* TFT_Scroll by the height of a row.                                      *)
Scroll(c) ==
    [c EXCEPT !.cell = [at \in Panel |->
        IF at[1] < Rows THEN @[<<at[1] + 1, at[2]>>] ELSE Blank]]

Cleared(c) == [c EXCEPT !.cell = [at \in Panel |-> Blank]]

-----------------------------------------------------------------------------
(* locate. The mutant takes the column past the last one for the last.     *)

WrapsLate(col) == col > Cols + 1
Wraps(col) == col > Cols
NewRow(col, row) == IF Wraps(col) THEN row + 1 ELSE row

Scrolls(col, row) == NewRow(col, row) > Rows
Changes(col, row) == Wraps(col) \/ Scrolls(col, row)

(* NOREPOS_CURSOR. Text scrolls; the interface starts again at the top.    *)
Locate(c, col, row) ==
    IF ~Scrolls(col, row)
    THEN [c EXCEPT !.col = IF Wraps(col) THEN 0 ELSE col, !.row = NewRow(col, row)]
    ELSE IF c.out = "text"
    THEN [Scroll(c) EXCEPT !.col = 0, !.row = Rows]
    ELSE [c EXCEPT !.col = 0, !.row = 0]

(* writec(0x08): a blank, and the cursor on it.                            *)
WriteBlank(c) ==
    ShowCursor([Draw(HideCursor(c), Here(c), Blank) EXCEPT !.cur = Here(c)])

(* The cursor goes where locate went. The column is stepped back behind    *)
(* the blank; where no blank is written it is stepped back all the same,   *)
(* and from column 0 to 2^32 - 1, which stands here as -1.                 *)
Reposition(c) ==
    IF c.out = "text" THEN WriteBlank(c) ELSE [c EXCEPT !.col = @ - 1]

(* Where a character leaves the text cursor before locate: the last column *)
(* of the row before the last one is never used.                           *)
After(c) ==
    IF c.row = Rows - 1 /\ c.col + 1 = Cols
    THEN <<c.row + 1, 0>> ELSE <<c.row, c.col + 1>>

(* REPOS_CURSOR_ON_CHANGE *)
Advance(c) ==
    LET to    == After(c)
        moved == Locate(c, to[2], to[1])
    IN  IF Changes(to[2], to[1]) THEN Reposition(moved) ELSE moved

(* writec of a character, or of 0x08 with ADD_POS_SCR.                     *)
WriteChar(c, ch) ==
    ShowCursor(Advance([Draw(HideCursor(c), Here(c), ch)
                        EXCEPT !.cur = <<c.row, c.col + 1>>]))

WriteBackspace(c) ==
    ShowCursor(Advance([Draw(HideCursor(c), Here(c), Blank) EXCEPT !.cur = Here(c)]))

(* clearScr: REPOS_CURSOR.                                                 *)
Clear(c) == Reposition(Locate(Cleared(c), 0, 0))

(* One character of writes. A text goes to the LCD side with its place in  *)
(* 16 bits, once for each line, and leaves the cursor behind it: one that  *)
(* begins at column -1 is off the panel to its end, and so is the cursor.  *)
OffPanel(c) == c.off \/ c.col < 0

EndLine(c) == Locate([c EXCEPT !.off = FALSE], 0, c.row + 1)

PrintChar(c, ch) ==
    LET off   == OffPanel(c)
        drawn == [IF off THEN c ELSE Draw(c, Here(c), ch)
                  EXCEPT !.off = off, !.cur = <<c.row, IF off THEN Cols + 1 ELSE c.col + 1>>]
    IN  IF ch = NL THEN EndLine(c)
        ELSE IF Wraps(c.col + 1) THEN EndLine(drawn)
        ELSE Locate(drawn, c.col + 1, c.row)

PrintScrolls(c, ch) ==
    c.out = "text" /\ c.row = Rows /\ (ch = NL \/ Wraps(c.col + 1))

=============================================================================
