----------------------------- MODULE LineEditor -----------------------------
(***************************************************************************)
(* The prompt of the shell: the loop of CMMSJOS::Start with the characters *)
(* it puts in vbuf and on the console, what a command prints, the keyboard *)
(* that covers a part of the panel, and the request that CScrTft keeps in  *)
(* paramVDG and sends again.                                               *)
(***************************************************************************)
EXTENDS Console

CONSTANTS
    Letters,    \* what is typed
    Outputs,    \* what a command may print: sequences of characters and NL
    Messages,   \* what the interface may print
    PromptLens, \* lengths of the prompt: "#/>", "#/folder>" and so on
    BufLen,     \* characters that vbuf holds, 31 in the code
    MaxLine,    \* bound: characters typed in a line and not erased
    KeyRows,    \* rows and columns of the panel that the keyboard covers
    KeyCols,
    KeyRoom,    \* rows below the cursor that it needs, 10 in the code
    KeyAbove    \* how far above the cursor it is else, 11

Hash == "#"     \* stands for every character of the prompt
Key  == "key"   \* this for every character of the keyboard
Cut  == "cut"   \* and this for one with something else drawn through it

ASSUME LineEditorAssumption ==
    /\ (Outputs \cup Messages) \subseteq Seq(Letters \cup {NL})
    /\ {Blank, Mark, NL, Hash, Key, Cut} \cap Letters = {}
    /\ PromptLens \subseteq Nat \ {0} /\ BufLen \in Nat \ {0} /\ MaxLine \in Nat
    /\ KeyRows \in Nat /\ KeyCols \subseteq 0 .. Cols
    /\ KeyRoom \in Nat /\ KeyAbove \in Nat

VARIABLES
    con,      \* the console
    pc,       \* "edit", "command", "print", "loading", "gui", "icon", "prompt"
    rest,     \* what is still to be printed
    vbuf,     \* the line, up to vbufptr
    vinip,    \* the column behind the prompt
    req,      \* the request in paramVDG: "cursor", "off", "hide", "text", "touch"
    kbd,      \* pkeyativo, which TouchInput shows to be the keyboard drawn
    under     \* page 9: what the keyboard covers

(* History variables.                                                      *)
VARIABLES
    typed,     \* the letters of the line as the user typed and erased them
    places,    \* where on the panel they were written
    prompt,    \* and where the prompt was
    long,      \* this line was longer than vbuf
    covered,   \* the keyboard was drawn or put away over it or its prompt
    scrolled,  \* the panel scrolled at Enter or has scrolled since
    smeared,   \* the panel scrolled under the keyboard
    unseen     \* the outputs in which a character was drawn off the panel

line     == <<vbuf, vinip>>
keyboard == <<kbd, under>>
shown    == <<typed, places, prompt, long, covered>>
history  == <<scrolled, smeared, unseen>>
vars     == <<con, pc, rest, line, req, keyboard, shown, history>>

-----------------------------------------------------------------------------
(* The keyboard.                                                           *)

Area(row) == {at \in Panel : at[1] \in row .. row + KeyRows - 1 /\ at[2] \in KeyCols}

(* funcKey: below the line if there is room, else above.                   *)
KeyPlace(c) == IF c.row + KeyRoom < Rows THEN c.row + 1 ELSE c.row - KeyAbove

(* HideKeyboard and ShowKeyboard, of which TouchInput has the steps. The   *)
(* keyboard is drawn a line lower and a line further right than the area   *)
(* that is saved and put back: in its last row and last column a line of   *)
(* what was drawn there last stays, and cuts what is put back, unless the  *)
(* line is black on black.                                                 *)
Picture(c, area) == [at \in area |-> c.cell[at]]
Edge ==
    {at \in DOMAIN under : \/ <<at[1] + 1, at[2]>> \notin DOMAIN under
                           \/ <<at[1], at[2] + 1>> \notin DOMAIN under}
PutBack(old, drawn) ==
    IF old = drawn \/ (old = Blank /\ drawn = Key) THEN old ELSE Cut
Hidden(c) ==
    [c EXCEPT !.cell = [at \in Panel |->
        IF at \in Edge THEN PutBack(under[at], @[at])
        ELSE IF at \in DOMAIN under THEN under[at] ELSE @[at]]]
Covered(c, area) ==
    [c EXCEPT !.cell = [at \in Panel |-> IF at \in area THEN Key ELSE @[at]]]

(* Places move up when the panel scrolls, as it does when locate is sent   *)
(* to a row below the last.                                                *)
Kept(to, seq) ==
    IF Scrolls(to[2], to[1])
    THEN [i \in DOMAIN seq |-> <<seq[i][1] - 1, seq[i][2]>>]
    ELSE seq

(* Initialize has shown the cursor; Start prints a new line and a prompt.  *)
Init ==
    /\ con = [col |-> 0, row |-> 0, cur |-> <<0, 0>>, out |-> "text", off |-> FALSE,
              cell |-> [at \in Panel |-> IF at = <<0, 0>> THEN Mark ELSE Blank]]
    /\ pc = "print" /\ rest = <<NL>> /\ req = "cursor"
    /\ vbuf = <<>> /\ vinip = 0 /\ kbd = FALSE /\ under = [at \in {} |-> Blank]
    /\ typed = <<>> /\ places = <<>> /\ prompt = <<>>
    /\ long = FALSE /\ covered = FALSE /\ scrolled = FALSE
    /\ smeared = FALSE /\ unseen = {}

-----------------------------------------------------------------------------
(* The line. The mutant has one character less of room.                    *)

StoredInLess(ch) == IF Len(vbuf) < BufLen - 1 THEN Append(vbuf, ch) ELSE vbuf
Stored(ch) == IF Len(vbuf) < BufLen THEN Append(vbuf, ch) ELSE vbuf

Type(ch) ==
    /\ pc = "edit" /\ Len(typed) < MaxLine
    /\ con' = WriteChar(con, ch)
    /\ vbuf' = Stored(ch)
    /\ typed' = Append(typed, ch)
    /\ places' = Kept(After(con), Append(places, Here(con)))
    /\ prompt' = Kept(After(con), prompt)
    /\ long' = (long \/ Len(vbuf) = BufLen)
    /\ smeared' = (smeared \/ (kbd /\ Scrolls(After(con)[2], After(con)[1])))
    /\ req' = "cursor"
    /\ UNCHANGED <<pc, rest, vinip, keyboard, covered, scrolled, unseen>>

(* Backspace does nothing left of the prompt's end, also on the rows that  *)
(* the line has wrapped to. The mutant only looks for column 0.            *)
MayEraseAnything == con.col > 0
MayErase == con.col > vinip

Shorter(s) == IF s = <<>> THEN s ELSE SubSeq(s, 1, Len(s) - 1)

Backspace ==
    /\ pc = "edit" /\ MayErase
    /\ con' = LET c == WriteBackspace([con EXCEPT !.col = @ - 1])
              IN  Locate(c, c.col - 1, c.row)
    /\ vbuf' = Shorter(vbuf)
    /\ typed' = Shorter(typed) /\ places' = Shorter(places)
    /\ req' = "cursor"
    /\ UNCHANGED <<pc, rest, vinip, keyboard, prompt, long, covered, history>>

(* TCHVerif draws the keyboard again for caps and the layout key, puts it  *)
(* away for X, and shows it again when the panel is touched: always where  *)
(* funcKey put it, also when the line has come to stand there.             *)
OnPanel(seq) == {seq[i] : i \in DOMAIN seq}

TouchKeyboard ==
    /\ pc = "edit"
    /\ covered' = (covered \/ \E at \in OnPanel(places \o prompt) : at \in DOMAIN under)
    /\ UNCHANGED <<pc, rest, line, req, typed, places, prompt, long, history>>

(* Mutant: it saves what it covers then, too.                              *)
RedrawSaves ==
    /\ TouchKeyboard /\ kbd
    /\ under' = Picture(con, DOMAIN under)
    /\ con' = Covered(con, DOMAIN under)
    /\ UNCHANGED kbd

Redraw ==
    /\ TouchKeyboard /\ kbd
    /\ con' = Covered(con, DOMAIN under)
    /\ UNCHANGED keyboard

Close ==
    /\ TouchKeyboard /\ kbd /\ kbd' = FALSE
    /\ con' = Hidden(con)
    /\ UNCHANGED under

Reopen ==
    /\ TouchKeyboard /\ ~kbd /\ kbd' = TRUE
    /\ under' = Picture(con, DOMAIN under)
    /\ con' = Covered(con, DOMAIN under)

-----------------------------------------------------------------------------
(* The command.                                                            *)

(* Mutant: the cursor is blanked last.                                     *)
PutAwayFirst(c) == HideCursor(Hidden(c))
PutAway(c) == Hidden(HideCursor(c))

Enter ==
    /\ pc = "edit" /\ pc' = "command"
    /\ con' = Locate(PutAway(con), 0, con.row + 1)
    /\ kbd' = FALSE
    /\ scrolled' = Scrolls(0, con.row + 1)
    /\ req' = "hide"
    /\ typed' = <<>> /\ places' = <<>> /\ prompt' = <<>>
    /\ long' = FALSE /\ covered' = FALSE
    /\ UNCHANGED <<rest, line, under, smeared, unseen>>

InCommand ==
    pc = "command" /\ UNCHANGED <<line, keyboard, shown, scrolled, smeared, unseen>>

Command(output) ==
    /\ InCommand /\ pc' = "print" /\ rest' = output
    /\ UNCHANGED <<con, req>>

(* CLS, and the end of VIMG.                                               *)
ClearScreen ==
    /\ InCommand /\ pc' = "print" /\ rest' = <<>>
    /\ con' = Clear(con) /\ req' = "cursor"

(* MGI blanks the cursor, tells what it loads, and clears the panel for    *)
(* the interface, which prints a message there when a file is missing.     *)
Mgi(output) ==
    /\ InCommand /\ pc' = "loading" /\ rest' = output
    /\ con' = HideCursor(con) /\ req' = "off"

EnterMgi(message) ==
    /\ pc = "loading" /\ rest = <<>> /\ pc' = "gui" /\ rest' = message
    /\ con' = Clear([con EXCEPT !.out = "window"]) /\ req' = "cursor"
    /\ UNCHANGED <<line, keyboard, shown, history>>

(* A command run from an icon. Its name takes the place of the line, and   *)
(* is gone after it. VerifyTouchLcd has left the place of the touch in     *)
(* paramVDG; what the command prints goes over the interface, whose        *)
(* picture, blank here, is then put back.                                  *)
RunIcon ==
    /\ pc = "gui" /\ rest = <<>> /\ pc' = "icon" /\ vbuf' = <<>>
    /\ UNCHANGED <<vinip, keyboard, shown, history>>

IconCommand(output) ==
    RunIcon /\ rest' = output /\ req' = "touch" /\ UNCHANGED con

IconClears ==
    RunIcon /\ con' = Clear(con) /\ req' = "cursor" /\ UNCHANGED rest

IconDone ==
    /\ pc = "icon" /\ rest = <<>> /\ pc' = "gui"
    /\ con' = Cleared(con)
    /\ UNCHANGED <<rest, line, req, keyboard, shown, history>>

(* It ends with a cleared text screen, where texts begin anew.             *)
LeaveMgi ==
    /\ pc = "gui" /\ rest = <<>> /\ pc' = "print"
    /\ con' = ShowCursor(Clear([con EXCEPT !.out = "text", !.off = FALSE,
                                             !.col = 0, !.row = 0]))
    /\ req' = "cursor"
    /\ UNCHANGED <<rest, line, keyboard, shown, scrolled, smeared, unseen>>

(* The place of a touch as a request: its second byte, the low one of the  *)
(* row, may be any command of the LCD side: most of them none; one that    *)
(* clears the panel; and several that draw, of which some take the cursor  *)
(* along. What they draw is one character here, as the interface is put    *)
(* back over it. Byte 6 is of a text, so the command of the keyboard does  *)
(* nothing.                                                                *)
AsRequest(c) ==
    {c, Cleared(c)} \cup {[Draw(c, at, Cut) EXCEPT !.cur = at] : at \in Panel}

(* writes: a line with no text before its end sends the old request again. *)
(* A text sent again does nothing, as its first bytes have taken the place *)
(* of the command.                                                         *)
Resent(c) == CASE req = "hide"   -> {Hidden(c)}
               [] req = "cursor" -> {ShowCursor(c)}
               [] req = "off"    -> {HideCursor(c)}
               [] req = "text"   -> {c}
               [] req = "touch"  -> AsRequest(c)

Printing == pc \in {"print", "loading", "gui", "icon"} /\ rest # <<>>

Output ==
    /\ Printing /\ rest' = Tail(rest)
    /\ \E c \in IF Head(rest) = NL THEN Resent(con) ELSE {con} :
           LET ch == Head(rest)
           IN  /\ con' = PrintChar(c, ch)
               /\ scrolled' = (scrolled \/ PrintScrolls(c, ch))
               /\ unseen' = unseen \cup (IF ch # NL /\ (OffPanel(c) \/ Here(c) \notin Panel)
                                         THEN {c.out} ELSE {})
               /\ req' = IF ch = NL THEN req ELSE "text"
    /\ UNCHANGED <<pc, line, keyboard, shown, smeared>>

(* putPrompt, one character after the other.                               *)
Prompt(length) ==
    /\ pc = "print" /\ rest = <<>> /\ pc' = "prompt"
    /\ rest' = [i \in 1 .. length |-> Hash]
    /\ con' = Locate(con, 0, con.row)
    /\ UNCHANGED <<line, req, keyboard, shown, history>>

PromptChar ==
    /\ pc = "prompt" /\ rest # <<>> /\ rest' = Tail(rest)
    /\ con' = PrintChar(con, Hash)
    /\ prompt' = Kept(<<con.row, con.col + 1>>, Append(prompt, Here(con)))
    /\ req' = "text"
    /\ UNCHANGED <<pc, line, keyboard, typed, places, long, covered, history>>

Ready ==
    /\ pc = "prompt" /\ rest = <<>> /\ pc' = "edit"
    /\ vinip' = con.col /\ vbuf' = <<>>
    /\ LET c    == ShowCursor(con)
           area == Area(KeyPlace(c))
       IN  con' = Covered(c, area) /\ under' = Picture(c, area)
    /\ kbd' = TRUE /\ req' = "cursor"
    /\ UNCHANGED <<rest, shown, history>>

Next ==
    \/ \E ch \in Letters : Type(ch)
    \/ Backspace \/ Redraw \/ Close \/ Reopen \/ Enter
    \/ \E output \in Outputs : Command(output) \/ Mgi(output) \/ IconCommand(output)
    \/ \E message \in Messages : EnterMgi(message)
    \/ ClearScreen \/ IconClears \/ IconDone \/ LeaveMgi
    \/ Output \/ PromptChar \/ Ready
    \/ \E length \in PromptLens : Prompt(length)

Spec == Init /\ [][Next]_vars

-----------------------------------------------------------------------------
Chars == Letters \cup {Blank, Mark, Hash, Key, Cut}

TypeOK ==
    /\ con.row \in 0 .. Rows /\ con.col \in -1 .. Cols
    /\ con.cur \in (0 .. Rows) \X (0 .. Cols + 1)
    /\ con.cell \in [Panel -> Chars]
    /\ pc \in {"edit", "command", "print", "loading", "gui", "icon", "prompt"}
    /\ Len(vbuf) <= BufLen /\ vinip \in 0 .. Cols
    /\ Len(typed) = Len(places)

(* Of a line that fits into vbuf, the command gets what is on the panel:   *)
(* every letter of vbuf, and no other, stands where the user typed it,     *)
(* through wrapping, scrolling and backspace, unless the keyboard was      *)
(* drawn again, or put away, where the line had wrapped to.                *)
LineIsShown ==
    pc = "edit" /\ ~long /\ ~covered =>
        /\ vbuf = typed
        /\ \A i \in DOMAIN places :
               places[i] \in Panel => con.cell[places[i]] = vbuf[i]

(* The cursor, which blanks what it stands on, and backspace leave the     *)
(* prompt alone, and the keyboard too unless the line has pushed the       *)
(* prompt up to where it is drawn again.                                   *)
PromptStays ==
    pc = "edit" /\ ~covered =>
        \A i \in DOMAIN prompt : prompt[i] \in Panel => con.cell[prompt[i]] = Hash

(* When a command starts, no character is left of the keyboard on the      *)
(* panel, unless a line scrolled it away from where it is put back: of its *)
(* last row and column, which are drawn and not put back, no more than a   *)
(* line stays.                                                             *)
KeyboardPutAway ==
    pc = "command" /\ ~smeared => \A at \in Panel : con.cell[at] # Key

(* Every character printed on the text screen is drawn; only the interface *)
(* loses some.                                                             *)
TextIsSeen == "text" \notin unseen

(* A line without text does what its end does and no more: the request     *)
(* that it sends again changes nothing, unless the panel has scrolled      *)
(* since it was sent, or it is the place of a touch, which a command run   *)
(* from an icon sends.                                                     *)
RepeatHarmless ==
    [][Printing /\ Head(rest) = NL /\ con' # PrintChar(con, NL)
       => scrolled \/ req = "touch"]_vars
=============================================================================
