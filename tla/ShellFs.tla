------------------------------- MODULE ShellFs ------------------------------
(***************************************************************************)
(* The current folder of the shell. processCmd keeps it twice: as the text *)
(* vdiratu, and as the pointer vdiratup to the end of that text. CD        *)
(* changes the text, and then, behind the last command of its long chain   *)
(* of ELSE IF, changes it once more by way of the pointer. MD, RM and REN  *)
(* change the folders of the card; f_mkdir, f_unlink, f_rename and         *)
(* f_findfirst are FatFs. A path is a sequence of names.                   *)
(*                                                                         *)
(* The second change stands behind a test of vretfat, which nothing sets;  *)
(* in build/mmsjos.elf the compiler has dropped the test.                  *)
(*                                                                         *)
(* An argument of CD has one part or two; one that ends in a slash, or is  *)
(* of two words, is not modelled.                                          *)
(***************************************************************************)
EXTENDS Integers, Sequences, FiniteSets, SequencesExt

CONSTANTS
    Names,            \* names of folders, "." among those that are never there
    Dotted, TwoDots,  \* those that begin with one dot, and with two
    MaxDepth          \* bound on the length of a path (128 characters)

Up == ".."

ASSUME ShellFsAssumption ==
    /\ MaxDepth \in Nat
    /\ Dotted \cup TwoDots \subseteq Names /\ Dotted \cap TwoDots = {}
    /\ Up \notin Names

(* What the pointer may be instead of a place between two names of the     *)
(* text: not set, or somewhere in the text or behind it.                   *)
Unset  == -1
Astray == -2

Parts == Names \cup {Up}
Paths == {p \in Seq(Parts) : Len(p) <= MaxDepth}

VARIABLES
    folders,   \* the folders of the card, without the root
    vdiratu,   \* the current folder
    vdiratup   \* how many of its names stand before the pointer

(* History variables: since CD / or the start, ...                         *)
VARIABLES
    wild,      \* the pointer was used before CD / has set it
    missing,   \* CD was given a folder that is not there
    moved,     \* a folder on the way to the current one was removed
    odd        \* CD was given nothing, a folder whose name begins with one
               \* dot, or .. before or behind a folder that is there

history == <<wild, missing, moved, odd>>
fsVars  == <<folders, vdiratu, vdiratup, history>>

-----------------------------------------------------------------------------
Exists(p) == p = << >> \/ p \in folders

(* retPathAndFile: an argument that begins with / counts from the root.    *)
PathAndFile(absolute, p) == IF absolute THEN p ELSE vdiratu \o p

Parent(p) == SubSeq(p, 1, Len(p) - 1)

(* f_findfirst, and the comparison of what it has found.                   *)
Find(folder, name) == Exists(folder) /\ Append(folder, name) \in folders

-----------------------------------------------------------------------------
(* Start.                                                                  *)
FsInit ==
    /\ folders = {} /\ vdiratu = << >> /\ vdiratup = Unset
    /\ wild = FALSE /\ missing = FALSE /\ moved = FALSE /\ odd = FALSE

Forgotten == wild' = FALSE /\ missing' = FALSE /\ moved' = FALSE /\ odd' = FALSE

FsBoot ==
    /\ vdiratu' = << >> /\ vdiratup' = Unset /\ Forgotten
    /\ UNCHANGED folders

(* The part of CD before the tail goes through the parts of its argument:  *)
(* for ".." it cuts the last name, for a name that it finds it appends the *)
(* whole argument, parts found before and parts to come included. It stops *)
(* at the first part not found.                                            *)
Cut(folder) == IF folder = << >> THEN folder ELSE Parent(folder)

Entered(folder, part, arg) ==
    IF part = Up THEN Cut(folder)
    ELSE IF Find(folder, part) THEN folder \o arg ELSE folder

Walked(arg) ==
    LET once == Entered(vdiratu, arg[1], arg)
    IN  IF Len(arg) = 2 /\ (arg[1] = Up \/ Find(vdiratu, arg[1]))
        THEN Entered(once, arg[2], arg) ELSE once

(* The tail: for ".." the pointer goes back to the / it is at or behind,   *)
(* for a name it writes the argument where the pointer is, and ends the    *)
(* text there. The mutants write at the end of the text, and do not end    *)
(* the text.                                                               *)
Behind(folder) ==
    IF vdiratup < Len(folder) THEN vdiratup ELSE Len(Cut(folder))

RewrittenAtEnd(folder, arg) == folder \o arg
RewrittenOpen(folder, arg) ==
    LET end == vdiratup + Len(arg)
    IN  SubSeq(folder, 1, vdiratup) \o arg \o SubSeq(folder, end + 1, Len(folder))
Rewritten(folder, arg) == SubSeq(folder, 1, vdiratup) \o arg

(* An argument that begins with / leads to the root, whatever follows.     *)
CdRoot ==
    /\ vdiratu' = << >> /\ vdiratup' = 0 /\ Forgotten
    /\ UNCHANGED folders

(* ../name with the name found: the length of the last name, which the     *)
(* pointer stood behind, says whether it now is in ".." or behind it.      *)
Back(walked, arg) ==
    {Behind(walked)} \cup
        IF arg[1] = Up /\ Len(walked) > Len(vdiratu) /\ vdiratup = Len(vdiratu)
        THEN {Len(Cut(vdiratu))} ELSE {}

(* CD with an argument that begins with two dots.                          *)
CdUp(arg) ==
    LET walked == Walked(arg)
    IN  /\ arg[1] \in TwoDots \cup {Up} /\ vdiratup # Astray
        /\ Len(vdiratu) + 2 * Len(arg) <= MaxDepth
        /\ IF vdiratup = Unset
           THEN vdiratu' = walked /\ wild' = TRUE /\ UNCHANGED vdiratup
           ELSE /\ vdiratup' \in Back(walked, arg)
                /\ vdiratu' = SubSeq(walked, 1, vdiratup')
                /\ UNCHANGED wild
        /\ odd' = (odd \/ (arg[1] = Up /\ Len(walked) > Len(Cut(vdiratu))))
        /\ UNCHANGED <<folders, missing, moved>>

(* CD with one that begins with one dot: there is no tail for it.          *)
CdDot(arg) ==
    /\ arg[1] \in Dotted
    /\ Len(vdiratu) + 2 * Len(arg) <= MaxDepth
    /\ vdiratu' = Walked(arg)
    /\ odd' = (odd \/ Find(vdiratu, arg[1]))
    /\ UNCHANGED <<folders, vdiratup, wild, missing, moved>>

(* CD name, or CD name/name. With a pointer that was never set the tail    *)
(* writes elsewhere in memory. For name/.. with the name found, the tail   *)
(* takes as many characters of the argument as the place of the / that ..  *)
(* has cut says: from the root the name and the /, else all, or also what  *)
(* is behind the argument.                                                 *)
CutShort(arg) == Len(arg) = 2 /\ arg[2] = Up /\ Find(vdiratu, arg[1])

Taken(arg) == IF CutShort(arg) /\ vdiratu = << >> THEN <<arg[1]>> ELSE arg

CdDown(arg) ==
    LET walked == Walked(arg)
    IN  /\ arg[1] \in Names \ (Dotted \cup TwoDots) /\ vdiratup # Astray
        /\ Len(vdiratu) + 2 * Len(arg) <= MaxDepth
        /\ IF vdiratup = Unset
           THEN vdiratu' = walked /\ wild' = TRUE /\ UNCHANGED vdiratup
           ELSE /\ vdiratu' = Rewritten(walked, Taken(arg))
                /\ \/ vdiratup' = vdiratup + Len(Taken(arg))
                   \/ CutShort(arg) /\ vdiratu # << >> /\ vdiratup' = Astray
                /\ UNCHANGED wild
        /\ missing' = (missing \/ ~Exists(vdiratu \o Taken(arg)))
        /\ odd' = (odd \/ CutShort(arg))
        /\ UNCHANGED <<folders, moved>>

(* CD alone: the tail takes two characters of an empty argument, the first *)
(* of which ends the text at the pointer.                                  *)
CdBare ==
    /\ odd' = TRUE
    /\ IF vdiratup = Unset
       THEN wild' = TRUE /\ UNCHANGED <<vdiratu, vdiratup>>
       ELSE /\ vdiratup' = Astray
            /\ vdiratu' = IF vdiratup = Astray THEN vdiratu
                          ELSE SubSeq(vdiratu, 1, vdiratup)
            /\ UNCHANGED wild
    /\ UNCHANGED <<folders, missing, moved>>

(* With a pointer somewhere in the text or behind it, the tail may end the *)
(* text anywhere, within a name too, and may add the argument there.       *)
Scattered(walked, arg) ==
    LET begins == {SubSeq(walked, 1, k) : k \in 0 .. Len(walked)}
    IN  begins \cup {p \o arg : p \in begins} \cup
            UNION {{Append(p, name) \o arg : name \in Names} : p \in begins \ {walked}}

CdAstray(arg) ==
    /\ arg[1] \notin Dotted /\ vdiratup = Astray
    /\ Len(vdiratu) + 3 * Len(arg) <= MaxDepth
    /\ vdiratu' \in Scattered(Walked(arg), arg)
    /\ vdiratup' \in {Astray} \cup 0 .. Len(vdiratu')
    /\ UNCHANGED <<folders, history>>

(* MD. A folder is made in one that exists.                                *)
Md(p) ==
    /\ p # << >> /\ Len(p) <= MaxDepth
    /\ p \notin folders /\ Exists(Parent(p))
    /\ folders' = folders \cup {p}
    /\ UNCHANGED <<vdiratu, vdiratup, history>>

(* RM. A folder that is empty, be it the current one.                      *)
Rm(p) ==
    /\ p \in folders
    /\ \A q \in folders : p # Parent(q)
    /\ folders' = folders \ {p}
    /\ moved' = (moved \/ IsPrefix(p, vdiratu))
    /\ UNCHANGED <<vdiratu, vdiratup, wild, missing, odd>>

(* REN. The new name is given to FatFs as it is, and counts from the root: *)
(* the folder moves there with what it holds. It may also fail, vparam not *)
(* being ended behind the old name.                                        *)
Renamed(q, old, new) ==
    IF IsPrefix(old, q) THEN <<new>> \o SubSeq(q, Len(old) + 1, Len(q)) ELSE q

Ren(old, new) ==
    /\ old \in folders /\ <<new>> \notin folders
    /\ folders' = {Renamed(q, old, new) : q \in folders}
    /\ moved' = (moved \/ IsPrefix(old, vdiratu))
    /\ UNCHANGED <<vdiratu, vdiratup, wild, missing, odd>>

Cd(arg) == CdUp(arg) \/ CdDot(arg) \/ CdDown(arg) \/ CdAstray(arg)

FsNext ==
    \/ CdRoot \/ CdBare
    \/ \E a \in Parts : Cd(<<a>>) \/ \E b \in Parts : Cd(<<a, b>>)
    \/ \E absolute \in BOOLEAN, a \in Names :
          LET p == PathAndFile(absolute, <<a>>)
          IN  Md(p) \/ Rm(p) \/ \E new \in Names : Ren(p, new)

-----------------------------------------------------------------------------
FsTypeOK ==
    /\ folders \subseteq Paths \ {<< >>}
    /\ vdiratu \in Paths
    /\ vdiratup \in {Unset, Astray} \cup 0 .. MaxDepth
    /\ {wild, missing, moved, odd} \subseteq BOOLEAN

(* The two records of the current folder agree: once CD / has set it, the  *)
(* pointer is at the end of the text, although both change in every CD,    *)
(* each from what the other has left. Four commands part them until the    *)
(* next CD /: CD alone, CD to a folder whose name begins with one dot, and *)
(* .. before or behind a folder that is there.                             *)
PointerAtEnd == vdiratup # Unset /\ ~odd => vdiratup = Len(vdiratu)

(* The shell stays within the card: only these, CD to a folder that is not *)
(* there - CD says "Path Not Found" and goes there -, removing the current *)
(* folder, and the pointer that boot does not set can lead out of it. CD   *)
(* name/name with both there is in the right place, though it too says     *)
(* "Path Not Found", and so is CD .., which leaves two folders.            *)
CurrentFolderExists ==
    ~wild /\ ~missing /\ ~moved /\ ~odd => Exists(vdiratu)
=============================================================================
