----------------------------- MODULE ShellProofs -----------------------------
(***************************************************************************)
(* The current folder stays on the card, for every set of names, every     *)
(* depth and every sequence of commands and restarts; and the bar shows    *)
(* the date and time of the clock, for all dates and times.                *)
(*                                                                         *)
(* The invariant of the folders: those of the card are closed, that is,    *)
(* every folder is in one that exists; the pointer, where it is known, is  *)
(* in the text; it is at its end, and the current folder exists, but for   *)
(* the reasons named. Closed is needed where CD .. leaves folders, and the *)
(* pointer where the tail of CD writes: were it elsewhere, the text would  *)
(* not be the folder found. The invariant of the clock stands before its   *)
(* proof.                                                                  *)
(***************************************************************************)
EXTENDS Shell, SequenceTheorems, FiniteSetTheorems, TLAPS

(* A card as FatFs keeps it.                                               *)
Closed == \A p \in folders : Exists(Parent(p))

PointerInText == vdiratup \in {Unset, Astray} \cup 0 .. Len(vdiratu)

FsInvariant ==
    /\ FsTypeOK
    /\ Closed
    /\ PointerInText
    /\ PointerAtEnd
    /\ CurrentFolderExists

-----------------------------------------------------------------------------
(* Paths: sequences, their parents and their beginnings.                   *)

LEMMA ParentProperties ==
    ASSUME NEW p \in Seq(Parts), p # << >>
    PROVE  /\ Parent(p) \in Seq(Parts)
           /\ Len(Parent(p)) = Len(p) - 1
           /\ \A i \in 1 .. Len(p) - 1 : Parent(p)[i] = p[i]
<1>1. Len(p) \in Nat /\ Len(p) >= 1 /\ \A i \in 1 .. Len(p) : p[i] \in Parts
  BY EmptySeq, LenProperties, ElementOfSeq
<1>2. \A i \in 1 .. Len(p) - 1 : p[i] \in Parts
  BY <1>1
<1>3. ASSUME NEW n \in Nat, \A i \in 1 .. n : p[i] \in Parts
      PROVE  /\ SubSeq(p, 1, n) \in Seq(Parts)
             /\ Len(SubSeq(p, 1, n)) = n
             /\ \A i \in 1 .. n : SubSeq(p, 1, n)[i] = p[i]
  BY <1>3, SubSeqProperties
<1>4. Len(p) - 1 \in Nat
  BY <1>1
<1> QED BY <1>2, <1>3, <1>4 DEF Parent

(* Cut leaves a shorter beginning, be it of the root.                      *)
LEMMA CutProperties ==
    ASSUME NEW p \in Seq(Parts)
    PROVE  /\ Cut(p) \in Seq(Parts)
           /\ Len(Cut(p)) = IF Len(p) = 0 THEN 0 ELSE Len(p) - 1
           /\ SubSeq(p, 1, Len(Cut(p))) = Cut(p)
<1>1. CASE p = << >>
  BY <1>1, EmptySeq, SubSeqFull DEF Cut
<1>2. CASE p # << >>
  BY <1>2, ParentProperties, EmptySeq, LenProperties DEF Cut, Parent
<1> QED BY <1>1, <1>2

LEMMA CutExists ==
    ASSUME NEW p, Exists(p), Closed
    PROVE  Exists(Cut(p))
BY DEF Exists, Closed, Cut

(* What stands before an appended argument is the old text.                *)
LEMMA TextBefore ==
    ASSUME NEW p \in Seq(Parts), NEW q \in Seq(Parts)
    PROVE  SubSeq(p \o q, 1, Len(p)) = p
<1>1. CASE p = << >>
  BY <1>1, SubSeqEmpty, EmptySeq
<1>2. CASE p # << >>
  <2>1. Len(p) \in 1 .. Len(p) /\ 1 \in 1 .. Len(p)
    BY <1>2, EmptySeq, LenProperties
  <2> QED BY <2>1, SubSeqOfConcat1, SubSeqFull
<1> QED BY <1>1, <1>2

-----------------------------------------------------------------------------
(* Folders below another, and what REN makes of them.                      *)

LEMMA PrefixElements ==
    ASSUME NEW p \in Seq(Parts), NEW q \in Seq(Parts)
    PROVE  IsPrefix(p, q) <=>
               Len(p) <= Len(q) /\ \A i \in 1 .. Len(p) : p[i] = q[i]
<1>1. Len(p) \in Nat /\ Len(q) \in Nat
  BY LenProperties
<1>2. SubSeq(p, 1, Len(p)) = p
  BY SubSeqFull
<1>3. ASSUME Len(p) <= Len(q)
      PROVE  /\ SubSeq(q, 1, Len(p)) \in Seq(Parts)
             /\ Len(SubSeq(q, 1, Len(p))) = Len(p)
             /\ \A i \in 1 .. Len(p) : SubSeq(q, 1, Len(p))[i] = q[i]
  <2>1. \A i \in 1 .. Len(p) : q[i] \in Parts
    BY <1>1, <1>3, ElementOfSeq
  <2>2. ASSUME NEW n \in Nat, \A i \in 1 .. n : q[i] \in Parts
        PROVE  /\ SubSeq(q, 1, n) \in Seq(Parts)
               /\ Len(SubSeq(q, 1, n)) = n
               /\ \A i \in 1 .. n : SubSeq(q, 1, n)[i] = q[i]
    BY <2>2, SubSeqProperties
  <2> QED BY <1>1, <2>1, <2>2
<1>4. ASSUME Len(p) <= Len(q), \A i \in 1 .. Len(p) : p[i] = q[i]
      PROVE  SubSeq(q, 1, Len(p)) = p
  BY <1>1, <1>3, <1>4, SeqEqual
<1> QED BY <1>2, <1>3, <1>4 DEF IsPrefix

(* A folder is below another when its parent is, but for that other one.   *)
LEMMA PrefixOfParent ==
    ASSUME NEW p \in Seq(Parts), NEW q \in Seq(Parts), q # << >>, p # q
    PROVE  IsPrefix(p, q) <=> IsPrefix(p, Parent(q))
<1>1. /\ Len(p) \in Nat /\ Len(q) \in Nat \ {0}
  BY LenProperties, EmptySeq
<1>2. /\ Parent(q) \in Seq(Parts)
      /\ Len(Parent(q)) = Len(q) - 1
      /\ \A i \in 1 .. Len(q) - 1 : Parent(q)[i] = q[i]
  BY ParentProperties
<1>3. ASSUME Len(p) = Len(q), \A i \in 1 .. Len(p) : p[i] = q[i]
      PROVE  FALSE
  BY <1>3, SeqEqual
<1>4. IsPrefix(p, Parent(q)) <=>
          Len(p) <= Len(q) - 1 /\ \A i \in 1 .. Len(p) : p[i] = Parent(q)[i]
  BY <1>2, PrefixElements
<1>5. IsPrefix(p, q) <=>
          Len(p) <= Len(q) /\ \A i \in 1 .. Len(p) : p[i] = q[i]
  BY PrefixElements
<1> QED BY <1>1, <1>2, <1>3, <1>4, <1>5

(* A folder that moves along: its new path.                                *)
LEMMA RenamedProperties ==
    ASSUME NEW q \in Seq(Parts), NEW old \in Seq(Parts), NEW new \in Parts,
           IsPrefix(old, q)
    PROVE  /\ Renamed(q, old, new) \in Seq(Parts)
           /\ Len(Renamed(q, old, new)) = 1 + (Len(q) - Len(old))
           /\ \A i \in 1 .. 1 + (Len(q) - Len(old)) :
                 Renamed(q, old, new)[i] = IF i = 1 THEN new ELSE q[Len(old) + i - 1]
<1> DEFINE rest == SubSeq(q, Len(old) + 1, Len(q))
           one  == <<new>>
<1>1. Len(old) \in Nat /\ Len(q) \in Nat /\ Len(old) <= Len(q)
  BY LenProperties DEF IsPrefix
<1>2. \A i \in Len(old) + 1 .. Len(q) : q[i] \in Parts
  BY <1>1, ElementOfSeq
<1>3. ASSUME NEW m \in Nat, NEW n \in Nat, m <= n, \A i \in m + 1 .. n : q[i] \in Parts
      PROVE  /\ SubSeq(q, m + 1, n) \in Seq(Parts)
             /\ Len(SubSeq(q, m + 1, n)) = n - m
             /\ \A i \in 1 .. n - m : SubSeq(q, m + 1, n)[i] = q[m + i]
  <2>1. n - (m + 1) + 1 = n - m /\ m + 1 \in Int /\ n \in Int
    BY <1>3
  <2>2. /\ SubSeq(q, m + 1, n) \in Seq(Parts)
        /\ Len(SubSeq(q, m + 1, n)) = IF m + 1 <= n THEN n - (m + 1) + 1 ELSE 0
        /\ \A i \in 1 .. n - (m + 1) + 1 : SubSeq(q, m + 1, n)[i] = q[m + 1 + i - 1]
    BY <1>3, <2>1, SubSeqProperties
  <2>3. Len(SubSeq(q, m + 1, n)) = n - m
    <3>1. CASE m + 1 <= n
      BY <2>1, <2>2, <3>1
    <3>2. CASE ~(m + 1 <= n)
      <4>1. n - m = 0
        BY <1>3, <3>2
      <4> QED BY <2>2, <3>2, <4>1
    <3> QED BY <3>1, <3>2
  <2>4. ASSUME NEW i \in 1 .. n - m
        PROVE  SubSeq(q, m + 1, n)[i] = q[m + i]
    <3>1. m + 1 + i - 1 = m + i
      BY <1>3
    <3>2. SubSeq(q, m + 1, n)[i] = q[m + 1 + i - 1]
      BY <2>1, <2>2
    <3> QED BY <3>1, <3>2
  <2> QED BY <2>2, <2>3, <2>4
<1>4. /\ rest \in Seq(Parts)
      /\ Len(rest) = Len(q) - Len(old)
      /\ \A i \in 1 .. Len(q) - Len(old) : rest[i] = q[Len(old) + i]
  BY <1>1, <1>2, <1>3
<1>5. one \in Seq(Parts) /\ Len(one) = 1 /\ one[1] = new
  OBVIOUS
<1>6. Renamed(q, old, new) = one \o rest
  BY DEF Renamed
<1> HIDE DEF rest, one
<1>7. /\ one \o rest \in Seq(Parts)
      /\ Len(one \o rest) = Len(one) + Len(rest)
      /\ \A i \in 1 .. Len(one) + Len(rest) :
            (one \o rest)[i] = IF i <= Len(one) THEN one[i] ELSE rest[i - Len(one)]
  BY <1>4, <1>5, ConcatProperties
<1>8. Len(Renamed(q, old, new)) = 1 + (Len(q) - Len(old))
  BY <1>4, <1>5, <1>6, <1>7
<1>9. ASSUME NEW i \in 1 .. 1 + (Len(q) - Len(old))
      PROVE  Renamed(q, old, new)[i] = IF i = 1 THEN new ELSE q[Len(old) + i - 1]
  <2>1. (one \o rest)[i] = IF i <= 1 THEN one[i] ELSE rest[i - 1]
    BY <1>1, <1>4, <1>5, <1>7
  <2>2. CASE i = 1
    BY <1>5, <1>6, <2>1, <2>2
  <2>3. CASE i # 1
    <3>1. i - 1 \in 1 .. Len(q) - Len(old) /\ Len(old) + (i - 1) = Len(old) + i - 1
      BY <1>1, <2>3
    <3>2. rest[i - 1] = q[Len(old) + i - 1]
      BY <1>4, <3>1
    <3> QED BY <1>6, <2>1, <2>3, <3>1, <3>2
  <2> QED BY <2>2, <2>3
<1> QED BY <1>6, <1>7, <1>8, <1>9

(* Below the folder renamed, renaming keeps what is in what.               *)
LEMMA RenamedParent ==
    ASSUME NEW q \in Seq(Parts), NEW old \in Seq(Parts), NEW new \in Parts,
           IsPrefix(old, q), q # old
    PROVE  Parent(Renamed(q, old, new)) = Renamed(Parent(q), old, new)
<1> DEFINE r == Renamed(q, old, new)
           s == Renamed(Parent(q), old, new)
<1>1. Len(old) \in Nat /\ Len(q) \in Nat /\ Len(old) <= Len(q)
  BY LenProperties DEF IsPrefix
<1>2. q # << >>
  BY <1>1, EmptySeq
<1>3. IsPrefix(old, Parent(q))
  BY <1>2, PrefixOfParent
<1>4. /\ Parent(q) \in Seq(Parts)
      /\ Len(Parent(q)) = Len(q) - 1
      /\ \A i \in 1 .. Len(q) - 1 : Parent(q)[i] = q[i]
  BY <1>2, ParentProperties
<1>5. Len(old) <= Len(q) - 1
  BY <1>3, <1>4 DEF IsPrefix
<1>6. /\ r \in Seq(Parts)
      /\ Len(r) = 1 + (Len(q) - Len(old))
      /\ \A i \in 1 .. 1 + (Len(q) - Len(old)) :
            r[i] = IF i = 1 THEN new ELSE q[Len(old) + i - 1]
  BY RenamedProperties
<1>7. /\ s \in Seq(Parts)
      /\ Len(s) = Len(q) - Len(old)
      /\ \A i \in 1 .. Len(q) - Len(old) :
            s[i] = IF i = 1 THEN new ELSE Parent(q)[Len(old) + i - 1]
  <2>1. /\ s \in Seq(Parts)
        /\ Len(s) = 1 + (Len(Parent(q)) - Len(old))
        /\ \A i \in 1 .. 1 + (Len(Parent(q)) - Len(old)) :
              s[i] = IF i = 1 THEN new ELSE Parent(q)[Len(old) + i - 1]
    BY <1>3, <1>4, RenamedProperties
  <2>2. 1 + (Len(Parent(q)) - Len(old)) = Len(q) - Len(old)
    BY <1>1, <1>4
  <2> QED BY <2>1, <2>2
<1> HIDE DEF r, s
<1>8. r # << >>
  BY <1>1, <1>6, EmptySeq
<1>9. /\ Parent(r) \in Seq(Parts)
      /\ Len(Parent(r)) = Len(r) - 1
      /\ \A i \in 1 .. Len(r) - 1 : Parent(r)[i] = r[i]
  BY <1>6, <1>8, ParentProperties
<1>10. Len(Parent(r)) = Len(s)
  BY <1>1, <1>6, <1>7, <1>9
<1>11. ASSUME NEW i \in 1 .. Len(Parent(r))
       PROVE  Parent(r)[i] = s[i]
  <2>1. i \in 1 .. Len(q) - Len(old) /\ i \in 1 .. Len(r) - 1
    BY <1>7, <1>9, <1>10
  <2>2. Parent(r)[i] = IF i = 1 THEN new ELSE q[Len(old) + i - 1]
    BY <1>1, <1>6, <1>9, <2>1
  <2>3. i # 1 => Len(old) + i - 1 \in 1 .. Len(q) - 1
    BY <1>1, <2>1
  <2>4. s[i] = IF i = 1 THEN new ELSE q[Len(old) + i - 1]
    BY <1>4, <1>7, <2>1, <2>3
  <2> QED BY <2>2, <2>4
<1>12. Parent(r) = s
  BY <1>7, <1>9, <1>10, <1>11, SeqEqual
<1> QED BY <1>12 DEF r, s

-----------------------------------------------------------------------------
(* What the parts of an argument make of the text.                         *)

LEMMA Beginning ==
    ASSUME NEW p \in Seq(Parts), NEW k \in 0 .. Len(p)
    PROVE  /\ SubSeq(p, 1, k) \in Seq(Parts)
           /\ Len(SubSeq(p, 1, k)) = k
           /\ \A i \in 1 .. k : SubSeq(p, 1, k)[i] = p[i]
<1>1. Len(p) \in Nat /\ k \in Nat
  BY LenProperties
<1>2. \A i \in 1 .. k : p[i] \in Parts
  BY <1>1, ElementOfSeq
<1>3. ASSUME NEW n \in Nat, \A i \in 1 .. n : p[i] \in Parts
      PROVE  /\ SubSeq(p, 1, n) \in Seq(Parts)
             /\ Len(SubSeq(p, 1, n)) = n
             /\ \A i \in 1 .. n : SubSeq(p, 1, n)[i] = p[i]
  BY <1>3, SubSeqProperties
<1> QED BY <1>1, <1>2, <1>3

LEMMA Appended ==
    ASSUME NEW p \in Seq(Parts), NEW q \in Seq(Parts)
    PROVE  /\ p \o q \in Seq(Parts) /\ Len(p \o q) = Len(p) + Len(q)
           /\ Len(p) \in Nat /\ Len(q) \in Nat
           /\ SubSeq(p \o q, 1, Len(p)) = p
BY ConcatProperties, LenProperties, TextBefore

(* With the last of two parts cut, the text still begins as it did.        *)
LEMMA CutAppended ==
    ASSUME NEW p \in Seq(Parts), NEW q \in Seq(Parts), Len(q) = 2
    PROVE  /\ Cut(p \o q) \in Seq(Parts) /\ Len(Cut(p \o q)) = Len(p) + 1
           /\ SubSeq(Cut(p \o q), 1, Len(p)) = p
<1> DEFINE r == p \o q
<1>1. /\ r \in Seq(Parts) /\ Len(r) = Len(p) + 2 /\ Len(p) \in Nat
      /\ \A i \in 1 .. Len(p) : r[i] = p[i]
  <2>1. /\ r \in Seq(Parts) /\ Len(r) = Len(p) + Len(q) /\ Len(p) \in Nat
        /\ \A i \in 1 .. Len(p) + Len(q) :
              r[i] = IF i <= Len(p) THEN p[i] ELSE q[i - Len(p)]
    BY ConcatProperties, LenProperties
  <2> HIDE DEF r
  <2> QED BY <2>1
<1> HIDE DEF r
<1>2. r # << >>
  BY <1>1, EmptySeq
<1>3. /\ Cut(r) \in Seq(Parts) /\ Len(Cut(r)) = Len(p) + 1
      /\ \A i \in 1 .. Len(p) + 1 : Cut(r)[i] = r[i]
  <2>1. Cut(r) = Parent(r)
    BY <1>2 DEF Cut
  <2>2. /\ Parent(r) \in Seq(Parts) /\ Len(Parent(r)) = Len(r) - 1
        /\ \A i \in 1 .. Len(r) - 1 : Parent(r)[i] = r[i]
    BY <1>1, <1>2, ParentProperties
  <2>3. Len(r) - 1 = Len(p) + 1
    BY <1>1
  <2> QED BY <2>1, <2>2, <2>3
<1>4. PICK c \in Seq(Parts) :
        /\ c = Cut(r) /\ Len(c) = Len(p) + 1
        /\ \A i \in 1 .. Len(p) : c[i] = p[i]
  BY <1>1, <1>3
<1>5. Len(p) \in 0 .. Len(c)
  BY <1>1, <1>4
<1>6. /\ SubSeq(c, 1, Len(p)) \in Seq(Parts)
      /\ Len(SubSeq(c, 1, Len(p))) = Len(p)
      /\ \A i \in 1 .. Len(p) : SubSeq(c, 1, Len(p))[i] = p[i]
  BY <1>4, <1>5, Beginning
<1>7. SubSeq(c, 1, Len(p)) = p
  BY <1>6, SeqEqual
<1> QED BY <1>3, <1>4, <1>7 DEF r

LEMMA EnteredType ==
    ASSUME NEW p \in Seq(Parts), NEW arg \in Seq(Parts), NEW part
    PROVE  /\ Entered(p, part, arg) \in Seq(Parts)
           /\ Len(Entered(p, part, arg)) \in Nat
           /\ Len(Entered(p, part, arg)) <= Len(p) + Len(arg)
<1>1. /\ Cut(p) \in Seq(Parts)
      /\ Len(Cut(p)) = IF Len(p) = 0 THEN 0 ELSE Len(p) - 1
  BY CutProperties
<1>2. /\ p \o arg \in Seq(Parts) /\ Len(p \o arg) = Len(p) + Len(arg)
      /\ Len(p) \in Nat /\ Len(arg) \in Nat
  BY Appended
<1>3. Entered(p, part, arg) \in {Cut(p), p \o arg, p}
  BY DEF Entered
<1>4. ASSUME NEW e \in {Cut(p), p \o arg, p}
      PROVE  e \in Seq(Parts) /\ Len(e) \in Nat /\ Len(e) <= Len(p) + Len(arg)
  <2>1. CASE e = Cut(p)
    BY <1>1, <1>2, <2>1
  <2>2. CASE e = p \o arg
    BY <1>2, <2>2
  <2>3. CASE e = p
    BY <1>2, <2>3
  <2> QED BY <2>1, <2>2, <2>3
<1> QED BY <1>3, <1>4

(* What CD has come to when its tail begins.                               *)
LEMMA WalkedProperties ==
    ASSUME vdiratu \in Seq(Parts), NEW arg \in Seq(Parts), Len(arg) \in {1, 2}
    PROVE  LET walked == Walked(arg)
           IN  /\ walked \in Seq(Parts) /\ Len(walked) \in Nat
               /\ Len(walked) <= Len(vdiratu) + 2 * Len(arg)
               /\ arg[1] = Up => \/ walked \in {Cut(vdiratu), Cut(Cut(vdiratu))}
                                 \/ Len(walked) > Len(Cut(vdiratu))
               /\ arg[1] # Up =>
                     /\ SubSeq(walked, 1, Len(vdiratu)) = vdiratu
                     /\ IF Find(vdiratu, arg[1]) THEN Len(walked) > Len(vdiratu)
                        ELSE walked = vdiratu
<1> DEFINE walked == Walked(arg)
           once   == Entered(vdiratu, arg[1], arg)
           all    == vdiratu \o arg
<1>1. /\ once \in Seq(Parts) /\ Len(once) \in Nat
      /\ Len(once) <= Len(vdiratu) + Len(arg)
  BY EnteredType
<1>2. /\ Entered(once, arg[2], arg) \in Seq(Parts)
      /\ Len(Entered(once, arg[2], arg)) \in Nat
      /\ Len(Entered(once, arg[2], arg)) <= Len(once) + Len(arg)
  BY <1>1, EnteredType
<1>3. /\ all \in Seq(Parts) /\ Len(all) = Len(vdiratu) + Len(arg)
      /\ SubSeq(all, 1, Len(vdiratu)) = vdiratu
      /\ Len(vdiratu) \in Nat /\ Len(arg) \in {1, 2}
  BY Appended
<1>4. walked = IF Len(arg) = 2 /\ (arg[1] = Up \/ Find(vdiratu, arg[1]))
               THEN Entered(once, arg[2], arg) ELSE once
  BY DEF Walked
<1>5. /\ walked \in Seq(Parts) /\ Len(walked) \in Nat
      /\ Len(walked) <= Len(vdiratu) + 2 * Len(arg)
  <2>1. CASE walked = once
    BY <1>1, <1>3, <2>1
  <2>2. CASE walked = Entered(once, arg[2], arg)
    <3>1. Len(once) + Len(arg) <= Len(vdiratu) + 2 * Len(arg)
      BY <1>1, <1>3
    <3> QED BY <1>1, <1>2, <1>3, <2>2, <3>1
  <2> QED BY <1>4, <2>1, <2>2
<1>6. ASSUME arg[1] = Up
      PROVE  \/ walked \in {Cut(vdiratu), Cut(Cut(vdiratu))}
             \/ Len(walked) > Len(Cut(vdiratu))
  <2>1. once = Cut(vdiratu)
    BY <1>6 DEF Entered
  <2>2. CASE walked = once
    BY <2>1, <2>2
  <2>3. CASE walked = Entered(once, arg[2], arg)
    <3>1. walked \in {Cut(once), once, once \o arg}
      BY <2>3 DEF Entered
    <3>2. Len(once \o arg) = Len(once) + Len(arg)
      BY <1>1, Appended
    <3>3. Len(once \o arg) > Len(once)
      BY <1>1, <1>3, <3>2
    <3> QED BY <2>1, <3>1, <3>3
  <2> QED BY <1>4, <2>2, <2>3
<1>7. ASSUME arg[1] # Up
      PROVE  /\ SubSeq(walked, 1, Len(vdiratu)) = vdiratu
             /\ IF Find(vdiratu, arg[1]) THEN Len(walked) > Len(vdiratu)
                ELSE walked = vdiratu
  <2>1. CASE ~Find(vdiratu, arg[1])
    <3>1. walked = vdiratu
      BY <1>4, <1>7, <2>1 DEF Entered
    <3>2. SubSeq(vdiratu, 1, Len(vdiratu)) = vdiratu
      BY SubSeqFull
    <3> QED BY <2>1, <3>1, <3>2
  <2>2. CASE Find(vdiratu, arg[1])
    <3>1. once = all
      BY <1>7, <2>2 DEF Entered
    <3>2. CASE Len(arg) = 1
      <4>1. walked = all
        BY <1>4, <3>1, <3>2
      <4> QED BY <1>3, <2>2, <4>1
    <3>3. CASE Len(arg) = 2
      <4>1. walked \in {Cut(all), all, all \o arg}
        BY <1>4, <2>2, <3>1, <3>3 DEF Entered
      <4>2. Len(Cut(all)) = Len(vdiratu) + 1 /\ SubSeq(Cut(all), 1, Len(vdiratu)) = vdiratu
        BY <3>3, CutAppended
      <4>3. /\ Len(all \o arg) = Len(vdiratu) + 4
            /\ SubSeq(all \o arg, 1, Len(vdiratu)) = vdiratu
        <5>1. Len(all \o arg) = Len(all) + Len(arg)
          BY <1>3, Appended
        <5>2. all \o arg = vdiratu \o (arg \o arg) /\ arg \o arg \in Seq(Parts)
          BY <1>3, ConcatAssociative, ConcatProperties
        <5>3. SubSeq(vdiratu \o (arg \o arg), 1, Len(vdiratu)) = vdiratu
          BY <5>2, TextBefore
        <5> QED BY <1>3, <3>3, <5>1, <5>2, <5>3
      <4> HIDE DEF all, walked
      <4>4. Len(walked) > Len(vdiratu) /\ SubSeq(walked, 1, Len(vdiratu)) = vdiratu
        BY <1>3, <3>3, <4>1, <4>2, <4>3
      <4> QED BY <2>2, <4>4
    <3> QED BY <1>3, <3>2, <3>3
  <2> QED BY <2>1, <2>2
<1> HIDE DEF walked
<1>8. QED BY <1>5, <1>6, <1>7 DEF walked

-----------------------------------------------------------------------------
(* The steps.                                                              *)

(* What CD changes, and what it has to respect.                            *)
LEMMA CdKeeps ==
    ASSUME FsInvariant, folders' = folders, vdiratu' \in Paths,
           vdiratup' \in {Unset, Astray} \cup 0 .. Len(vdiratu'),
           {wild', missing', moved', odd'} \subseteq BOOLEAN,
           PointerAtEnd', CurrentFolderExists'
    PROVE  FsInvariant'
<1>1. Len(vdiratu') \in Nat /\ Len(vdiratu') <= MaxDepth /\ MaxDepth \in Nat
  BY LenProperties, ShellFsAssumption DEF Paths
<1>2. vdiratup' \in {Unset, Astray} \cup 0 .. MaxDepth
  BY <1>1
<1>3. FsTypeOK'
  BY <1>2 DEF FsInvariant, FsTypeOK
<1>4. Closed'
  BY DEF FsInvariant, Closed, Exists
<1> QED BY <1>3, <1>4 DEF FsInvariant, PointerInText

LEMMA FsFacts ==
    ASSUME FsInvariant
    PROVE  /\ vdiratu \in Seq(Parts) /\ Len(vdiratu) \in Nat /\ Len(vdiratu) <= MaxDepth
           /\ vdiratup \in {Unset, Astray} \cup 0 .. Len(vdiratu)
           /\ {wild, missing, moved, odd} \subseteq BOOLEAN
           /\ ~odd /\ vdiratup # Unset => vdiratup = Len(vdiratu)
BY LenProperties DEF FsInvariant, FsTypeOK, PointerInText, PointerAtEnd, Paths

LEMMA CutSteps ==
    ASSUME Closed, NEW p \in Seq(Parts), Exists(p)
    PROVE  Exists(Cut(p)) /\ Exists(Cut(Cut(p))) /\ Exists(Cut(Cut(Cut(p))))
<1>1. Exists(Cut(p))
  BY CutExists
<1>2. Exists(Cut(Cut(p)))
  BY <1>1, CutExists
<1> QED BY <1>1, <1>2, CutExists

(* CD .. and what begins with two dots: the pointer is at the end of the   *)
(* text, so the tail leaves the folder that the first part of CD has come  *)
(* to, or what that part has appended.                                     *)
LEMMA UpKeeps ==
    ASSUME FsInvariant, NEW arg \in Seq(Parts), Len(arg) \in {1, 2}, CdUp(arg)
    PROVE  FsInvariant'
<1>1. PICK walked : walked = Walked(arg)
  OBVIOUS
<1>2. /\ arg[1] \in TwoDots \cup {Up} /\ vdiratup # Astray
      /\ Len(vdiratu) + 2 * Len(arg) <= MaxDepth
      /\ odd' = (odd \/ (arg[1] = Up /\ Len(walked) > Len(Cut(vdiratu))))
      /\ folders' = folders /\ missing' = missing /\ moved' = moved
  BY <1>1 DEF CdUp
<1>3. /\ vdiratu \in Seq(Parts) /\ Len(vdiratu) \in Nat /\ Len(vdiratu) <= MaxDepth
      /\ vdiratup \in {Unset, Astray} \cup 0 .. Len(vdiratu)
      /\ {wild, missing, moved, odd} \subseteq BOOLEAN
      /\ ~odd /\ vdiratup # Unset => vdiratup = Len(vdiratu)
  BY FsFacts
<1>4. /\ walked \in Seq(Parts) /\ Len(walked) \in Nat
      /\ Len(walked) <= Len(vdiratu) + 2 * Len(arg)
      /\ arg[1] = Up => \/ walked \in {Cut(vdiratu), Cut(Cut(vdiratu))}
                        \/ Len(walked) > Len(Cut(vdiratu))
      /\ arg[1] # Up => /\ SubSeq(walked, 1, Len(vdiratu)) = vdiratu
                        /\ IF Find(vdiratu, arg[1]) THEN Len(walked) > Len(vdiratu)
                           ELSE walked = vdiratu
  BY <1>1, <1>3, WalkedProperties
<1>5. Len(walked) <= MaxDepth /\ walked \in Paths
  BY <1>2, <1>3, <1>4, ShellFsAssumption DEF Paths
<1>6. odd' \in BOOLEAN
  BY <1>2, <1>3
<1>7. CASE vdiratup = Unset
  <2>1. vdiratu' = walked /\ wild' = TRUE /\ vdiratup' = vdiratup
    BY <1>1, <1>7 DEF CdUp
  <2>2. PointerAtEnd' /\ CurrentFolderExists'
    BY <1>7, <2>1 DEF PointerAtEnd, CurrentFolderExists
  <2> QED BY <1>2, <1>3, <1>5, <1>6, <1>7, <2>1, <2>2, CdKeeps
<1>8. CASE vdiratup # Unset
  <2>1. /\ vdiratup' \in Back(walked, arg) /\ vdiratu' = SubSeq(walked, 1, vdiratup')
        /\ wild' = wild
    BY <1>1, <1>8 DEF CdUp
  <2>2. /\ Cut(walked) \in Seq(Parts)
        /\ Len(Cut(walked)) = IF Len(walked) = 0 THEN 0 ELSE Len(walked) - 1
        /\ SubSeq(walked, 1, Len(Cut(walked))) = Cut(walked)
    BY <1>4, CutProperties
  <2>3. /\ Cut(vdiratu) \in Seq(Parts)
        /\ Len(Cut(vdiratu)) = IF Len(vdiratu) = 0 THEN 0 ELSE Len(vdiratu) - 1
    BY <1>3, CutProperties
  <2>4. vdiratup \in 0 .. Len(vdiratu)
    BY <1>2, <1>3, <1>8
  <2>5. Behind(walked) \in 0 .. Len(walked)
    BY <1>4, <2>2, <2>4 DEF Behind
  <2>6. vdiratup' \in 0 .. Len(walked)
    BY <1>3, <1>4, <2>1, <2>3, <2>5 DEF Back
  <2>7. vdiratu' \in Seq(Parts) /\ Len(vdiratu') = vdiratup'
    BY <1>4, <2>1, <2>6, Beginning
  <2>8. vdiratu' \in Paths
    BY <1>4, <1>5, <2>6, <2>7, ShellFsAssumption DEF Paths
  <2>9. PointerAtEnd'
    BY <2>7 DEF PointerAtEnd
  <2>10. ASSUME Exists(vdiratu), ~odd'
         PROVE  Exists(vdiratu)'
    <3>1. vdiratup = Len(vdiratu) /\ ~odd
      BY <1>2, <1>3, <1>8, <2>10
    <3>2. Closed
      BY DEF FsInvariant
    <3>3. CASE arg[1] = Up
      <4>1. walked \in {Cut(vdiratu), Cut(Cut(vdiratu))} /\ ~(Len(walked) > Len(Cut(vdiratu)))
        BY <1>2, <1>4, <2>10, <3>3
      <4>2. ~(Len(walked) > Len(vdiratu)) /\ ~(vdiratup < Len(walked))
        BY <1>3, <1>4, <2>3, <3>1, <4>1
      <4>3. vdiratup' = Len(Cut(walked))
        BY <2>1, <4>2 DEF Back, Behind
      <4>4. vdiratu' = Cut(walked)
        BY <2>1, <2>2, <4>3
      <4>5. Exists(Cut(walked))
        BY <1>3, <2>10, <3>2, <4>1, CutSteps
      <4> QED BY <1>2, <4>4, <4>5 DEF Exists
    <3>4. CASE arg[1] # Up
      <4>1. vdiratup' = Behind(walked)
        BY <2>1, <3>4 DEF Back
      <4>2. CASE Find(vdiratu, arg[1])
        <5>1. vdiratup < Len(walked)
          BY <1>4, <3>1, <3>4, <4>2
        <5>2. vdiratup' = Len(vdiratu)
          BY <3>1, <4>1, <5>1 DEF Behind
        <5>3. vdiratu' = vdiratu
          BY <1>4, <2>1, <3>4, <5>2
        <5> QED BY <1>2, <2>10, <5>3 DEF Exists
      <4>3. CASE ~Find(vdiratu, arg[1])
        <5>1. walked = vdiratu
          BY <1>4, <3>4, <4>3
        <5>2. vdiratup' = Len(Cut(walked))
          BY <1>3, <3>1, <4>1, <5>1 DEF Behind
        <5>3. vdiratu' = Cut(vdiratu)
          BY <2>1, <2>2, <5>1, <5>2
        <5>4. Exists(Cut(vdiratu))
          BY <2>10, <3>2, CutExists
        <5> QED BY <1>2, <5>3, <5>4 DEF Exists
      <4> QED BY <4>2, <4>3
    <3> QED BY <3>3, <3>4
  <2>11. CurrentFolderExists'
    <3>1. ASSUME ~odd' PROVE ~odd
      BY <1>2, <3>1
    <3> QED BY <1>2, <2>1, <2>10, <3>1 DEF FsInvariant, CurrentFolderExists
  <2>12. vdiratup' \in 0 .. Len(vdiratu')
    BY <2>6, <2>7
  <2> QED BY <1>2, <1>3, <1>6, <2>1, <2>8, <2>9, <2>11, <2>12, CdKeeps
<1> QED BY <1>7, <1>8

(* CD with one dot: what is found is only appended to the text.            *)
LEMMA DotKeeps ==
    ASSUME FsInvariant, NEW arg \in Seq(Parts), Len(arg) \in {1, 2}, CdDot(arg)
    PROVE  FsInvariant'
<1>1. PICK walked : walked = Walked(arg)
  OBVIOUS
<1>2. /\ arg[1] \in Dotted /\ Len(vdiratu) + 2 * Len(arg) <= MaxDepth
      /\ vdiratu' = walked /\ odd' = (odd \/ Find(vdiratu, arg[1]))
      /\ folders' = folders /\ vdiratup' = vdiratup
      /\ wild' = wild /\ missing' = missing /\ moved' = moved
  BY <1>1 DEF CdDot
<1>3. /\ vdiratu \in Seq(Parts) /\ Len(vdiratu) \in Nat
      /\ vdiratup \in {Unset, Astray} \cup 0 .. Len(vdiratu)
      /\ {wild, missing, moved, odd} \subseteq BOOLEAN
  BY FsFacts
<1>4. arg[1] # Up
  BY <1>2, ShellFsAssumption
<1>5. /\ walked \in Seq(Parts) /\ Len(walked) \in Nat
      /\ Len(walked) <= Len(vdiratu) + 2 * Len(arg)
      /\ IF Find(vdiratu, arg[1]) THEN Len(walked) > Len(vdiratu) ELSE walked = vdiratu
  BY <1>1, <1>3, <1>4, WalkedProperties
<1>6. walked \in Paths
  BY <1>2, <1>3, <1>5, ShellFsAssumption DEF Paths
<1>7. vdiratup' \in {Unset, Astray} \cup 0 .. Len(vdiratu')
  BY <1>2, <1>3, <1>5
<1>8. odd' \in BOOLEAN
  BY <1>2, <1>3
<1>9. CASE Find(vdiratu, arg[1])
  <2>1. PointerAtEnd' /\ CurrentFolderExists'
    BY <1>2, <1>9 DEF PointerAtEnd, CurrentFolderExists
  <2> QED BY <1>2, <1>3, <1>6, <1>7, <1>8, <2>1, CdKeeps
<1>10. CASE ~Find(vdiratu, arg[1])
  <2>1. vdiratu' = vdiratu /\ ~odd' => ~odd
    BY <1>2, <1>5, <1>10
  <2>2. vdiratu' = vdiratu
    BY <1>2, <1>5, <1>10
  <2>3. PointerAtEnd' /\ CurrentFolderExists'
    BY <1>2, <1>3, <2>1, <2>2 DEF FsInvariant, PointerAtEnd, CurrentFolderExists, Exists
  <2> QED BY <1>2, <1>3, <1>6, <1>7, <1>8, <2>3, CdKeeps
<1> QED BY <1>9, <1>10

(* CD name: what the first part of CD has appended stands behind the       *)
(* pointer, and the tail writes the argument in its place.                 *)
LEMMA DownKeeps ==
    ASSUME FsInvariant, NEW arg \in Seq(Parts), Len(arg) \in {1, 2}, CdDown(arg)
    PROVE  FsInvariant'
<1>1. PICK walked, taken : walked = Walked(arg) /\ taken = Taken(arg)
  OBVIOUS
<1>2. /\ arg[1] \in Names /\ vdiratup # Astray
      /\ Len(vdiratu) + 2 * Len(arg) <= MaxDepth
      /\ missing' = (missing \/ ~Exists(vdiratu \o taken))
      /\ odd' = (odd \/ CutShort(arg))
      /\ folders' = folders /\ moved' = moved
  BY <1>1 DEF CdDown
<1>3. /\ vdiratu \in Seq(Parts) /\ Len(vdiratu) \in Nat
      /\ vdiratup \in {Unset, Astray} \cup 0 .. Len(vdiratu)
      /\ {wild, missing, moved, odd} \subseteq BOOLEAN
      /\ ~odd /\ vdiratup # Unset => vdiratup = Len(vdiratu)
  BY FsFacts
<1>4. arg[1] # Up
  BY <1>2, ShellFsAssumption
<1>5. /\ walked \in Seq(Parts) /\ Len(walked) \in Nat
      /\ Len(walked) <= Len(vdiratu) + 2 * Len(arg)
      /\ SubSeq(walked, 1, Len(vdiratu)) = vdiratu
      /\ IF Find(vdiratu, arg[1]) THEN Len(walked) > Len(vdiratu) ELSE walked = vdiratu
  BY <1>1, <1>3, <1>4, WalkedProperties
<1>6. walked \in Paths
  BY <1>2, <1>3, <1>5, ShellFsAssumption DEF Paths
<1>7. odd' \in BOOLEAN /\ missing' \in BOOLEAN
  BY <1>2, <1>3
<1>8. taken \in Seq(Parts) /\ Len(taken) \in Nat /\ Len(taken) <= Len(arg)
  <2>1. arg[1] \in Parts /\ Len(arg) \in Nat
    BY <1>2 DEF Parts
  <2>2. <<arg[1]>> \in Seq(Parts) /\ Len(<<arg[1]>>) = 1
    BY <2>1
  <2>3. CASE taken = arg
    BY <2>1, <2>3
  <2>4. CASE taken = <<arg[1]>>
    BY <2>2, <2>4
  <2> QED BY <1>1, <2>3, <2>4 DEF Taken
<1>9. CASE vdiratup = Unset
  <2>1. vdiratu' = walked /\ wild' = TRUE /\ vdiratup' = vdiratup
    BY <1>1, <1>9 DEF CdDown
  <2>2. PointerAtEnd' /\ CurrentFolderExists'
    BY <1>9, <2>1 DEF PointerAtEnd, CurrentFolderExists
  <2> QED BY <1>2, <1>3, <1>6, <1>7, <1>9, <2>1, <2>2, CdKeeps
<1>10. CASE vdiratup # Unset
  <2>1. /\ vdiratu' = Rewritten(walked, taken) /\ wild' = wild
        /\ \/ vdiratup' = vdiratup + Len(taken)
           \/ CutShort(arg) /\ vdiratup' = Astray
    BY <1>1, <1>10 DEF CdDown
  <2>2. vdiratup \in 0 .. Len(walked) /\ vdiratup <= Len(vdiratu)
    BY <1>2, <1>3, <1>5, <1>10
  <2>3. PICK begin : begin = SubSeq(walked, 1, vdiratup)
    OBVIOUS
  <2>4. begin \in Seq(Parts) /\ Len(begin) = vdiratup
    BY <1>5, <2>2, <2>3, Beginning
  <2>5. vdiratu' \in Seq(Parts) /\ Len(vdiratu') = vdiratup + Len(taken)
    BY <1>8, <2>1, <2>3, <2>4, Appended DEF Rewritten
  <2>6. vdiratu' \in Paths
    BY <1>2, <1>3, <1>8, <2>2, <2>5, ShellFsAssumption DEF Paths
  <2>7. vdiratup' \in {Unset, Astray} \cup 0 .. Len(vdiratu')
    BY <1>8, <2>1, <2>2, <2>5
  <2>8. PointerAtEnd'
    BY <1>2, <2>1, <2>5 DEF PointerAtEnd
  <2>9. ASSUME ~odd'
        PROVE  vdiratu' = vdiratu \o taken
    <3>1. vdiratup = Len(vdiratu)
      BY <1>2, <1>3, <1>10, <2>9
    <3> QED BY <1>5, <2>1, <3>1 DEF Rewritten
  <2>10. CurrentFolderExists'
    BY <1>2, <2>9 DEF CurrentFolderExists, Exists
  <2> QED BY <1>2, <1>3, <1>7, <2>1, <2>6, <2>7, <2>8, <2>10, CdKeeps
<1> QED BY <1>9, <1>10

(* CD alone, and what follows it: nothing is said of where the shell is.   *)
LEMMA BareKeeps ==
    ASSUME FsInvariant, CdBare
    PROVE  FsInvariant'
<1>1. /\ odd' = TRUE /\ folders' = folders /\ missing' = missing /\ moved' = moved
  BY DEF CdBare
<1>2. /\ vdiratu \in Seq(Parts) /\ Len(vdiratu) \in Nat /\ Len(vdiratu) <= MaxDepth
      /\ vdiratup \in {Unset, Astray} \cup 0 .. Len(vdiratu)
      /\ {wild, missing, moved, odd} \subseteq BOOLEAN
  BY FsFacts
<1>3. PointerAtEnd' /\ CurrentFolderExists'
  BY <1>1 DEF PointerAtEnd, CurrentFolderExists
<1>4. CASE vdiratup = Unset
  <2>1. wild' = TRUE /\ vdiratu' = vdiratu /\ vdiratup' = vdiratup
    BY <1>4 DEF CdBare
  <2>2. vdiratu' \in Paths
    BY <1>2, <2>1 DEF Paths
  <2> QED BY <1>1, <1>2, <1>3, <1>4, <2>1, <2>2, CdKeeps
<1>5. CASE vdiratup # Unset
  <2>1. /\ wild' = wild /\ vdiratup' = Astray
        /\ vdiratu' = IF vdiratup = Astray THEN vdiratu ELSE SubSeq(vdiratu, 1, vdiratup)
    BY <1>5 DEF CdBare
  <2>2. vdiratu' \in Paths
    <3>1. CASE vdiratup = Astray
      BY <1>2, <2>1, <3>1 DEF Paths
    <3>2. CASE vdiratup # Astray
      <4>1. vdiratup \in 0 .. Len(vdiratu)
        BY <1>2, <1>5, <3>2
      <4>2. vdiratu' \in Seq(Parts) /\ Len(vdiratu') = vdiratup
        BY <1>2, <2>1, <3>2, <4>1, Beginning
      <4> QED BY <1>2, <4>1, <4>2, ShellFsAssumption DEF Paths
    <3> QED BY <3>1, <3>2
  <2> QED BY <1>1, <1>2, <1>3, <2>1, <2>2, CdKeeps
<1> QED BY <1>4, <1>5

LEMMA ScatteredType ==
    ASSUME NEW p \in Seq(Parts), NEW arg \in Seq(Parts), NEW q \in Scattered(p, arg)
    PROVE  q \in Seq(Parts) /\ Len(q) \in Nat /\ Len(q) <= Len(p) + Len(arg)
<1> DEFINE begins == {SubSeq(p, 1, k) : k \in 0 .. Len(p)}
<1>1. Len(p) \in Nat /\ Len(arg) \in Nat
  BY LenProperties
<1>2. ASSUME NEW c \in begins
      PROVE  /\ c \in Seq(Parts) /\ Len(c) \in Nat /\ Len(c) <= Len(p)
             /\ c # p => Len(c) < Len(p)
  <2>1. PICK k \in 0 .. Len(p) : c = SubSeq(p, 1, k)
    OBVIOUS
  <2>2. c \in Seq(Parts) /\ Len(c) = k
    BY <2>1, Beginning
  <2>3. k = Len(p) => c = p
    BY <2>1, SubSeqFull
  <2> QED BY <1>1, <2>2, <2>3
<1>3. \/ q \in begins
      \/ \E c \in begins : q = c \o arg
      \/ \E c \in begins \ {p} : \E name \in Names : q = Append(c, name) \o arg
  BY DEF Scattered
<1> HIDE DEF begins
<1>4. CASE q \in begins
  BY <1>1, <1>2, <1>4
<1>5. CASE \E c \in begins : q = c \o arg
  <2>1. PICK c \in begins : q = c \o arg
    BY <1>5
  <2>2. c \in Seq(Parts) /\ Len(c) \in Nat /\ Len(c) <= Len(p)
    BY <1>2
  <2>3. q \in Seq(Parts) /\ Len(q) = Len(c) + Len(arg)
    BY <2>1, <2>2, Appended
  <2> QED BY <1>1, <2>2, <2>3
<1>6. CASE \E c \in begins \ {p} : \E name \in Names : q = Append(c, name) \o arg
  <2>1. PICK c \in begins \ {p}, name \in Names : q = Append(c, name) \o arg
    BY <1>6
  <2>2. c \in Seq(Parts) /\ Len(c) \in Nat /\ Len(c) < Len(p) /\ name \in Parts
    BY <1>2 DEF Parts
  <2>3. Append(c, name) \in Seq(Parts) /\ Len(Append(c, name)) = Len(c) + 1
    BY <2>2, AppendProperties
  <2>4. q \in Seq(Parts) /\ Len(q) = Len(c) + 1 + Len(arg)
    BY <2>1, <2>3, Appended
  <2> QED BY <1>1, <2>2, <2>4
<1> QED BY <1>3, <1>4, <1>5, <1>6

LEMMA AstrayKeeps ==
    ASSUME FsInvariant, NEW arg \in Seq(Parts), Len(arg) \in {1, 2}, CdAstray(arg)
    PROVE  FsInvariant'
<1>1. /\ vdiratup = Astray /\ Len(vdiratu) + 3 * Len(arg) <= MaxDepth
      /\ vdiratu' \in Scattered(Walked(arg), arg)
      /\ vdiratup' \in {Astray} \cup 0 .. Len(vdiratu')
      /\ folders' = folders
      /\ wild' = wild /\ missing' = missing /\ moved' = moved /\ odd' = odd
  BY DEF CdAstray, history
<1>2. /\ vdiratu \in Seq(Parts) /\ Len(vdiratu) \in Nat
      /\ {wild, missing, moved, odd} \subseteq BOOLEAN
      /\ ~odd /\ vdiratup # Unset => vdiratup = Len(vdiratu)
  BY FsFacts
<1>3. odd
  BY <1>1, <1>2 DEF Unset, Astray
<1>4. /\ Walked(arg) \in Seq(Parts) /\ Len(Walked(arg)) \in Nat
      /\ Len(Walked(arg)) <= Len(vdiratu) + 2 * Len(arg)
  BY <1>2, WalkedProperties
<1>5. /\ vdiratu' \in Seq(Parts) /\ Len(vdiratu') \in Nat
      /\ Len(vdiratu') <= Len(Walked(arg)) + Len(arg)
  BY <1>1, <1>4, ScatteredType
<1>6. vdiratu' \in Paths
  BY <1>1, <1>2, <1>4, <1>5, ShellFsAssumption DEF Paths
<1>7. PointerAtEnd' /\ CurrentFolderExists'
  BY <1>1, <1>3 DEF PointerAtEnd, CurrentFolderExists
<1> QED BY <1>1, <1>2, <1>6, <1>7, CdKeeps

(* MD, RM and REN change the card under the current folder.                *)

LEMMA MdKeeps ==
    ASSUME FsInvariant, NEW p \in Seq(Parts), Md(p)
    PROVE  FsInvariant'
<1>1. /\ p # << >> /\ Len(p) <= MaxDepth /\ Exists(Parent(p))
      /\ folders' = folders \cup {p}
      /\ UNCHANGED <<vdiratu, vdiratup, wild, missing, moved, odd>>
  BY DEF Md, history
<1>2. FsTypeOK'
  BY <1>1 DEF FsInvariant, FsTypeOK, Paths
<1>3. Closed'
  BY <1>1 DEF FsInvariant, Closed, Exists
<1>4. (PointerInText /\ PointerAtEnd)'
  BY <1>1 DEF FsInvariant, PointerInText, PointerAtEnd
<1>5. CurrentFolderExists'
  BY <1>1 DEF FsInvariant, CurrentFolderExists, Exists
<1> QED BY <1>2, <1>3, <1>4, <1>5 DEF FsInvariant

LEMMA RmKeeps ==
    ASSUME FsInvariant, NEW p, Rm(p)
    PROVE  FsInvariant'
<1>1. /\ p \in folders /\ \A q \in folders : p # Parent(q)
      /\ folders' = folders \ {p}
      /\ moved' = (moved \/ IsPrefix(p, vdiratu))
      /\ UNCHANGED <<vdiratu, vdiratup, wild, missing, odd>>
  BY DEF Rm
<1>2. IsPrefix(p, p)
  <2>1. p \in Seq(Parts)
    BY <1>1 DEF FsInvariant, FsTypeOK, Paths
  <2> QED BY <2>1, LenProperties DEF IsPrefix
<1>3. FsTypeOK'
  <2>1. moved' \in BOOLEAN
    BY <1>1 DEF FsInvariant, FsTypeOK, IsPrefix
  <2> QED BY <1>1, <2>1 DEF FsInvariant, FsTypeOK
<1>4. Closed'
  BY <1>1 DEF FsInvariant, Closed, Exists
<1>5. (PointerInText /\ PointerAtEnd)'
  BY <1>1 DEF FsInvariant, PointerInText, PointerAtEnd
<1>6. CurrentFolderExists'
  BY <1>1, <1>2 DEF FsInvariant, CurrentFolderExists, Exists
<1> QED BY <1>3, <1>4, <1>5, <1>6 DEF FsInvariant

LEMMA RenKeeps ==
    ASSUME FsInvariant, NEW old, NEW new \in Parts, Ren(old, new)
    PROVE  FsInvariant'
<1>1. /\ old \in folders
      /\ folders' = {Renamed(q, old, new) : q \in folders}
      /\ moved' = (moved \/ IsPrefix(old, vdiratu))
      /\ UNCHANGED <<vdiratu, vdiratup, wild, missing, odd>>
  BY DEF Ren
<1>2. \A q \in folders : q \in Seq(Parts) /\ Len(q) <= MaxDepth /\ q # << >>
  BY DEF FsInvariant, FsTypeOK, Paths
<1>3. old \in Seq(Parts) /\ Len(old) \in Nat \ {0}
  BY <1>1, <1>2, LenProperties, EmptySeq
<1>4. ASSUME NEW q, ~IsPrefix(old, q)
      PROVE  Renamed(q, old, new) = q
  BY <1>4 DEF Renamed
<1>5. ASSUME NEW q \in folders
      PROVE  Renamed(q, old, new) \in Paths \ {<< >>}
  <2>1. CASE IsPrefix(old, q)
    <3>1. /\ Renamed(q, old, new) \in Seq(Parts)
          /\ Len(Renamed(q, old, new)) = 1 + (Len(q) - Len(old))
      BY <1>2, <1>3, <2>1, RenamedProperties
    <3>2. Len(q) \in Nat /\ Len(old) <= Len(q) /\ Len(q) <= MaxDepth
      BY <1>2, <2>1, LenProperties DEF IsPrefix
    <3>3. Len(Renamed(q, old, new)) <= MaxDepth /\ Len(Renamed(q, old, new)) # 0
      BY <1>3, <3>1, <3>2, ShellFsAssumption
    <3> QED BY <3>1, <3>3, EmptySeq DEF Paths
  <2>2. CASE ~IsPrefix(old, q)
    BY <1>2, <1>4, <2>2 DEF Paths
  <2> QED BY <2>1, <2>2
<1>6. FsTypeOK'
  <2>1. folders' \subseteq Paths \ {<< >>}
    BY <1>1, <1>5
  <2>2. moved' \in BOOLEAN
    BY <1>1 DEF FsInvariant, FsTypeOK, IsPrefix
  <2> QED BY <1>1, <2>1, <2>2 DEF FsInvariant, FsTypeOK
<1>7. ASSUME NEW q \in folders
      PROVE  Exists(Parent(Renamed(q, old, new)))'
  <2>1. Parent(q) = << >> \/ Parent(q) \in folders
    BY DEF FsInvariant, Closed, Exists
  <2>2. CASE q = old
    <3>1. IsPrefix(old, q)
      BY <1>3, <2>2 DEF IsPrefix
    <3>2. /\ Renamed(q, old, new) \in Seq(Parts)
          /\ Len(Renamed(q, old, new)) = 1
      <4>1. /\ Renamed(q, old, new) \in Seq(Parts)
            /\ Len(Renamed(q, old, new)) = 1 + (Len(q) - Len(old))
        BY <1>2, <1>3, <3>1, RenamedProperties
      <4>2. 1 + (Len(q) - Len(old)) = 1
        BY <1>3, <2>2
      <4> QED BY <4>1, <4>2
    <3>3. Parent(Renamed(q, old, new)) = << >>
      <4>1. Len(Renamed(q, old, new)) - 1 \in Int /\ Len(Renamed(q, old, new)) - 1 < 1
        BY <3>2
      <4> QED BY <4>1, SubSeqEmpty DEF Parent
    <3> QED BY <3>3 DEF Exists
  <2>3. CASE q # old /\ IsPrefix(old, q)
    <3>1. Parent(Renamed(q, old, new)) = Renamed(Parent(q), old, new)
      BY <1>2, <1>3, <2>3, RenamedParent
    <3>2. IsPrefix(old, Parent(q))
      BY <1>2, <1>3, <2>3, PrefixOfParent
    <3>3. Parent(q) # << >>
      BY <1>3, <3>2, EmptySeq DEF IsPrefix
    <3> QED BY <1>1, <2>1, <3>1, <3>3 DEF Exists
  <2>4. CASE ~IsPrefix(old, q)
    <3>1. q # old
      BY <1>3, <2>4 DEF IsPrefix
    <3>2. ~IsPrefix(old, Parent(q))
      BY <1>2, <1>3, <2>4, <3>1, PrefixOfParent
    <3>3. Renamed(q, old, new) = q /\ Renamed(Parent(q), old, new) = Parent(q)
      BY <1>4, <2>4, <3>2
    <3> QED BY <1>1, <2>1, <3>3 DEF Exists
  <2> QED BY <2>2, <2>3, <2>4
<1>8. Closed'
  BY <1>1, <1>7 DEF Closed
<1>9. (PointerInText /\ PointerAtEnd)'
  BY <1>1 DEF FsInvariant, PointerInText, PointerAtEnd
<1>10. CurrentFolderExists'
  BY <1>1, <1>4 DEF FsInvariant, CurrentFolderExists, Exists
<1> QED BY <1>6, <1>8, <1>9, <1>10 DEF FsInvariant

-----------------------------------------------------------------------------
LEMMA RootIsPath == << >> \in Paths /\ Len(<< >>) = 0
<1>1. << >> \in Seq(Parts) /\ Len(<< >>) = 0
  BY EmptySeq
<1> QED BY <1>1, ShellFsAssumption DEF Paths

(* CD / and a restart.                                                     *)
LEMMA RootKeeps ==
    ASSUME FsInvariant, folders' = folders, vdiratu' = << >>, vdiratup' \in {Unset, 0},
           wild' = FALSE, missing' = FALSE, moved' = FALSE, odd' = FALSE
    PROVE  FsInvariant'
<1>1. FsTypeOK'
  <2>1. vdiratup' \in {Unset, Astray} \cup 0 .. MaxDepth
    BY ShellFsAssumption
  <2> QED BY <2>1, RootIsPath DEF FsInvariant, FsTypeOK
<1>2. Closed' /\ CurrentFolderExists'
  BY DEF FsInvariant, Closed, CurrentFolderExists, Exists
<1>3. (PointerInText /\ PointerAtEnd)'
  BY RootIsPath DEF PointerInText, PointerAtEnd
<1> QED BY <1>1, <1>2, <1>3 DEF FsInvariant

LEMMA InvariantInductive == Spec => []FsInvariant
<1>1. ASSUME FsInit
      PROVE  FsInvariant
  <2>1. FsTypeOK
    BY <1>1, RootIsPath DEF FsInit, FsTypeOK
  <2>2. Closed /\ PointerInText /\ PointerAtEnd /\ CurrentFolderExists
    BY <1>1 DEF FsInit, Closed, PointerInText, PointerAtEnd, CurrentFolderExists, Exists
  <2> QED BY <2>1, <2>2 DEF FsInvariant
<1>2. ASSUME FsInvariant, [Next]_vars
      PROVE  FsInvariant'
  <2>1. CASE CdRoot
    BY <1>2, <2>1, RootKeeps DEF CdRoot, Forgotten
  <2>2. CASE CdBare
    BY <1>2, <2>2, BareKeeps
  <2>3. ASSUME NEW arg \in Seq(Parts), Len(arg) \in {1, 2}, Cd(arg)
        PROVE  FsInvariant'
    BY <1>2, <2>3, UpKeeps, DotKeeps, DownKeeps, AstrayKeeps DEF Cd
  <2>4. CASE \E a \in Parts : Cd(<<a>>) \/ \E b \in Parts : Cd(<<a, b>>)
    <3>1. PICK a \in Parts : Cd(<<a>>) \/ \E b \in Parts : Cd(<<a, b>>)
      BY <2>4
    <3>2. CASE Cd(<<a>>)
      <4>1. <<a>> \in Seq(Parts) /\ Len(<<a>>) \in {1, 2}
        OBVIOUS
      <4> QED BY <2>3, <3>2, <4>1
    <3>3. CASE \E b \in Parts : Cd(<<a, b>>)
      <4>1. PICK b \in Parts : Cd(<<a, b>>)
        BY <3>3
      <4>2. <<a, b>> \in Seq(Parts) /\ Len(<<a, b>>) \in {1, 2}
        OBVIOUS
      <4> QED BY <2>3, <4>1, <4>2
    <3> QED BY <3>1, <3>2, <3>3
  <2>5. ASSUME NEW absolute \in BOOLEAN, NEW a \in Names, NEW p,
               p = PathAndFile(absolute, <<a>>),
               Md(p) \/ Rm(p) \/ \E new \in Names : Ren(p, new)
        PROVE  FsInvariant'
    <3>1. p \in Seq(Parts)
      <4>1. <<a>> \in Seq(Parts) /\ vdiratu \in Seq(Parts)
        BY <1>2 DEF FsInvariant, FsTypeOK, Paths, Parts
      <4>2. vdiratu \o <<a>> \in Seq(Parts)
        BY <4>1, ConcatProperties
      <4> QED BY <2>5, <4>1, <4>2 DEF PathAndFile
    <3>2. \A new \in Names : new \in Parts
      BY DEF Parts
    <3> QED BY <1>2, <2>5, <3>1, <3>2, MdKeeps, RmKeeps, RenKeeps
  <2>6. CASE Restart
    BY <1>2, <2>6, RootKeeps DEF Restart, FsBoot, Forgotten
  <2>7. CASE UNCHANGED fsVars
    BY <1>2, <2>7 DEF fsVars, history, FsInvariant, FsTypeOK, Closed, PointerInText,
                      PointerAtEnd, CurrentFolderExists, Exists
  <2> QED BY <1>2, <2>1, <2>2, <2>3, <2>4, <2>5, <2>6, <2>7 DEF Next, FsNext, vars
<1> QED BY <1>1, <1>2, PTL DEF Spec, Init

(* The variables of the shell that stand for folders keep their types: the *)
(* text of the current folder does not outgrow the bound on its length.    *)
THEOREM TypeCorrect == Spec => []FsTypeOK
<1>1. FsInvariant => FsTypeOK
  BY DEF FsInvariant
<1> QED BY <1>1, InvariantInductive, PTL

(* Text and pointer of the current folder agree, in whatever order CD, the *)
(* other commands and restarts come.                                       *)
THEOREM PointerFollowsText == Spec => []PointerAtEnd
<1>1. FsInvariant => PointerAtEnd
  BY DEF FsInvariant
<1> QED BY <1>1, InvariantInductive, PTL

(* The shell does not leave the card by itself.                            *)
THEOREM ShellStaysOnCard == Spec => []CurrentFolderExists
<1>1. FsInvariant => CurrentFolderExists
  BY DEF FsInvariant
<1> QED BY <1>1, InvariantInductive, PTL

(***************************************************************************)
(* The clock. The invariant: the registers are as ClockValid says; the     *)
(* kernel time is theirs while it is fresh; and what was chosen is what    *)
(* they hold. Up to 2099 the seconds since 1970 do not wrap, and so the    *)
(* loops over years and months give back the date.                         *)
(***************************************************************************)
TimeIsClock == fresh => time \in KernelTimes(reg)

DateField == {"day", "month", "year"}

ChosenIsHeld ==
    /\ \A e, f \in DateField : e \in DOMAIN chosen => f \in DOMAIN chosen
    /\ DOMAIN chosen # {} => fresh
    /\ ~spoiled =>
          \A f \in DOMAIN chosen \ {"second"} : chosen[f] = Bcd2bin(reg[f]) + Century(f)

ClockInvariant == ClockTypeOK /\ ClockValid /\ TimeIsClock /\ ChosenIsHeld

-----------------------------------------------------------------------------
(* How many: what is counted one by one.                                   *)
LEMMA CountFromOne ==
    ASSUME NEW n \in Nat
    PROVE  IsFiniteSet(1 .. n) /\ Cardinality(1 .. n) = n
<1>1. 1 \in Int /\ n \in Int
  OBVIOUS
<1>2. IsFiniteSet(1 .. n) /\ Cardinality(1 .. n) = IF 1 > n THEN 0 ELSE n - 1 + 1
  BY <1>1, FS_Interval, Zenon
<1> QED BY <1>2

Row(x, n) == {x} \X (1 .. n)

LEMMA CountRow ==
    ASSUME NEW x, NEW n \in Nat
    PROVE  IsFiniteSet(Row(x, n)) /\ Cardinality(Row(x, n)) = n
<1>1. IsFiniteSet(1 .. n) /\ Cardinality(1 .. n) = n
  BY CountFromOne
<1>2. IsFiniteSet({x}) /\ Cardinality({x}) = 1
  BY FS_Singleton
<1>3. Cardinality({x} \X (1 .. n)) = Cardinality({x}) * Cardinality(1 .. n)
  BY <1>1, <1>2, FS_Product, Zenon
<1>4. IsFiniteSet({x} \X (1 .. n))
  BY <1>1, <1>2, FS_Product, Zenon
<1> QED BY <1>1, <1>2, <1>3, <1>4 DEF Row

LEMMA CountBoth ==
    ASSUME NEW S, IsFiniteSet(S), NEW T, IsFiniteSet(T), S \cap T = {}
    PROVE  Cardinality(S \cup T) = Cardinality(S) + Cardinality(T)
<1>1. Cardinality(S \cup T) = Cardinality(S) + Cardinality(T) - Cardinality(S \cap T)
  BY FS_Union, Zenon
<1>2. Cardinality(S \cap T) = 0
  BY FS_EmptySet
<1>3. Cardinality(S) \in Nat /\ Cardinality(T) \in Nat
  BY FS_CardinalityType
<1> QED BY <1>1, <1>2, <1>3

LeapYears(y) == {n \in 1970 .. y - 1 : IsLeapYear(n)}

LEMMA LeapYearsFinite ==
    \A y \in Int : IsFiniteSet(LeapYears(y)) /\ Cardinality(LeapYears(y)) \in Nat
<1>1. ASSUME NEW y \in Int
      PROVE  IsFiniteSet(LeapYears(y)) /\ Cardinality(LeapYears(y)) \in Nat
  <2>1. IsFiniteSet(1970 .. y - 1)
    BY FS_Interval
  <2>2. LeapYears(y) \in SUBSET (1970 .. y - 1)
    BY DEF LeapYears
  <2> QED BY <2>1, <2>2, FS_Subset, FS_CardinalityType
<1> QED BY <1>1

(* A year has 365 days, or 366.                                            *)
LEMMA YearLength ==
    ASSUME NEW y \in 1970 .. LastYear - 1
    PROVE  /\ DaysBeforeYear[y] \in Nat
           /\ DaysBeforeYear[y + 1] = DaysBeforeYear[y] + (IF IsLeapYear(y) THEN 366 ELSE 365)
<1>1. /\ DaysBeforeYear[y] = 365 * (y - 1970) + Cardinality(LeapYears(y))
      /\ DaysBeforeYear[y + 1] = 365 * (y - 1969) + Cardinality(LeapYears(y + 1))
  BY DEF DaysBeforeYear, LastYear, LeapYears
<1>2. IsFiniteSet(LeapYears(y)) /\ Cardinality(LeapYears(y)) \in Nat
  BY LeapYearsFinite DEF LastYear
<1>3. y \notin LeapYears(y)
  BY DEF LeapYears, LastYear
<1>4. CASE IsLeapYear(y)
  <2>1. LeapYears(y + 1) = LeapYears(y) \cup {y}
    BY <1>4 DEF LeapYears, LastYear
  <2>2. Cardinality(LeapYears(y + 1)) = Cardinality(LeapYears(y)) + 1
    BY <1>2, <1>3, <2>1, FS_AddElement
  <2> QED BY <1>1, <1>2, <1>4, <2>2 DEF LastYear
<1>5. CASE ~IsLeapYear(y)
  <2>1. LeapYears(y + 1) = LeapYears(y)
    BY <1>5 DEF LeapYears, LastYear
  <2> QED BY <1>1, <1>2, <1>5, <2>1 DEF LastYear
<1> QED BY <1>4, <1>5

(* An earlier year ends before a later one begins.                         *)
LEMMA YearOrder ==
    ASSUME NEW y \in 1970 .. LastYear, NEW z \in 1970 .. LastYear, y < z
    PROVE  DaysBeforeYear[y + 1] <= DaysBeforeYear[z]
<1>1. /\ DaysBeforeYear[z] = 365 * (z - 1970) + Cardinality(LeapYears(z))
      /\ DaysBeforeYear[y + 1] = 365 * (y - 1969) + Cardinality(LeapYears(y + 1))
  BY DEF DaysBeforeYear, LastYear, LeapYears
<1>2. LeapYears(y + 1) \in SUBSET LeapYears(z)
  BY DEF LeapYears, LastYear
<1>3. /\ IsFiniteSet(LeapYears(z)) /\ Cardinality(LeapYears(z)) \in Nat
      /\ Cardinality(LeapYears(y + 1)) \in Nat
  BY LeapYearsFinite DEF LastYear
<1>4. Cardinality(LeapYears(y + 1)) <= Cardinality(LeapYears(z))
  BY <1>2, <1>3, FS_Subset
<1> QED BY <1>1, <1>3, <1>4 DEF LastYear

LEMMA YearBounds ==
    ASSUME NEW y \in 1970 .. LastYear
    PROVE  DaysBeforeYear[y] \in 365 * (y - 1970) .. 366 * (y - 1970)
<1>1. DaysBeforeYear[y] = 365 * (y - 1970) + Cardinality(LeapYears(y))
  BY DEF DaysBeforeYear, LeapYears
<1>2. LeapYears(y) \in SUBSET (1970 .. y - 1)
  BY DEF LeapYears
<1>3. IsFiniteSet(1970 .. y - 1) /\ Cardinality(1970 .. y - 1) = y - 1970
  BY FS_Interval DEF LastYear
<1>4. Cardinality(LeapYears(y)) <= y - 1970
  BY <1>2, <1>3, LeapYearsFinite, FS_Subset DEF LastYear
<1>5. y - 1970 \in Nat
  BY DEF LastYear
<1>6. Cardinality(LeapYears(y)) \in Nat
  BY LeapYearsFinite DEF LastYear
<1> QED BY <1>1, <1>4, <1>5, <1>6 DEF LastYear

(* The same of the months of a year.                                       *)
DaysOf(m, y) == {d \in (0 .. m - 1) \X (1 .. 31) : d[2] <= DaysOfMonth(d[1], y)}

LEMMA DaysOfMonthType == \A m \in Int, y \in Int : DaysOfMonth(m, y) \in 28 .. 31
  BY DEF DaysOfMonth

LEMMA DaysOfFinite ==
    \A m \in Int : \A y : IsFiniteSet(DaysOf(m, y)) /\ Cardinality(DaysOf(m, y)) \in Nat
<1>1. ASSUME NEW m \in Int, NEW y
      PROVE  IsFiniteSet(DaysOf(m, y)) /\ Cardinality(DaysOf(m, y)) \in Nat
  <2>1. IsFiniteSet(0 .. m - 1)
    BY FS_Interval
  <2>2. IsFiniteSet(1 .. 31)
    BY CountFromOne
  <2>3. IsFiniteSet((0 .. m - 1) \X (1 .. 31))
    BY <2>1, <2>2, FS_Product
  <2>4. DaysOf(m, y) \in SUBSET ((0 .. m - 1) \X (1 .. 31))
    BY DEF DaysOf
  <2> QED BY <2>3, <2>4, FS_Subset, FS_CardinalityType
<1> QED BY <1>1

LEMMA MonthLength ==
    ASSUME NEW m \in 0 .. 11, NEW y \in 1970 .. LastYear
    PROVE  /\ DaysBeforeMonth[y][m] \in Nat
           /\ DaysBeforeMonth[y][m + 1] = DaysBeforeMonth[y][m] + DaysOfMonth(m, y)
<1> DEFINE last == Row(m, DaysOfMonth(m, y))
<1>1. /\ DaysBeforeMonth[y][m] = Cardinality(DaysOf(m, y))
      /\ DaysBeforeMonth[y][m + 1] = Cardinality(DaysOf(m + 1, y))
  BY DEF DaysBeforeMonth, DaysOf
<1>2. DaysOfMonth(m, y) \in 28 .. 31
  BY DaysOfMonthType DEF LastYear
<1>3. /\ IsFiniteSet(DaysOf(m, y)) /\ Cardinality(DaysOf(m, y)) \in Nat
  BY DaysOfFinite
<1>4. IsFiniteSet(last) /\ Cardinality(last) = DaysOfMonth(m, y)
  <2>1. DaysOfMonth(m, y) \in Nat
    BY <1>2
  <2> QED BY <2>1, CountRow
<1>5. DaysOf(m + 1, y) = DaysOf(m, y) \cup last
  <2>1. \A d \in DaysOf(m + 1, y) : d \in DaysOf(m, y) \cup last
    BY <1>2 DEF DaysOf, Row
  <2>2. \A d \in DaysOf(m, y) : d \in DaysOf(m + 1, y)
    BY DEF DaysOf
  <2>3. \A d \in last : d \in DaysOf(m + 1, y)
    BY <1>2 DEF DaysOf, Row
  <2> QED BY <2>1, <2>2, <2>3
<1>6. DaysOf(m, y) \cap last = {}
  BY DEF DaysOf, Row
<1> HIDE DEF last
<1>7. Cardinality(DaysOf(m + 1, y)) = Cardinality(DaysOf(m, y)) + DaysOfMonth(m, y)
  BY <1>3, <1>4, <1>5, <1>6, CountBoth
<1> QED BY <1>1, <1>3, <1>7

LEMMA MonthOrder ==
    ASSUME NEW m \in 0 .. 11, NEW n \in 0 .. 12, m < n, NEW y \in 1970 .. LastYear
    PROVE  DaysBeforeMonth[y][m + 1] <= DaysBeforeMonth[y][n]
<1>1. /\ DaysBeforeMonth[y][n] = Cardinality(DaysOf(n, y))
      /\ DaysBeforeMonth[y][m + 1] = Cardinality(DaysOf(m + 1, y))
  BY DEF DaysBeforeMonth, DaysOf
<1>2. DaysOf(m + 1, y) \in SUBSET DaysOf(n, y)
  BY DEF DaysOf
<1> QED BY <1>1, <1>2, DaysOfFinite, FS_Subset

LEMMA YearOfMonths ==
    ASSUME NEW y \in 1970 .. LastYear
    PROVE  /\ DaysBeforeMonth[y][0] = 0
           /\ DaysBeforeMonth[y][12] = IF IsLeapYear(y) THEN 366 ELSE 365
<1>1. DaysBeforeMonth[y][0] = 0
  <2>1. DaysOf(0, y) = {}
    BY DEF DaysOf
  <2> QED BY <2>1, FS_EmptySet DEF DaysBeforeMonth, DaysOf
<1>2. \A m \in 0 .. 11 : DaysBeforeMonth[y][m + 1] = DaysBeforeMonth[y][m] + DaysOfMonth(m, y)
  BY MonthLength
<1>3. DaysBeforeMonth[y][1] = 31
  BY <1>1, <1>2 DEF DaysOfMonth
<1>4. DaysBeforeMonth[y][2] = 31 + (IF IsLeapYear(y) THEN 29 ELSE 28)
  <2>1. DaysBeforeMonth[y][1 + 1] = DaysBeforeMonth[y][1] + DaysOfMonth(1, y)
    BY <1>2
  <2> QED BY <1>3, <2>1 DEF DaysOfMonth
<1> DEFINE f == IF IsLeapYear(y) THEN 60 ELSE 59
<1>5. DaysBeforeMonth[y][2] = f
  BY <1>4
<1>f. f \in Nat
  OBVIOUS
<1> HIDE DEF f
<1>6. DaysBeforeMonth[y][2 + 1] = DaysBeforeMonth[y][2] + 31
  BY <1>2 DEF DaysOfMonth
<1>7. DaysBeforeMonth[y][3 + 1] = DaysBeforeMonth[y][3] + 30
  BY <1>2 DEF DaysOfMonth
<1>8. DaysBeforeMonth[y][4 + 1] = DaysBeforeMonth[y][4] + 31
  BY <1>2 DEF DaysOfMonth
<1>9. DaysBeforeMonth[y][5 + 1] = DaysBeforeMonth[y][5] + 30
  BY <1>2 DEF DaysOfMonth
<1>10. DaysBeforeMonth[y][6 + 1] = DaysBeforeMonth[y][6] + 31
  BY <1>2 DEF DaysOfMonth
<1>11. DaysBeforeMonth[y][7 + 1] = DaysBeforeMonth[y][7] + 31
  BY <1>2 DEF DaysOfMonth
<1>12. DaysBeforeMonth[y][8 + 1] = DaysBeforeMonth[y][8] + 30
  BY <1>2 DEF DaysOfMonth
<1>13. DaysBeforeMonth[y][9 + 1] = DaysBeforeMonth[y][9] + 31
  BY <1>2 DEF DaysOfMonth
<1>14. DaysBeforeMonth[y][10 + 1] = DaysBeforeMonth[y][10] + 30
  BY <1>2 DEF DaysOfMonth
<1>15. DaysBeforeMonth[y][11 + 1] = DaysBeforeMonth[y][11] + 31
  BY <1>2 DEF DaysOfMonth
<1>16. DaysBeforeMonth[y][12] = f + 306
  BY <1>5, <1>f, <1>6, <1>7, <1>8, <1>9, <1>10, <1>11, <1>12, <1>13, <1>14, <1>15
<1> QED BY <1>1, <1>16 DEF f

-----------------------------------------------------------------------------
(* There and back: seconds since 1970, and a date again.                   *)
LEMMA ClockConstants ==
    /\ LastYear = 2165 /\ LastDay = 49710 /\ SecondsOfDay = 86400
    /\ \A m : m \in Months <=> m \in Int /\ 0 <= m /\ m < 12
BY DEF LastYear, LastDay, SecondsOfDay, Months

LEMMA NotWrapped ==
    ASSUME NEW d \in Int, d < LastDay, NEW s \in Int, 0 <= s, s < SecondsOfDay
    PROVE  Wrapped(d, s) = <<d, s>>
<1>1. s \div SecondsOfDay = 0 /\ s % SecondsOfDay = s
  BY DEF SecondsOfDay
<1>2. d + 0 = d
  OBVIOUS
<1> QED BY <1>1, <1>2 DEF Wrapped

LEMMA WrappedType ==
    ASSUME NEW d \in Nat, d <= 90000, NEW s \in Nat, s <= 700000
    PROVE  /\ Wrapped(d, s)[1] \in 0 .. LastDay
           /\ Wrapped(d, s)[2] \in 0 .. SecondsOfDay - 1
<1>1. /\ s \div SecondsOfDay \in Nat /\ s \div SecondsOfDay <= 10
      /\ s % SecondsOfDay \in Nat /\ s % SecondsOfDay < SecondsOfDay
  BY DEF SecondsOfDay
<1>2. PICK e \in Nat, q \in Nat :
        /\ e = d + s \div SecondsOfDay /\ e <= 90010
        /\ q = s % SecondsOfDay /\ q < SecondsOfDay
  BY <1>1
<1>3. Wrapped(d, s) =
        IF e < LastDay \/ (e = LastDay /\ q < 23296) THEN <<e, q>>
        ELSE IF q < 23296 THEN <<e - LastDay - 1, q + SecondsOfDay - 23296>>
        ELSE <<e - LastDay, q - 23296>>
  <2>1. d + s \div SecondsOfDay = e /\ s % SecondsOfDay = q
    BY <1>2
  <2> QED BY <2>1 DEF Wrapped
<1>4. LastDay = 49710 /\ SecondsOfDay = 86400
  BY ClockConstants
<1>a. LastDay \in Int /\ SecondsOfDay \in Int
  BY <1>4
<1>5. CASE e < LastDay \/ (e = LastDay /\ q < 23296)
  <2>1. Wrapped(d, s) = <<e, q>>
    BY <1>3, <1>5
  <2>2. Wrapped(d, s)[1] = e /\ Wrapped(d, s)[2] = q
    BY <2>1
  <2>3. /\ e \in Nat /\ e <= LastDay
        /\ q \in Nat /\ q <= SecondsOfDay - 1
    BY <1>2, <1>4, <1>5
  <2> QED BY <1>a, <2>2, <2>3
<1>6. CASE ~(e < LastDay \/ (e = LastDay /\ q < 23296)) /\ q < 23296
  <2>1. Wrapped(d, s) = <<e - LastDay - 1, q + SecondsOfDay - 23296>>
    BY <1>3, <1>6
  <2>2. Wrapped(d, s)[1] = e - LastDay - 1 /\ Wrapped(d, s)[2] = q + SecondsOfDay - 23296
    BY <2>1
  <2>3. /\ e - LastDay - 1 \in Nat /\ e - LastDay - 1 <= LastDay
        /\ q + SecondsOfDay - 23296 \in Nat /\ q + SecondsOfDay - 23296 <= SecondsOfDay - 1
    BY <1>2, <1>4, <1>6
  <2> QED BY <1>a, <2>2, <2>3
<1>7. CASE ~(e < LastDay \/ (e = LastDay /\ q < 23296)) /\ ~(q < 23296)
  <2>1. Wrapped(d, s) = <<e - LastDay, q - 23296>>
    BY <1>3, <1>7
  <2>2. Wrapped(d, s)[1] = e - LastDay /\ Wrapped(d, s)[2] = q - 23296
    BY <2>1
  <2>3. /\ e - LastDay \in Nat /\ e - LastDay <= LastDay
        /\ q - 23296 \in Nat /\ q - 23296 <= SecondsOfDay - 1
    BY <1>2, <1>4, <1>7
  <2> QED BY <1>a, <2>2, <2>3
<1> QED BY <1>5, <1>6, <1>7

(* The year of a day is the one it falls into,                             *)
LEMMA YearOfDay ==
    ASSUME NEW y \in 1970 .. LastYear - 1, NEW d \in Int,
           DaysBeforeYear[y] <= d, d < DaysBeforeYear[y + 1]
    PROVE  YearOf(d) = y
<1> DEFINE P(n) == DaysBeforeYear[n] <= d /\ d < DaysBeforeYear[n + 1]
           c == CHOOSE n \in 1970 .. LastYear - 1 : P(n)
<1>1. c \in 1970 .. LastYear - 1 /\ P(c)
  <2>1. \E n \in 1970 .. LastYear - 1 : P(n)
    OBVIOUS
  <2> HIDE DEF P
  <2> QED BY <2>1
<1>9. YearOf(d) = c
  BY DEF YearOf
<1> HIDE DEF c
<1>2. LastYear \in Int
  BY ClockConstants
<1>3. ASSUME NEW n \in 1970 .. LastYear PROVE DaysBeforeYear[n] \in Int
  <2>1. DaysBeforeYear[n] \in 365 * (n - 1970) .. 366 * (n - 1970)
    BY YearBounds
  <2> QED BY <2>1
<1>4. /\ y \in 1970 .. LastYear /\ y + 1 \in 1970 .. LastYear
      /\ c \in 1970 .. LastYear /\ c + 1 \in 1970 .. LastYear
  BY <1>1, <1>2
<1>5. /\ DaysBeforeYear[y] \in Int /\ DaysBeforeYear[y + 1] \in Int
      /\ DaysBeforeYear[c] \in Int /\ DaysBeforeYear[c + 1] \in Int
  BY <1>3, <1>4
<1>6. c < y => DaysBeforeYear[c + 1] <= DaysBeforeYear[y]
  BY <1>4, YearOrder
<1>7. y < c => DaysBeforeYear[y + 1] <= DaysBeforeYear[c]
  BY <1>4, YearOrder
<1>8. c = y
  BY <1>1, <1>4, <1>5, <1>6, <1>7
<1> QED BY <1>8, <1>9

(* and so is its month.                                                    *)
LEMMA MonthLengths ==
    ASSUME NEW y \in 1970 .. LastYear, NEW m \in Months
    PROVE  /\ DaysBeforeMonth[y][m] \in Nat
           /\ DaysBeforeMonth[y][m + 1] = DaysBeforeMonth[y][m] + DaysOfMonth(m, y)
           /\ DaysOfMonth(m, y) \in Nat /\ 28 <= DaysOfMonth(m, y) /\ DaysOfMonth(m, y) <= 31
<1>1. m \in 0 .. 11 /\ m \in Int /\ y \in Int
  BY DEF Months
<1>2. DaysOfMonth(m, y) \in 28 .. 31
  BY <1>1, DaysOfMonthType
<1> QED BY <1>1, <1>2, MonthLength

LEMMA MonthOfDay ==
    ASSUME NEW y \in 1970 .. LastYear, NEW m \in Months, NEW d \in Int,
           DaysBeforeMonth[y][m] <= d, d < DaysBeforeMonth[y][m] + DaysOfMonth(m, y)
    PROVE  MonthOf(d, y) = m
<1> DEFINE P(n) == DaysBeforeMonth[y][n] <= d /\ d < DaysBeforeMonth[y][n] + DaysOfMonth(n, y)
           c == CHOOSE n \in Months : P(n)
<1>1. c \in Months /\ P(c)
  <2>1. \E n \in Months : P(n)
    OBVIOUS
  <2> HIDE DEF P
  <2> QED BY <2>1
<1>7. MonthOf(d, y) = c
  BY DEF MonthOf
<1> HIDE DEF c
<1>2. m \in Int /\ c \in Int /\ m \in 0 .. 11 /\ c \in 0 .. 11
  BY <1>1 DEF Months
<1>3. /\ DaysBeforeMonth[y][m] \in Nat /\ DaysBeforeMonth[y][c] \in Nat
      /\ DaysBeforeMonth[y][m + 1] = DaysBeforeMonth[y][m] + DaysOfMonth(m, y)
      /\ DaysBeforeMonth[y][c + 1] = DaysBeforeMonth[y][c] + DaysOfMonth(c, y)
      /\ DaysOfMonth(m, y) \in Nat /\ DaysOfMonth(c, y) \in Nat
  BY <1>1, MonthLengths
<1>4. c < m => DaysBeforeMonth[y][c + 1] <= DaysBeforeMonth[y][m]
  BY <1>2, MonthOrder
<1>5. m < c => DaysBeforeMonth[y][m + 1] <= DaysBeforeMonth[y][c]
  BY <1>2, MonthOrder
<1>6. c = m
  <2> HIDE DEF Months
  <2>1. DaysBeforeMonth[y][c] <= d /\ d < DaysBeforeMonth[y][c + 1] /\ d < DaysBeforeMonth[y][m + 1]
    BY <1>1, <1>3
  <2> QED BY <1>2, <1>3, <1>4, <1>5, <2>1
<1> QED BY <1>6, <1>7

(* A date that exists, and a time, come back from the seconds since 1970.  *)
LEMMA ShownDate ==
    ASSUME NEW y \in 1970 .. LastYear - 1, NEW m \in Months, NEW d \in 1 .. DaysOfMonth(m, y),
           NEW s
    PROVE  Shown(<<DaysBeforeYear[y] + DaysBeforeMonth[y][m] + d - 1, s>>) =
               [day |-> d, month |-> m + 1, year |-> y,
                hour |-> s \div 3600, minute |-> (s \div 60) % 60]
<1> DEFINE whole == IF IsLeapYear(y) THEN 366 ELSE 365
<1>1. PICK t : t = DaysBeforeYear[y] + DaysBeforeMonth[y][m] + d - 1
  OBVIOUS
<1>2. y \in 1970 .. LastYear /\ y \in Int /\ LastYear \in Int
  BY ClockConstants
<1>3. /\ DaysBeforeYear[y] \in Nat /\ whole \in Nat
      /\ DaysBeforeYear[y + 1] = DaysBeforeYear[y] + whole
  BY YearLength
<1>4. /\ DaysBeforeMonth[y][m] \in Nat
      /\ DaysBeforeMonth[y][m + 1] = DaysBeforeMonth[y][m] + DaysOfMonth(m, y)
      /\ DaysOfMonth(m, y) \in Nat
  BY <1>2, MonthLengths
<1>5. m \in Int /\ 0 <= m /\ m < 12
  BY ClockConstants
<1>6. DaysBeforeMonth[y][12] = whole
  BY <1>2, YearOfMonths
<1> HIDE DEF whole
<1>7. DaysBeforeMonth[y][m + 1] <= whole
  <2>1. CASE m = 11
    BY <1>3, <1>6, <2>1
  <2>2. CASE m # 11
    <3>1. PICK n \in Int : n = m + 1 /\ 0 <= n /\ n < 12
      BY <1>5, <2>2
    <3>2. n \in Months /\ n \in 0 .. 11 /\ 12 \in 0 .. 12 /\ n < 12
      BY <3>1 DEF Months
    <3>3. DaysBeforeMonth[y][n + 1] <= DaysBeforeMonth[y][12]
      BY <1>2, <3>2, MonthOrder
    <3>4. /\ DaysBeforeMonth[y][n] \in Nat
          /\ DaysBeforeMonth[y][n + 1] = DaysBeforeMonth[y][n] + DaysOfMonth(n, y)
          /\ DaysOfMonth(n, y) \in Nat
      BY <1>2, <3>2, MonthLengths
    <3> QED BY <1>3, <1>6, <3>1, <3>3, <3>4
  <2> QED BY <2>1, <2>2
<1>8. d \in Int /\ 1 <= d /\ d <= DaysOfMonth(m, y)
  BY <1>4
<1>9. t \in Int /\ DaysBeforeYear[y] <= t /\ t < DaysBeforeYear[y + 1]
  BY <1>1, <1>3, <1>4, <1>7, <1>8
<1>10. YearOf(t) = y
  BY <1>9, YearOfDay
<1>11. PICK e : e = t - DaysBeforeYear[y]
  OBVIOUS
<1>12. /\ e \in Int /\ DaysBeforeMonth[y][m] <= e
       /\ e < DaysBeforeMonth[y][m] + DaysOfMonth(m, y)
       /\ e - DaysBeforeMonth[y][m] + 1 = d
  BY <1>1, <1>3, <1>4, <1>8, <1>11
<1>13. MonthOf(e, y) = m
  BY <1>2, <1>12, MonthOfDay
<1>14. Shown(<<t, s>>) =
          [day |-> e - DaysBeforeMonth[y][m] + 1, month |-> m + 1, year |-> y,
           hour |-> s \div 3600, minute |-> (s \div 60) % 60]
  <2>1. <<t, s>>[1] = t /\ <<t, s>>[2] = s
    OBVIOUS
  <2> QED BY <1>10, <1>11, <1>13, <2>1 DEF Shown
<1> QED BY <1>1, <1>12, <1>14

-----------------------------------------------------------------------------
LEMMA OverFields ==
    ASSUME NEW g, NEW r, DOMAIN r = Field, DOMAIN g \subseteq Field
    PROVE  /\ DOMAIN Over(g, r) = Field
           /\ \A f \in Field : Over(g, r)[f] = IF f \in DOMAIN g THEN g[f] ELSE r[f]
BY DEF Over

(* Two digits to a byte, there and back.                                   *)
LEMMA DigitsBack ==
    \A b \in Int : 0 <= b /\ b <= 99 =>
        Bcd2bin(Bin2bcd(b)) = b /\ Bin2bcd(b) % 16 <= 9
BY DEF Bin2bcd, Bcd2bin

LEMMA DigitsByte == \A b \in Int : Bin2bcd(b) \in Byte
BY DEF Bin2bcd, Byte

LEMMA OneDigit == \A v \in Byte : v <= 9 => Bin2bcd(v) = v
BY DEF Bin2bcd, Byte

LEMMA NumberOfByte == \A v \in Byte : Bcd2bin(v) \in Nat /\ Bcd2bin(v) <= 165
BY DEF Bcd2bin, Byte

(* The window shows two digits as they are, and what no digits are as some *)
(* number.                                                                 *)
LEMMA DigitsShown ==
    ASSUME NEW v \in Byte
    PROVE  /\ Digits(v) \in Nat /\ YearDigits(v) \in Nat
           /\ v % 16 <= 9 /\ Bcd2bin(v) <= 99 =>
                 Digits(v) = Bcd2bin(v) /\ YearDigits(v) = 2000 + Bcd2bin(v)
BY DEF Digits, YearDigits, Bcd2bin, Byte

LEMMA OffsetOfCentury ==
    \A y \in Int : Offset(y) \in Int /\ (2000 <= y /\ y <= 2099 => Offset(y) = y - 2000)
BY DEF Offset

LEMMA ValidIsTwoDigits == \A f \in Field : \A b \in Valid(f) : b \in Int /\ 0 <= b /\ b <= 99
BY DEF Field, Valid

LEMMA ValidZero == 0 \in Valid("second")
BY DEF Valid
LEMMA ValidYear == \A b \in Int : 0 <= b /\ b <= 99 => b \in Valid("year")
BY DEF Valid

-----------------------------------------------------------------------------
(* What the user gives: nothing, a date, a time, or both, in any numbers.  *)
Given(g) ==
    /\ DOMAIN g \subseteq Field
    /\ \A e, f \in DateField : e \in DOMAIN g => f \in DOMAIN g
    /\ \A f \in DOMAIN g : g[f] \in Int

LEMMA JunkBytes == Junk \subseteq Byte
BY RtcTimeAssumption

LEMMA GivenNothing == Given(Nothing) /\ DOMAIN Nothing = {}
BY DEF Given, Nothing, DateField

LEMMA GivenDate ==
    ASSUME NEW d \in Byte \X Byte \X Int
    PROVE  Given(DateFields(d)) /\ DOMAIN DateFields(d) = {"day", "month", "year"}
<1>1. d[1] \in Int /\ d[2] \in Int /\ d[3] \in Int
  BY DEF Byte
<1> QED BY <1>1 DEF Given, DateFields, DateField, Field

LEMMA DatesAreNumbers ==
    /\ \A d \in Dates \cup ShortDates : d \in Byte \X Byte \X Int
    /\ <<0, 0, 0>> \in Byte \X Byte \X Int
BY RtcTimeAssumption DEF Byte

LEMMA GivenTime ==
    ASSUME NEW t \in Times
    PROVE  Given(TimeFields(t)) /\ DOMAIN TimeFields(t) = {"hour", "minute", "second"}
<1>1. t[1] \in Int /\ t[2] \in Int /\ t[3] \in Int
  BY RtcTimeAssumption DEF Byte
<1> QED BY <1>1 DEF Given, TimeFields, DateField, Field

LEMMA GivenBoth ==
    ASSUME NEW d \in Byte \X Byte \X Int, NEW t \in Times
    PROVE  /\ Given(Over(DateFields(d), TimeFields(t)))
           /\ Given(Over(TimeFields(t), DateFields(d)))
<1> DEFINE g == DateFields(d)
           h == TimeFields(t)
<1>1. /\ Given(g) /\ DOMAIN g = {"day", "month", "year"}
      /\ Given(h) /\ DOMAIN h = {"hour", "minute", "second"}
  BY GivenDate, GivenTime
<1> HIDE DEF g, h
<1>2. Given(Over(g, h)) /\ Given(Over(h, g))
  BY <1>1 DEF Given, DateField, Over
<1> QED BY <1>2 DEF g, h

-----------------------------------------------------------------------------
(* The kernel time of the registers.                                       *)
LEMMA YearInRange ==
    ASSUME NEW y \in Int, 2000 <= y, y <= LastYear
    PROVE  /\ y \in 1970 .. LastYear /\ DaysBeforeYear[y] \in Nat
           /\ 365 * (y - 1970) <= DaysBeforeYear[y] /\ DaysBeforeYear[y] <= 366 * (y - 1970)
<1>1. LastYear \in Int
  BY ClockConstants
<1>2. y \in 1970 .. LastYear
  BY <1>1
<1>3. DaysBeforeYear[y] \in 365 * (y - 1970) .. 366 * (y - 1970)
  BY <1>2, YearBounds
<1> QED BY <1>2, <1>3

LEMMA MonthInRange ==
    ASSUME NEW y \in 1970 .. LastYear, NEW m \in Int, 1 <= m, m <= 12
    PROVE  /\ m - 1 \in Months
           /\ DaysBeforeMonth[y][m - 1] \in Nat /\ DaysBeforeMonth[y][m - 1] <= 366
<1>1. PICK n \in Int : n = m - 1 /\ 0 <= n /\ n < 12
  OBVIOUS
<1>2. n \in Months /\ n \in 0 .. 11 /\ 12 \in 0 .. 12 /\ n < 12
  BY <1>1 DEF Months
<1>3. /\ DaysBeforeMonth[y][n] \in Nat
      /\ DaysBeforeMonth[y][n + 1] = DaysBeforeMonth[y][n] + DaysOfMonth(n, y)
      /\ DaysOfMonth(n, y) \in Nat
  BY <1>2, MonthLengths
<1>4. DaysBeforeMonth[y][n + 1] <= DaysBeforeMonth[y][12] \/ n + 1 = 12
  BY <1>2, MonthOrder
<1>5. DaysBeforeMonth[y][12] \in Nat /\ DaysBeforeMonth[y][12] <= 366
  BY YearOfMonths
<1> QED BY <1>1, <1>2, <1>3, <1>4, <1>5

LEMMA KernelTimesType ==
    ASSUME NEW r \in [Field -> Byte], NEW t \in KernelTimes(r)
    PROVE  t[1] \in 0 .. LastDay /\ t[2] \in 0 .. SecondsOfDay - 1
<1>1. \A f \in Field : Bcd2bin(r[f]) \in Nat /\ Bcd2bin(r[f]) <= 165
  BY NumberOfByte
<1>2. CASE Bcd2bin(r.month) \in 1 .. 13
  <2>1. PICK y \in Int, m \in Int, d \in Int :
          y = Bcd2bin(r["year"]) + 2000 /\ m = Bcd2bin(r["month"]) /\ d = Bcd2bin(r["day"])
    BY <1>1 DEF Field
  <2>2. PICK s \in Int :
          s = (Bcd2bin(r["hour"]) * 60 + Bcd2bin(r["minute"])) * 60 + Bcd2bin(r["second"])
    BY <1>1 DEF Field
  <2>3. t = Wrapped(DaysBeforeYear[y] + DaysBeforeMonth[y][m - 1] + d - 1, s)
    <3>1. t = KernelTime(r)
      BY <1>2 DEF KernelTimes
    <3> QED BY <2>1, <2>2, <3>1 DEF KernelTime, MonthsBefore, Field
  <2>4. /\ 2000 <= y /\ y <= 2165 /\ 1 <= m /\ m <= 13 /\ 0 <= d /\ d <= 165
        /\ 0 <= s /\ s <= 700000
    BY <1>1, <1>2, <2>1, <2>2 DEF Field
  <2>5. /\ y \in 1970 .. LastYear /\ DaysBeforeYear[y] \in Nat
        /\ 365 * (y - 1970) <= DaysBeforeYear[y] /\ DaysBeforeYear[y] <= 366 * (y - 1970)
    BY <2>4, YearInRange, ClockConstants
  <2>6. DaysBeforeMonth[y][m - 1] \in Nat /\ DaysBeforeMonth[y][m - 1] <= 366
    <3>1. CASE m = 13
      <4>1. m - 1 = 12 /\ DaysBeforeMonth[y][12] \in Nat /\ DaysBeforeMonth[y][12] <= 366
        BY <2>5, <3>1, YearOfMonths
      <4> QED BY <4>1
    <3>2. CASE m # 13
      BY <2>4, <2>5, <3>2, MonthInRange
    <3> QED BY <3>1, <3>2
  <2>7. PICK e \in Nat :
          e = DaysBeforeYear[y] + DaysBeforeMonth[y][m - 1] + d - 1 /\ e <= 90000
    BY <2>4, <2>5, <2>6
  <2>8. t = Wrapped(e, s)
    BY <2>3, <2>7
  <2>9. s \in Nat
    BY <2>4
  <2> QED BY <2>4, <2>7, <2>8, <2>9, WrappedType
<1>3. CASE ~(Bcd2bin(r.month) \in 1 .. 13)
  <2>1. PICK j \in Byte : t = <<j, 0>>
    BY <1>3, JunkBytes DEF KernelTimes
  <2>2. j \in Nat /\ j <= 255 /\ t[1] = j /\ t[2] = 0
    BY <2>1 DEF Byte
  <2>3. /\ LastDay \in Int /\ 255 <= LastDay
        /\ SecondsOfDay \in Int /\ 0 <= SecondsOfDay - 1
    BY ClockConstants
  <2> QED BY <2>2, <2>3
<1> QED BY <1>2, <1>3

(* Of a date and time of this century it is the time itself: nothing wraps. *)
LEMMA KernelTimeOfDate ==
    ASSUME NEW r \in [Field -> Byte], \A f \in Field : Bcd2bin(r[f]) \in Valid(f),
           NEW t \in KernelTimes(r)
    PROVE  \E s :
             /\ t = <<DaysBeforeYear[Bcd2bin(r["year"]) + 2000]
                        + DaysBeforeMonth[Bcd2bin(r["year"]) + 2000][Bcd2bin(r["month"]) - 1]
                        + Bcd2bin(r["day"]) - 1, s>>
             /\ s \div 3600 = Bcd2bin(r["hour"])
             /\ (s \div 60) % 60 = Bcd2bin(r["minute"])
<1>1. PICK y \in Int, m \in Int, d \in Int :
        y = Bcd2bin(r["year"]) + 2000 /\ m = Bcd2bin(r["month"]) /\ d = Bcd2bin(r["day"])
  BY NumberOfByte DEF Field
<1>2. PICK h \in Int, i \in Int, c \in Int :
        h = Bcd2bin(r["hour"]) /\ i = Bcd2bin(r["minute"]) /\ c = Bcd2bin(r["second"])
  BY NumberOfByte DEF Field
<1>3. /\ 2000 <= y /\ y <= 2099 /\ 1 <= m /\ m <= 12 /\ 1 <= d /\ d <= 31
      /\ 0 <= h /\ h <= 23 /\ 0 <= i /\ i <= 59 /\ 0 <= c /\ c <= 59
  <2>1. /\ y - 2000 \in Valid("year") /\ m \in Valid("month") /\ d \in Valid("day")
        /\ h \in Valid("hour") /\ i \in Valid("minute") /\ c \in Valid("second")
    BY <1>1, <1>2, NumberOfByte DEF Field
  <2> QED BY <2>1 DEF Valid
<1>4. PICK s \in Int : s = (h * 60 + i) * 60 + c
  OBVIOUS
<1>5. t = Wrapped(DaysBeforeYear[y] + DaysBeforeMonth[y][m - 1] + d - 1, s)
  <2>1. t = KernelTime(r)
    BY <1>1, <1>3 DEF KernelTimes, Field
  <2> QED BY <1>1, <1>2, <1>4, <2>1 DEF KernelTime, MonthsBefore, Field
<1>6. 0 <= s /\ s < SecondsOfDay /\ s \div 3600 = h /\ (s \div 60) % 60 = i
  <2>1. 0 <= s /\ s < 86400 /\ s \div 3600 = h
    BY <1>3, <1>4
  <2>2. s \div 60 = h * 60 + i
    BY <1>3, <1>4
  <2>3. (h * 60 + i) % 60 = i
    BY <1>3
  <2> QED BY <2>1, <2>2, <2>3, ClockConstants
<1>7. /\ y \in 1970 .. LastYear /\ DaysBeforeYear[y] \in Nat
      /\ DaysBeforeYear[y] <= 366 * (y - 1970)
  BY <1>3, YearInRange, ClockConstants
<1>8. DaysBeforeMonth[y][m - 1] \in Nat /\ DaysBeforeMonth[y][m - 1] <= 366
  BY <1>3, <1>7, MonthInRange
<1>9. PICK e \in Int :
        e = DaysBeforeYear[y] + DaysBeforeMonth[y][m - 1] + d - 1 /\ e < LastDay
  BY <1>3, <1>7, <1>8, ClockConstants
<1>10. t = <<e, s>>
  <2>1. t = Wrapped(e, s)
    BY <1>5, <1>9
  <2> QED BY <1>6, <1>9, <2>1, NotWrapped
<1>11. t = <<DaysBeforeYear[Bcd2bin(r["year"]) + 2000]
              + DaysBeforeMonth[Bcd2bin(r["year"]) + 2000][Bcd2bin(r["month"]) - 1]
              + Bcd2bin(r["day"]) - 1, s>>
  BY <1>1, <1>9, <1>10
<1>12. s \div 3600 = Bcd2bin(r["hour"]) /\ (s \div 60) % 60 = Bcd2bin(r["minute"])
  BY <1>2, <1>6
<1> QED BY <1>11, <1>12

-----------------------------------------------------------------------------
(* A write that does not fail writes all.                                  *)
LEMMA WriteProperties ==
    ASSUME NEW write \in Write
    PROVE  /\ write.sent \in SUBSET Field /\ write.error \in BOOLEAN
           /\ ~write.error => write.sent = Field
<1>1. ASSUME NEW i \in 1 .. 6 PROVE Order[i] \in Field
  BY DEF Order, Field
<1>2. CASE write = [sent |-> Field, error |-> FALSE]
  BY <1>2
<1>3. CASE \E n \in 0 .. 6 : write = [sent |-> {Order[i] : i \in 1 .. n}, error |-> TRUE]
  <2>1. PICK n \in 0 .. 6 : write = [sent |-> {Order[i] : i \in 1 .. n}, error |-> TRUE]
    BY <1>3
  <2>2. \A i \in 1 .. n : i \in 1 .. 6
    OBVIOUS
  <2>3. {Order[i] : i \in 1 .. n} \in SUBSET Field
    BY <1>1, <2>2
  <2> QED BY <2>1, <2>3
<1> QED BY <1>2, <1>3 DEF Write

LEMMA WrittenProperties ==
    ASSUME reg \in [Field -> Byte], NEW data, \A f \in Field : data[f] \in Int,
           NEW sent \in SUBSET Field, Written(data, sent)
    PROVE  /\ reg' \in [Field -> Byte]
           /\ \A f \in Field : reg'[f] = IF f \in sent THEN Bin2bcd(data[f]) ELSE reg[f]
<1>1. reg' = [f \in Field |-> IF f \in sent THEN Bin2bcd(data[f]) ELSE reg[f]]
  BY DEF Written
<1>2. ASSUME NEW f \in Field
      PROVE  (IF f \in sent THEN Bin2bcd(data[f]) ELSE reg[f]) \in Byte
  BY DigitsByte
<1> QED BY <1>1, <1>2

(* The registers that it has written hold what was given and is valid.     *)
ValidRegister(v, f) == v % 16 <= 9 /\ Bcd2bin(v) \in Valid(f)

LEMMA ValidWritten ==
    ASSUME NEW f \in Field, NEW b \in Valid(f)
    PROVE  ValidRegister(Bin2bcd(b), f) /\ Bcd2bin(Bin2bcd(b)) = b
<1>1. b \in Int /\ 0 <= b /\ b <= 99
  BY ValidIsTwoDigits
<1>2. Bcd2bin(Bin2bcd(b)) = b /\ Bin2bcd(b) % 16 <= 9
  BY <1>1, DigitsBack
<1> QED BY <1>2 DEF ValidRegister

LEMMA ClockValidByField ==
    ClockValid <=> (~spoiled => \A f \in Field : ValidRegister(reg[f], f))
BY DEF ClockValid, ValidRegister

LEMMA FreshStays ==
    ASSUME ClockInvariant, time' = time, fresh' = (fresh /\ reg' = reg)
    PROVE  TimeIsClock' /\ fresh' \in BOOLEAN
<1>1. fresh' => fresh /\ reg' = reg
  OBVIOUS
<1>2. TimeIsClock'
  <2>1. ASSUME fresh' PROVE time' \in KernelTimes(reg')
    BY <1>1, <2>1 DEF ClockInvariant, TimeIsClock
  <2> QED BY <2>1 DEF TimeIsClock
<1> QED BY <1>2

(* The command TIMER: what it keeps it writes as read, and that is right   *)
(* for one digit.                                                          *)
LEMMA TimerKeeps ==
    ASSUME ClockInvariant, NEW g, Given(g), Timer(g)
    PROVE  ClockInvariant'
<1>1. /\ time' = time /\ chosen' = Nothing /\ fresh' = (fresh /\ reg' = reg)
      /\ reg \in [Field -> Byte] /\ spoiled \in BOOLEAN
  BY DEF Timer, ClockInvariant, ClockTypeOK
<1>2. ChosenIsHeld' /\ (DOMAIN chosen \subseteq Field)'
  BY <1>1, GivenNothing DEF ChosenIsHeld
<1>3. PICK read \in Read, write \in Write :
        /\ Written(Over(g, read.data), write.sent)
        /\ spoiled' =
              \/ spoiled /\ write.sent # Field
              \/ \E f \in write.sent \cap DOMAIN g : g[f] \notin Valid(f)
              \/ \E f \in write.sent \ DOMAIN g : spoiled \/ read.error \/ reg[f] > 9
  BY DEF Timer
<1>4. PICK r, error : r = read.data /\ error = read.error
  OBVIOUS
<1>5. r \in [Field -> Byte] /\ error \in BOOLEAN /\ (~error => r = reg)
  <2>1. CASE read = [data |-> reg, error |-> FALSE]
    BY <1>1, <1>4, <2>1
  <2>2. CASE \E j \in Junk : read = [data |-> [f \in Field |-> j], error |-> TRUE]
    BY <1>4, <2>2, JunkBytes
  <2> QED BY <2>1, <2>2 DEF Read
<1>6. PICK data : data = Over(g, r)
  OBVIOUS
<1>7. PICK sent \in SUBSET Field : sent = write.sent
  BY WriteProperties
<1>8. \A f \in Field : data[f] = IF f \in DOMAIN g THEN g[f] ELSE r[f]
  BY <1>5, <1>6, OverFields DEF Given
<1>9. \A f \in Field : data[f] \in Int
  BY <1>5, <1>8 DEF Given, Byte
<1>10. Written(data, sent)
  BY <1>3, <1>4, <1>6, <1>7
<1>11. /\ reg' \in [Field -> Byte]
       /\ \A f \in Field : reg'[f] = IF f \in sent THEN Bin2bcd(data[f]) ELSE reg[f]
  BY <1>1, <1>9, <1>10, WrittenProperties
<1>12. /\ spoiled' \in BOOLEAN
       /\ ~spoiled' => /\ ~(spoiled /\ sent # Field)
                       /\ \A f \in sent \cap DOMAIN g : g[f] \in Valid(f)
                       /\ \A f \in sent \ DOMAIN g : ~spoiled /\ ~error /\ ~(reg[f] > 9)
  <2>1. spoiled' = \/ spoiled /\ sent # Field
                   \/ \E f \in sent \cap DOMAIN g : g[f] \notin Valid(f)
                   \/ \E f \in sent \ DOMAIN g : spoiled \/ error \/ reg[f] > 9
    BY <1>3, <1>4, <1>6, <1>7
  <2> QED BY <2>1
<1>13. ASSUME ~spoiled', NEW f \in Field
       PROVE  ValidRegister(reg'[f], f)
  <2>1. CASE f \notin sent
    <3>1. ~spoiled
      BY <1>12, <1>13, <2>1
    <3> QED BY <1>11, <2>1, <3>1, ClockValidByField DEF ClockInvariant
  <2>2. CASE f \in sent /\ f \in DOMAIN g
    <3>1. g[f] \in Valid(f) /\ reg'[f] = Bin2bcd(g[f])
      BY <1>8, <1>11, <1>12, <1>13, <2>2
    <3> QED BY <3>1, ValidWritten
  <2>3. CASE f \in sent /\ f \notin DOMAIN g
    <3>1. ~spoiled /\ ~error /\ ~(reg[f] > 9) /\ reg[f] \in Byte
      BY <1>1, <1>12, <1>13, <2>3
    <3>2. data[f] = reg[f] /\ reg[f] <= 9
      BY <1>5, <1>8, <2>3, <3>1 DEF Byte
    <3>3. reg'[f] = reg[f]
      BY <1>11, <2>3, <3>1, <3>2, OneDigit
    <3> QED BY <3>1, <3>3, ClockValidByField DEF ClockInvariant
  <2> QED BY <2>1, <2>2, <2>3
<1>14. ClockValid'
  <2>1. ~spoiled' => \A f \in Field : ValidRegister(reg'[f], f)
    BY <1>13
  <2> QED BY <2>1 DEF ClockValid, ValidRegister
<1>15. TimeIsClock' /\ fresh' \in BOOLEAN
  BY <1>1, FreshStays
<1>16. ClockTypeOK'
  BY <1>1, <1>2, <1>11, <1>12, <1>15 DEF ClockInvariant, ClockTypeOK
<1> QED BY <1>2, <1>14, <1>15, <1>16 DEF ClockInvariant

(* The window: both halves given put a spoiled clock right, and a half     *)
(* that is not given keeps the digits it shows.                            *)
LEMMA SetupKeeps ==
    ASSUME ClockInvariant, NEW g, Given(g), Setup(g)
    PROVE  ClockInvariant'
<1>1. reg \in [Field -> Byte] /\ spoiled \in BOOLEAN /\ fresh \in BOOLEAN
  BY DEF ClockInvariant, ClockTypeOK
<1>2. PICK write \in Write, error \in BOOLEAN :
        /\ Written([Over(g, [f \in Field |->
                               IF f = "year" THEN YearDigits(reg[f]) ELSE Digits(reg[f])])
                      EXCEPT !.second = 0, !.year = Offset(@)], write.sent)
        /\ spoiled' =
              \/ spoiled /\ write.sent # Field
              \/ \E f \in (write.sent \ {"second"}) \cap DOMAIN g :
                    g[f] - Century(f) \notin Valid(f)
              \/ spoiled /\ ~(write.sent \ {"second"} \subseteq DOMAIN g)
        /\ IF error THEN UNCHANGED time ELSE time' \in KernelTimes(reg')
        /\ fresh' = IF error THEN fresh /\ reg' = reg ELSE TRUE
        /\ chosen' = IF write.error \/ error THEN Nothing ELSE g
  BY DEF Setup
<1>3. PICK shown : shown = [f \in Field |->
                               IF f = "year" THEN YearDigits(reg[f]) ELSE Digits(reg[f])]
  OBVIOUS
<1>4. PICK data : data = [Over(g, shown) EXCEPT !.second = 0, !.year = Offset(@)]
  OBVIOUS
<1>5. PICK sent \in SUBSET Field, failed \in BOOLEAN :
        sent = write.sent /\ failed = write.error /\ (~failed => sent = Field)
  BY WriteProperties
<1>6. Written(data, sent)
  BY <1>2, <1>3, <1>4, <1>5
<1>7. \A f \in Field :
        data[f] = IF f = "second" THEN 0
                  ELSE IF f = "year" THEN
                         Offset(IF f \in DOMAIN g THEN g[f] ELSE YearDigits(reg[f]))
                  ELSE IF f \in DOMAIN g THEN g[f] ELSE Digits(reg[f])
  <2>1. DOMAIN shown = Field
    BY <1>3
  <2>2. PICK over : over = Over(g, shown)
    OBVIOUS
  <2>3. /\ DOMAIN over = Field
        /\ \A f \in Field : over[f] = IF f \in DOMAIN g THEN g[f] ELSE shown[f]
    BY <2>1, <2>2, OverFields DEF Given
  <2>4. data = [over EXCEPT !["second"] = 0, !["year"] = Offset(@)]
    BY <1>4, <2>2
  <2>5. \A f \in Field : data[f] = IF f = "second" THEN 0
                                   ELSE IF f = "year" THEN Offset(over[f]) ELSE over[f]
    BY <2>3, <2>4 DEF Field
  <2> QED BY <1>3, <2>3, <2>5
<1>8. \A f \in Field : Digits(reg[f]) \in Nat /\ YearDigits(reg[f]) \in Nat
  BY <1>1, DigitsShown
<1>9. \A f \in Field : data[f] \in Int
  BY <1>7, <1>8, OffsetOfCentury DEF Given
<1>10. /\ reg' \in [Field -> Byte]
       /\ \A f \in Field : reg'[f] = IF f \in sent THEN Bin2bcd(data[f]) ELSE reg[f]
  BY <1>1, <1>6, <1>9, WrittenProperties
<1>11. /\ chosen' = Nothing \/ (~failed /\ ~error /\ chosen' = g)
       /\ Given(chosen')
  BY <1>2, <1>5, GivenNothing
<1>12. /\ spoiled' \in BOOLEAN
       /\ ~spoiled' =>
             /\ ~(spoiled /\ sent # Field)
             /\ \A f \in (sent \ {"second"}) \cap DOMAIN g : g[f] - Century(f) \in Valid(f)
             /\ ~(spoiled /\ ~(sent \ {"second"} \subseteq DOMAIN g))
  <2>1. spoiled' = \/ spoiled /\ sent # Field
                   \/ \E f \in (sent \ {"second"}) \cap DOMAIN g :
                         g[f] - Century(f) \notin Valid(f)
                   \/ spoiled /\ ~(sent \ {"second"} \subseteq DOMAIN g)
    BY <1>2, <1>5
  <2> QED BY <1>1, <2>1
<1>13. ASSUME ~spoiled', NEW f \in sent
       PROVE  /\ data[f] \in Valid(f)
              /\ f \in DOMAIN g \ {"second"} => g[f] = data[f] + Century(f)
  <2>1. CASE f = "second"
    BY <1>7, <2>1, ValidZero
  <2>2. CASE f # "second" /\ f \in DOMAIN g
    <3>1. g[f] \in Int /\ g[f] - Century(f) \in Valid(f)
      BY <1>12, <1>13, <2>2 DEF Given
    <3>2. CASE f = "year"
      <4>1. PICK n \in Int : n = g[f] - 2000 /\ 0 <= n /\ n <= 99 /\ n \in Valid(f)
        BY <3>1, <3>2, ValidIsTwoDigits DEF Century
      <4>2. 2000 <= g[f] /\ g[f] <= 2099
        BY <3>1, <4>1
      <4>3. data[f] = Offset(g[f])
        BY <1>7, <2>2, <3>2
      <4>4. data[f] = n
        BY <3>1, <4>1, <4>2, <4>3, OffsetOfCentury
      <4> QED BY <3>1, <3>2, <4>1, <4>4 DEF Century
    <3>3. CASE f # "year"
      <4>1. data[f] = g[f] /\ Century(f) = 0
        BY <1>7, <2>2, <3>3 DEF Century
      <4> QED BY <3>1, <4>1
    <3> QED BY <3>2, <3>3
  <2>3. CASE f # "second" /\ f \notin DOMAIN g
    <3>1. ~spoiled
      BY <1>12, <1>13, <2>3
    <3>2. reg[f] % 16 <= 9 /\ Bcd2bin(reg[f]) \in Valid(f)
      BY <3>1 DEF ClockInvariant, ClockValid
    <3>3. /\ reg[f] \in Byte
          /\ Bcd2bin(reg[f]) \in Int /\ 0 <= Bcd2bin(reg[f]) /\ Bcd2bin(reg[f]) <= 99
      BY <1>1, <3>2, ValidIsTwoDigits
    <3>4. Digits(reg[f]) = Bcd2bin(reg[f]) /\ YearDigits(reg[f]) = 2000 + Bcd2bin(reg[f])
      BY <3>2, <3>3, DigitsShown
    <3>5. data[f] = Bcd2bin(reg[f])
      <4>1. CASE f = "year"
        <5>1. data[f] = Offset(2000 + Bcd2bin(reg[f]))
          BY <1>7, <2>3, <3>4, <4>1
        <5>2. PICK n \in Int : n = 2000 + Bcd2bin(reg[f]) /\ 2000 <= n /\ n <= 2099
          BY <3>3
        <5> QED BY <3>3, <5>1, <5>2, OffsetOfCentury
      <4>2. CASE f # "year"
        BY <1>7, <2>3, <3>4, <4>2
      <4> QED BY <4>1, <4>2
    <3> QED BY <2>3, <3>2, <3>5
  <2> QED BY <2>1, <2>2, <2>3
<1>14. ClockValid'
  <2>1. ASSUME ~spoiled', NEW f \in Field
        PROVE  ValidRegister(reg'[f], f)
    <3>1. CASE f \in sent
      <4>1. PICK b \in Valid(f) : b = data[f]
        BY <1>13, <2>1, <3>1
      <4>2. ValidRegister(Bin2bcd(b), f)
        BY <4>1, ValidWritten
      <4> QED BY <1>10, <3>1, <4>1, <4>2
    <3>2. CASE f \notin sent
      <4>1. ~spoiled
        BY <1>12, <2>1, <3>2
      <4> QED BY <1>10, <3>2, <4>1, ClockValidByField DEF ClockInvariant
    <3> QED BY <3>1, <3>2
  <2> QED BY <2>1 DEF ClockValid, ValidRegister
<1>15. TimeIsClock' /\ fresh' \in BOOLEAN
  <2>1. CASE error
    <3>1. time' = time /\ fresh' = (fresh /\ reg' = reg)
      BY <1>2, <2>1
    <3> QED BY <3>1, FreshStays
  <2>2. CASE ~error
    BY <1>2, <2>2 DEF TimeIsClock
  <2> QED BY <2>1, <2>2
<1>16. ClockTypeOK'
  <2>1. time'[1] \in 0 .. LastDay /\ time'[2] \in 0 .. SecondsOfDay - 1
    <3>1. CASE error
      BY <1>2, <3>1 DEF ClockInvariant, ClockTypeOK
    <3>2. CASE ~error
      BY <1>2, <1>10, <3>2, KernelTimesType
    <3> QED BY <3>1, <3>2
  <2> QED BY <1>10, <1>11, <1>12, <1>15, <2>1 DEF ClockTypeOK, Given
<1>17. ChosenIsHeld'
  <2>1. CASE chosen' = Nothing
    BY <2>1, GivenNothing DEF ChosenIsHeld
  <2>2. CASE chosen' # Nothing
    <3>1. ~failed /\ ~error /\ chosen' = g /\ fresh' /\ sent = Field
      BY <1>2, <1>5, <1>11, <2>2
    <3>2. ASSUME ~spoiled', NEW f \in DOMAIN g \ {"second"}
          PROVE  g[f] = Bcd2bin(reg'[f]) + Century(f)
      <4>1. f \in Field /\ f \in sent
        BY <3>1 DEF Given
      <4>2. data[f] \in Valid(f) /\ g[f] = data[f] + Century(f)
        BY <1>13, <3>2, <4>1
      <4>3. Bcd2bin(reg'[f]) = data[f]
        BY <1>10, <4>1, <4>2, ValidWritten
      <4> QED BY <4>2, <4>3
    <3> QED BY <3>1, <3>2 DEF ChosenIsHeld, Given
  <2> QED BY <2>1, <2>2
<1> QED BY <1>14, <1>15, <1>16, <1>17 DEF ClockInvariant

(* A restart takes the time from the clock, or has none.                   *)
LEMMA BootKeeps ==
    ASSUME ClockInvariant, ClockBoot
    PROVE  ClockInvariant'
<1>1. PICK error \in BOOLEAN :
        /\ time' \in IF error THEN {<<0, 0>>} ELSE KernelTimes(reg)
        /\ fresh' = ~error
  BY DEF ClockBoot
<1>2. chosen' = Nothing /\ reg' = reg /\ spoiled' = spoiled
  BY DEF ClockBoot
<1>3. reg \in [Field -> Byte]
  BY DEF ClockInvariant, ClockTypeOK
<1>4. time'[1] \in 0 .. LastDay /\ time'[2] \in 0 .. SecondsOfDay - 1
  <2>1. CASE error
    <3>1. time'[1] = 0 /\ time'[2] = 0
      BY <1>1, <2>1
    <3>2. /\ LastDay \in Int /\ 0 <= LastDay
          /\ SecondsOfDay \in Int /\ 0 <= SecondsOfDay - 1
      BY ClockConstants
    <3> QED BY <3>1, <3>2
  <2>2. CASE ~error
    BY <1>1, <1>3, <2>2, KernelTimesType
  <2> QED BY <2>1, <2>2
<1>5. ClockTypeOK'
  BY <1>1, <1>2, <1>4, GivenNothing DEF ClockInvariant, ClockTypeOK
<1>6. ClockValid'
  BY <1>2 DEF ClockInvariant, ClockValid
<1>7. TimeIsClock'
  BY <1>1, <1>2 DEF TimeIsClock
<1>8. ChosenIsHeld'
  BY <1>2, GivenNothing DEF ChosenIsHeld
<1> QED BY <1>5, <1>6, <1>7, <1>8 DEF ClockInvariant

LEMMA ClockStart == ASSUME ClockInit PROVE ClockInvariant
<1>1. PICK d \in Dates, t \in Times :
        LET set == Over(DateFields(d), TimeFields(t))
        IN  /\ \A f \in Field : set[f] - Century(f) \in Valid(f)
            /\ reg = [f \in Field |-> Bin2bcd(set[f] - Century(f))]
  BY DEF ClockInit
<1>2. PICK digits : digits = [f \in Field |->
                                 Over(DateFields(d), TimeFields(t))[f] - Century(f)]
  OBVIOUS
<1>3. /\ \A f \in Field : digits[f] \in Valid(f)
      /\ reg = [f \in Field |-> Bin2bcd(digits[f])]
  BY <1>1, <1>2
<1>4. reg \in [Field -> Byte]
  BY <1>3, ValidIsTwoDigits, DigitsByte
<1>5. ClockValid
  <2>1. ASSUME NEW f \in Field PROVE ValidRegister(reg[f], f)
    BY <1>3, ValidWritten
  <2> QED BY <2>1, ClockValidByField
<1>6. time \in KernelTimes(reg) /\ spoiled = FALSE /\ fresh = TRUE /\ chosen = Nothing
  BY DEF ClockInit
<1>7. ClockTypeOK
  BY <1>4, <1>6, KernelTimesType, GivenNothing DEF ClockTypeOK
<1> QED BY <1>5, <1>6, <1>7, GivenNothing DEF ClockInvariant, TimeIsClock, ChosenIsHeld

LEMMA ClockStepKeeps ==
    ASSUME ClockInvariant, ClockNext
    PROVE  ClockInvariant'
<1>1. ASSUME NEW g, Given(g), Timer(g) \/ Setup(g)
      PROVE  ClockInvariant'
  BY <1>1, TimerKeeps, SetupKeeps
<1>2. CASE Setup(Nothing)
  BY <1>1, <1>2, GivenNothing
<1>3. CASE \E d \in Dates : \/ Setup(DateFields(d))
                            \/ \E t \in Times : Setup(Over(DateFields(d), TimeFields(t)))
  <2>1. PICK d \in Dates : \/ Setup(DateFields(d))
                           \/ \E t \in Times : Setup(Over(DateFields(d), TimeFields(t)))
    BY <1>3
  <2>2. d \in Byte \X Byte \X Int
    BY DatesAreNumbers
  <2> QED BY <1>1, <2>1, <2>2, GivenDate, GivenBoth
<1>4. CASE \E d \in ShortDates : \/ Timer(DateFields(d))
                                 \/ \E t \in Times : Timer(Over(DateFields(d), TimeFields(t)))
  <2>1. PICK d \in ShortDates : \/ Timer(DateFields(d))
                                \/ \E t \in Times : Timer(Over(DateFields(d), TimeFields(t)))
    BY <1>4
  <2>2. d \in Byte \X Byte \X Int
    BY DatesAreNumbers
  <2> QED BY <1>1, <2>1, <2>2, GivenDate, GivenBoth
<1>5. CASE \E t \in Times : Setup(TimeFields(t)) \/ TimerTimeOnly(TimeFields(t))
  <2>1. PICK t \in Times : Setup(TimeFields(t)) \/ TimerTimeOnly(TimeFields(t))
    BY <1>5
  <2>2. Given(TimeFields(t))
    BY GivenTime
  <2>3. Given(Over(TimeFields(t), NoDate))
    BY DatesAreNumbers, GivenBoth DEF NoDate
  <2>4. \A d \in ShortDates : Given(Over(TimeFields(t), DateFields(d)))
    BY DatesAreNumbers, GivenBoth
  <2> QED BY <1>1, <2>1, <2>2, <2>3, <2>4 DEF TimerTimeOnly
<1> QED BY <1>2, <1>3, <1>4, <1>5 DEF ClockNext

-----------------------------------------------------------------------------
(* What the invariant says of the bar.                                     *)
LEMMA BarShowsClock ==
    ASSUME ClockInvariant, fresh, ~spoiled
    PROVE  /\ Shown(time).hour = Bcd2bin(reg["hour"])
           /\ Shown(time).minute = Bcd2bin(reg["minute"])
           /\ Bcd2bin(reg["day"]) <= DaysOfMonth(Bcd2bin(reg["month"]) - 1,
                                                 Bcd2bin(reg["year"]) + 2000) =>
                 /\ Shown(time).day = Bcd2bin(reg["day"])
                 /\ Shown(time).month = Bcd2bin(reg["month"])
                 /\ Shown(time).year = Bcd2bin(reg["year"]) + 2000
<1>1. /\ reg \in [Field -> Byte] /\ \A f \in Field : Bcd2bin(reg[f]) \in Valid(f)
      /\ time \in KernelTimes(reg)
  BY DEF ClockInvariant, ClockTypeOK, ClockValid, TimeIsClock
<1>2. PICK y \in Int, m \in Int, d \in Int :
        y = Bcd2bin(reg["year"]) + 2000 /\ m = Bcd2bin(reg["month"]) /\ d = Bcd2bin(reg["day"])
  BY <1>1, NumberOfByte DEF Field
<1>3. PICK s :
        /\ time = <<DaysBeforeYear[y] + DaysBeforeMonth[y][m - 1] + d - 1, s>>
        /\ s \div 3600 = Bcd2bin(reg["hour"]) /\ (s \div 60) % 60 = Bcd2bin(reg["minute"])
  BY <1>1, <1>2, KernelTimeOfDate
<1>4. Shown(time).hour = time[2] \div 3600 /\ Shown(time).minute = (time[2] \div 60) % 60
  BY DEF Shown
<1>5. ASSUME d <= DaysOfMonth(m - 1, y)
      PROVE  Shown(time).day = d /\ Shown(time).month = m /\ Shown(time).year = y
  <2>1. 2000 <= y /\ y <= 2099 /\ 1 <= m /\ m <= 12 /\ 1 <= d
    <3>1. y - 2000 \in Valid("year") /\ m \in Valid("month") /\ d \in Valid("day")
      BY <1>1, <1>2, NumberOfByte DEF Field
    <3> QED BY <3>1 DEF Valid
  <2>2. y \in 1970 .. LastYear /\ y \in 1970 .. LastYear - 1
    BY <2>1, ClockConstants
  <2>3. PICK n : n = m - 1 /\ n \in Months /\ n + 1 = m
    BY <2>1, <2>2, MonthInRange
  <2>4. d \in 1 .. DaysOfMonth(n, y)
    <3>1. DaysOfMonth(n, y) \in Nat
      BY <2>2, <2>3, MonthLengths
    <3> QED BY <1>5, <2>1, <2>3, <3>1
  <2>5. Shown(<<DaysBeforeYear[y] + DaysBeforeMonth[y][n] + d - 1, s>>) =
           [day |-> d, month |-> n + 1, year |-> y,
            hour |-> s \div 3600, minute |-> (s \div 60) % 60]
    BY <2>2, <2>3, <2>4, ShownDate
  <2> QED BY <1>3, <2>3, <2>5
<1> QED BY <1>2, <1>3, <1>4, <1>5

LEMMA InvariantShows ==
    ASSUME ClockInvariant
    PROVE  ShownIsClock /\ ChosenIsShown
<1> DEFINE shown == Shown(time)
           v == [f \in Field |-> Bcd2bin(reg[f]) + Century(f)]
<1>1. DOMAIN shown = {"day", "month", "year", "hour", "minute"}
  BY DEF Shown
<1>2. \A f \in Field : v[f] = Bcd2bin(reg[f]) + Century(f)
  OBVIOUS
<1>3. \A f \in Field : Bcd2bin(reg[f]) \in Nat
  BY NumberOfByte DEF ClockInvariant, ClockTypeOK
<1>4. DateExists(v) <=> Bcd2bin(reg["day"]) <= DaysOfMonth(Bcd2bin(reg["month"]) - 1,
                                                           Bcd2bin(reg["year"]) + 2000)
  <2>1. v["day"] = Bcd2bin(reg["day"]) /\ v["month"] = Bcd2bin(reg["month"])
        /\ v["year"] = Bcd2bin(reg["year"]) + 2000
    BY <1>2, <1>3 DEF Century, Field
  <2> HIDE DEF v
  <2> QED BY <2>1 DEF DateExists
<1> HIDE DEF v, shown
<1>5. ASSUME fresh, ~spoiled
      PROVE  /\ \A f \in {"hour", "minute"} : shown[f] = v[f]
             /\ DateExists(v) => \A f \in DOMAIN shown : shown[f] = v[f]
  <2>1. /\ shown["hour"] = v["hour"] /\ shown["minute"] = v["minute"]
        /\ DateExists(v) => /\ shown["day"] = v["day"] /\ shown["month"] = v["month"]
                            /\ shown["year"] = v["year"]
    BY <1>2, <1>3, <1>4, <1>5, BarShowsClock DEF Century, Field, shown
  <2> QED BY <1>1, <2>1
<1>6. ShownIsClock
  BY <1>5 DEF ShownIsClock, shown, v
<1>7. ASSUME ~spoiled, "year" \in DOMAIN chosen => DateExists(chosen),
             NEW f \in DOMAIN chosen \cap DOMAIN shown
      PROVE  shown[f] = chosen[f]
  <2>1. fresh /\ \A e \in DOMAIN chosen \ {"second"} : chosen[e] = v[e]
    BY <1>2, <1>7 DEF ClockInvariant, ClockTypeOK, ChosenIsHeld
  <2>2. shown[f] = v[f]
    <3>1. CASE f \in {"hour", "minute"}
      BY <1>5, <1>7, <2>1, <3>1
    <3>2. CASE "year" \in DOMAIN chosen
      <4>1. /\ chosen["day"] = v["day"] /\ chosen["month"] = v["month"]
            /\ chosen["year"] = v["year"]
        BY <2>1, <3>2 DEF ClockInvariant, ChosenIsHeld, DateField
      <4>2. DateExists(v)
        BY <1>7, <3>2, <4>1 DEF DateExists
      <4> QED BY <1>5, <1>7, <2>1, <4>2
    <3> QED BY <1>1, <1>7, <3>1, <3>2 DEF ClockInvariant, ChosenIsHeld, DateField
  <2> QED BY <1>1, <1>7, <2>1, <2>2
<1> QED BY <1>6, <1>7 DEF ChosenIsShown, shown

(* Nothing but the commands that set the clock, and a restart, touch it.   *)
LEMMA ClockInductive == Spec => []ClockInvariant
<1>1. ASSUME Init
      PROVE  ClockInvariant
  BY <1>1, ClockStart DEF Init
<1>2. ASSUME ClockInvariant, [Next]_vars
      PROVE  ClockInvariant'
  <2>1. CASE ClockNext
    BY <1>2, <2>1, ClockStepKeeps
  <2>2. CASE Restart
    BY <1>2, <2>2, BootKeeps DEF Restart
  <2>3. CASE UNCHANGED clockVars
    BY <1>2, <2>3 DEF clockVars, ClockInvariant, ClockTypeOK, ClockValid, TimeIsClock, ChosenIsHeld
  <2> QED BY <1>2, <2>1, <2>2, <2>3 DEF Next, vars
<1> QED BY <1>1, <1>2, PTL DEF Spec

(* Every variable of the shell keeps its type: the registers stay bytes,   *)
(* and the kernel time stays within 32 bits, whatever is set and whatever  *)
(* a failing read gives.                                                   *)
THEOREM TypesCorrect == Spec => []TypeOK
<1>1. ClockInvariant /\ FsTypeOK => TypeOK
  BY DEF ClockInvariant, TypeOK
<1> QED BY <1>1, ClockInductive, TypeCorrect, PTL

(* The clock holds digits of a date and a time unless it was spoiled.      *)
THEOREM ClockStaysValid == Spec => []ClockValid
<1>1. ClockInvariant => ClockValid
  BY DEF ClockInvariant
<1> QED BY <1>1, ClockInductive, PTL

(* The bar shows what the clock holds, when the kernel has taken its time  *)
(* from the clock: there and back, by the seconds since 1970.              *)
THEOREM BarShowsTheClock == Spec => []ShownIsClock
BY ClockInductive, InvariantShows, PTL

(* The bar shows the date and the time that were set in the window.        *)
THEOREM BarShowsTheChoice == Spec => []ChosenIsShown
BY ClockInductive, InvariantShows, PTL
=============================================================================
