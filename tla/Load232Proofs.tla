---------------------------- MODULE Load232Proofs ----------------------------
(***************************************************************************)
(* For every length of name, piece and FIFO: load232 keeps its types, it   *)
(* gives f_write only what it received, what it calls saved is what it     *)
(* received if the card made no trouble, and what it received is what the  *)
(* peer sent, each time that it sent it, if the UART dropped nothing.      *)
(*                                                                         *)
(* TypeOK is not inductive alone: a name stays within its length because   *)
(* it is shorter while more of it is awaited (NameGrows). What is on the   *)
(* card while load232 writes is the first ix bytes of what it received     *)
(* (Written), and it speaks only when it ends (SpeaksLast). The protocol   *)
(* marks no byte of the file as such, so the last result is about what     *)
(* load232 cannot see: the bytes on the line are frames, and it is in step *)
(* with them (FrameInv, in the second half).                               *)
(***************************************************************************)
EXTENDS Load232, SequenceTheorems, TLAPS

USE Load232Assumption DEF DD, EE

Byte == 0 .. 255

NameGrows ==
    /\ pc \in {"start", "start2"} => name = <<>>
    /\ pc \in {"name_sync", "name"} => Len(name) < NameLen

SpeaksLast == said # "nothing" => pc = "idle"

Written ==
    /\ pc = "write" => ix \in 0 .. Len(mem)
    /\ pc = "write" /\ ~trouble => disk = SubSeq(mem, 1, ix)
    /\ pc = "close" /\ ~trouble => disk = mem

(* TypeOK in three parts, for the three kinds of steps.                    *)
LineType ==
    /\ wire \in Seq(Byte) /\ fifo \in Seq(Byte) /\ Len(fifo) <= Depth
    /\ peer \in {"idle", "sending", "sent", "again", "ended"}
    /\ file \in Seq(Bytes \cup {0}) /\ sent \in Seq(Bytes \cup {0}) /\ lost \in BOOLEAN
RecvType ==
    /\ pc \in PC
    /\ name \in Seq(Byte) /\ Len(name) <= NameLen /\ mem \in Seq(Byte)
    /\ said \in {"nothing", "wrong_start", "cannot_create", "saved", "not_saved"}
CardType == disk \in Seq(Byte) /\ ix \in Nat /\ trouble \in BOOLEAN

IInv == TypeOK /\ NameGrows /\ SpeaksLast /\ Written /\ SavedIsReceived

-----------------------------------------------------------------------------
(* The piece lies within what was received and is not yet written.         *)
LEMMA PieceBounds ==
  ASSUME mem \in Seq(Byte), ix \in 0 .. Len(mem)
  PROVE  Piece \in 0 .. Len(mem) - ix
  BY DEF Piece

(* Upper changes no byte into something else.                              *)
LEMMA UpperType == \A b \in Byte : Upper(b) \in Byte
  BY DEF Upper, Byte

(* Forgetting keeps the length and the type of the record of what was sent.*)
LEMMA ForgottenType ==
  ASSUME NEW s \in Seq(Bytes \cup {0})
  PROVE  Forgotten(s) \in Seq(Bytes \cup {0}) /\ Len(Forgotten(s)) = Len(s)
  <1> DEFINE e(i) == 0
  <1>1. \A i \in 1 .. Len(s) : e(i) \in Bytes \cup {0}
    OBVIOUS
  <1>2. Len(s) \in Nat
    OBVIOUS
  <1>3. /\ [i \in 1 .. Len(s) |-> e(i)] \in Seq(Bytes \cup {0})
        /\ Len([i \in 1 .. Len(s) |-> e(i)]) = Len(s)
    BY <1>1, <1>2, IsASeq DEF e
  <1> QED
    BY <1>3 DEF Forgotten

LEMMA ForgetType ==
  ASSUME LineType, Forget
  PROVE  file' \in Seq(Bytes \cup {0}) /\ sent' \in Seq(Bytes \cup {0})
  BY ForgottenType DEF LineType, Forget

LEMMA TypeParts == TypeOK <=> LineType /\ RecvType /\ CardType
  BY DEF TypeOK, LineType, RecvType, CardType, Byte

LEMMA InitInvariant == Init => IInv
  <1> SUFFICES ASSUME Init PROVE IInv
    OBVIOUS
  <1>1. LineType
    <2>1. wire \in Seq(Byte) /\ fifo \in Seq(Byte) /\ Len(fifo) <= Depth
      BY DEF Init
    <2>2. /\ file \in Seq(Bytes \cup {0}) /\ sent \in Seq(Bytes \cup {0})
          /\ peer \in {"idle"}
      BY DEF Init
    <2>3. lost \in BOOLEAN
      BY DEF Init
    <2> QED
      BY <2>1, <2>2, <2>3 DEF LineType
  <1>2. RecvType
    BY DEF Init, RecvType, Byte, PC
  <1>3. CardType
    <2>1. disk \in Seq(Byte) /\ ix \in Nat
      BY DEF Init
    <2>2. trouble \in BOOLEAN
      BY DEF Init
    <2> QED
      BY <2>1, <2>2 DEF CardType
  <1>4. NameGrows /\ SpeaksLast /\ Written /\ SavedIsReceived
    BY DEF Init, NameGrows, SpeaksLast, Written, SavedIsReceived
  <1> QED
    BY <1>1, <1>2, <1>3, <1>4, TypeParts DEF IInv

-----------------------------------------------------------------------------
(* The peer and the line touch neither what was received nor the card.     *)
LEMMA LineStep ==
  ASSUME IInv, Peer \/ Arrive
  PROVE  IInv'
  <1> USE TypeParts DEF IInv
  <1>1. UNCHANGED <<pc, received, card, said>>
    BY DEF Peer, Arrive, PeerStarts, PeerSends, PeerAnswers, PeerEnds, Writes
  <1>2. RecvType' /\ CardType'
    BY <1>1 DEF RecvType, CardType, received, card
  <1>3. NameGrows' /\ SpeaksLast' /\ Written' /\ SavedIsReceived'
    BY <1>1 DEF NameGrows, SpeaksLast, Written, SavedIsReceived, received, card
  <1>4. LineType'
    <2> USE DEF LineType, Byte
    <2>1. CASE PeerStarts
      BY <2>1 DEF PeerStarts, Writes
    <2>2. ASSUME NEW b \in Bytes, PeerSends(b) PROVE LineType'
      <3>1. b \in 0 .. 255
        OBVIOUS
      <3>2. wire' = <<DD, b>> /\ fifo' = fifo /\ peer' = "sent" /\ lost' = lost
        BY <2>2 DEF PeerSends, Writes
      <3>3. PICK kept \in Bytes \cup {0} :
              sent' = Append(sent, kept) /\ (file' = file \/ file' = Append(file, kept))
        BY <2>2 DEF PeerSends
      <3>4. file' \in Seq(Bytes \cup {0}) /\ sent' \in Seq(Bytes \cup {0})
        <4>1. file \in Seq(Bytes \cup {0}) /\ sent \in Seq(Bytes \cup {0})
          OBVIOUS
        <4>2. sent' \in Seq(Bytes \cup {0})
          BY <3>3, <4>1, AppendProperties
        <4>3. Append(file, kept) \in Seq(Bytes \cup {0})
          BY <4>1, AppendProperties
        <4> QED
          BY <3>3, <4>1, <4>2, <4>3
      <3>5. wire' \in Seq(0 .. 255)
        BY <3>1, <3>2
      <3> QED
        BY <3>2, <3>4, <3>5
    <2>3. ASSUME NEW v \in {0, 1}, PeerAnswers(v) PROVE LineType'
      BY <2>3 DEF PeerAnswers, Writes, history
    <2>4. CASE PeerEnds
      BY <2>4 DEF PeerEnds, Writes, history
    <2>5. CASE Arrive
      <3>0. wire # <<>> /\ wire' = Tail(wire) /\ wire \in Seq(0 .. 255)
        BY <2>5 DEF Arrive
      <3>1. wire' \in Seq(0 .. 255) /\ Head(wire) \in 0 .. 255
        BY <3>0, HeadTailProperties
      <3>2. fifo' \in Seq(0 .. 255) /\ Len(fifo') <= Depth
        <4>1. CASE Len(fifo) < Depth
          <5>1. fifo' = Append(fifo, Head(wire)) /\ fifo \in Seq(0 .. 255)
            BY <4>1, <2>5 DEF Arrive
          <5> QED
            BY <4>1, <5>1, <3>1, AppendProperties
        <4>2. CASE ~(Len(fifo) < Depth)
          BY <4>2, <2>5 DEF Arrive
        <4> QED
          BY <4>1, <4>2
      <3>3. lost' \in BOOLEAN /\ peer' = peer
        BY <2>5 DEF Arrive
      <3>4. file' \in Seq(Bytes \cup {0}) /\ sent' \in Seq(Bytes \cup {0})
        <4>1. CASE lost'
          BY <2>5, <4>1, ForgetType DEF Arrive
        <4>2. CASE ~lost'
          BY <2>5, <4>2 DEF Arrive, history
        <4> QED
          BY <4>1, <4>2
      <3> QED
        BY <3>1, <3>2, <3>3, <3>4
    <2> QED
      BY <2>1, <2>2, <2>3, <2>4, <2>5 DEF Peer
  <1> QED
    BY <1>2, <1>3, <1>4, TypeParts, PTL

LEMMA LoadStep ==
  ASSUME IInv, Load
  PROVE  IInv'
  <1> USE TypeParts DEF IInv, Load
  <1>1. LineType'
    BY ForgetType DEF LineType, Byte
  <1>2. RecvType'
    BY DEF RecvType, Byte, PC
  <1>3. CardType'
    <2>1. disk' \in Seq(Byte) /\ ix' \in Nat
      OBVIOUS
    <2>2. trouble' \in BOOLEAN
      OBVIOUS
    <2> QED
      BY <2>1, <2>2 DEF CardType
  <1>4. NameGrows' /\ SpeaksLast' /\ Written' /\ SavedIsReceived'
    BY DEF NameGrows, SpeaksLast, Written, SavedIsReceived
  <1> QED
    BY <1>1, <1>2, <1>3, <1>4, TypeParts, PTL

-----------------------------------------------------------------------------
(* One byte of the FIFO: the rest stays a FIFO, the card stays as it is.   *)
LEMMA GetStep ==
  ASSUME IInv, NEW at, Get(at)
  PROVE  LineType' /\ CardType' /\ got \in Byte /\ pc = at
  <1>1. fifo \in Seq(Byte) /\ fifo # <<>> /\ fifo' = Tail(fifo)
    BY TypeParts DEF IInv, LineType, Get
  <1>2. got \in Byte /\ fifo' \in Seq(Byte) /\ Len(fifo') = Len(fifo) - 1
    BY <1>1, HeadTailProperties DEF got
  <1>3. Len(fifo') <= Depth
    BY <1>2, LenProperties, <1>1, TypeParts DEF IInv, LineType
  <1>4. UNCHANGED <<wire, peer, file, sent, lost, ix, disk, trouble>> /\ pc = at
    BY DEF Get, card, history
  <1>5. LineType'
    BY <1>2, <1>3, <1>4, TypeParts DEF IInv, LineType
  <1>6. CardType'
    BY <1>4, TypeParts DEF IInv, CardType
  <1> QED
    BY <1>2, <1>4, <1>5, <1>6

(* A step of load232 that adds nothing to the name or the file.            *)
LEMMA SilentStep ==
  ASSUME IInv, Start \/ Start2 \/ NameSync \/ DataSync \/ EndByte
  PROVE  IInv'
  <1> USE TypeParts DEF IInv
  <1>1. PICK at \in {"start", "start2", "name_sync", "data_sync", "end"} : Get(at)
    BY DEF Start, Start2, NameSync, DataSync, EndByte
  <1>2. LineType' /\ CardType' /\ pc = at
    BY <1>1, GetStep
  <1>3. UNCHANGED <<name, mem, ix, disk, trouble>>
    BY <1>1 DEF Start, Start2, NameSync, DataSync, EndByte, Get, received, card
  <1>4. said = "nothing"
    BY <1>1, <1>2 DEF SpeaksLast
  <1>5. /\ pc' \in PC \ {"write", "close"}
        /\ pc' \in {"start", "start2"} => pc \in {"start", "start2"}
        /\ pc' \in {"name_sync", "name"} =>
              pc \in {"name_sync", "name"} \/ pc = "start2"
    BY DEF Start, Start2, NameSync, DataSync, EndByte, Get, PC
  <1>6. said' \in {"nothing", "wrong_start"} /\ (said' # "nothing" => pc' = "idle")
    BY <1>4 DEF Start, Start2, NameSync, DataSync, EndByte
  <1>7. RecvType'
    BY <1>3, <1>5, <1>6 DEF RecvType
  <1>8. NameGrows'
    BY <1>3, <1>5 DEF NameGrows
  <1>9. SpeaksLast' /\ Written' /\ SavedIsReceived'
    BY <1>5, <1>6 DEF SpeaksLast, Written, SavedIsReceived
  <1> QED
    BY <1>2, <1>7, <1>8, <1>9, TypeParts, PTL

LEMMA NameStep ==
  ASSUME IInv, NameByte
  PROVE  IInv'
  <1> USE TypeParts DEF IInv
  <1>1. LineType' /\ CardType' /\ got \in Byte /\ pc = "name"
    BY GetStep DEF NameByte
  <1>2. name \in Seq(Byte) /\ Len(name) < NameLen /\ Len(name) \in Nat
    BY <1>1 DEF RecvType, NameGrows
  <1>3. name' \in Seq(Byte) /\ Len(name') = Len(name) + 1
    BY <1>1, <1>2, UpperType, AppendProperties DEF NameByte
  <1>4. pc' = IF Len(name) + 1 = NameLen THEN "data_sync" ELSE "name_sync"
    BY DEF NameByte, NameComplete
  <1>5. UNCHANGED <<mem, said>> /\ said = "nothing"
    BY <1>1 DEF NameByte, SpeaksLast
  <1>6. RecvType'
    BY <1>2, <1>3, <1>4, <1>5 DEF RecvType, PC
  <1>7. NameGrows'
    BY <1>2, <1>3, <1>4 DEF NameGrows
  <1>8. SpeaksLast' /\ Written' /\ SavedIsReceived'
    BY <1>4, <1>5 DEF SpeaksLast, Written, SavedIsReceived
  <1> QED
    BY <1>1, <1>6, <1>7, <1>8, TypeParts, PTL

LEMMA DataStep ==
  ASSUME IInv, DataByte
  PROVE  IInv'
  <1> USE TypeParts DEF IInv
  <1>1. LineType' /\ CardType' /\ got \in Byte /\ pc = "data"
    BY GetStep DEF DataByte
  <1>2. mem' \in Seq(Byte)
    BY <1>1, AppendProperties DEF DataByte, RecvType
  <1>3. pc' = "data_sync" /\ UNCHANGED <<name, said>> /\ said = "nothing"
    BY <1>1 DEF DataByte, SpeaksLast
  <1>4. RecvType'
    BY <1>2, <1>3 DEF RecvType, PC
  <1>5. NameGrows' /\ SpeaksLast' /\ Written' /\ SavedIsReceived'
    BY <1>3 DEF NameGrows, SpeaksLast, Written, SavedIsReceived
  <1> QED
    BY <1>1, <1>4, <1>5, TypeParts, PTL

-----------------------------------------------------------------------------
(* While load232 saves, what it received stays.                            *)
LEMMA OnCardStep ==
  ASSUME IInv, OnCard
  PROVE  LineType' /\ UNCHANGED <<name, mem>>
  BY TypeParts DEF IInv, OnCard, LineType, line, received, history

LEMMA CreateStep ==
  ASSUME IInv, Create
  PROVE  IInv'
  <1> USE TypeParts DEF IInv
  <1>1. LineType' /\ UNCHANGED <<name, mem>> /\ pc = "create" /\ said = "nothing"
    BY OnCardStep DEF Create, SpeaksLast
  <1>2. mem \in Seq(Byte) /\ Len(mem) \in Nat
    BY DEF RecvType
  <1>3. CASE pc' = "write" /\ ix' = 0 /\ disk' = <<>> /\ trouble' = FALSE /\ said' = said
    <2>1. disk' \in Seq(Byte) /\ ix' \in Nat
      BY <1>3
    <2>2. trouble' \in BOOLEAN
      BY <1>3
    <2>3. CardType' /\ RecvType'
      BY <1>1, <1>3, <2>1, <2>2 DEF CardType, RecvType, PC
    <2>4. SubSeq(mem, 1, 0) = <<>>
      BY SubSeqEmpty
    <2>5. NameGrows' /\ SpeaksLast' /\ Written' /\ SavedIsReceived'
      BY <1>1, <1>2, <1>3, <2>4 DEF NameGrows, SpeaksLast, Written, SavedIsReceived
    <2> QED
      BY <1>1, <2>3, <2>5, TypeParts, PTL
  <1>4. CASE pc' = "idle" /\ said' = "cannot_create" /\ UNCHANGED card
    <2>1. CardType' /\ RecvType'
      BY <1>1, <1>4 DEF CardType, RecvType, PC, card
    <2>2. NameGrows' /\ SpeaksLast' /\ Written' /\ SavedIsReceived'
      BY <1>4 DEF NameGrows, SpeaksLast, Written, SavedIsReceived
    <2> QED
      BY <1>1, <2>1, <2>2, TypeParts, PTL
  <1> QED
    BY <1>3, <1>4 DEF Create

(* The pieces join: what was on the card and the next piece are a longer   *)
(* beginning of what was received.                                         *)
LEMMA WriteStep ==
  ASSUME IInv, Write
  PROVE  IInv'
  <1> USE TypeParts DEF IInv
  <1>1. LineType' /\ UNCHANGED <<name, mem>> /\ pc = "write" /\ said = "nothing"
    BY OnCardStep DEF Write, SpeaksLast
  <1>2. mem \in Seq(Byte) /\ ix \in 0 .. Len(mem) /\ Len(mem) \in Nat
    BY <1>1 DEF RecvType, Written
  <1>3. Piece \in 0 .. Len(mem) - ix
    BY <1>2, PieceBounds
  <1>4. PICK n \in 0 .. Piece :
           /\ disk' = disk \o SubSeq(mem, ix + 1, ix + n)
           /\ trouble' = (trouble \/ n < Piece)
    BY DEF Write
  <1>5. trouble' \in BOOLEAN
    BY <1>4 DEF CardType
  <1>6. SubSeq(mem, ix + 1, ix + n) \in Seq(Byte)
    <2>1. \A i \in ix + 1 .. ix + n : mem[i] \in Byte
      BY <1>2, <1>3, <1>4
    <2> QED
      BY <2>1, <1>2, <1>3, <1>4, SubSeqProperties
  <1>7. disk' \in Seq(Byte)
    BY <1>4, <1>6, ConcatProperties DEF CardType
  <1>8. said' = said
    BY DEF Write
  <1>9. \/ pc' = (IF LastPiece THEN "close" ELSE "write") /\ ix' = ix + Chunk
        \/ trouble' /\ pc' = "close" /\ ix' = ix
    BY DEF Write
  <1>10. CardType' /\ RecvType'
    <2>1. pc' \in PC /\ ix' \in Nat
      BY <1>2, <1>9 DEF PC
    <2> QED
      BY <2>1, <1>1, <1>5, <1>7, <1>8 DEF CardType, RecvType
  <1>11. NameGrows' /\ SpeaksLast' /\ SavedIsReceived'
    BY <1>1, <1>8, <1>9 DEF NameGrows, SpeaksLast, SavedIsReceived
  <1>12. CASE trouble'
    <2>1. pc' = "write" => ix' \in 0 .. Len(mem')
      BY <1>1, <1>2, <1>9 DEF LastPiece
    <2>2. Written'
      BY <1>12, <2>1 DEF Written
    <2> QED
      BY <2>2, <1>1, <1>10, <1>11, TypeParts, PTL
  <1>13. CASE ~trouble'
    <2>1. ~trouble /\ ~(n < Piece)
      BY <1>4, <1>13
    <2>2. n = Piece
      BY <2>1, <1>3, <1>4
    <2>3. disk = SubSeq(mem, 1, ix)
      BY <2>1, <1>1 DEF Written
    <2>4. disk' = SubSeq(mem, 1, ix + Piece)
      BY <2>2, <2>3, <1>2, <1>3, <1>4, ConcatAdjacentSubSeq
    <2>5. pc' = (IF LastPiece THEN "close" ELSE "write") /\ ix' = ix + Chunk
      BY <1>9, <1>13
    <2>6. CASE LastPiece
      <3>1. ix + Piece = Len(mem)
        BY <2>6, <1>2 DEF LastPiece, Piece
      <3>2. disk' = mem' /\ pc' = "close"
        BY <3>1, <2>4, <2>5, <2>6, <1>1, <1>2, SubSeqFull
      <3>3. Written'
        BY <3>2 DEF Written
      <3> QED
        BY <3>3, <1>1, <1>10, <1>11, TypeParts, PTL
    <2>7. CASE ~LastPiece
      <3>1. Piece = Chunk /\ ix' \in 0 .. Len(mem)
        BY <2>5, <2>7, <1>2 DEF LastPiece, Piece
      <3>2. Written'
        BY <3>1, <2>4, <2>5, <2>7, <1>1 DEF Written
      <3> QED
        BY <3>2, <1>1, <1>10, <1>11, TypeParts, PTL
    <2> QED
      BY <2>6, <2>7
  <1> QED
    BY <1>12, <1>13

LEMMA CloseStep ==
  ASSUME IInv, Close
  PROVE  IInv'
  <1> USE TypeParts DEF IInv
  <1>1. LineType' /\ UNCHANGED <<name, mem>> /\ pc = "close" /\ pc' = "idle"
    BY OnCardStep DEF Close
  <1>2. UNCHANGED <<ix, disk, trouble>> /\ said' \in {"saved", "not_saved"}
    BY DEF Close, card
  <1>3. CardType' /\ RecvType'
    BY <1>1, <1>2 DEF CardType, RecvType, PC
  <1>4. NameGrows' /\ SpeaksLast' /\ Written' /\ SavedIsReceived'
    BY <1>1, <1>2 DEF NameGrows, SpeaksLast, Written, SavedIsReceived
  <1> QED
    BY <1>1, <1>3, <1>4, TypeParts, PTL

LEMMA StutterStep ==
  ASSUME IInv, UNCHANGED vars
  PROVE  IInv'
  <1>1. UNCHANGED <<wire, fifo, peer, pc, name, mem, ix, disk, trouble, said, file,
                    sent, lost>>
    BY DEF vars, line, received, card, history
  <1> QED
    BY <1>1 DEF IInv, TypeOK, NameGrows, SpeaksLast, Written, SavedIsReceived

-----------------------------------------------------------------------------
THEOREM Invariant == Spec => []IInv
  <1>1. IInv /\ [Next]_vars => IInv'
    BY LineStep, LoadStep, SilentStep, NameStep, DataStep,
       CreateStep, WriteStep, CloseStep, StutterStep DEF Next, Receive, Save
  <1> QED
    BY InitInvariant, <1>1, PTL DEF Spec

(* Every variable keeps its type; a name never grows past its array.       *)
THEOREM TypeCorrect == Spec => []TypeOK
  <1>1. IInv => TypeOK
    BY DEF IInv
  <1> QED
    BY Invariant, <1>1, PTL

(* For every length of the file and of a piece, the loop that saves gives  *)
(* f_write only bytes that load232 received.                               *)
THEOREM WritesOnlyReceived == Spec => []WritesWhatItReceived
  <1>1. IInv => WritesWhatItReceived
    <2> SUFFICES ASSUME IInv, pc = "write" PROVE ix <= Len(mem) /\ Piece \in 0 .. Len(mem) - ix
      BY DEF WritesWhatItReceived
    <2>1. mem \in Seq(Byte) /\ ix \in 0 .. Len(mem)
      BY TypeParts DEF IInv, RecvType, Written
    <2> QED
      BY <2>1, PieceBounds
  <1> QED
    BY Invariant, <1>1, PTL

(* And a card without trouble then holds all of it, in order.              *)
THEOREM SavesAll == Spec => []SavedIsReceived
  <1>1. IInv => SavedIsReceived
    BY DEF IInv
  <1> QED
    BY Invariant, <1>1, PTL
-----------------------------------------------------------------------------
(* What load232 takes is what the peer sent. The bytes that are on their   *)
(* way, in the FIFO or on the wire, are frames: each byte has a role in    *)
(* one, and sent has a number of bytes before it. load232 does not know    *)
(* the roles, but in each of its states the next byte has the one that it  *)
(* takes it for; in "name_sync" it may also skip a verdict.                *)
Queue == fifo \o wire

Roles == {"start", "second", "data", "byte", "mark", "verdict", "end"}

(* Which role comes after which, and which may be the last so far: a frame *)
(* is put on the wire whole.                                               *)
Follows == {<<"start", "second">>, <<"data", "byte">>, <<"mark", "verdict">>, <<"mark", "end">>}
             \cup ({"second", "byte", "verdict"} \X {"data", "mark"})
Ends == {"second", "byte", "verdict", "end"}

Fits(role, b, k, s, p) ==
    /\ role \in {"start", "second", "data", "end"} => b = DD
    /\ role = "mark" => b = EE
    /\ role = "verdict" => b \in {0, 1}
    /\ role = "byte" => b = s[k + 1]
    /\ role = "end" => p = "ended" /\ Len(s) >= NameLen

Framed(role, before) ==
    /\ role \in [1 .. Len(Queue) -> Roles]
    /\ before \in [1 .. Len(Queue) + 1 -> 0 .. Len(sent)]
    /\ before[Len(Queue) + 1] = Len(sent)
    /\ \A i \in 1 .. Len(Queue) :
         /\ IF i = Len(Queue) THEN role[i] \in Ends ELSE <<role[i], role[i + 1]>> \in Follows
         /\ before[i + 1] = before[i] + (IF role[i] = "byte" THEN 1 ELSE 0)
         /\ Fits(role[i], Queue[i], before[i], sent, peer)

(* The roles that the next byte may have, and whether there must be one.   *)
Awaited == CASE pc = "start"            -> {"start"}
             [] pc = "start2"           -> {"second"}
             [] pc = "name_sync"        -> {"data", "mark", "verdict"}
             [] pc = "data_sync"        -> {"data", "mark"}
             [] pc \in {"name", "data"} -> {"byte"}
             [] pc = "end"              -> {"verdict", "end"}
             [] OTHER                   -> {}

ReceivePC == {"start", "start2", "name_sync", "name", "data_sync", "data", "end"}
SavePC    == {"create", "write", "close"}

InStep ==
    pc \in ReceivePC =>
        \E role, before :
            /\ Framed(role, before)
            /\ before[1] = Len(name) + Len(mem)
            /\ IF Queue = <<>> THEN pc \in {"name_sync", "data_sync"}
                               ELSE role[1] \in Awaited

(* What was taken so far.                                                  *)
Taken ==
    pc # "idle" =>
        /\ Len(name) + Len(mem) <= Len(sent)
        /\ \A i \in 1 .. Len(name) : name[i] = Upper(sent[i])
        /\ \A i \in 1 .. Len(mem) : mem[i] = sent[NameLen + i]

Complete == pc \in SavePC => peer = "ended" /\ Len(sent) = NameLen + Len(mem)

Parts ==
    /\ pc \in {"start", "start2", "name_sync", "name"} => mem = <<>>
    /\ pc \in {"data_sync", "data", "end"} \cup SavePC => Len(name) = NameLen

(* What was sent again is all that the record of what was sent has beyond  *)
(* the file.                                                               *)
Repeats == Len(file) <= Len(sent) /\ (Len(file) = Len(sent) => file = sent)

FrameInv == Parts /\ Repeats /\ (~lost => InStep /\ Taken /\ Complete)

LEMMA LineFacts ==
  ASSUME IInv
  PROVE  /\ fifo \in Seq(Byte) /\ wire \in Seq(Byte) /\ Len(fifo) \in Nat
         /\ name \in Seq(Byte) /\ mem \in Seq(Byte) /\ sent \in Seq(Bytes \cup {0})
         /\ Len(name) \in Nat /\ Len(mem) \in Nat /\ Len(sent) \in Nat
         /\ Queue \in Seq(Byte) /\ Len(Queue) \in Nat
  <1>1. /\ fifo \in Seq(Byte) /\ wire \in Seq(Byte)
        /\ name \in Seq(Byte) /\ mem \in Seq(Byte) /\ sent \in Seq(Bytes \cup {0})
    BY DEF IInv, TypeOK, Byte
  <1>2. Queue \in Seq(Byte)
    BY <1>1, ConcatProperties DEF Queue
  <1> QED
    BY <1>1, <1>2, LenProperties

(* A byte that moves from the wire to the FIFO stays where it is in line,  *)
LEMMA ArriveQueue ==
  ASSUME NEW f \in Seq(Byte), NEW w \in Seq(Byte), w # <<>>
  PROVE  Append(f, Head(w)) \o Tail(w) = f \o w
  OBVIOUS

(* load232 takes the first,                                                *)
LEMMA GetQueue ==
  ASSUME NEW f \in Seq(Byte), NEW w \in Seq(Byte), f # <<>>
  PROVE  /\ Len(f \o w) >= 1 /\ Head(f) = (f \o w)[1]
         /\ Len(Tail(f) \o w) = Len(f \o w) - 1
         /\ \A i \in 1 .. Len(f \o w) - 1 : (Tail(f) \o w)[i] = (f \o w)[i + 1]
  OBVIOUS

(* and the peer writes behind the last.                                    *)
LEMMA WriteQueue ==
  ASSUME NEW f \in Seq(Byte), NEW a, NEW b
  PROVE  /\ Len(f \o <<a, b>>) = Len(f) + 2
         /\ \A i \in 1 .. Len(f) : (f \o <<a, b>>)[i] = f[i]
         /\ (f \o <<a, b>>)[Len(f) + 1] = a /\ (f \o <<a, b>>)[Len(f) + 2] = b
  OBVIOUS

(* The next byte: the frames that are left, and what it may be.            *)
LEMMA TakeByte ==
  ASSUME IInv, NEW at, Get(at), NEW role, NEW before, Framed(role, before)
  PROVE  /\ Queue # <<>> /\ role[1] \in Roles /\ Fits(role[1], got, before[1], sent, peer)
         /\ before[1] \in 0 .. Len(sent)
         /\ before[1] + (IF role[1] = "byte" THEN 1 ELSE 0) \in 0 .. Len(sent)
         /\ \E r, b :
              /\ Framed(r, b)'
              /\ b[1] = before[1] + (IF role[1] = "byte" THEN 1 ELSE 0)
              /\ IF Queue' = <<>> THEN role[1] \in Ends
                                  ELSE <<role[1], r[1]>> \in Follows
  <1>1. PICK n, r, b :
          /\ n \in Nat /\ n = Len(Queue)
          /\ r = [i \in 1 .. n - 1 |-> role[i + 1]]
          /\ b = [i \in 1 .. n |-> before[i + 1]]
    BY LineFacts
  <1>2. /\ fifo \in Seq(Byte) /\ wire \in Seq(Byte) /\ Len(sent) \in Nat
        /\ fifo # <<>> /\ fifo' = Tail(fifo)
        /\ wire' = wire /\ peer' = peer /\ sent' = sent
    BY LineFacts DEF Get, history
  <1>3. /\ n >= 1 /\ got = Queue[1] /\ Len(Queue') = n - 1 /\ Queue # <<>>
        /\ \A i \in 1 .. n - 1 : Queue'[i] = Queue[i + 1]
    <2>1. Queue = fifo \o wire /\ Queue' = Tail(fifo) \o wire /\ got = Head(fifo)
      BY <1>2 DEF Queue, got
    <2>2. /\ Len(fifo \o wire) >= 1 /\ Head(fifo) = (fifo \o wire)[1]
          /\ Len(Tail(fifo) \o wire) = Len(fifo \o wire) - 1
          /\ \A i \in 1 .. Len(fifo \o wire) - 1 :
                 (Tail(fifo) \o wire)[i] = (fifo \o wire)[i + 1]
      BY <1>2, GetQueue
    <2>3. Len(Queue) >= 1 /\ Queue # <<>>
      BY <2>1, <2>2
    <2> QED
      BY <1>1, <2>1, <2>2, <2>3
  <1>4. /\ role \in [1 .. n -> Roles] /\ before \in [1 .. n + 1 -> 0 .. Len(sent)]
        /\ before[n + 1] = Len(sent)
    BY <1>1 DEF Framed
  <1>5. \A i \in 1 .. n :
          /\ IF i = n THEN role[i] \in Ends ELSE <<role[i], role[i + 1]>> \in Follows
          /\ before[i + 1] = before[i] + (IF role[i] = "byte" THEN 1 ELSE 0)
          /\ Fits(role[i], Queue[i], before[i], sent, peer)
    BY <1>1 DEF Framed
  <1>6. /\ role[1] \in Roles /\ before[1] \in 0 .. Len(sent) /\ before[2] \in 0 .. Len(sent)
    <2>1. 1 \in 1 .. n /\ 1 \in 1 .. n + 1 /\ 2 \in 1 .. n + 1
      BY <1>1, <1>3
    <2> QED
      BY <1>4, <2>1
  <1>7. /\ Fits(role[1], got, before[1], sent, peer)
        /\ before[2] = before[1] + (IF role[1] = "byte" THEN 1 ELSE 0)
        /\ IF 1 = n THEN role[1] \in Ends ELSE <<role[1], role[2]>> \in Follows
    <2>1. 1 \in 1 .. n /\ 1 + 1 = 2
      BY <1>3
    <2> QED
      BY <1>3, <1>5, <2>1
  <1>8. Framed(r, b)'
    <2>1. r \in [1 .. n - 1 -> Roles] /\ b \in [1 .. n -> 0 .. Len(sent)]
      BY <1>1, <1>3, <1>4
    <2>2. b[n] = Len(sent)
      BY <1>1, <1>3, <1>4
    <2>3. ASSUME NEW i \in 1 .. n - 1
          PROVE  /\ IF i = n - 1 THEN r[i] \in Ends ELSE <<r[i], r[i + 1]>> \in Follows
                 /\ b[i + 1] = b[i] + (IF r[i] = "byte" THEN 1 ELSE 0)
                 /\ Fits(r[i], Queue'[i], b[i], sent', peer')
      <3>1. i + 1 \in 1 .. n /\ (i = n - 1 <=> i + 1 = n) /\ (i # n - 1 => i + 1 \in 1 .. n - 1)
        BY <1>1
      <3>2. r[i] = role[i + 1] /\ b[i] = before[i + 1] /\ b[i + 1] = before[i + 1 + 1]
        BY <1>1, <3>1
      <3>3. i # n - 1 => r[i + 1] = role[i + 1 + 1]
        BY <1>1, <3>1
      <3>4. Queue'[i] = Queue[i + 1]
        BY <1>3
      <3> QED
        BY <1>2, <1>5, <3>1, <3>2, <3>3, <3>4
    <2>4. Len(Queue') = n - 1 /\ Len(Queue') + 1 = n
      BY <1>1, <1>3
    <2> QED
      BY <1>2, <2>1, <2>2, <2>3, <2>4 DEF Framed
  <1>9. /\ b[1] = before[1] + (IF role[1] = "byte" THEN 1 ELSE 0)
        /\ b[1] \in 0 .. Len(sent)
    BY <1>1, <1>3, <1>6, <1>7
  <1>10. n = 1 \/ n > 1
    BY <1>1, <1>3
  <1>11. IF Queue' = <<>> THEN role[1] \in Ends ELSE <<role[1], r[1]>> \in Follows
    <2>1. CASE n = 1
      <3>1. Queue' \in Seq(Byte) /\ Len(Queue') = 0
        <4>1. Tail(fifo) \in Seq(Byte)
          BY <1>2, HeadTailProperties
        <4>2. fifo' \o wire' \in Seq(Byte)
          BY <1>2, <4>1, ConcatProperties
        <4> QED
          BY <1>3, <2>1, <4>2 DEF Queue
      <3>2. Queue' = <<>>
        BY <3>1, EmptySeq
      <3> QED
        BY <1>7, <2>1, <3>2
    <2>2. CASE n > 1
      <3>1. Queue' # <<>> /\ n # 1
        BY <1>1, <1>3, <2>2
      <3>2. r[1] = role[2]
        BY <1>1, <2>2
      <3> QED
        BY <1>7, <3>1, <3>2
    <2> QED
      BY <1>10, <2>1, <2>2
  <1>12. \E r_, b_ :
           /\ Framed(r_, b_)'
           /\ b_[1] = before[1] + (IF role[1] = "byte" THEN 1 ELSE 0)
           /\ IF Queue' = <<>> THEN role[1] \in Ends ELSE <<role[1], r_[1]>> \in Follows
    BY <1>8, <1>9, <1>11, Zenon
  <1>13. before[1] + (IF role[1] = "byte" THEN 1 ELSE 0) \in 0 .. Len(sent)
    BY <1>9
  <1> QED
    BY <1>3, <1>6, <1>7, <1>12, <1>13, Zenon

(* The peer puts a frame behind those that are under way.                  *)
PutsFrame(head, last, first, second) ==
    /\ Writes(first, second) /\ peer # "ended"
    /\ head \in {"data", "mark"} /\ last \in {"byte", "verdict", "end"}
    /\ <<head, last>> \in Follows
    /\ first = IF head = "data" THEN DD ELSE EE
    /\ last = "verdict" => second \in {0, 1}
    /\ last = "end" => second = DD /\ peer' = "ended" /\ Len(sent) >= NameLen
    /\ sent' = IF last = "byte" THEN Append(sent, second) ELSE sent

LEMMA WriteFrame ==
  ASSUME IInv, NEW first, NEW second, NEW head, NEW last,
         PutsFrame(head, last, first, second), NEW role, NEW before, Framed(role, before)
  PROVE  Queue' # <<>> /\ \E r, b :
           Framed(r, b)' /\ b[1] = before[1] /\ r[1] = IF Queue = <<>> THEN head ELSE role[1]
  <1>a. /\ wire = <<>> /\ wire' = <<first, second>> /\ fifo' = fifo /\ peer # "ended"
        /\ head \in {"data", "mark"} /\ last \in {"byte", "verdict", "end"}
        /\ <<head, last>> \in Follows
        /\ first = IF head = "data" THEN DD ELSE EE
        /\ last = "verdict" => second \in {0, 1}
        /\ last = "end" => second = DD /\ peer' = "ended" /\ Len(sent) >= NameLen
        /\ sent' = IF last = "byte" THEN Append(sent, second) ELSE sent
    BY DEF PutsFrame, Writes
  <1> USE <1>a
  <1>0. PICK n \in Nat, m \in Nat :
          n = Len(Queue) /\ m = Len(sent) + (IF last = "byte" THEN 1 ELSE 0)
    <2>1. Len(sent) + (IF last = "byte" THEN 1 ELSE 0) \in Nat
      BY LineFacts
    <2> QED
      BY <2>1, LineFacts
  <1>1. PICK r, b :
          /\ r = [i \in 1 .. n + 2 |-> IF i = n + 1 THEN head
                                       ELSE IF i = n + 2 THEN last ELSE role[i]]
          /\ b = [i \in 1 .. n + 3 |-> IF i = n + 3 THEN m
                                       ELSE IF i = n + 2 THEN Len(sent) ELSE before[i]]
    OBVIOUS
  <1>2. /\ fifo \in Seq(Byte) /\ sent \in Seq(Bytes \cup {0}) /\ Len(sent) \in Nat
        /\ Queue = fifo
    BY LineFacts DEF Queue
  <1>3. /\ Len(Queue') = n + 2 /\ \A i \in 1 .. n : Queue'[i] = Queue[i]
        /\ Queue'[n + 1] = first /\ Queue'[n + 2] = second
    BY <1>0, <1>2, WriteQueue DEF Queue
  <1>4. Len(sent') = m /\ \A i \in 1 .. Len(sent) : sent'[i] = sent[i]
    BY <1>0, <1>2
  <1>5. last = "byte" => sent'[Len(sent) + 1] = second
    BY <1>2
  <1>6. /\ role \in [1 .. n -> Roles] /\ before \in [1 .. n + 1 -> 0 .. Len(sent)]
        /\ before[n + 1] = Len(sent)
    BY <1>0 DEF Framed
  <1>7. ASSUME NEW i \in 1 .. n
        PROVE  /\ IF i = n THEN role[i] \in Ends ELSE <<role[i], role[i + 1]>> \in Follows
               /\ before[i + 1] = before[i] + (IF role[i] = "byte" THEN 1 ELSE 0)
               /\ Fits(role[i], Queue[i], before[i], sent, peer)
    BY <1>0 DEF Framed
  <1>8. /\ \A i \in 1 .. n : r[i] = role[i]
        /\ r[n + 1] = head /\ r[n + 2] = last
        /\ DOMAIN r = 1 .. n + 2 /\ r = [i \in 1 .. n + 2 |-> r[i]]
    BY <1>0, <1>1
  <1>9. /\ \A i \in 1 .. n + 1 : b[i] = before[i]
        /\ b[n + 1] = Len(sent) /\ b[n + 2] = Len(sent) /\ b[n + 3] = m
        /\ DOMAIN b = 1 .. n + 3 /\ b = [i \in 1 .. n + 3 |-> b[i]]
    BY <1>0, <1>1, <1>6
  <1>10. /\ \A i \in 1 .. n + 2 : i \in 1 .. n \/ i = n + 1 \/ i = n + 2
         /\ \A i \in 1 .. n + 3 : i \in 1 .. n + 1 \/ i = n + 2 \/ i = n + 3
         /\ \A i \in 1 .. n : i \in 1 .. n + 1 /\ i + 1 \in 1 .. n + 1
         /\ \A i \in 1 .. n : i # n + 2 /\ (i # n => i + 1 \in 1 .. n)
    BY <1>0
  <1>11. r \in [1 .. n + 2 -> Roles] /\ b \in [1 .. n + 3 -> 0 .. m]
    <2>1. \A i \in 1 .. n + 2 : r[i] \in Roles
      BY <1>6, <1>8, <1>10 DEF Roles
    <2>2. \A i \in 1 .. n + 3 : b[i] \in 0 .. m
      <3>1. /\ \A k \in 0 .. Len(sent) : k \in 0 .. m
            /\ Len(sent) \in 0 .. m /\ m \in 0 .. m
        BY <1>0, <1>2
      <3>2. ASSUME NEW i \in 1 .. n + 1 PROVE b[i] \in 0 .. Len(sent)
        <4>1. b[i] = before[i]
          BY <1>9
        <4>2. before[i] \in 0 .. Len(sent)
          BY <1>6
        <4> QED
          BY <4>1, <4>2
      <3>3. ASSUME NEW i \in 1 .. n + 3 PROVE b[i] \in 0 .. m
        <4>1. CASE i \in 1 .. n + 1
          BY <3>1, <3>2, <4>1
        <4>2. CASE i \notin 1 .. n + 1
          <5>1. i = n + 2 \/ i = n + 3
            BY <1>10, <4>2
          <5>2. b[n + 2] \in 0 .. m /\ b[n + 3] \in 0 .. m
            BY <1>9, <3>1
          <5> QED
            BY <5>1, <5>2
        <4> QED
          BY <4>1, <4>2
      <3> QED
        BY <3>3
    <2> QED
      BY <1>8, <1>9, <2>1, <2>2
  <1>12. ASSUME NEW i \in 1 .. n
         PROVE  /\ <<r[i], r[i + 1]>> \in Follows
                /\ b[i + 1] = b[i] + (IF r[i] = "byte" THEN 1 ELSE 0)
                /\ Fits(r[i], Queue'[i], b[i], sent', peer')
    <2>1. Fits(role[i], Queue[i], before[i], sent, peer)
      BY <1>7
    <2>2. role[i] # "end"
      BY <2>1 DEF Fits
    <2>3. b[i + 1] = b[i] + (IF r[i] = "byte" THEN 1 ELSE 0)
      <3>1. r[i] = role[i] /\ b[i] = before[i] /\ b[i + 1] = before[i + 1]
        BY <1>8, <1>9, <1>10
      <3>2. before[i + 1] = before[i] + (IF role[i] = "byte" THEN 1 ELSE 0)
        BY <1>7
      <3> QED
        BY <3>1, <3>2, Zenon
    <2>4. <<r[i], r[i + 1]>> \in Follows
      <3>1. CASE i = n
        <4>1. role[i] \in {"second", "byte", "verdict"}
          BY <1>7, <2>2, <3>1 DEF Ends
        <4> QED
          BY <1>8, <3>1, <4>1 DEF Follows
      <3>2. CASE i # n
        <4>1. r[i] = role[i] /\ r[i + 1] = role[i + 1]
          BY <1>8, <1>10, <3>2
        <4> QED
          BY <1>7, <3>2, <4>1
      <3> QED
        BY <3>1, <3>2
    <2>5. role[i] = "byte" => sent'[before[i] + 1] = sent[before[i] + 1]
      <3>1. before[i] \in 0 .. Len(sent) /\ before[i + 1] \in 0 .. Len(sent)
        BY <1>6, <1>10
      <3>2. role[i] = "byte" => before[i] + 1 \in 1 .. Len(sent)
        <4> SUFFICES ASSUME role[i] = "byte" PROVE before[i] + 1 \in 1 .. Len(sent)
          OBVIOUS
        <4>1. before[i + 1] = before[i] + 1
          BY <1>7
        <4> QED
          BY <1>2, <3>1, <4>1
      <3> QED
        BY <1>4, <3>2
    <2>6. r[i] = role[i] /\ b[i] = before[i] /\ Queue'[i] = Queue[i]
      BY <1>3, <1>8, <1>9, <1>10
    <2>7. Fits(r[i], Queue'[i], b[i], sent', peer')
      <3>1. Fits(role[i], Queue[i], before[i], sent', peer')
        BY <2>1, <2>2, <2>5 DEF Fits
      <3> QED
        BY <2>6, <3>1, Zenon
    <2> QED
      BY <2>3, <2>4, <2>7
  <1>14. /\ <<r[n + 1], r[n + 2]>> \in Follows /\ r[n + 2] \in Ends
         /\ b[n + 2] = b[n + 1] /\ r[n + 1] # "byte"
         /\ b[n + 3] = b[n + 2] + (IF r[n + 2] = "byte" THEN 1 ELSE 0)
    BY <1>0, <1>2, <1>8, <1>9 DEF Ends
  <1>15. /\ Fits(r[n + 1], first, b[n + 1], sent', peer')
         /\ Fits(r[n + 2], second, b[n + 2], sent', peer')
    <2>1. Fits(head, first, Len(sent), sent', peer')
      BY DEF Fits
    <2>2. last = "end" => Len(sent') >= NameLen
      OBVIOUS
    <2>3. Fits(last, second, Len(sent), sent', peer')
      BY <1>5, <2>2 DEF Fits
    <2> QED
      BY <1>8, <1>9, <2>1, <2>3
  <1>16. Framed(r, b)'
    <2>1. Len(Queue') = n + 2 /\ Len(Queue') + 1 = n + 3 /\ Len(sent') = m /\ b[n + 3] = m
      BY <1>0, <1>3, <1>4, <1>9
    <2>2. n + 2 + 1 = n + 3 /\ n + 1 + 1 = n + 2 /\ n + 1 # n + 2
      BY <1>0
    <2>3. /\ Fits(r[n + 1], Queue'[n + 1], b[n + 1], sent', peer')
          /\ Fits(r[n + 2], Queue'[n + 2], b[n + 2], sent', peer')
      BY <1>3, <1>15
    <2>4. ASSUME NEW i \in 1 .. n + 2
          PROVE  /\ IF i = n + 2 THEN r[i] \in Ends ELSE <<r[i], r[i + 1]>> \in Follows
                 /\ b[i + 1] = b[i] + (IF r[i] = "byte" THEN 1 ELSE 0)
                 /\ Fits(r[i], Queue'[i], b[i], sent', peer')
      <3>1. CASE i \in 1 .. n
        BY <1>10, <1>12, <3>1
      <3>2. CASE i = n + 1
        <4>1. b[i + 1] = b[i] + 0
          BY <1>0, <1>2, <1>9, <2>2, <3>2
        <4> QED
          BY <1>14, <2>2, <2>3, <3>2, <4>1
      <3>3. CASE i = n + 2
        BY <1>14, <2>2, <2>3, <3>3
      <3> QED
        BY <1>10, <3>1, <3>2, <3>3
    <2> QED
      BY <1>11, <2>1, <2>4 DEF Framed
  <1>17. Queue' # <<>>
    BY <1>0, <1>3
  <1>18. b[1] = before[1]
    <2>1. 1 \in 1 .. n + 1
      BY <1>0
    <2> QED
      BY <1>9, <2>1
  <1>19. r[1] = IF Queue = <<>> THEN head ELSE role[1]
    <2>1. CASE n = 0
      <3>1. Queue = <<>>
        BY <1>0, <1>2, <2>1, EmptySeq
      <3> QED
        BY <1>8, <2>1, <3>1
    <2>2. CASE n > 0
      <3>1. Queue # <<>> /\ 1 \in 1 .. n
        BY <1>0, <1>2, <2>2
      <3> QED
        BY <1>8, <3>1
    <2> QED
      BY <1>0, <2>1, <2>2
  <1>20. \E r_, b_ : /\ Framed(r_, b_)'
                     /\ b_[1] = before[1]
                     /\ r_[1] = IF Queue = <<>> THEN head ELSE role[1]
    BY <1>16, <1>18, <1>19
  <1> QED
    BY <1>17, <1>20

(* The end comes after everything that was sent.                           *)
LEMMA EndIsLast ==
  ASSUME NEW q, NEW s, NEW role, NEW before, Len(q) \in Nat, Len(q) # 0,
         before[Len(q) + 1] = Len(s), role[1] = "end",
         before[1] \in Nat, Len(s) \in Nat,
         \A i \in 1 .. Len(q) :
           /\ IF i = Len(q) THEN role[i] \in Ends ELSE <<role[i], role[i + 1]>> \in Follows
           /\ before[i + 1] = before[i] + (IF role[i] = "byte" THEN 1 ELSE 0)
  PROVE  before[1] = Len(s)
  <1>1. 1 \in 1 .. Len(q)
    OBVIOUS
  <1>2. Len(q) = 1
    <2>1. \A x : <<"end", x>> \notin Follows
      BY DEF Follows
    <2>2. IF 1 = Len(q) THEN role[1] \in Ends ELSE <<role[1], role[1 + 1]>> \in Follows
      BY <1>1
    <2> QED
      BY <2>1, <2>2
  <1>3. before[1 + 1] = before[1] + (IF role[1] = "byte" THEN 1 ELSE 0)
    BY <1>1
  <1>4. before[1 + 1] = before[1] + 0
    BY <1>3
  <1> QED
    BY <1>2, <1>4

-----------------------------------------------------------------------------
LEMMA InitFrame == Init => FrameInv
  BY DEF Init, FrameInv, Parts, Repeats, InStep, Taken, Complete, ReceivePC, SavePC

LEMMA RepeatsStep ==
  ASSUME IInv, Repeats, Next
  PROVE  Repeats'
  <1>1. /\ file \in Seq(Bytes \cup {0}) /\ sent \in Seq(Bytes \cup {0})
        /\ Len(file) \in Nat /\ Len(sent) \in Nat
    BY DEF IInv, TypeOK
  <1>2. CASE Forget
    <2>1. /\ Len(file') = Len(file) /\ Len(sent') = Len(sent)
          /\ file' = [i \in 1 .. Len(file) |-> 0] /\ sent' = [i \in 1 .. Len(sent) |-> 0]
      BY <1>1, <1>2, ForgottenType DEF Forget, Forgotten
    <2> QED
      BY <2>1 DEF Repeats
  <1>3. CASE UNCHANGED history
    BY <1>3 DEF history, Repeats
  <1>4. CASE PeerStarts
    BY <1>4 DEF PeerStarts, Repeats
  <1>5. ASSUME NEW byte \in Bytes, PeerSends(byte) PROVE Repeats'
    <2>1. PICK kept \in Bytes \cup {0} :
            sent' = Append(sent, kept) /\ (file' = file \/ file' = Append(file, kept))
      BY <1>5 DEF PeerSends
    <2>2. Len(sent') = Len(sent) + 1
      BY <1>1, <2>1
    <2>3. CASE file' = file
      BY <1>1, <2>2, <2>3 DEF Repeats
    <2>4. CASE file' = Append(file, kept)
      <3>1. Len(file') = Len(file) + 1
        BY <1>1, <2>4
      <3>2. file = sent => file' = sent'
        BY <2>1, <2>4
      <3> QED
        BY <1>1, <2>2, <3>1, <3>2 DEF Repeats
    <2> QED
      BY <2>1, <2>3, <2>4
  <1>6. CASE Peer \/ Arrive \/ Load
    <2>1. ASSUME NEW verdict \in {0, 1}, PeerAnswers(verdict) PROVE UNCHANGED history
      BY <2>1 DEF PeerAnswers
    <2>2. PeerEnds => UNCHANGED history
      BY DEF PeerEnds
    <2>3. Arrive \/ Load => Forget \/ UNCHANGED history
      BY DEF Arrive, Load
    <2> QED
      BY <1>2, <1>3, <1>4, <1>5, <1>6, <2>1, <2>2, <2>3 DEF Peer
  <1>7. CASE Receive
    BY <1>3, <1>7 DEF Receive, Start, Start2, NameSync, NameByte, DataSync, DataByte,
       EndByte, Get
  <1>8. CASE Save
    BY <1>3, <1>8 DEF Save, Create, Write, Close, OnCard
  <1> QED
    BY <1>6, <1>7, <1>8 DEF Next

LEMMA PartsStep ==
  ASSUME IInv, Parts, Next
  PROVE  Parts'
  <1> USE DEF Parts, SavePC
  <1>1. CASE Peer \/ Arrive
    <2>1. UNCHANGED <<pc, name, mem>>
      BY <1>1 DEF Peer, Arrive, PeerStarts, PeerSends, PeerAnswers, PeerEnds, Writes, received
    <2> QED
      BY <2>1
  <1>2. CASE Load
    BY <1>2 DEF Load
  <1>3. CASE Receive
    <2>1. CASE NameByte
      <3>1. pc = "name" /\ mem' = mem /\ name' = Append(name, Upper(got))
        BY <2>1 DEF NameByte, Get
      <3>2. pc' = IF Len(name) + 1 = NameLen THEN "data_sync" ELSE "name_sync"
        BY <2>1 DEF NameByte, NameComplete
      <3>3. Len(name') = Len(name) + 1
        BY <3>1, LineFacts
      <3> QED
        BY <3>1, <3>2, <3>3
    <2>2. CASE DataByte
      BY <2>2 DEF DataByte, Get
    <2>3. CASE Start \/ Start2 \/ NameSync \/ DataSync \/ EndByte
      BY <2>3 DEF Start, Start2, NameSync, DataSync, EndByte, Get, received, history
    <2> QED
      BY <1>3, <2>1, <2>2, <2>3 DEF Receive
  <1>4. CASE Save
    BY <1>4 DEF Save, Create, Write, Close, OnCard, received
  <1> QED
    BY <1>1, <1>2, <1>3, <1>4 DEF Next

(* What was taken lies within what was sent.                               *)
LEMMA TakenWithin ==
  ASSUME IInv, Parts, Taken, pc # "idle"
  PROVE  /\ \A i \in 1 .. Len(name) : i \in 1 .. Len(sent)
         /\ \A i \in 1 .. Len(mem) : NameLen + i \in 1 .. Len(sent)
  <1>1. Len(name) \in Nat /\ Len(mem) \in Nat /\ Len(sent) \in Nat
    BY LineFacts
  <1>2. Len(name) + Len(mem) <= Len(sent)
    BY DEF Taken
  <1>3. Len(mem) = 0 \/ Len(name) = NameLen
    BY DEF Parts, IInv, TypeOK, PC, SavePC
  <1> QED
    BY <1>1, <1>2, <1>3

(* Bytes that are sent later change nothing of it.                         *)
LEMMA TakenStays ==
  ASSUME IInv, Parts, Taken, UNCHANGED <<name, mem>>, pc' # "idle" => pc # "idle",
         Len(sent') \in Nat, Len(sent') >= Len(sent),
         \A i \in 1 .. Len(sent) : sent'[i] = sent[i]
  PROVE  Taken'
  <1> SUFFICES ASSUME pc' # "idle"
               PROVE  /\ Len(name) + Len(mem) <= Len(sent')
                      /\ \A i \in 1 .. Len(name) : name[i] = Upper(sent'[i])
                      /\ \A i \in 1 .. Len(mem) : mem[i] = sent'[NameLen + i]
    BY DEF Taken
  <1>1. /\ Len(name) + Len(mem) <= Len(sent)
        /\ \A i \in 1 .. Len(name) : name[i] = Upper(sent[i])
        /\ \A i \in 1 .. Len(mem) : mem[i] = sent[NameLen + i]
    BY DEF Taken
  <1>2. Len(name) + Len(mem) <= Len(sent')
    BY <1>1, LineFacts
  <1> QED
    BY <1>1, <1>2, TakenWithin

-----------------------------------------------------------------------------
(* The peer's frames.                                                      *)
LEMMA WritesStep ==
  ASSUME IInv, InStep, NEW first, NEW second, NEW head, NEW last,
         PutsFrame(head, last, first, second)
  PROVE  InStep'
  <1>1. wire = <<>> /\ wire' = <<first, second>> /\ fifo' = fifo /\ UNCHANGED <<pc, name, mem>>
    BY DEF PutsFrame, Writes, received
  <1> SUFFICES ASSUME pc \in ReceivePC
               PROVE  \E role, before :
                        /\ Framed(role, before)'
                        /\ before[1] = Len(name') + Len(mem')
                        /\ IF Queue' = <<>> THEN pc' \in {"name_sync", "data_sync"}
                                            ELSE role[1] \in Awaited'
    BY <1>1 DEF InStep
  <1>2. PICK role, before :
          /\ Framed(role, before)
          /\ before[1] = Len(name) + Len(mem)
          /\ IF Queue = <<>> THEN pc \in {"name_sync", "data_sync"} ELSE role[1] \in Awaited
    BY DEF InStep
  <1>3. Queue' # <<>> /\ \E r, b :
           Framed(r, b)' /\ b[1] = before[1] /\ r[1] = IF Queue = <<>> THEN head ELSE role[1]
    BY <1>2, WriteFrame
  <1>4. PICK r, b :
           Framed(r, b)' /\ b[1] = before[1] /\ r[1] = IF Queue = <<>> THEN head ELSE role[1]
    BY <1>3
  <1>5. r[1] \in Awaited'
    <2>1. Awaited' = Awaited
      BY <1>1 DEF Awaited
    <2>2. pc \in {"name_sync", "data_sync"} => head \in Awaited
      BY DEF Awaited, PutsFrame
    <2> QED
      BY <1>2, <1>4, <2>1, <2>2
  <1>6. b[1] = Len(name') + Len(mem')
    BY <1>1, <1>2, <1>4
  <1> QED
    BY <1>3, <1>4, <1>5, <1>6

(* A new transfer is on the wire alone, or load232 misses its beginning.   *)
LEMMA PeerStartsFrame ==
  ASSUME IInv, Parts, PeerStarts, ~lost'
  PROVE  InStep' /\ Taken' /\ Complete'
  <1>1. /\ pc = "start" /\ pc' = "start" /\ fifo' = <<>> /\ wire' = <<DD, DD>>
        /\ UNCHANGED <<name, mem>> /\ sent' = <<>>
    BY DEF PeerStarts, Writes, received
  <1>2. name = <<>> /\ mem = <<>>
    BY <1>1 DEF IInv, NameGrows, Parts
  <1>3. /\ Queue' = <<DD, DD>> /\ Len(Queue') = 2 /\ Queue'[1] = DD /\ Queue'[2] = DD
        /\ Queue' # <<>>
    BY <1>1 DEF Queue
  <1>4. PICK r, b : r = [i \in 1 .. 2 |-> IF i = 1 THEN "start" ELSE "second"]
                 /\ b = [i \in 1 .. 3 |-> 0]
    OBVIOUS
  <1>5. r \in [1 .. 2 -> Roles] /\ b \in [1 .. 3 -> 0 .. 0]
    BY <1>4 DEF Roles
  <1>6. r[1] = "start" /\ r[2] = "second" /\ b[1] = 0 /\ b[2] = 0 /\ b[3] = 0
    BY <1>4
  <1>7. Framed(r, b)'
    <2>1. ASSUME NEW i \in 1 .. 2
          PROVE  /\ IF i = 2 THEN r[i] \in Ends ELSE <<r[i], r[i + 1]>> \in Follows
                 /\ b[i + 1] = b[i] + (IF r[i] = "byte" THEN 1 ELSE 0)
                 /\ Fits(r[i], Queue'[i], b[i], sent', peer')
      <3>1. CASE i = 1
        BY <1>3, <1>6, <3>1 DEF Ends, Follows, Fits
      <3>2. CASE i = 2
        BY <1>3, <1>6, <3>2 DEF Ends, Follows, Fits
      <3> QED
        BY <3>1, <3>2
    <2>2. Len(sent') = 0 /\ Len(Queue') + 1 = 3
      BY <1>1, <1>3
    <2> QED
      BY <1>3, <1>5, <1>6, <2>1, <2>2 DEF Framed
  <1>8. b[1] = Len(name') + Len(mem')
    BY <1>1, <1>2, <1>6
  <1>9. r[1] \in Awaited'
    BY <1>1, <1>6 DEF Awaited
  <1>10. InStep'
    BY <1>3, <1>7, <1>8, <1>9 DEF InStep
  <1>11. Taken' /\ Complete'
    BY <1>1, <1>2 DEF Taken, Complete, SavePC
  <1> QED
    BY <1>10, <1>11

(* The other frames of the peer come behind the bytes that are on the way. *)
LEMMA PeerGoesOn ==
  ASSUME IInv, FrameInv, ~lost,
         PeerEnds \/ (\E byte \in Bytes : PeerSends(byte))
                  \/ (\E verdict \in {0, 1} : PeerAnswers(verdict))
  PROVE  InStep' /\ Taken' /\ Complete'
  <1>1. InStep /\ Taken /\ Complete /\ Parts /\ Repeats
    BY DEF FrameInv
  <1>2. UNCHANGED <<pc, name, mem>> /\ peer \in {"sending", "sent", "again"}
    BY DEF PeerSends, PeerAnswers, PeerEnds, Writes, received
  <1>3. pc \notin SavePC
    BY <1>1, <1>2 DEF Complete
  <1>4. Complete'
    BY <1>2, <1>3 DEF Complete
  <1>5. ASSUME NEW byte \in Bytes, PeerSends(byte) PROVE InStep'
    <2>1. PutsFrame("data", "byte", DD, byte)
      BY <1>5, <1>2 DEF PeerSends, PutsFrame, Follows
    <2> QED
      BY <1>1, <2>1, WritesStep
  <1>6. ASSUME NEW verdict \in {0, 1}, PeerAnswers(verdict) PROVE InStep'
    <2>1. PutsFrame("mark", "verdict", EE, verdict)
      BY <1>6, <1>2 DEF PeerAnswers, PutsFrame, Follows, history
    <2> QED
      BY <1>1, <2>1, WritesStep
  <1>7. ASSUME PeerEnds PROVE InStep'
    <2>1. Len(sent) >= NameLen
      <3>1. Len(file) \in Nat /\ Len(sent) \in Nat
        BY DEF IInv, TypeOK
      <3> QED
        BY <1>1, <1>7, <3>1 DEF PeerEnds, Repeats
    <2>2. PutsFrame("mark", "end", EE, DD)
      BY <1>7, <1>2, <2>1 DEF PeerEnds, PutsFrame, Follows, history
    <2> QED
      BY <1>1, <2>2, WritesStep
  <1>8. /\ Len(sent') \in Nat /\ Len(sent') >= Len(sent)
        /\ \A i \in 1 .. Len(sent) : sent'[i] = sent[i]
    <2>1. sent \in Seq(Bytes \cup {0}) /\ Len(sent) \in Nat
      BY LineFacts
    <2>2. sent' = sent \/ \E b \in Bytes \cup {0} : sent' = Append(sent, b)
      <3>1. ASSUME NEW byte \in Bytes, PeerSends(byte)
            PROVE  \E b \in Bytes \cup {0} : sent' = Append(sent, b)
        BY <3>1 DEF PeerSends
      <3> QED
        BY <3>1 DEF PeerAnswers, PeerEnds, history
    <2> QED
      BY <2>1, <2>2
  <1>9. Taken'
    BY <1>1, <1>2, <1>8, TakenStays
  <1> QED
    BY <1>4, <1>5, <1>6, <1>7, <1>9

(* A byte that arrives is in line as before.                               *)
LEMMA ArriveFrame ==
  ASSUME IInv, FrameInv, Arrive, ~lost'
  PROVE  InStep' /\ Taken' /\ Complete'
  <1>1. /\ ~lost /\ sent' = sent /\ UNCHANGED <<peer, pc, name, mem>>
        /\ wire # <<>> /\ wire' = Tail(wire) /\ fifo' = Append(fifo, Head(wire))
    BY DEF Arrive, received, history
  <1>2. InStep /\ Taken /\ Complete
    BY <1>1 DEF FrameInv
  <1>3. Queue' = Queue
    BY <1>1, LineFacts, ArriveQueue DEF Queue
  <1>4. \A role, before : Framed(role, before)' <=> Framed(role, before)
    BY <1>1, <1>3 DEF Framed
  <1>5. InStep'
    <2>1. Awaited' = Awaited
      BY <1>1 DEF Awaited
    <2> QED
      BY <1>1, <1>2, <1>3, <1>4, <2>1 DEF InStep
  <1>6. Taken' /\ Complete'
    BY <1>1, <1>2 DEF Taken, Complete
  <1> QED
    BY <1>5, <1>6

-----------------------------------------------------------------------------
(* load232 takes the next byte, which is of an awaited role.               *)
LEMMA NextByte ==
  ASSUME IInv, FrameInv, ~lost, NEW at \in ReceivePC, Get(at)
  PROVE  \E x, r, b :
           /\ x \in Awaited /\ Fits(x, got, Len(name) + Len(mem), sent, peer)
           /\ x = "end" => Len(sent) = Len(name) + Len(mem)
           /\ Len(name) + Len(mem) + (IF x = "byte" THEN 1 ELSE 0) <= Len(sent)
           /\ Framed(r, b)'
           /\ b[1] = Len(name) + Len(mem) + (IF x = "byte" THEN 1 ELSE 0)
           /\ IF Queue' = <<>> THEN x \in Ends ELSE <<x, r[1]>> \in Follows
  <1>1. pc = at /\ InStep
    BY DEF Get, FrameInv
  <1>2. PICK role, before :
          /\ Framed(role, before)
          /\ before[1] = Len(name) + Len(mem)
          /\ IF Queue = <<>> THEN pc \in {"name_sync", "data_sync"} ELSE role[1] \in Awaited
    BY <1>1 DEF InStep
  <1>3. /\ Queue # <<>> /\ role[1] \in Roles /\ Fits(role[1], got, before[1], sent, peer)
        /\ before[1] \in 0 .. Len(sent)
        /\ before[1] + (IF role[1] = "byte" THEN 1 ELSE 0) \in 0 .. Len(sent)
        /\ \E r, b :
              /\ Framed(r, b)'
              /\ b[1] = before[1] + (IF role[1] = "byte" THEN 1 ELSE 0)
              /\ IF Queue' = <<>> THEN role[1] \in Ends
                                  ELSE <<role[1], r[1]>> \in Follows
    BY <1>2, TakeByte
  <1>4. PICK r, b :
              /\ Framed(r, b)'
              /\ b[1] = before[1] + (IF role[1] = "byte" THEN 1 ELSE 0)
              /\ IF Queue' = <<>> THEN role[1] \in Ends
                                  ELSE <<role[1], r[1]>> \in Follows
    BY <1>3
  <1>5. role[1] = "end" => before[1] = Len(sent)
    <2> SUFFICES ASSUME role[1] = "end" PROVE before[1] = Len(sent)
      OBVIOUS
    <2>1. /\ before[Len(Queue) + 1] = Len(sent)
          /\ \A i \in 1 .. Len(Queue) :
               /\ IF i = Len(Queue) THEN role[i] \in Ends ELSE <<role[i], role[i + 1]>> \in Follows
               /\ before[i + 1] = before[i] + (IF role[i] = "byte" THEN 1 ELSE 0)
      BY <1>2 DEF Framed
    <2>2. Len(Queue) \in Nat /\ Len(Queue) # 0 /\ Len(sent) \in Nat /\ before[1] \in Nat
      BY <1>3, LineFacts, EmptySeq
    <2> QED
      BY <2>1, <2>2, EndIsLast
  <1>6. role[1] \in Awaited
    BY <1>2, <1>3
  <1>7. before[1] + (IF role[1] = "byte" THEN 1 ELSE 0) <= Len(sent)
    BY <1>3, LineFacts
  <1>8. /\ Fits(role[1], got, Len(name) + Len(mem), sent, peer)
        /\ role[1] = "end" => Len(sent) = Len(name) + Len(mem)
        /\ Len(name) + Len(mem) + (IF role[1] = "byte" THEN 1 ELSE 0) <= Len(sent)
        /\ Framed(r, b)'
        /\ b[1] = Len(name) + Len(mem) + (IF role[1] = "byte" THEN 1 ELSE 0)
        /\ IF Queue' = <<>> THEN role[1] \in Ends ELSE <<role[1], r[1]>> \in Follows
    <2>1. before[1] = Len(name) + Len(mem)
      BY <1>2
    <2>2. Fits(role[1], got, before[1], sent, peer)
      BY <1>3
    <2> QED
      BY <2>1, <2>2, <1>4, <1>5, <1>7, Zenon
  <1> QED
    BY <1>6, <1>8, Zenon

(* load232 stays in step if it goes where the roles that may follow are    *)
(* the awaited ones.                                                       *)
LEMMA StaysInStep ==
  ASSUME NEW x, NEW r, NEW b, Framed(r, b)', b[1] = Len(name') + Len(mem'),
         IF Queue' = <<>> THEN x \in Ends ELSE <<x, r[1]>> \in Follows,
         x \in Ends => pc' \in {"name_sync", "data_sync"},
         Queue' # <<>> => r[1] \in Awaited'
  PROVE  InStep'
  <1>1. IF Queue' = <<>> THEN pc' \in {"name_sync", "data_sync"} ELSE r[1] \in Awaited'
    OBVIOUS
  <1>2. \E role, before :
          /\ Framed(role, before)'
          /\ before[1] = Len(name') + Len(mem')
          /\ IF Queue' = <<>> THEN pc' \in {"name_sync", "data_sync"} ELSE role[1] \in Awaited'
    BY <1>1, Zenon
  <1> QED
    BY <1>2 DEF InStep

LEMMA StartFrame ==
  ASSUME IInv, FrameInv, ~lost, Start \/ Start2
  PROVE  InStep' /\ Taken' /\ Complete'
  <1>1. PICK at \in {"start", "start2"} : Get(at)
    BY DEF Start, Start2
  <1>2. /\ pc = at /\ UNCHANGED <<name, mem, peer, sent>>
        /\ pc' = IF got # DD THEN (IF at = "start" THEN "start" ELSE "idle")
                 ELSE (IF at = "start" THEN "start2" ELSE "name_sync")
    BY <1>1 DEF Start, Start2, Get, received, history
  <1>3. PICK x, r, b :
           /\ x \in Awaited /\ Fits(x, got, Len(name) + Len(mem), sent, peer)
           /\ x = "end" => Len(sent) = Len(name) + Len(mem)
           /\ Len(name) + Len(mem) + (IF x = "byte" THEN 1 ELSE 0) <= Len(sent)
           /\ Framed(r, b)'
           /\ b[1] = Len(name) + Len(mem) + (IF x = "byte" THEN 1 ELSE 0)
           /\ IF Queue' = <<>> THEN x \in Ends ELSE <<x, r[1]>> \in Follows
    BY <1>1, NextByte DEF ReceivePC
  <1>4. x = (IF at = "start" THEN "start" ELSE "second") /\ got = DD
    BY <1>2, <1>3 DEF Awaited, Fits
  <1>5. b[1] = Len(name') + Len(mem')
    BY <1>2, <1>3, <1>4, LineFacts
  <1>6. x \in Ends => pc' \in {"name_sync", "data_sync"}
    BY <1>2, <1>4 DEF Ends
  <1>7. Queue' # <<>> => r[1] \in Awaited'
    BY <1>2, <1>3, <1>4 DEF Follows, Awaited
  <1>8. InStep'
    BY <1>3, <1>5, <1>6, <1>7, StaysInStep
  <1>9. Taken' /\ Complete'
    BY <1>2, <1>4 DEF FrameInv, Taken, Complete, SavePC
  <1> QED
    BY <1>8, <1>9

(* A verdict between the bytes of the name is skipped. It cannot be the    *)
(* end, which the peer does not send before the name.                      *)
LEMMA NameSyncFrame ==
  ASSUME IInv, FrameInv, ~lost, NameSync
  PROVE  InStep' /\ Taken' /\ Complete'
  <1>1. Get("name_sync") /\ pc = "name_sync" /\ UNCHANGED <<name, mem, peer, sent>>
    BY DEF NameSync, Get, received, history
  <1>2. pc' = IF got = DD THEN "name" ELSE "name_sync"
    BY DEF NameSync
  <1>3. PICK x, r, b :
           /\ x \in Awaited /\ Fits(x, got, Len(name) + Len(mem), sent, peer)
           /\ x = "end" => Len(sent) = Len(name) + Len(mem)
           /\ Len(name) + Len(mem) + (IF x = "byte" THEN 1 ELSE 0) <= Len(sent)
           /\ Framed(r, b)'
           /\ b[1] = Len(name) + Len(mem) + (IF x = "byte" THEN 1 ELSE 0)
           /\ IF Queue' = <<>> THEN x \in Ends ELSE <<x, r[1]>> \in Follows
    BY <1>1, NextByte DEF ReceivePC
  <1>4. x \in {"data", "mark", "verdict"}
    BY <1>1, <1>3 DEF Awaited
  <1>5. b[1] = Len(name') + Len(mem') /\ b[1] = Len(name) + Len(mem)
    <2>1. b[1] = Len(name) + Len(mem) + 0
      BY <1>3, <1>4
    <2> QED
      BY <1>1, <2>1, LineFacts
  <1>6. x \in Ends => pc' = "name_sync"
    BY <1>2, <1>3, <1>4 DEF Ends, Fits
  <1>7. Len(name) + Len(mem) < NameLen
    BY <1>1, LineFacts DEF IInv, NameGrows, FrameInv, Parts
  <1>8. Queue' # <<>> => r[1] # "end"
    <2> SUFFICES ASSUME Queue' # <<>>, r[1] = "end" PROVE FALSE
      OBVIOUS
    <2>1. fifo' \in Seq(Byte) /\ wire' \in Seq(Byte)
      BY <1>1, GetStep DEF LineType
    <2>2. Queue' \in Seq(Byte)
      BY <2>1, ConcatProperties DEF Queue
    <2>3. Len(Queue') \in Nat /\ Len(Queue') # 0
      BY <2>2, LenProperties, EmptySeq
    <2>4. /\ b[Len(Queue') + 1] = Len(sent')
          /\ \A i \in 1 .. Len(Queue') :
               /\ IF i = Len(Queue') THEN r[i] \in Ends ELSE <<r[i], r[i + 1]>> \in Follows
               /\ b[i + 1] = b[i] + (IF r[i] = "byte" THEN 1 ELSE 0)
          /\ \A i \in 1 .. Len(Queue') : Fits(r[i], Queue'[i], b[i], sent', peer')
      BY <1>3 DEF Framed
    <2>5. Len(sent') \in Nat /\ b[1] \in Nat
      BY <1>1, <1>5, LineFacts
    <2>6. b[1] = Len(sent')
      BY <2>3, <2>4, <2>5, EndIsLast
    <2>7. 1 \in 1 .. Len(Queue')
      BY <2>3
    <2>8. Len(sent') >= NameLen
      BY <2>4, <2>7 DEF Fits
    <2> QED
      BY <1>5, <1>7, <2>5, <2>6, <2>8
  <1>9. Queue' # <<>> => r[1] \in Awaited'
    <2>1. x = "data" => pc' = "name"
      BY <1>2, <1>3 DEF Fits
    <2>2. x # "data" => pc' = "name_sync"
      BY <1>2, <1>3, <1>4 DEF Fits
    <2> QED
      BY <1>3, <1>4, <1>8, <2>1, <2>2 DEF Follows, Awaited
  <1>10. InStep'
    BY <1>3, <1>5, <1>6, <1>9, StaysInStep
  <1>11. Taken' /\ Complete'
    BY <1>1, <1>2 DEF FrameInv, Taken, Complete, SavePC
  <1> QED
    BY <1>10, <1>11

LEMMA NameByteFrame ==
  ASSUME IInv, FrameInv, ~lost, NameByte
  PROVE  InStep' /\ Taken' /\ Complete'
  <1>1. /\ Get("name") /\ pc = "name" /\ UNCHANGED <<mem, peer, sent>>
        /\ name' = Append(name, Upper(got)) /\ pc' \in {"data_sync", "name_sync"}
    BY DEF NameByte, Get, history
  <1>2. mem = <<>> /\ Len(mem) = 0
    BY <1>1 DEF FrameInv, Parts
  <1>3. PICK x, r, b :
           /\ x \in Awaited /\ Fits(x, got, Len(name) + Len(mem), sent, peer)
           /\ x = "end" => Len(sent) = Len(name) + Len(mem)
           /\ Len(name) + Len(mem) + (IF x = "byte" THEN 1 ELSE 0) <= Len(sent)
           /\ Framed(r, b)'
           /\ b[1] = Len(name) + Len(mem) + (IF x = "byte" THEN 1 ELSE 0)
           /\ IF Queue' = <<>> THEN x \in Ends ELSE <<x, r[1]>> \in Follows
    BY <1>1, NextByte DEF ReceivePC
  <1>4. x = "byte"
    BY <1>1, <1>3 DEF Awaited
  <1>5. name \in Seq(Byte) /\ Len(name) \in Nat
    BY LineFacts
  <1>6. /\ Len(name') = Len(name) + 1 /\ name'[Len(name) + 1] = Upper(got)
        /\ \A i \in 1 .. Len(name) : name'[i] = name[i]
    BY <1>1, <1>5
  <1>7. got = sent[Len(name) + 1] /\ Len(name) + 1 <= Len(sent) /\ b[1] = Len(name') + Len(mem')
    <2>1. Fits("byte", got, Len(name) + Len(mem), sent, peer) /\ Len(name) + Len(mem) = Len(name)
      BY <1>2, <1>3, <1>4, <1>5
    <2> QED
      BY <1>1, <1>2, <1>3, <1>4, <1>5, <1>6, <2>1 DEF Fits
  <1>8. Queue' # <<>> => r[1] \in Awaited'
    BY <1>1, <1>3, <1>4 DEF Follows, Awaited
  <1>9. InStep'
    BY <1>1, <1>3, <1>7, <1>8, StaysInStep
  <1>10. Taken'
    <2>1. ASSUME NEW i \in 1 .. Len(name') PROVE name'[i] = Upper(sent'[i])
      <3>1. CASE i = Len(name) + 1
        BY <1>1, <1>6, <1>7, <3>1
      <3>2. CASE i # Len(name) + 1
        <4>1. i \in 1 .. Len(name)
          BY <1>5, <1>6, <3>2
        <4> QED
          BY <1>1, <1>6, <4>1 DEF FrameInv, Taken
      <3> QED
        BY <3>1, <3>2
    <2>2. Len(name') + Len(mem') <= Len(sent')
      BY <1>1, <1>2, <1>5, <1>6, <1>7
    <2>3. \A i \in 1 .. Len(mem') : mem'[i] = sent'[NameLen + i]
      BY <1>1, <1>2
    <2> QED
      BY <2>1, <2>2, <2>3 DEF Taken
  <1>11. Complete'
    BY <1>1 DEF Complete, SavePC
  <1> QED
    BY <1>9, <1>10, <1>11

LEMMA DataSyncFrame ==
  ASSUME IInv, FrameInv, ~lost, DataSync
  PROVE  InStep' /\ Taken' /\ Complete'
  <1>1. Get("data_sync") /\ pc = "data_sync" /\ UNCHANGED <<name, mem, peer, sent>>
    BY DEF DataSync, Get, received, history
  <1>2. /\ got = DD => pc' = "data"
        /\ got = EE => pc' = "end"
    BY DEF DataSync
  <1>3. PICK x, r, b :
           /\ x \in Awaited /\ Fits(x, got, Len(name) + Len(mem), sent, peer)
           /\ x = "end" => Len(sent) = Len(name) + Len(mem)
           /\ Len(name) + Len(mem) + (IF x = "byte" THEN 1 ELSE 0) <= Len(sent)
           /\ Framed(r, b)'
           /\ b[1] = Len(name) + Len(mem) + (IF x = "byte" THEN 1 ELSE 0)
           /\ IF Queue' = <<>> THEN x \in Ends ELSE <<x, r[1]>> \in Follows
    BY <1>1, NextByte DEF ReceivePC
  <1>4. x \in {"data", "mark"}
    BY <1>1, <1>3 DEF Awaited
  <1>5. b[1] = Len(name') + Len(mem')
    <2>1. b[1] = Len(name) + Len(mem) + 0
      BY <1>3, <1>4
    <2> QED
      BY <1>1, <2>1, LineFacts
  <1>6. pc' = IF x = "data" THEN "data" ELSE "end"
    BY <1>2, <1>3, <1>4 DEF Fits
  <1>7. Queue' # <<>> => r[1] \in Awaited'
    BY <1>3, <1>4, <1>6 DEF Follows, Awaited
  <1>8. InStep'
    BY <1>3, <1>4, <1>5, <1>7, StaysInStep DEF Ends
  <1>9. Taken' /\ Complete'
    BY <1>1, <1>6 DEF FrameInv, Taken, Complete, SavePC
  <1> QED
    BY <1>8, <1>9

LEMMA DataByteFrame ==
  ASSUME IInv, FrameInv, ~lost, DataByte
  PROVE  InStep' /\ Taken' /\ Complete'
  <1>1. /\ Get("data") /\ pc = "data" /\ UNCHANGED <<name, peer, sent>>
        /\ mem' = Append(mem, got) /\ pc' = "data_sync"
    BY DEF DataByte, Get, history
  <1>2. mem \in Seq(Byte) /\ Len(mem) \in Nat /\ Len(name) = NameLen
    BY <1>1, LineFacts DEF FrameInv, Parts
  <1>3. PICK x, r, b :
           /\ x \in Awaited /\ Fits(x, got, Len(name) + Len(mem), sent, peer)
           /\ x = "end" => Len(sent) = Len(name) + Len(mem)
           /\ Len(name) + Len(mem) + (IF x = "byte" THEN 1 ELSE 0) <= Len(sent)
           /\ Framed(r, b)'
           /\ b[1] = Len(name) + Len(mem) + (IF x = "byte" THEN 1 ELSE 0)
           /\ IF Queue' = <<>> THEN x \in Ends ELSE <<x, r[1]>> \in Follows
    BY <1>1, NextByte DEF ReceivePC
  <1>4. x = "byte"
    BY <1>1, <1>3 DEF Awaited
  <1>5. /\ Len(mem') = Len(mem) + 1 /\ mem'[Len(mem) + 1] = got
        /\ \A i \in 1 .. Len(mem) : mem'[i] = mem[i]
    BY <1>1, <1>2
  <1>6. got = sent[NameLen + (Len(mem) + 1)]
    <2>1. Len(name) + Len(mem) + 1 = NameLen + (Len(mem) + 1)
      BY <1>2
    <2>2. got = sent[Len(name) + Len(mem) + 1]
      BY <1>3, <1>4 DEF Fits
    <2> QED
      BY <2>1, <2>2
  <1>7. /\ b[1] = Len(name) + Len(mem) + 1
        /\ Len(name) + Len(mem) + 1 <= Len(sent)
    BY <1>3, <1>4
  <1>8. b[1] = Len(name') + Len(mem') /\ Len(name') + Len(mem') <= Len(sent')
    BY <1>1, <1>2, <1>5, <1>7
  <1>9. Queue' # <<>> => r[1] \in Awaited'
    BY <1>1, <1>3, <1>4 DEF Follows, Awaited
  <1>10. InStep'
    BY <1>1, <1>3, <1>8, <1>9, StaysInStep
  <1>11. Taken'
    <2>1. ASSUME NEW i \in 1 .. Len(mem') PROVE mem'[i] = sent'[NameLen + i]
      <3>1. CASE i = Len(mem) + 1
        BY <1>1, <1>5, <1>6, <3>1
      <3>2. CASE i # Len(mem) + 1
        <4>1. i \in 1 .. Len(mem)
          BY <1>2, <1>5, <3>2
        <4> QED
          BY <1>1, <1>5, <4>1 DEF FrameInv, Taken
      <3> QED
        BY <3>1, <3>2
    <2>2. \A i \in 1 .. Len(name') : name'[i] = Upper(sent'[i])
      BY <1>1 DEF FrameInv, Taken
    <2> QED
      BY <1>8, <2>1, <2>2 DEF Taken
  <1>12. Complete'
    BY <1>1 DEF Complete, SavePC
  <1> QED
    BY <1>10, <1>11, <1>12

(* EE DD is the end, and then all of the file was taken; after a verdict   *)
(* load232 goes on.                                                        *)
LEMMA EndByteFrame ==
  ASSUME IInv, FrameInv, ~lost, EndByte
  PROVE  InStep' /\ Taken' /\ Complete'
  <1>1. Get("end") /\ pc = "end" /\ UNCHANGED <<name, mem, peer, sent>>
    BY DEF EndByte, Get, received, history
  <1>2. pc' = IF got = DD THEN "create" ELSE "data_sync"
    BY DEF EndByte, EndOfFile
  <1>3. PICK x, r, b :
           /\ x \in Awaited /\ Fits(x, got, Len(name) + Len(mem), sent, peer)
           /\ x = "end" => Len(sent) = Len(name) + Len(mem)
           /\ Len(name) + Len(mem) + (IF x = "byte" THEN 1 ELSE 0) <= Len(sent)
           /\ Framed(r, b)'
           /\ b[1] = Len(name) + Len(mem) + (IF x = "byte" THEN 1 ELSE 0)
           /\ IF Queue' = <<>> THEN x \in Ends ELSE <<x, r[1]>> \in Follows
    BY <1>1, NextByte DEF ReceivePC
  <1>4. x \in {"verdict", "end"}
    BY <1>1, <1>3 DEF Awaited
  <1>5. Taken'
    BY <1>1 DEF FrameInv, Taken
  <1>6. CASE x = "verdict"
    <2>1. pc' = "data_sync"
      BY <1>2, <1>3, <1>6 DEF Fits
    <2>2. b[1] = Len(name') + Len(mem')
      <3>1. b[1] = Len(name) + Len(mem) + 0
        BY <1>3, <1>6
      <3> QED
        BY <1>1, <3>1, LineFacts
    <2>3. Queue' # <<>> => r[1] \in Awaited'
      BY <1>3, <1>6, <2>1 DEF Follows, Awaited
    <2>4. InStep'
      BY <1>3, <2>1, <2>2, <2>3, StaysInStep
    <2>5. Complete'
      BY <2>1 DEF Complete, SavePC
    <2> QED
      BY <1>5, <2>4, <2>5
  <1>7. CASE x = "end"
    <2>1. pc' = "create" /\ peer = "ended" /\ Len(sent) = Len(name) + Len(mem)
      BY <1>2, <1>3, <1>7 DEF Fits
    <2>2. Len(name) = NameLen
      BY <1>1 DEF FrameInv, Parts
    <2>3. InStep' /\ Complete'
      BY <1>1, <2>1, <2>2 DEF InStep, Complete, ReceivePC
    <2> QED
      BY <1>5, <2>3
  <1> QED
    BY <1>4, <1>6, <1>7

(* Saving takes nothing from the line.                                     *)
LEMMA SaveFrame ==
  ASSUME IInv, FrameInv, ~lost, Save
  PROVE  InStep' /\ Taken' /\ Complete'
  <1>1. UNCHANGED <<name, mem, peer, sent>> /\ pc \in SavePC /\ pc' \in SavePC \cup {"idle"}
    BY DEF Save, Create, Write, Close, OnCard, received, history, SavePC
  <1> QED
    BY <1>1 DEF FrameInv, InStep, Taken, Complete, SavePC, ReceivePC

LEMMA FrameStep ==
  ASSUME IInv, FrameInv, Next
  PROVE  FrameInv'
  <1>1. Parts' /\ Repeats'
    BY PartsStep, RepeatsStep DEF FrameInv
  <1> SUFFICES ASSUME ~lost' PROVE InStep' /\ Taken' /\ Complete'
    BY <1>1 DEF FrameInv
  <1>2. CASE PeerStarts
    BY <1>2, PeerStartsFrame DEF FrameInv
  <1>3. CASE PeerEnds \/ (\E byte \in Bytes : PeerSends(byte))
                      \/ (\E verdict \in {0, 1} : PeerAnswers(verdict))
    <2>1. ~lost
      BY <1>3 DEF PeerEnds, PeerSends, PeerAnswers
    <2> QED
      BY <1>3, <2>1, PeerGoesOn
  <1>4. CASE Arrive
    BY <1>4, ArriveFrame
  <1>5. CASE Load
    BY <1>5 DEF Load
  <1>6. CASE Receive
    <2>1. ~lost
      BY <1>6 DEF Receive, Start, Start2, NameSync, NameByte, DataSync, DataByte, EndByte, Get
    <2> QED
      BY <1>6, <2>1, StartFrame, NameSyncFrame, NameByteFrame, DataSyncFrame,
         DataByteFrame, EndByteFrame DEF Receive
  <1>7. CASE Save
    <2>1. ~lost
      BY <1>7 DEF Save, Create, Write, Close, OnCard
    <2> QED
      BY <1>7, <2>1, SaveFrame
  <1> QED
    BY <1>2, <1>3, <1>4, <1>5, <1>6, <1>7 DEF Next, Peer

LEMMA FrameStutters ==
  ASSUME FrameInv, UNCHANGED vars
  PROVE  FrameInv'
  <1>1. UNCHANGED <<wire, fifo, peer, pc, name, mem, file, sent, lost>>
    BY DEF vars, line, received, history
  <1>2. Queue' = Queue /\ Awaited' = Awaited
    BY <1>1 DEF Queue, Awaited
  <1>3. \A role, before : Framed(role, before)' <=> Framed(role, before)
    BY <1>1, <1>2 DEF Framed
  <1>4. InStep' <=> InStep
    BY <1>1, <1>2, <1>3 DEF InStep
  <1> QED
    BY <1>1, <1>4 DEF FrameInv, Parts, Repeats, Taken, Complete

(* When nothing was dropped, load232 has, when it begins to save, one byte *)
(* for each one that the peer sent, and, when none was sent again, those   *)
(* of the name and the file, all of them, in order, for every length of    *)
(* the name, the file and the FIFO.                                        *)
THEOREM ReceivesWhatIsSent == Spec => []ReceivedIsSent
  <1>1. IInv /\ FrameInv /\ [Next]_vars => FrameInv'
    BY FrameStep, FrameStutters
  <1>2. IInv /\ FrameInv => ReceivedIsSent
    <2> SUFFICES ASSUME IInv, FrameInv, pc \in SavePC, ~lost
                 PROVE  /\ peer = "ended" /\ NameLen + Len(mem) = Len(sent)
                        /\ file = sent =>
                              /\ mem = SubSeq(file, NameLen + 1, Len(file))
                              /\ name = [i \in 1 .. NameLen |-> Upper(file[i])]
      BY DEF ReceivedIsSent, SavePC, FrameInv, Repeats
    <2>1. /\ name \in Seq(Byte) /\ mem \in Seq(Byte) /\ sent \in Seq(Bytes \cup {0})
          /\ Len(mem) \in Nat /\ Len(sent) \in Nat
      BY LineFacts
    <2>2. /\ peer = "ended" /\ Len(sent) = NameLen + Len(mem) /\ Len(name) = NameLen
          /\ \A i \in 1 .. Len(name) : name[i] = Upper(sent[i])
          /\ \A i \in 1 .. Len(mem) : mem[i] = sent[NameLen + i]
      BY DEF FrameInv, Parts, Taken, Complete, SavePC
    <2>3. name = [i \in 1 .. NameLen |-> Upper(sent[i])]
      BY <2>1, <2>2
    <2>4. mem = SubSeq(sent, NameLen + 1, Len(sent))
      <3>1. NameLen + 1 \in 1 .. Len(sent) + 1 /\ Len(sent) \in NameLen .. Len(sent)
        BY <2>1, <2>2, Load232Assumption
      <3>2. PICK s : s = SubSeq(sent, NameLen + 1, Len(sent))
        OBVIOUS
      <3>3. s \in Seq(Bytes \cup {0}) /\ Len(s) = Len(mem)
        BY <2>1, <2>2, <3>1, <3>2, Load232Assumption, SubSeqProperties
      <3>4. \A i \in 1 .. Len(s) : s[i] = mem[i]
        BY <2>1, <2>2, <3>1, <3>2, <3>3, Load232Assumption, SubSeqProperties
      <3> QED BY <2>1, <3>2, <3>3, <3>4, SeqEqual
    <2> QED
      BY <2>2, <2>3, <2>4
  <1> QED
    BY Invariant, InitFrame, <1>1, <1>2, PTL DEF Spec
=============================================================================
