------------------------------- MODULE Load232 -------------------------------
(***************************************************************************)
(* The command LOAD232: receive a file over the serial line and save it on *)
(* the SD card. The UART keeps received bytes in its FIFO and drops what   *)
(* comes when the FIFO is full; load232 polls it.                          *)
(*                                                                         *)
(* The peer is whoever speaks the protocol of send232d.cpp: it writes      *)
(* frames of two bytes, DD d for a byte of the name or of the file, EE 00  *)
(* or EE 01 for its verdict, and EE DD for the end. A byte that it has     *)
(* rejected, with EE 01, it sends again. It is free in when it writes its  *)
(* frames; Send232 has the program that the repository gives.              *)
(***************************************************************************)
EXTENDS Integers, Sequences

CONSTANTS
    Bytes,     \* what a name or a file may hold
    NameLen,   \* bytes of a name, 15 in load232
    Chunk,     \* bytes to an f_write, 128 in the code
    Depth,     \* entries of the UART's receive FIFO, 16
    MaxSent    \* bound: bytes that the peer sends, again or not

ASSUME Load232Assumption ==
    /\ Bytes \subseteq 0 .. 255
    /\ NameLen \in Nat \ {0} /\ Chunk \in Nat \ {0} /\ Depth \in Nat \ {0}
    /\ MaxSent \in Nat

DD == 221
EE == 238

VARIABLES
    wire,   \* what the peer has written and the UART not received
    fifo,   \* what the UART has received and load232 not read
    peer,   \* "idle"; "sending"; "sent": a byte, with no verdict yet;
            \* "again": it has to send that byte once more; "ended"
    pc,     \* where load232 is; "idle" is the shell
    name,   \* pFileName
    mem,    \* the bytes at vMemSystemArea; its length is pCount
    ix,     \* how much of mem has been given to f_write
    disk,   \* the file on the card
    said    \* the last thing that load232 told the user

(* History variables.                                                      *)
VARIABLES
    file,     \* the bytes of the name and the file that the peer has sent
    sent,     \* the same with those that it has sent again
    lost,     \* a byte of this transfer was dropped, or load232 was not
              \* there when it began
    trouble   \* f_write wrote less than it was given

line     == <<wire, fifo>>
received == <<name, mem>>
card     == <<ix, disk, trouble>>
history  == <<file, sent>>
vars     == <<line, peer, pc, received, card, said, history, lost>>

(* What was sent matters only while nothing was lost; then its length does. *)
Forgotten(s) == [i \in 1 .. Len(s) |-> 0]
Forget == file' = Forgotten(file) /\ sent' = Forgotten(sent)

Init ==
    /\ wire = <<>> /\ fifo = <<>> /\ peer = "idle"
    /\ pc = "idle" /\ name = <<>> /\ mem = <<>> /\ said = "nothing"
    /\ ix = 0 /\ disk = <<>> /\ trouble = FALSE
    /\ file = <<>> /\ sent = <<>> /\ lost = FALSE

-----------------------------------------------------------------------------
(* The peer and the line.                                                  *)

Writes(first, second) ==
    /\ wire = <<>> /\ wire' = <<first, second>>
    /\ UNCHANGED <<fifo, pc, received, card, said>>

(* Bound: while load232 receives, no peer starts anew.                     *)
PeerStarts ==
    /\ peer \in {"idle", "ended"} /\ peer' = "sending"
    /\ pc \in {"idle", "start"}
    /\ Writes(DD, DD)
    /\ file' = <<>> /\ sent' = <<>>
    /\ lost' = (pc # "start" \/ fifo # <<>>)

PeerSends(byte) ==
    /\ peer \in {"sending", "sent", "again"} /\ peer' = "sent"
    /\ Len(sent) < MaxSent
    /\ Writes(DD, byte)
    /\ LET kept == IF lost THEN 0 ELSE byte
       IN  /\ sent' = Append(sent, kept)
           /\ IF peer = "again" THEN file[Len(file)] = kept /\ UNCHANGED file
              ELSE file' = Append(file, kept)
    /\ UNCHANGED lost

PeerAnswers(verdict) ==
    /\ peer = "sent" /\ peer' = IF verdict = 0 THEN "sending" ELSE "again"
    /\ Writes(EE, verdict)
    /\ UNCHANGED <<history, lost>>

PeerEnds ==
    /\ peer \in {"sending", "sent"} /\ peer' = "ended"
    /\ Len(file) >= NameLen
    /\ Writes(EE, DD)
    /\ UNCHANGED <<history, lost>>

Arrive ==
    /\ wire # <<>> /\ wire' = Tail(wire)
    /\ IF Len(fifo) < Depth
       THEN fifo' = Append(fifo, Head(wire)) /\ UNCHANGED lost
       ELSE lost' = TRUE /\ UNCHANGED fifo
    /\ IF lost' THEN Forget ELSE UNCHANGED history
    /\ UNCHANGED <<peer, pc, received, card, said>>

Peer == \/ PeerStarts \/ PeerEnds
        \/ \E byte \in Bytes : PeerSends(byte)
        \/ \E verdict \in {0, 1} : PeerAnswers(verdict)

-----------------------------------------------------------------------------
(* load232 receives.                                                       *)

(* toupper *)
Upper(b) == IF b \in 97 .. 122 THEN b - 32 ELSE b

(* getc: one byte of the FIFO.                                             *)
Get(at) ==
    /\ pc = at /\ fifo # <<>> /\ fifo' = Tail(fifo)
    /\ UNCHANGED <<wire, peer, card, history, lost>>
got == Head(fifo)

(* The command begins with flush_uart; a transfer under way is cut off. It *)
(* is a new command with new local variables, and the last file is history *)
(* (the model forgets it).                                                 *)
Load ==
    /\ pc = "idle" /\ pc' = "start"
    /\ fifo' = <<>> /\ name' = <<>> /\ mem' = <<>> /\ said' = "nothing"
    /\ ix' = 0 /\ disk' = <<>> /\ trouble' = FALSE
    /\ lost' = TRUE /\ Forget
    /\ UNCHANGED <<wire, peer>>

Start ==
    /\ Get("start")
    /\ pc' = IF got = DD THEN "start2" ELSE "start"
    /\ UNCHANGED <<received, said>>

Start2 ==
    /\ Get("start2")
    /\ pc' = IF got = DD THEN "name_sync" ELSE "idle"
    /\ said' = IF got = DD THEN said ELSE "wrong_start"
    /\ UNCHANGED received

NameSync ==
    /\ Get("name_sync")
    /\ pc' = IF got = DD THEN "name" ELSE "name_sync"
    /\ UNCHANGED <<received, said>>

(* "if (pCount == 15) break"; the mutant stops one byte later.             *)
NameCompleteLate(n) == n = NameLen + 1
NameComplete(n) == n = NameLen

NameByte ==
    /\ Get("name")
    /\ name' = Append(name, Upper(got))
    /\ pc' = IF NameComplete(Len(name) + 1) THEN "data_sync" ELSE "name_sync"
    /\ UNCHANGED <<mem, said>>

DataSync ==
    /\ Get("data_sync")
    /\ pc' = CASE got = DD -> "data" [] got = EE -> "end" [] OTHER -> "data_sync"
    /\ UNCHANGED <<received, said>>

DataByte ==
    /\ Get("data") /\ pc' = "data_sync"
    /\ mem' = Append(mem, got)
    /\ UNCHANGED <<name, said>>

(* Only EE DD ends the file; the mutant ends it at a verdict, too.         *)
EndOfFileAny == TRUE
EndOfFileNever == FALSE
EndOfFile == got = DD

EndByte ==
    /\ Get("end")
    /\ pc' = IF EndOfFile THEN "create" ELSE "data_sync"
    /\ UNCHANGED <<received, said>>

Receive == \/ Start \/ Start2 \/ NameSync \/ NameByte
           \/ DataSync \/ DataByte \/ EndByte

-----------------------------------------------------------------------------
(* load232 saves what it received.                                         *)

OnCard == UNCHANGED <<line, peer, received, history, lost>>

(* f_open, which may fail.                                                 *)
Create ==
    /\ pc = "create" /\ OnCard
    /\ \/ pc' = "write" /\ ix' = 0 /\ disk' = <<>> /\ trouble' = FALSE /\ UNCHANGED said
       \/ pc' = "idle" /\ said' = "cannot_create" /\ UNCHANGED card

PieceAlwaysWhole == Chunk
Piece == IF Len(mem) - ix > Chunk THEN Chunk ELSE Len(mem) - ix

LastPieceEarly == ix + 2 * Chunk >= Len(mem)
LastPiece == ix + Chunk >= Len(mem)

(* f_write writes the piece, or a part of it when the card is full or      *)
(* fails. A full card is no error to FatFs, and load232 does not look at   *)
(* nBytesWritten; after an error it stops writing.                         *)
Write ==
    /\ pc = "write" /\ OnCard /\ UNCHANGED said
    /\ \E n \in 0 .. Piece :
          /\ trouble => n = 0
          /\ disk' = disk \o SubSeq(mem, ix + 1, ix + n)
          /\ trouble' = (trouble \/ n < Piece)
    /\ \/ pc' = (IF LastPiece THEN "close" ELSE "write") /\ ix' = ix + Chunk
       \/ trouble' /\ pc' = "close" /\ UNCHANGED ix

Close ==
    /\ pc = "close" /\ pc' = "idle" /\ OnCard
    /\ said' \in {"saved", "not_saved"}
    /\ UNCHANGED card

Save == Create \/ Write \/ Close

Next == Peer \/ Arrive \/ Load \/ Receive \/ Save

Spec == Init /\ [][Next]_vars

(* load232 polls without a pause and its calls return; the line delivers.  *)
FairSpec == Spec /\ WF_vars(Receive \/ Save) /\ WF_vars(Arrive)

-----------------------------------------------------------------------------
PC == {"idle", "start", "start2", "name_sync", "name", "data_sync", "data",
       "end", "create", "write", "close"}

TypeOK ==
    /\ wire \in Seq(0 .. 255) /\ fifo \in Seq(0 .. 255) /\ Len(fifo) <= Depth
    /\ peer \in {"idle", "sending", "sent", "again", "ended"}
    /\ pc \in PC
    /\ name \in Seq(0 .. 255) /\ Len(name) <= NameLen
    /\ mem \in Seq(0 .. 255) /\ disk \in Seq(0 .. 255) /\ ix \in Nat
    /\ file \in Seq(Bytes \cup {0}) /\ sent \in Seq(Bytes \cup {0})
    /\ lost \in BOOLEAN /\ trouble \in BOOLEAN
    /\ said \in {"nothing", "wrong_start", "cannot_create", "saved", "not_saved"}

(* load232 gives f_write only bytes that it received: a piece neither      *)
(* begins nor ends after them, though 128 bytes to a piece may not fit.    *)
WritesWhatItReceived ==
    pc = "write" => ix <= Len(mem) /\ Piece \in 0 .. Len(mem) - ix

(* A card without trouble holds what load232 received, whole, in order and *)
(* nothing else, when load232 says that the file is saved.                 *)
SavedIsReceived == said = "saved" /\ ~trouble => disk = mem

(* When nothing was dropped, load232 takes one byte from each DD frame of  *)
(* the peer, also from those whose byte is DD or EE, and ends the file     *)
(* when, and not before, the peer did. It looks at no verdict: of a byte   *)
(* that the peer rejects and sends again it keeps both. When no byte was   *)
(* sent again, what it has is the name and the file, byte for byte.        *)
ReceivedIsSent ==
    pc \in {"create", "write", "close"} /\ ~lost =>
        /\ peer = "ended"
        /\ NameLen + Len(mem) = Len(sent)
        /\ Len(sent) = Len(file) =>
              /\ mem = SubSeq(file, NameLen + 1, Len(file))
              /\ name = [i \in 1 .. NameLen |-> Upper(file[i])]

(* And then load232 does end: the shell comes back.                        *)
TransferEnds == (peer = "ended" /\ ~lost) ~> (pc = "idle" \/ lost)

(* "File Saved..." is what load232 says of a file that is on the card.     *)
SavedMeansWritten == said = "saved" => disk = mem
=============================================================================
