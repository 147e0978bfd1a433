------------------------------- MODULE Send232 ------------------------------
(***************************************************************************)
(* The program send232d of the PC, as the peer of load232: it asks for the *)
(* communication, waits for DD DD, and sends every byte until it has come  *)
(* back. The bridge passes bytes on in both directions.                    *)
(***************************************************************************)
EXTENDS Load232

VARIABLES
    at,      \* where send232d is: "off", "confirm", "confirm2", "send",
             \* "again", "echo", "echo2", "quit"
    back,    \* the line from load232 to send232d
    dados    \* the byte that it sends

program == <<at, back, dados>>
allVars == <<vars, program>>

FF == 255

InitBoth == Init /\ at = "off" /\ back = <<>> /\ dados = 0

-----------------------------------------------------------------------------
AbreComunicacao ==
    /\ at = "off" /\ at' = "confirm" /\ PeerStarts
    /\ UNCHANGED <<back, dados>>

(* RecebeComando: one byte, as long as it may take.                        *)
Recebe(here) == at = here /\ back # <<>> /\ back' = Tail(back) /\ UNCHANGED dados
RetInput == Head(back)

WaitDD(here, next) ==
    /\ Recebe(here) /\ at' = IF RetInput = DD THEN next ELSE here
    /\ UNCHANGED vars

Confirm == WaitDD("confirm", "confirm2")

Confirm2 ==
    /\ Recebe("confirm2") /\ at' = IF RetInput = DD THEN "send" ELSE "quit"
    /\ UNCHANGED vars

(* The name and one byte more, then the file with an FF for its end.       *)
NameOrFile == IF Len(file) <= NameLen THEN Bytes ELSE Bytes \cup {FF}

EnviaByte(byte) ==
    /\ at \in {"send", "again"} /\ (at = "again" => byte = dados)
    /\ at' = "echo" /\ dados' = byte
    /\ PeerSends(byte) /\ UNCHANGED back

Echo == WaitDD("echo", "echo2")

Compara ==
    /\ Recebe("echo2") /\ at' = IF RetInput = dados THEN "send" ELSE "again"
    /\ PeerAnswers(IF RetInput = dados THEN 0 ELSE 1)

(* feof, or 21 times FF.                                                   *)
Finaliza ==
    /\ at = "send" /\ Len(file) > NameLen + 1 /\ dados = FF
    /\ at' = "quit" /\ PeerEnds
    /\ UNCHANGED <<back, dados>>

Send232d ==
    \/ AbreComunicacao \/ Confirm \/ Confirm2 \/ Echo \/ Compara \/ Finaliza
    \/ \E byte \in NameOrFile : EnviaByte(byte)

(* load232 reads its line and writes to no other.                          *)
Load232Step == (Arrive \/ Load \/ Receive \/ Save) /\ UNCHANGED program

NextBoth == Send232d \/ Load232Step

(* The user starts the one and the other; both then go on by themselves.   *)
SpecBoth ==
    /\ InitBoth /\ [][NextBoth]_allVars
    /\ WF_allVars(Send232d) /\ WF_allVars((Arrive \/ Receive \/ Save) /\ UNCHANGED program)

-----------------------------------------------------------------------------
(* "-> DDDD - COMUNICACAO ESTABELECIDA": when load232 has said that the    *)
(* communication is established, send232d gets to know it, and goes on.    *)
BothEstablished == (pc = "name_sync" /\ at = "confirm") ~> at # "confirm"
=============================================================================
