--------------------------- MODULE KeyQueueProofs ---------------------------
(* What TLAPS proves of KeyQueue, for every size of the queue.             *)
EXTENDS KeyQueue, SequenceTheorems, TLAPS

USE KeyQueueAssumption DEF KeyQueueAssumption, Raised, NotEmpty, MoreToShift

-----------------------------------------------------------------------------
(* The count and the indices: getKey is past "icount > 0" wherever it uses *)
(* an index, and the handler only raises the count.                        *)
Busy == {"load", "store", "clr_ix", "clr", "dec_ix", "dec"}

IndexInv ==
    /\ TypeOK
    /\ kpc \in Busy => icount >= 1
    /\ kpc \in {"load", "store"} => kix <= icount
    /\ kpc = "store" => kreg \in 0 .. 255
    /\ kpc \in {"clr", "dec"} => kreg >= 1 /\ kreg <= icount

LEMMA NoneTyped == <<>> \in Seq(0 .. 255) /\ Len(<<>>) = 0
BY EmptySeq

LEMMA InitIndexInv == Init => IndexInv
<1> SUFFICES ASSUME Init PROVE IndexInv
  OBVIOUS
<1>1. dirty \in BOOLEAN
  BY Zenon DEF Init
<1>2. keyBuffer \in [0 .. Cap -> 0 .. 255]
  BY DEF Init
<1>3. /\ icount = 0 /\ kpc = "idle" /\ kix = 1 /\ kreg = 0 /\ key = 0
      /\ typed = <<>> /\ want = 0 /\ lost = FALSE
  BY DEF Init
<1>4. typed \in Seq(0 .. 255) /\ lost \in BOOLEAN
  BY <1>3, NoneTyped
<1>5. 0 \in 0 .. Cap /\ 0 \in 0 .. 255 /\ 1 \in 1 .. Cap + 1
  OBVIOUS
<1>6. TypeOK
  BY <1>1, <1>2, <1>3, <1>4, <1>5 DEF TypeOK, KPC
<1>7. QED
  BY <1>3, <1>6 DEF IndexInv, Busy

LEMMA PushTypeOK ==
    ASSUME IndexInv, NEW b \in 0 .. 255, Push(b)
    PROVE  /\ icount' \in 0 .. Cap /\ icount' >= icount
           /\ typed' \in Seq(0 .. 255) /\ lost' \in BOOLEAN
           /\ kpc' = kpc /\ kix' = kix /\ kreg' = kreg /\ key' = key
           /\ want' = want /\ dirty' = dirty
<1>1. icount \in 0 .. Cap /\ typed \in Seq(0 .. 255)
  BY DEF IndexInv, TypeOK
<1>2. /\ icount' = IF icount < Cap THEN icount + 1 ELSE icount
      /\ lost' = (lost \/ icount = Cap \/ Window)
      /\ typed' = IF lost' THEN <<>> ELSE Append(typed, b)
      /\ UNCHANGED <<kpc, kix, kreg, key, want, dirty>>
  BY DEF Push, getter
<1>3. typed' \in Seq(0 .. 255)
  BY <1>1, <1>2, NoneTyped, AppendProperties
<1>4. QED  BY <1>1, <1>2, <1>3

LEMMA PushKeepsIndexInv ==
    ASSUME IndexInv, NEW b \in 0 .. 255, Push(b),
           keyBuffer' \in [0 .. Cap -> 0 .. 255]
    PROVE  IndexInv'
<1>1. /\ icount' \in 0 .. Cap /\ icount' >= icount
      /\ typed' \in Seq(0 .. 255) /\ lost' \in BOOLEAN
      /\ kpc' = kpc /\ kix' = kix /\ kreg' = kreg /\ key' = key
      /\ want' = want /\ dirty' = dirty
  BY PushTypeOK
<1>2. QED
  BY <1>1 DEF IndexInv, TypeOK, KPC, Busy

LEMMA NextIndexInv == IndexInv /\ [Next]_vars => IndexInv'
<1> SUFFICES ASSUME IndexInv, [Next]_vars PROVE IndexInv'
  OBVIOUS
<1>0. TypeOK
  BY DEF IndexInv
<1>1. CASE Call
  BY <1>1 DEF Call, IndexInv, TypeOK, KPC, Busy, queue, history
<1>2. CASE Read
  <2>1. keyBuffer[0] \in 0 .. 255
    BY <1>0 DEF TypeOK
  <2>2. typed' \in Seq(0 .. 255) /\ want' \in 0 .. 255
    BY <1>0, <1>2, NoneTyped, HeadTailProperties DEF Read, TypeOK
  <2>3. /\ kpc = "read" /\ kpc' = "test" /\ key' = keyBuffer[0]
        /\ keyBuffer' = keyBuffer /\ icount' = icount /\ kix' = kix /\ kreg' = kreg
        /\ lost' = lost /\ dirty' = dirty
    BY <1>2 DEF Read, queue
  <2>4. QED
    BY <2>1, <2>2, <2>3 DEF IndexInv, TypeOK, KPC, Busy
<1>3. CASE Test
  <2>1. /\ kpc = "test" /\ kpc' = (IF icount > 0 THEN "load" ELSE "idle")
        /\ UNCHANGED <<keyBuffer, icount, key, typed, want, lost, dirty, kreg>>
        /\ kix' = 1
    BY <1>3 DEF Test, queue, history
  <2>2. QED
    BY <2>1 DEF IndexInv, TypeOK, KPC, Busy
<1>4. CASE Load
  <2>1. keyBuffer[kix] \in 0 .. 255
    BY <1>4 DEF Load, IndexInv, TypeOK, Busy
  <2>2. QED
    BY <1>4, <2>1 DEF Load, IndexInv, TypeOK, KPC, Busy, queue, history
<1>5. CASE Shift
  BY <1>5 DEF Shift, IndexInv, TypeOK, KPC, Busy, history
<1>6. CASE ClearIndex
  BY <1>6 DEF ClearIndex, IndexInv, TypeOK, KPC, Busy, queue, history
<1>7. CASE Clear
  BY <1>7 DEF Clear, IndexInv, TypeOK, KPC, Busy, history
<1>8. CASE DecrementIndex
  BY <1>8 DEF DecrementIndex, IndexInv, TypeOK, KPC, Busy, queue, history
<1>9. CASE Decrement
  BY <1>9 DEF Decrement, IndexInv, TypeOK, KPC, Busy, history
<1>10. ASSUME NEW b \in Bytes, Store(b) PROVE IndexInv'
  <2>1. b \in 0 .. 255
    OBVIOUS
  <2>2. keyBuffer' \in [0 .. Cap -> 0 .. 255]
    BY <1>0, <1>10, <2>1 DEF Store, TypeOK
  <2>3. Push(b)
    BY <1>10 DEF Store
  <2>4. QED
    BY <2>1, <2>2, <2>3, PushKeepsIndexInv
<1>11. CASE CountOnly
  <2>1. keyBuffer[icount] \in 0 .. 255
    BY <1>0 DEF TypeOK
  <2>2. CASE icount < Cap
    <3>1. Push(keyBuffer[icount]) /\ keyBuffer' \in [0 .. Cap -> 0 .. 255]
      BY <1>0, <1>11, <2>2 DEF CountOnly, TypeOK
    <3>2. QED
      BY <2>1, <3>1, PushKeepsIndexInv
  <2>3. CASE ~(icount < Cap)
    BY <1>11, <2>3 DEF CountOnly, IndexInv, TypeOK, KPC, Busy, getter, history
  <2>4. QED  BY <2>2, <2>3
<1>12. CASE UNCHANGED vars
  BY <1>12 DEF vars, queue, getter, history, IndexInv, TypeOK, KPC, Busy
<1>13. QED
  BY <1>1, <1>2, <1>3, <1>4, <1>5, <1>6, <1>7, <1>8, <1>9, <1>10, <1>11, <1>12
     DEF Next, Step, Interrupt

(* The counters stay within the queue, whatever the interleaving.          *)
THEOREM TypeCorrect == Spec => []TypeOK
<1>1. IndexInv => TypeOK
  BY DEF IndexInv
<1>2. QED  BY InitIndexInv, NextIndexInv, <1>1, PTL DEF Spec

(* getKey never leaves keyBuffer by more than the byte after it, and never *)
(* decrements a count of zero.                                             *)
THEOREM IndicesSafe == Spec => []IndexSafe
<1>1. IndexInv => IndexSafe
  BY DEF IndexInv, IndexSafe, TypeOK, Busy
<1>2. QED  BY InitIndexInv, NextIndexInv, <1>1, PTL DEF Spec

-----------------------------------------------------------------------------
(* The order of the keys. As long as nothing is lost, the queue and the    *)
(* bytes typed agree at every access of getKey: before it, entry i - 1     *)
(* holds typed byte i; once the oldest byte is read, the entries already   *)
(* shifted do so and the others are one entry further; and with a buffer   *)
(* zero at boot the free entries are zero.                                 *)
Settled(a, b) == \A i \in a .. b : keyBuffer[i - 1] = typed[i]
Ahead(a, b)   == \A i \in a .. b : keyBuffer[i] = typed[i]
Free(n)       == ~dirty => \A i \in n .. Cap : keyBuffer[i] = 0
Answered      == key = want \/ (dirty /\ want = 0)
Closing       == {"clr_ix", "clr", "dec_ix", "dec"}

AtRest    == kpc \in {"idle", "read"} =>
                 Len(typed) = icount /\ Settled(1, icount) /\ Free(icount)
AtTest    == kpc = "test" =>
                 IF icount = 0 THEN Len(typed) = 0 /\ Free(0)
                 ELSE Len(typed) = icount - 1 /\ Ahead(1, icount - 1) /\ Free(icount)
AtShift   == kpc \in {"load", "store"} =>
                 /\ Len(typed) = icount - 1 /\ Free(icount)
                 /\ Settled(1, kix - 1) /\ Ahead(kix, icount - 1)
AtStore   == kpc = "store" =>
                 /\ kix < icount => kreg = typed[kix]
                 /\ kix = icount /\ ~dirty => kreg = 0
AtClosing == kpc \in Closing =>
                 /\ Len(typed) = icount - 1 /\ Free(icount - 1)
                 /\ Settled(1, icount - 1)
                 /\ kpc \in {"clr", "dec"} => kreg = icount
AtAnswer  == kpc # "read" => Answered

OrderInv == ~lost => /\ AtRest /\ AtTest /\ AtShift /\ AtStore
                     /\ AtClosing /\ AtAnswer

LEMMA InitOrderInv == Init => OrderInv
<1> SUFFICES ASSUME Init PROVE OrderInv
  OBVIOUS
<1>1. /\ icount = 0 /\ kpc = "idle" /\ key = 0 /\ typed = <<>> /\ want = 0
  BY DEF Init
<1>2. Free(0)
  <2>1. SUFFICES ASSUME ~dirty, NEW i \in 0 .. Cap PROVE keyBuffer[i] = 0
    BY DEF Free
  <2>2. QED  BY <2>1, Zenon DEF Init
<1>3. AtRest /\ AtAnswer
  BY <1>1, <1>2, NoneTyped DEF AtRest, AtAnswer, Settled, Answered
<1>4. AtTest /\ AtShift /\ AtStore /\ AtClosing
  BY <1>1 DEF AtTest, AtShift, AtStore, AtClosing, Closing
<1>5. QED  BY <1>3, <1>4 DEF OrderInv

(* A byte that joins the queue outside Window goes behind the others.      *)
LEMMA PushKeepsOrder ==
    ASSUME IndexInv, OrderInv, NEW b \in 0 .. 255, Push(b),
           keyBuffer'[icount] = b,
           \A i \in 0 .. Cap : i # icount => keyBuffer'[i] = keyBuffer[i]
    PROVE  OrderInv'
<1> SUFFICES ASSUME ~lost' PROVE (AtRest /\ AtTest /\ AtShift /\ AtStore
                                    /\ AtClosing /\ AtAnswer)'
  BY DEF OrderInv
<1>1. /\ icount \in 0 .. Cap /\ typed \in Seq(0 .. 255) /\ Len(typed) \in Nat
      /\ kix \in 1 .. Cap + 1 /\ kpc \in KPC
      /\ kpc \in Busy => icount >= 1
      /\ kpc \in {"load", "store"} => kix <= icount
  BY LenProperties DEF IndexInv, TypeOK
<1>2. /\ ~lost /\ icount # Cap /\ ~Window
      /\ typed' = Append(typed, b)
  BY DEF Push
<1>3. icount' = icount + 1
  BY <1>1, <1>2 DEF Push
<1>4. /\ kpc' = kpc /\ kix' = kix /\ kreg' = kreg /\ key' = key
      /\ want' = want /\ dirty' = dirty
  BY PushTypeOK
<1>5. /\ Len(typed') = Len(typed) + 1
      /\ \A i \in 1 .. Len(typed) : typed'[i] = typed[i]
      /\ typed'[Len(typed) + 1] = b
  BY <1>1, <1>2, AppendProperties
<1>6. AtRest /\ AtTest /\ AtShift /\ AtStore /\ AtClosing /\ AtAnswer
  BY <1>2 DEF OrderInv
<1>7. ASSUME Free(icount) PROVE Free(icount)' 
  BY <1>1, <1>3, <1>4, <1>7 DEF Free
<1>8. AtRest'
  BY <1>1, <1>3, <1>4, <1>5, <1>6, <1>7 DEF AtRest, Settled
<1>9. AtTest'
  BY <1>1, <1>2, <1>3, <1>4, <1>5, <1>6, <1>7 DEF AtTest, Ahead, Window
<1>10. AtShift'
  <2>1. SUFFICES ASSUME kpc \in {"load", "store"}
                 PROVE  /\ Len(typed') = icount' - 1 /\ Free(icount)'
                        /\ Settled(1, kix - 1)' /\ Ahead(kix, icount - 1)'
    BY <1>4 DEF AtShift
  <2>2. /\ Len(typed) = icount - 1 /\ Free(icount)
        /\ Settled(1, kix - 1) /\ Ahead(kix, icount - 1)
        /\ kix <= icount /\ icount >= 1
    BY <1>1, <1>6, <2>1 DEF AtShift, Busy
  <2>3. Settled(1, kix - 1)'
    BY <1>1, <1>3, <1>4, <1>5, <2>2 DEF Settled
  <2>4. Ahead(kix, icount - 1)'
    BY <1>1, <1>3, <1>4, <1>5, <2>2 DEF Ahead
  <2>5. QED  BY <1>1, <1>3, <1>5, <1>7, <2>2, <2>3, <2>4
<1>11. AtStore'
  BY <1>1, <1>2, <1>3, <1>4, <1>5, <1>6 DEF AtStore, AtShift, Window
<1>12. AtClosing'
  BY <1>2, <1>4 DEF AtClosing, Closing, Window
<1>13. AtAnswer'
  BY <1>4, <1>6 DEF AtAnswer, Answered
<1>14. QED  BY <1>8, <1>9, <1>10, <1>11, <1>12, <1>13

LEMMA InterruptKeepsOrder == IndexInv /\ OrderInv /\ Interrupt => OrderInv'
<1> SUFFICES ASSUME IndexInv, OrderInv, Interrupt PROVE OrderInv'
  OBVIOUS
<1>0. keyBuffer \in [0 .. Cap -> 0 .. 255] /\ icount \in 0 .. Cap
  BY DEF IndexInv, TypeOK
<1>1. ASSUME NEW b \in Bytes, Store(b) PROVE OrderInv'
  <2>1. b \in 0 .. 255 /\ Push(b)
    BY <1>1 DEF Store
  <2>2. /\ keyBuffer'[icount] = b
        /\ \A i \in 0 .. Cap : i # icount => keyBuffer'[i] = keyBuffer[i]
    BY <1>0, <1>1 DEF Store
  <2>3. QED  BY <2>1, <2>2, PushKeepsOrder
<1>2. ASSUME CountOnly, icount < Cap PROVE OrderInv'
  <2>1. keyBuffer[icount] \in 0 .. 255 /\ Push(keyBuffer[icount]) /\ keyBuffer' = keyBuffer
    BY <1>0, <1>2 DEF CountOnly
  <2>2. QED  BY <2>1, PushKeepsOrder
<1>3. ASSUME CountOnly, ~(icount < Cap) PROVE OrderInv'
  BY <1>3 DEF CountOnly, getter, history, OrderInv, AtRest, AtTest, AtShift,
     AtStore, AtClosing, AtAnswer, Settled, Ahead, Free, Answered
<1>4. QED  BY <1>1, <1>2, <1>3 DEF Interrupt

(* getKey, one access at a time: what each access leaves is what the next  *)
(* part of OrderInv asks for.                                              *)
LEMMA GetKeyKeepsOrder == IndexInv /\ OrderInv /\ (Call \/ Step) => OrderInv'
<1> SUFFICES ASSUME IndexInv, OrderInv, Call \/ Step, ~lost'
             PROVE  (AtRest /\ AtTest /\ AtShift /\ AtStore
                       /\ AtClosing /\ AtAnswer)'
  BY DEF OrderInv
<1>1. ~lost /\ lost' = lost /\ dirty' = dirty
  BY DEF Call, Step, Read, Test, Load, Shift, ClearIndex, Clear,
         DecrementIndex, Decrement, history
<1>2. AtRest /\ AtTest /\ AtShift /\ AtStore /\ AtClosing /\ AtAnswer
  BY <1>1 DEF OrderInv
<1>3. /\ icount \in 0 .. Cap /\ typed \in Seq(0 .. 255) /\ Len(typed) \in Nat
      /\ kix \in 1 .. Cap + 1 /\ keyBuffer \in [0 .. Cap -> 0 .. 255]
      /\ kpc \in Busy => icount >= 1
      /\ kpc \in {"load", "store"} => kix <= icount
  BY LenProperties DEF IndexInv, TypeOK
<1>4. CASE Call
  BY <1>2, <1>4 DEF Call, queue, history, AtRest, AtTest, AtShift, AtStore,
     AtClosing, AtAnswer, Settled, Free, Closing
<1>5. CASE Read
  <2>1. /\ kpc = "read" /\ kpc' = "test" /\ key' = keyBuffer[0]
        /\ keyBuffer' = keyBuffer /\ icount' = icount
        /\ want' = IF typed = <<>> THEN 0 ELSE Head(typed)
        /\ typed' = IF typed = <<>> THEN <<>> ELSE Tail(typed)
    BY <1>5 DEF Read, queue
  <2>2. Len(typed) = icount /\ Settled(1, icount) /\ Free(icount)
    BY <1>2, <2>1 DEF AtRest
  <2>3. CASE icount = 0
    <3>1. typed = <<>>
      BY <1>3, <2>2, <2>3, EmptySeq
    <3>2. dirty \/ keyBuffer[0] = 0
      BY <1>3, <2>2, <2>3 DEF Free
    <3>3. AtTest' /\ AtAnswer'
      BY <1>1, <2>1, <2>2, <2>3, <3>1, <3>2, NoneTyped
         DEF AtTest, AtAnswer, Answered, Free
    <3>4. QED
      BY <2>1, <3>3 DEF AtRest, AtShift, AtStore, AtClosing, Closing
  <2>4. CASE icount > 0
    <3>1. typed # <<>> /\ Head(typed) = typed[1]
      BY <1>3, <2>2, <2>4, NoneTyped
    <3>2. /\ Len(typed') = icount - 1
          /\ \A i \in 1 .. icount - 1 : typed'[i] = typed[i + 1]
      BY <1>3, <2>1, <2>2, <3>1, HeadTailProperties
    <3>3. Ahead(1, icount - 1)'
      BY <1>3, <2>1, <2>2, <3>2 DEF Ahead, Settled
    <3>4. want' = key'
      BY <1>3, <2>1, <2>2, <2>4, <3>1 DEF Settled
    <3>5. Free(icount)'
      BY <1>1, <2>1, <2>2 DEF Free
    <3>6. AtTest' /\ AtAnswer'
      BY <2>1, <2>4, <3>2, <3>3, <3>4, <3>5 DEF AtTest, AtAnswer, Answered
    <3>7. QED
      BY <2>1, <3>6 DEF AtRest, AtShift, AtStore, AtClosing, Closing
  <2>5. QED  BY <1>3, <2>3, <2>4
<1>6. CASE Test
  <2>1. /\ kpc = "test" /\ kpc' = (IF icount > 0 THEN "load" ELSE "idle")
        /\ kix' = 1
        /\ UNCHANGED <<keyBuffer, icount, key, typed, want, lost, dirty>>
    BY <1>6 DEF Test, queue, history
  <2>2. CASE icount = 0
    BY <1>2, <2>1, <2>2 DEF AtRest, AtTest, AtShift, AtStore, AtClosing, AtAnswer,
       Settled, Free, Closing, Answered
  <2>3. CASE icount > 0
    BY <1>2, <1>3, <2>1, <2>3 DEF AtRest, AtTest, AtShift, AtStore, AtClosing,
       AtAnswer, Settled, Ahead, Free, Closing, Answered
  <2>4. QED  BY <1>3, <2>2, <2>3
<1>7. CASE Load
  <2>1. /\ kpc = "load" /\ kpc' = "store" /\ kreg' = keyBuffer[kix]
        /\ UNCHANGED <<keyBuffer, icount, key, typed, want, lost, dirty, kix>>
    BY <1>7 DEF Load, queue, history
  <2>2. QED
    BY <1>2, <1>3, <2>1 DEF AtRest, AtTest, AtShift, AtStore, AtClosing, AtAnswer,
       Settled, Ahead, Free, Closing, Answered
<1>8. CASE Shift
  <2>1. /\ kpc = "store" /\ kix' = kix + 1
        /\ kpc' = IF kix + 1 <= icount THEN "load" ELSE "clr_ix"
        /\ keyBuffer' = [keyBuffer EXCEPT ![kix - 1] = kreg]
        /\ UNCHANGED <<icount, key, typed, want, lost, dirty>>
    BY <1>8 DEF Shift, history
  <2>2. /\ Len(typed) = icount - 1 /\ Free(icount)
        /\ Settled(1, kix - 1) /\ Ahead(kix, icount - 1)
        /\ kix < icount => kreg = typed[kix]
        /\ kix = icount /\ ~dirty => kreg = 0
        /\ kix <= icount /\ icount >= 1 /\ Answered
    BY <1>2, <1>3, <2>1 DEF AtShift, AtStore, AtAnswer, Busy
  <2>3. /\ keyBuffer'[kix - 1] = kreg
        /\ \A i \in 0 .. Cap : i # kix - 1 => keyBuffer'[i] = keyBuffer[i]
    BY <1>3, <2>1, <2>2
  <2>4. AtAnswer' /\ AtRest' /\ AtTest' /\ AtStore'
    BY <2>1, <2>2 DEF AtAnswer, AtRest, AtTest, AtStore, Answered
  <2>5. CASE kix < icount
    <3>1. kpc' = "load"
      BY <1>3, <2>1, <2>5
    <3>2. Settled(1, kix - 1)'
      BY <1>3, <2>1, <2>2, <2>3, <2>5 DEF Settled
    <3>3. Ahead(kix, icount - 1)' /\ Free(icount)'
      BY <1>3, <2>1, <2>2, <2>3, <2>5 DEF Ahead, Free
    <3>4. QED
      BY <1>3, <2>1, <2>2, <2>4, <3>1, <3>2, <3>3 DEF AtShift, AtClosing, Closing, Settled
  <2>6. CASE kix = icount
    <3>1. kpc' = "clr_ix"
      BY <1>3, <2>1, <2>6
    <3>2. Settled(1, icount - 1)' /\ Free(icount - 1)'
      BY <1>3, <2>1, <2>2, <2>3, <2>6 DEF Settled, Free
    <3>3. QED
      BY <2>1, <2>2, <2>4, <3>1, <3>2 DEF AtShift, AtClosing, Closing
  <2>7. QED  BY <1>3, <2>2, <2>5, <2>6
<1>9. CASE ClearIndex
  BY <1>2, <1>9 DEF ClearIndex, queue, history, AtRest, AtTest, AtShift, AtStore,
     AtClosing, AtAnswer, Settled, Free, Closing, Answered
<1>10. CASE Clear
  <2>1. /\ kpc = "clr" /\ kpc' = "dec_ix"
        /\ keyBuffer' = [keyBuffer EXCEPT ![kreg] = 0]
        /\ UNCHANGED <<icount, key, typed, want, lost, dirty>>
    BY <1>10 DEF Clear, history
  <2>2. /\ Len(typed) = icount - 1 /\ Free(icount - 1)
        /\ Settled(1, icount - 1) /\ kreg = icount /\ Answered
    BY <1>2, <2>1 DEF AtClosing, AtAnswer, Closing
  <2>3. Settled(1, icount - 1)' /\ Free(icount - 1)'
    BY <1>3, <2>1, <2>2 DEF Settled, Free
  <2>4. QED
    BY <2>1, <2>2, <2>3 DEF AtRest, AtTest, AtShift, AtStore, AtClosing, AtAnswer,
       Closing, Answered
<1>11. CASE DecrementIndex
  BY <1>2, <1>11 DEF DecrementIndex, queue, history, AtRest, AtTest, AtShift, AtStore,
     AtClosing, AtAnswer, Settled, Free, Closing, Answered
<1>12. CASE Decrement
  <2>1. /\ kpc = "dec" /\ kpc' = "idle" /\ icount' = kreg - 1
        /\ UNCHANGED <<keyBuffer, key, typed, want, lost, dirty>>
    BY <1>12 DEF Decrement, history
  <2>2. QED
    BY <1>2, <1>3, <2>1 DEF AtRest, AtTest, AtShift, AtStore, AtClosing, AtAnswer,
       Settled, Free, Closing, Answered
<1>13. QED
  BY <1>4, <1>5, <1>6, <1>7, <1>8, <1>9, <1>10, <1>11, <1>12 DEF Step

(* Keys arrive in order, each once, unless a touch met a full queue or     *)
(* fell into Window: for every size of the queue and every set of keys.    *)
THEOREM KeysArriveInOrder == Spec => []KeysInOrder
<1>1. IndexInv /\ OrderInv /\ [Next]_vars => OrderInv'
  <2>1. CASE UNCHANGED vars
    BY <2>1 DEF vars, queue, getter, history, OrderInv, AtRest, AtTest, AtShift,
       AtStore, AtClosing, AtAnswer, Settled, Ahead, Free, Answered
  <2>2. QED  BY <2>1, GetKeyKeepsOrder, InterruptKeepsOrder DEF Next
<1>2. IndexInv /\ OrderInv => KeysInOrder
  BY DEF OrderInv, AtAnswer, Answered, KeysInOrder
<1>3. QED
  BY InitIndexInv, NextIndexInv, InitOrderInv, <1>1, <1>2, PTL DEF Spec
=============================================================================
