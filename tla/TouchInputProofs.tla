-------------------------- MODULE TouchInputProofs --------------------------
(* What TLAPS proves of the whole of touch input: the keyboard is on the   *)
(* screen exactly when it takes keys.                                      *)
EXTENDS TouchInput, TLAPS

USE TouchInputAssumption DEF TouchInputAssumption, Saved, place

KeyProofs == INSTANCE KeyQueueProofs
PositionProofs == INSTANCE PositionQueueProofs

-----------------------------------------------------------------------------
(* The two queues. A step of the whole is a step of the key queue, or it   *)
(* leaves the key queue alone.                                             *)
LEMMA StepUsesKeys == [Next]_vars => [Keys!Next]_(Keys!vars)
  <1> SUFFICES ASSUME [Next]_vars PROVE [Keys!Next]_(Keys!vars)
    OBVIOUS
  <1>1. CASE TouchKey \/ TouchOutside \/ TouchPhantom
    <2>1. (\E byte \in Bytes : Keys!Store(byte)) \/ Keys!CountOnly
      BY <1>1 DEF TouchKey, TouchOutside, TouchPhantom, Bytes
    <2> QED BY <2>1 DEF Keys!Next, Keys!Interrupt
  <1>2. CASE PromptPolls \/ CommandVerifies \/ VerifyAgain
    BY <1>2 DEF PromptPolls, CommandVerifies, VerifyAgain, Keys!Next
  <1>3. CASE GetKey
    BY <1>3 DEF GetKey, Keys!Next
  <1>4. CASE \/ TouchShows \/ TouchMode \/ TouchClose \/ Release
             \/ FuncKey \/ GetPos \/ PromptGotKey \/ VerifyOutside \/ VerifyDone
             \/ CommandClearsScreen \/ CommandDone \/ UNCHANGED vars
    <2>1. UNCHANGED keyVars
      BY <1>4 DEF TouchShows, TouchMode, TouchClose, Release, FuncKey, ShowFlag,
                  ShowColumn, ShowRow, ShowTest, ShowSave, ShowActive, ShowDraw,
                  HideFlag, HideActive, HideRestore, GetPos, PromptGotKey,
                  VerifyOutside, VerifyDone,
                  CommandClearsScreen, CommandDone, vars
    <2> QED BY <2>1 DEF keyVars, Keys!vars, Keys!queue, Keys!getter, Keys!history
  <1> QED BY <1>1, <1>2, <1>3, <1>4 DEF Next, TCHVerif, Touch, Program

(* UsesKeyQueue: the handler and the main program use keyBuffer and icount *)
(* as KeyQueue says.                                                       *)
THEOREM ImplementsKeyQueue == Spec => UsesKeyQueue
  <1>1. Init => Keys!Init BY DEF Init
  <1> QED BY <1>1, StepUsesKeys, PTL DEF Spec, UsesKeyQueue, Keys!Spec

(* The same of the position queue; showing and hiding the keyboard sets    *)
(* pkeyativo, which is a byte of that queue.                               *)
LEMMA StepUsesPositions == [Next]_vars => [Positions!Next]_(Positions!vars)
  <1> SUFFICES ASSUME [Next]_vars PROVE [Positions!Next]_(Positions!vars)
    OBVIOUS
  <1>1. CASE TouchOutside
    BY <1>1 DEF TouchOutside, Positions!Next
  <1>2. CASE VerifyOutside \/ GetPos
    BY <1>2 DEF VerifyOutside, GetPos, Positions!Next
  <1>3. CASE TouchShows \/ TouchMode \/ TouchClose \/ ShowActive \/ HideActive
    <2>1. pkeyativo' \in BOOLEAN /\ UNCHANGED posVars
      BY <1>3 DEF TouchShows, TouchMode, TouchClose, ShowKeyboard, HideKeyboard,
                  ShowActive, HideActive
    <2>2. \E on \in BOOLEAN : Positions!SetActive(on)
      BY <2>1 DEF posVars, Positions!SetActive, Positions!queue, Positions!getter,
                  Positions!history
    <2> QED BY <2>2 DEF Positions!Next
  <1>4. CASE \/ TouchKey \/ TouchPhantom \/ Release \/ GetKey
             \/ ShowFlag \/ ShowColumn \/ ShowRow \/ ShowTest \/ ShowSave \/ ShowDraw
             \/ HideFlag \/ HideRestore
             \/ PromptPolls \/ PromptGotKey \/ CommandVerifies \/ VerifyAgain
             \/ VerifyDone \/ CommandClearsScreen \/ CommandDone \/ UNCHANGED vars
    <2>1. UNCHANGED <<posVars, pkeyativo>>
      BY <1>4 DEF TouchKey, TouchPhantom, Release, GetKey, ShowFlag,
                  ShowColumn, ShowRow, ShowTest, ShowSave, ShowDraw, HideFlag,
                  HideRestore, PromptPolls,
                  PromptGotKey, CommandVerifies, VerifyAgain, VerifyDone,
                  CommandClearsScreen, CommandDone, vars, kbdVars
    <2> QED BY <2>1 DEF posVars, Positions!vars, Positions!queue,
                        Positions!getter, Positions!history
  <1> QED BY <1>1, <1>2, <1>3, <1>4 DEF Next, TCHVerif, Touch, Program, FuncKey

(* UsesPositionQueue: the handler, the keyboard and the main program use   *)
(* the position arrays as PositionQueue says.                              *)
THEOREM ImplementsPositionQueue == Spec => UsesPositionQueue
  <1>1. Init => Positions!Init BY DEF Init
  <1> QED BY <1>1, StepUsesPositions, PTL DEF Spec, UsesPositionQueue, Positions!Spec

(* So what is proved of the two modules alone holds of the whole. The two  *)
(* instances of each, Keys and KeyProofs, have the same definitions.       *)
LEMMA SameKeySpec == Keys!Spec => KeyProofs!Spec
  <1>1. Keys!Init => KeyProofs!Init
    BY DEF Keys!Init, KeyProofs!Init
  <1>2. [Keys!Next]_(Keys!vars) => [KeyProofs!Next]_(KeyProofs!vars)
    BY DEF Keys!Next, Keys!Call, Keys!Step, Keys!Interrupt, Keys!CountOnly,
           Keys!Store, Keys!Push, Keys!Window, Keys!Read, Keys!Test, Keys!Load,
           Keys!Shift, Keys!ClearIndex, Keys!Clear, Keys!DecrementIndex,
           Keys!Decrement, Keys!Raised, Keys!NotEmpty, Keys!MoreToShift, Keys!vars, Keys!queue, Keys!getter, Keys!history,
           KeyProofs!Next, KeyProofs!Call, KeyProofs!Step, KeyProofs!Interrupt,
           KeyProofs!CountOnly, KeyProofs!Store, KeyProofs!Push, KeyProofs!Window,
           KeyProofs!Read, KeyProofs!Test, KeyProofs!Load, KeyProofs!Shift,
           KeyProofs!ClearIndex, KeyProofs!Clear, KeyProofs!DecrementIndex,
           KeyProofs!Decrement, KeyProofs!Raised,
           KeyProofs!NotEmpty, KeyProofs!MoreToShift, KeyProofs!vars, KeyProofs!queue,
           KeyProofs!getter, KeyProofs!history
  <1> QED BY <1>1, <1>2, PTL DEF Keys!Spec, KeyProofs!Spec

LEMMA KeyConstants == /\ Cap \in Nat \ {0} /\ Bytes \subseteq 0 .. 255
                      /\ InitByte \subseteq 0 .. 255
  BY DEF Bytes, OutsideCode

(* KeysInOrder of the whole system: whatever the keyboard and the position *)
(* queue do meanwhile, getKey returns the touched keys in order, each once,*)
(* until a touch meets a full queue or falls into Window.                  *)
THEOREM KeysStayInOrder == Spec => []Keys!KeysInOrder
  <1>1. KeyProofs!Spec => []KeyProofs!KeysInOrder
    BY KeyConstants, KeyProofs!KeysArriveInOrder
  <1>2. KeyProofs!KeysInOrder => Keys!KeysInOrder
    BY DEF KeyProofs!KeysInOrder, Keys!KeysInOrder
  <1> QED BY <1>1, <1>2, SameKeySpec, ImplementsKeyQueue, PTL DEF UsesKeyQueue

LEMMA KeyTypes == Spec => []Keys!TypeOK
  <1>1. KeyProofs!Spec => []KeyProofs!TypeOK
    BY KeyConstants, KeyProofs!TypeCorrect
  <1>2. KeyProofs!TypeOK => Keys!TypeOK
    BY DEF KeyProofs!TypeOK, Keys!TypeOK, KeyProofs!KPC, Keys!KPC
  <1> QED BY <1>1, <1>2, SameKeySpec, ImplementsKeyQueue, PTL DEF UsesKeyQueue

LEMMA SamePositionSpec == Positions!Spec => PositionProofs!Spec
  <1>1. Positions!Init => PositionProofs!Init
    BY DEF Positions!Init, PositionProofs!Init
  <1>2. [Positions!Next]_(Positions!vars) => [PositionProofs!Next]_(PositionProofs!vars)
    BY DEF
      Positions!Next, Positions!Call, Positions!Step, Positions!SetActive,
      Positions!Store, Positions!Window, Positions!TestEmpty, Positions!TestMore,
      Positions!Return, Positions!LoadX, Positions!StoreX, Positions!LoadY,
      Positions!StoreY, Positions!LoadCount, Positions!ClearX, Positions!ClearY,
      Positions!Decrement, Positions!vars, Positions!queue, Positions!getter,
      Positions!history, Positions!Low16, Positions!NoPosition,
      Positions!TopByteNotZero, Positions!Raised, Positions!NotEmpty,
      Positions!MoreToShift,
      PositionProofs!Next, PositionProofs!Call, PositionProofs!Step,
      PositionProofs!SetActive, PositionProofs!Store, PositionProofs!Window,
      PositionProofs!TestEmpty, PositionProofs!TestMore, PositionProofs!Return,
      PositionProofs!LoadX, PositionProofs!StoreX, PositionProofs!LoadY,
      PositionProofs!StoreY, PositionProofs!LoadCount, PositionProofs!ClearX,
      PositionProofs!ClearY, PositionProofs!Decrement, PositionProofs!vars,
      PositionProofs!queue, PositionProofs!getter, PositionProofs!history,
      PositionProofs!Low16, PositionProofs!NoPosition, PositionProofs!TopByteNotZero,
      PositionProofs!Raised, PositionProofs!NotEmpty, PositionProofs!MoreToShift
  <1> QED BY <1>1, <1>2, PTL DEF Positions!Spec, PositionProofs!Spec

LEMMA PositionTypes == Spec => []Positions!TypeOK
  <1>1. /\ Cap \in Nat \ {0} /\ Coords \subseteq (Int \ {0}) \X (Int \ {0})
        /\ Stale \in Int
    OBVIOUS
  <1>2. PositionProofs!Spec => []PositionProofs!TypeOK
    BY <1>1, PositionProofs!TypeCorrect
  <1>3. PositionProofs!TypeOK => Positions!TypeOK
    BY DEF PositionProofs!TypeOK, Positions!TypeOK, PositionProofs!PPC, Positions!PPC
  <1> QED BY <1>2, <1>3, SamePositionSpec, ImplementsPositionQueue, PTL
          DEF UsesPositionQueue

(* ReturnsLastTouch of the whole system: getPos returns the latest touch   *)
(* outside of the keyboard, whatever the keyboard and the key queue do     *)
(* meanwhile, until a touch meets a full queue or falls into Window.       *)
THEOREM LastTouchStaysReturned == Cap >= 3 => (Spec => []Positions!ReturnsLastTouch)
  <1> SUFFICES ASSUME Cap >= 3 PROVE Spec => []Positions!ReturnsLastTouch
    OBVIOUS
  <1>1. /\ Cap \in Nat \ {0} /\ Coords \subseteq (Int \ {0}) \X (Int \ {0})
        /\ Stale \in Int
    OBVIOUS
  <1>2. PositionProofs!Spec => []PositionProofs!ReturnsLastTouch
    BY <1>1, PositionProofs!LastTouchReturned
  <1>3. PositionProofs!ReturnsLastTouch => Positions!ReturnsLastTouch
    BY DEF PositionProofs!ReturnsLastTouch, Positions!ReturnsLastTouch
  <1> QED BY <1>2, <1>3, SamePositionSpec, ImplementsPositionQueue, PTL
          DEF UsesPositionQueue

-----------------------------------------------------------------------------
(* The keyboard.                                                           *)

(* Where keyboard and byte agree: everywhere but between the steps of a    *)
(* ShowKeyboard or HideKeyboard that change one of the two.                *)
Resting == {"prompt", "prompt_key", "hide_flag", "hide_active",
            "show_flag", "show_column", "show_row", "show_test", "show_active"}
           \cup CommandPC

KeyboardTypes ==
    /\ pkeyativo \in BOOLEAN /\ pshowkeyontouch \in BOOLEAN
    /\ keyvxx \in {0, Column} /\ keyvyy \in {0} \cup Rows
    /\ shown \subseteq Int \X Int /\ page9 \subseteq Int \X Int
    /\ kbdRace \in BOOLEAN
    /\ pc \in PC

(* A touch cannot bring the keyboard back while a command runs, because    *)
(* HideFlag comes before HideActive: that is what the rest hangs on.       *)
NoShowOnTouch ==
    pc \in CommandPC \cup {"hide_active", "hide_restore", "show_flag"}
        => ~pshowkeyontouch

KeyboardState ==
    ~kbdRace =>
        /\ page9 = {}
        /\ shown \subseteq Area
        /\ pc \in Resting => shown = (IF pkeyativo THEN Area ELSE {})
        /\ pc \in CommandPC \cup {"show_flag"} => ~pkeyativo
        /\ pc = "show_save" => ~pkeyativo /\ shown = {}
        /\ pc = "show_draw" => pkeyativo
        /\ pc = "hide_restore" => ~pkeyativo

KeyboardInv ==
    /\ KeyboardTypes
    /\ OneCallAtATime
    /\ NoShowOnTouch
    /\ KeyboardState

-----------------------------------------------------------------------------
(* Initially no keyboard is drawn and none takes keys.                     *)
LEMMA InitKeyboardInv == Init => KeyboardInv
  BY DEF Init, Keys!Init, Positions!Init, KeyboardInv, KeyboardTypes, PC,
         CommandPC, OneCallAtATime, NoShowOnTouch, KeyboardState, Resting

(* The area of the keyboard goes with its place.                           *)
LEMMA AreaStays == ASSUME UNCHANGED place PROVE Area' = Area
  BY DEF Area

LEMMA AreaTyped == ASSUME KeyboardTypes PROVE Area \subseteq Int \X Int
  BY DEF Area, KeyboardTypes

(* What the handler does to the keyboard when it shows, redraws or hides   *)
(* it keeps the invariant, whatever the main program was about to do.      *)
LEMMA HandlerKeyboard ==
    ASSUME KeyboardInv, TouchShows \/ TouchMode \/ TouchClose
    PROVE  KeyboardInv'
  <1> USE DEF PC, CommandPC, ShowPC, HidePC, Resting
  <1>1. /\ pc' = pc /\ kpc' = kpc /\ ppc' = ppc
        /\ pshowkeyontouch' = pshowkeyontouch /\ UNCHANGED place
    BY DEF TouchShows, TouchMode, TouchClose, keyVars, posVars
  <1>a. Area' = Area /\ Area \subseteq Int \X Int
    BY <1>1, AreaStays, AreaTyped DEF KeyboardInv
  <1>2. OneCallAtATime' /\ NoShowOnTouch'
    BY <1>1 DEF KeyboardInv, OneCallAtATime, NoShowOnTouch
  <1>3. CASE TouchShows
    <2>1. /\ pshowkeyontouch /\ ~pkeyativo /\ page9' = Copied(page9, shown)
          /\ pkeyativo' = TRUE /\ shown' = shown \cup Area
          /\ kbdRace' = (kbdRace \/ pc = "show_save")
      BY <1>3 DEF TouchShows, ShowOnTouch, ShowKeyboard
    <2>2. KeyboardTypes'
      BY <1>1, <1>a, <2>1 DEF KeyboardInv, KeyboardTypes, Copied
    <2>3. KeyboardState'
      BY <1>1, <1>a, <2>1 DEF KeyboardInv, KeyboardTypes, NoShowOnTouch, KeyboardState,
                              Copied
    <2> QED BY <1>2, <2>2, <2>3 DEF KeyboardInv
  <1>4. CASE TouchMode
    <2>1. /\ pkeyativo /\ page9' = page9 /\ pkeyativo' = TRUE
          /\ shown' = shown \cup Area /\ kbdRace' = kbdRace
      BY <1>4 DEF TouchMode, ShowKeyboard
    <2>2. KeyboardTypes'
      BY <1>1, <1>a, <2>1 DEF KeyboardInv, KeyboardTypes, Copied
    <2>3. KeyboardState'
      BY <1>1, <1>a, <2>1 DEF KeyboardInv, KeyboardTypes, NoShowOnTouch, KeyboardState,
                              Copied
    <2> QED BY <1>2, <2>2, <2>3 DEF KeyboardInv
  <1>5. CASE TouchClose
    <2>1. /\ pkeyativo /\ page9' = page9 /\ pkeyativo' = FALSE
          /\ shown' = Copied(shown, page9)
          /\ kbdRace' = (kbdRace \/ pc = "show_draw")
      BY <1>5 DEF TouchClose, HideKeyboard
    <2>2. KeyboardTypes'
      BY <1>1, <1>a, <2>1 DEF KeyboardInv, KeyboardTypes, Copied
    <2>3. KeyboardState'
      BY <1>1, <1>a, <2>1 DEF KeyboardInv, KeyboardTypes, NoShowOnTouch, KeyboardState,
                              Copied
    <2> QED BY <1>2, <2>2, <2>3 DEF KeyboardInv
  <1> QED BY <1>3, <1>4, <1>5

(* A touch that reaches a queue leaves getKey and getPos where they are,   *)
(* and changes the byte only when the position queue is full.              *)
LEMMA HandlerQueues ==
    ASSUME KeyboardInv, icountp \in 0 .. Cap,
           TouchKey \/ TouchOutside \/ TouchPhantom \/ Release
    PROVE  KeyboardInv'
  <1>1. kpc' = kpc /\ ppc' = ppc
    BY DEF TouchKey, TouchOutside, TouchPhantom, Release, Keys!Store, Keys!Push,
           Keys!CountOnly, Keys!getter, Positions!Store, Positions!getter,
           keyVars, posVars
  <1>2. /\ pc' = pc /\ shown' = shown /\ page9' = page9
        /\ pshowkeyontouch' = pshowkeyontouch /\ UNCHANGED place
    BY DEF TouchKey, TouchOutside, TouchPhantom, Release, kbdVars
  <1>a. Area' = Area
    BY <1>2, AreaStays
  <1>3. \/ kbdRace' = kbdRace /\ pkeyativo' = pkeyativo
        \/ kbdRace' = TRUE /\ pkeyativo' \in BOOLEAN
    <2>1. CASE TouchOutside /\ icountp < Cap
      <3>1. pkeyativo' = pkeyativo
        BY <2>1 DEF TouchOutside, Positions!Store
      <3>2. kbdRace' = (kbdRace \/ icountp = Cap)
        BY <2>1 DEF TouchOutside
      <3>3. icountp # Cap
        BY <2>1
      <3> QED BY <3>1, <3>2, <3>3, Zenon DEF KeyboardInv, KeyboardTypes
    <2>2. CASE TouchOutside /\ icountp = Cap
      <3>1. pkeyativo' = TRUE \/ pkeyativo' = FALSE
        BY <2>2 DEF TouchOutside, Positions!Store, Positions!TopByteNotZero
      <3>2. kbdRace' = (kbdRace \/ icountp = Cap)
        BY <2>2 DEF TouchOutside
      <3> QED BY <2>2, <3>1, <3>2, Zenon
    <2>3. CASE TouchKey \/ TouchPhantom \/ Release
      BY <2>3 DEF TouchKey, TouchPhantom, Release, kbdVars
    <2>4. icountp < Cap \/ icountp = Cap
      OBVIOUS
    <2> QED BY <2>1, <2>2, <2>3, <2>4, Zenon
  <1> USE DEF PC, CommandPC, ShowPC, HidePC, Resting
  <1>4. OneCallAtATime' /\ NoShowOnTouch'
    BY <1>1, <1>2 DEF KeyboardInv, OneCallAtATime, NoShowOnTouch
  <1>5. KeyboardTypes'
    BY <1>2, <1>3, Zenon DEF KeyboardInv, KeyboardTypes
  <1>6. KeyboardState'
    <2>1. CASE kbdRace' = kbdRace /\ pkeyativo' = pkeyativo
      BY <1>2, <1>a, <2>1 DEF KeyboardInv, KeyboardTypes, KeyboardState
    <2>2. CASE kbdRace' = TRUE
      BY <2>2 DEF KeyboardState
    <2> QED BY <1>3, <2>1, <2>2
  <1> QED BY <1>4, <1>5, <1>6 DEF KeyboardInv

(* The main program's own ShowKeyboard, whose steps a touch may part.      *)
LEMMA ProgramShows ==
    ASSUME KeyboardInv, ShowFlag \/ ShowTest \/ ShowSave \/ ShowActive \/ ShowDraw
    PROVE  KeyboardInv'
  <1> USE DEF PC, CommandPC, ShowPC, HidePC, Resting, Goto
  <1>1. /\ kpc' = kpc /\ ppc' = ppc /\ kbdRace' = kbdRace
        /\ pc \in ShowPC /\ pc' \in (ShowPC \ {"show_flag"}) \cup {"prompt"}
        /\ UNCHANGED place
    BY DEF ShowFlag, ShowTest, ShowSave, ShowActive, ShowDraw,
           keyVars, posVars, kbdVars
  <1>a. Area' = Area /\ Area \subseteq Int \X Int
    BY <1>1, AreaStays, AreaTyped DEF KeyboardInv
  <1>2. OneCallAtATime' /\ NoShowOnTouch'
    BY <1>1 DEF KeyboardInv, OneCallAtATime, NoShowOnTouch
  <1>3. CASE ShowFlag
    <2>1. /\ pkeyativo' = pkeyativo /\ shown' = shown /\ page9' = page9
          /\ pshowkeyontouch' = TRUE /\ pc = "show_flag" /\ pc' = "show_column"
      BY <1>3 DEF ShowFlag
    <2>2. KeyboardTypes'
      BY <1>1, <1>a, <2>1 DEF KeyboardInv, KeyboardTypes, Copied
    <2>3. KeyboardState'
      BY <1>1, <1>a, <2>1 DEF KeyboardInv, KeyboardTypes, KeyboardState, Copied
    <2> QED BY <1>2, <2>2, <2>3 DEF KeyboardInv
  <1>4. CASE ShowTest
    <2>1. /\ pkeyativo' = pkeyativo /\ shown' = shown /\ page9' = page9
          /\ pc = "show_test"
          /\ pc' = IF pkeyativo THEN "show_draw" ELSE "show_save"
      BY <1>4 DEF ShowTest, kbdVars
    <2>2. KeyboardTypes'
      <3>1. pc' \in PC
        BY <2>1
      <3>2. pkeyativo' = pkeyativo /\ shown' = shown /\ page9' = page9
            /\ pshowkeyontouch' = pshowkeyontouch
        BY <1>4 DEF ShowTest, kbdVars
      <3> QED BY <1>1, <3>1, <3>2 DEF KeyboardInv, KeyboardTypes
    <2>3. KeyboardState'
      BY <1>1, <1>a, <2>1 DEF KeyboardInv, KeyboardTypes, KeyboardState, Copied
    <2> QED BY <1>2, <2>2, <2>3 DEF KeyboardInv
  <1>5. CASE ShowSave
    <2>1. /\ pkeyativo' = pkeyativo /\ shown' = shown /\ page9' = Copied(page9, shown)
          /\ pshowkeyontouch' = pshowkeyontouch
          /\ pc = "show_save" /\ pc' = "show_active"
      BY <1>5 DEF ShowSave
    <2>2. KeyboardTypes'
      BY <1>1, <1>a, <2>1 DEF KeyboardInv, KeyboardTypes, Copied
    <2>3. KeyboardState'
      BY <1>1, <1>a, <2>1 DEF KeyboardInv, KeyboardTypes, KeyboardState, Copied
    <2> QED BY <1>2, <2>2, <2>3 DEF KeyboardInv
  <1>6. CASE ShowActive
    <2>1. /\ pkeyativo' = TRUE /\ shown' = shown /\ page9' = page9
          /\ pshowkeyontouch' = pshowkeyontouch
          /\ pc = "show_active" /\ pc' = "show_draw"
      BY <1>6 DEF ShowActive
    <2>2. KeyboardTypes'
      BY <1>1, <1>a, <2>1 DEF KeyboardInv, KeyboardTypes, Copied
    <2>3. KeyboardState'
      BY <1>1, <1>a, <2>1 DEF KeyboardInv, KeyboardTypes, KeyboardState, Copied
    <2> QED BY <1>2, <2>2, <2>3 DEF KeyboardInv
  <1>7. CASE ShowDraw
    <2>1. /\ pkeyativo' = pkeyativo /\ shown' = shown \cup Area /\ page9' = page9
          /\ pshowkeyontouch' = pshowkeyontouch
          /\ pc = "show_draw" /\ pc' = "prompt"
      BY <1>7 DEF ShowDraw
    <2>2. KeyboardTypes'
      BY <1>1, <1>a, <2>1 DEF KeyboardInv, KeyboardTypes, Copied
    <2>3. KeyboardState'
      BY <1>1, <1>a, <2>1 DEF KeyboardInv, KeyboardTypes, KeyboardState, Copied
    <2> QED BY <1>2, <2>2, <2>3 DEF KeyboardInv
  <1> QED BY <1>3, <1>4, <1>5, <1>6, <1>7

(* The place of the keyboard moves: under a keyboard that a touch has      *)
(* shown already, that is a race; otherwise none is on the screen.         *)
LEMMA ProgramPlaces ==
    ASSUME KeyboardInv, ShowColumn \/ ShowRow
    PROVE  KeyboardInv'
  <1> USE DEF PC, CommandPC, ShowPC, HidePC, Resting, Goto
  <1>1. /\ kpc' = kpc /\ ppc' = ppc /\ pkeyativo' = pkeyativo
        /\ pshowkeyontouch' = pshowkeyontouch /\ shown' = shown /\ page9' = page9
        /\ pc \in {"show_column", "show_row"} /\ pc' \in {"show_row", "show_test"}
    BY DEF ShowColumn, ShowRow, keyVars, posVars
  <1>2. /\ keyvxx' \in {0, Column} /\ keyvyy' \in {0} \cup Rows
        /\ kbdRace' \in BOOLEAN
        /\ kbdRace \/ (pkeyativo /\ place' # place) => kbdRace'
    <2>1. CASE ShowColumn
      BY <2>1 DEF ShowColumn, KeyboardInv, KeyboardTypes
    <2>2. CASE ShowRow
      BY <2>2 DEF ShowRow, KeyboardInv, KeyboardTypes
    <2> QED BY <2>1, <2>2
  <1>3. OneCallAtATime' /\ NoShowOnTouch'
    BY <1>1 DEF KeyboardInv, OneCallAtATime, NoShowOnTouch
  <1>4. KeyboardTypes'
    BY <1>1, <1>2 DEF KeyboardInv, KeyboardTypes
  <1>5. KeyboardState'
    <2>1. CASE kbdRace'
      BY <2>1 DEF KeyboardState
    <2>2. CASE ~kbdRace' /\ ~pkeyativo
      <3>1. ~kbdRace BY <1>2, <2>2, Zenon
      <3>2. shown = {} /\ page9 = {}
        BY <1>1, <2>2, <3>1 DEF KeyboardInv, KeyboardState
      <3> QED BY <1>1, <2>2, <3>2 DEF KeyboardState
    <2>3. CASE ~kbdRace' /\ pkeyativo
      <3>1. ~kbdRace /\ place' = place
        BY <1>2, <2>3, Zenon
      <3>2. Area' = Area
        BY <3>1, AreaStays
      <3> QED BY <1>1, <2>3, <3>1, <3>2 DEF KeyboardInv, KeyboardState
    <2> QED BY <2>1, <2>2, <2>3
  <1> QED BY <1>3, <1>4, <1>5 DEF KeyboardInv

(* And its HideKeyboard.                                                   *)
LEMMA ProgramHides ==
    ASSUME KeyboardInv, HideFlag \/ HideActive \/ HideRestore
    PROVE  KeyboardInv'
  <1> USE DEF PC, CommandPC, ShowPC, HidePC, Resting, Goto
  <1>1. /\ kpc' = kpc /\ ppc' = ppc /\ kbdRace' = kbdRace
        /\ pc \in HidePC /\ pc' \in {"hide_active", "hide_restore", "command"}
        /\ UNCHANGED place
    BY DEF HideFlag, HideActive, HideRestore, keyVars, posVars, kbdVars
  <1>a. Area' = Area /\ Area \subseteq Int \X Int
    BY <1>1, AreaStays, AreaTyped DEF KeyboardInv
  <1>2. OneCallAtATime'
    BY <1>1 DEF KeyboardInv, OneCallAtATime
  <1>3. NoShowOnTouch'
    BY <1>1 DEF HideFlag, HideActive, HideRestore, KeyboardInv, NoShowOnTouch
  <1>4. CASE HideFlag
    <2>1. /\ pkeyativo' = pkeyativo /\ shown' = shown /\ page9' = page9
          /\ pshowkeyontouch' = FALSE /\ pc = "hide_flag" /\ pc' = "hide_active"
      BY <1>4 DEF HideFlag
    <2>2. KeyboardTypes'
      BY <1>1, <1>a, <2>1 DEF KeyboardInv, KeyboardTypes, Copied
    <2>3. KeyboardState'
      BY <1>1, <1>a, <2>1 DEF KeyboardInv, KeyboardTypes, KeyboardState, Copied
    <2> QED BY <1>2, <1>3, <2>2, <2>3 DEF KeyboardInv
  <1>5. CASE HideActive
    <2>1. /\ pkeyativo' = FALSE /\ shown' = shown /\ page9' = page9
          /\ pshowkeyontouch' = pshowkeyontouch
          /\ pc = "hide_active" /\ pc' = "hide_restore"
      BY <1>5 DEF HideActive
    <2>2. KeyboardTypes'
      BY <1>1, <1>a, <2>1 DEF KeyboardInv, KeyboardTypes, Copied
    <2>3. KeyboardState'
      BY <1>1, <1>a, <2>1 DEF KeyboardInv, KeyboardTypes, KeyboardState, Copied
    <2> QED BY <1>2, <1>3, <2>2, <2>3 DEF KeyboardInv
  <1>6. CASE HideRestore
    <2>1. /\ pkeyativo' = pkeyativo /\ shown' = Copied(shown, page9) /\ page9' = page9
          /\ pshowkeyontouch' = pshowkeyontouch
          /\ pc = "hide_restore" /\ pc' = "command"
      BY <1>6 DEF HideRestore
    <2>2. KeyboardTypes'
      BY <1>1, <1>a, <2>1 DEF KeyboardInv, KeyboardTypes, Copied
    <2>3. KeyboardState'
      BY <1>1, <1>a, <2>1 DEF KeyboardInv, KeyboardTypes, KeyboardState, Copied
    <2> QED BY <1>2, <1>3, <2>2, <2>3 DEF KeyboardInv
  <1> QED BY <1>4, <1>5, <1>6

(* Polling: the program starts getKey or getPos only where it waits for    *)
(* the answer, and goes on only when it has come.                          *)
LEMMA ProgramPolls ==
    ASSUME KeyboardInv,
           \/ GetKey \/ PromptPolls \/ PromptGotKey \/ CommandVerifies
           \/ VerifyOutside \/ VerifyAgain \/ VerifyDone \/ CommandDone
    PROVE  KeyboardInv'
  <1> USE DEF PC, CommandPC, ShowPC, HidePC, Resting, Goto
  <1>1. /\ pkeyativo' = pkeyativo /\ pshowkeyontouch' = pshowkeyontouch
        /\ shown' = shown /\ page9' = page9 /\ kbdRace' = kbdRace
        /\ UNCHANGED place
    BY DEF GetKey, PromptPolls, PromptGotKey, CommandVerifies, VerifyOutside,
           VerifyAgain, VerifyDone, CommandDone, kbdVars
  <1>a. Area' = Area
    BY <1>1, AreaStays
  <1>2. CASE PromptPolls \/ PromptGotKey
    <2>1. /\ pc' \in {"prompt", "prompt_key", "hide_flag"} /\ ppc' = ppc
          /\ kpc' # "idle" => pc' = "prompt_key"
          /\ pc \in {"prompt", "prompt_key"}
      BY <1>2 DEF PromptPolls, PromptGotKey, Keys!Call, keyVars, posVars
    <2>2. OneCallAtATime' /\ NoShowOnTouch'
      BY <2>1 DEF KeyboardInv, OneCallAtATime, NoShowOnTouch
    <2>3. KeyboardTypes' /\ KeyboardState'
      BY <1>1, <1>a, <2>1 DEF KeyboardInv, KeyboardTypes, KeyboardState
    <2> QED BY <2>2, <2>3 DEF KeyboardInv
  <1>3. CASE \/ CommandVerifies \/ VerifyOutside \/ VerifyAgain \/ VerifyDone
             \/ CommandDone
    <2>1. pc \in CommandPC /\ pc' \in CommandPC \cup {"show_flag"}
      BY <1>3 DEF CommandVerifies, VerifyOutside, VerifyAgain, VerifyDone, CommandDone
    <2>2. OneCallAtATime'
      BY <1>3 DEF CommandVerifies, VerifyOutside, VerifyAgain, VerifyDone,
                  CommandDone, Keys!Call, Positions!Call, keyVars, posVars,
                  KeyboardInv, OneCallAtATime
    <2>3. NoShowOnTouch'
      BY <1>1, <2>1 DEF KeyboardInv, NoShowOnTouch
    <2>4. KeyboardTypes' /\ KeyboardState'
      BY <1>1, <1>a, <2>1 DEF KeyboardInv, KeyboardTypes, KeyboardState
    <2> QED BY <2>2, <2>3, <2>4 DEF KeyboardInv
  <1>4. CASE GetKey
    <2>1. kpc # "idle" /\ ppc' = ppc /\ pc' = pc
      BY <1>4 DEF GetKey, Keys!Step, Keys!Read, Keys!Test, Keys!Load, Keys!Shift,
                  Keys!ClearIndex, Keys!Clear, Keys!DecrementIndex, Keys!Decrement,
                  posVars
    <2>2. OneCallAtATime' /\ NoShowOnTouch'
      BY <1>1, <2>1 DEF KeyboardInv, OneCallAtATime, NoShowOnTouch
    <2>3. KeyboardTypes' /\ KeyboardState'
      BY <1>1, <1>a, <2>1 DEF KeyboardInv, KeyboardTypes, KeyboardState
    <2> QED BY <2>2, <2>3 DEF KeyboardInv
  <1> QED BY <1>2, <1>3, <1>4

(* getPos of a full queue clears pkeyativo; it runs inside a command, when *)
(* the keyboard takes no keys anyway.                                      *)
LEMMA ProgramGetsPos ==
    ASSUME KeyboardInv, GetPos
    PROVE  KeyboardInv'
  <1> USE DEF PC, CommandPC, ShowPC, HidePC, Resting
  <1>1. /\ kpc' = kpc /\ pc' = pc /\ shown' = shown /\ page9' = page9
        /\ pshowkeyontouch' = pshowkeyontouch /\ kbdRace' = kbdRace
        /\ UNCHANGED place
    BY DEF GetPos, keyVars
  <1>a. Area' = Area
    BY <1>1, AreaStays
  <1>2. ppc # "idle" /\ (pkeyativo' = pkeyativo \/ pkeyativo' = FALSE)
    BY DEF GetPos, Positions!Step, Positions!TestEmpty, Positions!TestMore,
           Positions!Return, Positions!LoadX, Positions!StoreX, Positions!LoadY,
           Positions!StoreY, Positions!LoadCount, Positions!ClearX,
           Positions!ClearY, Positions!Decrement
  <1>3. pc = "verify_pos"
    BY <1>2 DEF KeyboardInv, OneCallAtATime
  <1>4. OneCallAtATime' /\ NoShowOnTouch'
    BY <1>1, <1>3 DEF KeyboardInv, OneCallAtATime, NoShowOnTouch
  <1>5. KeyboardTypes'
    BY <1>1, <1>2 DEF KeyboardInv, KeyboardTypes
  <1>6. KeyboardState'
    BY <1>1, <1>a, <1>2, <1>3 DEF KeyboardInv, KeyboardTypes, KeyboardState
  <1> QED BY <1>4, <1>5, <1>6 DEF KeyboardInv

LEMMA NextKeyboardInv ==
    KeyboardInv /\ icountp \in 0 .. Cap /\ [Next]_vars => KeyboardInv'
  <1> SUFFICES ASSUME KeyboardInv, icountp \in 0 .. Cap, [Next]_vars
               PROVE  KeyboardInv'
    OBVIOUS
  <1>1. CASE TCHVerif
    BY <1>1, HandlerKeyboard, HandlerQueues DEF TCHVerif, Touch
  <1>2. CASE FuncKey
    BY <1>2, ProgramShows, ProgramPlaces, ProgramHides DEF FuncKey
  <1>3. CASE \/ GetKey \/ GetPos \/ PromptPolls \/ PromptGotKey \/ CommandVerifies
             \/ VerifyOutside \/ VerifyAgain \/ VerifyDone \/ CommandDone
    BY <1>3, ProgramPolls, ProgramGetsPos
  <1>4. CASE CommandClearsScreen
    <2>1. UNCHANGED place
      BY <1>4 DEF CommandClearsScreen
    <2>2. Area' = Area
      BY <2>1, AreaStays
    <2> QED BY <1>4, <2>2 DEF CommandClearsScreen, keyVars, posVars, KeyboardInv,
                KeyboardTypes, OneCallAtATime, NoShowOnTouch, KeyboardState, PC,
                CommandPC, ShowPC, HidePC, Resting
  <1>5. CASE UNCHANGED vars
    <2>1. UNCHANGED place
      BY <1>5 DEF vars, kbdVars
    <2>2. Area' = Area
      BY <2>1, AreaStays
    <2> QED BY <1>5, <2>2 DEF vars, keyVars, posVars, kbdVars, KeyboardInv, KeyboardTypes,
                OneCallAtATime, NoShowOnTouch, KeyboardState, PC, CommandPC,
                ShowPC, HidePC, Resting
  <1> QED BY <1>1, <1>2, <1>3, <1>4, <1>5 DEF Next, Program

THEOREM KeyboardInvariant == Spec => []KeyboardInv
  <1>1. Positions!TypeOK => icountp \in 0 .. Cap
    BY DEF Positions!TypeOK
  <1> QED BY <1>1, InitKeyboardInv, NextKeyboardInv, PositionTypes, PTL DEF Spec

(* KeyboardShownIffActive: outside ShowKeyboard and HideKeyboard the       *)
(* keyboard is on the screen exactly when pkeyativo says it takes keys,    *)
(* page 9 holds none, and a command runs without one - until one of the    *)
(* races that the property names.                                          *)
THEOREM KeyboardFollowsFlag == Spec => []KeyboardShownIffActive
  <1>1. KeyboardInv => KeyboardShownIffActive
    BY DEF KeyboardInv, KeyboardTypes, KeyboardState, KeyboardShownIffActive,
           Resting, PC, ShowPC, HidePC, CommandPC
  <1> QED BY <1>1, KeyboardInvariant, PTL

-----------------------------------------------------------------------------
(* vkeyrep, the one variable no proof above needed.                        *)
HeldIsBoolean == vkeyrep \in BOOLEAN

LEMMA HeldType == Spec => []HeldIsBoolean
  <1>1. Init => HeldIsBoolean BY DEF Init, HeldIsBoolean
  <1>2. HeldIsBoolean /\ [Next]_vars => HeldIsBoolean'
    <2> SUFFICES ASSUME HeldIsBoolean, [Next]_vars PROVE HeldIsBoolean'
      OBVIOUS
    <2> USE DEF HeldIsBoolean
    <2>1. CASE TCHVerif
      <3>1. \/ vkeyrep' = vkeyrep \/ vkeyrep' = TRUE \/ vkeyrep' = FALSE
            \/ vkeyrep' = (vkeyrep \/ pkeyativo)
        BY <2>1 DEF TCHVerif, Touch, TouchShows, TouchKey, TouchMode, TouchClose,
                    TouchOutside, TouchPhantom, Release, kbdVars
      <3> QED BY <3>1, Zenon
    <2>2. CASE Program
      BY <2>2 DEF Program, FuncKey, ShowFlag, ShowColumn, ShowRow, ShowTest,
                  ShowSave, ShowActive, ShowDraw,
                  HideFlag, HideActive, HideRestore, GetKey, GetPos, PromptPolls,
                  PromptGotKey, CommandVerifies, VerifyOutside, VerifyAgain,
                  VerifyDone, CommandClearsScreen, CommandDone, kbdVars
    <2>3. CASE UNCHANGED vars
      BY <2>3 DEF vars, kbdVars
    <2> QED BY <2>1, <2>2, <2>3 DEF Next
  <1> QED BY <1>1, <1>2, PTL DEF Spec

(* TypeOK: every variable of touch input keeps its type.                   *)
THEOREM TypeCorrect == Spec => []TypeOK
  <1>1. KeyboardInv /\ HeldIsBoolean /\ Keys!TypeOK /\ Positions!TypeOK => TypeOK
    BY DEF KeyboardInv, KeyboardTypes, HeldIsBoolean, TypeOK
  <1> QED BY <1>1, KeyboardInvariant, HeldType, KeyTypes, PositionTypes, PTL
=============================================================================
