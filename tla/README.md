# MMSJOSRpi in TLA+

Specifications of MMSJOSRpi, a bare-metal operating system for the Raspberry Pi
Zero with a 320x240 touch LCD: what its parts promise, under which
interleavings, and proofs of the promises that matter most. Paths are relative
to the repository (`src/` is its root here).

## The system

One core runs one main program (`CMMSJOS::Start` in `src/src/kernel/mmsjos.cpp`)
for ever. Two interrupt handlers cut into it and do not nest: the touch handler
(`CLcdTch::lcd_tch_irq_handler`, which calls `CLcdVdg::TCHVerif`) and the kernel
timer (`CMMSJOS::TimerHandler`, which draws the clock). Both run to completion,
so a handler is one atomic step; it may fall between any two accesses of the
main program to what they share. There are no locks and interrupts are never
masked. The serial line is polled.

| component | state | operations | what makes it correct |
|---|---|---|---|
| touch key queue (`lcd_vdg.cpp`) | `keyBuffer[16]`, `icount` | `TCHVerif` stores, command 0xDC (`getKey`) takes | no access outside the array, keys in order and once |
| touch position queue (`lcd_vdg.cpp`) | `pxxxreturn`, `pyyyreturn`, `icountp` | `TCHVerif` stores, 0xDD (`getPos`) drains | the position returned was touched |
| on-screen keyboard (`lcd_vdg.cpp`) | `pkeyativo`, `pshowkeyontouch`, `vkeyrep`, `keyvxx`, `keyvyy`, page 9 | `ShowKeyboard`, `HideKeyboard`, 0xDB (`funcKey`) | drawn at its place iff it takes keys; hiding restores the screen |
| touch controller (`lcd_tch.cpp`) | calibration | `Read_Ads7843` | - |
| LCD drawing (`lcd_vdg.cpp`) | window of the panel, `pBaseVideoMem[0..10]` | lines, text, images, scrolling | page 0 is what the panel shows |
| console (`screentft.cpp`) | `vcol`, `vlin`, `vxcur`, `vycur`, `paramVDG` | `writes`, `writec`, `locate`, `clearScr` | what is printed is seen, a repeated request does no harm |
| screen pages (`screentft.cpp`) | `vpagescr` | `SaveScreen`, `RestoreScreen` | what is restored is what was saved |
| shell and line editor (`mmsjos.cpp`) | `vbuf`, `vbufptr`, `vinip` | `Start`, `putPrompt` | Enter executes the line that the screen shows |
| shell commands (`mmsjos.cpp`) | `vdiratu`, `vdiratup`, the card | `processCmd` | text and pointer agree; the current folder exists |
| LOAD232 (`mmsjos.cpp`, `uart.cpp`) | UART FIFO, memory at `vMemSystemArea` | `load232` | the file saved is the file sent |
| send232d (`src/pc/borland`), Arduino bridge | - | frames DD d, EE v, echoes | both sides agree where they are |
| configuration (`mmsjos.cpp`) | `mcfgfile`, `vMMSJConfig` | `loadCFG`, `loadFile` | settings survive any file |
| MGI (`mmsjos.cpp`), windows (`gui.cpp`) | pages, `vElements` | `editortela`, `showMenu`, `CWindow::run` | every window closes and restores |
| clock (`ds1307.cpp`, `kernel.cpp`, `mmsjos.cpp`) | RTC registers, kernel time | `setupDateTimer`, TIMER, boot | the registers hold a date if one was given; the bar shows it |
| boot (`kernel.cpp`), GPIO/I2C/mailbox/string library, Bluetooth drivers | - | - | - |

Hard behaviours: the touch handler against the main program on every shared
field, also between two assignments of one command; a queue that is full; a count that rises without a byte; dropped bytes on
a line whose two frame bytes may also be data; a full card; a console that
scrolls under a keyboard that will be put away; two records of one folder,
changed in turn; a restart, of which only card and clock survive.

## Modules

| module | models | correspondence |
|---|---|---|
| `KeyQueue` | key queue | the variables are the fields of `CLcdVdg`; `Store` and `CountOnly` are the two ways in which `TCHVerif` raises `icount`; `Call` to `Decrement` are the accesses of command 0xDC, one step for each read or write of a volatile field |
| `PositionQueue` | position queue | the same for command 0xDD; entry `Cap` of the arrays overlaps `pyyyreturn[0]` and `pkeyativo` as the object file `lcd_vdg.o` lays the class out |
| `TouchInput` | `TCHVerif` whole, the keyboard, `funcKey`, `VerifyTouchLcd`, the loop of `Start` | composes the two queues (`Keys`, `Positions`), one disjunct of `Touch` for each way through the handler; `funcKey` of the main program is cut where the handler may come between: the flag, the two coordinates of the place, the test, the copy, the second flag, the drawing |
| `Load232` | `load232`, UART FIFO, card | one action for each `getc` of the code, the framing as `pc`; the peer writes the frames of `send232d.cpp` whenever it likes, rejects bytes and sends them again; `file` is what it wants to send, `sent` what it has sent |
| `ScreenStack` | what the screen pages promise | a stack of pictures, each over the part of the screen it was saved of |
| `ScreenPages` | `vpagescr`, pages 0 to 8 | `SaveScreen` and `RestoreScreen` with the copies of `lcd_vdg.cpp`; refines `ScreenStack`, the pages below `vpagescr` being the stack; `request`, a history variable of both, says which area was asked for, so that a step of the one is the same call of the other |
| `MgiPages` | desktop, menu, programs of icons, windows | extends `ScreenPages`; one action for each place where the interface draws, saves or restores, `open` for the windows on the C++ stack |
| `Send232` | `send232d` | extends `Load232`; one action for each wait and each byte of the program, over the line that leads back, on which `load232` writes nothing |
| `Console` | `CScrTft` as a console | operators on a record: the cursor of the text, the cursor that is drawn, the cells of the panel; no variables |
| `LineEditor` | the prompt: `Start`, `putPrompt`, the output of commands, the keyboard over the text, `paramVDG` | extends `Console`; one action for each key, each character of output and each place where the keyboard is drawn or put away; `RunIcon` to `IconDone` are a command that `editortela` runs |
| `ShellFs` | `vdiratu`, `vdiratup`, CD, MD, RM, REN | the two parts of CD one after the other in one action, one action for each kind of argument that its tail tells apart; FatFs as a set of paths |
| `RtcTime` | DS1307, `CTime`, TIMER, the window Date and Time, the date in the bar | registers as bytes of two digits, in the order in which they are written, kernel time as days and seconds with the wrap of 32 bits |
| `Shell` | commands and restarts | composes `ShellFs` and `RtcTime`: a restart is one step of both |
| `MC...` | instances for TLC | sets of keys, places and bytes |
| `...Proofs` | theorems | see below |

Abstractions. A touch reaches `TouchInput` as what `ReturnKeyboard` makes of it,
the kind of key under the finger; capitals, digits and symbols only choose the
code. The screen and page 9 are there sets of the cells that show a keyboard,
and a keyboard is the cells of its area. Drawing it is one step, because a
handler that cuts into it draws the same keyboard at the same place, or closes
it, which is counted in `kbdRace`. The vendored compiler output keeps loop counters of 0xDC and 0xDD in
registers. `Load232` keeps the bytes DD and EE and a letter apart, which is all
the framing and `toupper` tell apart. In `ScreenPages` the screen is page 0, the
copy in memory: boxes, texts, images and restores go to it and to the panel, dots and lines to
the panel only, and whether the two agree is a question for `LcdPanel`. A
drawing fills named parts of the screen with one ink; a program of an icon may
fill any. The clock in the bar counts as bar.

`LineEditor` takes from `TouchInput` that the keyboard is drawn exactly while it
takes keys, and draws it in one step; in return it has what `TouchInput` leaves
out, the request that `CScrTft::writes` finds in `paramVDG` and sends once more,
and the row and column of pixels that `TFT_Box` draws beyond the area which is
saved and put back: a cell with a line of something else through it is `Cut`.
Every character of the prompt is one letter, every key of the keyboard another.
The place of a touch, when it is sent as a request, does nothing, clears the
panel or draws and takes the cursor along (`AsRequest`). Whatever it draws, a
character, a box or a page restored, is one character there, because the picture
of the interface is put back over it before the text screen comes back; the key
or position that it may take from a queue is left out.
In `ShellFs` a path is a sequence of names, case and wildcards are left out, and
what `retPathAndFile` overwrites behind its literal is not modelled. In `RtcTime`
the clock does not tick between two steps: what is asked is whether conversions
and failures keep a time, not how long a command takes. What FatFs and Circle do
is modelled as far as first-party code uses it and marked external. Any numbers
may be given to TIMER and to the window, and a write to the clock may fail after
any of its bytes.

## Runs

| run | shows | bounds, and why they are enough |
|---|---|---|
| `KeyQueue` | no access of `getKey` leaves the array and its padding byte; keys come out in order, once, unless a touch met a full queue or `Window` | capacity 3 has first, inner and last entries and the full queue; three codes tell an order; boot contents zero or not |
| `PositionQueue` | indices are safe; the latest touch is returned if none was lost | capacity 3; two places, one with a negative coordinate, so that the overlapped `pkeyativo` changes |
| `TouchInput` | the composed system uses both queues as specified; the keyboard is drawn, whole and at its place, iff active; the key queue empties once touching stops | capacity 1: the queues have their own runs, what matters is who calls what when, and full queues come at once, and one waiting key is enough for a queue that does not drain; a keyboard of one cell, and two places, that of boot and that of the prompt |
| `TouchPosition` (fails) | a second FF finds the positions drained and gets a position that nobody touched | capacity 3, of which two entries are used: no queue is full |
| `TouchHide` (fails) | a touch between the flag and the new place leaves a keyboard at the old one | capacity 1; two rows to draw at and a keyboard of two cells |
| `Load232` | `load232` has one byte from each undisturbed DD frame, and the file byte for byte if none was sent again; the saving loop stays within the file; an undisturbed transfer gives the shell back | name of 1, FIFO of 2, pieces of 2, 4 bytes sent, so files of 0 to 3: empty, short, whole, whole and a rest; a byte of the name or of the file sent again; the bytes are DD and EE, which also begin frames |
| `Load232Saved` (fails) | "File Saved..." for a file that is cut off | the same |
| `Send232` (fails) | `load232` says "Communication Established...", and `send232d` waits for it for ever | the same, with a letter and DD |
| `MgiPages` | pages are a stack; closing a window restores what it covered; nothing stale is restored; the desktop comes back unless a menu item was chosen or the pages ran out | 3 pages, the deepest nesting (desktop, window, message): a further MGI from an icon fills them; five parts of the screen, so that menu and windows overlap and a message reaches beyond its window |
| `MenuPages` (fails) | two items of the menu make it restore from page 0 | same |
| `LineEditor` | Enter executes what the screen shows; the prompt stays; no character of the keyboard is left behind; text is drawn; a repeated request does no harm | a panel of 5 rows and 4 columns, a buffer of 4 and lines of up to 5: a line wraps, scrolls, and outgrows the buffer; prompts that fit and that wrap; a keyboard of two rows and two columns, so that it has an edge and a cell that is none, which fits below the line or has to go above; commands that print nothing, empty lines first, or more than a row, from the prompt and from an icon |
| `Shell` | folder and pointer agree; the current folder exists; the clock holds dates; the bar shows the clock and what the user set | three names, of which one begins with one dot and one with two, paths of up to 6, up to 3 folders: CD name/name, .. before and behind a name, and CD .. below two levels; dates at the ends of a leap month, a year and the century, 31/2/2147, and for TIMER 9/3/99 and 31/14/24; times 3:08:05 and 45:59:247; one junk byte, 255 |

`Shell` has a constraint (`Bounded` in `MCShell`). Folders and clock are composed
by the restart alone, so TLC looks at folders while the clock is as it was, and
at the clock while there are no folders. Of folders it goes on from paths of one
name at most once nothing is said of where the shell is (`odd`, `wild`). Of the
clock it goes on from registers that the last date and time have spoiled, but not
from what was chosen, from a kernel time taken from a spoiled clock, or from one
that is not fresh and not 1970: no step of the clock looks at these, and a write that fails
at its end, or a restart that cannot read the clock, leads to the same registers
without them. Invariants are checked in the states at that border as well.

The passing properties name their exceptions, as history variables, and these
say what the code really does.

* `kbdRace`: a touch shows the keyboard between `pshowkeyontouch = 1` and a new
  place, and the handler draws it at the old one; it shows the keyboard between
  the test of `pkeyativo` and the copy of the screen, so that the copy has a
  keyboard in it; it closes a keyboard that is still being drawn; or a touch
  meets a full position queue, whose next entry is `pkeyativo`.
* `covered`: a line that has wrapped can come to stand where the keyboard is
  drawn, and a tap hides it. `smeared`: a line that scrolls the panel takes rows
  of the keyboard with it, and Enter then puts back the rows of before. `long`:
  a line of more than 31 characters is executed cut off. `unseen`: the interface
  prints from column -1 after clearing, so the first line of its messages, if it
  begins with text, is not seen.
* Without any of these, of the last row and column of the keyboard a line of
  pixels stays on the text, which `KeyboardPutAway` does not count as a character.
  And a line without text that a command run from an icon prints first, as LS
  does, sends the place of the touch as a request (`req = "touch"`).
* `missing`: CD to a folder that is not there says "Path Not Found" and goes
  there all the same; CD .. leaves two folders. `wild`: a CD before the first
  CD / goes by a pointer that was never set. `moved`: the current folder, or one
  on the way to it, was removed or renamed. `odd`: CD alone, CD to a folder whose
  name begins with one dot, and .. before or behind a folder that is there part
  the pointer from the text until the next CD /: after CD .x, CD b writes over
  the name .x, and for a pointer within the text or behind it (`Astray`) the
  model lets the text end anywhere.
* `spoiled`: neither TIMER nor the window refuses a number that is none of its
  field. TIMER with a date or a time alone also writes the other half in the
  wrong base, which spoils it unless its digits are below ten. Writing both
  halves together puts them right. `fresh`: TIMER does not tell the kernel, and
  a reading that fails leaves the kernel time as it was, so until the clock is
  read again the bar may show another time.
* `sent` and `file`: a byte that the peer rejects and sends again is stored twice.
  A byte that the UART drops (`lost`) cannot be noticed at all, as the protocol
  has neither count nor checksum; nothing is claimed of such a transfer.

Deadlock is not checked for `Load232` and `Send232`: `load232` waits for ever
when its peer stops, which the code does.

Fairness. `TouchInput!FairSpec` has weak fairness of the main program as a
whole: it never blocks and handlers return. It includes that a command sooner
or later polls or returns, which a LOAD232 without a peer does not.
`Load232!FairSpec` has weak fairness of `load232` and of the line. Nobody is
made to touch the screen, and no peer is made to send. `Send232!SpecBoth` has
weak fairness of each of the two programs: both are loops that run by
themselves once the user has started them, so its counterexample is two
programs that wait for each other, not one that stopped.

The five failing runs are divergences between a comment or message of the code
and what it does; `PROJECT.json` quotes them.

## Proofs

TLAPS proves these for every value of the constants, from the assumptions named
next to the constants (`KeyQueueAssumption` and so on), which say no more than
that capacities are positive, bytes are bytes, areas lie on the screen (at most
254 pages, as `vpagescr` is a byte), what is typed is told apart from the
marks for the cursor, the prompt and the keyboard, and numbers given to the clock
fit into the bytes that they are stored in.

* `KeyQueueProofs`: `TypeCorrect`, `IndicesSafe`, `KeysArriveInOrder`. The
  argument: `icount` cannot fall under `getKey`, so the counter of its loop and
  the count it clears and lowers stay in 1..Cap. For the order, the invariant
  says for each `pc` which slots hold which keys of `typed`: the front has been
  shifted, the back not yet, and one entry is in the register.
* `PositionQueueProofs`: `TypeCorrect`, `IndicesSafe`, by the same argument, and
  `LastTouchReturned`: the invariant says for each `pc` of `getPos` where the
  latest position is, in the entry it reads, in the one it copies, or in the
  registers of the loop. It is proved for `Cap >= 3`, the code has 16: clearing
  the entry behind a full queue clears the y of entry 0, and with a capacity of 2
  that is the position still to be returned.
* `TouchInputProofs`: `ImplementsKeyQueue` and `ImplementsPositionQueue`, every
  step of the composed system is a step of each queue or leaves it alone, which
  needs that the main program runs one call at a time; `KeysStayInOrder` carries
  the theorem about the key queue over, and `LastTouchStaysReturned` the one
  about positions. `KeyboardFollowsFlag`, for every size and place of the
  keyboard: the invariant adds what is true inside `funcKey`, step by step: until
  the row is set a keyboard on the screen is one that a touch has shown at the
  place of before, and if the place changes then, `kbdRace` says so.
  `TypeCorrect`.
* `Load232Proofs`: `TypeCorrect` (a name does not outgrow its array),
  `WritesOnlyReceived`, `SavesAll`: what is on the card while `load232` writes
  is the first `ix` bytes of the file. `ReceivesWhatIsSent`, while the UART drops
  nothing: the invariant `FrameInv` gives every byte on the line its role in a
  frame (a mark, of the name, of the file), says that the bytes sent are the
  received ones, the one in hand and those on the line, and that `load232` is in
  step with the roles. With it a byte of the file that looks like a mark is no
  danger, because `load232` counts. While nothing was sent again, `file` is
  `sent`, which gives the file byte for byte.
* `ScreenPagesProofs`: `PagesImplementStack`, by a refinement whose invariant is
  the type invariant. `MgiPagesProofs`: `InterfaceUsesStack`, `TypesCorrect`, and
  `WindowsRestore`: the invariant locates the page of the w-th window from the
  top as the w-th below `vpagescr`. It needs that only windows save and restore
  while one is open, that they close in the reverse order, and that a window
  without a page takes that promise from all below it. `OnlySavedRestored`: who
  will restore an area has saved it, and nothing that has been saved is above it
  (`SavedAreas`). `DesktopReturns`: whoever covers the desktop has it in a page or
  knows how to draw it (`DeskInv`), which fails only in the two cases that the
  property names.
* `ShellProofs`: `TypeCorrect`, `PointerFollowsText`, `ShellStaysOnCard`, for
  every set of names, those that begin with dots included, and every depth of
  paths. The invariant `FsInvariant` adds
  that the card is closed, that is, that the folder of a folder is there. This
  is what CD .. needs, and removing and renaming keep it. `ShellStaysOnCard` also
  needs `PointerAtEnd`: the tail of CD writes at the pointer, and only because
  that is the end of the text is the name it writes looked up where it was found.

  `ClockStaysValid`, `BarShowsTheClock`, `BarShowsTheChoice` and `TypesCorrect`,
  for any numbers given, and writes that break off after any register: the invariant `ClockInvariant` says that a fresh kernel
  time is that of the registers, and that what was chosen in the window is what
  they hold. That the bar gives back a date from its seconds needs the lengths of
  years and months (`YearLength`, `MonthLength`, as cardinalities of sets of leap
  years and of days, not sums), that years and months follow each other, so that
  the loops find the right ones (`YearOfDay`, `MonthOfDay`), and that up to 2099
  nothing wraps in 32 bits (`KernelTimeOfDate`).

* `LineEditorProofs`: `TypeCorrect`, `LineShown`, `PromptUntouched`,
  `KeyboardLeavesNothing`, `TextSeen` and `RepeatDoesNoHarm`, for every size of
  the panel, the buffer and the keyboard. Lemmas say first what each operator of
  `Console` does to each part of a console; `TypeEffect` and `PrintEffect` join
  them: a character is drawn where the text cursor stands, what was written
  before it moves up by as many rows as the panel scrolls, and the drawn cursor,
  which blanks what it stands on, stands on nothing that was written. For the
  line, `LineInv` adds that its letters stand in the order of typing before the
  text cursor, and that the last ones of its row, as many as the cursor is right
  of `vinip`, are those that backspace takes away. For the keyboard, every key on
  the panel is within the area that will be put back, and in what was saved there
  is none. For the prompt, `PromptInv`
  adds that on the row of the cursor it ends before `vinip`, and `PrintingInv`
  that it began in column 0 so many rows above as it has filled. For the request
  sent again, `RequestInv` says of each request what it has left on the panel,
  but of the place of a touch, which may do anything. `LineLeft` is what putting
  the keyboard away leaves, its line included: doing it again changes nothing.

  `PromptUntouched` has the hypothesis `PromptsFit`: a prompt fills fewer than
  `KeyAbove - KeyRows + 1` rows. A keyboard above the line is drawn 11 rows above
  the cursor and is 72 pixels high, 8 rows at most, so that is 4 rows of 40
  characters, and `#%s>` with the 128 bytes of `vdiratu` has 130. `RepeatDoesNoHarm`
  has the hypothesis `TextFirst`: what the interface prints begins with text, as
  its messages (`File Not Found`, `Load File %s Error` and so on) do. Both are
  needed: TLC finds `PromptStays` violated with a keyboard one row nearer, and
  `RepeatHarmless` with a message that begins with a new line.

Only model-checked: the liveness properties `QueueDrains` and `TransferEnds`,
which are out of the prover's reach.

## Plan

In the order of importance; each module gets its runs and mutants, those marked
(p) a proof.

1. `KeyQueue`, `PositionQueue`, `TouchInput` (p) and `Load232` (p): done.
2. `ScreenStack`, `ScreenPages` (p), `MgiPages` (p): done.
3. `Send232`: done.
4. `Console` and `LineEditor` (p): done.
5. `ShellFs` (p), `RtcTime` (p) and `Shell`: done.
6. `LcdPanel`: drawing cut by a drawing handler, page 0 against the panel, and
   the kernel timers of MGI, which nobody cancels.
7. `Config`: `loadCFG` and `loadFile` with reads that fail.
8. `GuiWindow`: windows that close; elements that keep their values.

## Not modelled

Of modelled parts: the USB keyboard, whose handler calls the line editor from an
interrupt; an argument of CD that ends in a slash, is of two words or of more than
two parts; names that differ in case; what lies in memory behind `vdiratu`, behind the literal `"SD:"`
that `retPathAndFile` appends to, and behind `vTimeTotal`; the loading of
programs; MGI started from an icon of itself, as far as the text screen goes (its
pages are in `MgiPages`); colours. The tail of CD stands behind a test of `vretfat`, which
nothing assigns; the compiler has dropped it from `build/mmsjos.elf`, and so has
`ShellFs`.

The rest: `LcdPanel`, `Config` and `GuiWindow` of the plan, and parts without a
state that a property could be about: the analogue side of the touch controller,
register access, string and number formatting, boot (a sequence of calls into the
Circle library), the Bluetooth images and the stub `mgi`. The vendored Circle
library and FatFs are external. One remark from reading: the configuration keeps
about 6.8 MB of video pages in BSS, while Circle's `KERNEL_MAX_SIZE` is 2 MB, so
the memory map depends on the linker settings of the build.
