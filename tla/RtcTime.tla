------------------------------- MODULE RtcTime ------------------------------
(***************************************************************************)
(* The clock: the registers of the DS1307, which hold two decimal digits   *)
(* to a byte, the time that the kernel keeps in seconds since 1970, and    *)
(* the date and time in the bar of the interface. The command TIMER and    *)
(* the window Date and Time set the registers; the kernel time follows the *)
(* registers at boot and in the window. Nobody waits here: the clock does  *)
(* not tick between two steps.                                             *)
(***************************************************************************)
EXTENDS Integers, FiniteSets

CONSTANTS
    Dates,        \* <<day, month, year>> that the user may give in the window
    ShortDates,   \* the same for TIMER, with two digits of the year
    Times,        \* <<hour, minute, second>>
    Junk          \* what a field of an uninitialised time_t may hold

Byte == 0 .. 255

(* Any numbers: nobody looks whether there is such a date or time.         *)
ASSUME RtcTimeAssumption ==
    /\ Dates \subseteq Byte \X Byte \X Int
    /\ ShortDates \subseteq Byte \X Byte \X Byte
    /\ Times \subseteq Byte \X Byte \X Byte
    /\ Junk \subseteq Byte

VARIABLES
    reg,     \* the registers
    time     \* the kernel time, as <<days, seconds of the day>>

(* History variables.                                                      *)
VARIABLES
    spoiled,  \* the registers may hold what is no date or time
    fresh,    \* the kernel time was taken from the registers as they are
    chosen    \* the date and time given in the window, while both are so

clockVars == <<reg, time, spoiled, fresh, chosen>>

Order == <<"second", "minute", "hour", "day", "month", "year">>
Field == {"day", "month", "year", "hour", "minute", "second"}

Valid(f) ==
    CASE f = "day" -> 1 .. 31 [] f = "month" -> 1 .. 12 [] f = "year" -> 0 .. 99
      [] f = "hour" -> 0 .. 23 [] f \in {"minute", "second"} -> 0 .. 59

(* What is to be added to the two digits of a register.                    *)
Century(f) == IF f = "year" THEN 2000 ELSE 0

(* The fields of g, and those of r that g does not have.                   *)
Over(g, r) ==
    [f \in DOMAIN g \cup DOMAIN r |-> IF f \in DOMAIN g THEN g[f] ELSE r[f]]

Nothing == [f \in {} |-> 0]
DateFields(d) == [day |-> d[1], month |-> d[2], year |-> d[3]]
TimeFields(t) == [hour |-> t[1], minute |-> t[2], second |-> t[3]]

-----------------------------------------------------------------------------
(* Two digits to a byte. A number from 160 on does not fit, and wraps.     *)
Bin2bcd(b) == ((b \div 10) * 16 + (b % 10)) % 256
Bcd2bin(v) == (v \div 16) * 10 + (v % 16)

IsLeapYear(y) == IF y % 100 = 0 THEN y % 400 = 0 ELSE y % 4 = 0

(* CTime counts months from 0.                                             *)
Months == 0 .. 11
DaysOfMonth(m, y) ==
    CASE m = 1 -> (IF IsLeapYear(y) THEN 29 ELSE 28)
      [] m \in {3, 5, 8, 10} -> 30
      [] OTHER -> 31

(* The loops add up years, to the last one that a register can give, and   *)
(* months.                                                                 *)
LastYear == 2000 + 165
DaysBeforeYear ==
    [y \in 1970 .. LastYear |->
        365 * (y - 1970) + Cardinality({n \in 1970 .. y - 1 : IsLeapYear(n)})]

DaysBeforeMonth ==
    [y \in 1970 .. LastYear |-> [m \in 0 .. 12 |->
        Cardinality({d \in (0 .. m - 1) \X (1 .. 31) : d[2] <= DaysOfMonth(d[1], y)})]]

(* Seconds are counted in 32 bits: 49710 days and 23296 seconds. The       *)
(* mutant counts on.                                                       *)
SecondsOfDay == 86400
LastDay == 49710
WrappedNever(days, seconds) ==
    <<days + seconds \div SecondsOfDay, seconds % SecondsOfDay>>
Wrapped(days, seconds) ==
    LET d == days + seconds \div SecondsOfDay
        s == seconds % SecondsOfDay
    IN  IF d < LastDay \/ (d = LastDay /\ s < 23296) THEN <<d, s>>
        ELSE IF s < 23296 THEN <<d - LastDay - 1, s + SecondsOfDay - 23296>>
        ELSE <<d - LastDay, s - 23296>>

(* The months before this one; the mutant takes this one in.               *)
MonthsBeforeAll(m) == m
MonthsBefore(m) == m - 1

(* The time of the registers, at boot and behind the window.               *)
KernelTime(r) ==
    LET v == [f \in Field |-> Bcd2bin(r[f])]
        y == v.year + 2000
    IN  Wrapped(DaysBeforeYear[y] + DaysBeforeMonth[y][MonthsBefore(v.month)]
                    + v.day - 1,
                (v.hour * 60 + v.minute) * 60 + v.second)

(* For any other month the loop takes days from behind the table of months *)
(* - for 0 it runs through all of the memory -, and the time is any time.  *)
KernelTimes(r) ==
    IF Bcd2bin(r.month) \in 1 .. 13 THEN {KernelTime(r)} ELSE {<<j, 0>> : j \in Junk}

(* The loops that take off years, and months, while there are days of one. *)
YearOf(days) ==
    CHOOSE y \in 1970 .. LastYear - 1 :
        DaysBeforeYear[y] <= days /\ days < DaysBeforeYear[y + 1]
MonthOf(days, y) ==
    CHOOSE m \in Months :
        DaysBeforeMonth[y][m] <= days /\ days < DaysBeforeMonth[y][m] + DaysOfMonth(m, y)

(* GetDateTimeString, of which the bar shows the date and hh:mm.           *)
Shown(t) ==
    LET y == YearOf(t[1])
        d == t[1] - DaysBeforeYear[y]
        m == MonthOf(d, y)
    IN  [day |-> d - DaysBeforeMonth[y][m] + 1, month |-> m + 1, year |-> y,
         hour |-> t[2] \div 3600, minute |-> (t[2] \div 60) % 60]

-----------------------------------------------------------------------------
ClockInit ==
    /\ \E d \in Dates, t \in Times :
          LET set == Over(DateFields(d), TimeFields(t))
          IN  /\ \A f \in Field : set[f] - Century(f) \in Valid(f)
              /\ reg = [f \in Field |-> Bin2bcd(set[f] - Century(f))]
    /\ time \in KernelTimes(reg)
    /\ spoiled = FALSE /\ fresh = TRUE /\ chosen = Nothing

(* ds1307_read: when it fails, the fields are what they were on the stack. *)
Read == {[data |-> reg, error |-> FALSE]}
        \cup {[data |-> [f \in Field |-> j], error |-> TRUE] : j \in Junk}

(* ds1307_write: the bytes go out in their order. When it fails, any of    *)
(* the first ones have been taken, be it all.                              *)
Write == {[sent |-> Field, error |-> FALSE]}
         \cup {[sent |-> {Order[i] : i \in 1 .. n}, error |-> TRUE] : n \in 0 .. 6}

Written(data, sent) ==
    reg' = [f \in Field |-> IF f \in sent THEN Bin2bcd(data[f]) ELSE reg[f]]

(* At boot the kernel has no time but what the clock gives.                *)
ClockBoot ==
    /\ \E error \in BOOLEAN :
          /\ time' \in IF error THEN {<<0, 0>>} ELSE KernelTimes(reg)
          /\ fresh' = ~error
    /\ chosen' = Nothing
    /\ UNCHANGED <<reg, spoiled>>

(* TIMER dd/mm/yyyy hh:mm:ss, or one of the two: of each it takes the two  *)
(* characters at their places for a number, whatever they are. The fields  *)
(* not given are written as they were read, digits and all, and also when  *)
(* reading has failed. It does not tell the kernel.                        *)
Timer(given) ==
    /\ \E read \in Read, write \in Write :
          /\ Written(Over(given, read.data), write.sent)
          /\ spoiled' =
                \/ spoiled /\ write.sent # Field
                \/ \E f \in write.sent \cap DOMAIN given : given[f] \notin Valid(f)
                \/ \E f \in write.sent \ DOMAIN given :
                      spoiled \/ read.error \/ reg[f] > 9
    /\ fresh' = (fresh /\ reg' = reg)
    /\ chosen' = Nothing
    /\ UNCHANGED time

(* Without a date nothing is put into vparam: it may hold the date of an   *)
(* earlier command, or no number.                                          *)
NoDate == DateFields(<<0, 0, 0>>)
TimerTimeOnly(t) ==
    \/ Timer(t) \/ Timer(Over(t, NoDate))
    \/ \E d \in ShortDates : Timer(Over(t, DateFields(d)))

(* The window shows the digits of the registers, and takes the number that *)
(* they begin with. The mutants take for a number what the registers hold, *)
(* and for a year of the century the year.                                 *)
DigitsRaw(v) == v
Digits(v) ==
    IF v \div 16 > 9 THEN 0 ELSE IF v % 16 > 9 THEN v \div 16 ELSE Bcd2bin(v)

YearDigits(v) ==
    IF v \div 16 > 9 THEN 20
    ELSE IF v % 16 > 9 THEN 200 + v \div 16 ELSE 2000 + Bcd2bin(v)

OffsetNone(y) == y % 256
Offset(y) == (y - 2000) % 256

(* It writes, reads again whether that failed or not, and sets the kernel  *)
(* time to what it has read.                                               *)
Setup(given) ==
    /\ \E write \in Write, error \in BOOLEAN :
          LET shown == [f \in Field |->
                           IF f = "year" THEN YearDigits(reg[f]) ELSE Digits(reg[f])]
              data  == [Over(given, shown) EXCEPT !.second = 0, !.year = Offset(@)]
          IN  /\ Written(data, write.sent)
              /\ spoiled' =
                    \/ spoiled /\ write.sent # Field
                    \/ \E f \in (write.sent \ {"second"}) \cap DOMAIN given :
                          given[f] - Century(f) \notin Valid(f)
                    \/ spoiled /\ ~(write.sent \ {"second"} \subseteq DOMAIN given)
              /\ IF error THEN UNCHANGED time ELSE time' \in KernelTimes(reg')
              /\ fresh' = IF error THEN fresh /\ reg' = reg ELSE TRUE
              /\ chosen' = IF write.error \/ error THEN Nothing ELSE given

ClockNext ==
    \/ Setup(Nothing)
    \/ \E d \in Dates :
          \/ Setup(DateFields(d))
          \/ \E t \in Times : Setup(Over(DateFields(d), TimeFields(t)))
    \/ \E d \in ShortDates :
          \/ Timer(DateFields(d))
          \/ \E t \in Times : Timer(Over(DateFields(d), TimeFields(t)))
    \/ \E t \in Times : Setup(TimeFields(t)) \/ TimerTimeOnly(TimeFields(t))

-----------------------------------------------------------------------------
ClockTypeOK ==
    /\ reg \in [Field -> Byte]
    /\ time[1] \in 0 .. LastDay /\ time[2] \in 0 .. SecondsOfDay - 1
    /\ {spoiled, fresh} \subseteq BOOLEAN /\ DOMAIN chosen \subseteq Field

(* The registers hold digits of a date and a time: the clock runs (its     *)
(* top bit of the seconds stops it) and boot finds the month in its table. *)
(* What spoils them is a number given that is none of its field, which     *)
(* nothing refuses, and TIMER with one argument, when a field of the other *)
(* half has a tens digit, is spoiled or could not be read; writing both    *)
(* halves puts them right. A write that breaks off spoils nothing.         *)
ClockValid ==
    ~spoiled => \A f \in Field : reg[f] % 16 <= 9 /\ Bcd2bin(reg[f]) \in Valid(f)

DateExists(v) == v.day <= DaysOfMonth(v.month - 1, v.year)

(* What the bar shows, by way of the seconds since 1970, is what the clock *)
(* holds, unless TIMER has changed it since; a day that its month has not  *)
(* excepted.                                                               *)
ShownIsClock ==
    LET v == [f \in Field |-> Bcd2bin(reg[f]) + Century(f)]
    IN  fresh /\ ~spoiled /\ DateExists(v) =>
            LET shown == Shown(time) IN \A f \in DOMAIN shown : shown[f] = v[f]

(* And a date or a time that was set in the window is what it shows, until *)
(* something else is set; but for a date that does not exist or is not of  *)
(* this century, and for a half that was kept and is spoiled.              *)
ChosenIsShown ==
    ~spoiled /\ ("year" \in DOMAIN chosen => DateExists(chosen)) =>
        LET shown == Shown(time)
        IN  \A f \in DOMAIN chosen \cap DOMAIN shown : shown[f] = chosen[f]
=============================================================================
