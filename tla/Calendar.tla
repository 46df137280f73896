------------------------------- MODULE Calendar -------------------------------
(***************************************************************************)
(* The calendar of the clock: days in a month, the day of the week, days   *)
(* and seconds since 2000 (drivers/rtc/ds3231.c), the numbers as the chip  *)
(* and the guest's registers hold them (chipset/mc146818.c), and the       *)
(* editor of SETUP, which steps one field at a time (ui/setup_menu.c).     *)
(*                                                                         *)
(* The time of day is one number below DayLength.                          *)
(***************************************************************************)
EXTENDS Naturals

CONSTANT DayLength     \* 86400 in the code

CalendarAssumption == DayLength \in Nat \ {0}

FirstYear == 2000
LastYear  == 2099
Years     == FirstYear .. LastYear

VARIABLE date     \* the time being edited

Leap(y) == y % 4 = 0 /\ (y % 100 # 0 \/ y % 400 = 0)

Len12 == <<31, 28, 31, 30, 31, 30, 31, 31, 30, 31, 30, 31>>

\* Mutation: a century is never leap.
DaysNoCentury(y, m) ==
  IF m = 2 /\ y % 4 = 0 /\ y % 100 # 0 THEN 29 ELSE Len12[m]
rtc_days_in_month(y, m) == IF m = 2 /\ Leap(y) THEN 29 ELSE Len12[m]

Dates == [year : Years, mon : 1 .. 12, day : 1 .. 31,
          sec : 0 .. DayLength - 1]

rtc_time_valid(t) ==
  /\ t.year \in Years /\ t.mon \in 1 .. 12 /\ t.sec < DayLength
  /\ t.day >= 1 /\ t.day <= rtc_days_in_month(t.year, t.mon)

-----------------------------------------------------------------------------
(* Counting from 2000-01-01.                                               *)

DaysBeforeYear[y \in FirstYear .. LastYear + 1] ==
  IF y = FirstYear THEN 0
  ELSE DaysBeforeYear[y - 1] + (IF Leap(y - 1) THEN 366 ELSE 365)

(* The months of the year before this one.                                 *)
DaysBeforeMonth(y, m) ==
  LET before[k \in 1 .. 13] ==
        IF k = 1 THEN 0 ELSE before[k - 1] + rtc_days_in_month(y, k - 1)
  IN before[m]

DayNumber(t) ==
  DaysBeforeYear[t.year] + DaysBeforeMonth(t.year, t.mon) + t.day - 1

(* 1 is Sunday; 2000-01-01 was a Saturday.                                 *)
rtc_day_of_week(t) == ((DayNumber(t) + 6) % 7) + 1

rtc_to_epoch(t) == DayNumber(t) * DayLength + t.sec

(* The leap days before a year are fewer than a year.                      *)
YearOf(days) ==
  LET latest == FirstYear + (days \div 365)
  IN CHOOSE y \in {latest - 1, latest} \cap Years :
       DaysBeforeYear[y] <= days /\ days < DaysBeforeYear[y + 1]

MonthOf(y, rest) ==
  CHOOSE m \in 1 .. 12 : /\ DaysBeforeMonth(y, m) <= rest
                         /\ rest < DaysBeforeMonth(y, m + 1)

rtc_from_epoch(secs) ==
  LET days == secs \div DayLength
      y == YearOf(days)
      rest == days - DaysBeforeYear[y]
      m == MonthOf(y, rest)
  IN [year |-> y, mon |-> m, day |-> rest - DaysBeforeMonth(y, m) + 1,
      sec |-> secs % DayLength]

-----------------------------------------------------------------------------
(* Registers are bytes: BCD in the chip, BCD or binary for the guest, as   *)
(* bit 2 of status B says.                                                 *)

to_bcd(v)   == (((v \div 10) * 16) + (v % 10)) % 256
from_bcd(v) == ((v \div 16) * 10) + (v % 16)

enc(v, binary) == IF binary THEN v % 256 ELSE to_bcd(v)
dec(v, binary) == IF binary THEN v ELSE from_bcd(v)

publish(t, binary) ==
  [day     |-> enc(t.day, binary),
   mon     |-> enc(t.mon, binary),
   year    |-> enc(t.year % 100, binary),
   century |-> enc(t.year \div 100, binary),
   sec     |-> t.sec]

(* A century that is none is taken for the 20th of these.                  *)
collect(r, binary) ==
  LET cent == dec(r.century, binary)
      century == IF cent \in 19 .. 21 THEN cent ELSE 20
  IN [year |-> century * 100 + dec(r.year, binary),
      mon  |-> dec(r.mon, binary),
      day  |-> dec(r.day, binary),
      sec  |-> r.sec]

(* Bit 7 of the chip's month is a century.                                 *)
ds3231_write(t) ==
  [day  |-> to_bcd(t.day),
   mon  |-> to_bcd(t.mon) + (IF t.year >= 2100 THEN 128 ELSE 0),
   year |-> to_bcd(IF t.year >= 2100 THEN t.year - 2100 ELSE t.year - 2000),
   sec  |-> t.sec]

ds3231_read(r) ==
  [year |-> from_bcd(r.year) + (IF r.mon >= 128 THEN 2100 ELSE 2000),
   mon  |-> from_bcd(r.mon % 32),
   day  |-> from_bcd(r.day % 64),
   sec  |-> r.sec]

-----------------------------------------------------------------------------
(* The editor.                                                             *)

Clipped(t) ==
  LET last == rtc_days_in_month(t.year, t.mon)
  IN [t EXCEPT !.day = IF t.day > last THEN last ELSE t.day]

(* One more or one less; a day that is one too many is clipped.            *)
Around(first, last, n) ==
  IF n < first THEN last ELSE IF n > last THEN first ELSE n

clock_adjust(t, field, dir) ==
  LET Step(n) == IF dir = "up" THEN n + 1 ELSE n - 1
      year == Around(FirstYear, LastYear, Step(t.year))
      day  == IF Step(t.day) < 1 THEN rtc_days_in_month(t.year, t.mon)
                                 ELSE Step(t.day)
      sec  == IF dir = "up" THEN t.sec + 1 ELSE t.sec + DayLength - 1
  IN Clipped(
       CASE field = "year" -> [t EXCEPT !.year = year]
         [] field = "mon"  -> [t EXCEPT !.mon = Around(1, 12, Step(t.mon))]
         [] field = "day"  -> [t EXCEPT !.day = day]
         [] field = "sec"  -> [t EXCEPT !.sec = sec % DayLength])

Fields == {"year", "mon", "day", "sec"}

(* A chip that was never set: the editor starts here.                      *)
Init == date = [year |-> 2026, mon |-> 1, day |-> 1, sec |-> 0]

Edit(field, dir) == date' = clock_adjust(date, field, dir)

Next == \E field \in Fields, dir \in {"up", "down"} : Edit(field, dir)

Spec == Init /\ [][Next]_date

TypeOK == date \in Dates

-----------------------------------------------------------------------------
(* The reference: what everybody knows of the years from 2000 to 2099.     *)
ShortMonths == {4, 6, 9, 11}
LastOf(t) == CASE t.mon = 2            -> IF t.year % 4 = 0 THEN 29 ELSE 28
               [] t.mon \in ShortMonths -> 30
               [] OTHER                 -> 31
Tomorrow(t) ==
  IF t.day < LastOf(t) THEN [t EXCEPT !.day = @ + 1]
  ELSE IF t.mon < 12 THEN [t EXCEPT !.day = 1, !.mon = @ + 1]
  ELSE [t EXCEPT !.day = 1, !.mon = 1, !.year = @ + 1]
LastDate(t) == t.year = LastYear /\ t.mon = 12 /\ t.day = 31

(* Whatever is edited, the time is one the chip and the guest accept, and  *)
(* it comes back the same from every form it is kept in; the counts and    *)
(* the weekdays follow one another, and 29 February 2000 was a Tuesday.    *)
DateSurvives ==
  /\ rtc_time_valid(date) /\ date.day <= LastOf(date)
  /\ rtc_from_epoch(rtc_to_epoch(date)) = date
  /\ \A binary \in BOOLEAN : collect(publish(date, binary), binary) = date
  /\ ds3231_read(ds3231_write(date)) = date
  /\ ~LastDate(date) =>
       /\ rtc_to_epoch(Tomorrow(date)) = rtc_to_epoch(date) + DayLength
       /\ rtc_day_of_week(Tomorrow(date)) = (rtc_day_of_week(date) % 7) + 1
  /\ date.year = 2000 /\ date.mon = 2 /\ date.day = 29 => rtc_day_of_week(date) = 3
=============================================================================
