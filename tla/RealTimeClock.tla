---------------------------- MODULE RealTimeClock ----------------------------
(***************************************************************************)
(* The clock of the guest (chipset/mc146818.c) over a DS3231 on I2C: the   *)
(* guest reads and writes registers from core 1's bus interrupt, core 0    *)
(* passes them to the chip and back in cmos_tick().  Nothing keeps the two *)
(* apart: cmos_tick() works register by register, and a guest may write    *)
(* between any two of its steps.                                           *)
(*                                                                         *)
(* A time is two registers, a month and a day; some pairs are not dates.   *)
(* The encoding (BCD or binary) is left out.  Time passes in steps that    *)
(* nobody controls.                                                        *)
(***************************************************************************)
EXTENDS Naturals

CONSTANTS Months, Days,
          NotDates,     \* the pairs the calendar rejects
          UseSet        \* do guests hold SET while they set the date: TRUE, FALSE

Times == [month : Months, day : Days]
Dates == Times \ NotDates

ClockAssumption ==
  /\ NotDates \subseteq Times /\ Dates # {} /\ UseSet \subseteq BOOLEAN

VARIABLES
  reg,           \* the registers the guest sees
  set,           \* SET of status B
  dirty, valid,
  chip,          \* the DS3231
  fallback,      \* the time run off the system timer since it was seeded
  pc0, t,        \* core 0 in cmos_tick(), and its local time
  guest, wanted, \* the guest: where it is in setting the date, and to what
  flushed,       \* history: the last date core 0 took from the registers
  overwritten    \* history: core 0 put a register back while the guest's
                 \* date was not taken yet

core0     == <<pc0, t>>
guestVars == <<guest, wanted>>
vars == <<reg, set, dirty, valid, chip, fallback, core0, guestVars, flushed, overwritten>>

TypeOK ==
  /\ reg \in Times /\ chip \in Times /\ t \in Times /\ fallback \in Dates
  /\ {set, dirty, valid, overwritten} \subseteq BOOLEAN
  /\ pc0 \in {"loop", "clean", "collect month", "collect day", "write", "read",
              "publish month", "publish day"}
  /\ guest \in {"idle", "set", "month", "day", "release"}
  /\ wanted \in Dates /\ flushed \in Dates

(* cmos_init(): the chip is believed when it answers, kept its power and   *)
(* holds a date; otherwise the time the firmware was built at is used.     *)
Init ==
  /\ chip \in Times /\ fallback \in Dates
  /\ valid \in BOOLEAN /\ (valid => chip = fallback)
  /\ reg = fallback /\ t = fallback
  /\ set = FALSE /\ dirty = FALSE
  /\ pc0 = "loop" /\ guest = "idle"
  /\ wanted = fallback /\ flushed = fallback /\ overwritten = FALSE

-----------------------------------------------------------------------------
(* Core 0: cmos_tick(), once a frame.                                      *)

\* Mutation: dirty is cleared when the registers have been collected.
ClearLate(step) == IF step = "test" THEN dirty ELSE FALSE
DirtyAfter(step) == IF step = "test" THEN FALSE ELSE dirty

TickFlush ==
  /\ pc0 = "loop" /\ dirty
  /\ dirty' = DirtyAfter("test")
  /\ pc0' = "collect month"
  /\ UNCHANGED <<reg, set, valid, chip, fallback, t, guestVars, flushed, overwritten>>

CollectMonth ==
  /\ pc0 = "collect month" /\ pc0' = "collect day"
  /\ t' = [t EXCEPT !.month = reg.month]
  /\ UNCHANGED <<reg, set, dirty, valid, chip, fallback, guestVars, flushed, overwritten>>

Acceptable == Dates

(* A time that is no date is dropped, any other one seeds the fallback.    *)
CollectDay ==
  /\ pc0 = "collect day"
  /\ dirty' = DirtyAfter("collect")
  /\ t' = [t EXCEPT !.day = reg.day]
  /\ \/ /\ t' \notin Acceptable /\ pc0' = "loop"
        /\ UNCHANGED <<fallback, flushed>>
     \/ /\ t' \in Acceptable /\ pc0' = "write"
        /\ fallback' = t' /\ flushed' = t'
  /\ UNCHANGED <<reg, set, valid, chip, guestVars, overwritten>>

(* ds3231_write(): the chip takes it, or does not answer.                  *)
WriteChip ==
  /\ pc0 = "write" /\ pc0' = "loop"
  /\ \/ chip' = t /\ valid' = TRUE
     \/ UNCHANGED <<chip, valid>>
  /\ UNCHANGED <<reg, set, dirty, fallback, t, guestVars, flushed, overwritten>>

(* Nothing to pass on.  SET is looked at afterwards.                       *)
TickClean ==
  /\ pc0 = "loop" /\ ~dirty /\ pc0' = "clean"
  /\ UNCHANGED <<reg, set, dirty, valid, chip, fallback, t, guestVars, flushed, overwritten>>

(* Once a second, and not while the guest holds SET.                       *)
TickHeld ==
  /\ pc0 = "clean" /\ pc0' = "loop"
  /\ UNCHANGED <<reg, set, dirty, valid, chip, fallback, t, guestVars, flushed, overwritten>>

TickRefresh ==
  /\ pc0 = "clean" /\ ~set
  /\ \/ valid /\ pc0' = "read" /\ UNCHANGED t
     \/ ~valid /\ pc0' = "publish month" /\ t' = fallback
  /\ UNCHANGED <<reg, set, dirty, valid, chip, fallback, guestVars, flushed, overwritten>>

ReadChip ==
  /\ pc0 = "read"
  /\ \/ chip \in Dates /\ t' = chip /\ pc0' = "publish month"
     \/ pc0' = "loop" /\ UNCHANGED t            \* no answer
  /\ UNCHANGED <<reg, set, dirty, valid, chip, fallback, guestVars, flushed, overwritten>>

Setting == guest \in {"day", "release"} \/ dirty

Publish(from, field, to) ==
  /\ pc0 = from /\ pc0' = to
  /\ reg' = [reg EXCEPT ![field] = t[field]]
  /\ overwritten' = (overwritten \/ Setting)
  /\ UNCHANGED <<set, dirty, valid, chip, fallback, t, guestVars, flushed>>

PublishMonth == Publish("publish month", "month", "publish day")
PublishDay   == Publish("publish day", "day", "loop")

-----------------------------------------------------------------------------
(* Time passes, in the chip and in the fallback.                           *)
Tick ==
  /\ chip' \in IF chip \in Dates THEN Dates ELSE {chip}
  /\ fallback' \in Dates
  /\ UNCHANGED <<reg, set, dirty, valid, core0, guestVars, flushed, overwritten>>

(* The guest sets the date, with SET or without.                           *)
BeginSetting ==
  /\ guest = "idle" /\ wanted' \in Dates
  /\ \E withSet \in UseSet : guest' = IF withSet THEN "set" ELSE "month"
  /\ overwritten' = FALSE
  /\ UNCHANGED <<reg, set, dirty, valid, chip, fallback, core0, flushed>>

TakeSet ==
  /\ guest = "set" /\ guest' = "month" /\ set' = TRUE
  /\ UNCHANGED <<reg, dirty, valid, chip, fallback, core0, wanted, flushed, overwritten>>

WriteMonth ==
  /\ guest = "month" /\ guest' = "day"
  /\ reg' = [reg EXCEPT !.month = wanted.month] /\ dirty' = TRUE
  /\ UNCHANGED <<set, valid, chip, fallback, core0, wanted, flushed, overwritten>>

WriteDay ==
  /\ guest = "day" /\ guest' = "release"
  /\ reg' = [reg EXCEPT !.day = wanted.day] /\ dirty' = TRUE
  /\ UNCHANGED <<set, valid, chip, fallback, core0, wanted, flushed, overwritten>>

ReleaseSet ==
  /\ guest = "release" /\ guest' = "idle" /\ set' = FALSE
  /\ UNCHANGED <<reg, dirty, valid, chip, fallback, core0, wanted, flushed, overwritten>>

Core0 == \/ TickFlush \/ CollectMonth \/ CollectDay \/ WriteChip
         \/ TickClean \/ TickHeld \/ TickRefresh \/ ReadChip \/ PublishMonth \/ PublishDay
Guest == BeginSetting \/ TakeSet \/ WriteMonth \/ WriteDay \/ ReleaseSet

Next == Core0 \/ Guest \/ Tick

Spec == Init /\ [][Next]_vars

-----------------------------------------------------------------------------
AtRest == pc0 = "loop" /\ ~dirty /\ guest = "idle"

(* When all is quiet, the date core 0 took last is the one the guest set   *)
(* last ("A guest write wins over anything we might read back, so flush    *)
(* first", mc146818.c 136).                                                *)
GuestWriteWins == AtRest => flushed = wanted

(* The same, for guests that core 0 did not overwrite meanwhile: writes    *)
(* that come while core 0 collects or writes the chip are not lost.        *)
SetDateKept == AtRest /\ ~overwritten => flushed = wanted

(* A chip that is believed holds a date, although the guest writes it one  *)
(* register at a time.                                                     *)
ChipHoldsDate == valid => chip \in Dates
=============================================================================
