---------------------------- MODULE Devices_proofs ----------------------------
(***************************************************************************)
(* The hard disk, the clock, the serial port, the memory card, the         *)
(* settings, the calendar and the date's editor for any geometry, dates,   *)
(* ring, card and images: what MCDevices checks of them on a small         *)
(* instance.  What is proved of the disk alone is in IdeDisk_proofs.       *)
(***************************************************************************)
EXTENDS MCDevices, IdeDisk_proofs, SequenceTheorems, WellFoundedInduction,
        TLAPS

(* Core 0 holds a date when it writes the chip, and the chip holds one.    *)
ClockTypes ==
  /\ reg \in Clock!Times /\ t \in Clock!Times /\ wanted \in Clock!Dates
  /\ fallback \in Clock!Dates
  /\ valid => chip \in Clock!Dates
  /\ pc0 = "write" => t \in Clock!Dates

(* Where the guest's date is on its way from the registers to core 0.      *)
Kept ==
  IF dirty THEN reg = wanted
  ELSE IF pc0 = "collect month" THEN reg = wanted
  ELSE IF pc0 = "collect day" THEN /\ t.month = wanted.month
                                   /\ reg.day = wanted.day
  ELSE flushed = wanted

DateInv ==
  ~overwritten =>
    /\ clockGuest = "day" => reg.month = wanted.month
    /\ clockGuest \in {"release", "idle"} => Kept

ClockInv == ClockTypes /\ DateInv

-----------------------------------------------------------------------------
(* A step of one device leaves the others alone.                           *)
LEMMA OneAtATime ==
  ASSUME [DevicesNext]_all_vars
  PROVE  /\ Next \/ UNCHANGED vars
         /\ Clock!Next \/ UNCHANGED clock_vars
         /\ Port!Next \/ UNCHANGED port_vars
         /\ Card!Next \/ UNCHANGED card_vars
         /\ Settings!Next \/ UNCHANGED setup_vars
         /\ Date!Next \/ UNCHANGED date
         /\ focus' = focus
<1>1. CASE DiskStep
  BY <1>1 DEF DiskStep
<1>2. CASE ClockStep
  BY <1>2 DEF ClockStep
<1>3. CASE PortStep
  BY <1>3 DEF PortStep
<1>4. CASE CardStep
  BY <1>4 DEF CardStep
<1>5. CASE SetupStep
  BY <1>5 DEF SetupStep
<1>6. CASE DateStep
  BY <1>6 DEF DateStep
<1>7. CASE UNCHANGED all_vars
  BY <1>7 DEF all_vars
<1> QED
  BY <1>1, <1>2, <1>3, <1>4, <1>5, <1>6, <1>7 DEF DevicesNext

(* A date is its month and its day.                                        *)
LEMMA DateParts ==
  /\ \A d \in Clock!Times : d.month \in Months /\ d.day \in Days
  /\ \A d, e \in Clock!Times : d.month = e.month /\ d.day = e.day => d = e
  /\ \A d \in Clock!Times, m \in Months :
       /\ [d EXCEPT !.month = m] \in Clock!Times
       /\ [d EXCEPT !.month = m].month = m
       /\ [d EXCEPT !.month = m].day = d.day
  /\ \A d \in Clock!Times, y \in Days :
       /\ [d EXCEPT !.day = y] \in Clock!Times
       /\ [d EXCEPT !.day = y].day = y
       /\ [d EXCEPT !.day = y].month = d.month
  /\ Clock!Dates \subseteq Clock!Times
  BY DEF Clock!Times, Clock!Dates

(* The clock starts with its invariant.                                    *)
LEMMA ClockInit == DevicesInit => ClockInv
<1> SUFFICES ASSUME Clock!Init PROVE ClockInv
  BY DEF DevicesInit
<1>1. ClockTypes
  BY DateParts DEF Clock!Init, ClockTypes
<1>2. DateInv
  BY DEF Clock!Init, DateInv, Kept
<1> QED
  BY <1>1, <1>2 DEF ClockInv

(* Every step of the clock keeps it.                                       *)
LEMMA ClockKeeps ==
  ASSUME ClockInv, Clock!Next
  PROVE  ClockInv'
<1>0. ClockTypes /\ DateInv /\ wanted \in Clock!Times
  BY DateParts DEF ClockInv, ClockTypes
<1> USE DEF Clock!core0, Clock!guestVars
<1>1. CASE Clock!TickFlush
  BY <1>0, <1>1 DEF Clock!TickFlush, Clock!DirtyAfter, ClockInv, ClockTypes,
                    DateInv, Kept
<1>2. CASE Clock!CollectMonth
  <2>1. t'.month = reg.month /\ t' \in Clock!Times
    <3>1. t' = [t EXCEPT !.month = reg.month]
      BY <1>2 DEF Clock!CollectMonth
    <3>2. t \in Clock!Times /\ reg.month \in Months
      BY <1>0, DateParts DEF ClockTypes
    <3> QED
      BY <3>1, <3>2, DateParts
  <2>2. /\ pc0 = "collect month" /\ pc0' = "collect day"
        /\ reg' = reg /\ dirty' = dirty /\ valid' = valid /\ chip' = chip
        /\ clockGuest' = clockGuest /\ wanted' = wanted
        /\ flushed' = flushed /\ overwritten' = overwritten
        /\ fallback' = fallback
    BY <1>2 DEF Clock!CollectMonth
  <2>3. ClockTypes'
    BY <1>0, <2>1, <2>2 DEF ClockTypes
  <2>4. DateInv'
    BY <1>0, <2>1, <2>2 DEF DateInv, Kept
  <2> QED
    BY <2>3, <2>4 DEF ClockInv
<1>3. CASE Clock!CollectDay
  <2>1. /\ t'.day = reg.day /\ t'.month = t.month /\ t' \in Clock!Times
    BY <1>0, <1>3, DateParts DEF Clock!CollectDay, ClockTypes
  <2>2. /\ pc0 = "collect day" /\ fallback' \in {fallback, t'}
        /\ (fallback' # fallback => t' \in Clock!Dates)
        /\ reg' = reg /\ dirty' = dirty /\ valid' = valid /\ chip' = chip
        /\ clockGuest' = clockGuest /\ wanted' = wanted
        /\ overwritten' = overwritten
        /\ \/ t' \notin Clock!Dates /\ pc0' = "loop"
           \/ t' \in Clock!Dates /\ pc0' = "write" /\ flushed' = t'
    BY <1>3 DEF Clock!CollectDay, Clock!DirtyAfter, Clock!Acceptable
  <2>3. ClockTypes'
    BY <1>0, <2>1, <2>2 DEF ClockTypes
  <2>4. ASSUME Kept PROVE Kept'
    <3>1. CASE dirty /\ reg = wanted
      BY <2>2, <3>1 DEF Kept
    <3>2. CASE ~dirty
      <4>1. t.month = wanted.month /\ reg.day = wanted.day
        BY <2>2, <2>4, <3>2 DEF Kept
      <4>2. t' = wanted
        BY <1>0, <2>1, <4>1, DateParts
      <4> QED
        BY <1>0, <2>2, <3>2, <4>2 DEF Kept, ClockTypes
    <3> QED
      BY <2>4, <3>1, <3>2 DEF Kept
  <2>5. DateInv'
    BY <1>0, <2>2, <2>4 DEF DateInv
  <2> QED
    BY <2>3, <2>5 DEF ClockInv
<1>4. CASE \/ Clock!WriteChip \/ Clock!TickClean \/ Clock!TickHeld
           \/ Clock!TickRefresh \/ Clock!ReadChip
  <2>1. /\ pc0 \notin {"collect month", "collect day"}
        /\ pc0' \notin {"collect month", "collect day", "write"}
        /\ reg' = reg /\ dirty' = dirty /\ clockGuest' = clockGuest
        /\ wanted' = wanted /\ flushed' = flushed
        /\ overwritten' = overwritten
    BY <1>4 DEF Clock!WriteChip, Clock!TickClean, Clock!TickHeld,
                Clock!TickRefresh, Clock!ReadChip
  <2>2. valid' => chip' \in Clock!Dates
    BY <1>0, <1>4 DEF Clock!WriteChip, Clock!TickClean, Clock!TickHeld,
                      Clock!TickRefresh, Clock!ReadChip, ClockTypes
  <2>3. t' \in {t, fallback} \cup Clock!Dates /\ fallback' = fallback
    BY <1>4 DEF Clock!WriteChip, Clock!TickClean, Clock!TickHeld,
                Clock!TickRefresh, Clock!ReadChip
  <2>4. ClockTypes'
    BY <1>0, <2>1, <2>2, <2>3, DateParts DEF ClockTypes
  <2>5. DateInv'
    BY <1>0, <2>1 DEF DateInv, Kept
  <2> QED
    BY <2>4, <2>5 DEF ClockInv
<1>5. CASE Clock!PublishMonth \/ Clock!PublishDay
  <2>1. /\ pc0 \notin {"collect month", "collect day"}
        /\ pc0' \notin {"collect month", "collect day", "write"}
        /\ \/ reg' = [reg EXCEPT !.month = t.month]
           \/ reg' = [reg EXCEPT !.day = t.day]
        /\ dirty' = dirty /\ valid' = valid /\ chip' = chip /\ t' = t
        /\ fallback' = fallback /\ wanted' = wanted
        /\ clockGuest' = clockGuest /\ flushed' = flushed
    BY <1>5 DEF Clock!PublishMonth, Clock!PublishDay, Clock!Publish
  <2>2. ~overwritten' => ~overwritten /\ ~dirty
                         /\ clockGuest \notin {"day", "release"}
    BY <1>5 DEF Clock!PublishMonth, Clock!PublishDay, Clock!Publish,
                Clock!Setting
  <2>3. reg \in Clock!Times /\ t.month \in Months /\ t.day \in Days
    BY <1>0, DateParts DEF ClockTypes
  <2>4. reg' \in Clock!Times
    <3>1. /\ [reg EXCEPT !.month = t.month] \in Clock!Times
          /\ [reg EXCEPT !.day = t.day] \in Clock!Times
      BY <2>3, DateParts
    <3> QED
      BY <2>1, <3>1
  <2>5. ClockTypes'
    BY <1>0, <2>1, <2>4 DEF ClockTypes
  <2>6. DateInv'
    BY <1>0, <2>1, <2>2 DEF DateInv, Kept
  <2> QED
    BY <2>5, <2>6 DEF ClockInv
<1>6. CASE Clock!BeginSetting \/ Clock!TakeSet \/ Clock!ReleaseSet
  <2>1. /\ reg' = reg /\ dirty' = dirty /\ valid' = valid /\ chip' = chip
        /\ t' = t /\ fallback' = fallback /\ pc0' = pc0
        /\ flushed' = flushed
    BY <1>6 DEF Clock!BeginSetting, Clock!TakeSet, Clock!ReleaseSet
  <2>2. wanted' \in Clock!Dates
    BY <1>0, <1>6 DEF Clock!BeginSetting, Clock!TakeSet, Clock!ReleaseSet,
                      ClockTypes
  <2>3. \/ clockGuest' \in {"set", "month"}
        \/ /\ clockGuest = "release" /\ clockGuest' = "idle"
           /\ wanted' = wanted /\ overwritten' = overwritten
    BY <1>6, Zenon
       DEF Clock!BeginSetting, Clock!TakeSet, Clock!ReleaseSet
  <2>4. ClockTypes'
    BY <1>0, <2>1, <2>2, DateParts DEF ClockTypes
  <2>5. DateInv'
    BY <1>0, <2>1, <2>3 DEF DateInv, Kept
  <2> QED
    BY <2>4, <2>5 DEF ClockInv
<1>7. CASE Clock!WriteMonth
  BY <1>0, <1>7, DateParts
     DEF Clock!WriteMonth, ClockInv, ClockTypes, DateInv, Kept
<1>8. CASE Clock!WriteDay
  <2>1. /\ reg' = [reg EXCEPT !.day = wanted.day] /\ dirty' = TRUE
        /\ clockGuest = "day" /\ clockGuest' = "release"
        /\ valid' = valid /\ chip' = chip /\ t' = t /\ pc0' = pc0
        /\ fallback' = fallback /\ flushed' = flushed
        /\ wanted' = wanted /\ overwritten' = overwritten
    BY <1>8 DEF Clock!WriteDay
  <2>2. /\ reg' \in Clock!Times
        /\ reg'.day = wanted.day /\ reg'.month = reg.month
    BY <1>0, <2>1, DateParts DEF ClockTypes
  <2>3. reg.month = wanted.month => reg' = wanted
    BY <1>0, <2>2, DateParts
  <2>4. ClockTypes'
    BY <1>0, <2>1, <2>2 DEF ClockTypes
  <2>5. DateInv'
    BY <1>0, <2>1, <2>3 DEF DateInv, Kept
  <2> QED
    BY <2>4, <2>5 DEF ClockInv
<1>9. CASE Clock!Tick
  BY <1>0, <1>9 DEF Clock!Tick, ClockInv, ClockTypes, DateInv, Kept
<1> QED
  BY <1>1, <1>2, <1>3, <1>4, <1>5, <1>6, <1>7, <1>8, <1>9
     DEF Clock!Next, Clock!Core0, Clock!Guest

(* The clock of the four devices keeps its invariant.                      *)
LEMMA ClockInvariance == DevicesSpec => []ClockInv
<1>1. DevicesInit => ClockInv
  BY ClockInit
<1>2. ClockInv /\ [DevicesNext]_all_vars => ClockInv'
  <2> SUFFICES ASSUME ClockInv, [DevicesNext]_all_vars PROVE ClockInv'
    OBVIOUS
  <2>1. CASE Clock!Next
    BY <2>1, ClockKeeps
  <2>2. CASE UNCHANGED clock_vars
    BY <2>2 DEF clock_vars, ClockInv, ClockTypes, DateInv, Kept
  <2> QED
    BY <2>1, <2>2, OneAtATime
<1> QED
  BY <1>1, <1>2, PTL DEF DevicesSpec, all_vars

(* A date the guest sets reaches core 0, unless core 0 wrote over it       *)
(* (cmos_tick, mc146818.c 135-185).                                        *)
THEOREM DateReachesChip == DevicesSpec => []SetDateKept
<1>1. ClockInv => SetDateKept
  BY DEF ClockInv, DateInv, Kept, SetDateKept, Clock!SetDateKept, Clock!AtRest
<1> QED
  BY <1>1, ClockInvariance, PTL

(* The chip that is believed holds a date (cmos_collect's check,           *)
(* mc146818.c 52-67).                                                      *)
THEOREM ChipIsDate == DevicesSpec => []Clock!ChipHoldsDate
<1>1. ClockInv => Clock!ChipHoldsDate
  BY DEF ClockInv, ClockTypes, Clock!ChipHoldsDate
<1> QED
  BY <1>1, ClockInvariance, PTL

-----------------------------------------------------------------------------
(* The ring, from rx_tail to the slot that the next byte goes to.          *)
Steps  == {"idle", "test", "store", "head", "ready", "irq"}
Busy   == {p \in Port!Producers : push[p] \in {"test", "store", "head"}}
InHead == {p \in Port!Producers : push[p] = "head"}

Next1(s) == (s + 1) % RingSize
Distance(a, b) == IF a <= b THEN b - a ELSE b - a + RingSize

RingTypes ==
  /\ rx_fifo \in [Port!Slots -> Nat] /\ rx_head \in Port!Slots
  /\ rx_tail \in Port!Slots /\ accepted \in Nat /\ reads \in Nat
  /\ push \in [Port!Producers -> Steps]
  /\ slot \in [Port!Producers -> Port!Slots]
  /\ collided \in BOOLEAN

(* Where the next byte goes: the head, or the slot after it once a core    *)
(* has stored a byte there and not yet moved the head.                     *)
Front(f) == /\ InHead = {} => f = rx_head
            /\ \A p \in InHead : f = Next1(slot[p])

(* As long as the cores never pushed at once: one of them at most is at    *)
(* it, with the head as it stands; what is in the ring are the bytes after *)
(* those that were read.                                                   *)
RingInv ==
  ~collided =>
    /\ got = reads
    /\ \A p, q \in Busy : p = q
    /\ \A p \in Busy : slot[p] = rx_head
    /\ \A p \in Busy : push[p] # "test" => Next1(rx_head) # rx_tail
    /\ \A f \in Port!Slots : Front(f) =>
         /\ accepted = reads + Distance(rx_tail, f)
         /\ \A s \in Port!Slots :
              Distance(rx_tail, s) < Distance(rx_tail, f) =>
                rx_fifo[s] = reads + Distance(rx_tail, s) + 1

PortInv == RingTypes /\ RingInv

(* The slot after a slot.                                                  *)
LEMMA NextSlot ==
  \A s \in Port!Slots :
    /\ Next1(s) \in Port!Slots
    /\ Next1(s) = IF s + 1 = RingSize THEN 0 ELSE s + 1
<1> SUFFICES ASSUME NEW s \in Port!Slots
             PROVE  /\ Next1(s) \in Port!Slots
                    /\ Next1(s) = IF s + 1 = RingSize THEN 0 ELSE s + 1
  OBVIOUS
<1>1. RingSize \in Nat /\ RingSize > 1 /\ s \in 0 .. RingSize - 1
  BY DevicesAssumption DEF Port!SerialAssumption, Port!Slots
<1>2. CASE s + 1 = RingSize
  <2>1. RingSize % RingSize = 0
    BY <1>1
  <2> QED
    BY <1>1, <1>2, <2>1 DEF Next1, Port!Slots
<1>3. CASE s + 1 < RingSize
  <2>1. (s + 1) % RingSize = s + 1
    BY <1>1, <1>3
  <2> QED
    BY <1>1, <1>3, <2>1 DEF Next1, Port!Slots
<1> QED
  BY <1>1, <1>2, <1>3

(* How far one slot of the ring is from another.                           *)
LEMMA Distances ==
  /\ RingSize \in Nat /\ RingSize > 1
  /\ \A a, b \in Port!Slots : /\ Distance(a, b) \in 0 .. RingSize - 1
                              /\ Distance(a, b) = 0 <=> a = b
  /\ \A a, b \in Port!Slots : Next1(b) # a =>
       Distance(a, Next1(b)) = Distance(a, b) + 1
  /\ \A a, b \in Port!Slots : a # b =>
       Distance(Next1(a), b) = Distance(a, b) - 1
  /\ \A a, b, c \in Port!Slots : Distance(a, b) = Distance(a, c) => b = c
<1>1. RingSize \in Nat /\ RingSize > 1 /\ Port!Slots = 0 .. RingSize - 1
  BY DevicesAssumption DEF Port!SerialAssumption, Port!Slots
<1>2. ASSUME NEW a \in Port!Slots, NEW b \in Port!Slots
      PROVE  /\ Distance(a, b) \in 0 .. RingSize - 1
             /\ Distance(a, b) = 0 <=> a = b
  BY <1>1 DEF Distance
<1>3. ASSUME NEW a \in Port!Slots, NEW b \in Port!Slots, Next1(b) # a
      PROVE  Distance(a, Next1(b)) = Distance(a, b) + 1
  <2>1. Next1(b) = IF b + 1 = RingSize THEN 0 ELSE b + 1
    BY NextSlot
  <2>2. CASE b + 1 = RingSize
    <3>1. Next1(b) = 0
      BY <2>1, <2>2
    <3> QED
      BY <1>1, <1>3, <2>2, <3>1 DEF Distance
  <2>3. CASE b + 1 # RingSize
    <3>1. Next1(b) = b + 1
      BY <2>1, <2>3
    <3> QED
      BY <1>1, <1>3, <2>3, <3>1 DEF Distance
  <2> QED
    BY <2>2, <2>3
<1>4. ASSUME NEW a \in Port!Slots, NEW b \in Port!Slots, a # b
      PROVE  Distance(Next1(a), b) = Distance(a, b) - 1
  <2>1. Next1(a) = IF a + 1 = RingSize THEN 0 ELSE a + 1
    BY NextSlot
  <2>2. CASE a + 1 = RingSize
    <3>1. Next1(a) = 0
      BY <2>1, <2>2
    <3> QED
      BY <1>1, <1>4, <2>2, <3>1 DEF Distance
  <2>3. CASE a + 1 # RingSize
    <3>1. Next1(a) = a + 1
      BY <2>1, <2>3
    <3> QED
      BY <1>1, <1>4, <2>3, <3>1 DEF Distance
  <2> QED
    BY <2>2, <2>3
<1>5. ASSUME NEW a \in Port!Slots, NEW b \in Port!Slots, NEW c \in Port!Slots,
             Distance(a, b) = Distance(a, c)
      PROVE  b = c
  BY <1>1, <1>5 DEF Distance
<1> QED
  BY <1>1, <1>2, <1>3, <1>4, <1>5

(* Once round the ring.                                                    *)
LEMMA Around ==
  /\ \A a \in Port!Slots : Distance(Next1(a), a) = RingSize - 1
  /\ \A a, b \in Port!Slots : Next1(a) = Next1(b) => a = b
<1>1. RingSize \in Nat /\ RingSize > 1 /\ Port!Slots = 0 .. RingSize - 1
  BY DevicesAssumption DEF Port!SerialAssumption, Port!Slots
<1>2. ASSUME NEW a \in Port!Slots
      PROVE  Distance(Next1(a), a) = RingSize - 1
  <2>1. CASE a + 1 = RingSize
    <3>1. Next1(a) = 0
      BY <2>1, NextSlot
    <3> QED
      BY <1>1, <2>1, <3>1 DEF Distance
  <2>2. CASE a + 1 # RingSize
    <3>1. Next1(a) = a + 1
      BY <2>2, NextSlot
    <3> QED
      BY <1>1, <2>2, <3>1 DEF Distance
  <2> QED
    BY <2>1, <2>2
<1>3. ASSUME NEW a \in Port!Slots, NEW b \in Port!Slots, Next1(a) = Next1(b)
      PROVE  a = b
  <2>1. /\ Next1(a) = IF a + 1 = RingSize THEN 0 ELSE a + 1
        /\ Next1(b) = IF b + 1 = RingSize THEN 0 ELSE b + 1
    BY NextSlot
  <2>2. a \in 0 .. RingSize - 1 /\ b \in 0 .. RingSize - 1
    BY <1>1
  <2>3. CASE a + 1 = RingSize
    <3>1. b + 1 = RingSize
      <4>1. b + 1 # 0
        BY <2>2
      <4> QED
        BY <1>3, <2>1, <2>3, <4>1, Zenon
    <3> QED
      BY <1>1, <2>2, <2>3, <3>1
  <2>4. CASE a + 1 # RingSize
    <3>1. b + 1 # RingSize
      <4>1. a + 1 # 0
        BY <2>2
      <4> QED
        BY <1>3, <2>1, <2>4, <4>1, Zenon
    <3>2. a + 1 = b + 1
      BY <1>3, <2>1, <2>4, <3>1
    <3> QED
      BY <1>1, <2>2, <3>2
  <2> QED
    BY <2>3, <2>4
<1> QED
  BY <1>2, <1>3

(* The port starts with its invariant.                                     *)
LEMMA PortInit == DevicesInit => PortInv
<1> SUFFICES ASSUME Port!Init PROVE PortInv
  BY DEF DevicesInit
<1>1. /\ rx_fifo = [s \in Port!Slots |-> 0] /\ rx_head = 0 /\ rx_tail = 0
      /\ push = [p \in Port!Producers |-> "idle"]
      /\ slot = [p \in Port!Producers |-> 0]
      /\ accepted = 0 /\ reads = 0 /\ got = 0 /\ collided = FALSE
  BY DEF Port!Init
<1>2. 0 \in Port!Slots
  BY Distances DEF Port!Slots
<1>3. RingTypes
  BY <1>1, <1>2 DEF RingTypes, Steps
<1>4. InHead = {} /\ Busy = {}
  BY <1>1 DEF InHead, Busy
<1>5. Distance(rx_tail, rx_head) = 0
  BY <1>1, <1>2, Distances
<1>6. ASSUME NEW s \in Port!Slots PROVE ~(Distance(rx_tail, s) < 0)
  BY <1>1, <1>2, Distances
<1>7. RingInv
  BY <1>1, <1>4, <1>5, <1>6 DEF RingInv, Front
<1> QED
  BY <1>3, <1>7 DEF PortInv

(* A core comes into uart_write_byte().                                    *)
LEMMA EnterKeeps ==
  ASSUME PortInv, NEW p \in Port!Producers, Port!Enter(p),
         UNCHANGED <<rx_fifo, rx_head, rx_tail, accepted, reads, got>>
  PROVE  PortInv'
<1>0. RingTypes /\ RingInv
  BY DEF PortInv
<1>1. /\ push[p] = "idle" /\ push' = [push EXCEPT ![p] = "test"]
      /\ slot' = [slot EXCEPT ![p] = rx_head]
      /\ collided' = (collided \/ \E q \in Port!Producers \ {p} :
                                    push[q] \in {"test", "store", "head"})
  BY DEF Port!Enter, Port!At, Port!Goto
<1>2. collided' \in BOOLEAN
  BY <1>1, Zenon
<1>3. RingTypes'
  BY <1>0, <1>1, <1>2 DEF RingTypes, Steps
<1>4. ASSUME ~collided' PROVE RingInv'
  <2>1. ~collided /\ Busy = {} /\ InHead = {}
    BY <1>1, <1>4 DEF Busy, InHead
  <2>2. Busy' = {p} /\ InHead' = {}
    BY <1>0, <1>1, <2>1 DEF Busy, InHead, RingTypes
  <2>3. slot'[p] = rx_head /\ push'[p] = "test"
    BY <1>0, <1>1 DEF RingTypes
  <2>4. \A f : Front(f)' => Front(f)
    BY <2>1, <2>2 DEF Front
  <2> QED
    BY <1>0, <2>1, <2>2, <2>3, <2>4 DEF RingInv
<1>5. ASSUME collided' PROVE RingInv'
  BY <1>5 DEF RingInv
<1> QED
  BY <1>3, <1>4, <1>5 DEF PortInv

(* It finds the ring full, or that it is not.                              *)
LEMMA PushTestKeeps ==
  ASSUME PortInv, NEW p \in Port!Producers, Port!PushTest(p)
  PROVE  PortInv'
<1> USE DEF Port!ring, Port!lines, Port!readVars, Port!history
<1>0. RingTypes /\ RingInv
  BY DEF PortInv
<1>1. /\ push[p] = "test"
      /\ \/ /\ Next1(slot[p]) # rx_tail
            /\ push' = [push EXCEPT ![p] = "store"]
         \/ push' = [push EXCEPT ![p] = "idle"]
      /\ UNCHANGED <<rx_fifo, rx_head, rx_tail, slot, accepted, reads, got,
                     collided>>
  BY DEF Port!PushTest, Port!At, Port!Goto, Port!HasRoom, Port!NextSlot,
         Next1
<1>2. RingTypes'
  BY <1>0, <1>1 DEF RingTypes, Steps
<1>3. InHead' = InHead /\ Busy' \subseteq Busy /\ p \in Busy
  BY <1>0, <1>1 DEF InHead, Busy, RingTypes
<1>4. ASSUME ~collided PROVE RingInv'
  <2>1. \A q \in Busy' : q = p /\ Next1(rx_head) # rx_tail
    <3> SUFFICES ASSUME NEW q \in Busy'
                 PROVE  q = p /\ Next1(rx_head) # rx_tail
      OBVIOUS
    <3>1. q = p /\ slot[p] = rx_head
      BY <1>0, <1>3, <1>4 DEF RingInv
    <3>2. push'[p] \in {"test", "store", "head"}
      BY <3>1 DEF Busy
    <3>3. push' # [push EXCEPT ![p] = "idle"]
      BY <1>0, <3>2 DEF RingTypes
    <3> QED
      BY <1>1, <3>1, <3>3
  <2>2. \A f : Front(f)' => Front(f)
    BY <1>1, <1>3 DEF Front
  <2>3. \A q \in Busy' : slot'[q] = rx_head'
    BY <1>0, <1>1, <1>3, <1>4 DEF RingInv
  <2>4. \A f \in Port!Slots : Front(f)' =>
          /\ accepted' = reads' + Distance(rx_tail', f)
          /\ \A s \in Port!Slots :
               Distance(rx_tail', s) < Distance(rx_tail', f) =>
                 rx_fifo'[s] = reads' + Distance(rx_tail', s) + 1
    BY <1>0, <1>1, <1>4, <2>2 DEF RingInv
  <2>5. got' = reads'
    BY <1>0, <1>1, <1>4 DEF RingInv
  <2> QED
    BY <1>1, <2>1, <2>3, <2>4, <2>5 DEF RingInv
<1>5. ASSUME collided PROVE RingInv'
  BY <1>1, <1>5 DEF RingInv
<1> QED
  BY <1>2, <1>4, <1>5 DEF PortInv

(* A byte is stored.                                                       *)
LEMMA PushStoreKeeps ==
  ASSUME PortInv, NEW p \in Port!Producers, Port!PushStore(p)
  PROVE  PortInv'
<1> DEFINE next == Next1(rx_head)
<1>0. RingTypes /\ RingInv
  BY DEF PortInv
<1>1. /\ push[p] = "store" /\ push' = [push EXCEPT ![p] = "head"]
      /\ accepted' = accepted + 1
      /\ UNCHANGED <<rx_head, rx_tail, slot, reads, got, collided>>
  BY DEF Port!PushStore, Port!At, Port!Goto
<1>2. PICK place \in {slot[p], rx_head} :
        rx_fifo' = [rx_fifo EXCEPT ![place] = accepted + 1]
  BY DEF Port!PushStore
<1>3. next \in Port!Slots
  BY <1>0, NextSlot DEF RingTypes
<1> HIDE DEF next
<1>4. RingTypes'
  <2>1. push' \in [Port!Producers -> Steps]
    BY <1>0, <1>1 DEF RingTypes, Steps
  <2>2. rx_fifo' \in [Port!Slots -> Nat]
    BY <1>0, <1>2 DEF RingTypes
  <2>3. accepted' \in Nat
    BY <1>0, <1>1 DEF RingTypes
  <2> QED
    BY <1>0, <1>1, <2>1, <2>2, <2>3 DEF RingTypes
<1>5. ASSUME ~collided PROVE RingInv'
  <2>1. p \in Busy
    BY <1>1 DEF Busy
  <2>2. /\ slot[p] = rx_head /\ next # rx_tail /\ got = reads
        /\ InHead = {}
    <3>1. slot[p] = rx_head /\ got = reads
      BY <1>0, <1>5, <2>1 DEF RingInv
    <3>2. next # rx_tail
      BY <1>0, <1>1, <1>5, <2>1 DEF RingInv, next
    <3>3. InHead = {}
      BY <1>0, <1>1, <1>5, <2>1 DEF RingInv, InHead, Busy
    <3> QED
      BY <3>1, <3>2, <3>3
  <2>3. Busy' = Busy /\ InHead' = {p}
    BY <1>0, <1>1, <2>1, <2>2 DEF Busy, InHead, RingTypes
  <2>4. rx_fifo' = [rx_fifo EXCEPT ![rx_head] = accepted + 1]
    BY <1>2, <2>2
  <2>5. /\ accepted = reads + Distance(rx_tail, rx_head)
        /\ \A s \in Port!Slots :
             Distance(rx_tail, s) < Distance(rx_tail, rx_head) =>
               rx_fifo[s] = reads + Distance(rx_tail, s) + 1
    BY <1>0, <1>5, <2>2 DEF RingInv, Front, RingTypes
  <2>6. Distance(rx_tail, next) = Distance(rx_tail, rx_head) + 1
    BY <1>0, <2>2, Distances DEF next, RingTypes
  <2>7. /\ rx_tail \in Port!Slots /\ rx_head \in Port!Slots
        /\ reads \in Nat /\ accepted \in Nat
        /\ Distance(rx_tail, rx_head) \in Nat
    BY <1>0, Distances DEF RingTypes
  <2>8. accepted' = reads' + Distance(rx_tail', next)
    BY <1>1, <2>5, <2>6, <2>7
  <2>9. ASSUME NEW s \in Port!Slots,
               Distance(rx_tail, s) < Distance(rx_tail, next)
        PROVE  rx_fifo'[s] = reads + Distance(rx_tail, s) + 1
    <3>1. CASE s = rx_head
      BY <1>0, <2>4, <2>5, <2>7, <3>1 DEF RingTypes
    <3>2. CASE s # rx_head
      <4>1. Distance(rx_tail, s) # Distance(rx_tail, rx_head)
        BY <2>7, <3>2, Distances
      <4>2. Distance(rx_tail, s) \in Nat
        BY <2>7, Distances
      <4>3. Distance(rx_tail, s) < Distance(rx_tail, rx_head)
        BY <2>6, <2>7, <2>9, <4>1, <4>2
      <4> QED
        BY <1>0, <2>4, <2>5, <3>2, <4>3 DEF RingTypes
    <3> QED
      BY <3>1, <3>2
  <2>10. \A f : Front(f)' => f = next
    BY <1>1, <2>2, <2>3 DEF Front, next
  <2>11. /\ \A a, b \in Busy' : a = b
         /\ \A a \in Busy' : slot'[a] = rx_head'
         /\ Next1(rx_head') # rx_tail'
    BY <1>0, <1>1, <1>5, <2>2, <2>3 DEF RingInv, next
  <2> QED
    BY <1>1, <2>2, <2>8, <2>9, <2>10, <2>11 DEF RingInv
<1>6. ASSUME collided PROVE RingInv'
  BY <1>1, <1>6 DEF RingInv
<1> QED
  BY <1>4, <1>5, <1>6 DEF PortInv

(* The head moves to the slot after the one its producer filled.           *)
LEMMA PushHeadKeeps ==
  ASSUME PortInv, NEW p \in Port!Producers, Port!PushHead(p)
  PROVE  PortInv'
<1> USE DEF Port!history
<1>0. RingTypes /\ RingInv
  BY DEF PortInv
<1>1. /\ push[p] = "head" /\ push' = [push EXCEPT ![p] = "ready"]
      /\ rx_head' = Next1(slot[p]) /\ rx_fifo' = rx_fifo
      /\ rx_tail' = rx_tail /\ slot' = slot /\ accepted' = accepted
      /\ reads' = reads /\ got' = got /\ collided' = collided
  BY DEF Port!PushHead, Port!At, Port!Goto, Port!NextSlot, Next1
<1>2. RingTypes'
  BY <1>0, <1>1, NextSlot DEF RingTypes, Steps
<1>3. InHead' = InHead \ {p} /\ p \in InHead /\ Busy' = Busy \ {p}
      /\ p \in Busy
  BY <1>0, <1>1 DEF InHead, Busy, RingTypes
<1>4. ASSUME ~collided PROVE RingInv'
  <2>1. InHead' = {} /\ Busy' = {}
    BY <1>0, <1>3, <1>4 DEF RingInv, InHead, Busy
  <2>2. \A f : Front(f)' => Front(f)
    <3> SUFFICES ASSUME NEW f, Front(f)' PROVE Front(f)
      OBVIOUS
    <3>1. f = Next1(slot[p])
      BY <1>1, <2>1 DEF Front
    <3>2. \A q \in InHead : q = p
      BY <1>0, <1>3, <1>4 DEF RingInv, InHead, Busy
    <3> QED
      BY <1>3, <3>1, <3>2 DEF Front
  <2> QED
    BY <1>0, <1>1, <1>4, <2>1, <2>2 DEF RingInv
<1>5. ASSUME collided PROVE RingInv'
  BY <1>1, <1>5 DEF RingInv
<1> QED
  BY <1>2, <1>4, <1>5 DEF PortInv

(* The guest reads the oldest byte.                                        *)
LEMMA ReadByteKeeps ==
  ASSUME PortInv, Port!ReadByte
  PROVE  /\ PortInv'
         /\ ~collided /\ reads' # reads => got' = reads'
<1>0. RingTypes /\ RingInv
  BY DEF PortInv
<1>1. /\ rx_fifo' = rx_fifo /\ rx_head' = rx_head /\ push' = push
      /\ slot' = slot /\ accepted' = accepted /\ collided' = collided
  BY DEF Port!ReadByte, Port!pushVars
<1>2. CASE rx_tail # rx_head /\ got' = rx_fifo[rx_tail]
           /\ reads' = reads + 1 /\ rx_tail' = Next1(rx_tail)
  <2>1. rx_tail' \in Port!Slots /\ reads' \in Nat
    BY <1>0, <1>2, NextSlot DEF RingTypes
  <2>2. RingTypes'
    BY <1>0, <1>1, <2>1 DEF RingTypes
  <2>3. InHead' = InHead /\ Busy' = Busy
    BY <1>1 DEF InHead, Busy
  <2>4. ASSUME NEW f \in Port!Slots, Front(f), ~collided
        PROVE  /\ f # rx_tail
               /\ got' = reads'
               /\ accepted' = reads' + Distance(rx_tail', f)
               /\ \A s \in Port!Slots :
                    Distance(rx_tail', s) < Distance(rx_tail', f) =>
                      rx_fifo'[s] = reads' + Distance(rx_tail', s) + 1
    <3>1. /\ accepted = reads + Distance(rx_tail, f)
          /\ \A s \in Port!Slots :
               Distance(rx_tail, s) < Distance(rx_tail, f) =>
                 rx_fifo[s] = reads + Distance(rx_tail, s) + 1
      BY <1>0, <2>4 DEF RingInv
    <3>2. f # rx_tail
      <4>1. CASE InHead = {}
        BY <1>2, <2>4, <4>1 DEF Front
      <4>2. CASE InHead # {}
        <5>1. PICK q \in InHead : TRUE
          BY <4>2
        <5>2. q \in Busy /\ push[q] # "test"
          BY <5>1 DEF InHead, Busy
        <5>3. slot[q] = rx_head /\ Next1(rx_head) # rx_tail
          BY <1>0, <2>4, <5>2 DEF RingInv
        <5> QED
          BY <2>4, <5>1, <5>3 DEF Front
      <4> QED
        BY <4>1, <4>2
    <3>3. /\ rx_tail \in Port!Slots /\ reads \in Nat
          /\ Distance(rx_tail, rx_tail) = 0
          /\ Distance(rx_tail, f) \in Nat /\ Distance(rx_tail, f) # 0
      BY <1>0, <3>2, Distances DEF RingTypes
    <3>4. got' = reads'
      BY <1>2, <3>1, <3>3
    <3>5. Distance(rx_tail', f) = Distance(rx_tail, f) - 1
      BY <1>2, <3>2, <3>3, Distances
    <3>6. accepted' = reads' + Distance(rx_tail', f)
      BY <1>1, <1>2, <3>1, <3>3, <3>5
    <3>7. ASSUME NEW s \in Port!Slots,
                 Distance(rx_tail', s) < Distance(rx_tail', f)
          PROVE  rx_fifo'[s] = reads' + Distance(rx_tail', s) + 1
      <4>1. CASE s = rx_tail
        <5>1. Distance(rx_tail', rx_tail) = RingSize - 1
          BY <1>2, <3>3, Around
        <5>2. Distance(rx_tail', f) <= RingSize - 1
          BY <2>1, Distances
        <5>3. Distance(rx_tail', f) \in Nat
          BY <2>1, Distances
        <5> QED
          BY <3>7, <4>1, <5>1, <5>2, <5>3, Distances
      <4>2. CASE s # rx_tail
        <5>1. Distance(rx_tail', s) = Distance(rx_tail, s) - 1
          BY <1>2, <3>3, <4>2, Distances
        <5>2. Distance(rx_tail, s) \in Nat
          BY <3>3, Distances
        <5>3. Distance(rx_tail, s) < Distance(rx_tail, f)
          BY <3>3, <3>5, <3>7, <5>1, <5>2
        <5>4. rx_fifo[s] = reads + Distance(rx_tail, s) + 1
          BY <3>1, <5>3
        <5> QED
          BY <1>1, <1>2, <3>3, <5>1, <5>2, <5>4
      <4> QED
        BY <4>1, <4>2
    <3> QED
      BY <3>2, <3>4, <3>6, <3>7
  <2>5. \A f : Front(f)' => Front(f)
    BY <1>1, <2>3 DEF Front
  <2>6. ASSUME ~collided PROVE \E f \in Port!Slots : Front(f)
    <3>1. CASE InHead = {}
      BY <1>0, <3>1 DEF Front, RingTypes
    <3>2. CASE InHead # {}
      <4>1. PICK q \in InHead : TRUE
        BY <3>2
      <4>2. \A r \in InHead : r = q
        BY <1>0, <2>6, <4>1 DEF RingInv, InHead, Busy
      <4>3. Next1(slot[q]) \in Port!Slots
        BY <1>0, <4>1, NextSlot DEF InHead, RingTypes
      <4>4. Front(Next1(slot[q]))
        BY <4>1, <4>2 DEF Front
      <4> QED
        BY <4>3, <4>4
    <3> QED
      BY <3>1, <3>2
  <2>7. ASSUME ~collided PROVE got' = reads'
    BY <2>4, <2>6, <2>7
  <2>8. Next1(rx_head) # rx_tail'
    <3>1. rx_head \in Port!Slots /\ rx_tail \in Port!Slots
      BY <1>0 DEF RingTypes
    <3> QED
      BY <1>2, <3>1, Around
  <2>9. RingInv'
    <3> SUFFICES ASSUME ~collided' PROVE RingInv'
      BY DEF RingInv
    <3>1. /\ \A p, q \in Busy' : p = q
          /\ \A p \in Busy' : slot'[p] = rx_head'
          /\ Next1(rx_head') # rx_tail'
      BY <1>0, <1>1, <2>3, <2>8 DEF RingInv
    <3>2. ASSUME NEW f \in Port!Slots, Front(f)'
          PROVE  /\ accepted' = reads' + Distance(rx_tail', f)
                 /\ \A s \in Port!Slots :
                      Distance(rx_tail', s) < Distance(rx_tail', f) =>
                        rx_fifo'[s] = reads' + Distance(rx_tail', s) + 1
      BY <1>1, <2>4, <2>5, <3>2
    <3>3. got' = reads'
      BY <1>1, <2>7
    <3> QED
      BY <3>1, <3>2, <3>3 DEF RingInv
  <2> QED
    BY <2>2, <2>7, <2>9 DEF PortInv
<1>3. CASE got' = got /\ reads' = reads /\ rx_tail' = rx_tail
  <2>1. RingTypes'
    BY <1>0, <1>1, <1>3 DEF RingTypes
  <2>2. RingInv'
    BY <1>0, <1>1, <1>3 DEF RingInv, InHead, Busy, Front
  <2> QED
    BY <1>3, <2>1, <2>2 DEF PortInv
<1>4. \/ rx_tail # rx_head /\ got' = rx_fifo[rx_tail]
         /\ reads' = reads + 1 /\ rx_tail' = Next1(rx_tail)
      \/ got' = got /\ reads' = reads /\ rx_tail' = rx_tail
  BY DEF Port!ReadByte, Port!NextSlot, Next1
<1> QED
  BY <1>2, <1>3, <1>4

(* Every step of the port keeps it, and the n-th byte read is the n-th.    *)
LEMMA PortKeeps ==
  ASSUME PortInv, Port!Next
  PROVE  /\ PortInv'
         /\ ~collided /\ reads' # reads => got' = reads'
<1> USE DEF Port!ring, Port!lines, Port!readVars, Port!pushVars, Port!history
<1>1. ASSUME NEW p \in Port!Producers,
             Port!PushTest(p) \/ Port!PushStore(p) \/ Port!PushHead(p)
      PROVE  PortInv' /\ reads' = reads
  <2>1. reads' = reads
    BY <1>1 DEF Port!PushTest, Port!PushStore, Port!PushHead
  <2> QED
    BY <1>1, <2>1, PushTestKeeps, PushStoreKeeps, PushHeadKeeps
<1>2. ASSUME NEW p \in Port!Producers, Port!PushReady(p) \/ Port!PushIrq(p)
      PROVE  PortInv' /\ reads' = reads
  <2>1. /\ push[p] \in {"ready", "irq"}
        /\ \/ push' = [push EXCEPT ![p] = "irq"]
           \/ push' = [push EXCEPT ![p] = "idle"]
        /\ rx_fifo' = rx_fifo /\ rx_head' = rx_head /\ rx_tail' = rx_tail
        /\ slot' = slot /\ accepted' = accepted /\ reads' = reads
        /\ got' = got /\ collided' = collided
    BY <1>2 DEF Port!PushReady, Port!PushIrq, Port!At, Port!Goto
  <2>2. RingTypes'
    BY <2>1 DEF PortInv, RingTypes, Steps
  <2>3. InHead' = InHead /\ Busy' = Busy
    BY <2>1 DEF PortInv, RingTypes, InHead, Busy
  <2>4. \A q \in Busy : push'[q] = push[q]
    BY <2>1 DEF PortInv, RingTypes, Busy
  <2>5. RingInv'
    BY <2>1, <2>3, <2>4 DEF PortInv, RingInv, Front
  <2> QED
    BY <2>1, <2>2, <2>5 DEF PortInv
<1>3. CASE Port!MouseByte
  <2>1. /\ Port!Enter("core0")
        /\ UNCHANGED <<rx_fifo, rx_head, rx_tail, accepted, reads, got>>
    BY <1>3 DEF Port!MouseByte
  <2> QED
    BY <2>1, EnterKeeps DEF Port!Producers
<1>4. ASSUME rx_fifo' = rx_fifo, rx_head' = rx_head, rx_tail' = rx_tail,
             push' = push, slot' = slot, accepted' = accepted,
             reads' = reads, got' = got, collided' = collided
      PROVE  PortInv'
  BY <1>4 DEF PortInv, RingTypes, RingInv, InHead, Busy, Front
<1>5. CASE Port!WriteMcr
  <2>1. UNCHANGED <<rx_fifo, rx_head, rx_tail, accepted, reads, got>>
    BY <1>5 DEF Port!WriteMcr
  <2>2. CASE Port!Enter("core1")
    BY <2>1, <2>2, EnterKeeps DEF Port!Producers
  <2>3. CASE UNCHANGED <<slot, push, collided>>
    BY <1>4, <2>1, <2>3
  <2> QED
    BY <1>5, <2>1, <2>2, <2>3 DEF Port!WriteMcr
<1>6. CASE Port!WriteIer \/ Port!ReadDecide \/ Port!ReadStore \/ Port!TakeIrq
  <2>1. /\ rx_fifo' = rx_fifo /\ rx_head' = rx_head /\ rx_tail' = rx_tail
        /\ push' = push /\ slot' = slot /\ accepted' = accepted
        /\ reads' = reads /\ got' = got /\ collided' = collided
    BY <1>6 DEF Port!WriteIer, Port!ReadDecide, Port!ReadStore, Port!TakeIrq
  <2> QED
    BY <1>4, <2>1
<1>7. CASE Port!ReadByte
  BY <1>7, ReadByteKeeps
<1> QED
  BY <1>1, <1>2, <1>3, <1>5, <1>6, <1>7 DEF Port!Next

(* The n-th byte that the guest takes out of COM1's ring is the n-th that  *)
(* was stored in it -- none read twice, none left out --, unless at some   *)
(* time both cores were in uart_write_byte() at once (uart16550.h 55-100). *)
THEOREM GuestReadsInOrder == DevicesSpec => BytesInOrder
<1>1. DevicesInit => PortInv
  BY PortInit
<1>2. ASSUME PortInv, [DevicesNext]_all_vars
      PROVE  PortInv' /\ (~collided /\ reads' # reads => got' = reads')
  <2>1. CASE Port!Next
    BY <1>2, <2>1, PortKeeps
  <2>2. CASE UNCHANGED port_vars
    <3>1. /\ rx_fifo' = rx_fifo /\ rx_head' = rx_head /\ rx_tail' = rx_tail
          /\ push' = push /\ slot' = slot /\ accepted' = accepted
          /\ reads' = reads /\ got' = got /\ collided' = collided
      BY <2>2 DEF port_vars
    <3> QED
      BY <1>2, <3>1 DEF PortInv, RingTypes, RingInv, InHead, Busy, Front
  <2> QED
    BY <1>2, <2>1, <2>2, OneAtATime
<1>3. PortInv /\ [DevicesNext]_all_vars =>
        [~collided /\ reads' # reads => got' = reads']_(Port!vars)
  BY <1>2
<1> QED
  BY <1>1, <1>2, <1>3, PTL
     DEF DevicesSpec, all_vars, BytesInOrder, Port!BytesInOrder

-----------------------------------------------------------------------------
(* The card and its driver.                                                *)
Marks == {"old", "new", "other"} \X Nat

CardTypes ==
  /\ contents \in [1 .. Size -> Marks] /\ cardMoved \in Seq(Marks)
  /\ at \in Nat /\ Stat \in {"ok", "noinit"}
  /\ cardRequest \in Card!Requests \cup {Card!NoRequest}

(* A step of disk_initialize() that the card answered knows the card, and  *)
(* so does the driver afterwards.                                          *)
KindInv ==
  /\ pc \in {"acmd41", "cmd58"} /\ power # "off" => kind \in {"sd2", "sdhc"}
  /\ pc \in {"op_cond", "cmd16"} /\ power # "off" =>
       kind \notin {"sd2", "sdhc"}
  /\ power = "ready" /\ Stat = "ok" /\ pc \notin Card!Initial =>
       (CardType = "block" <=> kind = "sdhc")

(* The card stands where the call does.                                    *)
CallInv ==
  /\ pc \in {"idle"} \cup Card!Initial <=> cardRequest = Card!NoRequest
  /\ cardRequest = Card!NoRequest => cardMoved = <<>> /\ ~cardVoid
  /\ pc = "command" => Stat = "ok" /\ cardMoved = <<>>
  /\ pc = "block" => Len(cardMoved) < cardRequest.count
  /\ pc = "block" /\ power = "ready" =>
       mode = cardRequest.cmd /\ at = cardRequest.start + Len(cardMoved)
  /\ pc \notin {"block", "stop"} => mode = "tran" \/ missed

CardInv == CardTypes /\ KindInv /\ CallInv

CardStepIs ==
  \/ Card!Disk!Next
  \/ UNCHANGED <<contents, pulls, cardRequest, cardMoved, cardOutcome,
                 cardVoid>>

(* What the constants of the card are.                                     *)
LEMMA CardConstants ==
  /\ Size \in Nat /\ BlockBytes \in Nat /\ BlockBytes > 1
  /\ MaxCount \in Nat /\ MaxCount > 0
  /\ \A r \in Card!Requests : /\ r.cmd \in {"read", "write"}
                              /\ r.start \in 0 .. Size - 1
                              /\ r.count \in 1 .. MaxCount
                              /\ r # Card!NoRequest
  /\ \A n \in Nat : Card!Old(n) \in Marks /\ Card!Source(n) \in Marks
                      /\ <<"other", n>> \in Marks
<1>1. /\ Size \in Nat /\ BlockBytes \in Nat /\ BlockBytes > 1
      /\ MaxCount \in Nat /\ MaxCount > 0
  BY DevicesAssumption DEF Card!SdAssumption
<1>2. \A r \in Card!Requests : /\ r.cmd \in {"read", "write"}
                               /\ r.start \in 0 .. Size - 1
                               /\ r.count \in 1 .. MaxCount
  BY DEF Card!Requests
<1>3. Card!NoRequest.cmd = "none"
  BY DEF Card!NoRequest
<1>4. \A n \in Nat : Card!Old(n) \in Marks /\ Card!Source(n) \in Marks
                       /\ <<"other", n>> \in Marks
  BY DEF Marks, Card!Old, Card!Source
<1> QED
  BY <1>1, <1>2, <1>3, <1>4

(* A sector number times the size of a block is that sector's address.     *)
LEMMA ThereAndBack ==
  \A n \in Nat : (n * BlockBytes) \div BlockBytes = n
<1> SUFFICES ASSUME NEW n \in Nat
             PROVE  (n * BlockBytes) \div BlockBytes = n
  OBVIOUS
<1>1. BlockBytes \in Nat /\ BlockBytes > 1
  BY CardConstants
<1> QED
  BY <1>1

(* A sequence with one more block.                                         *)
LEMMA Appended ==
  ASSUME NEW s \in Seq(Marks), NEW x \in Marks
  PROVE  Append(s, x) \in Seq(Marks) /\ Len(Append(s, x)) = Len(s) + 1
         /\ Len(s) \in Nat
  BY AppendProperties

(* The card starts with its invariant.                                     *)
LEMMA CardInit == DevicesInit => CardInv
<1> SUFFICES ASSUME Card!Init PROVE CardInv
  BY DEF DevicesInit
<1>1. /\ contents = [n \in 1 .. Size |-> Card!Old(n)] /\ power = "off"
      /\ mode = "tran" /\ at = 0 /\ pc = "idle" /\ Stat = "noinit"
      /\ cardRequest = Card!NoRequest /\ cardMoved = <<>> /\ ~cardVoid
  BY DEF Card!Init
<1>2. CardTypes
  <2>1. contents \in [1 .. Size -> Marks]
    <3>1. ASSUME NEW n \in 1 .. Size PROVE Card!Old(n) \in Marks
      <4>1. n \in Nat
        BY CardConstants
      <4> QED
        BY <4>1, CardConstants
    <3> QED
      BY <1>1, <3>1
  <2>2. cardMoved \in Seq(Marks)
    BY <1>1
  <2> QED
    BY <1>1, <2>1, <2>2 DEF CardTypes
<1>3. KindInv
  BY <1>1 DEF KindInv
<1>4. CallInv
  BY <1>1 DEF CallInv
<1> QED
  BY <1>2, <1>3, <1>4 DEF CardInv

(* Initialization touches no call.                                         *)
LEMMA InitializingKeeps ==
  ASSUME CardInv,
         \/ Card!InitializeCall \/ Card!InitStep \/ Card!InitDone
         \/ Card!InitFail
  PROVE  CardInv' /\ CardStepIs
<1> USE DEF Card!card, Card!driver, Card!bounds, Card!Initial
<1>0. CardTypes /\ KindInv /\ CallInv
  BY DEF CardInv
<1>1. /\ contents' = contents /\ pulls' = pulls /\ at' = at
      /\ cardRequest' = cardRequest /\ cardMoved' = cardMoved
      /\ cardOutcome' = cardOutcome /\ cardVoid' = cardVoid
      /\ kind' = kind
      /\ pc \in {"idle"} \cup Card!Initial
      /\ pc' \in {"idle"} \cup Card!Initial
      /\ mode' = "tran" \/ (mode' = mode /\ (missed => missed'))
      /\ Stat' \in {Stat, "ok", "noinit"}
  <2>1. CASE Card!InitializeCall
    BY <2>1 DEF Card!InitializeCall
  <2>2. CASE Card!InitStep
    <3>1. pc' \in Card!Initial
      BY <2>2 DEF Card!InitStep, Card!After
    <3> QED
      BY <2>2, <3>1 DEF Card!InitStep
  <2>3. CASE Card!InitDone \/ Card!InitFail
    BY <2>3 DEF Card!InitDone, Card!InitFail
  <2> QED
    BY <2>1, <2>2, <2>3
<1>2. CardTypes'
  BY <1>0, <1>1 DEF CardTypes
<1>3. KindInv'
  <2>1. CASE Card!InitializeCall
    BY <1>0, <2>1 DEF Card!InitializeCall, KindInv
  <2>2. CASE Card!InitStep
    <3>1. CASE pc = "cmd0"
      BY <2>2, <3>1 DEF Card!InitStep, Card!After, KindInv
    <3>2. CASE pc = "cmd8"
      BY <2>2, <3>2 DEF Card!InitStep, Card!After, Card!Version2, KindInv
    <3>3. CASE pc = "acmd41"
      BY <1>0, <2>2, <3>3 DEF Card!InitStep, Card!After, KindInv
    <3>4. CASE pc = "op_cond"
      BY <1>0, <2>2, <3>4 DEF Card!InitStep, Card!After, KindInv
    <3> QED
      BY <2>2, <3>1, <3>2, <3>3, <3>4 DEF Card!InitStep
  <2>3. CASE Card!InitDone
    BY <1>0, <2>3 DEF Card!InitDone, KindInv
  <2>4. CASE Card!InitFail
    BY <2>4 DEF Card!InitFail, KindInv
  <2> QED
    BY <2>1, <2>2, <2>3, <2>4
<1>4. CallInv'
  BY <1>0, <1>1 DEF CallInv
<1> QED
  BY <1>1, <1>2, <1>3, <1>4 DEF CardInv, CardStepIs

(* A call of FatFs is a request of the sector disk.                        *)
LEMMA CallKeeps ==
  ASSUME CardInv, NEW r \in Card!Requests, Card!Call(r)
  PROVE  CardInv' /\ CardStepIs
<1> USE DEF Card!card, Card!driver, Card!bounds, Card!Initial
<1>0. CardTypes /\ KindInv /\ CallInv
  BY DEF CardInv
<1>1. /\ contents' = contents /\ pulls' = pulls /\ at' = at
      /\ cardRequest' = r /\ cardMoved' = cardMoved
      /\ cardOutcome' = "none" /\ cardVoid' = cardVoid
      /\ kind' = kind /\ missed' = missed /\ mode' = mode /\ power' = power
      /\ Stat' = Stat /\ CardType' = CardType
      /\ pc = "idle" /\ pc' \in {"failing", "command"}
      /\ pc' = "command" => Stat # "noinit"
  BY DEF Card!Call
<1>2. CardTypes'
  BY <1>0, <1>1 DEF CardTypes
<1>3. KindInv'
  BY <1>0, <1>1 DEF KindInv
<1>4. cardRequest = Card!NoRequest /\ cardMoved = <<>>
  BY <1>0, <1>1 DEF CallInv
<1>5. Stat \in {"ok", "noinit"}
  BY <1>0 DEF CardTypes
<1>6. CallInv'
  BY <1>0, <1>1, <1>4, <1>5, CardConstants DEF CallInv
<1>7. Card!Disk!Ask
  BY <1>1, <1>4 DEF Card!Disk!Ask
<1> QED
  BY <1>2, <1>3, <1>6, <1>7 DEF CardInv, CardStepIs, Card!Disk!Next

(* The command takes the card to the sector asked for.                     *)
LEMMA CommandKeeps ==
  ASSUME CardInv, Card!Command \/ Card!ResponseLost \/ Card!Refused
  PROVE  CardInv' /\ CardStepIs
<1> USE DEF Card!card, Card!driver, Card!bounds, Card!Initial
<1>0. CardTypes /\ KindInv /\ CallInv
  BY DEF CardInv
<1>1. /\ contents' = contents /\ pulls' = pulls /\ kind' = kind
      /\ cardRequest' = cardRequest /\ cardMoved' = cardMoved
      /\ cardOutcome' = cardOutcome /\ cardVoid' = cardVoid
      /\ power' = power /\ Stat' = Stat
      /\ CardType' = CardType /\ pc = "command"
  BY DEF Card!Command, Card!ResponseLost, Card!Taken, Card!Refused
<1>2. cardRequest \in Card!Requests /\ cardMoved = <<>> /\ Stat = "ok"
  BY <1>0, <1>1 DEF CardTypes, CallInv
<1>3. /\ cardRequest.start \in Nat /\ cardRequest.count \in Nat
      /\ cardRequest.count > 0
  BY <1>2, CardConstants
<1>4. ASSUME Card!Taken
      PROVE  /\ power = "ready" /\ mode' = cardRequest.cmd
             /\ at' = cardRequest.start
  <2>1. /\ power = "ready" /\ mode' = cardRequest.cmd
        /\ at' = Card!Sector(Card!Address(cardRequest.start))
    BY <1>4 DEF Card!Taken
  <2>2. CardType = "block" <=> kind = "sdhc"
    BY <1>0, <1>1, <1>2, <2>1 DEF KindInv
  <2>3. CASE kind = "sdhc"
    BY <2>1, <2>2, <2>3 DEF Card!Sector, Card!Address
  <2>4. CASE kind # "sdhc"
    <3>1. at' = (cardRequest.start * BlockBytes) \div BlockBytes
      BY <2>1, <2>2, <2>4 DEF Card!Sector, Card!Address
    <3> QED
      BY <1>3, <2>1, <3>1, ThereAndBack
  <2> QED
    BY <2>1, <2>3, <2>4
<1>5. CASE Card!Command
  <2>1. /\ power = "ready" /\ pc' = "block" /\ mode' = cardRequest.cmd
        /\ at' = cardRequest.start
    BY <1>4, <1>5 DEF Card!Command
  <2>2. CardTypes'
    BY <1>0, <1>1, <1>3, <2>1 DEF CardTypes
  <2>3. KindInv'
    BY <1>0, <1>1, <2>1 DEF KindInv
  <2>4. Len(cardMoved) = 0
    BY <1>2
  <2>5. CallInv'
    BY <1>0, <1>1, <1>2, <1>3, <2>1, <2>4 DEF CallInv
  <2> QED
    BY <1>1, <2>2, <2>3, <2>5 DEF CardInv, CardStepIs
<1>6. CASE Card!ResponseLost
  <2>1. pc' = "failing" /\ missed' /\ at' = cardRequest.start
    BY <1>4, <1>6 DEF Card!ResponseLost
  <2>2. CardTypes'
    BY <1>0, <1>1, <1>3, <2>1 DEF CardTypes
  <2>3. KindInv'
    BY <1>0, <1>1, <2>1 DEF KindInv
  <2>4. CallInv'
    BY <1>0, <1>1, <2>1 DEF CallInv
  <2> QED
    BY <1>1, <2>2, <2>3, <2>4 DEF CardInv, CardStepIs
<1>7. CASE Card!Refused
  <2>1. mode' = mode /\ at' = at /\ pc' = "failing" /\ missed' = missed
    BY <1>7 DEF Card!Refused
  <2>2. CardTypes'
    BY <1>0, <1>1, <2>1 DEF CardTypes
  <2>3. KindInv'
    BY <1>0, <1>1, <2>1 DEF KindInv
  <2>4. CallInv'
    BY <1>0, <1>1, <2>1 DEF CallInv
  <2> QED
    BY <1>1, <2>2, <2>3, <2>4 DEF CardInv, CardStepIs
<1> QED
  BY <1>5, <1>6, <1>7

(* A block goes over the wire.                                             *)
LEMMA BlockKeeps ==
  ASSUME CardInv, Card!ReadBlock \/ Card!WriteBlock
  PROVE  CardInv' /\ CardStepIs
<1> USE DEF Card!card, Card!driver, Card!bounds, Card!Initial
<1>0. CardTypes /\ KindInv /\ CallInv
  BY DEF CardInv
<1>1. /\ pulls' = pulls /\ kind' = kind /\ cardRequest' = cardRequest
      /\ cardOutcome' = cardOutcome /\ cardVoid' = cardVoid
      /\ missed' = missed /\ power' = power /\ Stat' = Stat
      /\ CardType' = CardType /\ pc = "block" /\ power = "ready"
      /\ at < Size /\ at' = at + 1 /\ mode' = Card!ModeAfter
      /\ pc' = Card!Then(Len(cardMoved) + 1)
  BY DEF Card!ReadBlock, Card!WriteBlock
<1>2. cardRequest \in Card!Requests
  BY <1>0, <1>1 DEF CardTypes, CallInv
<1>3. /\ cardRequest.start \in Nat /\ cardRequest.count \in Nat
      /\ cardRequest.count > 0
  BY <1>2, CardConstants
<1>4. /\ mode = cardRequest.cmd /\ at = cardRequest.start + Len(cardMoved)
      /\ Len(cardMoved) < cardRequest.count /\ Len(cardMoved) \in Nat
  BY <1>0, <1>1 DEF CallInv, CardTypes
<1>5. at + 1 \in 1 .. Size
  BY <1>0, <1>1, CardConstants DEF CardTypes
<1>6. Card!Disk!Place = at + 1 /\ DOMAIN contents = 1 .. Size
  BY <1>0, <1>3, <1>4 DEF Card!Disk!Place, CardTypes
<1>7. cardRequest # Card!NoRequest
  BY <1>2, CardConstants
<1>8. /\ \/ Card!Disk!Read \/ Card!Disk!Write
      /\ contents' \in [1 .. Size -> Marks] /\ cardMoved' \in Seq(Marks)
      /\ Len(cardMoved') = Len(cardMoved) + 1
  <2>1. CASE Card!ReadBlock
    <3>1. /\ cardRequest.cmd = "read" /\ contents' = contents
          /\ cardMoved' = Append(cardMoved, contents[at + 1])
      BY <1>4, <2>1 DEF Card!ReadBlock
    <3>2. contents[at + 1] \in Marks
      BY <1>0, <1>5 DEF CardTypes
    <3>3. Card!Disk!Read
      BY <1>1, <1>4, <1>5, <1>6, <1>7, <3>1
         DEF Card!Disk!Read, Card!Disk!Moves
    <3> QED
      BY <1>0, <3>1, <3>2, <3>3, Appended DEF CardTypes
  <2>2. CASE Card!WriteBlock
    <3> DEFINE s == Card!Source(Len(cardMoved))
    <3>1. /\ cardRequest.cmd = "write"
          /\ contents' = [contents EXCEPT ![at + 1] = s]
          /\ cardMoved' = Append(cardMoved, s)
      BY <1>4, <2>2 DEF Card!WriteBlock
    <3>2. s \in Marks
      BY <1>4, CardConstants
    <3>3. Card!Disk!Write
      BY <1>1, <1>4, <1>5, <1>6, <1>7, <3>1
         DEF Card!Disk!Write, Card!Disk!Moves
    <3> HIDE DEF s
    <3>4. contents' \in [1 .. Size -> Marks]
      BY <1>0, <3>1, <3>2 DEF CardTypes
    <3> QED
      BY <1>0, <3>1, <3>2, <3>3, <3>4, Appended DEF CardTypes
  <2> QED
    BY <2>1, <2>2
<1>9. CardTypes'
  BY <1>0, <1>1, <1>8 DEF CardTypes
<1>10. pc' \in {"block", "stop", "return"}
       /\ (pc' = "block" => Len(cardMoved) + 1 < cardRequest.count)
       /\ (pc' \in {"block", "stop"} => cardRequest.count > 1)
  BY <1>1, <1>3, <1>4 DEF Card!Then, Card!Multiple
<1>11. KindInv'
  BY <1>0, <1>1, <1>10 DEF KindInv
<1>12. CallInv'
  <2>1. mode' = IF cardRequest.count > 1 THEN mode ELSE "tran"
    BY <1>1 DEF Card!ModeAfter, Card!Multiple
  <2>2. pc' = "return" => ~(cardRequest.count > 1)
    BY <1>1, <1>3, <1>4 DEF Card!Then, Card!Multiple
  <2>3. pc' = "block" =>
          mode' = cardRequest'.cmd
          /\ at' = cardRequest'.start + Len(cardMoved')
          /\ Len(cardMoved') < cardRequest'.count
    BY <1>1, <1>3, <1>4, <1>8, <1>10, <2>1
  <2>4. pc' = "return" => mode' = "tran"
    BY <2>1, <2>2
  <2> QED
    BY <1>1, <1>7, <1>10, <2>3, <2>4 DEF CallInv
<1> QED
  BY <1>8, <1>9, <1>11, <1>12 DEF CardInv, CardStepIs, Card!Disk!Next

(* A block that fails may have spoilt its sector, no other.                *)
LEMMA BlockFailsKeeps ==
  ASSUME CardInv, Card!BlockFails
  PROVE  CardInv' /\ CardStepIs
<1> USE DEF Card!card, Card!driver, Card!bounds, Card!Initial
<1>0. CardTypes /\ KindInv /\ CallInv
  BY DEF CardInv
<1>1. /\ pulls' = pulls /\ kind' = kind /\ cardRequest' = cardRequest
      /\ cardMoved' = cardMoved
      /\ cardOutcome' = cardOutcome /\ cardVoid' = cardVoid
      /\ power' = power /\ Stat' = Stat
      /\ CardType' = CardType /\ pc = "block" /\ at' = at
      /\ \/ mode' = IF cardRequest.count > 1 THEN mode ELSE "tran"
         \/ ~(cardRequest.count > 1) /\ missed'
      /\ pc' = IF cardRequest.count > 1 THEN "stop" ELSE "return"
  BY DEF Card!BlockFails, Card!ModeAfter, Card!Multiple
<1>2. cardRequest \in Card!Requests /\ cardRequest # Card!NoRequest
  BY <1>0, <1>1 DEF CardTypes, CallInv
<1>3. KindInv' /\ CallInv'
  BY <1>0, <1>1, <1>2 DEF KindInv, CallInv
<1>4. CASE contents' = contents
  <2>1. CardTypes'
    BY <1>0, <1>1, <1>4 DEF CardTypes
  <2> QED
    BY <1>1, <1>3, <1>4, <2>1 DEF CardInv, CardStepIs
<1>5. CASE mode = "write" /\ power = "ready" /\ at < Size
           /\ contents' = [contents EXCEPT ![at + 1] =
                             Card!Source(Len(cardMoved))]
  <2>1. /\ cardRequest.start \in Nat /\ cardRequest.cmd = "write"
        /\ at = cardRequest.start + Len(cardMoved)
        /\ Len(cardMoved) < cardRequest.count /\ Len(cardMoved) \in Nat
    BY <1>0, <1>1, <1>2, <1>5, CardConstants DEF CallInv, CardTypes
  <2>2. at + 1 \in 1 .. Size
    BY <1>0, <1>5, CardConstants DEF CardTypes
  <2>3. Card!Disk!Place = at + 1 /\ DOMAIN contents = 1 .. Size
    BY <1>0, <2>1 DEF Card!Disk!Place, CardTypes
  <2>4. Card!Disk!Spoil
    BY <1>1, <1>2, <1>5, <2>1, <2>2, <2>3
       DEF Card!Disk!Spoil, Card!Disk!Moves
  <2>5. Card!Source(Len(cardMoved)) \in Marks
    BY <2>1, CardConstants
  <2>6. contents' \in [1 .. Size -> Marks]
    BY <1>0, <1>5, <2>5 DEF CardTypes
  <2>7. CardTypes'
    BY <1>0, <1>1, <2>6 DEF CardTypes
  <2> QED
    BY <1>3, <2>4, <2>7 DEF CardInv, CardStepIs, Card!Disk!Next
<1> QED
  BY <1>4, <1>5 DEF Card!BlockFails

(* The end of a transfer moves no sector.                                  *)
LEMMA StopKeeps ==
  ASSUME CardInv, Card!Stop
  PROVE  CardInv' /\ CardStepIs
<1> USE DEF Card!card, Card!driver, Card!bounds, Card!Initial
<1>0. CardTypes /\ KindInv /\ CallInv
  BY DEF CardInv
<1>1. /\ pulls' = pulls /\ kind' = kind /\ cardRequest' = cardRequest
      /\ cardMoved' = cardMoved /\ contents' = contents
      /\ cardOutcome' = cardOutcome /\ cardVoid' = cardVoid
      /\ power' = power /\ Stat' = Stat /\ CardType' = CardType
      /\ pc = "stop" /\ at' = at /\ pc' \in {"return", "failing"}
      /\ mode' = "tran" \/ missed'
  <2>1. mode' = "tran" \/ (mode' = mode /\ missed' = (mode # "tran"))
    BY DEF Card!Stop, Card!StopSent
  <2>2. mode' = "tran" \/ missed'
    BY <2>1
  <2> QED
    BY <2>2 DEF Card!Stop, Card!StopSent
<1>2. CardTypes'
  BY <1>0, <1>1 DEF CardTypes
<1>3. KindInv'
  BY <1>0, <1>1 DEF KindInv
<1>4. CallInv'
  BY <1>0, <1>1 DEF CallInv
<1> QED
  BY <1>1, <1>2, <1>3, <1>4 DEF CardInv, CardStepIs

(* FatFs is told, and told the truth.                                      *)
LEMMA ReturnKeeps ==
  ASSUME CardInv, Card!Return
  PROVE  CardInv' /\ CardStepIs
<1> USE DEF Card!card, Card!driver, Card!bounds, Card!Initial
<1>0. CardTypes /\ KindInv /\ CallInv
  BY DEF CardInv
<1>1. /\ pulls' = pulls /\ kind' = kind /\ contents' = contents
      /\ missed' = missed /\ power' = power /\ Stat' = Stat
      /\ CardType' = CardType /\ mode' = mode /\ at' = at
      /\ pc \in {"return", "failing"} /\ pc' = "idle"
      /\ cardRequest' = Card!NoRequest /\ cardMoved' = <<>>
      /\ cardVoid' = FALSE
      /\ cardOutcome' = IF pc = "return" /\ Len(cardMoved) = cardRequest.count
                          THEN "ok" ELSE "failed"
  BY DEF Card!Return
<1>2. cardRequest \in Card!Requests /\ cardRequest # Card!NoRequest
  BY <1>0, <1>1 DEF CardTypes, CallInv
<1>3. CardTypes'
  <2>1. <<>> \in Seq(Marks)
    OBVIOUS
  <2> QED
    BY <1>0, <1>1, <2>1 DEF CardTypes
<1>4. KindInv'
  BY <1>0, <1>1 DEF KindInv
<1>5. CallInv'
  BY <1>0, <1>1 DEF CallInv
<1>6. Card!Disk!End
  BY <1>1, <1>2 DEF Card!Disk!End
<1> QED
  BY <1>3, <1>4, <1>5, <1>6 DEF CardInv, CardStepIs, Card!Disk!Next

(* Another card: it is off until the driver initializes it.                *)
LEMMA PullKeeps ==
  ASSUME CardInv, Card!Pull
  PROVE  CardInv' /\ CardStepIs
<1> USE DEF Card!card, Card!driver, Card!call, Card!bounds, Card!Initial
<1>0. CardTypes /\ KindInv /\ CallInv
  BY DEF CardInv
<1>1. /\ pulls' = pulls + 1 /\ power' = "off" /\ mode' = "tran"
      /\ at' = at /\ Stat' = Stat /\ CardType' = CardType /\ pc' = pc
      /\ cardRequest' = cardRequest /\ cardMoved' = cardMoved
      /\ cardOutcome' = cardOutcome
      /\ cardVoid' = (cardRequest # Card!NoRequest)
      /\ contents' = [n \in 1 .. Size |-> <<"other", n>>]
  BY DEF Card!Pull
<1>2. contents' \in [1 .. Size -> Marks]
  <2>1. ASSUME NEW n \in 1 .. Size PROVE <<"other", n>> \in Marks
    <3>1. n \in Nat
      BY CardConstants
    <3> QED
      BY <3>1, CardConstants
  <2> QED
    BY <1>1, <2>1
<1>3. CardTypes'
  BY <1>0, <1>1, <1>2 DEF CardTypes
<1>4. KindInv'
  BY <1>1 DEF KindInv
<1>5. cardRequest = Card!NoRequest => ~cardVoid'
  BY <1>1
<1>6. CallInv'
  BY <1>0, <1>1, <1>5 DEF CallInv
<1>7. Card!Disk!Exchange
  BY <1>1 DEF Card!Disk!Exchange
<1> QED
  BY <1>3, <1>4, <1>6, <1>7 DEF CardInv, CardStepIs, Card!Disk!Next

(* Every step keeps the invariant and is one of the sector disk.           *)
LEMMA CardKeeps ==
  ASSUME CardInv, Card!Next \/ UNCHANGED card_vars
  PROVE  CardInv' /\ CardStepIs
<1>1. ASSUME NEW r \in Card!Requests, Card!Call(r)
      PROVE  CardInv' /\ CardStepIs
  BY <1>1, CallKeeps
<1>2. CASE UNCHANGED card_vars
  <2>1. CardStepIs
    BY <1>2 DEF card_vars, CardStepIs
  <2>2. CardTypes' /\ KindInv' /\ CallInv'
    BY <1>2 DEF card_vars, CardInv, CardTypes, KindInv, CallInv
  <2> QED
    BY <2>1, <2>2 DEF CardInv
<1> QED
  BY <1>1, <1>2, InitializingKeeps, CommandKeeps, BlockKeeps,
     BlockFailsKeeps, StopKeeps, ReturnKeeps, PullKeeps DEF Card!Next

(* The card keeps its invariant for good.                                  *)
LEMMA CardInvariance == DevicesSpec => []CardInv
<1>1. DevicesInit => CardInv
  BY CardInit
<1>2. CardInv /\ [DevicesNext]_all_vars => CardInv'
  BY OneAtATime, CardKeeps
<1> QED
  BY <1>1, <1>2, PTL DEF DevicesSpec, all_vars

(* Between two calls the card is not left inside a transfer: disk_read()   *)
(* and disk_write() end it also when a block of it failed (sdcard.c 454,   *)
(* 544).  Excepted is a transfer whose start the card took but could not   *)
(* confirm, whose single block could not be sent, or whose end the card    *)
(* did not take: there the driver has no second try.                       *)
THEOREM CardIsLeftReady == DevicesSpec => []CardLeftReady
<1>1. CardInv => CardLeftReady
  BY DEF CardInv, CallInv, CardLeftReady, Card!CardLeftReady
<1> QED
  BY <1>1, CardInvariance, PTL

(* The driver is the sector disk that FatFs takes it for, for every kind   *)
(* of card: the address is the right one, the sectors come in order, and   *)
(* what failed is not reported as done (sdcard.c).                         *)
THEOREM CardIsDisk == DevicesSpec => CardImplementsSectorDisk
<1>1. DevicesInit => Card!Disk!Init
  BY DEF DevicesInit, Card!Init, Card!Disk!Init
<1>2. CardInv /\ [DevicesNext]_all_vars =>
        [Card!Disk!Next]_(Card!Disk!vars)
  <2> SUFFICES ASSUME CardInv, [DevicesNext]_all_vars
               PROVE  [Card!Disk!Next]_(Card!Disk!vars)
    OBVIOUS
  <2>1. CardStepIs
    BY OneAtATime, CardKeeps
  <2> QED
    BY <2>1 DEF CardStepIs, Card!Disk!vars
<1> QED
  BY <1>1, <1>2, CardInvariance, PTL
     DEF DevicesSpec, all_vars, CardImplementsSectorDisk,
         Card!ImplementsSectorDisk, Card!Disk!Spec

-----------------------------------------------------------------------------
(* The settings.  What a file means; what the screens leave behind.        *)
SS == Settings!Settings
Unsaved == Settings!Nothing

Meaning(f) ==
  IF Settings!Readable(f)
  THEN Settings!Record(Settings!Read(f, 2), Settings!Read(f, 3), Settings!Read(f, 4))
  ELSE Unsaved

SetupTypes ==
  /\ phase \in {"off", "setup", "browser", "menu", "opened", "leaving", "running"}
  /\ card \in Settings!Cards /\ changed \in BOOLEAN
  /\ settings \in SS /\ backup \in SS /\ saved \in SS \cup {Unsaved}
  /\ phase = "browser" =>
       browse \in [for : {"setup", "menu"}, drive : Drives, dir : {Home, Root}]

(* A drive menu that changed nothing leaves the machine as it was; what    *)
(* SETUP is left with is what it found, or saved.                          *)
Untouched == settings = backup /\ mounted = Settings!Disks(card, settings)

ScreenInv ==
  /\ phase \in {"off", "setup"} => ~changed
  /\ phase = "browser" /\ changed => browse.for = "menu"
  /\ phase = "opened" => Settings!Keeps(card) /\ saved = Unsaved
  /\ phase = "leaving" /\ Settings!Keeps(card) =>
       settings \in {backup, saved} \/ saved = Unsaved
  /\ phase = "menu" /\ ~changed => Untouched
  /\ phase = "browser" /\ browse.for = "menu" /\ ~changed => Untouched
  /\ phase = "running" => mounted = Settings!Disks(card, settings)

FileInv == saved = Meaning(file)

SetupInv == SetupTypes /\ ScreenInv /\ FileInv

StoreStep == [Settings!Store!Next]_(Settings!Store!vars)

(* The settings are functions; changing one of them gives settings again.  *)
LEMMA SettingsFacts ==
  /\ \A s \in SS : /\ s # Unsaved
                   /\ s["sound"] \in {0, 1} /\ s["vga"] \in {0, 1}
                   /\ \A d \in Drives : s[d] \in Settings!Paths
                   /\ DOMAIN s = Drives \cup {"sound", "vga"}
                   /\ s = Settings!Record(Settings!PathsOf(s), s["sound"], s["vga"])
  /\ \A s \in SS, d \in Drives, path \in Settings!Paths :
       [s EXCEPT ![d] = path] \in SS
  /\ \A s \in SS, f \in {"sound", "vga"}, v \in {0, 1} :
       [s EXCEPT ![f] = v] \in SS
  /\ \A paths \in [Drives -> Settings!Paths], v, w \in {0, 1} :
       Settings!Record(paths, v, w) \in SS
<1>0. "sound" \notin Drives /\ "vga" \notin Drives /\ "nothing" \notin Drives
  BY DevicesAssumption DEF Settings!SetupAssumption, Settings!Switch
<1>1. \A paths \in [Drives -> Settings!Paths], v, w \in {0, 1} :
        Settings!Record(paths, v, w) \in SS
  BY DEF SS, Settings!Settings
<1>2. \A s \in SS : \E paths \in [Drives -> Settings!Paths], v, w \in {0, 1} :
        s = Settings!Record(paths, v, w)
  BY DEF SS, Settings!Settings
<1>3. ASSUME NEW s \in SS
      PROVE  /\ s # Unsaved /\ s["sound"] \in {0, 1} /\ s["vga"] \in {0, 1}
             /\ \A d \in Drives : s[d] \in Settings!Paths
             /\ DOMAIN s = Drives \cup {"sound", "vga"}
             /\ s = Settings!Record(Settings!PathsOf(s), s["sound"], s["vga"])
  <2>1. PICK paths \in [Drives -> Settings!Paths], v \in {0, 1}, w \in {0, 1} :
          s = Settings!Record(paths, v, w)
    BY <1>2
  <2>2. /\ DOMAIN s = Drives \cup {"sound", "vga"}
        /\ s["sound"] = v /\ s["vga"] = w /\ \A d \in Drives : s[d] = paths[d]
    BY <1>0, <2>1 DEF Settings!Record, Settings!Switch
  <2>3. DOMAIN Unsaved = {"nothing"}
    BY DEF Unsaved, Settings!Nothing
  <2>4. s # Unsaved
    BY <2>2, <2>3
  <2>5. Settings!PathsOf(s) = paths
    BY <2>2 DEF Settings!PathsOf
  <2> QED
    BY <2>1, <2>2, <2>4, <2>5
<1>4. ASSUME NEW s \in SS, NEW d \in Drives, NEW path \in Settings!Paths
      PROVE  [s EXCEPT ![d] = path] \in SS
  <2>1. PICK paths \in [Drives -> Settings!Paths], v \in {0, 1}, w \in {0, 1} :
          s = Settings!Record(paths, v, w)
    BY <1>2
  <2>2. [paths EXCEPT ![d] = path] \in [Drives -> Settings!Paths]
    OBVIOUS
  <2>3. [s EXCEPT ![d] = path] =
          Settings!Record([paths EXCEPT ![d] = path], v, w)
    BY <1>0, <2>1 DEF Settings!Record, Settings!Switch
  <2> QED
    BY <1>1, <2>2, <2>3
<1>5. ASSUME NEW s \in SS, NEW f \in {"sound", "vga"}, NEW v \in {0, 1}
      PROVE  [s EXCEPT ![f] = v] \in SS
  <2>1. PICK paths \in [Drives -> Settings!Paths], x \in {0, 1}, y \in {0, 1} :
          s = Settings!Record(paths, x, y)
    BY <1>2
  <2>2. CASE f = "sound"
    <3>1. [s EXCEPT ![f] = v] = Settings!Record(paths, v, y)
      BY <1>0, <2>1, <2>2 DEF Settings!Record, Settings!Switch
    <3> QED
      BY <1>1, <3>1
  <2>3. CASE f = "vga"
    <3>1. [s EXCEPT ![f] = v] = Settings!Record(paths, x, v)
      BY <1>0, <2>1, <2>3 DEF Settings!Record, Settings!Switch
    <3> QED
      BY <1>1, <3>1
  <2> QED
    BY <2>2, <2>3
<1> QED
  BY <1>1, <1>3, <1>4, <1>5

(* What this firmware writes it reads back; less than the paths is         *)
(* nothing; and an older file is read with the defaults it did not know.   *)
LEMMA FileFacts ==
  /\ \A s \in SS : Meaning(Settings!Layout(5, s)) = s
  /\ Meaning(<<>>) = Unsaved /\ Meaning(<<5>>) = Unsaved
  /\ Meaning(file) # Unsaved => Settings!Readable(file)
  /\ \A s \in SS, version \in 2 .. 6 :
       Meaning(Settings!Layout(version, s)) =
         IF version \in 3 .. 5
         THEN [s EXCEPT
                 !["sound"] = IF version < 4 THEN Defaults["sound"] ELSE @,
                 !["vga"]   = IF version < 5 THEN Defaults["vga"] ELSE @]
         ELSE Unsaved
<1> USE DEF Meaning, Settings!Readable, Settings!Read, Settings!Version,
            Settings!VersionMin, Settings!Layout
<1>0. /\ "sound" \notin Drives /\ "vga" \notin Drives
      /\ Defaults \in SS /\ Defaults["vga"] = 0
  BY DevicesAssumption DEF Settings!SetupAssumption, Settings!Switch, SS
<1>1. /\ Meaning(<<>>) = Unsaved /\ Meaning(<<5>>) = Unsaved
      /\ Meaning(file) # Unsaved => Settings!Readable(file)
  OBVIOUS
<1>2. ASSUME NEW s \in SS, NEW version \in 2 .. 6
      PROVE  Meaning(Settings!Layout(version, s)) =
               IF version \in 3 .. 5
               THEN [s EXCEPT
                       !["sound"] = IF version < 4 THEN Defaults["sound"] ELSE @,
                       !["vga"]   = IF version < 5 THEN Defaults["vga"] ELSE @]
               ELSE Unsaved
  <2> DEFINE f == Settings!Layout(version, s)
             sound == IF version < 4 THEN Defaults["sound"] ELSE s["sound"]
             vga   == IF version < 5 THEN Defaults["vga"] ELSE s["vga"]
  <2>1. Len(f) >= 2 /\ f[1] = version /\ f[2] = Settings!PathsOf(s)
    OBVIOUS
  <2>2. Settings!Readable(f) <=> version \in 3 .. 5
    BY <2>1
  <2>3. version \in 3 .. 5 => /\ Settings!Read(f, 2) = Settings!PathsOf(s)
                              /\ Settings!Read(f, 3) = sound
                              /\ Settings!Read(f, 4) = vga
    BY <1>0, <2>1
  <2>4. s = Settings!Record(Settings!PathsOf(s), s["sound"], s["vga"])
    BY SettingsFacts
  <2>5. Settings!Record(Settings!PathsOf(s), sound, vga) =
          [s EXCEPT !["sound"] = sound, !["vga"] = vga]
    BY <1>0, <2>4 DEF Settings!Record, Settings!Switch
  <2>6. [s EXCEPT !["sound"] = sound, !["vga"] = vga] =
          [s EXCEPT
             !["sound"] = IF version < 4 THEN Defaults["sound"] ELSE @,
             !["vga"]   = IF version < 5 THEN Defaults["vga"] ELSE @]
    BY <1>0, SettingsFacts
  <2> HIDE DEF f, sound, vga
  <2> QED
    BY <2>2, <2>3, <2>5, <2>6 DEF f
<1>3. ASSUME NEW s \in SS PROVE Meaning(Settings!Layout(5, s)) = s
  <2>1. Settings!Readable(Settings!Layout(5, s))
    OBVIOUS
  <2>2. /\ Settings!Read(Settings!Layout(5, s), 2) = Settings!PathsOf(s)
        /\ Settings!Read(Settings!Layout(5, s), 3) = s["sound"]
        /\ Settings!Read(Settings!Layout(5, s), 4) = s["vga"]
    OBVIOUS
  <2> QED
    BY <2>1, <2>2, SettingsFacts
<1> QED
  BY <1>1, <1>2, <1>3

(* The machine is off, with whatever an older firmware left on the card.   *)
LEMMA SetupInit == DevicesInit => SetupInv /\ Settings!Store!Init
<1> SUFFICES ASSUME Settings!Init PROVE SetupInv /\ Settings!Store!Init
  BY DEF DevicesInit
<1>0. "none" \in Settings!Cards /\ Defaults \in SS
  BY DevicesAssumption DEF Settings!SetupAssumption, SS
<1>1. PICK s \in SS, version \in 2 .. 6 :
        /\ file = Settings!Layout(version, s)
        /\ saved = IF version \in 3 .. 5
                   THEN [s EXCEPT
                     !["sound"] = IF version < 4 THEN Defaults["sound"] ELSE @,
                     !["vga"]   = IF version < 5 THEN Defaults["vga"] ELSE @]
                   ELSE Unsaved
  <2>1. PICK s \in SS, version \in 2 .. Settings!Version + 1 :
          /\ file = Settings!Layout(version, s)
          /\ saved = IF version \in Settings!VersionMin .. Settings!Version
                     THEN [s EXCEPT
                       !["sound"] = IF version < 4 THEN Defaults["sound"] ELSE @,
                       !["vga"]   = IF version < 5 THEN Defaults["vga"] ELSE @]
                     ELSE Unsaved
    BY DEF Settings!Init, SS, Unsaved
  <2>2. version \in 2 .. 6 /\ Settings!Version = 5 /\ Settings!VersionMin = 3
    BY DEF Settings!Version, Settings!VersionMin
  <2> QED
    BY <2>1, <2>2
<1>2. FileInv
  BY <1>1, FileFacts DEF FileInv
<1>3. saved \in SS \cup {Unsaved}
  <2> DEFINE sound == IF version < 4 THEN Defaults["sound"] ELSE s["sound"]
             vga   == IF version < 5 THEN Defaults["vga"] ELSE s["vga"]
  <2>1. sound \in {0, 1} /\ vga \in {0, 1}
    BY <1>0, SettingsFacts
  <2>2. [s EXCEPT !["sound"] = sound] \in SS
    BY <2>1, SettingsFacts
  <2>3. [[s EXCEPT !["sound"] = sound] EXCEPT !["vga"] = vga] \in SS
    BY <2>1, <2>2, SettingsFacts
  <2>4. [s EXCEPT
           !["sound"] = IF version < 4 THEN Defaults["sound"] ELSE @,
           !["vga"]   = IF version < 5 THEN Defaults["vga"] ELSE @] =
          [[s EXCEPT !["sound"] = sound] EXCEPT !["vga"] = vga]
    BY SettingsFacts
  <2> QED
    BY <1>1, <2>3, <2>4
<1>4. /\ phase = "off" /\ card = "none" /\ settings = Defaults
      /\ backup = Defaults /\ changed = FALSE
      /\ mounted = Settings!Disks("none", Defaults)
  BY DEF Settings!Init
<1>5. SetupTypes /\ ScreenInv
  BY <1>0, <1>3, <1>4 DEF SetupTypes, ScreenInv
<1>6. Settings!Store!Init
  BY <1>3, <1>4 DEF Settings!Store!Init, Settings!Phase, SS, Unsaved
<1> QED
  BY <1>2, <1>5, <1>6 DEF SetupInv

(* Switching on reads the file: what it means, or the defaults.            *)
LEMMA PowerOnKeeps ==
  ASSUME SetupInv, NEW c \in Settings!Cards, NEW wants \in BOOLEAN,
         Settings!PowerOn(c, wants)
  PROVE  SetupInv' /\ StoreStep
<1>0. SetupTypes /\ ScreenInv /\ FileInv
  BY DEF SetupInv
<1>1. /\ phase = "off" /\ card' = c /\ backup' = settings'
      /\ settings' = Settings!load_settings(c, file)
      /\ phase' = IF wants THEN "setup" ELSE "leaving"
      /\ changed' = changed /\ browse' = browse /\ file' = file
      /\ mounted' = mounted /\ saved' = saved
  BY DEF Settings!PowerOn
<1>2. settings' = IF Settings!Keeps(c) /\ saved # Unsaved THEN saved ELSE Defaults
  <2>1. CASE Settings!Readable(file)
    <3>1. Meaning(file) = saved
      BY <1>0 DEF FileInv
    <3>2. saved # Unsaved
      <4>1. saved = Settings!Record(Settings!Read(file, 2), Settings!Read(file, 3),
                                    Settings!Read(file, 4))
        BY <2>1, <3>1 DEF Meaning
      <4>2. DOMAIN saved = Drives \cup {"sound", "vga"}
        BY <4>1 DEF Settings!Record, Settings!Switch
      <4>3. DOMAIN Unsaved = {"nothing"}
        BY DEF Unsaved, Settings!Nothing
      <4> QED
        BY <4>2, <4>3
    <3> QED
      BY <1>1, <2>1, <3>1, <3>2 DEF Meaning, Settings!load_settings
  <2>2. CASE ~Settings!Readable(file)
    BY <1>0, <1>1, <2>2 DEF Meaning, Settings!load_settings, FileInv
  <2> QED
    BY <2>1, <2>2
<1>3. Defaults \in SS
  BY DevicesAssumption DEF Settings!SetupAssumption, SS
<1>4. SetupTypes'
  BY <1>0, <1>1, <1>2, <1>3 DEF SetupTypes
<1>5. ScreenInv'
  BY <1>0, <1>1 DEF ScreenInv
<1>6. FileInv'
  BY <1>0, <1>1 DEF FileInv, Meaning
<1>7. Settings!Store!SwitchOn
  BY <1>0, <1>1, <1>2
     DEF Settings!Store!SwitchOn, Settings!Phase, ScreenInv, Unsaved
<1> QED
  BY <1>4, <1>5, <1>6, <1>7 DEF SetupInv, StoreStep, Settings!Store!Next

(* Power off, in the middle of anything.                                   *)
LEMMA PowerOffKeeps ==
  ASSUME SetupInv, Settings!PowerOff
  PROVE  SetupInv' /\ StoreStep
<1>0. SetupTypes /\ ScreenInv /\ FileInv
  BY DEF SetupInv
<1>1. /\ phase' = "off" /\ card' = "none" /\ settings' = Defaults
      /\ backup' = Defaults /\ changed' = FALSE
      /\ mounted' = Settings!Disks("none", Defaults)
      /\ file' = file /\ saved' = saved
  BY DEF Settings!PowerOff
<1>2. Defaults \in SS /\ "none" \in Settings!Cards
  BY DevicesAssumption DEF Settings!SetupAssumption, SS
<1>3. SetupTypes'
  BY <1>0, <1>1, <1>2 DEF SetupTypes
<1>4. ScreenInv'
  BY <1>1 DEF ScreenInv
<1>5. FileInv'
  BY <1>0, <1>1 DEF FileInv, Meaning
<1>6. Settings!Store!SwitchOff
  BY <1>1 DEF Settings!Store!SwitchOff, Settings!Phase
<1> QED
  BY <1>3, <1>4, <1>5, <1>6 DEF SetupInv, StoreStep, Settings!Store!Next

(* One setting is given one of its values.                                 *)
LEMMA EditKeeps ==
  ASSUME SetupInv,
         \/ \E f \in Settings!Switch : Settings!cycle_array(f)
         \/ \E d \in Drives : Settings!Eject(d)
  PROVE  SetupInv' /\ StoreStep
<1>0. SetupTypes /\ ScreenInv /\ FileInv
  BY DEF SetupInv
<1>a. /\ \A f \in Drives : Settings!Choices[f] = Settings!Paths
      /\ \A f \in Settings!Switch : Settings!Choices[f] = {0, 1}
  BY DevicesAssumption DEF Settings!SetupAssumption, Settings!Choices
<1>1. \E f \in Drives \cup Settings!Switch : \E v \in Settings!Choices[f] :
        settings' = [settings EXCEPT ![f] = v]
  <2>1. ASSUME NEW f \in Settings!Switch, Settings!cycle_array(f)
        PROVE  \E v \in {0, 1} : settings' = [settings EXCEPT ![f] = v]
    <3>1. settings[f] \in {0, 1}
      BY <1>0, SettingsFacts DEF SetupTypes, Settings!Switch
    <3>2. PICK dir \in {1, 3} :
            settings' = [settings EXCEPT ![f] = (@ + dir) % 2]
      BY <2>1 DEF Settings!cycle_array
    <3>3. (settings[f] + dir) % 2 \in {0, 1}
      BY <3>1, <3>2
    <3>4. settings' = [settings EXCEPT ![f] = (settings[f] + dir) % 2]
      BY <1>0, <3>2, SettingsFacts DEF SetupTypes
    <3> QED
      BY <3>3, <3>4
  <2>2. ASSUME NEW d \in Drives, Settings!Eject(d)
        PROVE  \E v \in Settings!Paths : settings' = [settings EXCEPT ![d] = v]
    BY <2>2 DEF Settings!Eject, Settings!Paths
  <2> QED
    BY <1>a, <2>1, <2>2
<1>2. /\ phase \in {"setup", "menu"} /\ phase' = phase
      /\ changed' = (changed \/ phase = "menu")
      /\ card' = card /\ backup' = backup /\ mounted' = mounted
      /\ file' = file /\ saved' = saved
  <2>1. ASSUME NEW f \in Settings!Switch, Settings!cycle_array(f)
        PROVE  phase = "setup" /\ changed' = changed /\ changed = FALSE
    BY <1>0, <2>1 DEF Settings!cycle_array, SetupTypes, ScreenInv
  <2>2. ASSUME NEW d \in Drives, Settings!Eject(d)
        PROVE  changed' = (changed \/ phase = "menu")
    BY <2>2 DEF Settings!Eject
  <2>3. changed' = (changed \/ phase = "menu")
    BY <2>1, <2>2
  <2>4. /\ phase \in {"setup", "menu"} /\ phase' = phase
        /\ card' = card /\ backup' = backup /\ mounted' = mounted
        /\ file' = file /\ saved' = saved
    BY DEF Settings!cycle_array, Settings!Eject
  <2> QED
    BY <2>3, <2>4
<1>3. settings' \in SS
  <2>1. PICK f \in Drives \cup Settings!Switch :
          \E v \in Settings!Choices[f] : settings' = [settings EXCEPT ![f] = v]
    BY <1>1
  <2>a. PICK v \in Settings!Choices[f] : settings' = [settings EXCEPT ![f] = v]
    BY <2>1
  <2>2. settings \in SS
    BY <1>0 DEF SetupTypes
  <2>3. CASE f \in Drives
    <3>1. v \in Settings!Paths
      BY <1>a, <2>3
    <3>2. [settings EXCEPT ![f] = v] \in SS
      BY <2>2, <2>3, <3>1, SettingsFacts
    <3> QED
      BY <2>a, <3>2
  <2>4. CASE f \in {"sound", "vga"}
    <3>1. v \in {0, 1}
      BY <1>a, <2>4 DEF Settings!Switch
    <3> QED
      BY <2>a, <2>2, <2>4, <3>1, SettingsFacts
  <2> QED
    BY <2>3, <2>4 DEF Settings!Switch
<1>4. SetupTypes'
  BY <1>0, <1>2, <1>3 DEF SetupTypes
<1>5. ScreenInv'
  BY <1>0, <1>2 DEF ScreenInv
<1>6. FileInv'
  BY <1>0, <1>2 DEF FileInv, Meaning
<1>7. Settings!Store!Change
  BY <1>1, <1>2 DEF Settings!Store!Change, Settings!Phase, Settings!Choices
<1> QED
  BY <1>4, <1>5, <1>6, <1>7 DEF SetupInv, StoreStep, Settings!Store!Next

(* ESC takes every change back.                                            *)
LEMMA DiscardKeeps ==
  ASSUME SetupInv, Settings!Discard
  PROVE  SetupInv' /\ StoreStep
<1>0. SetupTypes /\ ScreenInv /\ FileInv
  BY DEF SetupInv
<1>1. /\ phase = "setup" /\ phase' = "leaving" /\ settings' = backup
      /\ card' = card /\ backup' = backup /\ changed' = changed
      /\ file' = file /\ mounted' = mounted /\ saved' = saved
  BY DEF Settings!Discard
<1>2. SetupTypes'
  BY <1>0, <1>1 DEF SetupTypes
<1>3. ScreenInv'
  BY <1>0, <1>1 DEF ScreenInv
<1>4. FileInv'
  BY <1>0, <1>1 DEF FileInv, Meaning
<1>5. Settings!Store!TakeBack
  BY <1>0, <1>1 DEF Settings!Store!TakeBack, Settings!Phase, ScreenInv
<1> QED
  BY <1>2, <1>3, <1>4, <1>5 DEF SetupInv, StoreStep, Settings!Store!Next

(* The browser opens, moves through the directories and is left again.     *)
LEMMA BrowsingKeeps ==
  ASSUME SetupInv,
         \/ \E d \in Drives : Settings!Browse(d)
         \/ phase = "browser" /\ \E e \in Settings!Listed(browse.dir) : Settings!Enter(e)
         \/ Settings!Cancel
  PROVE  SetupInv' /\ StoreStep
<1>0. SetupTypes /\ ScreenInv /\ FileInv
  BY DEF SetupInv
<1>1. \A d : Settings!Opened(d) \in {Home, Root}
  BY <1>0, DevicesAssumption
     DEF Settings!SetupAssumption, Settings!Opened, SetupTypes
<1>2. /\ settings' = settings /\ card' = card /\ backup' = backup
      /\ changed' = changed /\ file' = file /\ mounted' = mounted
      /\ saved' = saved
  BY DEF Settings!Browse, Settings!Enter, Settings!Cancel
<1>3. ASSUME NEW d \in Drives, Settings!Browse(d)
      PROVE  /\ phase \in {"setup", "menu"} /\ phase' = "browser"
             /\ browse' \in [for : {"setup", "menu"}, drive : Drives, dir : {Home, Root}]
             /\ browse'.for = phase
  BY <1>1, <1>3 DEF Settings!Browse
<1>4. ASSUME phase = "browser", NEW e, Settings!Enter(e)
      PROVE  /\ phase' = phase /\ browse'.for = browse.for
             /\ browse' \in [for : {"setup", "menu"}, drive : Drives, dir : {Home, Root}]
  BY <1>0, <1>1, <1>4 DEF Settings!Enter, SetupTypes
<1>5. ASSUME Settings!Cancel
      PROVE  phase = "browser" /\ phase' = browse.for /\ browse.for \in {"setup", "menu"}
  BY <1>0, <1>5 DEF Settings!Cancel, Settings!BackTo, SetupTypes
<1>6. SetupTypes'
  BY <1>0, <1>2, <1>3, <1>4, <1>5 DEF SetupTypes
<1>7. ScreenInv'
  BY <1>0, <1>2, <1>3, <1>4, <1>5 DEF ScreenInv, Untouched
<1>8. FileInv'
  BY <1>0, <1>2 DEF FileInv, Meaning
<1>9. Settings!Phase' = Settings!Phase
  BY <1>3, <1>4, <1>5 DEF Settings!Phase
<1>10. UNCHANGED Settings!Store!vars
  BY <1>2, <1>9 DEF Settings!Store!vars
<1> QED
  BY <1>6, <1>7, <1>8, <1>10 DEF SetupInv, StoreStep

(* What is picked is an image on the card, or none.                        *)
LEMMA PickKeeps ==
  ASSUME SetupInv, phase = "browser",
         NEW e \in Settings!Listed(browse.dir), Settings!Pick(e)
  PROVE  SetupInv' /\ StoreStep
<1>0. SetupTypes /\ ScreenInv /\ FileInv
  BY DEF SetupInv
<1>1. /\ e.kind \in {"eject", "image"} /\ phase' = browse.for
      /\ browse.for \in {"setup", "menu"} /\ browse.drive \in Drives
      /\ settings' = [settings EXCEPT ![browse.drive] = e.path]
      /\ changed' = (changed \/ browse.for = "menu")
      /\ card' = card /\ backup' = backup /\ mounted' = mounted
      /\ file' = file /\ saved' = saved
  BY <1>0 DEF Settings!Pick, Settings!BackTo, SetupTypes
<1>2. e.path \in Settings!Paths
  <2> DEFINE entries == IF browse.dir \in DOMAIN Tree[card]
                        THEN Tree[card][browse.dir] ELSE <<>>
  <2>1. \/ e = [kind |-> "eject", path |-> Settings!Empty]
        \/ e = [kind |-> "dir", path |-> Root]
        \/ \E i \in DOMAIN entries : e = entries[i]
    BY DEF Settings!Listed
  <2>2. CASE e = [kind |-> "eject", path |-> Settings!Empty]
    BY <2>2 DEF Settings!Paths
  <2>3. CASE e = [kind |-> "dir", path |-> Root]
    BY <1>1, <2>3
  <2>4. ASSUME NEW i \in DOMAIN entries, e = entries[i], e.kind = "image"
        PROVE  e.path \in Images
    <3>1. browse.dir \in DOMAIN Tree[card]
      BY <2>4
    <3>2. card \in Settings!Cards
      BY <1>0 DEF SetupTypes
    <3> QED
      BY <2>4, <3>1, <3>2, DevicesAssumption DEF Settings!SetupAssumption
  <2>5. CASE e.kind = "image"
    BY <2>1, <2>4, <2>5 DEF Settings!Paths
  <2>6. ASSUME NEW i \in DOMAIN entries, e = entries[i]
        PROVE  e.kind # "eject"
    <3>1. browse.dir \in DOMAIN Tree[card]
      BY <2>6
    <3>2. card \in Settings!Cards
      BY <1>0 DEF SetupTypes
    <3> QED
      BY <2>6, <3>1, <3>2, DevicesAssumption DEF Settings!SetupAssumption
  <2> QED
    BY <1>1, <2>1, <2>2, <2>3, <2>5, <2>6
<1>3. settings' \in SS
  BY <1>0, <1>1, <1>2, SettingsFacts DEF SetupTypes
<1>4. SetupTypes'
  BY <1>0, <1>1, <1>3 DEF SetupTypes
<1>5. ScreenInv'
  BY <1>0, <1>1 DEF ScreenInv
<1>6. FileInv'
  BY <1>0, <1>1 DEF FileInv, Meaning
<1>7. Settings!Store!Change
  <2>1. Settings!Choices[browse.drive] = Settings!Paths
    BY <1>1 DEF Settings!Choices
  <2>2. Settings!Phase' = Settings!Phase /\ Settings!Phase \in {"setup", "menu"}
    BY <1>1 DEF Settings!Phase
  <2>3. DOMAIN Settings!Choices = Drives \cup Settings!Switch
    BY DEF Settings!Choices
  <2> QED
    BY <1>1, <1>2, <2>1, <2>2, <2>3 DEF Settings!Store!Change
<1> QED
  BY <1>4, <1>5, <1>6, <1>7 DEF SetupInv, StoreStep, Settings!Store!Next

(* Opening the file empties it; without the directory there is none.       *)
LEMMA OpenKeeps ==
  ASSUME SetupInv, Settings!SaveAndExit \/ Settings!SaveChanges
  PROVE  SetupInv' /\ StoreStep
<1>0. SetupTypes /\ ScreenInv /\ FileInv
  BY DEF SetupInv
<1>1. /\ phase = "setup" \/ (phase = "menu" /\ changed)
      /\ card' = card /\ settings' = settings /\ backup' = backup
      /\ changed' = changed /\ mounted' = mounted
  <2>1. phase = "setup" \/ (phase = "menu" /\ changed)
    <3>1. CASE Settings!SaveAndExit
      BY <3>1 DEF Settings!SaveAndExit
    <3>2. CASE Settings!SaveChanges
      BY <3>2 DEF Settings!SaveChanges
    <3> QED
      BY <3>1, <3>2
  <2>2. Settings!OpenFile
    BY Zenon DEF Settings!SaveAndExit, Settings!SaveChanges
  <2>3. /\ card' = card /\ settings' = settings /\ backup' = backup
        /\ changed' = changed /\ mounted' = mounted
    BY <2>2 DEF Settings!OpenFile
  <2> QED
    BY <2>1, <2>3
<1>2. Settings!Phase' = Settings!Phase /\ Settings!Phase \in {"setup", "menu"}
  BY <1>0, <1>1 DEF Settings!Phase, ScreenInv, Settings!SaveAndExit,
                    Settings!SaveChanges, Settings!OpenFile
<1>3. CASE Settings!Keeps(card)
  <2>1. phase' = "opened" /\ file' = <<>> /\ saved' = Unsaved
    BY <1>3 DEF Settings!SaveAndExit, Settings!SaveChanges, Settings!OpenFile,
                Unsaved
  <2>2. SetupTypes'
    BY <1>0, <1>1, <2>1 DEF SetupTypes
  <2>3. ScreenInv'
    BY <1>1, <1>3, <2>1 DEF ScreenInv
  <2>4. FileInv'
    BY <2>1, FileFacts DEF FileInv, Meaning
  <2>5. card \in Settings!Cards
    BY <1>0 DEF SetupTypes
  <2>6. Settings!Store!Saving
    BY <1>1, <1>2, <1>3, <2>1, <2>5 DEF Settings!Store!Saving, Unsaved
  <2> QED
    BY <2>2, <2>3, <2>4, <2>6 DEF SetupInv, StoreStep, Settings!Store!Next
<1>4. CASE ~Settings!Keeps(card)
  <2>1. phase' = "leaving" /\ file' = file /\ saved' = saved
    BY <1>4 DEF Settings!SaveAndExit, Settings!SaveChanges, Settings!OpenFile
  <2>2. SetupTypes'
    BY <1>0, <1>1, <2>1 DEF SetupTypes
  <2>3. ScreenInv'
    BY <1>1, <1>4, <2>1 DEF ScreenInv
  <2>4. FileInv'
    BY <1>0, <2>1 DEF FileInv, Meaning
  <2>5. UNCHANGED Settings!Store!vars
    BY <1>1, <1>2, <2>1 DEF Settings!Store!vars
  <2> QED
    BY <2>2, <2>3, <2>4, <2>5 DEF SetupInv, StoreStep
<1> QED
  BY <1>3, <1>4

(* The file is written whole, or it cannot be read.                        *)
LEMMA WriteKeeps ==
  ASSUME SetupInv, Settings!WriteFile
  PROVE  SetupInv' /\ StoreStep
<1>0. SetupTypes /\ ScreenInv /\ FileInv
  BY DEF SetupInv
<1>1. /\ phase = "opened" /\ phase' = "leaving"
      /\ card' = card /\ settings' = settings /\ backup' = backup
      /\ changed' = changed /\ mounted' = mounted
  BY DEF Settings!WriteFile
<1>2. \/ file' = Settings!Layout(5, settings) /\ saved' = settings
      \/ file' \in {<<>>, <<5>>} /\ saved' = saved /\ saved = Unsaved
  BY <1>0, <1>1 DEF Settings!WriteFile, Settings!Version, ScreenInv
<1>3. SetupTypes'
  BY <1>0, <1>1, <1>2 DEF SetupTypes
<1>4. ScreenInv'
  BY <1>1, <1>2 DEF ScreenInv
<1>5. FileInv'
  <2>1. saved' = Meaning(file')
    BY <1>0, <1>2, FileFacts DEF SetupTypes
  <2> QED
    BY <2>1 DEF FileInv, Meaning
<1>6. /\ Settings!Phase' = Settings!Phase /\ Settings!Phase \in {"setup", "menu"}
      /\ card \in Settings!Cards /\ Settings!Keeps(card)
  BY <1>0, <1>1 DEF Settings!Phase, ScreenInv, SetupTypes
<1>7. Settings!Store!Saving
  BY <1>1, <1>2, <1>6 DEF Settings!Store!Saving, Unsaved
<1> QED
  BY <1>3, <1>4, <1>5, <1>7 DEF SetupInv, StoreStep, Settings!Store!Next

(* The drives are opened on what the settings name, and the machine runs.  *)
LEMMA ReloadKeeps ==
  ASSUME SetupInv, Settings!media_reload \/ Settings!CloseMenu
  PROVE  SetupInv' /\ StoreStep
<1>0. SetupTypes /\ ScreenInv /\ FileInv
  BY DEF SetupInv
<1>1. /\ phase = "leaving" \/ (phase = "menu" /\ ~changed)
      /\ phase' = "running" /\ changed' \in BOOLEAN
      /\ card' = card /\ settings' = settings /\ backup' = backup
      /\ file' = file /\ saved' = saved
      /\ mounted' = Settings!Disks(card, settings)
  <2>1. CASE Settings!media_reload
    <3>1. phase = "leaving" /\ changed' = FALSE
      BY <2>1 DEF Settings!media_reload
    <3>2. changed' \in BOOLEAN
      BY <3>1
    <3>3. phase = "leaving" \/ (phase = "menu" /\ ~changed)
      BY <3>1
    <3> QED
      BY <2>1, <3>2, <3>3 DEF Settings!media_reload
  <2>2. CASE Settings!CloseMenu
    <3>1. phase = "menu" /\ ~changed
      BY <2>2 DEF Settings!CloseMenu
    <3>2. Untouched /\ changed \in BOOLEAN
      BY <1>0, <3>1 DEF ScreenInv, SetupTypes
    <3> QED
      BY <2>2, <3>1, <3>2 DEF Settings!CloseMenu, Untouched
  <2> QED
    BY <2>1, <2>2
<1>2. SetupTypes'
  BY <1>0, <1>1 DEF SetupTypes
<1>3. ScreenInv'
  BY <1>1 DEF ScreenInv
<1>4. FileInv'
  BY <1>0, <1>1 DEF FileInv, Meaning
<1>5. Settings!Keeps(card) => settings \in {backup, saved} \/ saved = Unsaved
  BY <1>0, <1>1 DEF ScreenInv, Untouched
<1>6. Settings!Phase \in {"setup", "menu"} /\ Settings!Phase' = "running"
  BY <1>1 DEF Settings!Phase
<1>7. Settings!Store!Run
  BY <1>1, <1>5, <1>6 DEF Settings!Store!Run, Unsaved
<1> QED
  BY <1>2, <1>3, <1>4, <1>7 DEF SetupInv, StoreStep, Settings!Store!Next

(* The drive menu opens on a stopped machine.                              *)
LEMMA OpenMenuKeeps ==
  ASSUME SetupInv, Settings!OpenMenu
  PROVE  SetupInv' /\ StoreStep
<1>0. SetupTypes /\ ScreenInv /\ FileInv
  BY DEF SetupInv
<1>1. /\ phase = "running" /\ phase' = "menu" /\ changed' = FALSE
      /\ card' = card /\ settings' = settings /\ backup' = settings
      /\ file' = file /\ saved' = saved /\ mounted' = mounted
  BY DEF Settings!OpenMenu
<1>2. SetupTypes'
  BY <1>0, <1>1 DEF SetupTypes
<1>3. ScreenInv'
  BY <1>0, <1>1 DEF ScreenInv, Untouched
<1>4. FileInv'
  BY <1>0, <1>1 DEF FileInv, Meaning
<1>5. Settings!Store!OpenMenu
  BY <1>1 DEF Settings!Store!OpenMenu, Settings!Phase
<1> QED
  BY <1>2, <1>3, <1>4, <1>5 DEF SetupInv, StoreStep, Settings!Store!Next

(* Every step keeps the invariant and is one of the store's.               *)
LEMMA SetupKeeps ==
  ASSUME SetupInv, Settings!Next \/ UNCHANGED setup_vars
  PROVE  SetupInv' /\ StoreStep
<1>1. CASE UNCHANGED setup_vars
  <2>1. SetupTypes' /\ ScreenInv' /\ FileInv'
    BY <1>1 DEF setup_vars, SetupInv, SetupTypes, ScreenInv, Untouched, FileInv,
                Meaning
  <2>2. UNCHANGED Settings!Store!vars
    BY <1>1 DEF setup_vars, Settings!Store!vars, Settings!Phase
  <2> QED
    BY <2>1, <2>2 DEF SetupInv, StoreStep
<1>2. CASE \E c \in Settings!Cards, wants \in BOOLEAN : Settings!PowerOn(c, wants)
  BY <1>2, PowerOnKeeps
<1>3. CASE phase = "browser" /\ \E e \in Settings!Listed(browse.dir) :
              Settings!Enter(e) \/ Settings!Pick(e)
  BY <1>3, BrowsingKeeps, PickKeeps
<1> QED
  BY <1>1, <1>2, <1>3, PowerOffKeeps, EditKeeps, BrowsingKeeps, DiscardKeeps,
     OpenKeeps, WriteKeeps, ReloadKeeps, OpenMenuKeeps DEF Settings!Next

(* The settings are what was last saved, for any drives, cards and images: *)
(* through older files, edits, ESC, a save that fails and a power cut      *)
(* anywhere (setup_menu.c, osd.c).                                         *)
THEOREM SettingsAreKept == DevicesSpec => ImplementsSettingsStore
<1>1. DevicesInit => SetupInv /\ Settings!Store!Init
  BY SetupInit
<1>2. SetupInv /\ [DevicesNext]_all_vars => SetupInv' /\ StoreStep
  BY OneAtATime, SetupKeeps
<1>3. StoreStep <=> [Settings!Store!Next]_(Settings!Store!vars)
  BY DEF StoreStep
<1> QED
  BY <1>1, <1>2, <1>3, PTL
     DEF DevicesSpec, ImplementsSettingsStore, Settings!ImplementsSettingsStore,
         Settings!Store!Spec

-----------------------------------------------------------------------------
(* The editor of the date.                                                 *)
EditedInv == date \in Date!Dates /\ Date!rtc_time_valid(date)

(* A month has 28 to 31 days.                                              *)
LEMMA DaysInMonth ==
  \A y \in Date!Years, m \in 1 .. 12 : Date!rtc_days_in_month(y, m) \in 28 .. 31
<1> SUFFICES ASSUME NEW y \in Date!Years, NEW m \in 1 .. 12
             PROVE  Date!rtc_days_in_month(y, m) \in 28 .. 31
  OBVIOUS
<1>1. Date!Len12[m] \in 28 .. 31
  BY DEF Date!Len12
<1> QED
  BY <1>1 DEF Date!rtc_days_in_month

(* Every key leaves a date that the chip accepts (clock_adjust).           *)
LEMMA EditedInvariance == DevicesSpec => []EditedInv
<1> USE DEF Date!Years, Date!FirstYear, Date!LastYear
<1>0. DayLength \in Nat /\ DayLength > 0
  BY DevicesAssumption DEF Date!CalendarAssumption
<1>1. DevicesInit => EditedInv
  <2> SUFFICES ASSUME date = [year |-> 2026, mon |-> 1, day |-> 1, sec |-> 0]
               PROVE  EditedInv
    BY DEF DevicesInit, Date!Init
  <2>1. Date!rtc_days_in_month(2026, 1) \in 28 .. 31
    BY DaysInMonth
  <2> QED
    BY <1>0, <2>1 DEF EditedInv, Date!Dates, Date!rtc_time_valid
<1>2. ASSUME EditedInv, NEW field \in Date!Fields, NEW dir \in {"up", "down"},
             Date!Edit(field, dir)
      PROVE  EditedInv'
  <2> DEFINE u == IF dir = "up" THEN 1 ELSE 0
  <2>0. /\ date.year \in 2000 .. 2099 /\ date.mon \in 1 .. 12
        /\ date.day \in 1 .. 31 /\ date.sec \in 0 .. DayLength - 1
        /\ date = [year |-> date.year, mon |-> date.mon, day |-> date.day,
                   sec |-> date.sec]
    BY <1>2 DEF EditedInv, Date!Dates
  <2>1. \E edited \in [year : 2000 .. 2099, mon : 1 .. 12, day : 1 .. 32,
                  sec : 0 .. DayLength - 1] : date' = Date!Clipped(edited)
    <3>1. Date!rtc_days_in_month(date.year, date.mon) \in 28 .. 31
      BY <2>0, DaysInMonth
    <3>2. /\ (date.sec + 1) % DayLength \in 0 .. DayLength - 1
          /\ (date.sec + DayLength - 1) % DayLength \in 0 .. DayLength - 1
      BY <1>0, <2>0
    <3>3. CASE field = "year"
      BY <1>2, <2>0, <3>3 DEF Date!Edit, Date!clock_adjust, Date!Around
    <3>4. CASE field = "mon"
      BY <1>2, <2>0, <3>4 DEF Date!Edit, Date!clock_adjust, Date!Around
    <3>5. CASE field = "day"
      BY <1>2, <2>0, <3>1, <3>5 DEF Date!Edit, Date!clock_adjust, Date!Around
    <3>6. CASE field = "sec"
      BY <1>2, <2>0, <3>2, <3>6 DEF Date!Edit, Date!clock_adjust, Date!Around
    <3> QED
      BY <1>2, <3>3, <3>4, <3>5, <3>6 DEF Date!Fields
  <2>2. PICK edited \in [year : 2000 .. 2099, mon : 1 .. 12, day : 1 .. 32,
                   sec : 0 .. DayLength - 1] : date' = Date!Clipped(edited)
    BY <2>1
  <2>3. Date!rtc_days_in_month(edited.year, edited.mon) \in 28 .. 31
    BY DaysInMonth
  <2> QED
    BY <1>0, <2>2, <2>3 DEF EditedInv, Date!Clipped, Date!Dates, Date!rtc_time_valid
<1>3. EditedInv /\ [DevicesNext]_all_vars => EditedInv'
  <2> SUFFICES ASSUME EditedInv, [DevicesNext]_all_vars PROVE EditedInv'
    OBVIOUS
  <2>1. CASE Date!Next
    BY <1>2, <2>1 DEF Date!Next
  <2>2. CASE UNCHANGED date
    BY <2>2 DEF EditedInv, Date!rtc_time_valid
  <2> QED
    BY <2>1, <2>2, OneAtATime
<1> QED
  BY <1>1, <1>3, PTL DEF DevicesSpec

(* Whatever keys are pressed, the date is one that the chip accepts:       *)
(* ENTER never fails on it (clock_adjust, setup_menu.c 497-517).           *)
THEOREM EditedDateIsValid == DevicesSpec => []Date!rtc_time_valid(date)
<1>1. EditedInv => Date!rtc_time_valid(date)
  BY DEF EditedInv
<1> QED
  BY <1>1, EditedInvariance, PTL

-----------------------------------------------------------------------------
(* The calendar.                                                           *)

(* A set of numbers that is not empty has a least member.                  *)
LEMMA Least ==
  ASSUME NEW T \in SUBSET Nat, T # {}
  PROVE  \E x \in T : \A y \in T : x <= y
<1> DEFINE R == {ss \in Nat \X Nat : ss[1] < ss[2]}
<1>1. IsWellFoundedOn(R, Nat)
  BY NatLessThanWellFounded DEF OpToRel
<1>2. \E x \in T : \A y \in T : <<y, x>> \notin R
  <2> HIDE DEF R
  <2> QED BY <1>1, WFMin
<1>3. \A x, y \in Nat : <<y, x>> \notin R => x <= y
  <2>1. \A x, y \in Nat : y < x => <<y, x>> \in R
    OBVIOUS
  <2> HIDE DEF R
  <2> QED BY <2>1
<1> HIDE DEF R
<1> QED
  BY <1>2, <1>3

(* A number put together from a quotient and a remainder.                  *)
LEMMA QuotientBack ==
  ASSUME NEW D \in Nat \ {0}, NEW n \in Nat, NEW s \in 0 .. D - 1
  PROVE  ((n * D) + s) \div D = n /\ ((n * D) + s) % D = s
  OBVIOUS

(* Between 2000 and 2099 every fourth year is leap: 2000 is, by the third  *)
(* rule.                                                                   *)
LEMMA LeapYears == \A y \in Date!Years : Date!Leap(y) <=> y % 4 = 0
  BY DEF Date!Leap, Date!Years, Date!FirstYear, Date!LastYear

(* The days before a year, and the days of a year before a month, without  *)
(* counting them.                                                          *)
Elapsed(y) == LET n == y - Date!FirstYear IN (365 * n) + ((n + 3) \div 4)
YearStarts == Date!FirstYear .. Date!LastYear + 1

(* From one year to the next.                                              *)
LEMMA YearStep ==
  ASSUME NEW y \in Date!FirstYear + 1 .. Date!LastYear + 1
  PROVE  Elapsed(y) = Elapsed(y - 1) + (IF Date!Leap(y - 1) THEN 366 ELSE 365)
  BY DEF Elapsed, Date!Leap, Date!FirstYear, Date!LastYear

(* DaysBeforeYear is the function its definition describes: there is one.  *)
LEMMA YearsDef ==
  Date!DaysBeforeYear = [y \in YearStarts |->
     IF y = Date!FirstYear THEN 0
     ELSE Date!DaysBeforeYear[y - 1]
            + (IF Date!Leap(y - 1) THEN 366 ELSE 365)]
<1> DEFINE Eq(f) == f = [y \in YearStarts |-> IF y = Date!FirstYear THEN 0
              ELSE f[y - 1] + (IF Date!Leap(y - 1) THEN 366 ELSE 365)]
           g == [y \in YearStarts |-> Elapsed(y)]
<1>1. Eq(g)
  <2>1. Elapsed(Date!FirstYear) = 0
    BY DEF Elapsed, Date!FirstYear
  <2>2. \A y \in YearStarts : y # Date!FirstYear =>
         y - 1 \in YearStarts /\ y \in Date!FirstYear + 1 .. Date!LastYear + 1
    BY DEF YearStarts, Date!FirstYear, Date!LastYear
  <2> QED BY <2>1, <2>2, YearStep
<1>2. Date!DaysBeforeYear = CHOOSE f : Eq(f)
  BY DEF Date!DaysBeforeYear, YearStarts
<1> HIDE DEF g
<1>3. Eq(Date!DaysBeforeYear)
  <2> HIDE DEF Eq
  <2> QED BY <1>1, <1>2
<1> QED
  BY <1>3

(* The loop over the years counts the days before each (ds3231.c,          *)
(* rtc_to_epoch); by its first year that would be wrong.                   *)
LEMMA YearsCounted ==
  \A y \in YearStarts : Date!DaysBeforeYear[y] = Elapsed(y)
<1> DEFINE T == {y \in YearStarts : Date!DaysBeforeYear[y] # Elapsed(y)}
<1>1. SUFFICES ASSUME T # {} PROVE FALSE
  OBVIOUS
<1>2. /\ YearStarts \subseteq Nat
      /\ Date!FirstYear \in YearStarts /\ Date!FirstYear \in Nat
      /\ \A y \in YearStarts \ {Date!FirstYear} :
           /\ y - 1 \in YearStarts /\ ~(y <= y - 1)
           /\ y \in Date!FirstYear + 1 .. Date!LastYear + 1
  BY DEF YearStarts, Date!FirstYear, Date!LastYear
<1>3. PICK y \in T : \A x \in T : y <= x
  <2> HIDE DEF T
  <2>1. T \in SUBSET Nat
    BY <1>2 DEF T
  <2> QED BY <1>1, <2>1, Least
<1>4. CASE y = Date!FirstYear
  BY <1>2, <1>3, <1>4, YearsDef DEF Elapsed, Date!FirstYear
<1>5. CASE y # Date!FirstYear
  <2>1. Date!DaysBeforeYear[y - 1] = Elapsed(y - 1)
    BY <1>2, <1>3, <1>5
  <2>2. Date!DaysBeforeYear[y] = Elapsed(y)
    BY <1>2, <1>3, <1>5, <2>1, YearsDef, YearStep
  <2> QED BY <1>3, <2>2
<1> QED BY <1>4, <1>5

(* The same, for a year and the one after it.                              *)
LEMMA YearTable ==
  \A y \in Date!Years : /\ Date!DaysBeforeYear[y] = Elapsed(y)
                   /\ Date!DaysBeforeYear[y + 1] = Elapsed(y + 1)
<1>1. \A y \in Date!Years : y \in YearStarts /\ y + 1 \in YearStarts
  BY DEF YearStarts, Date!Years, Date!FirstYear, Date!LastYear
<1> QED
  BY <1>1, YearsCounted

Ahead(y, m) ==
  <<0, 31, 59, 90, 120, 151, 181, 212, 243, 273, 304, 334, 365>>[m]
  + (IF m > 2 /\ Date!Leap(y) THEN 1 ELSE 0)

(* From one month to the next.                                             *)
LEMMA MonthStep ==
  ASSUME NEW y \in Date!Years, NEW m \in 2 .. 13
  PROVE  Ahead(y, m) = Ahead(y, m - 1) + Date!rtc_days_in_month(y, m - 1)
  BY DEF Ahead, Date!rtc_days_in_month, Date!Len12

(* The loop over the months counts the days before each.                   *)
LEMMA MonthsCounted ==
  \A y \in Date!Years, m \in 1 .. 13 :
    Date!DaysBeforeMonth(y, m) = Ahead(y, m)
<1> SUFFICES ASSUME NEW y \in Date!Years
             PROVE  \A m \in 1 .. 13 :
                      Date!DaysBeforeMonth(y, m) = Ahead(y, m)
  OBVIOUS
<1> DEFINE Eq(f) == f = [k \in 1 .. 13 |->
              IF k = 1 THEN 0
              ELSE f[k - 1] + Date!rtc_days_in_month(y, k - 1)]
           g == [k \in 1 .. 13 |-> Ahead(y, k)]
           before == CHOOSE f : Eq(f)
<1>1. /\ Ahead(y, 1) = 0
      /\ \A k \in 1 .. 13 : k # 1 => k - 1 \in 1 .. 13 /\ k \in 2 .. 13
  BY DEF Ahead
<1>2. Eq(g)
  BY <1>1, MonthStep
<1>3. Eq(before)
  <2> HIDE DEF Eq, g
  <2> QED BY <1>2
<1>4. \A m \in 1 .. 13 : Date!DaysBeforeMonth(y, m) = before[m]
  BY DEF Date!DaysBeforeMonth
<1> HIDE DEF before
<1> DEFINE T == {m \in 1 .. 13 : before[m] # Ahead(y, m)}
<1>5. ASSUME T # {} PROVE FALSE
  <2>1. PICK m \in T : \A n \in T : m <= n
    <3>1. T \in SUBSET Nat
      OBVIOUS
    <3> HIDE DEF T
    <3> QED BY <1>5, <3>1, Least
  <2>2. CASE m = 1
    BY <1>1, <1>3, <2>1, <2>2
  <2>3. CASE m # 1
    <3>1. m - 1 \in 1 .. 13 /\ m \in 2 .. 13 /\ ~(m <= m - 1)
      BY <2>1, <2>3
    <3>2. before[m - 1] = Ahead(y, m - 1)
      BY <2>1, <3>1
    <3>3. before[m] = before[m - 1] + Date!rtc_days_in_month(y, m - 1)
      BY <1>3, <2>3, <3>1
    <3> QED BY <2>1, <3>1, <3>2, <3>3, MonthStep
  <2> QED BY <2>2, <2>3
<1> QED BY <1>4, <1>5

(* The number of a day since 2000-01-01 = 0.                               *)
Count(u) == Elapsed(u.year) + Ahead(u.year, u.mon) + u.day - 1
ValidDates == {u \in Date!Dates : Date!rtc_time_valid(u)}

(* What a date is made of.                                                 *)
LEMMA DateIsRecord ==
  ASSUME NEW u \in ValidDates
  PROVE  /\ u.year \in Date!Years /\ u.mon \in 1 .. 12 /\ u.day \in 1 .. 31
         /\ u.day <= Date!rtc_days_in_month(u.year, u.mon)
         /\ u.sec \in 0 .. DayLength - 1
         /\ u = [year |-> u.year, mon |-> u.mon, day |-> u.day, sec |-> u.sec]
  BY DEF ValidDates, Date!Dates, Date!rtc_time_valid

(* The two loops together number the days.                                 *)
LEMMA DaysCounted == \A u \in ValidDates : Date!DayNumber(u) = Count(u)
<1> SUFFICES ASSUME NEW u \in ValidDates PROVE Date!DayNumber(u) = Count(u)
  OBVIOUS
<1>1. u.year \in Date!Years /\ u.year \in YearStarts /\ u.mon \in 1 .. 13
  BY DateIsRecord DEF Date!Years, YearStarts, Date!FirstYear, Date!LastYear
<1> QED
  BY <1>1, YearsCounted, MonthsCounted DEF Date!DayNumber, Count

(* No day comes before the first.                                          *)
LEMMA DayRange == \A u \in ValidDates : Count(u) \in Nat
<1> SUFFICES ASSUME NEW u \in ValidDates PROVE Count(u) \in Nat
  OBVIOUS
<1>1. u.year \in Date!Years /\ u.mon \in 1 .. 12 /\ u.day \in 1 .. 31
  BY DateIsRecord
<1>2. Elapsed(u.year) \in Nat /\ Ahead(u.year, u.mon) \in Nat
  BY <1>1 DEF Elapsed, Ahead, Date!Years, Date!FirstYear, Date!LastYear
<1> QED
  BY <1>1, <1>2 DEF Count

(* The days in a month, as everybody knows them.                           *)
LEMMA LastIsLast ==
  ASSUME NEW u \in ValidDates
  PROVE  Date!LastOf(u) = Date!rtc_days_in_month(u.year, u.mon)
<1>1. u.mon \in 1 .. 12 /\ u.year \in Date!Years
  BY DateIsRecord
<1>2. u.mon # 2 =>
        Date!Len12[u.mon] = IF u.mon \in Date!ShortMonths THEN 30 ELSE 31
  BY <1>1 DEF Date!Len12, Date!ShortMonths
<1>3. Date!Len12[2] = 28
  BY DEF Date!Len12
<1> QED
  BY <1>1, <1>2, <1>3, LeapYears
     DEF Date!LastOf, Date!rtc_days_in_month, Date!ShortMonths

(* The day after a date is a date, and its number is the next.             *)
LEMMA NextDay ==
  ASSUME NEW u \in ValidDates, ~Date!LastDate(u)
  PROVE  /\ Date!Tomorrow(u) \in ValidDates
         /\ Count(Date!Tomorrow(u)) = Count(u) + 1
<1> DEFINE n == Date!Tomorrow(u)
           dim == Date!rtc_days_in_month(u.year, u.mon)
<1>1. /\ u.year \in Date!Years /\ u.mon \in 1 .. 12 /\ u.day \in 1 .. 31
      /\ u.day <= dim /\ u.sec \in 0 .. DayLength - 1
      /\ u = [year |-> u.year, mon |-> u.mon, day |-> u.day, sec |-> u.sec]
  BY DateIsRecord
<1>2. u \in Date!Dates
  BY DEF ValidDates
<1>3. dim \in 28 .. 31
  BY <1>1, DaysInMonth
<1>4. u.sec < DayLength
  BY DEF ValidDates, Date!rtc_time_valid
<1>5. Date!LastOf(u) = dim
  BY LastIsLast
<1> HIDE DEF dim
<1>6. CASE u.day < dim
  <2>1. n = [year |-> u.year, mon |-> u.mon, day |-> u.day + 1, sec |-> u.sec]
    BY <1>2, <1>1, <1>5, <1>6 DEF Date!Tomorrow, Date!Dates
  <2>2. n \in ValidDates
    BY <1>1, <1>3, <1>4, <1>6, <2>1
       DEF ValidDates, Date!Dates, Date!rtc_time_valid, dim
  <2>3. Elapsed(u.year) \in Nat /\ Ahead(u.year, u.mon) \in Nat
    BY <1>1 DEF Elapsed, Ahead, Date!Years, Date!FirstYear, Date!LastYear
  <2> QED
    BY <1>1, <2>1, <2>2, <2>3 DEF Count
<1>7. CASE u.day = dim /\ u.mon < 12
  <2>1. n = [year |-> u.year, mon |-> u.mon + 1, day |-> 1, sec |-> u.sec]
    <3>1. n = [u EXCEPT !.day = 1, !.mon = @ + 1]
      BY <1>1, <1>3, <1>5, <1>7 DEF Date!Tomorrow
    <3> QED
      BY <1>1, <3>1
  <2>2. Date!rtc_days_in_month(u.year, u.mon + 1) \in 28 .. 31
    BY <1>1, <1>7, DaysInMonth
  <2>3. n \in ValidDates
    BY <1>1, <1>4, <1>7, <2>1, <2>2
       DEF ValidDates, Date!Dates, Date!rtc_time_valid
  <2>4. Elapsed(u.year) \in Nat /\ Ahead(u.year, u.mon) \in Nat
    BY <1>1 DEF Elapsed, Ahead, Date!Years, Date!FirstYear, Date!LastYear
  <2>5. Ahead(u.year, u.mon + 1) = Ahead(u.year, u.mon) + dim
    <3>1. u.mon + 1 \in 2 .. 13 /\ (u.mon + 1) - 1 = u.mon
      BY <1>1
    <3> QED
      BY <1>1, <3>1, MonthStep DEF dim
  <2> QED
    BY <1>1, <1>3, <1>7, <2>1, <2>3, <2>4, <2>5 DEF Count
<1>8. CASE u.day = dim /\ u.mon = 12
  <2>1. n = [year |-> u.year + 1, mon |-> 1, day |-> 1, sec |-> u.sec]
    <3>1. n = [u EXCEPT !.day = 1, !.mon = 1, !.year = @ + 1]
      BY <1>1, <1>3, <1>5, <1>8 DEF Date!Tomorrow
    <3> QED
      BY <1>1, <3>1
  <2>2. dim = 31
    BY <1>8 DEF dim, Date!rtc_days_in_month, Date!Len12
  <2>3. /\ u.year + 1 \in Date!Years
        /\ u.year + 1 \in Date!FirstYear + 1 .. Date!LastYear + 1
    BY <1>1, <1>8, <2>2
       DEF Date!LastDate, Date!Years, Date!FirstYear, Date!LastYear
  <2>4. Date!rtc_days_in_month(u.year + 1, 1) = 31
    BY DEF Date!rtc_days_in_month, Date!Len12
  <2>5. n \in ValidDates
    BY <1>1, <1>4, <2>1, <2>3, <2>4
       DEF ValidDates, Date!Dates, Date!rtc_time_valid
  <2>6. Elapsed(u.year + 1) =
          Elapsed(u.year) + (IF Date!Leap(u.year) THEN 366 ELSE 365)
    BY <1>1, <2>3, YearStep DEF Date!Years, Date!FirstYear, Date!LastYear
  <2>7. /\ Ahead(u.year, 12) = 334 + (IF Date!Leap(u.year) THEN 1 ELSE 0)
        /\ Ahead(u.year + 1, 1) = 0
    BY DEF Ahead
  <2>8. Elapsed(u.year) \in Nat
    BY <1>1 DEF Elapsed, Date!Years, Date!FirstYear, Date!LastYear
  <2> QED
    BY <1>8, <2>1, <2>2, <2>5, <2>6, <2>7, <2>8 DEF Count
<1> QED
  BY <1>1, <1>3, <1>6, <1>7, <1>8

(* So it comes DayLength seconds later, and on the next day of the week.   *)
LEMMA TomorrowCounted ==
  ASSUME Date!CalendarAssumption, NEW u \in ValidDates, ~Date!LastDate(u)
  PROVE  /\ Date!rtc_to_epoch(Date!Tomorrow(u)) =
              Date!rtc_to_epoch(u) + DayLength
         /\ Date!rtc_day_of_week(Date!Tomorrow(u)) =
              (Date!rtc_day_of_week(u) % 7) + 1
<1>1. Date!Tomorrow(u).sec = u.sec
  BY DEF Date!Tomorrow, ValidDates, Date!Dates
<1>2. /\ Date!Tomorrow(u) \in ValidDates
      /\ u.sec \in Nat /\ DayLength \in Nat /\ Count(u) \in Nat
  BY NextDay, DayRange, DateIsRecord DEF Date!CalendarAssumption
<1>3. /\ Date!DayNumber(u) = Count(u)
      /\ Date!DayNumber(Date!Tomorrow(u)) = Count(u) + 1
  BY <1>2, DaysCounted, NextDay
<1>4. \A d \in Nat : (d + 1) * DayLength = d * DayLength + DayLength
                     /\ d * DayLength \in Nat
  BY <1>2
<1>5. Date!rtc_to_epoch(Date!Tomorrow(u)) = Date!rtc_to_epoch(u) + DayLength
  <2>1. Date!rtc_to_epoch(u) = (Count(u) * DayLength) + u.sec
    BY <1>3 DEF Date!rtc_to_epoch
  <2>2. Date!rtc_to_epoch(Date!Tomorrow(u)) =
          ((Count(u) + 1) * DayLength) + u.sec
    BY <1>1, <1>3 DEF Date!rtc_to_epoch
  <2> QED
    BY <1>2, <1>4, <2>1, <2>2
<1>6. Date!rtc_day_of_week(Date!Tomorrow(u)) =
        (Date!rtc_day_of_week(u) % 7) + 1
  BY <1>2, <1>3 DEF Date!rtc_day_of_week
<1> QED
  BY <1>5, <1>6

(* 29 February 2000 was a Tuesday.                                         *)
LEMMA TuesdayFound ==
  ASSUME NEW u \in ValidDates, u.year = 2000, u.mon = 2, u.day = 29
  PROVE  Date!rtc_day_of_week(u) = 3
<1>1. Count(u) = 59
  BY DEF Count, Elapsed, Ahead, Date!FirstYear
<1> QED
  BY <1>1, DaysCounted DEF Date!rtc_day_of_week

(* A year starts at most 25 days later than 365 days a year would make it. *)
LEMMA YearBounds ==
  \A y \in Date!Years : /\ Elapsed(y) \in Nat /\ Elapsed(y + 1) \in Nat
                   /\ 365 * (y - Date!FirstYear) <= Elapsed(y)
                   /\ Elapsed(y) <= (365 * (y - Date!FirstYear)) + 25
  BY DEF Elapsed, Date!Years, Date!FirstYear, Date!LastYear

(* A year ends where its twelfth month does.                               *)
LEMMA YearLength ==
  \A y \in Date!Years : Elapsed(y + 1) = Elapsed(y) + Ahead(y, 13)
<1> SUFFICES ASSUME NEW y \in Date!Years
             PROVE  Elapsed(y + 1) = Elapsed(y) + Ahead(y, 13)
  OBVIOUS
<1>1. y + 1 \in Date!FirstYear + 1 .. Date!LastYear + 1 /\ (y + 1) - 1 = y
  BY DEF Date!Years, Date!FirstYear, Date!LastYear
<1>2. Ahead(y, 13) = IF Date!Leap(y) THEN 366 ELSE 365
  BY DEF Ahead
<1>3. Elapsed(y + 1) = Elapsed(y) + (IF Date!Leap(y) THEN 366 ELSE 365)
  BY <1>1, YearStep
<1> QED
  BY <1>2, <1>3

(* A later year starts when an earlier one has ended.                      *)
LEMMA YearsGrow ==
  \A y, z \in Date!Years : y < z => Elapsed(y + 1) <= Elapsed(z)
  BY DEF Elapsed, Date!Years, Date!FirstYear, Date!LastYear

(* A month starts within the 366 days of its year.                         *)
LEMMA MonthBounds ==
  \A y \in Date!Years, m \in 1 .. 13 : Ahead(y, m) \in 0 .. 366
  BY DEF Ahead

(* A later month starts no earlier.                                        *)
LEMMA MonthsGrow ==
  \A y \in Date!Years, m, n \in 1 .. 13 : m <= n => Ahead(y, m) <= Ahead(y, n)
  BY DEF Ahead

(* A date lies in its year, in its month, and its day is what is left.     *)
LEMMA WithinYear ==
  ASSUME NEW u \in ValidDates
  PROVE  LET rest == Count(u) - Elapsed(u.year)
         IN  /\ rest \in 0 .. 365 /\ Count(u) = Elapsed(u.year) + rest
             /\ rest - Ahead(u.year, u.mon) + 1 = u.day
             /\ Ahead(u.year, u.mon) <= rest
             /\ rest < Ahead(u.year, u.mon + 1)
             /\ Ahead(u.year, u.mon + 1) <= Ahead(u.year, 13)
<1>1. /\ u.year \in Date!Years /\ u.mon \in 1 .. 12 /\ u.day \in 1 .. 31
      /\ u.day <= Date!rtc_days_in_month(u.year, u.mon)
  BY DateIsRecord
<1>2. /\ u.mon + 1 \in 2 .. 13 /\ (u.mon + 1) - 1 = u.mon /\ u.mon \in 1 .. 13
      /\ u.mon + 1 \in 1 .. 13 /\ u.mon + 1 <= 13 /\ 13 \in 1 .. 13
  BY <1>1
<1>3. Ahead(u.year, u.mon + 1) =
        Ahead(u.year, u.mon) + Date!rtc_days_in_month(u.year, u.mon)
  BY <1>1, <1>2, MonthStep
<1>4. Date!rtc_days_in_month(u.year, u.mon) \in 28 .. 31
  BY <1>1, DaysInMonth
<1>5. Ahead(u.year, u.mon) \in 0 .. 366 /\ Ahead(u.year, 13) \in 0 .. 366
  BY <1>1, <1>2, MonthBounds
<1>6. Ahead(u.year, u.mon + 1) <= Ahead(u.year, 13)
  BY <1>1, <1>2, MonthsGrow
<1>7. Elapsed(u.year) \in Nat
  BY <1>1, YearBounds
<1>8. \A e, a \in Nat, d \in 1 .. 31 :
        LET n == e + a + d - 1
        IN  /\ n - e \in Nat /\ n = e + (n - e)
            /\ (n - e) - a + 1 = d /\ a <= n - e /\ n - e = a + (d - 1)
  OBVIOUS
<1> DEFINE rest == Count(u) - Elapsed(u.year)
<1>9. /\ rest \in Nat /\ Count(u) = Elapsed(u.year) + rest
      /\ rest - Ahead(u.year, u.mon) + 1 = u.day
      /\ Ahead(u.year, u.mon) <= rest
      /\ rest = Ahead(u.year, u.mon) + (u.day - 1)
  <2>1. Ahead(u.year, u.mon) \in Nat
    BY <1>5
  <2> QED
    BY <1>1, <1>7, <1>8, <2>1 DEF Count
<1> HIDE DEF rest
<1>10. rest < Ahead(u.year, u.mon + 1) /\ rest <= 365
  <2>1. \A a, l, d, n, s \in Int :
          n = a + l /\ d <= l /\ n <= s /\ s <= 366 =>
            a + (d - 1) < n /\ a + (d - 1) <= 365
    OBVIOUS
  <2>2. /\ Ahead(u.year, u.mon) \in Int
        /\ Date!rtc_days_in_month(u.year, u.mon) \in Int
        /\ Ahead(u.year, u.mon + 1) \in Int /\ Ahead(u.year, 13) \in Int
        /\ Ahead(u.year, 13) <= 366 /\ u.day \in Int
    BY <1>1, <1>3, <1>4, <1>5
  <2>3. u.day <= Date!rtc_days_in_month(u.year, u.mon)
    BY <1>1
  <2>4. /\ Ahead(u.year, u.mon) + (u.day - 1) < Ahead(u.year, u.mon + 1)
        /\ Ahead(u.year, u.mon) + (u.day - 1) <= 365
    BY <1>3, <1>6, <2>1, <2>2, <2>3
  <2> QED
    BY <1>9, <2>4
<1> QED
  BY <1>6, <1>9, <1>10 DEF rest

(* rtc_from_epoch's first loop stops at the year of the date.              *)
LEMMA YearFound ==
  ASSUME NEW u \in ValidDates
  PROVE  Date!YearOf(Count(u)) = u.year
<1> DEFINE latest == Date!FirstYear + (Count(u) \div 365)
           rest == Count(u) - Elapsed(u.year)
           Fits(y) == /\ Date!DaysBeforeYear[y] <= Count(u)
                      /\ Count(u) < Date!DaysBeforeYear[y + 1]
<1>1. /\ u.year \in Date!Years /\ u.mon \in 1 .. 12 /\ u.day \in 1 .. 31
      /\ u.day <= Date!rtc_days_in_month(u.year, u.mon)
  BY DateIsRecord
<1>2. /\ rest \in 0 .. 365 /\ Count(u) = Elapsed(u.year) + rest
      /\ rest < Ahead(u.year, 13)
  <2> DEFINE after == Ahead(u.year, u.mon + 1)
  <2>1. /\ rest \in 0 .. 365 /\ Count(u) = Elapsed(u.year) + rest
        /\ rest < after /\ after <= Ahead(u.year, 13)
    BY WithinYear
  <2>2. after \in 0 .. 366 /\ Ahead(u.year, 13) \in 0 .. 366
    BY <1>1, MonthBounds
  <2> HIDE DEF after
  <2>3. \A r, a, b \in Int : r < a /\ a <= b => r < b
    OBVIOUS
  <2> HIDE DEF rest
  <2> QED
    BY <1>1, <2>1, <2>2, <2>3
<1> HIDE DEF rest
<1>3. \A y \in Date!Years :
        Fits(y) <=> Elapsed(y) <= Count(u) /\ Count(u) < Elapsed(y + 1)
  BY YearTable
<1>4. /\ Elapsed(u.year) \in Nat /\ Elapsed(u.year + 1) \in Nat
      /\ Count(u) \in Nat
      /\ Elapsed(u.year) <= Count(u) /\ Count(u) < Elapsed(u.year + 1)
  <2>1. Elapsed(u.year) \in Nat /\ Elapsed(u.year + 1) \in Nat
    BY <1>1, YearBounds
  <2>2. Elapsed(u.year + 1) = Elapsed(u.year) + Ahead(u.year, 13)
    BY <1>1, YearLength
  <2>3. Ahead(u.year, 13) \in 0 .. 366
    BY <1>1, MonthBounds
  <2> QED
    BY <1>2, <2>1, <2>2, <2>3
<1>5. u.year \in {latest - 1, latest}
  <2>1. /\ 365 * (u.year - Date!FirstYear) <= Elapsed(u.year)
        /\ Elapsed(u.year) <= (365 * (u.year - Date!FirstYear)) + 25
    BY <1>1, YearBounds
  <2>2. /\ u.year - Date!FirstYear \in Nat
        /\ u.year = Date!FirstYear + (u.year - Date!FirstYear)
    BY <1>1 DEF Date!Years, Date!FirstYear, Date!LastYear
  <2>3. \A n, d \in Nat : 365 * n <= d /\ d <= (365 * n) + 390 =>
          d \div 365 \in {n, n + 1}
    OBVIOUS
  <2>4. Count(u) \div 365 \in
          {u.year - Date!FirstYear, (u.year - Date!FirstYear) + 1}
    BY <1>2, <1>4, <2>1, <2>2, <2>3
  <2> QED
    BY <2>2, <2>4 DEF Date!FirstYear
<1>6. \A y \in Date!Years : Fits(y) => y = u.year
  <2> SUFFICES ASSUME NEW y \in Date!Years, Fits(y), y # u.year PROVE FALSE
    OBVIOUS
  <2>1. Elapsed(y) \in Nat /\ Elapsed(y + 1) \in Nat
    BY YearBounds
  <2>2. Elapsed(y) <= Count(u) /\ Count(u) < Elapsed(y + 1)
    BY <1>3
  <2>3. y < u.year \/ u.year < y
    BY <1>1 DEF Date!Years, Date!FirstYear, Date!LastYear
  <2>4. Elapsed(y + 1) <= Elapsed(u.year) \/ Elapsed(u.year + 1) <= Elapsed(y)
    BY <1>1, <2>3, YearsGrow
  <2> QED
    BY <1>4, <2>1, <2>2, <2>4
<1> HIDE DEF Fits, latest
<1>7. u.year = CHOOSE y \in {latest - 1, latest} \cap Date!Years : Fits(y)
  BY <1>1, <1>3, <1>4, <1>5, <1>6
<1> QED
  BY <1>7 DEF Fits, latest, Date!YearOf

(* Its second loop stops at the month.                                     *)
LEMMA MonthFound ==
  ASSUME NEW u \in ValidDates
  PROVE  Date!MonthOf(u.year, Count(u) - Elapsed(u.year)) = u.mon
<1> DEFINE rest == Count(u) - Elapsed(u.year)
           Fits(m) == /\ Date!DaysBeforeMonth(u.year, m) <= rest
                      /\ rest < Date!DaysBeforeMonth(u.year, m + 1)
<1>1. /\ u.year \in Date!Years /\ u.mon \in 1 .. 12 /\ u.day \in 1 .. 31
      /\ u.day <= Date!rtc_days_in_month(u.year, u.mon)
  BY DateIsRecord
<1>2. /\ rest \in 0 .. 365 /\ Ahead(u.year, u.mon) <= rest
      /\ rest < Ahead(u.year, u.mon + 1)
  BY WithinYear
<1> HIDE DEF rest
<1>3. \A m \in 1 .. 12 : m \in 1 .. 13 /\ m + 1 \in 1 .. 13
  OBVIOUS
<1>4. \A m \in 1 .. 12 :
        Fits(m) <=> Ahead(u.year, m) <= rest /\ rest < Ahead(u.year, m + 1)
  BY <1>1, <1>3, MonthsCounted
<1>5. Fits(u.mon)
  BY <1>1, <1>2, <1>4
<1>6. \A m \in 1 .. 12 : Fits(m) => m = u.mon
  <2> SUFFICES ASSUME NEW m \in 1 .. 12, Fits(m), m # u.mon PROVE FALSE
    OBVIOUS
  <2>1. Ahead(u.year, m) <= rest /\ rest < Ahead(u.year, m + 1)
    BY <1>4
  <2>2. Ahead(u.year, u.mon) <= rest /\ rest < Ahead(u.year, u.mon + 1)
    BY <1>1, <1>4, <1>5
  <2>3. m + 1 <= u.mon \/ u.mon + 1 <= m
    BY <1>1
  <2>4. \/ Ahead(u.year, m + 1) <= Ahead(u.year, u.mon)
        \/ Ahead(u.year, u.mon + 1) <= Ahead(u.year, m)
    BY <1>1, <1>3, <2>3, MonthsGrow
  <2> DEFINE a == Ahead(u.year, m)      b == Ahead(u.year, m + 1)
             d == Ahead(u.year, u.mon)  e == Ahead(u.year, u.mon + 1)
  <2>5. a \in Int /\ b \in Int /\ d \in Int /\ e \in Int
    <3>1. \A n \in 1 .. 13 : Ahead(u.year, n) \in Int
      <4>1. \A n \in 1 .. 13 : Ahead(u.year, n) \in 0 .. 366
        BY <1>1, MonthBounds
      <4>2. \A i \in 0 .. 366 : i \in Int
        OBVIOUS
      <4> QED
        BY <4>1, <4>2
    <3> QED
      BY <1>1, <1>3, <3>1
  <2>6. rest \in Int
    BY <1>2
  <2>7. a <= rest /\ rest < b /\ d <= rest /\ rest < e /\ (b <= d \/ e <= a)
    BY <2>1, <2>2, <2>4
  <2> HIDE DEF a, b, d, e
  <2> QED
    BY <2>5, <2>6, <2>7
<1> HIDE DEF Fits
<1>7. u.mon = CHOOSE m \in 1 .. 12 : Fits(m)
  BY <1>1, <1>5, <1>6
<1> QED
  BY <1>7 DEF Fits, rest, Date!MonthOf

(* The seconds of a date are turned back into the date.                    *)
LEMMA EpochBack ==
  ASSUME Date!CalendarAssumption, NEW u \in ValidDates
  PROVE  Date!rtc_from_epoch(Date!rtc_to_epoch(u)) = u
<1> DEFINE secs == Date!rtc_to_epoch(u)
           rest == Count(u) - Elapsed(u.year)
<1>1. /\ u.year \in Date!Years /\ u.mon \in 1 .. 12 /\ u.mon \in 1 .. 13
      /\ u.day \in 1 .. 31 /\ u.sec \in 0 .. DayLength - 1
      /\ Count(u) \in Nat /\ DayLength \in Nat \ {0}
  BY DateIsRecord, DayRange DEF Date!CalendarAssumption
<1>2. secs \div DayLength = Count(u) /\ secs % DayLength = u.sec
  BY <1>1, DaysCounted, QuotientBack DEF Date!rtc_to_epoch
<1>3. Date!YearOf(Count(u)) = u.year /\ Date!MonthOf(u.year, rest) = u.mon
  BY YearFound, MonthFound
<1>4. Date!DaysBeforeYear[u.year] = Elapsed(u.year)
  BY <1>1, YearTable
<1>5. rest - Date!DaysBeforeMonth(u.year, u.mon) + 1 = u.day
  BY <1>1, MonthsCounted, WithinYear
<1>6. Date!rtc_from_epoch(secs) =
        [year |-> u.year, mon |-> u.mon,
         day |-> rest - Date!DaysBeforeMonth(u.year, u.mon) + 1,
         sec |-> u.sec]
  <2> HIDE DEF secs
  <2> QED
    BY <1>2, <1>3, <1>4 DEF Date!rtc_from_epoch
<1> QED
  BY <1>5, <1>6, DateIsRecord

(* A number below 100 survives BCD, and fits a byte.                       *)
LEMMA BcdBack == \A v \in 0 .. 99 : /\ Date!to_bcd(v) \in 0 .. 153
                                    /\ Date!from_bcd(Date!to_bcd(v)) = v
                                    /\ v % 256 = v
  BY DEF Date!to_bcd, Date!from_bcd

(* The second part on its own, which is what most dates need.              *)
LEMMA BcdInverse == \A v \in 0 .. 99 : Date!from_bcd(Date!to_bcd(v)) = v
  BY BcdBack

(* A date survives the guest's registers, in BCD and in binary             *)
(* (mc146818.c, publish and collect).                                      *)
LEMMA RegistersBack ==
  ASSUME NEW u \in ValidDates, NEW binary \in BOOLEAN
  PROVE  Date!collect(Date!publish(u, binary), binary) = u
<1>1. \A v \in 0 .. 99 : Date!dec(Date!enc(v, binary), binary) = v
  BY BcdBack DEF Date!dec, Date!enc
<1>2. /\ u.day \in 0 .. 99 /\ u.mon \in 0 .. 99 /\ u.year % 100 \in 0 .. 99
      /\ u.year \div 100 = 20 /\ 20 \in 0 .. 99
      /\ 2000 + (u.year % 100) = u.year
  BY DateIsRecord DEF Date!Years, Date!FirstYear, Date!LastYear
<1>3. 20 \in 19 .. 21 /\ 20 * 100 = 2000
  OBVIOUS
<1> DEFINE r == Date!publish(u, binary)
<1>4. /\ Date!dec(r.day, binary) = u.day /\ Date!dec(r.mon, binary) = u.mon
      /\ Date!dec(r.year, binary) = u.year % 100
      /\ Date!dec(r.century, binary) = 20
      /\ r.sec = u.sec
  BY <1>1, <1>2 DEF Date!publish
<1> HIDE DEF r
<1>5. Date!collect(r, binary) = [year |-> u.year, mon |-> u.mon,
                                 day |-> u.day, sec |-> u.sec]
  BY <1>2, <1>3, <1>4 DEF Date!collect
<1> QED
  BY <1>5, DateIsRecord DEF r

(* A date survives the chip's registers: no flag bit is taken for a digit, *)
(* and no digit for a flag (ds3231.c, ds3231_write and ds3231_read).       *)
LEMMA ChipBack ==
  ASSUME NEW u \in ValidDates
  PROVE  Date!ds3231_read(Date!ds3231_write(u)) = u
<1>1. \A v \in 0 .. 31 : Date!to_bcd(v) % 64 = Date!to_bcd(v)
  BY DEF Date!to_bcd
<1>2. \A v \in 0 .. 12 : /\ Date!to_bcd(v) % 32 = Date!to_bcd(v)
                         /\ Date!to_bcd(v) \in Nat /\ ~(Date!to_bcd(v) >= 128)
  BY DEF Date!to_bcd
<1>3. /\ u.day \in 0 .. 31 /\ u.day \in 0 .. 99
      /\ u.mon \in 0 .. 12 /\ u.mon \in 0 .. 99
      /\ u.year - 2000 \in 0 .. 99 /\ (u.year - 2000) + 2000 = u.year
      /\ ~(u.year >= 2100)
  BY DateIsRecord DEF Date!Years, Date!FirstYear, Date!LastYear
<1>a. /\ Date!from_bcd(Date!to_bcd(u.mon)) = u.mon
      /\ Date!from_bcd(Date!to_bcd(u.day)) = u.day
  <2>1. u.day \in 0 .. 99 /\ u.mon \in 0 .. 99
    BY <1>3
  <2> QED
    BY <2>1, BcdInverse
<1> DEFINE r == Date!ds3231_write(u)
<1>4. /\ r.day = Date!to_bcd(u.day) /\ r.mon = Date!to_bcd(u.mon)
      /\ r.year = Date!to_bcd(u.year - 2000) /\ r.sec = u.sec
  BY <1>2, <1>3 DEF Date!ds3231_write
<1> HIDE DEF r
<1>5. Date!ds3231_read(r) = [year |-> u.year, mon |-> u.mon,
                             day |-> u.day, sec |-> u.sec]
  <2>1. ~(r.mon >= 128)
    BY <1>2, <1>3, <1>4
  <2>2. r.mon % 32 = Date!to_bcd(u.mon)
    BY <1>2, <1>3, <1>4
  <2>3. Date!from_bcd(r.mon % 32) = u.mon
    BY <2>2, <1>a
  <2>4. r.day % 64 = Date!to_bcd(u.day)
    BY <1>1, <1>3, <1>4
  <2>5. Date!from_bcd(r.day % 64) = u.day
    BY <2>4, <1>a
  <2>6. Date!from_bcd(r.year) = u.year - 2000
    <3> DEFINE y == u.year - 2000
    <3>1. y \in 0 .. 99 /\ r.year = Date!to_bcd(y)
      BY <1>3, <1>4
    <3> HIDE DEF y
    <3>2. Date!from_bcd(r.year) = y
      BY <3>1, BcdBack
    <3> QED
      BY <3>2 DEF y
  <2> QED
    BY <1>3, <1>4, <2>1, <2>3, <2>5, <2>6 DEF Date!ds3231_read
<1> QED
  BY <1>5, DateIsRecord DEF r

(* Whatever date is edited comes back the same from the seconds since      *)
(* 2000, from the guest's registers in BCD and in binary, and from the     *)
(* chip; the counts and the weekdays of the days follow one another        *)
(* (ds3231.c 28-137, mc146818.c).                                          *)
THEOREM EveryDateSurvives == DevicesSpec => []DateSurvives
<1>1. EditedInv => DateSurvives
  <2> SUFFICES ASSUME EditedInv PROVE Date!DateSurvives
    BY DEF DateSurvives
  <2>1. Date!CalendarAssumption
    BY DevicesAssumption
  <2>2. date \in ValidDates /\ Date!rtc_time_valid(date)
    BY DEF EditedInv, ValidDates
  <2>3. date.day <= Date!LastOf(date)
    BY <2>2, LastIsLast, DateIsRecord
  <2>4. Date!rtc_from_epoch(Date!rtc_to_epoch(date)) = date
    BY <2>1, <2>2, EpochBack
  <2>5. \A binary \in BOOLEAN :
          Date!collect(Date!publish(date, binary), binary) = date
    BY <2>2, RegistersBack
  <2>6. Date!ds3231_read(Date!ds3231_write(date)) = date
    BY <2>2, ChipBack
  <2>7. ~Date!LastDate(date) =>
          /\ Date!rtc_to_epoch(Date!Tomorrow(date)) =
               Date!rtc_to_epoch(date) + DayLength
          /\ Date!rtc_day_of_week(Date!Tomorrow(date)) =
               (Date!rtc_day_of_week(date) % 7) + 1
    BY <2>1, <2>2, TomorrowCounted
  <2>8. date.year = 2000 /\ date.mon = 2 /\ date.day = 29 =>
          Date!rtc_day_of_week(date) = 3
    BY <2>2, TuesdayFound
  <2> QED
    BY <2>2, <2>3, <2>4, <2>5, <2>6, <2>7, <2>8 DEF Date!DateSurvives
<1> QED
  BY <1>1, EditedInvariance, PTL

-----------------------------------------------------------------------------
(* The hard disk among the devices.                                        *)
LEMMA DriveInvariance == DevicesSpec => []DiskInv
<1>1. DevicesInit => DiskInv
  BY DiskStarts DEF DevicesInit
<1>2. DiskInv /\ [DevicesNext]_all_vars => DiskInv'
  <2> SUFFICES ASSUME DiskInv, [DevicesNext]_all_vars PROVE DiskInv'
    OBVIOUS
  <2>1. [Next]_vars
    BY OneAtATime
  <2> QED
    BY <2>1, DiskKeeps
<1> QED
  BY <1>1, <1>2, PTL DEF DevicesSpec

(* Whatever a guest asks of the hard disk by LBA, or by CHS within one     *)
(* setting of the sector register, happens to a disk: it reads what is     *)
(* there and writes where it said, in order, and is not told of a success  *)
(* that was none (ide.h 225-408).                                          *)
THEOREM DriveIsDisk ==
  ASSUME Addressing \subseteq {"lba", "chs"}
  PROVE  DevicesSpec => ImplementsSectorDisk
<1>1. DevicesInit => Disk!Init
  BY DiskBegins DEF DevicesInit
<1>2. DiskInv /\ [DevicesNext]_all_vars => [Disk!Next]_(Disk!vars)
  <2> SUFFICES ASSUME DiskInv, [DevicesNext]_all_vars
               PROVE  [Disk!Next]_(Disk!vars)
    OBVIOUS
  <2>1. [Next]_vars
    BY OneAtATime
  <2> QED
    BY <2>1, DiskKeeps DEF GoodStep, Tame
<1> QED
  BY <1>1, <1>2, DriveInvariance, PTL
     DEF DevicesSpec, ImplementsSectorDisk, Disk!Spec

-----------------------------------------------------------------------------
(* The types of the others.  The clock's keep themselves.                  *)
LEMMA ClockTyped == DevicesSpec => []Clock!TypeOK
<1> USE DEF Clock!core0, Clock!guestVars
<1>1. DevicesInit => Clock!TypeOK
  <2> SUFFICES ASSUME Clock!Init PROVE Clock!TypeOK
    BY DEF DevicesInit
  <2>1. fallback \in Clock!Dates /\ fallback \in Clock!Times
    BY DateParts DEF Clock!Init
  <2> QED
    BY <2>1 DEF Clock!Init, Clock!TypeOK
<1>2. ASSUME Clock!TypeOK, Clock!Next PROVE Clock!TypeOK'
  <2>0. /\ reg \in Clock!Times /\ reg.month \in Months /\ reg.day \in Days
        /\ t.month \in Months /\ t.day \in Days
        /\ wanted \in Clock!Times /\ fallback \in Clock!Times
        /\ wanted.month \in Months /\ wanted.day \in Days
    BY <1>2, DateParts DEF Clock!TypeOK
  <2>1. CASE \/ Clock!TickFlush \/ Clock!WriteChip \/ Clock!TickClean
             \/ Clock!TickHeld \/ Clock!TickRefresh
    BY <1>2, <2>0, <2>1
       DEF Clock!TickFlush, Clock!WriteChip, Clock!TickClean,
           Clock!TickHeld, Clock!TickRefresh,
           Clock!DirtyAfter, Clock!TypeOK
  <2>2. CASE Clock!CollectMonth
    <3>1. t' \in Clock!Times
      BY <1>2, <2>0, <2>2, DateParts DEF Clock!CollectMonth, Clock!TypeOK
    <3> QED
      BY <1>2, <2>2, <3>1 DEF Clock!CollectMonth, Clock!TypeOK
  <2>3. CASE Clock!CollectDay
    <3>1. t' \in Clock!Times
      BY <1>2, <2>0, <2>3, DateParts DEF Clock!CollectDay, Clock!TypeOK
    <3> QED
      BY <1>2, <2>3, <3>1
         DEF Clock!CollectDay, Clock!DirtyAfter, Clock!Acceptable,
             Clock!TypeOK
  <2>4. CASE Clock!ReadChip
    BY <1>2, <2>4, DateParts DEF Clock!ReadChip, Clock!TypeOK
  <2>5. CASE Clock!PublishMonth \/ Clock!PublishDay
    <3>1. \/ reg' = [reg EXCEPT !.month = t.month]
          \/ reg' = [reg EXCEPT !.day = t.day]
      BY <2>5 DEF Clock!PublishMonth, Clock!PublishDay, Clock!Publish
    <3>2. reg' \in Clock!Times
      BY <2>0, <3>1, DateParts
    <3>3. overwritten' \in BOOLEAN
      <4>1. overwritten' = (overwritten \/ Clock!Setting)
        BY <2>5 DEF Clock!PublishMonth, Clock!PublishDay, Clock!Publish
      <4> QED
        BY <4>1, Zenon
    <3>4. pc0' \in {"publish day", "loop"}
      BY <2>5 DEF Clock!PublishMonth, Clock!PublishDay, Clock!Publish
    <3>5. UNCHANGED <<set, dirty, valid, chip, fallback, t, clockGuest,
                      wanted, flushed>>
      BY <2>5 DEF Clock!PublishMonth, Clock!PublishDay, Clock!Publish
    <3> QED
      BY <1>2, <3>2, <3>3, <3>4, <3>5 DEF Clock!TypeOK
  <2>6. CASE Clock!Tick
    BY <1>2, <2>6, DateParts DEF Clock!Tick, Clock!TypeOK
  <2>7. CASE Clock!BeginSetting \/ Clock!TakeSet \/ Clock!ReleaseSet
    BY <1>2, <2>7
       DEF Clock!BeginSetting, Clock!TakeSet, Clock!ReleaseSet, Clock!TypeOK
  <2>8. CASE Clock!WriteMonth \/ Clock!WriteDay
    <3>1. \/ reg' = [reg EXCEPT !.month = wanted.month]
          \/ reg' = [reg EXCEPT !.day = wanted.day]
      BY <2>8 DEF Clock!WriteMonth, Clock!WriteDay
    <3>2. reg' \in Clock!Times
      BY <2>0, <3>1, DateParts
    <3> QED
      BY <1>2, <2>8, <3>2 DEF Clock!WriteMonth, Clock!WriteDay, Clock!TypeOK
  <2> QED
    BY <1>2, <2>1, <2>2, <2>3, <2>4, <2>5, <2>6, <2>7, <2>8
       DEF Clock!Next, Clock!Core0, Clock!Guest
<1>3. Clock!TypeOK /\ [DevicesNext]_all_vars => Clock!TypeOK'
  <2> SUFFICES ASSUME Clock!TypeOK, [DevicesNext]_all_vars
               PROVE  Clock!TypeOK'
    OBVIOUS
  <2>1. CASE UNCHANGED clock_vars
    BY <2>1 DEF clock_vars, Clock!TypeOK
  <2> QED
    BY <1>2, <2>1, OneAtATime
<1> QED
  BY <1>1, <1>3, PTL DEF DevicesSpec

(* The guest reads no number that was not accepted, wherever in the ring   *)
(* it looks.                                                               *)
LEMMA PortTyped == DevicesSpec => []Port!TypeOK
<1> USE DEF Port!ring, Port!lines, Port!readVars, Port!pushVars, Port!history
<1>0. RingSize \in Nat /\ RingSize > 1 /\ MaxBytes \in Nat
  BY DevicesAssumption DEF Port!SerialAssumption
<1>1. DevicesInit => Port!TypeOK
  <2>1. 0 \in Port!Slots
    BY <1>0 DEF Port!Slots
  <2> SUFFICES ASSUME Port!Init PROVE Port!TypeOK
    BY DEF DevicesInit
  <2>2. /\ rx_fifo = [s \in Port!Slots |-> 0] /\ accepted = 0 /\ got = 0
        /\ reads = 0
    BY DEF Port!Init
  <2>3. /\ rx_fifo \in [Port!Slots -> 0 .. accepted]
        /\ accepted \in Nat /\ reads \in Nat /\ got \in 0 .. accepted
    BY <2>2
  <2> QED
    BY <2>1, <2>3 DEF Port!Init, Port!TypeOK
<1>2. ASSUME Port!TypeOK, NEW p \in Port!Producers, Port!Enter(p),
             UNCHANGED <<rx_fifo, rx_head, rx_tail, data_ready, ier, irr4,
                         read, more, accepted, reads, got>>,
             dtr' \in BOOLEAN
      PROVE  Port!TypeOK'
  <2>1. /\ slot' = [slot EXCEPT ![p] = rx_head]
        /\ push' = [push EXCEPT ![p] = "test"]
    BY <1>2 DEF Port!Enter, Port!Goto
  <2>2. collided' \in BOOLEAN
    <3>1. collided' = (collided \/ \E q \in Port!Producers \ {p} :
                                     push[q] \in {"test", "store", "head"})
      BY <1>2 DEF Port!Enter
    <3> QED
      BY <3>1, Zenon
  <2>3. /\ slot' \in [Port!Producers -> Port!Slots]
        /\ push' \in [Port!Producers -> Steps]
    BY <1>2, <2>1 DEF Port!TypeOK, Steps
  <2> QED
    BY <1>2, <2>2, <2>3 DEF Port!TypeOK, Steps
<1>3. ASSUME Port!TypeOK, Port!Next PROVE Port!TypeOK'
  <2>0. ASSUME NEW p \in Port!Producers, NEW step \in Steps, Port!Goto(p, step)
        PROVE  push' \in [Port!Producers -> Steps]
    BY <1>3, <2>0 DEF Port!Goto, Port!TypeOK, Steps
  <2>1. CASE Port!MouseByte
    BY <1>2, <1>3, <2>1 DEF Port!MouseByte, Port!Producers, Port!TypeOK
  <2>2. ASSUME NEW p \in Port!Producers, Port!PushTest(p) PROVE Port!TypeOK'
    <3>1. push' \in [Port!Producers -> Steps]
      BY <2>0, <2>2 DEF Port!PushTest, Steps
    <3> QED
      BY <1>3, <2>2, <3>1 DEF Port!PushTest, Port!TypeOK, Steps
  <2>3. ASSUME NEW p \in Port!Producers, Port!PushStore(p) PROVE Port!TypeOK'
    <3>1. push' \in [Port!Producers -> Steps]
      BY <2>0, <2>3 DEF Port!PushStore, Steps
    <3>2. PICK place \in {slot[p], rx_head} :
            rx_fifo' = [rx_fifo EXCEPT ![place] = accepted + 1]
      BY <2>3 DEF Port!PushStore
    <3>3. /\ accepted' = accepted + 1
          /\ UNCHANGED <<rx_head, rx_tail, data_ready, ier, dtr, irr4, slot,
                         read, more, reads, got, collided>>
      BY <2>3 DEF Port!PushStore
    <3>4. /\ accepted \in Nat /\ got \in 0 .. accepted
          /\ rx_fifo \in [Port!Slots -> 0 .. accepted]
      BY <1>3 DEF Port!TypeOK
    <3>5. /\ accepted' \in Nat /\ got' \in 0 .. accepted'
          /\ 0 .. accepted \subseteq 0 .. accepted'
          /\ accepted + 1 \in 0 .. accepted'
      BY <3>3, <3>4
    <3>6. rx_fifo' \in [Port!Slots -> 0 .. accepted']
      BY <3>2, <3>4, <3>5
    <3> QED
      BY <1>3, <3>1, <3>3, <3>5, <3>6 DEF Port!TypeOK, Steps
  <2>4. ASSUME NEW p \in Port!Producers, Port!PushHead(p) PROVE Port!TypeOK'
    <3>1. push' \in [Port!Producers -> Steps]
      BY <2>0, <2>4 DEF Port!PushHead, Steps
    <3>2. slot[p] \in Port!Slots /\ rx_head' = Next1(slot[p])
      BY <1>3, <2>4 DEF Port!PushHead, Port!NextSlot, Next1, Port!TypeOK
    <3>3. rx_head' \in Port!Slots
      BY <3>2, NextSlot
    <3>4. UNCHANGED <<rx_fifo, rx_tail, data_ready, ier, dtr, irr4, slot, read,
                      more, accepted, reads, got, collided>>
      BY <2>4 DEF Port!PushHead
    <3> QED
      BY <1>3, <3>1, <3>3, <3>4 DEF Port!TypeOK, Steps
  <2>5. ASSUME NEW p \in Port!Producers, Port!PushReady(p) PROVE Port!TypeOK'
    <3>1. push' \in [Port!Producers -> Steps]
      BY <2>0, <2>5 DEF Port!PushReady, Steps
    <3> QED
      BY <1>3, <2>5, <3>1 DEF Port!PushReady, Port!TypeOK, Steps
  <2>6. ASSUME NEW p \in Port!Producers, Port!PushIrq(p) PROVE Port!TypeOK'
    <3>1. irr4' \in BOOLEAN
      <4>1. irr4' = (irr4 \/ ier)
        BY <2>6 DEF Port!PushIrq
      <4> QED
        BY <4>1, Zenon
    <3>2. push' \in [Port!Producers -> Steps]
      BY <2>0, <2>6 DEF Port!PushIrq, Steps
    <3> QED
      BY <1>3, <2>6, <3>1, <3>2 DEF Port!PushIrq, Port!TypeOK, Steps
  <2>7. CASE Port!WriteMcr
    <3>1. dtr' \in BOOLEAN
      <4>1. dtr' = ~dtr
        BY <2>7 DEF Port!WriteMcr
      <4> QED
        BY <4>1, Zenon
    <3>2. UNCHANGED <<rx_fifo, rx_head, rx_tail, data_ready, ier, irr4, read,
                      more, accepted, reads, got>>
      BY <2>7 DEF Port!WriteMcr
    <3>3. CASE Port!Enter("core1")
      BY <1>2, <1>3, <3>1, <3>2, <3>3 DEF Port!Producers
    <3>4. CASE UNCHANGED <<slot, push, collided>>
      BY <1>3, <3>1, <3>2, <3>4 DEF Port!TypeOK
    <3> QED
      BY <2>7, <3>3, <3>4 DEF Port!WriteMcr
  <2>8. CASE Port!WriteIer
    <3>1. ier' \in BOOLEAN
      <4>1. ier' = ~ier
        BY <2>8 DEF Port!WriteIer
      <4> QED
        BY <4>1, Zenon
    <3> QED
      BY <1>3, <2>8, <3>1 DEF Port!WriteIer, Port!TypeOK
  <2>9. CASE Port!ReadByte
    <3>1. /\ rx_tail \in Port!Slots /\ got \in 0 .. accepted
          /\ rx_fifo[rx_tail] \in 0 .. accepted /\ reads \in Nat
      BY <1>3 DEF Port!TypeOK
    <3>2. /\ got' \in {got, rx_fifo[rx_tail]}
          /\ rx_tail' \in {rx_tail, Next1(rx_tail)}
          /\ reads' \in {reads, reads + 1}
          /\ read' \in {"decide", "store"} /\ more' \in {more, FALSE}
      BY <2>9 DEF Port!ReadByte, Port!NextSlot, Next1
    <3>3. rx_tail' \in Port!Slots
      BY <3>1, <3>2, NextSlot
    <3>4. more' \in BOOLEAN
      BY <1>3, <3>2 DEF Port!TypeOK
    <3>5. UNCHANGED <<rx_fifo, rx_head, data_ready, ier, dtr, irr4, push, slot,
                      accepted, collided>>
      BY <2>9 DEF Port!ReadByte
    <3>6. reads' \in Nat /\ got' \in 0 .. accepted
      BY <3>1, <3>2
    <3> QED
      BY <1>3, <3>2, <3>3, <3>4, <3>5, <3>6 DEF Port!TypeOK
  <2>10. CASE Port!ReadDecide
    <3>1. more' \in BOOLEAN
      <4>1. more' = (rx_tail # rx_head)
        BY <2>10 DEF Port!ReadDecide
      <4> QED
        BY <4>1, Zenon
    <3> QED
      BY <1>3, <2>10, <3>1 DEF Port!ReadDecide, Port!TypeOK
  <2>11. CASE Port!ReadStore \/ Port!TakeIrq
    BY <1>3, <2>11 DEF Port!ReadStore, Port!TakeIrq, Port!TypeOK
  <2> QED
    BY <1>3, <2>1, <2>2, <2>3, <2>4, <2>5, <2>6, <2>7, <2>8, <2>9, <2>10,
       <2>11 DEF Port!Next
<1>4. Port!TypeOK /\ [DevicesNext]_all_vars => Port!TypeOK'
  <2> SUFFICES ASSUME Port!TypeOK, [DevicesNext]_all_vars PROVE Port!TypeOK'
    OBVIOUS
  <2>1. CASE UNCHANGED port_vars
    BY <2>1 DEF port_vars, Port!TypeOK
  <2> QED
    BY <1>3, <2>1, OneAtATime
<1> QED
  BY <1>1, <1>4, PTL DEF DevicesSpec

(* The card's registers, beside what its invariant says of the call.       *)
LEMMA CardTyped == DevicesSpec => [](CardInv /\ Card!TypeOK)
<1> USE DEF Card!card, Card!driver, Card!bounds, Card!call, Card!Initial
<1>1. \A c \in [1 .. Size -> Marks] : Len(c) = Size
  BY CardConstants
<1>2. DevicesInit => CardInv /\ Card!TypeOK
  <2> SUFFICES ASSUME DevicesInit PROVE CardInv /\ Card!TypeOK
    OBVIOUS
  <2>1. CardInv /\ Card!Init
    BY CardInit DEF DevicesInit
  <2>2. /\ Len(cardMoved) = 0 /\ cardRequest.count = 0
        /\ cardRequest = Card!NoRequest
    BY <2>1 DEF Card!Init, Card!NoRequest
  <2>3. 0 \in 0 .. MaxCalls /\ 0 \in 0 .. MaxPulls
    BY DevicesAssumption DEF Card!SdAssumption
  <2>4. Len(contents) = Size
    BY <1>1, <2>1 DEF CardInv, CardTypes
  <2>5. /\ kind \in Kinds /\ power = "off" /\ mode = "tran" /\ at = 0
        /\ Stat = "noinit" /\ CardType = "none" /\ pc = "idle"
        /\ cardOutcome = "none" /\ cardVoid = FALSE /\ missed = FALSE
        /\ calls = 0 /\ pulls = 0
    BY <2>1 DEF Card!Init
  <2>6. Len(cardMoved) <= cardRequest.count /\ at \in Nat
    BY <2>2, <2>5
  <2>7. Stat = "ok" <=> CardType # "none"
    BY <2>5
  <2> HIDE DEF Card!Initial
  <2> QED
    BY <2>1, <2>2, <2>3, <2>4, <2>5, <2>6, <2>7 DEF Card!TypeOK
<1>3. ASSUME CardInv, Card!TypeOK, Card!Next PROVE Card!TypeOK'
  <2>0. CardInv'
    BY <1>3, CardKeeps
  <2>1. /\ Len(contents') = Size /\ at' \in Nat
        /\ cardRequest' \in Card!Requests \cup {Card!NoRequest}
    <3>1. CardTypes'
      BY <2>0 DEF CardInv
    <3>2. /\ contents' \in [1 .. Size -> Marks] /\ at' \in Nat
          /\ cardRequest' \in Card!Requests \cup {Card!NoRequest}
      BY <3>1 DEF CardTypes
    <3> QED
      BY <1>1, <3>2
  <2>a. MaxCalls \in Nat /\ MaxPulls \in Nat
    BY DevicesAssumption DEF Card!SdAssumption
  <2>2. ASSUME UNCHANGED <<kind, power, mode, Stat, CardType, cardRequest,
                           cardMoved, cardOutcome, cardVoid, missed, calls,
                           pulls>>,
               pc' \in {"idle", "command", "block", "stop", "return",
                        "failing"} \cup Card!Initial
        PROVE  Card!TypeOK'
    BY <1>3, <2>1, <2>2 DEF Card!TypeOK
  <2>3. CASE Card!InitializeCall
    BY <1>3, <2>1, <2>3, <2>a DEF Card!InitializeCall, Card!TypeOK
  <2>4. CASE Card!InitStep
    <3>1. pc' \in Card!Initial /\ power' \in {"ready", "idle"}
          /\ mode' \in {mode, "tran"} /\ missed' \in BOOLEAN
      <4>1. missed' = (missed /\ pc # "cmd0")
        BY <2>4 DEF Card!InitStep
      <4>2. missed' \in BOOLEAN
        BY <4>1, Zenon
      <4> QED
        BY <2>4, <4>2 DEF Card!InitStep, Card!After
    <3> QED
      BY <1>3, <2>1, <2>4, <3>1 DEF Card!InitStep, Card!TypeOK
  <2>5. CASE Card!InitDone \/ Card!InitFail
    <3>1. /\ pc' = "idle"
          /\ \/ Stat' = "ok" /\ CardType' \in {"byte", "block"}
             \/ Stat' = "noinit" /\ CardType' = "none"
          /\ UNCHANGED <<kind, power, mode, cardRequest, cardMoved,
                         cardOutcome, cardVoid, missed, calls, pulls>>
      BY <2>5 DEF Card!InitDone, Card!InitFail
    <3> QED
      BY <1>3, <2>1, <3>1 DEF Card!TypeOK
  <2>6. ASSUME NEW r \in Card!Requests, Card!Call(r) PROVE Card!TypeOK'
    <3>1. /\ cardRequest' = r /\ cardOutcome' = "none" /\ cardMoved' = cardMoved
          /\ pc = "idle" /\ pc' \in {"failing", "command"}
          /\ calls < MaxCalls /\ calls' = calls + 1
          /\ UNCHANGED <<kind, power, mode, Stat, CardType, cardVoid, missed,
                         pulls>>
      BY <2>6 DEF Card!Call
    <3>2. cardMoved = <<>>
      BY <1>3, <3>1 DEF CardInv, CallInv
    <3>3. r.count \in Nat
      BY CardConstants
    <3>4. Len(cardMoved') <= cardRequest'.count
      BY <3>1, <3>2, <3>3
    <3>5. calls' \in 0 .. MaxCalls
      BY <1>3, <2>a, <3>1 DEF Card!TypeOK
    <3> QED
      BY <1>3, <2>1, <3>1, <3>4, <3>5 DEF Card!TypeOK
  <2>7. CASE Card!Command \/ Card!ResponseLost
    <3>1. /\ pc = "command" /\ pc' \in {"block", "failing"}
          /\ mode' = cardRequest.cmd /\ missed' \in {missed, TRUE}
          /\ UNCHANGED <<kind, power, Stat, CardType, cardRequest, cardMoved,
                         cardOutcome, cardVoid, calls, pulls>>
      BY <2>7 DEF Card!Command, Card!ResponseLost, Card!Taken
    <3>2. cardRequest \in Card!Requests
      BY <1>3, <3>1 DEF CardInv, CardTypes, CallInv
    <3>3. mode' \in {"read", "write"}
      BY <3>1, <3>2, CardConstants
    <3> QED
      BY <1>3, <2>1, <3>1, <3>3 DEF Card!TypeOK
  <2>8. CASE Card!Refused
    BY <2>2, <2>8 DEF Card!Refused
  <2>9. CASE Card!ReadBlock \/ Card!WriteBlock
    <3>1. /\ pc = "block" /\ pc' = Card!Then(Len(cardMoved) + 1)
          /\ mode' = Card!ModeAfter
          /\ UNCHANGED <<kind, power, Stat, CardType, cardRequest, cardOutcome,
                         cardVoid, missed, calls, pulls>>
      BY <2>9 DEF Card!ReadBlock, Card!WriteBlock
    <3>2. pc' \in {"block", "stop", "return"} /\ mode' \in {mode, "tran"}
      BY <3>1 DEF Card!Then, Card!ModeAfter
    <3>3. /\ cardRequest \in Card!Requests /\ cardMoved \in Seq(Marks)
          /\ Len(cardMoved) < cardRequest.count
      BY <1>3, <3>1 DEF CardInv, CardTypes, CallInv
    <3>4. cardRequest.count \in Nat /\ Len(cardMoved) \in Nat
      BY <3>3, CardConstants, LenProperties
    <3>5. Len(cardMoved') = Len(cardMoved) + 1
      BY <2>9, <3>3, AppendProperties
         DEF Card!ReadBlock, Card!WriteBlock
    <3>6. Len(cardMoved') <= cardRequest'.count
      BY <3>1, <3>3, <3>4, <3>5
    <3> QED
      BY <1>3, <2>1, <3>1, <3>2, <3>6 DEF Card!TypeOK
  <2>10. CASE Card!BlockFails
    <3>1. mode' \in {mode, "tran"} /\ pc' \in {"stop", "return"}
          /\ missed' \in {missed, TRUE}
      BY <2>10 DEF Card!BlockFails, Card!ModeAfter
    <3> QED
      BY <1>3, <2>1, <2>10, <3>1 DEF Card!BlockFails, Card!TypeOK
  <2>11. CASE Card!Stop
    <3>1. /\ mode' \in {mode, "tran"} /\ pc' \in {"return", "failing"}
          /\ missed' \in {missed, TRUE, FALSE}
      BY <2>11 DEF Card!Stop, Card!StopSent
    <3> QED
      BY <1>3, <2>1, <2>11, <3>1 DEF Card!Stop, Card!TypeOK
  <2>12. CASE Card!Return
    <3>1. /\ pc' = "idle" /\ cardOutcome' \in {"ok", "failed"}
          /\ cardRequest' = Card!NoRequest /\ cardMoved' = <<>>
          /\ cardVoid' = FALSE
          /\ UNCHANGED <<kind, power, mode, Stat, CardType, missed, calls,
                         pulls>>
      BY <2>12 DEF Card!Return
    <3>2. Len(cardMoved') <= cardRequest'.count
      BY <3>1 DEF Card!NoRequest
    <3> QED
      BY <1>3, <2>1, <3>1, <3>2 DEF Card!TypeOK
  <2>13. CASE Card!Pull
    <3>1. /\ kind' \in Kinds /\ power' = "off" /\ mode' = "tran"
          /\ pulls < MaxPulls /\ pulls' = pulls + 1
          /\ UNCHANGED <<Stat, CardType, pc, cardRequest, cardMoved,
                         cardOutcome, calls>>
          /\ missed' = FALSE
      BY <2>13 DEF Card!Pull
    <3>2. cardVoid' \in BOOLEAN
      <4>1. cardVoid' = (cardRequest # Card!NoRequest)
        BY <2>13 DEF Card!Pull
      <4> QED
        BY <4>1, Zenon
    <3>3. pulls' \in 0 .. MaxPulls
      BY <1>3, <2>a, <3>1 DEF Card!TypeOK
    <3> QED
      BY <1>3, <2>1, <3>1, <3>2, <3>3 DEF Card!TypeOK
  <2> QED
    BY <1>3, <2>3, <2>4, <2>5, <2>6, <2>7, <2>8, <2>9, <2>10, <2>11, <2>12,
       <2>13 DEF Card!Next
<1>4. CardInv /\ Card!TypeOK /\ [DevicesNext]_all_vars
        => CardInv' /\ Card!TypeOK'
  <2> SUFFICES ASSUME CardInv, Card!TypeOK, [DevicesNext]_all_vars
               PROVE  CardInv' /\ Card!TypeOK'
    OBVIOUS
  <2>1. CardInv'
    BY OneAtATime, CardKeeps
  <2>2. CASE UNCHANGED card_vars
    BY <2>1, <2>2 DEF card_vars, Card!TypeOK
  <2> QED
    BY <1>3, <2>1, <2>2, OneAtATime
<1> QED
  BY <1>2, <1>4, PTL DEF DevicesSpec

(* The file, the drives and the bounds, beside what the invariant of the   *)
(* settings says of the screens.                                           *)
Files ==
  {<<>>, <<Settings!Version>>}
    \cup {Settings!Layout(version, s) : version \in 2 .. Settings!Version + 1,
                                        s \in SS}

SetupRest ==
  /\ phase # "browser" => browse = Settings!NotBrowsing
  /\ file \in Files /\ mounted \in [Drives -> Settings!Paths]
  /\ changes \in 0 .. MaxChanges /\ boots \in 0 .. MaxBoots

LEMMA SetupTyped == DevicesSpec => [](SetupInv /\ SetupRest)
<1>0. /\ MaxChanges \in Nat /\ MaxBoots \in Nat
      /\ Defaults \in SS
  BY DevicesAssumption DEF Settings!SetupAssumption, SS
<1>1. \A c, s : s \in SS =>
        Settings!Disks(c, s) \in [Drives -> Settings!Paths]
  <2> SUFFICES ASSUME NEW c, NEW s \in SS
               PROVE  Settings!Disks(c, s) \in [Drives -> Settings!Paths]
    OBVIOUS
  <2>1. \A d \in Drives : s[d] \in Settings!Paths
    BY SettingsFacts
  <2>2. Settings!Empty \in Settings!Paths
    BY DEF Settings!Paths
  <2> QED
    BY <2>1, <2>2 DEF Settings!Disks
<1>2. DevicesInit => SetupInv /\ SetupRest
  <2> SUFFICES ASSUME Settings!Init PROVE SetupRest
    BY SetupInit DEF DevicesInit
  <2>1. file \in Files
    BY DEF Settings!Init, Files, SS
  <2>2. /\ browse = Settings!NotBrowsing /\ changes = 0 /\ boots = 0
        /\ mounted = Settings!Disks("none", Defaults)
    BY DEF Settings!Init
  <2>3. mounted \in [Drives -> Settings!Paths]
    BY <1>0, <1>1, <2>2
  <2> QED
    BY <1>0, <2>1, <2>2, <2>3 DEF SetupRest
<1>3. ASSUME SetupInv, SetupRest, Settings!Next PROVE SetupRest'
  <2>0. settings \in SS
    BY <1>3 DEF SetupInv, SetupTypes
  <2>1. ASSUME NEW c \in Settings!Cards, NEW wants \in BOOLEAN,
               Settings!PowerOn(c, wants)
        PROVE  SetupRest'
    <3>1. /\ phase = "off" /\ phase' \in {"setup", "leaving"}
          /\ boots < MaxBoots /\ boots' = boots + 1
          /\ UNCHANGED <<browse, file, mounted, changes>>
      BY <2>1 DEF Settings!PowerOn
    <3> QED
      BY <1>0, <1>3, <3>1 DEF SetupRest
  <2>2. CASE Settings!PowerOff
    <3>1. /\ phase' = "off" /\ browse' = Settings!NotBrowsing
          /\ mounted' = Settings!Disks("none", Defaults)
          /\ UNCHANGED <<file, changes, boots>>
      BY <2>2 DEF Settings!PowerOff
    <3>2. mounted' \in [Drives -> Settings!Paths]
      BY <1>0, <1>1, <3>1
    <3> QED
      BY <1>3, <3>1, <3>2 DEF SetupRest
  <2>3. ASSUME Settings!Count PROVE changes' \in 0 .. MaxChanges
    <3>1. changes < MaxChanges /\ changes' = changes + 1
      BY <2>3 DEF Settings!Count
    <3> QED
      BY <1>0, <1>3, <3>1 DEF SetupRest
  <2>4. ASSUME \/ \E f \in Settings!Switch : Settings!cycle_array(f)
               \/ \E d \in Drives : Settings!Eject(d)
        PROVE  SetupRest'
    <3>1. /\ Settings!Count
          /\ UNCHANGED <<phase, browse, file, mounted, boots>>
      BY <2>4 DEF Settings!cycle_array, Settings!Eject
    <3> QED
      BY <1>3, <2>3, <3>1 DEF SetupRest
  <2>5. ASSUME NEW d \in Drives, Settings!Browse(d) PROVE SetupRest'
    BY <1>3, <2>5 DEF Settings!Browse, SetupRest
  <2>6. ASSUME NEW e, phase = "browser", Settings!Enter(e) PROVE SetupRest'
    BY <1>3, <2>6 DEF Settings!Enter, SetupRest
  <2>7. ASSUME NEW e, phase = "browser", Settings!Pick(e) PROVE SetupRest'
    <3>1. /\ Settings!Count /\ browse' = Settings!NotBrowsing
          /\ UNCHANGED <<file, mounted, boots>>
      BY <2>7 DEF Settings!Pick, Settings!BackTo
    <3> QED
      BY <1>3, <2>3, <3>1 DEF SetupRest
  <2>8. CASE Settings!Cancel
    BY <1>3, <2>8 DEF Settings!Cancel, Settings!BackTo, SetupRest
  <2>9. CASE Settings!Discard \/ Settings!OpenMenu \/ Settings!CloseMenu
    BY <1>3, <2>9
       DEF Settings!Discard, Settings!OpenMenu, Settings!CloseMenu, SetupRest
  <2>10. CASE Settings!SaveAndExit \/ Settings!SaveChanges
    <3>1. phase # "browser" /\ Settings!OpenFile
      BY <2>10, Zenon DEF Settings!SaveAndExit, Settings!SaveChanges
    <3>2. /\ file' \in {file, <<>>}
          /\ UNCHANGED <<browse, mounted, changes, boots>>
      BY <3>1 DEF Settings!OpenFile
    <3>3. file' \in Files
      BY <1>3, <3>2 DEF SetupRest, Files
    <3> QED
      BY <1>3, <3>1, <3>2, <3>3 DEF SetupRest
  <2>11. CASE Settings!WriteFile
    <3>1. /\ phase # "browser"
          /\ \/ file' = Settings!Layout(Settings!Version, settings)
             \/ file' \in {<<>>, <<Settings!Version>>}
          /\ UNCHANGED <<browse, mounted, changes, boots>>
      BY <2>11 DEF Settings!WriteFile
    <3>2. Settings!Version \in 2 .. Settings!Version + 1
      BY DEF Settings!Version
    <3>3. file' \in Files
      BY <2>0, <3>1, <3>2 DEF Files
    <3> QED
      BY <1>3, <3>1, <3>3 DEF SetupRest
  <2>12. CASE Settings!media_reload
    <3>1. /\ phase # "browser" /\ mounted' = Settings!Disks(card, settings)
          /\ UNCHANGED <<browse, file, changes, boots>>
      BY <2>12 DEF Settings!media_reload
    <3>2. mounted' \in [Drives -> Settings!Paths]
      BY <1>1, <2>0, <3>1
    <3> QED
      BY <1>3, <3>1, <3>2 DEF SetupRest
  <2> QED
    BY <1>3, <2>1, <2>2, <2>4, <2>5, <2>6, <2>7, <2>8, <2>9, <2>10, <2>11,
       <2>12 DEF Settings!Next
<1>4. SetupInv /\ SetupRest /\ [DevicesNext]_all_vars
        => SetupInv' /\ SetupRest'
  <2> SUFFICES ASSUME SetupInv, SetupRest, [DevicesNext]_all_vars
               PROVE  SetupInv' /\ SetupRest'
    OBVIOUS
  <2>1. SetupInv'
    BY OneAtATime, SetupKeeps
  <2>2. CASE UNCHANGED setup_vars
    BY <2>1, <2>2 DEF setup_vars, SetupRest
  <2> QED
    BY <1>3, <2>1, <2>2, OneAtATime
<1> QED
  BY <1>2, <1>4, PTL DEF DevicesSpec

(* Every variable of every device keeps its type, for any constants.       *)
THEOREM TypesAreKept == DevicesSpec => []TypesOK
<1>1. DevicesSpec =>
        [](focus \in {"disk", "clock", "port", "card", "setup", "date"})
  <2>1. DevicesInit =>
          focus \in {"disk", "clock", "port", "card", "setup", "date"}
    BY DEF DevicesInit
  <2>2. /\ focus \in {"disk", "clock", "port", "card", "setup", "date"}
        /\ [DevicesNext]_all_vars
        => (focus \in {"disk", "clock", "port", "card", "setup", "date"})'
    BY OneAtATime
  <2> QED
    BY <2>1, <2>2, PTL DEF DevicesSpec
<1>2. SetupInv /\ SetupRest => Settings!TypeOK
  BY DEF SetupInv, SetupTypes, SetupRest, Files, SS, Unsaved,
         Settings!TypeOK
<1>3. EditedInv => Date!TypeOK
  BY DEF EditedInv, Date!TypeOK
<1>4. /\ focus \in {"disk", "clock", "port", "card", "setup", "date"}
      /\ TypeOK /\ Clock!TypeOK /\ Port!TypeOK /\ Card!TypeOK
      /\ Settings!TypeOK /\ Date!TypeOK
      => TypesOK
  BY DEF TypesOK
<1> QED
  BY <1>1, <1>2, <1>3, <1>4, TypeFollows, DriveInvariance, ClockTyped,
     PortTyped, CardTyped, SetupTyped, EditedInvariance, PTL
=============================================================================
