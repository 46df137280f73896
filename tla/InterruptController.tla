------------------------ MODULE InterruptController ------------------------
(***************************************************************************)
(* The 8259 (chipset/i8259.h) with everyone who touches its registers:     *)
(* core 0's main loop and its timer interrupt raise requests, core 1's bus *)
(* handlers acknowledge them and run the guest's writes, and core 1's own  *)
(* loop copies "is anything pending" to the INTR pin between two WFEs.     *)
(*                                                                         *)
(* The request register is a plain byte, so every "irr |= bit" and every   *)
(* "irr &= ~bit" is a load and a store with other actors in between.  The  *)
(* mask and in-service registers are written by core 1's handlers only.    *)
(* register_read_mode is left out: it only selects what port 20h shows.    *)
(***************************************************************************)
EXTENDS Integers, FiniteSets, Sequences

CONSTANTS Lines,     \* the request lines in use; 0 is the timer
          Icw1s,     \* the ICW1 values the guest uses: bits SNGL and IC4
          SpecificEoi, \* do the guest's handlers send specific EOIs
          MaxNest    \* bound on interrupt handlers that still owe their EOI

ASSUME LinesAssumption == Lines \subseteq 0..7 /\ 0 \in Lines
ASSUME Icw1Assumption  == Icw1s \subseteq [sngl : BOOLEAN, ic4 : BOOLEAN]
ASSUME EoiAssumption   == SpecificEoi \in BOOLEAN /\ MaxNest \in Nat

VARIABLES
  irr, isr, imr,  \* the registers, as sets of lines
  step,           \* initialization_command_word_step
  icw1,           \* the two bits of ICW1 the code looks at
  raising,        \* core 0 main loop: the line of an unfinished irr |= bit, or Idle
  raisingSeen,    \* ... and the irr it has loaded
  ticking,        \* core 0 timer interrupt: between load and store
  tickingSeen,
  op, opSeen,     \* core 1 handler: the unfinished update of irr, what it loaded
  intr,           \* the INTR pin
  loop, sample,   \* core 1's loop, the pending flag it is about to put on the pin
  event,          \* core 1's event register, which ends a WFE
  serving,        \* lines whose handlers owe an EOI, innermost last
  post,           \* POST has read 0040:0072 and not yet programmed the 8259
  news            \* history: core 0 has stored into irr since the loop looked

core0  == <<raising, raisingSeen, ticking, tickingSeen>>
core1  == <<intr, loop, sample>>
icw    == <<step, icw1>>
guest  == <<serving, post>>
vars   == <<irr, isr, imr, icw, core0, op, opSeen, core1, event, guest, news>>

Idle == -1
Reset1 == [sngl |-> FALSE, ic4 |-> FALSE]

TypeOK ==
  /\ irr \in SUBSET Lines /\ isr \in SUBSET Lines /\ imr \in SUBSET Lines
  /\ step \in {0, 2, 3, 4, 5} /\ icw1 \in Icw1s \cup {Reset1}
  /\ raising \in Lines \cup {Idle} /\ raisingSeen \in SUBSET Lines
  /\ ticking \in BOOLEAN /\ tickingSeen \in SUBSET Lines
  /\ op \in {"none", "ack", "raise", "reload"} /\ opSeen \in SUBSET Lines
  /\ intr \in BOOLEAN /\ loop \in {"eval", "put", "wfe"} /\ sample \in BOOLEAN
  /\ event \in BOOLEAN
  /\ serving \in Seq(Lines) /\ Len(serving) <= MaxNest
  /\ post \in BOOLEAN /\ news \in BOOLEAN

(* state.c: everything masked.  Core 1 has set INTR low.                   *)
Init ==
  /\ irr = {} /\ isr = {} /\ imr = Lines
  /\ step = 0 /\ icw1 = Reset1
  /\ raising = Idle /\ raisingSeen = {} /\ ticking = FALSE /\ tickingSeen = {}
  /\ op = "none" /\ opSeen = {}
  /\ intr = FALSE /\ loop = "eval" /\ sample = FALSE /\ event = FALSE
  /\ serving = <<>> /\ post = FALSE /\ news = FALSE

-----------------------------------------------------------------------------
(* i8259_get_pending_irqs() and __builtin_ctz().                           *)

Pending == irr \ imr

Highest(S) == CHOOSE l \in S : \A k \in S : l <= k

-----------------------------------------------------------------------------
(* Core 0: i8259_interrupt(), from the main loop (keyboard, floppy DMA,    *)
(* mouse) and from the timer interrupt that preempts it.                   *)

RaiseLoad(l) ==
  /\ raising = Idle /\ ~ticking
  /\ raising' = l /\ raisingSeen' = irr
  /\ UNCHANGED <<irr, isr, imr, icw, ticking, tickingSeen, op, opSeen, core1, event, guest, news>>

RaiseStore ==
  /\ raising # Idle /\ ~ticking
  /\ irr' = raisingSeen \cup {raising}
  /\ raising' = Idle /\ raisingSeen' = {}
  /\ news' = TRUE
  /\ UNCHANGED <<isr, imr, icw, ticking, tickingSeen, op, opSeen, core1, event, guest>>

(* irq0_timer_callback(): it fires whatever the guest has masked.          *)
TickLoad ==
  /\ ~ticking
  /\ ticking' = TRUE /\ tickingSeen' = irr
  /\ UNCHANGED <<irr, isr, imr, icw, raising, raisingSeen, op, opSeen, core1, event, guest, news>>

TickStore ==
  /\ ticking
  /\ irr' = tickingSeen \cup {0}
  /\ ticking' = FALSE /\ tickingSeen' = {}
  /\ news' = TRUE
  /\ UNCHANGED <<isr, imr, icw, raising, raisingSeen, op, opSeen, core1, event, guest>>

-----------------------------------------------------------------------------
(* Core 1's loop.                                                          *)

\* Mutation: INTR waits for the handler in service.
LoopEvalInService ==
  /\ op = "none" /\ loop = "eval"
  /\ sample' = (Pending # {} /\ isr = {}) /\ loop' = "put"
  /\ news' = FALSE
  /\ UNCHANGED <<irr, isr, imr, icw, core0, op, opSeen, intr, event, guest>>

LoopEval ==
  /\ op = "none" /\ loop = "eval"
  /\ sample' = (Pending # {}) /\ loop' = "put"
  /\ news' = FALSE
  /\ UNCHANGED <<irr, isr, imr, icw, core0, op, opSeen, intr, event, guest>>

LoopPut ==
  /\ op = "none" /\ loop = "put"
  /\ intr' = sample /\ loop' = "wfe" /\ sample' = FALSE
  /\ UNCHANGED <<irr, isr, imr, icw, core0, op, opSeen, event, guest, news>>

\* Mutation: the pending flag is computed once and kept in a register.
LoopWakeHoisted ==
  /\ op = "none" /\ loop = "wfe" /\ event
  /\ event' = FALSE /\ loop' = "put"
  /\ UNCHANGED <<irr, isr, imr, icw, core0, op, opSeen, intr, sample, guest, news>>

(* __wfe() falls through once an event is latched, and clears it.          *)
LoopWake ==
  /\ op = "none" /\ loop = "wfe" /\ event
  /\ event' = FALSE /\ loop' = "eval"
  /\ UNCHANGED <<irr, isr, imr, icw, core0, op, opSeen, intr, sample, guest, news>>

-----------------------------------------------------------------------------
(* Core 1's handlers: a bus cycle of the guest, served between two steps   *)
(* of the loop.  Leaving the handler latches an event.                     *)

Handler == op = "none" /\ event' = TRUE

(* Any cycle that has nothing to do with the 8259.                         *)
OtherCycle ==
  /\ Handler
  /\ UNCHANGED <<irr, isr, imr, icw, core0, op, opSeen, core1, guest, news>>

(* INTA: i8259_nextirq() loads the request register once.  With nothing    *)
(* pending it returns 0, nothing is put in service, and the guest gets a   *)
(* vector nobody chose; what it runs then is beyond the model.  The guest  *)
(* may have its interrupt flag clear, and take no interrupt, at any time.  *)
AckLoad ==
  /\ op = "none" /\ intr /\ Len(serving) < MaxNest
  /\ IF Pending = {} THEN event' = TRUE /\ UNCHANGED <<op, opSeen>>
                     ELSE op' = "ack" /\ opSeen' = irr /\ UNCHANGED event
  /\ UNCHANGED <<irr, isr, imr, icw, core0, core1, guest, news>>

(* ... and stores it without the line it moves to the in-service register. *)
AckStore ==
  /\ op = "ack"
  /\ LET l == Highest(opSeen \ imr) IN
       /\ irr' = opSeen \ {l}
       /\ isr' = isr \cup {l}
       /\ serving' = Append(serving, l)
  /\ op' = "none" /\ opSeen' = {} /\ event' = TRUE
  /\ UNCHANGED <<imr, icw, core0, core1, post, news>>

(* A chip raises a line from its port handler: FDC 6, keyboard reset 1,    *)
(* UART 4.                                                                 *)
ChipRaiseLoad ==
  /\ op = "none" /\ op' = "raise" /\ opSeen' = irr
  /\ UNCHANGED <<irr, isr, imr, icw, core0, core1, event, guest, news>>

ChipRaiseStore(l) ==
  /\ op = "raise" /\ l # 0
  /\ irr' = opSeen \cup {l}
  /\ op' = "none" /\ opSeen' = {} /\ event' = TRUE
  /\ UNCHANGED <<isr, imr, icw, core0, core1, guest, news>>

(* i8253_write(), a new count for channel 0: its request is withdrawn.     *)
ReloadLoad ==
  /\ op = "none" /\ op' = "reload" /\ opSeen' = irr
  /\ UNCHANGED <<irr, isr, imr, icw, core0, core1, event, guest, news>>

ReloadStore ==
  /\ op = "reload"
  /\ irr' = opSeen \ {0}
  /\ op' = "none" /\ opSeen' = {} /\ event' = TRUE
  /\ UNCHANGED <<isr, imr, icw, core0, core1, guest, news>>

(* OUT 20h, ICW1.                                                          *)
WriteICW1 ==
  /\ Handler
  /\ imr' = {} /\ step' = 2
  /\ icw1' \in Icw1s
  /\ post' = FALSE
  /\ UNCHANGED <<irr, isr, core0, op, opSeen, core1, serving, news>>

\* Mutation: the step runs past the mask.
NextWordOnward == step + 1

(* OUT 21h: the next initialization word, or the mask.                     *)
NextWord == CASE step = 2 -> IF icw1.sngl THEN 4 ELSE 3
              [] step = 3 -> IF icw1.ic4 THEN 4 ELSE 5
              [] step = 4 -> 5
              [] OTHER -> step
WriteData ==
  /\ Handler
  /\ step' = NextWord
  /\ IF step = 5 THEN imr' \in SUBSET Lines /\ post' = FALSE
                 ELSE UNCHANGED <<imr, post>>
  /\ UNCHANGED <<irr, isr, icw1, core0, op, opSeen, core1, serving, news>>

(* OUT 20h, OCW2: the innermost handler that owes its EOI sends it.        *)
Innermost == serving[Len(serving)]
Retired == IF SpecificEoi THEN {Innermost} ELSE IF isr = {} THEN {} ELSE {Highest(isr)}
Eoi ==
  /\ Handler /\ serving # <<>>
  /\ isr' = isr \ Retired
  /\ serving' = SubSeq(serving, 1, Len(serving) - 1)
  /\ UNCHANGED <<irr, imr, icw, core0, op, opSeen, core1, post, news>>

\* Mutation: the mask is left alone.
ResetUnmasked == irr' = {} /\ isr' = {} /\ UNCHANGED imr
\* Mutation: the in-service register is left alone.
ResetInService == imr' = Lines /\ irr' = {} /\ UNCHANGED isr

(* A read of 0:0472: the registers go back to their reset state.  POST is  *)
(* starting over and has dropped what it was doing, or a program of the    *)
(* guest just looked at that word.                                         *)
ResetRegisters == imr' = Lines /\ irr' = {} /\ isr' = {}

ReadWarmFlag(bios) ==
  /\ Handler
  /\ ResetRegisters
  /\ IF bios THEN post' = TRUE /\ serving' = <<>> ELSE UNCHANGED <<post, serving>>
  /\ UNCHANGED <<icw, core0, op, opSeen, core1, news>>

-----------------------------------------------------------------------------
Core0 == (\E l \in Lines \ {0} : RaiseLoad(l)) \/ RaiseStore \/ TickLoad \/ TickStore

Loop == LoopEval \/ LoopPut \/ LoopWake

HandlerEnds == AckStore \/ (\E l \in Lines : ChipRaiseStore(l)) \/ ReloadStore

Guest == OtherCycle \/ AckLoad \/ ChipRaiseLoad \/ ReloadLoad \/ WriteICW1 \/ WriteData
         \/ Eoi \/ (\E bios \in BOOLEAN : ReadWarmFlag(bios))

Next == Core0 \/ Loop \/ HandlerEnds \/ Guest

(* The cores execute; a guest that is not halted keeps fetching; and the    *)
(* loop gets its turns between bus cycles, because a read cycle starts only *)
(* after the handler of the one before has let the guest go on.             *)
Fairness == SF_vars(Loop) /\ WF_vars(HandlerEnds) /\ WF_vars(OtherCycle)
Spec == Init /\ [][Next]_vars /\ Fairness

-----------------------------------------------------------------------------
(* From POST's read of 0040:0072 until it programs the controller nothing  *)
(* is put in service, whatever core 0 raises meanwhile: its stack is in    *)
(* ROM (memory.h 51-72).                                                   *)
PostQuiet == [][post /\ post' => isr' \subseteq isr]_vars

(* Nothing is in service once every interrupt handler has sent its EOI,    *)
(* however they nested (any line interrupts any handler: i8259_nextirq()   *)
(* does not look at isr), and whoever reset the registers meanwhile.       *)
ServiceDrains == serving = <<>> => isr = {}

(* Core 1 does not sleep on a stale INTR: with no event latched, the pin   *)
(* shows the pending requests unless core 0 has stored since.              *)
PinCurrent == op = "none" /\ loop = "wfe" /\ ~event /\ ~news => (intr <=> irr \ imr # {})

(* A pending request reaches the INTR pin, or stops being pending, as      *)
(* long as the guest drives bus cycles: core 0 does not wake core 1.       *)
IntrFollows == irr \ imr # {} ~> (intr \/ irr \ imr = {})
=============================================================================
