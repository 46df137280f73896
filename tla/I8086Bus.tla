----------------------------- MODULE I8086Bus -----------------------------
(***************************************************************************)
(* The bus: the PIO state machine of core/i8086_bus.pio on one side of two *)
(* FIFOs and three interrupt flags, core 1's two handlers of               *)
(* core/cpu_bus.c on the other.  The machine stretches a read until the    *)
(* handler has answered it; it posts a write and the first pulse of an     *)
(* interrupt acknowledge, and lets the 8086 go on.                         *)
(*                                                                         *)
(* Bus cycles are numbered as the 8086 starts them, and a FIFO word is     *)
(* known by the cycle and the part of it that it carries.  A handler's     *)
(* reply or flag clear is one step with its return: the 8086 needs a whole *)
(* bus cycle before the machine looks at the next strobe.                  *)
(***************************************************************************)
EXTENDS Integers, Sequences

CONSTANTS BackToBack, \* may a write follow a write whose handler still runs
          MaxCycles   \* bound on the bus cycles of a behaviour

ASSUME BackToBackAssumption == BackToBack \in BOOLEAN
ASSUME MaxCyclesAssumption  == MaxCycles \in Nat

VARIABLES
  kind,           \* the 8086's cycle: a read, a write or an INTA pair
  started,        \* how many cycles it has started
  sm,             \* the state machine's program counter
  rx, tx,         \* its FIFOs
  got,            \* the word it has pulled and is driving
  irq0, irq1, irq3, \* the PIO flags: write, read, first INTA pulse
  handler, at,    \* the handler core 1 is in, and where in it
  bus_state, data, \* the handler's locals: the words it has popped
  irq_pending_vector,
  served,         \* history: how many cycles core 1 has carried out
  bus_pause_req, bus_paused

bus    == <<kind, started>>
flags  == <<irq0, irq1, irq3>>
locals == <<bus_state, data>>
core1  == <<handler, at>>
pause  == <<bus_pause_req, bus_paused>>
vars   == <<bus, sm, rx, tx, got, flags, core1, locals, irq_pending_vector, served, pause>>

Depth == 4 \* words in a FIFO that is not joined with its twin

Word(part, c) == [part |-> part, cycle |-> c]
NoWord == Word("none", 0)   \* what a pop of an empty FIFO returns
Words  == {Word(part, c) : part \in {"address", "data"}, c \in 0 .. MaxCycles}

(* An answer: for which cycle, and whether it is an interrupt vector.      *)
Answers == [cycle : 0 .. MaxCycles, vector : BOOLEAN]
NoAnswer == [cycle |-> -1, vector |-> FALSE]

TypeOK ==
  /\ kind \in {"read", "write", "inta"}
  /\ started \in 0 .. MaxCycles /\ served \in 0 .. MaxCycles
  /\ sm \in {"wait_ALE", "address", "WR_cycle", "WR_irq", "WR_end",
             "INTA_cycle", "INTA_again", "RD_cycle", "RD_pull", "RD_end"}
  /\ rx \in Seq(Words) /\ Len(rx) <= Depth
  /\ tx \in Seq(Answers) /\ Len(tx) <= 1
  /\ got \in Answers \cup {NoAnswer}
  /\ irq0 \in BOOLEAN /\ irq1 \in BOOLEAN /\ irq3 \in BOOLEAN
  /\ handler \in {"none", "write", "read"} /\ at \in {"point", "paused", "body", "end"}
  /\ bus_state \in Words \cup {NoWord} /\ data \in Words \cup {NoWord}
  /\ irq_pending_vector \in BOOLEAN
  /\ bus_pause_req \in BOOLEAN /\ bus_paused \in BOOLEAN

Init ==
  /\ kind = "read" /\ started = 0 /\ served = 0
  /\ sm = "wait_ALE" /\ rx = <<>> /\ tx = <<>> /\ got = NoAnswer
  /\ irq0 = FALSE /\ irq1 = FALSE /\ irq3 = FALSE
  /\ handler = "none" /\ at = "point" /\ bus_state = NoWord /\ data = NoWord
  /\ irq_pending_vector = FALSE
  /\ bus_pause_req = FALSE /\ bus_paused = FALSE

-----------------------------------------------------------------------------
(* The state machine and the 8086's strobes, which it waits for.           *)

(* The 8086 starts a cycle when it likes.  Without BackToBack it has no    *)
(* write to start while core 1 is busy with the one before.                *)
StartCycle(k) ==
  /\ sm = "wait_ALE" /\ started < MaxCycles
  /\ k = "write" /\ ~BackToBack => served = started
  /\ kind' = k /\ started' = started + 1 /\ sm' = "address"
  /\ UNCHANGED <<rx, tx, got, flags, core1, locals, irq_pending_vector, served, pause>>

Current == started - 1

(* push blocks on a full FIFO, with READY still high.                      *)
Push(word) == Len(rx) < Depth /\ rx' = Append(rx, word)

PushAddress ==
  /\ sm = "address" /\ Push(Word("address", Current))
  /\ sm' = CASE kind = "write" -> "WR_cycle"
             [] kind = "inta"  -> "INTA_cycle"
             [] OTHER          -> "RD_cycle"
  /\ UNCHANGED <<bus, tx, got, flags, core1, locals, irq_pending_vector, served, pause>>

PushData ==
  /\ sm = "WR_cycle" /\ Push(Word("data", Current))
  /\ sm' = "WR_irq"
  /\ UNCHANGED <<bus, tx, got, flags, core1, locals, irq_pending_vector, served, pause>>

(* irq 0, READY high: the 8086 finishes its write.                         *)
IrqWrite ==
  /\ sm = "WR_irq" /\ sm' = "WR_end" /\ irq0' = TRUE
  /\ UNCHANGED <<bus, rx, tx, got, irq1, irq3, core1, locals, irq_pending_vector, served, pause>>

(* irq 3, after the first pulse; the 8086 follows with the second.         *)
IrqInta ==
  /\ sm = "INTA_cycle" /\ sm' = "INTA_again" /\ irq3' = TRUE
  /\ UNCHANGED <<bus, rx, tx, got, irq0, irq1, core1, locals, irq_pending_vector, served, pause>>

SecondInta ==
  /\ sm = "INTA_again" /\ sm' = "RD_cycle"
  /\ UNCHANGED <<bus, rx, tx, got, flags, core1, locals, irq_pending_vector, served, pause>>

IrqRead ==
  /\ sm = "RD_cycle" /\ sm' = "RD_pull" /\ irq1' = TRUE
  /\ UNCHANGED <<bus, rx, tx, got, irq0, irq3, core1, locals, irq_pending_vector, served, pause>>

(* pull blocks with READY low.                                             *)
Pull ==
  /\ sm = "RD_pull" /\ tx # <<>>
  /\ got' = Head(tx) /\ tx' = Tail(tx) /\ sm' = "RD_end"
  /\ UNCHANGED <<bus, rx, flags, core1, locals, irq_pending_vector, served, pause>>

EndCycle ==
  /\ sm \in {"WR_end", "RD_end"}
  /\ sm' = "wait_ALE" /\ got' = NoAnswer
  /\ UNCHANGED <<bus, rx, tx, flags, core1, locals, irq_pending_vector, served, pause>>

StateMachine == \/ PushAddress \/ PushData \/ IrqWrite \/ IrqInta \/ SecondInta
                \/ IrqRead \/ Pull \/ EndCycle

-----------------------------------------------------------------------------
(* Core 1.  Both interrupts have the same priority: neither preempts the   *)
(* other, and with both pending the lower number, the write, goes first.   *)

Enter(h) == handler = "none" /\ handler' = h /\ at' = "point"
In(h, here) == handler = h /\ at = here
Goto(there) == at' = there /\ UNCHANGED handler
Return == handler' = "none" /\ at' = "point"

EnterWrite ==
  /\ irq0 /\ Enter("write")
  /\ UNCHANGED <<bus, sm, rx, tx, got, flags, locals, irq_pending_vector, served, pause>>

\* Mutation: the read interrupt has the higher priority.
EnterReadFirst ==
  /\ irq1 \/ irq3
  /\ Enter("read")
  /\ UNCHANGED <<bus, sm, rx, tx, got, flags, locals, irq_pending_vector, served, pause>>

EnterRead ==
  /\ ~irq0 /\ (irq1 \/ irq3)
  /\ Enter("read")
  /\ UNCHANGED <<bus, sm, rx, tx, got, flags, locals, irq_pending_vector, served, pause>>

(* bus_pause_point(): it parks until the request is withdrawn.             *)
PausePoint ==
  /\ handler # "none" /\ at = "point"
  /\ IF bus_pause_req THEN bus_paused' = TRUE /\ Goto("paused")
                      ELSE UNCHANGED bus_paused /\ Goto("body")
  /\ UNCHANGED <<bus, sm, rx, tx, got, flags, locals, irq_pending_vector, served, bus_pause_req>>

Unpark ==
  /\ at = "paused" /\ ~bus_pause_req
  /\ bus_paused' = FALSE /\ Goto("body")
  /\ UNCHANGED <<bus, sm, rx, tx, got, flags, locals, irq_pending_vector, served, bus_pause_req>>

Popped(n) == IF n <= Len(rx) THEN rx[n] ELSE NoWord
Rest(n)   == SubSeq(rx, n + 1, Len(rx))

\* Mutation: the address is read without being popped.
WritePopOne ==
  /\ In("write", "body") /\ Goto("end")
  /\ bus_state' = Popped(1) /\ data' = Popped(2) /\ rx' = Rest(1)
  /\ UNCHANGED <<bus, sm, tx, got, flags, irq_pending_vector, served, pause>>

WritePop ==
  /\ In("write", "body") /\ Goto("end")
  /\ bus_state' = Popped(1) /\ data' = Popped(2) /\ rx' = Rest(2)
  /\ UNCHANGED <<bus, sm, tx, got, flags, irq_pending_vector, served, pause>>

(* The access itself, which for the disk takes as long as the card does.   *)
WriteServe ==
  /\ In("write", "end") /\ Return
  /\ irq0' = FALSE /\ served' = served + 1
  /\ bus_state' = NoWord /\ data' = NoWord
  /\ UNCHANGED <<bus, sm, rx, tx, got, irq1, irq3, irq_pending_vector, pause>>

\* Mutation: no return, the handler goes on to answer.
ReadIntaFallsThrough(vector) ==
  /\ In("read", "body") /\ irq3
  /\ irq3' = FALSE
  /\ irq_pending_vector' = (vector \/ irq_pending_vector)
  /\ bus_state' = Popped(1) /\ rx' = Rest(1)
  /\ Goto("end")
  /\ UNCHANGED <<bus, sm, tx, got, irq0, irq1, data, served, pause>>
\* Mutation: the flag is not cleared.
ReadIntaUncleared(vector) ==
  /\ In("read", "body") /\ irq3
  /\ irq_pending_vector' = (vector \/ irq_pending_vector)
  /\ Return
  /\ UNCHANGED <<bus, sm, rx, tx, got, flags, locals, served, pause>>

(* The first INTA pulse: i8259_nextirq() returns a vector, or 0 if the     *)
(* request has gone meanwhile.  No word is popped.                         *)
ReadInta(vector) ==
  /\ In("read", "body") /\ irq3
  /\ irq3' = FALSE
  /\ irq_pending_vector' = (vector \/ irq_pending_vector)
  /\ Return
  /\ UNCHANGED <<bus, sm, rx, tx, got, irq0, irq1, locals, served, pause>>

ReadPop ==
  /\ In("read", "body") /\ ~irq3
  /\ bus_state' = Popped(1) /\ rx' = Rest(1)
  /\ Goto("end")
  /\ UNCHANGED <<bus, sm, tx, got, flags, data, irq_pending_vector, served, pause>>

\* Mutation: the vector stays pending.
AnswerKept ==
  /\ tx' = Append(tx, [cycle |-> bus_state.cycle, vector |-> irq_pending_vector])
  /\ UNCHANGED irq_pending_vector

Answer ==
  /\ tx' = Append(tx, [cycle |-> bus_state.cycle, vector |-> irq_pending_vector])
  /\ irq_pending_vector' = FALSE
ReadAnswer ==
  /\ In("read", "end") /\ Return
  /\ Len(tx) < Depth /\ Answer
  /\ irq1' = FALSE /\ served' = served + 1
  /\ bus_state' = NoWord
  /\ UNCHANGED <<bus, sm, rx, got, irq0, irq3, data, pause>>

Core1 == \/ EnterWrite \/ EnterRead \/ PausePoint \/ Unpark \/ WritePop \/ WriteServe
         \/ (\E vector \in BOOLEAN : ReadInta(vector)) \/ ReadPop \/ ReadAnswer

-----------------------------------------------------------------------------
(* Core 0 opens and closes the menu.                                       *)

BusPause ==
  /\ ~bus_pause_req /\ bus_pause_req' = TRUE
  /\ UNCHANGED <<bus, sm, rx, tx, got, flags, core1, locals, irq_pending_vector, served, bus_paused>>

BusResume ==
  /\ bus_pause_req /\ bus_pause_req' = FALSE
  /\ UNCHANGED <<bus, sm, rx, tx, got, flags, core1, locals, irq_pending_vector, served, bus_paused>>

Guest == \E k \in {"read", "write", "inta"} : StartCycle(k)

Next == Guest \/ StateMachine \/ Core1 \/ BusPause \/ BusResume

(* The machine and core 1 run; the menu is closed in the end; and core 1,  *)
(* which spins on the request, sees it withdrawn even if the next menu     *)
(* comes soon.                                                             *)
Fairness == WF_vars(StateMachine) /\ WF_vars(BusResume) /\ SF_vars(Core1)
Spec == Init /\ [][Next]_vars /\ Fairness

-----------------------------------------------------------------------------
(* A handler has popped the words of the oldest cycle not yet carried out, *)
(* whatever was posted, parked or acknowledged before it: cycles are       *)
(* carried out once each and in program order (cpu_bus.c 100-103, 123).    *)
InStep ==
  at = "end" => /\ bus_state = Word("address", served)
                /\ handler = "write" => data = Word("data", served)

(* The 8086 is given the answer to the cycle it is in, and a vector only   *)
(* as the second half of an interrupt acknowledge (cpu_bus.c 125-130).     *)
AnswerOwn ==
  sm = "RD_end" => got.cycle = Current /\ (got.vector => kind = "inta")

(* Nothing is left behind when the machine waits for ALE with no handler   *)
(* to come: the FIFOs and the flags are empty and every cycle is done.     *)
NothingLeft ==
  sm = "wait_ALE" /\ handler = "none" /\ ~irq0 =>
    rx = <<>> /\ tx = <<>> /\ ~irq1 /\ ~irq3 /\ ~irq_pending_vector /\ served = started

(* Every cycle the 8086 starts is carried out, through menus and posted    *)
(* writes: no interrupt flag is lost and nothing waits for itself.         *)
CyclesServed == \A c \in 0 .. MaxCycles - 1 : started > c ~> served > c

(* A pause taken in a write: "the CPU stalls on its next one instead"      *)
(* (cpu_bus.c 69-70).  While core 1 is parked the 8086 completes no other  *)
(* cycle than the one core 1 was parked in.                                *)
Completed == IF sm = "wait_ALE" THEN started ELSE Current
StallsOnNext == bus_paused => Completed <= served + 1
=============================================================================
