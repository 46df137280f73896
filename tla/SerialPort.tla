------------------------------ MODULE SerialPort ------------------------------
(***************************************************************************)
(* COM1 with a mouse on it (chipset/uart16550.h): a ring that core 0 fills *)
(* with the mouse's packets and core 1 empties when the guest reads, with  *)
(* no lock.  A guest that raises DTR or RTS makes core 1 push the mouse's  *)
(* letter M itself: then the ring has two producers.                       *)
(*                                                                         *)
(* Loads and stores that the other core can come between with a difference *)
(* are steps of their own, in the source's order.  ReadByte takes a byte   *)
(* and moves rx_tail in one: no producer writes the slot at rx_tail before *)
(* it moves.  Bytes are numbered as they are stored.                       *)
(***************************************************************************)
EXTENDS Naturals

CONSTANTS RingSize,   \* 16 in the code
          MaxBytes    \* bound: no byte comes once so many are stored

SerialAssumption == RingSize \in Nat \ {0, 1} /\ MaxBytes \in Nat

Producers == {"core0", "core1"}

VARIABLES
  rx_fifo, rx_head, rx_tail, data_ready,
  ier, dtr, irr4,
  push,      \* where each core is in uart_write_byte()
  slot,      \* rx_head as each has loaded it
  read, more,    \* core 1 in uart_read(), and the answer it stores
  accepted, reads, \* history: bytes stored, and taken out again
  got,           \* history: the last one the guest has read
  collided       \* history: both cores were in uart_write_byte() at once

ring  == <<rx_fifo, rx_head, rx_tail>>
lines == <<ier, dtr>>
pushVars == <<push, slot>>
readVars == <<read, more>>
history == <<accepted, reads, got, collided>>
vars == <<ring, data_ready, lines, irr4, pushVars, readVars, history>>

Slots == 0 .. RingSize - 1

TypeOK ==
  /\ rx_fifo \in [Slots -> 0 .. accepted] /\ rx_head \in Slots /\ rx_tail \in Slots
  /\ {data_ready, ier, dtr, irr4, more, collided} \subseteq BOOLEAN
  /\ push \in [Producers -> {"idle", "test", "store", "head", "ready", "irq"}]
  /\ slot \in [Producers -> Slots]
  /\ read \in {"idle", "decide", "store"}
  /\ accepted \in Nat /\ reads \in Nat /\ got \in 0 .. accepted

Init ==
  /\ rx_fifo = [s \in Slots |-> 0] /\ rx_head = 0 /\ rx_tail = 0
  /\ data_ready = FALSE /\ ier = FALSE /\ dtr = FALSE /\ irr4 = FALSE
  /\ push = [p \in Producers |-> "idle"] /\ slot = [p \in Producers |-> 0]
  /\ read = "idle" /\ more = FALSE
  /\ accepted = 0 /\ reads = 0 /\ got = 0 /\ collided = FALSE

-----------------------------------------------------------------------------
(* uart_write_byte() by core p.                                            *)

At(p, step) == push[p] = step
Goto(p, step) == push' = [push EXCEPT ![p] = step]

NextSlot(s) == (s + 1) % RingSize

\* Mutation: a full ring is not noticed.
NeverFull(head) == TRUE
HasRoom(head) == NextSlot(head) # rx_tail

(* Load rx_head.                                                           *)
Enter(p) ==
  /\ At(p, "idle") /\ accepted < MaxBytes
  /\ Goto(p, "test")
  /\ slot' = [slot EXCEPT ![p] = rx_head]
  /\ collided' = (collided \/ \E q \in Producers \ {p} :
                                push[q] \in {"test", "store", "head"})

(* A byte that finds the ring full is dropped in silence.                  *)
PushTest(p) ==
  /\ At(p, "test")
  /\ IF HasRoom(slot[p]) THEN Goto(p, "store") ELSE Goto(p, "idle")
  /\ UNCHANGED <<ring, data_ready, lines, irr4, slot, readVars, history>>

(* The structure is not volatile: whether the build loads rx_head again or *)
(* keeps the value it has is open.                                         *)
PushStore(p) ==
  /\ At(p, "store") /\ Goto(p, "head")
  /\ \E at \in {slot[p], rx_head} :
       rx_fifo' = [rx_fifo EXCEPT ![at] = accepted + 1]
  /\ accepted' = accepted + 1
  /\ UNCHANGED <<rx_head, rx_tail, data_ready, lines, irr4, slot, readVars,
                 reads, got, collided>>

PushHead(p) ==
  /\ At(p, "head") /\ Goto(p, "ready")
  /\ rx_head' = NextSlot(slot[p])
  /\ UNCHANGED <<rx_fifo, rx_tail, data_ready, lines, irr4, slot, readVars,
                 history>>

PushReady(p) ==
  /\ At(p, "ready") /\ Goto(p, "irq")
  /\ data_ready' = TRUE
  /\ UNCHANGED <<ring, lines, irr4, slot, readVars, history>>

PushIrq(p) ==
  /\ At(p, "irq") /\ Goto(p, "idle")
  /\ irr4' = (irr4 \/ ier)
  /\ UNCHANGED <<ring, data_ready, lines, slot, readVars, history>>

(* Core 0: a byte of a mouse packet.                                       *)
MouseByte ==
  /\ Enter("core0")
  /\ UNCHANGED <<ring, data_ready, lines, irr4, readVars, accepted, reads, got>>

-----------------------------------------------------------------------------
(* Core 1 does one bus cycle at a time.                                    *)
Core1Free == At("core1", "idle") /\ read = "idle"

(* MCR: M is sent when DTR or RTS rises (whether a mouse is there or not). *)
WriteMcr ==
  /\ Core1Free
  /\ dtr' = ~dtr
  /\ \/ ~dtr /\ Enter("core1")
     \/ dtr /\ UNCHANGED <<slot, push, collided>>
  /\ UNCHANGED <<ring, data_ready, ier, irr4, readVars, accepted, reads, got>>

WriteIer ==
  /\ Core1Free /\ ier' = ~ier
  /\ UNCHANGED <<ring, data_ready, dtr, irr4, pushVars, readVars, history>>

(* RBR: take a byte if there is one, then decide and store data_ready.     *)
ReadByte ==
  /\ Core1Free
  /\ \/ /\ rx_tail # rx_head
        /\ got' = rx_fifo[rx_tail] /\ reads' = reads + 1
        /\ rx_tail' = NextSlot(rx_tail)
        /\ read' = "decide" /\ UNCHANGED more
     \/ /\ rx_tail = rx_head
        /\ read' = "store" /\ more' = FALSE
        /\ UNCHANGED <<got, reads, rx_tail>>
  /\ UNCHANGED <<rx_fifo, rx_head, data_ready, lines, irr4, pushVars, accepted, collided>>

ReadDecide ==
  /\ read = "decide" /\ read' = "store"
  /\ more' = (rx_tail # rx_head)
  /\ UNCHANGED <<ring, data_ready, lines, irr4, pushVars, history>>

ReadStore ==
  /\ read = "store" /\ read' = "idle" /\ more' = FALSE
  /\ data_ready' = more
  /\ UNCHANGED <<ring, lines, irr4, pushVars, history>>

(* The interrupt controller hands request 4 to the guest.                  *)
TakeIrq ==
  /\ irr4 /\ irr4' = FALSE
  /\ UNCHANGED <<ring, data_ready, lines, pushVars, readVars, history>>

Next ==
  \/ MouseByte
  \/ \E p \in Producers : \/ PushTest(p) \/ PushStore(p) \/ PushHead(p)
                          \/ PushReady(p) \/ PushIrq(p)
  \/ WriteMcr \/ WriteIer \/ ReadByte \/ ReadDecide \/ ReadStore \/ TakeIrq

Spec == Init /\ [][Next]_vars

-----------------------------------------------------------------------------
(* The n-th byte that the guest takes out of the ring is the n-th that was *)
(* stored: none is read twice, none is left out, however the two cores     *)
(* interleave.  A collision is excepted, which the ring does not survive:  *)
(* both cores in uart_write_byte() before the head has moved.  A read of   *)
(* the empty ring takes nothing and is not counted.                        *)
BytesInOrder == [][~collided /\ reads' # reads => got' = reads']_vars
=============================================================================
