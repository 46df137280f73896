----------------------------- MODULE FloppyDrive -----------------------------
(***************************************************************************)
(* What the floppy controller, the DMA channel and core 0 promise together *)
(* to a BIOS that waits for its interrupt: an order they accept is carried *)
(* out once, as it was given, and answered only then; nothing is moved     *)
(* that was not ordered.  FloppyDma implements this specification.         *)
(***************************************************************************)
EXTENDS Sequences

CONSTANTS Orders,  \* what can be asked: from where to where, how much
          NoOrder

VARIABLES order,   \* the order accepted and not yet answered
          moved    \* what has been moved since it was accepted

vars == <<order, moved>>

Init == order = NoOrder /\ moved = <<>>

Accept == /\ order = NoOrder /\ order' \in Orders
          /\ UNCHANGED moved

Move == /\ order # NoOrder /\ moved = <<>>
        /\ moved' = <<order>>
        /\ UNCHANGED order

Answer == /\ order # NoOrder /\ moved = <<order>>
          /\ order' = NoOrder /\ moved' = <<>>

Next == Accept \/ Move \/ Answer

Spec == Init /\ [][Next]_vars
=============================================================================
