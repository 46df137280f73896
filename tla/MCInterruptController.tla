----------------------- MODULE MCInterruptController -----------------------
(* InterruptController with the ICW1 of a PC/XT BIOS: one controller, with *)
(* an ICW4 (13h).                                                          *)
EXTENDS InterruptController

XtIcw1s == {[sngl |-> TRUE, ic4 |-> TRUE]}
=============================================================================
