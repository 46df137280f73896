------------------------------ MODULE DriveBay ------------------------------
(***************************************************************************)
(* What the two cores promise each other about the memory card: one user   *)
(* at a time, and a disk image is exchanged only by core 0, only while     *)
(* core 0 is that user.  A sector transfer of the guest (core 1 using the  *)
(* card) therefore starts and ends on one and the same image.              *)
(* CardSharing implements this specification.                              *)
(***************************************************************************)
CONSTANTS Images,   \* the .img files a drive can be pointed at
          NoImage   \* an empty drive

VARIABLES user,     \* the core that is inside FatFs, or "nobody"
          image     \* what the hard disk model would read from

vars == <<user, image>>

Cores == {"core0", "core1"}

Init == user = "nobody" /\ image \in Images \cup {NoImage}

Enter(c) == user = "nobody" /\ user' = c /\ UNCHANGED image

Leave(c) == user = c /\ user' = "nobody" /\ UNCHANGED image

Exchange == /\ user = "core0"
            /\ image' \in Images \cup {NoImage}
            /\ UNCHANGED user

Next == (\E c \in Cores : Enter(c) \/ Leave(c)) \/ Exchange

Spec == Init /\ [][Next]_vars
=============================================================================
