------------------------------ MODULE SectorDisk ------------------------------
(***************************************************************************)
(* What a hard disk promises to the program that drives it: a request      *)
(* moves its sectors one after the other, in order, each of them whole and *)
(* none but these; it succeeds only when all were moved; the disk never    *)
(* changes size.  A request may fail or be abandoned at any point.  Only   *)
(* when the disk is exchanged in the middle of a request is the rest of it *)
(* promised nothing.  IdeDisk implements this specification.               *)
(***************************************************************************)
EXTENDS Naturals, Sequences

CONSTANTS Disks,       \* what a disk can hold: sequences of sectors
          Requests,    \* records with a command, a first sector and a count
          NoRequest,
          Source(_)    \* what the program writes as its n-th sector

VARIABLES disk, mounts,   \* the disk, and how many there were before it
          request,
          moved,     \* the sectors moved so far, as the program sees them
          outcome,   \* of the last request
          void       \* the disk was exchanged during this request

vars == <<disk, mounts, request, moved, outcome, void>>

Init == /\ disk \in Disks /\ mounts = 0
        /\ request = NoRequest /\ moved = <<>> /\ outcome = "none"
        /\ void = FALSE

Ask == /\ request = NoRequest /\ request' \in Requests /\ outcome' = "none"
       /\ UNCHANGED <<disk, mounts, moved, void>>

Place == request.start + Len(moved) + 1      \* of the next sector

Moves(cmd) == /\ request # NoRequest /\ request.cmd = cmd
              /\ Len(moved) < request.count /\ Place \in DOMAIN disk

Read == /\ Moves("read")
        /\ moved' = Append(moved, disk[Place])
        /\ UNCHANGED <<disk, mounts, request, outcome, void>>

Write == /\ Moves("write")
         /\ disk' = [disk EXCEPT ![Place] = Source(Len(moved))]
         /\ moved' = Append(moved, Source(Len(moved)))
         /\ UNCHANGED <<mounts, request, outcome, void>>

(* A write that fails may have reached the disk.                           *)
Spoil == /\ Moves("write")
         /\ disk' = [disk EXCEPT ![Place] = Source(Len(moved))]
         /\ UNCHANGED <<mounts, request, moved, outcome, void>>

End == /\ request # NoRequest
       /\ outcome' \in {"ok", "failed"}
       /\ outcome' = "ok" /\ request.cmd \in {"read", "write"} =>
            void \/ Len(moved) = request.count
       /\ request' = NoRequest /\ moved' = <<>> /\ void' = FALSE
       /\ UNCHANGED <<disk, mounts>>

Exchange == /\ mounts' = mounts + 1
            /\ void' = (request # NoRequest)
            /\ UNCHANGED <<request, moved, outcome>>

Voided == void /\ void' /\ UNCHANGED <<mounts, request, outcome>>

Next == Ask \/ Read \/ Write \/ Spoil \/ End \/ Exchange \/ Voided

Spec == Init /\ [][Next]_vars
=============================================================================
