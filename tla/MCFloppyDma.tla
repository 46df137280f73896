---------------------------- MODULE MCFloppyDma ----------------------------
(* FloppyDma with a byte of two values: addresses and counts of two bits,  *)
(* and one job for each path through the controller.                       *)
EXTENDS FloppyDma

Job(cmd, drive, place, address, count, type, auto) ==
  [cmd |-> cmd, drive |-> drive, place |-> place, address |-> address,
   count |-> count, type |-> type, auto |-> auto]
Other(cmd, drive) == Job(cmd, drive, 0, 0, 0, "verify", FALSE)

BiosJobs ==
  { Job("read", 0, 0, 1, 2, "write", FALSE), Job("read", 1, 1, 2, 1, "write", TRUE),
    Job("read", 0, 1, 3, 1, "verify", FALSE), Job("read", 2, 0, 0, 0, "write", FALSE),
    Job("write", 0, 1, 3, 2, "read", FALSE),
    Other("seek", 1), Other("recalibrate", 2), Other("specify", 0),
    Other("sense_drive", 1), Other("read_id", 0), Other("unknown", 0), Other("reset", 0) }
=============================================================================
