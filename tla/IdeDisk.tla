------------------------------- MODULE IdeDisk -------------------------------
(***************************************************************************)
(* The hard disk of the guest (chipset/ide.h): ATA registers, a sector     *)
(* buffer filled or emptied word by word, and an image file on the card    *)
(* that core 1 reads and writes inside the bus interrupt.  The guest is a  *)
(* BIOS disk driver: select, load the registers, issue, poll, transfer,    *)
(* poll again; it may be restarted anywhere.  The drive menu may exchange  *)
(* the image between any two bus cycles (app/main.c 92-139).               *)
(*                                                                         *)
(* Numbers are scaled: a register counts modulo Byte, the uint32_t of an   *)
(* LBA modulo Word32, and LBA HIGH with the bits above it is left out.     *)
(***************************************************************************)
EXTENDS Naturals, Sequences

CONSTANTS
  Byte, Word32,       \* 256, 2^32
  heads, sectors,     \* 16, 63: the geometry the code assumes
  Words,              \* 256: words in a sector
  Sizes,              \* the images: their sizes in sectors
  Addressing,         \* which of AllAddressing the guest uses
  Counts, LastStart,  \* bounds: sector counts and first sectors asked for
  MaxRequests, MaxExchanges

AllAddressing == {"lba", "chs", "chs long", "chs zero"}

ASSUME IdeAssumption ==
  /\ {Byte, Word32, heads, sectors, Words} \subseteq Nat \ {0}
  /\ sectors < Byte /\ Byte * Byte < Word32
  /\ Sizes \subseteq 1 .. Word32
  /\ Addressing \subseteq AllAddressing
  /\ Counts \subseteq 0 .. Byte - 1
  /\ LastStart \in Nat /\ LastStart + Byte <= Byte * Byte
  /\ MaxRequests \in Nat /\ MaxExchanges \in Nat

VARIABLES
  images,           \* the image files: name (its first size) |-> its sectors
  disk_image,       \* the name of the mounted one, 0: nullptr
  device, low, mid, count,    \* registers; device is the mode and the head
  status, current_command, sector_buffer, buffer_index, sectors_remaining,
  guest,            \* where the driver is
  request, moved,   \* what it was asked for, the sectors it has seen through
  part,             \* the words of the sector in hand
  outcome,          \* what it made of the last request
  void,             \* history: the image was exchanged during the request
  requests, exchanges

regs   == <<device, low, mid, count>>
drive  == <<status, current_command, sector_buffer, buffer_index, sectors_remaining>>
driver == <<guest, request, moved, part, outcome>>
vars == <<images, disk_image, regs, drive, driver, void, requests, exchanges>>

Sector(tag) == [i \in 1 .. Words |-> <<tag, i>>]
Old(n)      == Sector(<<"old", n>>)
Source(n)   == Sector(<<"new", n>>)
Hole        == Sector(<<"hole", 0>>)       \* where a file was extended
Identify    == Sector(<<"identify", 0>>)
Nothing     == Sector(<<"nothing", 0>>)

(* The sector a register setting names, and how many there are from it on. *)
Linear(d, l, m) ==
  IF d.lba THEN l + m * Byte
           ELSE ((m * heads + d.head) * sectors + l + Word32 - 1) % Word32
Total(n) == IF n = 0 THEN Byte ELSE n

Style(d, l, n) ==
  CASE d.lba                                   -> "lba"
    [] ~d.lba /\ l = 0                         -> "chs zero"
    [] ~d.lba /\ l # 0 /\ l + Total(n) > Byte  -> "chs long"
    [] ~d.lba /\ l # 0 /\ l + Total(n) <= Byte -> "chs"

Devices  == [lba : {TRUE}, head : {0}] \cup [lba : {FALSE}, head : 0 .. heads - 1]
Bytes    == 0 .. Byte - 1
Commands == {"read", "write", "verify", "identify", "noop", "unknown"}
Request(cmd, d, l, m, n) == [cmd |-> cmd, start |-> Linear(d, l, m), count |-> Total(n)]
NoRequest == [cmd |-> "none", start |-> 0, count |-> 0]
Requests == [cmd : Commands, start : 0 .. Word32 - 1, count : 1 .. Byte]

TypeOK ==
  /\ DOMAIN images = Sizes
  /\ \A i \in Sizes : Len(images[i]) <= Word32
  /\ disk_image \in Sizes \cup {0}
  /\ device \in Devices /\ {low, mid, count} \subseteq Bytes
  /\ status \in {"zero", "busy", "ready", "drq", "error"}
  /\ current_command \in Commands \cup {"none"}
  /\ DOMAIN sector_buffer = 1 .. Words /\ buffer_index \in 0 .. Words - 1
  /\ sectors_remaining \in 0 .. Byte
  /\ guest \in {"idle", "issue", "poll", "transfer"}
  /\ request \in Requests \cup {NoRequest}
  /\ Len(moved) <= Byte /\ Len(part) <= Words
  /\ outcome \in {"none", "ok", "failed"} /\ void \in BOOLEAN
  /\ requests \in 0 .. MaxRequests /\ exchanges \in 0 .. MaxExchanges

Init ==
  /\ images = [i \in Sizes |-> [n \in 1 .. i |-> Old(n)]]
  /\ disk_image \in Sizes
  /\ device = [lba |-> FALSE, head |-> 0] /\ low = 0 /\ mid = 0 /\ count = 0
  /\ status = "zero" /\ current_command = "none"
  /\ sector_buffer = Nothing /\ buffer_index = 0 /\ sectors_remaining = 0
  /\ guest = "idle" /\ request = NoRequest /\ moved = <<>> /\ part = <<>>
  /\ outcome = "none" /\ void = FALSE /\ requests = 0 /\ exchanges = 0

-----------------------------------------------------------------------------
(* The image file, under the FatFs lock.  f_lseek() past the end of a file *)
(* that is open for writing extends it.                                    *)

Extend(file, size) == file \o [n \in 1 .. (IF size > Len(file) THEN size - Len(file)
                                           ELSE 0) |-> Hole]
At(file, lba) == IF lba < Len(file) THEN file[lba + 1] ELSE Nothing
Put(file, lba, sector) == [Extend(file, lba + 1) EXCEPT ![lba + 1] = sector]

(* ok is whether the caller sees a result of 0.                            *)
load_sector_from_disk(lba, ok) ==
  \/ /\ disk_image # 0
     /\ images' = [images EXCEPT ![disk_image] = Extend(@, lba)]
     /\ \/ ok /\ sector_buffer' = At(images[disk_image], lba)
        \/ ~ok /\ UNCHANGED sector_buffer        \* f_read() fails
  \/ /\ ~ok                                     \* no disk, or f_lseek() fails
     /\ UNCHANGED <<images, sector_buffer>>

write_sector_to_disk(lba, sector, ok) ==
  \/ /\ disk_image # 0                          \* also when it fails half-way
     /\ images' = [images EXCEPT ![disk_image] = Put(@, lba, sector)]
  \/ /\ ~ok
     /\ UNCHANGED images

-----------------------------------------------------------------------------
(* Commands.                                                               *)

ide_get_lba == Linear(device, low, mid)

\* Mutation: the carry into the next register is lost.
LowOnly == low' = (low + 1) % Byte /\ UNCHANGED <<device, mid, count>>
\* Mutation: the register is wider than a byte.
WideLow == low' = low + 1 /\ UNCHANGED <<device, mid, count>>
increment_lba_regs ==
  /\ low' = (low + 1) % Byte
  /\ mid' = IF low' = 0 THEN (mid + 1) % Byte ELSE mid
  /\ UNCHANGED <<device, count>>

InBounds == (ide_get_lba + Total(count)) % Word32 <= Len(images[disk_image])

\* Mutation: a refusal leaves the drive busy.
StayBusy == status' = "busy" /\ UNCHANGED <<images, sector_buffer, sectors_remaining>>
Refuse == status' = "error" /\ UNCHANGED <<images, sector_buffer, sectors_remaining>>

read_sector ==
  \/ (disk_image # 0 => ~InBounds) /\ Refuse
  \/ /\ disk_image # 0 /\ InBounds
     /\ \E ok \in BOOLEAN :
          /\ load_sector_from_disk(ide_get_lba, ok)
          /\ status' = IF ok THEN "drq" ELSE "error"
          /\ sectors_remaining' = IF ok THEN Total(count) ELSE sectors_remaining

write_sector ==
  \/ (disk_image # 0 => ~InBounds) /\ Refuse
  \/ /\ disk_image # 0 /\ InBounds
     /\ status' = "drq" /\ sectors_remaining' = Total(count)
     /\ UNCHANGED <<images, sector_buffer>>

read_verify ==
  /\ status' = IF disk_image # 0 => InBounds THEN "ready" ELSE "error"
  /\ UNCHANGED <<images, sector_buffer, sectors_remaining>>

ide_identify ==
  /\ sector_buffer' = Identify /\ status' = "drq"
  /\ UNCHANGED <<images, sectors_remaining>>

(* ide_set_busy() comes first and is gone before the bus cycle is over.    *)
handle_command(cmd) ==
  /\ current_command' = cmd /\ buffer_index' = 0
  /\ \/ cmd = "identify" /\ ide_identify
     \/ cmd = "read" /\ read_sector
     \/ cmd = "write" /\ write_sector
     \/ cmd = "verify" /\ read_verify
     \/ /\ cmd = "noop" /\ status' = "ready"
        /\ UNCHANGED <<images, sector_buffer, sectors_remaining>>
     \/ cmd = "unknown" /\ Refuse

-----------------------------------------------------------------------------
(* The data port.                                                          *)

Less == IF sectors_remaining > 0 THEN sectors_remaining - 1 ELSE 0

(* A word read: the last one of a sector fetches the next sector.          *)
ReadData ==
  /\ buffer_index' = (buffer_index + 1) % Words
  /\ UNCHANGED current_command
  /\ IF buffer_index' # 0
       THEN UNCHANGED <<images, sector_buffer, status, sectors_remaining, regs>>
     ELSE IF current_command # "read"
       THEN /\ status' = "ready"
            /\ UNCHANGED <<images, sector_buffer, sectors_remaining, regs>>
     ELSE /\ sectors_remaining' = Less
          /\ \/ /\ Less = 0 /\ status' = "ready"
                /\ UNCHANGED <<images, sector_buffer, regs>>
             \/ /\ Less # 0 /\ increment_lba_regs
                /\ \E ok \in BOOLEAN :
                     /\ load_sector_from_disk(Linear(device', low', mid'), ok)
                     /\ status' = IF ok THEN "drq" ELSE "error"

(* A word written: the last one of a sector sends it to the card.          *)
WriteData(word) ==
  /\ sector_buffer' = [sector_buffer EXCEPT ![buffer_index + 1] = word]
  /\ buffer_index' = (buffer_index + 1) % Words
  /\ UNCHANGED current_command
  /\ IF buffer_index' # 0
       THEN UNCHANGED <<images, status, sectors_remaining, regs>>
     ELSE IF current_command # "write"
       THEN /\ status' = "ready"
            /\ UNCHANGED <<images, sectors_remaining, regs>>
     ELSE \E ok \in BOOLEAN :
          /\ write_sector_to_disk(ide_get_lba, sector_buffer', ok)
          /\ \/ /\ ~ok /\ status' = "error"
                /\ UNCHANGED <<sectors_remaining, regs>>
             \/ /\ ok /\ sectors_remaining' = Less
                /\ IF Less = 0 THEN status' = "ready" /\ UNCHANGED regs
                               ELSE status' = "drq" /\ increment_lba_regs

-----------------------------------------------------------------------------
(* The guest's disk driver (external).  Each step is one bus access, but   *)
(* for the first: nothing looks at the registers it loads until the        *)
(* command comes.  A command without an address is asked in one way only.  *)

Asked(cmd, d, l, m, n) ==
  IF cmd \in {"read", "write", "verify"}
    THEN /\ Style(d, l, n) \in Addressing
         /\ Linear(d, l, m) <= LastStart \/ Style(d, l, n) = "chs zero"
    ELSE d.lba /\ l = 0 /\ m = 0 /\ n = 1

Start(cmd, d, l, m, n) ==
  /\ guest = "idle" /\ requests < MaxRequests
  /\ Asked(cmd, d, l, m, n)
  /\ guest' = "issue" /\ requests' = requests + 1
  /\ request' = Request(cmd, d, l, m, n) /\ outcome' = "none"
  /\ device' = d /\ low' = l /\ mid' = m /\ count' = n
  /\ status' = IF disk_image # 0 THEN "ready" ELSE status   \* ide_write(DEVICE)
  /\ UNCHANGED <<images, disk_image, current_command, sector_buffer,
                 buffer_index, sectors_remaining, moved, part, void, exchanges>>

Issue ==
  /\ guest = "issue" /\ guest' = "poll"
  /\ handle_command(request.cmd)
  /\ UNCHANGED <<disk_image, regs, request, moved, part, outcome, void,
                 requests, exchanges>>

AllMoved == request.cmd \in {"read", "write"} => Len(moved) = request.count

EndRequest(result) ==
  /\ guest' = "idle" /\ outcome' = result
  /\ request' = NoRequest /\ moved' = <<>> /\ part' = <<>> /\ void' = FALSE
  /\ UNCHANGED <<images, disk_image, regs, drive, requests, exchanges>>

Poll ==
  /\ guest = "poll"
  /\ \/ /\ status = "drq" /\ request.cmd \in {"read", "write", "identify"}
        /\ guest' = "transfer"
        /\ UNCHANGED <<images, disk_image, regs, drive, request, moved, part,
                       outcome, void, requests, exchanges>>
     \/ /\ status \notin {"drq", "busy"}
        /\ EndRequest(IF status = "ready" /\ AllMoved THEN "ok" ELSE "failed")

(* One word of the sector in hand.                                         *)
Transfer ==
  /\ guest = "transfer"
  /\ LET word == IF request.cmd = "write" THEN Source(Len(moved))[Len(part) + 1]
                                          ELSE sector_buffer[buffer_index + 1]
         whole == Len(part) + 1 = Words
         through == /\ whole
                    /\ \/ request.cmd = "read"
                       \/ request.cmd = "write" /\ status' # "error"
     IN /\ IF request.cmd = "write" THEN WriteData(word) ELSE ReadData
        /\ part' = IF whole THEN <<>> ELSE Append(part, word)
        /\ guest' = IF whole THEN "poll" ELSE "transfer"
        /\ moved' = IF through THEN Append(moved, Append(part, word)) ELSE moved
  /\ UNCHANGED <<disk_image, request, outcome, void, requests, exchanges>>

(* A time-out or Ctrl+Alt+Del: the drive is left as it is.                 *)
Restart == guest # "idle" /\ EndRequest("failed")

(* media_reload() from the drive menu: another image, or none.             *)
Exchange ==
  /\ exchanges < MaxExchanges /\ exchanges' = exchanges + 1
  /\ disk_image' \in (Sizes \cup {0}) \ {disk_image}
  /\ void' = (request # NoRequest)
  /\ UNCHANGED <<images, regs, drive, driver, requests>>

Next ==
  \/ \E cmd \in Commands, d \in Devices, l, m \in Bytes, n \in Counts :
       Start(cmd, d, l, m, n)
  \/ Issue \/ Poll \/ Transfer \/ Restart \/ Exchange

(* The driver goes on with what it began; the drive itself answers within  *)
(* the bus cycle.                                                          *)
Spec == Init /\ [][Next]_vars
             /\ WF_vars(Issue) /\ WF_vars(Poll) /\ WF_vars(Transfer)

-----------------------------------------------------------------------------
(* What a driver gets and leaves on the disk is what it asked for, in      *)
(* order and whole, or it is told of a failure.                            *)
Disk == INSTANCE SectorDisk WITH
          Disks  <- {[n \in 1 .. i |-> Old(n)] : i \in Sizes},
          disk   <- IF disk_image = 0 THEN <<>> ELSE images[disk_image],
          mounts <- exchanges
ImplementsSectorDisk == Disk!Spec

(* Every request comes to an end: the drive never leaves the driver        *)
(* without the data request or the end it polls for.                       *)
RequestsEnd == guest # "idle" ~> guest = "idle"

(* "Check of the disk's bounds" (ide.h 231, 262): no request reaches past  *)
(* the image, so none makes it grow.                                       *)
StaysOnDisk == [][\A i \in Sizes : Len(images'[i]) = Len(images[i])]_vars
=============================================================================
