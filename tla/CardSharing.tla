----------------------------- MODULE CardSharing -----------------------------
(***************************************************************************)
(* Who may be inside FatFs, and when.                                      *)
(*                                                                         *)
(* Core 1 reaches the card from the bus interrupt, when the guest touches  *)
(* the hard disk (chipset/ide.h).  Core 0 reaches it from its main loop:   *)
(* floppy DMA, the network drive, and the drive menu, which exchanges the  *)
(* very files core 1 reads (app/main.c, ui/osd.c).  Two mechanisms keep    *)
(* them apart: the spinlock of core/fslock.h around each FatFs call, and   *)
(* the bus pause of core/cpu_bus.c that parks core 1 while the menu is up. *)
(*                                                                         *)
(* Time is abstracted to two facts: core 1 executes its own instructions   *)
(* within the 50 ms of bus_pause(), only a FatFs call (a slow card) or a   *)
(* halted guest outlasts them; and core 1 leaves its spin loop before      *)
(* core 0 comes round to another bus_pause().                              *)
(***************************************************************************)
EXTENDS Naturals

CONSTANTS Images,   \* names settings.hdd can hold
          NoImage   \* settings.hdd empty; also: no file open

ASSUME ImagesAssumption == NoImage \notin Images

VARIABLES
  sd_mounted,       \* was a card found at boot
  settings_hdd,     \* settings.hdd
  disk_image,       \* ide.disk_image # nullptr
  hdd_file,         \* the image hdd_file is open on, or NoImage if it is closed
  lock,             \* the spinlock: its holder, or "free"
  bus_pause_req, bus_paused,
  acked,            \* did the last bus_pause() see bus_paused
  halted,           \* the guest sits in HLT and drives no bus cycle
  changed,          \* osd_drive_menu()'s local of that name
  pc0, pc1

hddVars   == <<settings_hdd, disk_image, hdd_file>>
pauseVars == <<bus_pause_req, bus_paused, acked>>
vars == <<sd_mounted, hddVars, lock, pauseVars, halted, changed, pc0, pc1>>

(* Where core 0 is: the main loop, bus_pause()'s wait, the menu, and the   *)
(* FatFs work of each, at its FS_LOCK() or inside.                         *)
InMain   == {"main", "dma_lock", "dma_io"}
InMenu   == {"menu", "browse_lock", "browse_io", "save_lock", "save_io",
             "reload_lock", "reload_close", "reload_clear", "reload_open",
             "reload_publish", "reload_unlock", "resume"}
FatFs0   == {"dma_io", "browse_io", "save_io", "reload_close", "reload_clear",
             "reload_open", "reload_publish", "reload_unlock"}

(* Where core 1 is inside a bus handler; "idle" is outside any.            *)
FatFs1   == {"seek", "xfer"}
Handler  == {"point", "parked", "dispatch", "size", "test", "lock"} \cup FatFs1

TypeOK ==
  /\ sd_mounted \in BOOLEAN
  /\ settings_hdd \in Images \cup {NoImage}
  /\ disk_image \in BOOLEAN
  /\ hdd_file \in Images \cup {NoImage}
  /\ lock \in {"free", "core0", "core1"}
  /\ bus_pause_req \in BOOLEAN /\ bus_paused \in BOOLEAN /\ acked \in BOOLEAN
  /\ halted \in BOOLEAN /\ changed \in BOOLEAN
  /\ pc0 \in InMain \cup {"pause_wait"} \cup InMenu
  /\ pc1 \in Handler \cup {"idle"}

(* main() has run media_reload() and launched core 1.  The image named in  *)
(* the settings may be missing from the card.                              *)
Init ==
  /\ sd_mounted \in BOOLEAN
  /\ settings_hdd \in Images \cup {NoImage}
  /\ hdd_file \in IF sd_mounted THEN {settings_hdd, NoImage} ELSE {NoImage}
  /\ disk_image = (hdd_file # NoImage)
  /\ lock = "free"
  /\ bus_pause_req = FALSE /\ bus_paused = FALSE /\ acked = FALSE
  /\ halted = FALSE /\ changed = FALSE
  /\ pc0 = "main" /\ pc1 = "idle"

-----------------------------------------------------------------------------
(* FS_LOCK() and FS_UNLOCK().                                              *)

Acquire(core) == lock = "free" /\ lock' = core
\* Mutation: each translation unit claims a spinlock of its own.
Lock1OwnSpinlock == lock' = "core1"

Lock1 == Acquire("core1")
Unlock == lock' = "free"

-----------------------------------------------------------------------------
(* Core 1: the bus handlers.                                               *)

Step1(from, to) == pc1 = from /\ pc1' = to

(* A bus cycle and its handler's entry; an INTA cycle ends a HLT.          *)
BusCycle ==
  /\ Step1("idle", "point")
  /\ halted' = FALSE
  /\ UNCHANGED <<sd_mounted, hddVars, lock, pauseVars, changed, pc0>>

(* The guest executes HLT.                                                 *)
Hlt ==
  /\ pc1 = "idle" /\ ~halted
  /\ halted' = TRUE
  /\ UNCHANGED <<sd_mounted, hddVars, lock, pauseVars, changed, pc0, pc1>>

\* Mutation: a handler without the pause point.
PausePointAbsent ==
  /\ Step1("point", "dispatch")
  /\ UNCHANGED <<sd_mounted, hddVars, lock, pauseVars, halted, changed, pc0>>

(* bus_pause_point(), first look at the flag.                              *)
PausePoint ==
  /\ IF bus_pause_req
       THEN Step1("point", "parked") /\ bus_paused' = TRUE
       ELSE Step1("point", "dispatch") /\ UNCHANGED bus_paused
  /\ UNCHANGED <<sd_mounted, hddVars, lock, bus_pause_req, acked, halted, changed, pc0>>

\* Mutation: the acknowledgement is left standing for the next pause.
UnparkStale ==
  /\ ~bus_pause_req
  /\ Step1("parked", "dispatch")
  /\ UNCHANGED <<sd_mounted, hddVars, lock, pauseVars, halted, changed, pc0>>

(* bus_pause_point() leaves its spin loop.                                 *)
Unpark ==
  /\ ~bus_pause_req
  /\ Step1("parked", "dispatch")
  /\ bus_paused' = FALSE
  /\ UNCHANGED <<sd_mounted, hddVars, lock, bus_pause_req, acked, halted, changed, pc0>>

(* The cycle goes to a chip: one that has nothing to do with the card, an  *)
(* IDE command (read_sector, write_sector: is there an image?), or the     *)
(* data port at a sector boundary (straight to load_sector_from_disk or    *)
(* write_sector_to_disk).                                                  *)
Dispatch ==
  /\ \/ Step1("dispatch", "idle")
     \/ Step1("dispatch", "test")
     \/ disk_image /\ Step1("dispatch", "size")
  /\ UNCHANGED <<sd_mounted, hddVars, lock, pauseVars, halted, changed, pc0>>

(* f_size(ide.disk_image), without the lock: out of bounds, or a write     *)
(* command, end here; a read goes on to load the first sector.             *)
SizeCheck ==
  /\ \/ Step1("size", "idle")
     \/ Step1("size", "test")
  /\ UNCHANGED <<sd_mounted, hddVars, lock, pauseVars, halted, changed, pc0>>

TestImage ==
  /\ IF disk_image THEN Step1("test", "lock") ELSE Step1("test", "idle")
  /\ UNCHANGED <<sd_mounted, hddVars, lock, pauseVars, halted, changed, pc0>>

LockCard ==
  /\ Step1("lock", "seek")
  /\ Lock1
  /\ UNCHANGED <<sd_mounted, hddVars, pauseVars, halted, changed, pc0>>

\* Mutation: a failed seek is tried again without end.
SeekRetries ==
  /\ \/ Step1("seek", "xfer")
     \/ Step1("seek", "seek_retry")
  /\ UNCHANGED <<sd_mounted, hddVars, lock, pauseVars, halted, changed, pc0>>
\* Mutation: the failed seek returns without FS_UNLOCK().
SeekKeepsLock ==
  /\ Step1("seek", "xfer") \/ Step1("seek", "idle")
  /\ UNCHANGED <<sd_mounted, hddVars, lock, pauseVars, halted, changed, pc0>>

(* f_lseek() fails and the call is over, or f_read()/f_write() follows.    *)
Seek ==
  /\ \/ Step1("seek", "xfer") /\ UNCHANGED lock
     \/ Step1("seek", "idle") /\ Unlock
  /\ UNCHANGED <<sd_mounted, hddVars, pauseVars, halted, changed, pc0>>

Transfer ==
  /\ Step1("xfer", "idle")
  /\ Unlock
  /\ UNCHANGED <<sd_mounted, hddVars, pauseVars, halted, changed, pc0>>

Core1 == PausePoint \/ Unpark \/ Dispatch \/ SizeCheck \/ TestImage \/ LockCard
         \/ Seek \/ Transfer

-----------------------------------------------------------------------------
(* Core 0: the main loop and the drive menu.                               *)

Step0(from, to) == pc0 = from /\ pc0' = to

(* A FatFs call of core 0 under the lock, one lock for each call: floppy   *)
(* DMA and the network drive from the main loop, the browser from the      *)
(* menu.  save_settings() holds it across open, write and close.           *)
StartCall ==
  /\ \/ Step0("main", "dma_lock")
     \/ Step0("menu", "browse_lock")
  /\ UNCHANGED <<sd_mounted, hddVars, lock, pauseVars, halted, changed, pc1>>

LockCall ==
  /\ \/ Step0("dma_lock", "dma_io")
     \/ Step0("browse_lock", "browse_io")
     \/ Step0("save_lock", "save_io")
  /\ Acquire("core0")
  /\ UNCHANGED <<sd_mounted, hddVars, pauseVars, halted, changed, pc1>>

EndCall ==
  /\ \/ Step0("dma_io", "main")
     \/ Step0("browse_io", "menu")
     \/ Step0("save_io", "reload_lock")
  /\ Unlock
  /\ UNCHANGED <<sd_mounted, hddVars, pauseVars, halted, changed, pc1>>

(* bus_pause(): raise the request.  Core 1 has left an earlier spin loop   *)
(* by now: a round of the main loop lies between.                          *)
BusPause ==
  /\ pc1 = "parked" => bus_pause_req
  /\ Step0("main", "pause_wait")
  /\ bus_pause_req' = TRUE
  /\ acked' = FALSE
  /\ UNCHANGED <<sd_mounted, hddVars, lock, bus_paused, halted, changed, pc1>>

(* ... and wait for core 1 to park,                                        *)
PauseAcknowledged ==
  /\ Step0("pause_wait", "menu")
  /\ bus_paused
  /\ acked' = TRUE
  /\ changed' = FALSE
  /\ UNCHANGED <<sd_mounted, hddVars, lock, bus_pause_req, bus_paused, halted, pc1>>

(* ... but not longer than 50 ms.                                          *)
Outlasts50ms == (pc1 = "idle" /\ halted) \/ pc1 \in FatFs1
\* Mutation: no deadline.
NoDeadline == FALSE

DeadlinePassed == Outlasts50ms
PauseTimeout ==
  /\ Step0("pause_wait", "menu")
  /\ ~bus_paused
  /\ DeadlinePassed
  /\ changed' = FALSE
  /\ UNCHANGED <<sd_mounted, hddVars, lock, pauseVars, halted, pc1>>

(* ENTER on the hard disk row picks an image, DEL ejects it.               *)
PickImage ==
  /\ pc0 = "menu"
  /\ settings_hdd' \in Images \cup {NoImage}
  /\ changed' = TRUE
  /\ UNCHANGED <<sd_mounted, disk_image, hdd_file, lock, pauseVars, halted, pc0, pc1>>

CloseMenu ==
  /\ IF changed THEN Step0("menu", "save_lock") ELSE Step0("menu", "resume")
  /\ UNCHANGED <<sd_mounted, hddVars, lock, pauseVars, halted, changed, pc1>>

BusResume ==
  /\ Step0("resume", "main")
  /\ bus_pause_req' = FALSE
  /\ UNCHANGED <<sd_mounted, hddVars, lock, bus_paused, acked, halted, changed, pc1>>

-----------------------------------------------------------------------------
(* media_reload(), the lock held from end to end.                          *)

ReloadLock ==
  /\ Step0("reload_lock", "reload_close")
  /\ Acquire("core0")
  /\ UNCHANGED <<sd_mounted, hddVars, pauseVars, halted, changed, pc1>>

ReloadClose ==
  /\ Step0("reload_close", "reload_clear")
  /\ hdd_file' = IF disk_image THEN NoImage ELSE hdd_file
  /\ UNCHANGED <<sd_mounted, settings_hdd, disk_image, lock, pauseVars, halted, changed, pc1>>

(* ide.disk_image = nullptr; without a card that is all there is to do.    *)
ReloadClear ==
  /\ disk_image' = FALSE
  /\ IF sd_mounted THEN Step0("reload_clear", "reload_open")
                   ELSE Step0("reload_clear", "reload_unlock")
  /\ UNCHANGED <<sd_mounted, settings_hdd, hdd_file, lock, pauseVars, halted, changed, pc1>>

(* f_open() of what the settings name: it may not be there.                *)
HddNamed == settings_hdd # NoImage
ReloadOpen ==
  /\ \/ HddNamed /\ Step0("reload_open", "reload_publish") /\ hdd_file' = settings_hdd
     \/ Step0("reload_open", "reload_unlock") /\ UNCHANGED hdd_file
  /\ UNCHANGED <<sd_mounted, settings_hdd, disk_image, lock, pauseVars, halted, changed, pc1>>

\* Mutation: the lock is given up before ide.disk_image is published.
ReloadPublishLate ==
  /\ \/ pc0 = "reload_publish" /\ lock = "core0" /\ Unlock /\ UNCHANGED <<pc0, disk_image>>
     \/ Step0("reload_publish", "resume") /\ disk_image' = TRUE /\ UNCHANGED lock
  /\ UNCHANGED <<sd_mounted, settings_hdd, hdd_file, pauseVars, halted, changed, pc1>>

ReloadPublish ==
  /\ Step0("reload_publish", "reload_unlock")
  /\ disk_image' = TRUE
  /\ UNCHANGED <<sd_mounted, settings_hdd, hdd_file, lock, pauseVars, halted, changed, pc1>>

ReloadUnlock ==
  /\ Step0("reload_unlock", "resume")
  /\ Unlock
  /\ UNCHANGED <<sd_mounted, hddVars, pauseVars, halted, changed, pc1>>

Reload == ReloadLock \/ ReloadClose \/ ReloadClear \/ ReloadOpen \/ ReloadPublish
          \/ ReloadUnlock

Core0 == LockCall \/ EndCall \/ PauseAcknowledged \/ PauseTimeout \/ BusResume \/ Reload

Operator == StartCall \/ BusPause \/ PickImage \/ CloseMenu

Guest == BusCycle \/ Hlt

Next == Guest \/ Core1 \/ Core0 \/ Operator

(* Core 1's handlers and core 0's straight-line code run; a guest that is  *)
(* not halted keeps fetching; the spinlock register is free again and      *)
(* again, for many polls of the other core each time.                      *)
Fairness ==
  /\ WF_vars(Core1) /\ WF_vars(Core0) /\ WF_vars(~halted /\ BusCycle)
  /\ SF_vars(LockCard) /\ SF_vars(LockCall) /\ SF_vars(ReloadLock)

Spec == Init /\ [][Next]_vars /\ Fairness

-----------------------------------------------------------------------------
(* FatFs has one window buffer for the volume: the two cores are never     *)
(* inside it together (fslock.h 12-17), whether or not the pause worked.   *)
FatFsExclusive == ~(pc0 \in FatFs0 /\ pc1 \in FatFs1)

(* The file core 1 sizes, seeks or reads through ide.disk_image is open:   *)
(* it is not closed between the test of the pointer and its last use,      *)
(* "a use of a closed file from an interrupt" (main.c 94-98).              *)
OpenImageUsed == pc1 \in {"size"} \cup FatFs1 => disk_image /\ hdd_file # NoImage

(* Once bus_pause() has seen the acknowledgement, core 1 stays parked at   *)
(* its pause point until the menu is gone (osd.c 171-179).                 *)
AckedMeansParked == acked /\ pc0 \in InMenu => pc1 = "parked"

(* bus_pause() returns, whatever the guest is doing: running, halted, or   *)
(* in the middle of a sector on a slow card (cpu_bus.c 79-88).             *)
PauseReturns == pc0 = "pause_wait" ~> pc0 = "menu"

(* A sector access of the guest that waits for the card gets it and ends,  *)
(* although core 0 keeps using the card (fslock.h 23-32).                  *)
SectorEnds == pc1 = "lock" ~> pc1 = "idle"

(* The promise of DriveBay, over who is inside FatFs (not over the lock).  *)
CardUser == IF pc1 \in FatFs1 THEN "core1"
            ELSE IF pc0 \in FatFs0 THEN "core0" ELSE "nobody"
Bay == INSTANCE DriveBay WITH user <- CardUser,
                              image <- IF disk_image THEN hdd_file ELSE NoImage
(* One user of the card at a time; the image changes only under core 0.    *)
ImplementsDriveBay == Bay!Spec
=============================================================================
