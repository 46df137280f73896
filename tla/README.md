# Verification of frank-xt8086

TLA+ specifications of the firmware that turns an RP2350 into the chipset of a
PC/XT around a real 8086: what its two cores, its interrupt handlers and its PIO
state machine may do to each other, and what its devices promise the guest. TLC
checks the specifications on small instances; TLAPS proves all the safety
properties that the passing runs check, and all six refinements, for every
instance under the assumptions that section 5 names. Liveness is model-checked.

Paths below are relative to `src/src/`, line numbers refer to the files there.

## 1. Inventory

A guest (the 8086 and whatever software runs on it) drives bus cycles. A PIO
state machine stretches or posts each one and interrupts **core 1**, whose two
handlers decode the address and run the chip models: nearly every chip's state
is written from there. **Core 0** runs one endless loop: it carries out the
transfers that are too slow for a bus cycle (floppy DMA, network drive, audio),
polls USB, draws, and stops in the drive menu. A hardware timer interrupts
core 0 for the 8086's clock tick.

| Component | State | Operations | Meets |
|---|---|---|---|
| FatFs lock and bus pause (`core/fslock.*`, `core/cpu_bus.c` 60-93, `app/main.c` 83-142, `ui/osd.c` 163-239) | the spinlock, `bus_pause_req`, `bus_paused`, `settings`, the image files | FS_LOCK/UNLOCK, bus_pause, bus_resume, bus_pause_point, media_reload, the menu | both cores, the card |
| IDE disk (`chipset/ide.h`) | task file, status, sector buffer, `disk_image` | commands, words at the data port, sectors to and from the image | the card from the bus interrupt, `media_reload()` |
| Interrupt controller (`chipset/i8259.h`, `core/memory.h` 51-77) | IRR, ISR, IMR, initialization step | ICW/OCW writes, acknowledge, raise, reset by a read of 0:0472 | every chip, both cores, the INTR pin |
| Core 1 loop (`app/main.c` 163-184) | INTR, the event register | evaluate, drive the pin, WFE | interrupt controller |
| Bus machine and handlers (`core/i8086_bus.pio`, `core/cpu_bus.c` 95-134) | RX and TX FIFO, three PIO flags, `irq_pending_vector` | read, write, INTA pair, pause point | guest, all chips |
| Interval timer (`chipset/i8253.h`) | three counters, latch and access state | callback on core 0, port reads and writes on core 1 | interrupt controller, audio |
| Floppy controller and DMA (`chipset/i8272.h`, `chipset/i8237.h`, `app/main.c` 401-443) | command and result phases, channel registers, `dreq`, `finished` | port handlers on core 1; core 0 transfers, counts down, raises IRQ 6 | the card, interrupt controller |
| Keyboard (`drivers/usbhid/hid_app.c`, `core/ports.h` 60h/61h, `app/main.c` 199-226) | queue of 32, typematic, `scancode`, the 50 ms deadline | reports, repeat, hand-over, acknowledgement, injected break codes | menu, interrupt controller |
| Network drive (`chipset/redirector.c`, `tools/dos/redir.asm`) | the register window, `pending` and `done`, file handles | the resident program's port accesses; core 0's task | the card, guest memory, resets |
| Real-time clock (`chipset/mc146818.c`, `drivers/rtc`) | registers, SET, dirty flag, fallback | tick and flush on core 0, ports on core 1 | I2C, the date's editor |
| Serial port and mouse (`chipset/uart16550.h`) | 16-entry receive FIFO, DTR | both cores append, core 1 pops | interrupt controller |
| Drive menu, SETUP (`ui/`) | `settings`, their file, the browser | pick, eject, save, discard, reload | FatFs, pause, keyboard |
| Port and memory decoding (`core/ports.h`, `core/memory.h`) | none of its own | select a chip | all chips |
| Audio (`drivers/audio`, `chipset/adlib.c`) | double buffer, `refill` | DMA interrupt, task | - |
| Video (`chipset/vgacard`, `drivers/vga`, `drivers/graphics`) | pixels | scan-out, mode changes | - |
| SD card driver (`drivers/sdcard/sdcard.c`) | `Stat`, `CardType`, the card's transfer | initialize, read, write | FatFs |
| FatFs, OPL2, TinyUSB | vendored | - | - |
| Boot, CPU probe, clock (`app/main.c` `main`, `core/cpu_probe.c`) | run once, before core 1 starts | - | settings |

### What is hard here

* **Two cores without an operating system.** Shared bytes are plain memory:
  `irr |= bit` on core 0 and `irr &= ~bit` in a handler of core 1 are a load and
  a store each. FatFs is compiled without re-entrancy and has one window buffer.
* **Posted writes.** The 8086 goes on while its write is still being handled;
  the next cycle, a pause, or a second write meets the unfinished one.
* **Parking.** The menu stops the guest by parking core 1 inside a bus handler,
  acknowledged by a flag and bounded by 50 ms, because a halted guest drives no
  cycle that could be parked.
* **Sleep.** Core 1 waits for an event between its reads of the request register;
  core 0 raises requests without sending one.
* **Nested handlers.** The 8259 model lets any line interrupt any handler, and a
  non-specific EOI retires the highest line, not the innermost.
* **Warm boots** that reset nothing, and a chip model that recognises POST by
  the address of one of its reads.
* **Slow completions**: floppy and network-drive results that arrive after the
  guest has timed out, retried or rebooted.
* **Firmware that outlives the guest.** A reboot of the 8086 resets none of the
  firmware's state: open handles, scancodes, half-finished transfers.
* **Registers written one byte at a time** from one core while the other copies
  them (clock, serial port), without a lock.
* **A card that is pulled, fails or loses power** in the middle of a transfer or
  of a settings file.

`PROJECT.json` lists each of these as a hazard at its line, with the properties
that cover it or the reason why none does.

### What makes each component correct

* Card: one core in FatFs at a time; no use of a closed image; the pause and
  every sector access end; an image is exchanged only by the core that has the
  card.
* Interrupts: a pending request reaches the pin; the pin is not stale when core 1
  sleeps; nothing stays in service after its EOI; POST is not interrupted.
* Bus: each cycle is carried out once, in program order, and a read or an
  acknowledge gets its own answer.
* Floppy: every command reaches IRQ 6 and a result that tells what was
  transferred; a retry is not completed by the command before it.
* Keyboard: a code the guest was told of stays until it is read, with its
  prefix; no modifier stays down in the guest that is up; a guest that does not
  answer does not take the keyboard away.
* Network drive: an answer belongs to the call it answers; a handle belongs to
  one file DOS has open; reboots leave none behind.
* Disk and card: a request moves its sectors, whole, in order and no others, or
  reports a failure; it ends; the image keeps its size; the card is left ready.
* Clock: a date the guest sets is the one that counts; what the chip holds is a
  date; a date survives every form it is kept in.
* Serial port: bytes are read in the order they were stored, each once.
* Settings: they are what was last saved, or the defaults; edits are kept or
  taken back as a whole; drives hold what the settings name.

## 2. Plan

All of it is built. The order followed the cost of a failure: the card's data
first, then the machine that hangs, then the devices.

1. **DriveBay, CardSharing, CardSharing_proofs** - the lock, the pause, the
   menu and the hard disk's way to the card; DriveBay is what they promise.
2. **InterruptController, InterruptController_proofs** - the 8259 with both
   cores and core 1's loop.
3. **I8086Bus, I8086Bus_proofs** - state machine, FIFOs and handlers.
4. **FloppyDrive, FloppyDma, FloppyDma_proofs** - FDC command phases, DMA
   channel 2 and core 0's transfer; FloppyDrive is the promise (an order is
   accepted, carried out once, answered once) to a BIOS that waits for IRQ 6.
5. **Keyboard, Keyboard_proofs** - reports, queue, typematic, hand-over, ports
   60h and 61h, the menu's chord and its injected codes.
6. **RemoteDrive, Redirector, Redirector_proofs** - window, resident program,
   task and handles; RemoteDrive is the promise to DOS.
7. **SectorDisk, IdeDisk, IdeDisk_proofs** - task file, DRQ and multi-sector
   transfers.
8. **RealTimeClock, Calendar, SerialPort, SdCard, SettingsStore, Setup,
   MCDevices, Devices_proofs** - the devices that share nothing but the cores;
   SdCard implements SectorDisk too, Setup implements SettingsStore. MCDevices
   runs one device at a time.

What is left for anybody who goes on: an impatient BIOS in FloppyDma, RESET in
the middle of a bus cycle, and a composition of the devices' request lines with
InterruptController, whose lines are raised by an environment so far.

Every module keeps its parameters as constants with named assumptions, one
action per step between two points where another actor can act, and no
RECURSIVE operator, so that it can be proved about as well as checked.

## 3. The models

`PROJECT.json`, "map", names the lines behind every definition.

### CardSharing (and DriveBay)

`pc0` and `pc1` say where each core is among the points at which the other can
matter. Core 1: handler entry, `bus_pause_point()` (`PausePoint`, `Unpark`), the
three ways into the IDE code (`Dispatch`): a command tests `ide.disk_image`
first, the data port goes straight to the sector routine; `SizeCheck` is the
`f_size()` that runs without the lock, then `TestImage`, `LockCard`, `Seek`,
`Transfer`, each with the early returns of the code. Core 0: calls from the main
loop or the browser, one lock each (`StartCall`, `LockCall`, `EndCall`);
`osd_drive_menu()` from `bus_pause()` to `bus_resume()`; `save_settings()` and
`media_reload()`, the latter step by step because it closes the file before it
clears the pointer, opens before it publishes, and holds the lock throughout.

Time is two facts. `Outlasts50ms`: only a FatFs call or a halted guest is longer
than the 50 ms of `bus_pause()`. And core 1 leaves its spin loop before core 0
comes round to another pause (`BusPause`'s first conjunct): at least one round
of the main loop, with USB, drawing and a keystroke, lies between.

Left out: the two floppy images (opened and closed the same way, but used on
core 0 only), the content of sectors, wording and layout of the menu.

*DriveBay* is the promise in two variables: `user`, the core that is inside
FatFs, and `image`, what the hard disk would read. The refinement mapping takes
`user` from where the cores are, not from the lock, so that implementing
DriveBay says something about the lock.

### InterruptController

The registers are sets of lines. Every update of the request register is a
load and a store with a place in between (`raising`, `ticking`, `op`): core 0's
main loop can be interrupted by core 0's timer, and both interleave with core 1.
The mask and the in-service register are written by core 1's handlers alone, so
their updates are single steps. Core 1's loop (`LoopEval`, `LoopPut`,
`LoopWake`) runs between handlers; `Handler` latches the event that the return
from an exception sets. `NextWord` is the initialization sequence of the code,
which differs from the data sheet's (a controller without ICW4 goes from ICW3
to step 5, one that is single goes to step 4 whatever IC4 says).
`ReadWarmFlag` is the write to the registers in `memory_read()`.

`serving` is the guest: the stack of its interrupt handlers that owe an EOI. Its
handlers either all send non-specific EOIs, as BIOS and DOS do, or all specific
ones. `post` is the window of the comment at `core/memory.h` 51-72. `news` is a history
variable: core 0 has stored into the request register since the loop looked.

Left out: `register_read_mode` and the vector offset, which select what the
guest is shown.

### I8086Bus

`sm` is the program counter of `i8086_bus.pio`: a write pushes address and data
and raises flag 0, with READY high; the first INTA pulse raises flag 3; a read
and the second pulse raise flag 1 and wait in `pull`. `handler` and `at` are
core 1's two handlers. FIFO words carry the number of the cycle they belong to,
which the code does not have: that is how a word popped by the wrong handler
shows. A read of an empty FIFO, undefined on the chip, is `NoWord`.

`BackToBack` is the assumption the code relies on and does not state. When it is
FALSE a write starts only when core 1 has carried out everything before it,
which a single write's handler is fast enough for; TRUE lets the guest write at
any time.

A handler's reply or flag clear and its return are one step, because the 8086
needs a bus cycle of several clocks between them and the next flag.

Left out: `bus_cycles`, the access itself (the chips' modules), RESET of a
running 8086.

### FloppyDma (and FloppyDrive)

`channel` and `i8272` are the code's structures, without the fields nothing
depends on. `bios` is where the guest is in its `job`: programming the channel
(one action per port write, so that the shared `byte_flipflop` matters), sending
command bytes and reading result bytes as the main status register allows,
waiting for IRQ 6, sensing the interrupt. `pc0` is core 0 in its DMA pass, one
action per place where core 1 could act: look at `dreq` and `masked`, move the
data, count down, test `finished` and withdraw the request, raise the
interrupt. A word is two digits of base `Byte`, so that the 16-bit arithmetic of
`update_count()` and the byte-wise registers are in the model at a size TLC can
enumerate. Locals and command bytes that are dead are forgotten.

`order` and `moved` are history: what `dma_start_transfer()` was asked for, in
the BIOS's terms, and what core 0 has moved for it, in the registers' terms.
*FloppyDrive* says that the two agree when the order is answered.

A port handler is one step. Core 0 could see a handler's stores one by one only
while `dreq` is set from before, and `QuietAtRest` shows that a BIOS that waits
never writes to the channel then; `dreq` is the last store of
`dma_start_transfer()`.

Left out: the request register of the 8237 (no floppy BIOS writes it), descending
addresses, the page register (it only adds to the address), the cylinder numbers
the FDC reports, errors of the card.

### Redirector (and RemoteDrive)

`guest` is the resident program, one step per port access: `redir.asm` sends ten
words, EXEC, polls, takes six words and a verdict. It runs with interrupts off,
so its accesses follow one another; a reset may come between calls, or at any
moment from core 0's console, which is why `ResetGuest` inside a call needs core
0 in its loop. `pc0` is `redirector_task()`: the reset request first, then one
request, dispatch, `done` last. A word is a tag (whose call, and whether the
firmware has written it): that is how a word of another call shows. `dos` is what
DOS believes to have open, `sft_handle` the handle in its table in guest memory,
so that firmware and DOS can disagree. What a lookup finds is a choice.

*RemoteDrive* has three variables: what DOS holds open, the call, its reply. A
file held open stays open until DOS closes it or the machine reboots, and an
open is refused for want of handles only when DOS holds them all.

Left out: names, templates and directory entries (data), the writes of the
functions into the table entry other than the handle.

### Keyboard

Core 0's `keyboard_tick()` is one action: at most one change of the USB report,
the repeat if it is due, then the hand-over of the head of the queue if port 60h
is empty or the 50 ms are over. `handleScancode()` keeps the chord from the
guest. The menu is a tick and a look at port 60h in turns, with the guest
standing still; it closes with the injected breaks. The guest is an INT 9 handler:
interrupt, read, acknowledge; it may also reset its keyboard, by port 61h or by a
write to port 60h. `belief` is the
shift state it keeps.

`excuse` records that a code was lost in a way the code provides for: a full
queue, a hand-over after the deadline, a keyboard reset. The properties promise
nothing from then on; the proofs say exactly where it is set. In particular no
property tells what a full queue drops, the menu's break codes included.

Left out: keys other than four, Shift (which the menu does not inject), the
delay and rate of the repeat, unplugging, the mouse (SerialPort).

### IdeDisk (and SectorDisk)

One step per bus access of the guest's disk driver, which polls as a BIOS does.
The commands, `increment_lba_regs()`, the bounds check and the sector routines
have the code's names; `images` are the files, which `f_lseek()` extends when it
is sent past their end. `Exchange` is `media_reload()` between any two accesses,
`Restart` a driver that gives up. A register counts modulo `Byte`, an address
modulo `Word32`, because the carries and the wrap matter.

*SectorDisk*: a request moves its sectors in order, each whole and no others; it
succeeds only when all were moved; the disk keeps its size. A request during
which the disk was exchanged is promised nothing but its end.

`IdeAssumption` has two lines that are about more than the scale. An image has at
most `Word32` sectors: a FAT file ends at 4 GB, which is 2^23. And a guest does not
start so near the last address the modelled registers can name that the address
would wrap in the middle of a request; with 28 bits that is a place beyond every
image.

Left out: LBA HIGH and the bits above it, registers that are only stored.

### RealTimeClock, Calendar

`cmos_tick()` is a step per register it copies; the guest's port writes come in
between, also between its tests of `dirty` and of SET. A time is a month and a day, some pairs are no dates. `flushed`,
`wanted` and `overwritten` are history: the last date core 0 took, the one the
guest set last, and whether core 0 wrote a register over it.

Calendar is the pure part: days in a month, weekday, seconds since 2000, the
guest's registers in BCD and in binary, the chip's, and SETUP's editor, whose
steps visit every date from 2000 to 2099. The reference is written independently
(`Tomorrow`, a table of short months). The time of day is one number.

### SerialPort

Every load and store of the ring's indices and of `data_ready` that the other
core can come between with a difference is a step: `uart_write_byte()` is six of
them (load the head, test for room, store the byte, move the head, set the flag,
raise the interrupt). The structure is not volatile, so the byte goes where the
head was when it was loaded or where it is now. Bytes are numbered as they are
stored; `reads` counts those taken out. `collided` is history: both cores were
inside `uart_write_byte()` at once, which the code does not prevent and the ring
does not survive.

### SdCard

`disk_initialize()`, `disk_read()` and `disk_write()` down to commands and
blocks. The card is external: it answers, refuses or stays silent at any step,
takes a command whose response is lost on the way (`ResponseLost`: the driver then
sends neither blocks nor an end), stays inside a multiple transfer until it is told
to stop, and can be replaced by another one at any time. SdCard implements SectorDisk, too: FatFs gets the
sectors it asked for or is told of a failure, for cards addressed in bytes and
in blocks.

### Setup (and SettingsStore)

SETUP, the drive menu, the browser and the boot that uses the settings. The file
is a sequence of fields, as much of it as was written: an older version is
shorter, one that was cut short shorter still. The size test of
`load_settings()` and the power failing between truncation and last byte are
about that. Of version 4 only the place of `sound` is known here, from the rule
that new fields go to the end (`ui/setup_menu.h` 103-109); that the byte after
it is a zero of padding is an assumption (`SetupAssumption`).

*SettingsStore*: settings are what was last saved or the defaults, changes are
kept or taken back as a whole, drives hold what the settings name, and a save
that the power interrupts leaves nothing behind that could be read as something
else.

Left out: the bar, scrolling, names over 63 characters, errors of `f_readdir()`,
pulling the card while the machine runs, most of the switches (two stand for
them).

### MCDevices

Six devices in one module, `focus` naming the one that runs: their product would
say nothing more, because they share no variable. `DevicesSpec` is what
Devices_proofs proves about.

## 4. The runs

| Run | Configuration | Shows |
|---|---|---|
| `card_sharing` | 2 images, card or no card | seven properties hold |
| `interrupts` | lines 0 and 1, nesting 2, ICW1 = 13h, non-specific EOI | five properties hold |
| `bus` | 7 cycles, `BackToBack` FALSE | five properties hold, no deadlock |
| `bus_posted` | 5 cycles, `BackToBack` TRUE | *violation*: `StallsOnNext` |
| `floppy` | 12 jobs, bytes of two values, drive A: with or without an image | four properties hold |
| `floppy_empty` | the same | *violation*: `NoFalseSuccess` |
| `redirector` | 2 handles, 3 table entries, 2 files, every function but commit | five properties hold |
| `redirector_commit` | the same, with commit | *violation*: `ReadsOwnFile` |
| `keyboard` | Ctrl (with prefix), Alt, F1, Esc, a queue of 3, 5 reports | five properties hold |
| `ide_bounds` | bytes of four values, images of 2 and 5 sectors, CHS sector 0 | *violation*: `StaysOnDisk` |
| `rtc_lost` | 4 dates, guests that hold SET | *violation*: `GuestWriteWins` |
| `devices` | each of six devices, see below | nine properties hold |

Deadlock is checked in every run but `devices` and `ide_bounds`, whose bounds on
requests, calls, bytes and changes stop the system when they are reached.

**card_sharing.** `FatFsExclusive`: the cores are never inside FatFs together,
with or without an acknowledged pause. `OpenImageUsed`: the file core 1 sizes,
seeks or reads is open; the unlocked `f_size()` is safe only because core 1 is
parked or outlasts no pause there. `AckedMeansParked`: an acknowledged pause is a
parked core until the menu has gone. `PauseReturns` and `SectorEnds`: the menu
opens and a sector access of the guest ends, whatever the other core does.
`ImplementsDriveBay`: the image changes only under core 0, never between the
start and the end of a sector.

**interrupts.** `ServiceDrains`: when no handler owes an EOI the in-service
register is empty, however the handlers nested and whoever reset the controller
meanwhile. `PinCurrent`: core 1 does not sleep on a pin that disagrees with the
requests it has seen; what core 0 stored since is the exception, and the reason
for `IntrFollows`, which needs the guest to keep driving cycles. `PostQuiet`:
nothing is put in service between POST's read of 0:0472 and its first mask.

**bus.** `InStep`: a handler has popped the words of the oldest cycle not yet
carried out. `AnswerOwn`: the 8086 is given the answer to the cycle it is in, a
vector only in an acknowledge. `NothingLeft`: with the bus at rest the FIFOs, the
flags and the pending vector are empty and every cycle is done. `CyclesServed`:
every cycle is carried out.

**floppy.** `QuietAtRest`: between two jobs no request, interrupt, command byte
or result of the last one is left, and core 0 is out of its transfer: what is
left would be taken for the next job's. `JobEnds`: the status register, the
result counts and IRQ 6 agree with what the BIOS waits for, for every command,
the refused and unknown ones included. `ImplementsFloppyDrive`: an accepted
transfer is carried out once, with the address, length and place the BIOS gave,
before it is answered.

**redirector.** `CallGetsOwnAnswer`: what the program takes back are its own
words, changed by its own call's function, and its own verdict, whatever reset,
leftover answer or unfinished call came before. `HandlesOwned`: between two
calls the handles in use are those of the files DOS has open, one each and on
the right file; none leaks over a reboot. `CallReturns`: the program, which
waits with interrupts off, gets an answer. `ImplementsRemoteDrive`.

**keyboard.** `CodesReachGuest`: a code the guest was told of stays in port 60h
until it is read. `PrefixKept`: an extended key does not go down without its
E0. `GuestModifiersAgree`: when everything is handed over and read, the guest
takes no modifier to be down that is up, also after the menu has swallowed the
releases. `KeyboardGoesOn`: a guest that never acknowledges does not stop the
queue.

**devices.** `RequestsEnd`: the drive never leaves the driver without the data
request or the end it polls for, also when the image is exchanged in the middle.
`ImplementsSectorDisk` and `CardImplementsSectorDisk`: see above. `CardLeftReady`:
no call leaves the card inside a transfer, unless the fault itself kept the driver
from ending it: the response to the start was lost, the block of a single write
could not be sent, or the card did not take the end; the exception goes when the
card is back. `SetDateKept`: a date that the guest sets and core 0 does not overwrite is
the one core 0 takes, also when the writes fall between core 0's steps.
`BytesInOrder`: the n-th byte the guest takes out of the ring is the n-th that was
stored, so none is taken twice and none is left out, until both cores have been in
`uart_write_byte()` at once; what becomes of the ring after that no property says,
as nothing in the repository does.
`ImplementsSettingsStore`: see above. `DateSurvives`: every date is valid, comes
back from every form, and the counts and weekdays follow one another.
`TypesOK` is each device's type invariant.

### Findings

* `StallsOnNext` - the comment at `core/cpu_bus.c` 67-70 says that after a pause
  taken in a write the CPU stalls on its next cycle. When that is another write
  it completes too, its flag merges with the first one's, and its words stay in
  the FIFO for the next handler to pop.
* `NoFalseSuccess` - a command for a drive without an image is answered with
  normal termination (`chipset/i8272.h` 166-192 and 252-277), where the comments
  say that the write fails and the read times out.
* `ReadsOwnFile` - DOS's commit is served by the function that closes
  (`chipset/redirector.c` 743, "commit: nothing buffered"): DOS goes on using a
  table entry whose handle is free, and the next open gives it another file.
* `StaysOnDisk` - CHS sector 0 of the first track is address FFFFFFFFh; address
  plus count wraps and passes the check of the disk's bounds
  (`chipset/ide.h` 233, 264), and the seek extends the image.
* `GuestWriteWins` - core 0 tests SET and `dirty`, then reads the chip, then
  stores: a date written in between is overwritten, SET or not
  (`chipset/mc146818.c` 136-184 against the comments at 136, 159 and 205).

Four more disagreements were met while modelling and have no run of their own.
An unacknowledged pause is not always a halted guest (`core/cpu_bus.c` 80-84):
core 1 may be in a slow FatFs call, and the menu opens beside it; nothing is
corrupted, because of the lock (`FatFsExclusive`). Any read of 0:0472, not only
POST's, masks the interrupt controller and drops its requests
(`core/memory.h` 73-77). The transfer type of the DMA mode register is stored
and never read, so a verify (INT 13h, AH = 4) writes the sectors into guest
memory (`chipset/i8237.h` 117). And "IIR returns 04h when there is data in the FIFO"
(`chipset/uart16550.h` 26) is not always so: a read that empties the ring compares the
pointers and then stores `data_ready` (94, 98); a byte that core 0 stores in between
sets the flag before that store clears it, and stays unseen until the next byte.
SerialPort has these behaviours, and no property is about the flag.

### Bounds, and why they are enough

* Two images tell apart "the same image", "another one" and none; the code never
  compares more than the name it opens with the file it has.
* Two lines: the timer's, which the timer interrupt and the counter reload touch,
  and one that both cores raise. A third would only add another of the second
  kind. `MaxNest` = 2 is the smallest at which a non-specific EOI can retire
  another handler's line. The proofs cover all lines and depths.
* One ICW1 (13h, what an XT BIOS writes); the proofs cover any set.
* Seven cycles: a write, a pause, an acknowledge pair and what follows them fit
  with cycles of any kind before and after; the FIFO is empty after each handled
  cycle, so longer behaviours repeat these states with larger numbers. Five are
  enough for the counterexample.
* `Byte` = 2 makes words of two bits, the smallest with a high and a low digit;
  the jobs include a transfer that wraps the address register, one of a single
  byte, one beyond the built-in image, one on a bad drive, one with
  auto-initialization and every other command. `JobsAssumption` excludes a count
  of FFFFh, which no floppy transfer has (the longest is a track of 9 KB).
* Two handles and three table entries: handles run out, are taken again by
  another file, and DOS holds more entries than there are handles. Resets are
  not bounded. The proofs cover every number.
* Keys: both modifiers of the chord, one of them with a prefix, F1 and Esc, which
  open and close the menu. A queue of three overflows with a prefix, a code and
  a repeat; five reports are a chord, a menu and a release. The proofs cover any
  keys, queue and number of reports.
* IDE: `Byte` = 4 makes a transfer carry from LBA LOW to LBA MID and count 0 mean
  `Byte` sectors; images of 2 and 5 sectors are shorter and longer than that, two
  words make a sector, and the second request meets what the first left. A
  request by CHS within a sector register of four values is of a single sector;
  longer ones are covered by the theorem `DriveIsDisk`. CHS
  transfers that pass 255 ("chs long") are left to no run: they go elsewhere than
  asked, and no BIOS makes them; the proofs of the types cover them.
* Clock: two registers are the least that can be torn, and one of the four pairs
  is no date. Serial port: a ring of three
  holds two bytes, four go round it, find it full and use a slot again; the code's
  mask is this modulo for its 16. Card: all four kinds, blocks of two bytes so that a byte address differs
  from a sector number, three calls, one exchange. Settings: no card, one without
  /XT, one with images; two boots, two changes each, a list that is cut at three
  entries. Calendar: all 36525 dates, with days of two ticks.

### Fairness

* CardSharing: weak fairness on the cores' own code and on a guest that is not
  halted; strong fairness on the three steps that take the spinlock. The lock is
  a hardware register that both poll; core 0 releases it between any two calls
  for much longer than one poll takes (`core/fslock.h` 23-32). No fairness is
  assumed of the operator: a call, the menu, or its closing may never come.
* InterruptController: the handlers end (WF), the guest keeps driving cycles
  (WF of `OtherCycle`, needed because core 0 does not wake core 1), and core 1's
  loop gets its turns between handlers (SF: a read starts only after the handler
  of the cycle before has let the guest go on). No fairness on core 0.
* I8086Bus: the state machine runs (WF), the menu is closed in the end (WF of
  `BusResume`), core 1 runs and sees the request withdrawn (SF). The guest may
  stop at any time.
* FloppyDma: core 0 comes round (WF) and the BIOS goes on with the job it has
  begun (WF); it need not begin another.
* Redirector: core 0 comes round (WF) and the resident program goes on with a
  call it has begun (WF); resets and further calls may never come.
* Keyboard: core 0 passes its loop and its menu goes on (WF), time passes (WF of
  `Expire`). Nothing is asked of the guest, which is the point.
* IdeDisk: the driver goes on with what it began (WF); the drive answers within
  the bus cycle. The other devices have no liveness stated.

## 5. The proofs

`CardSharing_proofs` proves `Spec => []IInv` with
`IInv == TypeOK /\ LockInv /\ PauseInv /\ ImageInv`, from `ImagesAssumption` only:

* `LockInv` - the lock's holder is exactly the core that is at a place inside
  FatFs. Exclusion is not inductive without it.
* `PauseInv` - the request stands while core 0 waits or is in the menu, and
  `bus_paused` means core 1 is parked: so the acknowledgement `bus_pause()` sees
  is of this pause and not of the last.
* `ImageInv` - a non-null `ide.disk_image` is an open file outside
  `media_reload()`; between the test of the pointer and its last use core 1
  excludes `media_reload()` by the lock, and before the lock by the pause.

From it follow `TypeCorrect`, `Exclusion`, `Parking`, `OpenImage`, and
`Implements`: the initial states of CardSharing map to initial states of
DriveBay, and every step maps to Enter, Leave, Exchange or a stutter.

`InterruptController_proofs` proves `Spec => []IInv` with
`IInv == TypeOK /\ QuietInv /\ ServiceInv /\ PinInv`, from `LinesAssumption`,
`Icw1Assumption` and `EoiAssumption`:

* `QuietInv` - while POST has the machine the mask is full, and an acknowledge
  in progress has an unmasked line to take (the mask cannot change under it).
* `ServiceInv` - with specific EOIs every line in service has a handler; with
  non-specific ones there are no more lines in service than handlers. The
  second is a statement about cardinalities: an acknowledge adds at most one line
  and one handler, an EOI removes one of each unless the register is empty.
* `PinInv` - at each place of core 1's loop, the sample and the pin agree with
  the registers, or an event is latched, or core 0 has stored since.

From it follow `TypeCorrect`, `ServiceIsDrained`, `PinIsCurrent` and
`PostIsQuiet` (an action property). The lemmas on `Highest`, the finiteness of a
register and the shortened stack of handlers stand on their own.

`I8086Bus_proofs` proves everything under `~BackToBack`, the assumption the code
makes, for any number of cycles. `CountInv` says how far core 1 is behind the
8086: by the cycle in hand and by one posted write, at most. `MachineInv`,
`HandlerInv`, `RxInv` and `TxInv` say which words are in the FIFOs for every place
of the machine and of core 1. Besides the run's invariants it proves
`PatientGuestStalls`: with the assumption, the comment that `bus_posted` refutes
is right.

`FloppyDma_proofs` needs only `JobsAssumption` and the other named ones.
`RequestInv` (while the BIOS does not wait nothing is under way; while it waits,
exactly one of request, core 0's pass and interrupt), `PhaseInv`, `ChannelInv` (the
channel takes the job byte by byte), `OrderInv` and `PassInv` (core 0's locals and
what it has moved are those of the order). `ImplementsDrive` maps each step to one
of FloppyDrive or a stutter.

`Redirector_proofs`: `TurnInv` says who has the turn in each phase of a call, resets
included (an old call may still be served, and is over before the guest has
booted), `WindowInv` and `FrameInv` what the window and the program's frame hold;
from these follows `OwnAnswer`. `ProperInv`, `HandleInv` and `ReadInv` relate DOS's
table to the handles; they, and `ImplementsDrive`, assume
`"commit" \notin Functions`, which is what `redirector_commit` is about.

`Keyboard_proofs`: `TurnInv` (a code the guest was told of is in the port with its
interrupt or its handler on the way), `PrefixInv` (in the queue, in the port and in
the guest, an extended key stands behind its prefix) and `ModifierInv` (for a
modifier that is up, either its break is the last word of the queue on it, or
nothing under way takes it down and the guest does not hold it), each as long as
no excuse is on record.

`IdeDisk_proofs` proves `Spec => []DiskInv`, with
`DiskInv == DiskTypes /\ TurnInv /\ PlaceInv`:

* `TurnInv` - where driver and drive are in a request: how many sectors have been
  moved, how many are still to come, how far the buffer is filled or emptied. It
  holds for every way of addressing, and from it follows `TypeCorrect`.
* `PlaceInv` - the registers point at the sector that is moved next, it lies on
  the disk, and the buffer holds what is there, or what the guest has sent of it.
  This needs `Addressing \subseteq {"lba", "chs"}`: the guest asks by LBA, or by CHS
  from sector 1 on and without a transfer past the end of the sector register.
  An LBA above the end of the disk is not excluded.

Under that assumption the drive implements SectorDisk (`DriveIsDisk`), and no request
extends an image unless the image is exchanged under it (`TameSizesKept`). The
exchange matters: the bounds were checked against the image that went, and the
sectors still to come may lie past the end of a shorter one (`chipset/ide.h`
352-354 with `app/main.c` 92-139). Where no image is exchanged none grows
(`TameStaysOnDisk`).

`Devices_proofs` proves about `DevicesSpec`, whatever the constants:
`OneAtATime` reduces a step to one of the device in focus, or to none.

* `ClockInv` follows the guest's date from the registers to core 0.
* `PortInv` says that, without a collision, the ring holds the consecutive numbers
  from the last byte taken to the last stored, wherever a producer stands.
* `CardInv` says where the card's transfer and the driver's call stand, so that
  `CardIsDisk` can map each block to a sector moved.
* `SetupInv` says that what is saved is what the file means (`FileInv`), from which
  `SettingsAreKept`; `EditedInv` keeps the editor on dates.
* `TypesAreKept` joins the devices' types. They are not inductive as they stand:
  the card needs `CardInv`, the drive `DiskInv`, and SETUP what its file
  can look like after the power has failed (`Files`).
* `EveryDateSurvives` is arithmetic. The tables of days before a year and before
  a month are recursive functions; a closed form of each (`Elapsed`, `Ahead`) is
  shown to satisfy the same equations, and no year or month can be the least at
  which they differ. That takes only the least element of a set of numbers
  (`NatLessThanWellFounded`, `WFMin`), not the induction theorems. With closed forms,
  the year and the month found by the code's loops are the ones the days came
  from, and the digits of BCD and binary come back.

### The findings' converses

Five runs show a disagreement. For four of them a theorem says that the property
holds under the condition in the last column, which the counterexample violates:

| Finding | Theorem | Holds when |
|---|---|---|
| `StallsOnNext` | `PatientGuestStalls` (I8086Bus_proofs) | no write follows a write back to back |
| `NoFalseSuccess` | `SuccessIsTrue` (FloppyDma_proofs) | the drive has an image, or the sector is one of the firmware's own |
| `ReadsOwnFile` | `OwnFileRead` (Redirector_proofs) | DOS does not commit |
| `StaysOnDisk` | `TameStaysOnDisk` (IdeDisk_proofs) | by LBA, or by CHS from sector 1 and within the sector register, and no image is exchanged |

`SuccessIsTrue` rests on `MountedInv`: a transfer of a drive with an image has its
order before the BIOS waits for it, and keeps it until the result is read.
For the fifth, `GuestWriteWins`, `DateReachesChip` states what is left of it: a date
that core 0 did not overwrite is the one that it takes.

### Only model-checked

Liveness, because fairness is out of the prover's reach: `PauseReturns`,
`SectorEnds`, `IntrFollows`, `CyclesServed`, `JobEnds`, `CallReturns`,
`KeyboardGoesOn`, `RequestsEnd`. And the absence of deadlock, which is a statement
about ENABLED. What the proofs assume beyond the named assumptions on constants
is said above: `~BackToBack` (I8086Bus), no commit (HandlesOwned, RemoteDrive), the
addressing of the IDE disk; the runs of these properties make the same choices.

## 6. Not modelled

Video, sound synthesis and pixel formats: data without control. The sound's double buffer
has a race of its own (`drivers/audio/audio.c` 199: `refill` set between a read and its
reset), which costs one buffer of sound. Port and memory
decoding: it selects a chip and keeps nothing. The timer's counting and latch:
sequential arithmetic on a microsecond clock; one of its oddities is among the
hazards. I2C and SPI bytes, the drawing of menus, the console, boot and CPU probing
(a straight line before core 1 starts, whose outcome is the models' initial
state; what it reads from the card is in Setup).

About three quarters of the repository's lines are not this project's code or no
code at all: FatFs and its Unicode tables (22,600 lines), the VGA and OPL2
emulators, fonts and palettes. They are modelled as far as this code depends on
them (a seek past the end extends a file, a name is found or not, a call outlasts
50 ms). The models therefore stand for a large part of the control of the project's
own code, and for a small part of the lines in the tree.

Lost updates of the request register are in the model and are not stated as a
property: they are the behaviour of the code (a raise on core 0 between the load
and the store of an acknowledge is forgotten until the next tick), and no
comment or test claims otherwise.
