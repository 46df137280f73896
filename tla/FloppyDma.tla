------------------------------ MODULE FloppyDma ------------------------------
(***************************************************************************)
(* A floppy transfer from the BIOS's first port write to its last result   *)
(* byte: the 8237's channel 2 (chipset/i8237.h) and the 8272               *)
(* (chipset/i8272.h), both written by core 1's bus handlers, and core 0's  *)
(* loop that moves the data, counts down and raises IRQ 6 (app/main.c      *)
(* 401-443).  The FDC's handler only asks: it sets dreq and returns.       *)
(*                                                                         *)
(* The guest is a BIOS that does one job at a time, obeys the main status  *)
(* register and waits for IRQ 6 without giving up; it leaves the DMA       *)
(* status register alone meanwhile, and the operator leaves the drives     *)
(* alone.  A word is two digits of base Byte; a sector's bytes are counted *)
(* and not looked at.  The page register only adds to the address.         *)
(***************************************************************************)
EXTENDS Integers, Sequences, FiniteSets

CONSTANTS Byte,    \* how many values a byte has
          Drives,  \* the drives the settings may name an image for
          BuiltIn, \* _sizeof_FLOPPY: the image welded into the firmware
          Jobs     \* what the BIOS asks for

Word == 0 .. Byte * Byte - 1
Transfers == {"read", "write"}
Commands == Transfers \cup {"specify", "sense_drive", "recalibrate", "read_id",
                            "seek", "sense_interrupt", "unknown"}

ASSUME ByteAssumption == Byte \in Nat /\ Byte >= 2 /\ BuiltIn \in Nat
ASSUME DrivesAssumption == Drives \subseteq {0, 1}
(* The controller's reset is a job too.  No floppy transfer takes 64 KB.   *)
ASSUME JobsAssumption ==
  Jobs \subseteq [cmd : Commands \cup {"reset"}, drive : 0 .. 3, place : Nat,
                  address : Word, count : 0 .. Byte * Byte - 2,
                  type : {"verify", "write", "read"}, auto : BOOLEAN]

VARIABLES
  channel,        \* dma_channels[2]
  byte_flipflop,
  i8272,
  fdd_media_mask, \* the drives with an open image
  irq6,           \* the request, or the BIOS's note that it came
  pc0, dest_addr, size, \* core 0's loop and its locals
  bios, job,      \* where the BIOS is in what
  order, moved    \* history: the transfer accepted, what core 0 has moved for it

guest == <<bios, job>>
loop0 == <<pc0, dest_addr, size>>
history == <<order, moved>>
vars == <<channel, byte_flipflop, i8272, fdd_media_mask, irq6, loop0, guest, history>>

Sources == {"memory", "file_read", "file_write"}
Channel == [address : Word, reload_address : Word, count : Word, reload_count : Word,
            auto_init : BOOLEAN, masked : BOOLEAN, dreq : BOOLEAN, finished : BOOLEAN,
            transfer_type : {"verify", "write", "read"},
            data_source_type : Sources, data_offset : Nat, file_index : 0 .. 3]
Status == {"ok", "seek_end", "abnormal", "invalid", "ready_changed"}
Fdc == [irq_enabled : BOOLEAN, running : BOOLEAN,   \* DOR bits 3 and 2
        command : Commands, command_length : 0 .. 9, command_index : 0 .. 9,
        result_count : 0 .. 7, result_index : 0 .. 7, response : Status, result : Status,
        check_drives_mask : SUBSET (0 .. 3)]

Orders == [source : Sources, file : 0 .. 3, place : Nat, address : Word,
           size : 1 .. Byte * Byte]
NoOrder == [source |-> "none", file |-> 0, place |-> 0, address |-> 0, size |-> 0]

(* The BIOS programs the channel with interrupts off, up to the unmask.    *)
Programming == {"clear", "mode", "address", "address_high", "count", "count_high"}

TypeOK ==
  /\ channel \in Channel /\ byte_flipflop \in BOOLEAN
  /\ i8272 \in Fdc
  /\ fdd_media_mask \subseteq Drives /\ irq6 \in BOOLEAN
  /\ pc0 \in {"look", "move", "update", "test", "raise"}
  /\ dest_addr \in Word /\ size \in 1 .. Byte * Byte
  /\ bios \in Programming \cup {"idle", "unmask", "reset", "restart", "command", "wait",
                                "sense", "result"}
  /\ job \in Jobs
  /\ order \in Orders \cup {NoOrder} /\ moved \in Seq(Orders)

(* i8237_reset(): the channels zeroed, and masked.                         *)
ResetChannel ==
  [address |-> 0, reload_address |-> 0, count |-> 0, reload_count |-> 0,
   auto_init |-> FALSE, masked |-> TRUE, dreq |-> FALSE, finished |-> FALSE,
   transfer_type |-> "verify", data_source_type |-> "memory", data_offset |-> 0,
   file_index |-> 0]

Init ==
  /\ channel = ResetChannel /\ byte_flipflop = FALSE
  /\ i8272 = [irq_enabled |-> FALSE, running |-> FALSE, command |-> "unknown",
              command_length |-> 0, command_index |-> 0, result_count |-> 0,
              result_index |-> 0, response |-> "ok", result |-> "ok",
              check_drives_mask |-> {}]
  /\ fdd_media_mask \in SUBSET Drives /\ irq6 = FALSE
  /\ pc0 = "look" /\ dest_addr = 0 /\ size = 1
  /\ bios = "idle" /\ job \in Jobs /\ job.cmd = "reset"
  /\ order = NoOrder /\ moved = <<>>

-----------------------------------------------------------------------------
(* Core 1: the 8237's ports.  With the exception of the unmask every write *)
(* of the BIOS leaves core 0 and the FDC alone.                            *)

Port == UNCHANGED <<i8272, fdd_media_mask, irq6, loop0, history>>
Go(from, to) == bios = from /\ bios' = to /\ UNCHANGED job

High(word) == word \div Byte
Low(word) == word % Byte
WithHigh(word, byte) == byte * Byte + Low(word)
WithLow(word, byte) == High(word) * Byte + byte

\* Mutation: the flip-flop is left as it is.
ClearIgnored == UNCHANGED byte_flipflop

ClearFlipflop == byte_flipflop' = FALSE
Clear == Go("clear", "mode") /\ ClearFlipflop /\ UNCHANGED channel /\ Port

WriteMode ==
  /\ Go("mode", "address")
  /\ channel' = [channel EXCEPT !.transfer_type = job.type, !.auto_init = job.auto]
  /\ UNCHANGED byte_flipflop /\ Port

(* The address register follows its base only with the high byte.          *)
AddressByte(byte) ==
  /\ channel' = IF byte_flipflop
       THEN LET base == WithHigh(channel.reload_address, byte)
            IN  [channel EXCEPT !.reload_address = base, !.address = base]
       ELSE [channel EXCEPT !.reload_address = WithLow(@, byte)]
  /\ byte_flipflop' = ~byte_flipflop

CountByte(byte) ==
  /\ LET count == IF byte_flipflop THEN WithHigh(channel.count, byte)
                                   ELSE WithLow(channel.count, byte)
     IN  channel' = [channel EXCEPT !.count = count, !.reload_count = count]
  /\ byte_flipflop' = ~byte_flipflop

WriteAddressAndCount ==
  /\ \/ Go("address", "address_high") /\ AddressByte(Low(job.address))
     \/ Go("address_high", "count") /\ AddressByte(High(job.address))
     \/ Go("count", "count_high") /\ CountByte(Low(job.count))
     \/ Go("count_high", "unmask") /\ CountByte(High(job.count))
  /\ Port

(* The single-channel and the four-channel mask register copy base to      *)
(* current when they unmask, the clear-mask register does not.             *)
Unmask ==
  /\ Go("unmask", "command")
  /\ \/ channel' = [channel EXCEPT !.masked = FALSE]
     \/ /\ channel.masked
        /\ channel' = [channel EXCEPT !.masked = FALSE, !.address = channel.reload_address,
                                      !.count = channel.reload_count]
  /\ UNCHANGED byte_flipflop /\ Port

(* Between two jobs: a POST, the mask and command registers, the status    *)
(* register with its bit that a read clears.                               *)
BetweenJobs ==
  /\ bios = "idle"
  /\ \/ channel' = ResetChannel /\ byte_flipflop' = FALSE
     \/ channel' = [channel EXCEPT !.masked = TRUE] /\ UNCHANGED byte_flipflop
     \/ channel' = [channel EXCEPT !.auto_init = TRUE] /\ UNCHANGED byte_flipflop
     \/ channel' = [channel EXCEPT !.finished = FALSE] /\ UNCHANGED byte_flipflop
  /\ UNCHANGED guest /\ Port

(* One byte of another channel's register, read or written.                *)
OtherChannel ==
  /\ bios \notin Programming
  /\ byte_flipflop' = ~byte_flipflop
  /\ UNCHANGED <<channel, guest>> /\ Port
-----------------------------------------------------------------------------
(* Core 1: the 8272's ports.                                               *)

Fdd == UNCHANGED <<byte_flipflop, fdd_media_mask, loop0>>

\* Mutation: the wrong bit of the output register is tested.
IrqIfRunning == irq6' = (irq6 \/ i8272.running)

Irq == irq6' = (irq6 \/ i8272.irq_enabled)

(* The BIOS's next job, a transfer or anything else; POST begins with a    *)
(* reset.                                                                  *)
StartJob ==
  /\ bios = "idle"
  /\ job' \in Jobs
  /\ i8272.running \/ job'.cmd = "reset"
  /\ bios' = CASE job'.cmd \in Transfers -> "clear"
               [] job'.cmd = "reset"     -> "reset"
               [] OTHER                  -> "command"
  /\ UNCHANGED <<channel, i8272, irq6, history>> /\ Fdd

(* The digital output register: into reset, and out of it again.  The      *)
(* interrupt of the second write obeys the bit the first has set.          *)
WriteDOR ==
  /\ \/ /\ Go("reset", "restart")
        /\ i8272' = [i8272 EXCEPT !.irq_enabled = TRUE, !.running = FALSE]
        /\ UNCHANGED irq6
     \/ /\ Go("restart", "wait")
        /\ i8272' = [i8272 EXCEPT !.running = TRUE, !.check_drives_mask = 0 .. 3]
        /\ Irq
  /\ UNCHANGED <<channel, history>> /\ Fdd

Length(cmd) == CASE cmd \in Transfers -> 9
                 [] cmd \in {"specify", "seek"} -> 3
                 [] cmd \in {"sense_drive", "recalibrate", "read_id"} -> 2
                 [] cmd = "sense_interrupt" -> 1
                 [] OTHER -> 0

(* The command being sent, its length and the index after this byte.       *)
Sent == IF i8272.command_length # 0 THEN i8272.command
        ELSE IF bios = "sense" THEN "sense_interrupt" ELSE job.cmd
Expected == IF i8272.command_length # 0 THEN i8272.command_length ELSE Length(Sent)
Index == IF i8272.command_length # 0 THEN i8272.command_index + 1 ELSE 1

(* A byte for the data port, when the main status register asks for one.   *)
Sending == bios \in {"command", "sense"} /\ i8272.result_count = 0

SendByte ==
  /\ Sending /\ Index < Expected
  /\ i8272' = [i8272 EXCEPT !.command = Sent, !.command_length = Expected,
                            !.command_index = Index]
  /\ UNCHANGED <<channel, irq6, guest, history>> /\ Fdd

SendUnknown ==
  /\ Sending /\ Expected = 0
  /\ i8272' = [i8272 EXCEPT !.response = "invalid", !.result = "invalid",
                            !.result_count = 1, !.result_index = 0]
  /\ bios' = "result"
  /\ UNCHANGED <<channel, irq6, job, history>> /\ Fdd

(* The last byte: the command is carried out, and the phase reset.  The    *)
(* command's bytes are dead now, and forgotten.                            *)
Executed(fdc) == [fdc EXCEPT !.command_length = 0, !.result_index = 0,
                             !.command = "unknown", !.command_index = 0]
Execute(cmd, next) ==
  /\ Sending /\ Sent = cmd /\ Index = Expected
  /\ bios' = next
  /\ UNCHANGED job /\ Fdd

(* dma_start_transfer(): it never looks at the transfer type, and leaves   *)
(* the rest to core 0.                                                     *)
StartTransfer(source) ==
  /\ channel' = [channel EXCEPT !.data_source_type = source, !.data_offset = job.place,
                                !.file_index = job.drive, !.dreq = TRUE]
  /\ order' = [source |-> source, file |-> job.drive, place |-> job.place,
               address |-> job.address, size |-> job.count + 1]
  /\ UNCHANGED <<irq6, moved>>

HasImage == job.drive \in fdd_media_mask
Welded == job.drive = 0 /\ job.place < BuiltIn

(* The result is there before the transfer, and it is the same with an     *)
(* image or without one.                                                   *)
TransferCommand(cmd) ==
  /\ Execute(cmd, "wait")
  /\ LET st0 == IF job.drive > 1 THEN "abnormal" ELSE "ok"
     IN  i8272' = Executed([i8272 EXCEPT !.response = st0, !.result = st0,
                                         !.result_count = 7])

ReadData ==
  /\ TransferCommand("read")
  /\ IF HasImage THEN StartTransfer("file_read")
     ELSE IF Welded THEN StartTransfer("memory")
     ELSE Irq /\ UNCHANGED <<channel, history>>

WriteData ==
  /\ TransferCommand("write")
  /\ IF HasImage THEN StartTransfer("file_write")
                 ELSE Irq /\ UNCHANGED <<channel, history>>

(* SEEK and RECALIBRATE answer through SENSE INTERRUPT STATUS.             *)
MoveHead(cmd) ==
  /\ Execute(cmd, "wait")
  /\ i8272' = Executed([i8272 EXCEPT
       !.response = IF job.drive > 1 THEN "abnormal" ELSE "seek_end"])
  /\ Irq /\ UNCHANGED <<channel, history>>
Seek == MoveHead("seek")
Recalibrate == MoveHead("recalibrate")

SenseInterrupt ==
  /\ Execute("sense_interrupt", "result")
  /\ LET mask == i8272.check_drives_mask
     IN  i8272' = Executed([i8272 EXCEPT
           !.result_count = 2,
           !.result = IF mask # {} THEN "ready_changed" ELSE i8272.response,
           !.check_drives_mask = {d \in mask : \E lower \in mask : lower < d}])
  /\ UNCHANGED <<channel, irq6, history>>

SenseDrive ==
  /\ Execute("sense_drive", "result")
  /\ i8272' = Executed([i8272 EXCEPT !.result = "ok", !.result_count = 1])
  /\ UNCHANGED <<channel, irq6, history>>

ReadId ==
  /\ Execute("read_id", "wait")
  /\ i8272' = Executed([i8272 EXCEPT !.response = "ok", !.result = "ok", !.result_count = 7])
  /\ Irq /\ UNCHANGED <<channel, history>>

Specify ==
  /\ Execute("specify", "idle")
  /\ i8272' = Executed(i8272)
  /\ UNCHANGED <<channel, irq6, history>>

(* IRQ 6 has come: the results of a transfer or an ID can be read, a seek  *)
(* and a reset have to be asked for theirs.                                *)
SeeInterrupt ==
  /\ irq6 /\ irq6' = FALSE
  /\ Go("wait", IF job.cmd \in Transfers \cup {"read_id"} THEN "result" ELSE "sense")
  /\ UNCHANGED <<channel, i8272, history>> /\ Fdd

(* A result byte.  After a reset the BIOS may sense the next drive as long *)
(* as there is one, or be content.  Results that were read are forgotten,  *)
(* and so is the index, which the next command resets.                     *)
ReadResult ==
  /\ bios = "result" /\ i8272.result_count # 0
  /\ LET index == i8272.result_index + 1
     IN  IF index # i8272.result_count
           THEN i8272' = [i8272 EXCEPT !.result_index = index]
                /\ UNCHANGED <<bios, history>>
           ELSE /\ i8272' = [i8272 EXCEPT !.result_index = 0, !.result_count = 0,
                                             !.result = "ok"]
                /\ bios' \in {"idle"} \cup IF job.cmd = "reset" /\ i8272.check_drives_mask # {}
                                    THEN {"sense"} ELSE {}
                /\ order' = NoOrder /\ moved' = <<>>
  /\ UNCHANGED <<channel, irq6, job>> /\ Fdd

-----------------------------------------------------------------------------
(* Core 0: the main loop's DMA pass, in the order of its effects.          *)

Step0(from, to) == pc0 = from /\ pc0' = to
Loop == UNCHANGED <<byte_flipflop, i8272, fdd_media_mask, guest>>

Look ==
  /\ Step0("look", "move") /\ channel.dreq /\ ~channel.masked
  /\ dest_addr' = channel.address /\ size' = channel.count + 1
  /\ UNCHANGED <<channel, irq6, history>> /\ Loop

(* f_lseek() and f_read() or f_write(), or a memcpy() out of flash.  What  *)
(* FatFs returns is not looked at; here it succeeds.                       *)
Transfer ==
  /\ Step0("move", "update")
  /\ moved' = Append(moved, [source |-> channel.data_source_type, file |-> channel.file_index,
                             place |-> channel.data_offset, address |-> dest_addr,
                             size |-> size])
  /\ UNCHANGED <<channel, irq6, dest_addr, size, order>> /\ Loop

\* Mutation: the count is a number and not a 16-bit word.
CountDownWide(count, n) == count - n
CountDown(count, n) == (count - n) % (Byte * Byte)

TerminalCount(old, new) == new > old

(* update_count(), whose parameter is 16 bits wide.  The locals of the     *)
(* pass are dead after it.                                                 *)
UpdateCount ==
  /\ Step0("update", "test")
  /\ LET n     == size % (Byte * Byte)
         new   == CountDown(channel.count, n)
         along == [channel EXCEPT !.address = (@ + n) % (Byte * Byte), !.count = new]
     IN  channel' = IF ~TerminalCount(channel.count, new) THEN along
                    ELSE IF channel.auto_init
                      THEN [along EXCEPT !.finished = TRUE, !.count = channel.reload_count,
                                         !.address = channel.reload_address]
                      ELSE [along EXCEPT !.finished = TRUE, !.masked = TRUE]
  /\ dest_addr' = 0 /\ size' = 1
  /\ UNCHANGED <<irq6, history>> /\ Loop

\* Mutation: the interrupt first, the request withdrawn after it.
TestFinishedIrqFirst ==
  /\ \/ Step0("test", "raise") /\ channel.finished /\ irq6' = TRUE /\ UNCHANGED channel
     \/ Step0("test", "look") /\ ~channel.finished /\ UNCHANGED <<channel, irq6>>
     \/ Step0("raise", "look") /\ channel' = [channel EXCEPT !.dreq = FALSE] /\ UNCHANGED irq6
  /\ UNCHANGED <<dest_addr, size, history>> /\ Loop

TestFinished ==
  /\ IF channel.finished
       THEN Step0("test", "raise") /\ channel' = [channel EXCEPT !.dreq = FALSE]
       ELSE Step0("test", "look") /\ UNCHANGED channel
  /\ UNCHANGED <<irq6, dest_addr, size, history>> /\ Loop

Raise ==
  /\ Step0("raise", "look")
  /\ irq6' = TRUE
  /\ UNCHANGED <<channel, dest_addr, size, history>> /\ Loop

(* media_reload(), from the drive menu.                                    *)
MediaReload ==
  /\ pc0 = "look" /\ bios = "idle"
  /\ fdd_media_mask' \in SUBSET Drives
  /\ UNCHANGED <<channel, byte_flipflop, i8272, irq6, loop0, guest, history>>

-----------------------------------------------------------------------------
Core0 == Look \/ Transfer \/ UpdateCount \/ TestFinished \/ Raise

Bios == \/ Clear \/ WriteMode \/ WriteAddressAndCount \/ Unmask
        \/ WriteDOR \/ SendByte \/ SendUnknown \/ ReadData \/ WriteData
        \/ Seek \/ Recalibrate \/ SenseInterrupt \/ SenseDrive \/ ReadId \/ Specify
        \/ SeeInterrupt \/ ReadResult

Next == Core0 \/ Bios \/ StartJob \/ BetweenJobs \/ OtherChannel \/ MediaReload

(* Core 0 comes round; the BIOS goes on with its job.                      *)
Spec == Init /\ [][Next]_vars /\ WF_vars(Core0) /\ WF_vars(Bios)

-----------------------------------------------------------------------------
(* Between two jobs nothing of the last one is left anywhere: no request   *)
(* on the channel, core 0 out of its transfer, no interrupt, no command    *)
(* byte and no result.  What is left would be taken for the next job's.    *)
QuietAtRest ==
  bios = "idle" => /\ ~channel.dreq /\ pc0 = "look" /\ ~irq6
                   /\ i8272.command_length = 0 /\ i8272.result_count = 0
                   /\ order = NoOrder

(* Every job of the BIOS comes to its end: the interrupt it waits for is   *)
(* raised, the status register lets it send and receive in turn.           *)
JobEnds == bios # "idle" ~> bios = "idle"

Drive == INSTANCE FloppyDrive
(* A transfer the controller accepted is carried out once, with the        *)
(* address, the length and the place the BIOS gave, before it is answered. *)
ImplementsFloppyDrive == Drive!Spec

(* "Failing the write is honest; pretending it succeeded loses the guest's *)
(* data silently" (i8272.h 274-276), and of a read without an image "let   *)
(* the BIOS time out" (192): a result that says normal termination stands  *)
(* for a transfer that took place.                                         *)
NoFalseSuccess ==
  bios = "result" /\ job.cmd \in Transfers /\ i8272.result = "ok" => moved # <<>>
=============================================================================
