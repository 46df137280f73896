-------------------------- MODULE FloppyDma_proofs --------------------------
(***************************************************************************)
(* FloppyDma for any byte size, any set of jobs and any drives: the types, *)
(* the quiet between two jobs, and the implementation of FloppyDrive.  The *)
(* invariant follows an order from the BIOS's bytes through the channel's  *)
(* registers to core 0's locals and what it has moved.                     *)
(***************************************************************************)
EXTENDS FloppyDma, SequenceTheorems, TLAPS

(* Only while the BIOS waits is anything under way, and then it is either  *)
(* the request, or core 0 on its way to the interrupt, or the interrupt.   *)
RequestInv ==
  /\ bios # "wait" => ~channel.dreq /\ pc0 = "look" /\ ~irq6
  /\ pc0 \in {"move", "update", "test"} => channel.dreq
  /\ pc0 = "raise" => ~channel.dreq /\ ~irq6
  /\ channel.dreq => ~irq6

(* The phases of the controller: command bytes belong to the BIOS's job,   *)
(* and results are there for the BIOS to read.                             *)
PhaseInv ==
  /\ i8272.command_length # 0 => bios = "command" /\ i8272.command = job.cmd
  /\ i8272.result_count # 0 =>
       /\ i8272.result_index < i8272.result_count
       /\ \/ bios = "result"
          \/ bios = "wait" /\ job.cmd \in Transfers \cup {"read_id"}

(* The channel takes the job byte by byte.                                 *)
ChannelInv ==
  /\ bios \in Programming \cup {"unmask"} => job.cmd \in Transfers
  /\ bios \in {"mode", "address", "count"} => ~byte_flipflop
  /\ bios \in {"address_high", "count_high"} => byte_flipflop
  /\ bios = "address_high" => Low(channel.reload_address) = Low(job.address)
  /\ \/ bios \in {"count", "count_high", "unmask"}
     \/ bios = "command" /\ job.cmd \in Transfers
     => channel.address = job.address /\ channel.reload_address = job.address
  /\ bios = "count_high" => Low(channel.count) = Low(job.count)
  /\ \/ bios = "unmask"
     \/ bios = "command" /\ job.cmd \in Transfers
     => channel.count = job.count /\ channel.reload_count = job.count

(* An order is under way, or carried out and not answered yet.             *)
OrderInv ==
  /\ order = NoOrder => moved = <<>>
  /\ order # NoOrder =>
       /\ job.cmd \in Transfers /\ bios \in {"wait", "result"}
       /\ order \in Orders /\ order.size < Byte * Byte
       /\ moved = IF channel.dreq /\ pc0 \in {"look", "move"} THEN <<>>
                                                              ELSE <<order>>

(* It is in the channel, then in core 0's locals, and the count ends it.   *)
PassInv ==
  channel.dreq =>
    /\ order # NoOrder
    /\ channel.data_source_type = order.source
    /\ channel.data_offset = order.place /\ channel.file_index = order.file
    /\ pc0 # "test" => /\ channel.address = order.address
                       /\ channel.count + 1 = order.size
    /\ pc0 \in {"move", "update"} => dest_addr = order.address /\ size = order.size
    /\ pc0 = "test" => channel.finished

IInv == TypeOK /\ RequestInv /\ PhaseInv /\ ChannelInv /\ OrderInv /\ PassInv

-----------------------------------------------------------------------------
USE DEF vars, loop0, guest, history, Transfers, Commands

(* Two digits make a word, and a word is two digits.                       *)
LEMMA WordSize == Byte * Byte \in Nat /\ Byte * Byte >= 4
  BY ByteAssumption

(* Bytes and words of a DMA register.                                      *)
LEMMA Digits ==
  ASSUME NEW w \in Word
  PROVE  Low(w) \in 0 .. Byte - 1 /\ High(w) \in 0 .. Byte - 1
<1>1. Low(w) \in 0 .. Byte - 1
  BY ByteAssumption DEF Word, Low
<1>2. High(w) \in 0 .. Byte - 1
  BY ByteAssumption DEF Word, High
<1> QED
  BY <1>1, <1>2

(* A word is its two bytes.                                                *)
LEMMA TwoDigits ==
  ASSUME NEW h \in 0 .. Byte - 1, NEW l \in 0 .. Byte - 1
  PROVE  h * Byte + l \in Word /\ Low(h * Byte + l) = l
<1>1. h * Byte <= (Byte - 1) * Byte
  BY ByteAssumption
<1>2. (Byte - 1) * Byte = Byte * Byte - Byte
  BY ByteAssumption
<1>3. h * Byte >= 0 /\ h * Byte \in Int
  BY ByteAssumption
<1>4. h * Byte + l \in Word
  BY <1>1, <1>2, <1>3, ByteAssumption DEF Word
<1>5. (h * Byte + l) % Byte = l
  BY ByteAssumption
<1> QED
  BY <1>4, <1>5 DEF Low

(* A byte written to half of a register.                                   *)
LEMMA ByteWritten ==
  ASSUME NEW w \in Word, NEW b \in 0 .. Byte - 1
  PROVE  /\ WithLow(w, b) \in Word /\ Low(WithLow(w, b)) = b
         /\ WithHigh(w, b) \in Word /\ Low(WithHigh(w, b)) = Low(w)
  BY Digits, TwoDigits DEF WithLow, WithHigh

(* Both halves written.                                                    *)
LEMMA WordWritten ==
  ASSUME NEW w \in Word, NEW v \in Word, Low(w) = Low(v)
  PROVE  WithHigh(w, High(v)) = v
<1>1. (v \div Byte) * Byte + (v % Byte) = v
  BY ByteAssumption, Z3 DEF Word
<1> QED
  BY <1>1 DEF WithHigh, Low, High

(* A count that is taken down by one more than itself wraps.               *)
LEMMA CountWraps ==
  ASSUME NEW c \in 0 .. Byte * Byte - 2
  PROVE  /\ (c + 1) % (Byte * Byte) = c + 1
         /\ CountDown(c, c + 1) = Byte * Byte - 1
<1> DEFINE N == Byte * Byte
<1>1. N \in Nat /\ N >= 4 /\ c \in 0 .. N - 2
  BY WordSize
<1> HIDE DEF N
<1>2. (c + 1) % N = c + 1 /\ c - (c + 1) = -1 /\ (-1) % N = N - 1
  BY <1>1
<1> QED
  BY <1>2 DEF CountDown, N

(* The count after a transfer.                                             *)
LEMMA CountedDown ==
  ASSUME NEW c \in Int, NEW n \in Int
  PROVE  (c + n) % (Byte * Byte) \in Word /\ CountDown(c, n) \in Word
<1> DEFINE N == Byte * Byte
<1>1. N \in Nat /\ N >= 4
  BY WordSize
<1> HIDE DEF N
<1>2. (c + n) % N \in 0 .. N - 1 /\ (c - n) % N \in 0 .. N - 1
  BY <1>1
<1> QED
  BY <1>2 DEF CountDown, N, Word

(* What a job holds.                                                       *)
LEMMA JobType ==
  ASSUME NEW j \in Jobs
  PROVE  /\ j.cmd \in Commands \cup {"reset"} /\ j.drive \in 0 .. 3
         /\ j.place \in Nat /\ j.address \in Word
         /\ j.count \in 0 .. Byte * Byte - 2
         /\ j.type \in {"verify", "write", "read"} /\ j.auto \in BOOLEAN
  BY JobsAssumption

(* A channel after a reset.                                                *)
LEMMA ResetType == ResetChannel \in Channel
  BY WordSize DEF ResetChannel, Channel, Word, Sources

Bioses == Programming \cup {"idle", "unmask", "reset", "restart", "command",
                            "wait", "sense", "result"}

(* The invariant holds at power-on.                                        *)
LEMMA InitIInv == Init => IInv
<1> SUFFICES ASSUME Init PROVE IInv
  OBVIOUS
<1>1. channel \in Channel
  BY ResetType DEF Init
<1>2. i8272 \in Fdc
  BY DEF Init, Fdc, Status
<1>3. dest_addr \in Word /\ size \in 1 .. Byte * Byte
  BY WordSize DEF Init, Word
<1>4. TypeOK
  <2>1. /\ fdd_media_mask \subseteq Drives /\ job \in Jobs
        /\ pc0 = "look" /\ bios = "idle" /\ order = NoOrder /\ moved = <<>>
    BY DEF Init
  <2>2. byte_flipflop \in BOOLEAN /\ irq6 \in BOOLEAN
    BY DEF Init
  <2> QED
    BY <1>1, <1>2, <1>3, <2>1, <2>2 DEF TypeOK
<1>5. RequestInv /\ PhaseInv /\ ChannelInv /\ OrderInv /\ PassInv
  BY DEF Init, ResetChannel, RequestInv, PhaseInv, ChannelInv, OrderInv,
         PassInv, Programming
<1> QED
  BY <1>4, <1>5 DEF IInv

(* A register of the controller takes another of its values.               *)
LEMMA Updated ==
  ASSUME NEW f \in Fdc
  PROVE  /\ \A c \in Commands : [f EXCEPT !.command = c] \in Fdc
         /\ \A n \in 0 .. 9 : [f EXCEPT !.command_length = n] \in Fdc
         /\ \A n \in 0 .. 9 : [f EXCEPT !.command_index = n] \in Fdc
         /\ \A n \in 0 .. 7 : [f EXCEPT !.result_index = n] \in Fdc
         /\ \A n \in 0 .. 7 : [f EXCEPT !.result_count = n] \in Fdc
         /\ \A s \in Status : [f EXCEPT !.response = s] \in Fdc
         /\ \A s \in Status : [f EXCEPT !.result = s] \in Fdc
         /\ \A m \in SUBSET (0 .. 3) :
              [f EXCEPT !.check_drives_mask = m] \in Fdc
  BY DEF Fdc

(* The members of the small sets.                                          *)
LEMMA Values ==
  /\ "unknown" \in Commands /\ 0 \in 0 .. 9
  /\ 0 \in 0 .. 7 /\ 1 \in 0 .. 7 /\ 2 \in 0 .. 7 /\ 7 \in 0 .. 7
  /\ \A s \in {"ok", "seek_end", "abnormal", "invalid", "ready_changed"} :
       s \in Status
  BY DEF Status

(* What a command leaves is a drive.                                       *)
LEMMA ExecutedType ==
  ASSUME NEW f \in Fdc
  PROVE  Executed(f) \in Fdc
  BY Updated, Values DEF Executed

(* So does one of the channel's.                                           *)
LEMMA ChannelUpdated ==
  ASSUME NEW c \in Channel
  PROVE  /\ \A w \in Word : [c EXCEPT !.address = w] \in Channel
         /\ \A w \in Word : [c EXCEPT !.reload_address = w] \in Channel
         /\ \A w \in Word : [c EXCEPT !.count = w] \in Channel
         /\ \A w \in Word : [c EXCEPT !.reload_count = w] \in Channel
         /\ [c EXCEPT !.dreq = TRUE] \in Channel
         /\ \A s \in Sources : [c EXCEPT !.data_source_type = s] \in Channel
         /\ \A n \in Nat : [c EXCEPT !.data_offset = n] \in Channel
         /\ \A d \in 0 .. 3 : [c EXCEPT !.file_index = d] \in Channel
  BY DEF Channel

(* A channel that dma_start_transfer() has set up.                         *)
LEMMA TransferTyped ==
  ASSUME NEW c \in Channel, NEW j \in Jobs, NEW s \in Sources
  PROVE  [c EXCEPT !.data_source_type = s, !.data_offset = j.place,
                   !.file_index = j.drive, !.dreq = TRUE] \in Channel
<1>1. j.place \in Nat /\ j.drive \in 0 .. 3
  BY JobType
<1> QED
  BY <1>1 DEF Channel

(* Core 0 moves what was ordered, and for the first time.                  *)
LEMMA TransferMoves == ASSUME IInv, Transfer PROVE Drive!Move
<1>1. channel.dreq /\ pc0 = "move"
  BY DEF Transfer, Step0, IInv, RequestInv
<1>2. order \in Orders /\ moved = <<>> /\ order # NoOrder
  BY <1>1 DEF IInv, PassInv, OrderInv
<1>3. [source |-> channel.data_source_type, file |-> channel.file_index,
       place |-> channel.data_offset, address |-> dest_addr,
       size |-> size] = order
  BY <1>1, <1>2 DEF IInv, PassInv, Orders
<1>4. moved' = <<order>> /\ order' = order
  BY <1>2, <1>3 DEF Transfer
<1> QED
  BY <1>2, <1>4 DEF Drive!Move

(* Look keeps the invariant.                                               *)
LEMMA LookKeeps == ASSUME IInv, Look PROVE IInv'
<1>1. TypeOK'
  <2>1. pc0' \in {"move"}
    BY DEF IInv, TypeOK, Look, Step0, Loop
  <2>2. dest_addr' \in Word /\ size' \in 1 .. Byte * Byte
    BY WordSize DEF IInv, TypeOK, Channel, Word, Look
  <2>3. UNCHANGED <<channel, byte_flipflop, i8272, fdd_media_mask,
                   irq6, bios, job, order, moved>>
    BY DEF Look, Step0, Loop
  <2> QED
    BY <2>1, <2>2, <2>3 DEF IInv, TypeOK, Bioses
<1>2. RequestInv'
  BY DEF IInv, TypeOK, Channel, RequestInv, ChannelInv, Programming, Look,
      Step0, Loop
<1>3. PhaseInv'
  BY DEF IInv, TypeOK, Fdc, PhaseInv, Programming, Look, Step0, Loop
<1>4. ChannelInv'
  BY DEF IInv, TypeOK, Channel, ChannelInv, RequestInv, PhaseInv, Programming,
      Look, Step0, Loop
<1>5. OrderInv'
  BY DEF IInv, TypeOK, OrderInv, RequestInv, PhaseInv, Programming, Look,
      Step0, Loop
<1>6. PassInv'
  BY DEF IInv, TypeOK, Channel, PassInv, OrderInv, RequestInv, Programming,
      Look, Step0, Loop
<1> QED
  BY <1>1, <1>2, <1>3, <1>4, <1>5, <1>6 DEF IInv

(* Transfer keeps the invariant.                                           *)
LEMMA TransferKeeps == ASSUME IInv, Transfer PROVE IInv'
<1>1. TypeOK'
  <2>1. pc0' \in {"update"}
    BY DEF IInv, TypeOK, Transfer, Step0, Loop
  <2>2. moved' \in Seq(Orders)
    BY DEF IInv, TypeOK, Channel, Orders, Transfer
  <2>3. UNCHANGED <<channel, byte_flipflop, i8272, fdd_media_mask,
                   irq6, dest_addr, size, bios, job, order>>
    BY DEF Transfer, Step0, Loop
  <2> QED
    BY <2>1, <2>2, <2>3 DEF IInv, TypeOK, Bioses
<1>2. RequestInv'
  BY DEF IInv, TypeOK, Channel, RequestInv, ChannelInv, Programming, Transfer,
      Step0, Loop
<1>3. PhaseInv'
  BY DEF IInv, TypeOK, Fdc, PhaseInv, Programming, Transfer, Step0, Loop
<1>4. ChannelInv'
  BY DEF IInv, TypeOK, Channel, ChannelInv, RequestInv, PhaseInv, Programming,
      Transfer, Step0, Loop
<1>5. OrderInv'
  <2>1. channel.dreq /\ pc0 = "move" /\ pc0' = "update"
    BY DEF Transfer, Step0, IInv, RequestInv
  <2>2. moved' = <<order>> /\ order # NoOrder /\ order' = order
    BY TransferMoves DEF Drive!Move
  <2> QED
    BY <2>1, <2>2 DEF Transfer, Loop, IInv, OrderInv
<1>6. PassInv'
  BY DEF IInv, TypeOK, Channel, PassInv, OrderInv, RequestInv, Programming,
      Transfer, Step0, Loop
<1> QED
  BY <1>1, <1>2, <1>3, <1>4, <1>5, <1>6 DEF IInv

(* UpdateCount keeps the invariant.                                        *)
LEMMA UpdateCountKeeps == ASSUME IInv, UpdateCount PROVE IInv'
<1>1. TypeOK'
  <2>1. pc0' \in {"test"}
    BY DEF IInv, TypeOK, UpdateCount, Step0, Loop
  <2>2. dest_addr' \in Word /\ size' \in 1 .. Byte * Byte
    BY WordSize DEF Word, UpdateCount
  <2>3. channel' \in Channel
    <3>1. channel.count \in Int /\ channel.address \in Int /\ size % (Byte * Byte) \in Int
      BY WordSize DEF IInv, TypeOK, Channel, Word
    <3> QED
      BY <3>1, CountedDown DEF IInv, TypeOK, Channel, UpdateCount
  <2>4. UNCHANGED <<byte_flipflop, i8272, fdd_media_mask, irq6,
                   bios, job, order, moved>>
    BY DEF UpdateCount, Step0, Loop
  <2> QED
    BY <2>1, <2>2, <2>3, <2>4 DEF IInv, TypeOK, Bioses
<1>2. RequestInv'
  BY DEF IInv, TypeOK, Channel, RequestInv, ChannelInv, Programming,
      UpdateCount, Step0, Loop
<1>3. PhaseInv'
  BY DEF IInv, TypeOK, Fdc, PhaseInv, Programming, UpdateCount, Step0, Loop
<1>4. ChannelInv'
  BY DEF IInv, TypeOK, Channel, ChannelInv, RequestInv, PhaseInv, Programming,
      UpdateCount, Step0, Loop
<1>5. OrderInv'
  BY DEF IInv, TypeOK, OrderInv, RequestInv, PhaseInv, Programming,
      UpdateCount, Step0, Loop
<1>6. PassInv'
  <2> SUFFICES ASSUME channel.dreq PROVE PassInv'
    BY DEF IInv, TypeOK, Channel, PassInv, UpdateCount
  <2>1. pc0 = "update" /\ pc0' = "test" /\ order' = order
    BY DEF UpdateCount, Step0
  <2>2. /\ order # NoOrder /\ order.size < Byte * Byte
        /\ size = order.size /\ channel.count + 1 = size
        /\ channel.count \in Nat /\ size \in Nat
    BY <2>1, WordSize DEF IInv, TypeOK, PassInv, OrderInv, Channel, Word
  <2>3. channel.count \in 0 .. Byte * Byte - 2
    <3> DEFINE N == Byte * Byte
    <3>1. N \in Nat /\ channel.count \in Nat /\ channel.count + 1 < N
      BY <2>2, WordSize
    <3> HIDE DEF N
    <3>2. channel.count \in 0 .. N - 2
      BY <3>1
    <3> QED
      BY <3>2 DEF N
  <2>4. size % (Byte * Byte) = size
        /\ CountDown(channel.count, size) = Byte * Byte - 1
    BY <2>2, <2>3, CountWraps
  <2>5. TerminalCount(channel.count, CountDown(channel.count, size))
    BY <2>3, <2>4, WordSize DEF TerminalCount
  <2>6. /\ channel'.finished
        /\ channel'.data_source_type = channel.data_source_type
        /\ channel'.data_offset = channel.data_offset
        /\ channel'.file_index = channel.file_index
    BY <2>4, <2>5 DEF UpdateCount, IInv, TypeOK, Channel
  <2> QED
    BY <2>1, <2>2, <2>6 DEF IInv, PassInv
<1> QED
  BY <1>1, <1>2, <1>3, <1>4, <1>5, <1>6 DEF IInv

(* TestFinished keeps the invariant.                                       *)
LEMMA TestFinishedKeeps == ASSUME IInv, TestFinished PROVE IInv'
<1>1. TypeOK'
  <2>1. pc0' \in {"raise", "look"}
    BY DEF IInv, TypeOK, TestFinished, Step0, Loop
  <2>2. channel' \in Channel
    BY  DEF IInv, TypeOK, Channel, Sources, TestFinished, Step0, Loop
  <2>3. UNCHANGED <<byte_flipflop, i8272, fdd_media_mask, irq6,
                   dest_addr, size, bios, job, order, moved>>
    BY DEF TestFinished, Step0, Loop
  <2> QED
    BY <2>1, <2>2, <2>3 DEF IInv, TypeOK, Bioses
<1>2. RequestInv'
  BY DEF IInv, TypeOK, Channel, RequestInv, ChannelInv, Programming,
      TestFinished, Step0, Loop
<1>3. PhaseInv'
  BY DEF IInv, TypeOK, Fdc, PhaseInv, Programming, TestFinished, Step0, Loop
<1>4. ChannelInv'
  BY DEF IInv, TypeOK, Channel, ChannelInv, RequestInv, PhaseInv, Programming,
      TestFinished, Step0, Loop
<1>5. OrderInv'
  <2>1. pc0 = "test" /\ channel.dreq /\ channel.finished
        /\ order # NoOrder
    BY DEF TestFinished, Step0, IInv, RequestInv, PassInv
  <2>2. moved = <<order>> /\ pc0' = "raise"
    BY <2>1 DEF TestFinished, Step0, IInv, OrderInv
  <2> QED
    BY <2>1, <2>2 DEF TestFinished, Loop, IInv, OrderInv
<1>6. PassInv'
  BY DEF IInv, TypeOK, Channel, PassInv, OrderInv, RequestInv, Programming,
      TestFinished, Step0, Loop
<1> QED
  BY <1>1, <1>2, <1>3, <1>4, <1>5, <1>6 DEF IInv

(* Raise keeps the invariant.                                              *)
LEMMA RaiseKeeps == ASSUME IInv, Raise PROVE IInv'
<1>1. TypeOK'
  <2>1. pc0' \in {"look"}
    BY DEF IInv, TypeOK, Raise, Step0, Loop
  <2>2. irq6' \in BOOLEAN
    BY Zenon DEF Raise, Step0, Loop, Bioses, Programming
  <2>3. UNCHANGED <<channel, byte_flipflop, i8272, fdd_media_mask,
                   dest_addr, size, bios, job, order, moved>>
    BY DEF Raise, Step0, Loop
  <2> QED
    BY <2>1, <2>2, <2>3 DEF IInv, TypeOK, Bioses
<1>2. RequestInv'
  BY DEF IInv, TypeOK, Channel, RequestInv, ChannelInv, Programming, Raise,
      Step0, Loop
<1>3. PhaseInv'
  BY DEF IInv, TypeOK, Fdc, PhaseInv, Programming, Raise, Step0, Loop
<1>4. ChannelInv'
  BY DEF IInv, TypeOK, Channel, ChannelInv, RequestInv, PhaseInv, Programming,
      Raise, Step0, Loop
<1>5. OrderInv'
  BY DEF IInv, TypeOK, OrderInv, RequestInv, PhaseInv, Programming, Raise,
      Step0, Loop
<1>6. PassInv'
  BY DEF IInv, TypeOK, Channel, PassInv, OrderInv, RequestInv, Programming,
      Raise, Step0, Loop
<1> QED
  BY <1>1, <1>2, <1>3, <1>4, <1>5, <1>6 DEF IInv

(* Clear keeps the invariant.                                              *)
LEMMA ClearKeeps == ASSUME IInv, Clear PROVE IInv'
<1>1. TypeOK'
  <2>1. byte_flipflop' \in BOOLEAN
    BY Zenon DEF Clear, Go, Port, ClearFlipflop, Bioses, Programming
  <2>2. bios' \in Bioses
    BY Zenon DEF Clear, Go, Port, ClearFlipflop, Bioses, Programming
  <2>3. UNCHANGED <<channel, i8272, fdd_media_mask, irq6, pc0,
                   dest_addr, size, job, order, moved>>
    BY DEF Clear, Go, Port, ClearFlipflop
  <2> QED
    BY <2>1, <2>2, <2>3 DEF IInv, TypeOK, Bioses
<1>2. RequestInv'
  BY DEF IInv, TypeOK, Channel, RequestInv, ChannelInv, Programming, Clear, Go,
      Port, ClearFlipflop
<1>3. PhaseInv'
  BY DEF IInv, TypeOK, Fdc, PhaseInv, Programming, Clear, Go, Port,
      ClearFlipflop
<1>4. ChannelInv'
  BY DEF IInv, TypeOK, Channel, ChannelInv, RequestInv, PhaseInv, Programming,
      Clear, Go, Port, ClearFlipflop
<1>5. OrderInv'
  BY DEF IInv, TypeOK, OrderInv, RequestInv, PhaseInv, Programming, Clear, Go,
      Port, ClearFlipflop
<1>6. PassInv'
  BY DEF IInv, TypeOK, Channel, PassInv, OrderInv, RequestInv, Programming,
      Clear, Go, Port, ClearFlipflop
<1> QED
  BY <1>1, <1>2, <1>3, <1>4, <1>5, <1>6 DEF IInv

(* WriteMode keeps the invariant.                                          *)
LEMMA WriteModeKeeps == ASSUME IInv, WriteMode PROVE IInv'
<1>1. TypeOK'
  <2>1. channel' \in Channel
    BY JobType DEF IInv, TypeOK, Channel, Sources, WriteMode, Go, Port
  <2>2. bios' \in Bioses
    BY Zenon DEF WriteMode, Go, Port, Bioses, Programming
  <2>3. UNCHANGED <<byte_flipflop, i8272, fdd_media_mask, irq6, pc0,
                   dest_addr, size, job, order, moved>>
    BY DEF WriteMode, Go, Port
  <2> QED
    BY <2>1, <2>2, <2>3 DEF IInv, TypeOK, Bioses
<1>2. RequestInv'
  BY DEF IInv, TypeOK, Channel, RequestInv, ChannelInv, Programming, WriteMode,
      Go, Port
<1>3. PhaseInv'
  BY DEF IInv, TypeOK, Fdc, PhaseInv, Programming, WriteMode, Go, Port
<1>4. ChannelInv'
  BY DEF IInv, TypeOK, Channel, ChannelInv, RequestInv, PhaseInv, Programming,
      WriteMode, Go, Port
<1>5. OrderInv'
  BY DEF IInv, TypeOK, OrderInv, RequestInv, PhaseInv, Programming, WriteMode,
      Go, Port
<1>6. PassInv'
  BY DEF IInv, TypeOK, Channel, PassInv, OrderInv, RequestInv, Programming,
      WriteMode, Go, Port
<1> QED
  BY <1>1, <1>2, <1>3, <1>4, <1>5, <1>6 DEF IInv

(* WriteAddressAndCount keeps the invariant.                               *)
LEMMA WriteAddressAndCountKeeps == ASSUME IInv, WriteAddressAndCount PROVE IInv'
<1>1. TypeOK'
  <2>1. channel' \in Channel
    <3>1. job \in Jobs /\ channel \in Channel /\ byte_flipflop \in BOOLEAN
      BY DEF IInv, TypeOK
    <3>2. /\ Low(job.address) \in 0 .. Byte - 1 /\ High(job.address) \in 0 .. Byte - 1
          /\ Low(job.count) \in 0 .. Byte - 1 /\ High(job.count) \in 0 .. Byte - 1
      BY <3>1, JobType, Digits, WordSize DEF Word
    <3>3. channel.reload_address \in Word /\ channel.count \in Word
      BY <3>1 DEF Channel
    <3>4. ASSUME NEW b \in 0 .. Byte - 1, AddressByte(b)
          PROVE  channel' \in Channel
      BY <3>1, <3>3, <3>4, ByteWritten, ChannelUpdated DEF AddressByte
    <3>5. ASSUME NEW b \in 0 .. Byte - 1, CountByte(b)
          PROVE  channel' \in Channel
      BY <3>1, <3>3, <3>5, ByteWritten, ChannelUpdated DEF CountByte
    <3> QED
      BY <3>2, <3>4, <3>5 DEF WriteAddressAndCount
  <2>2. byte_flipflop' \in BOOLEAN
    BY Zenon DEF WriteAddressAndCount, AddressByte, CountByte
  <2>3. bios' \in Bioses
    BY Zenon DEF WriteAddressAndCount, Go, Port, AddressByte, CountByte,
        Bioses, Programming
  <2>4. UNCHANGED <<i8272, fdd_media_mask, irq6, pc0, dest_addr,
                   size, job, order, moved>>
    BY DEF WriteAddressAndCount, Go, Port, AddressByte, CountByte
  <2> QED
    BY <2>1, <2>2, <2>3, <2>4 DEF IInv, TypeOK, Bioses
<1>2. RequestInv'
  BY DEF IInv, TypeOK, Channel, RequestInv, ChannelInv, Programming,
      WriteAddressAndCount, Go, Port, AddressByte, CountByte
<1>3. PhaseInv'
  BY DEF IInv, TypeOK, Fdc, PhaseInv, Programming, WriteAddressAndCount, Go,
      Port, AddressByte, CountByte
<1>4. ChannelInv'
  <2>1. /\ job \in Jobs /\ channel \in Channel /\ job' = job
        /\ channel.reload_address \in Word /\ channel.count \in Word
        /\ bios \in Programming /\ job.cmd \in Transfers
    BY DEF IInv, TypeOK, Channel, ChannelInv, WriteAddressAndCount, Go,
           Programming
  <2>2. /\ job.address \in Word /\ job.count \in Word
        /\ Low(job.address) \in 0 .. Byte - 1
        /\ High(job.address) \in 0 .. Byte - 1
        /\ Low(job.count) \in 0 .. Byte - 1
        /\ High(job.count) \in 0 .. Byte - 1
    BY <2>1, JobType, Digits, WordSize DEF Word
  <2>3. CASE Go("address", "address_high") /\ AddressByte(Low(job.address))
    <3>1. ~byte_flipflop /\ byte_flipflop' /\ bios' = "address_high"
      BY <2>3 DEF IInv, ChannelInv, Go, AddressByte
    <3>2. channel'.reload_address
            = WithLow(channel.reload_address, Low(job.address))
      BY <2>1, <2>3, <3>1 DEF AddressByte, Channel
    <3> QED
      BY <2>1, <2>2, <3>1, <3>2, ByteWritten DEF ChannelInv, Programming
  <2>4. CASE Go("address_high", "count") /\ AddressByte(High(job.address))
    <3>1. byte_flipflop /\ ~byte_flipflop' /\ bios' = "count"
          /\ Low(channel.reload_address) = Low(job.address)
      BY <2>4 DEF IInv, ChannelInv, Go, AddressByte
    <3>2. WithHigh(channel.reload_address, High(job.address)) = job.address
      BY <2>1, <2>2, <3>1, WordWritten
    <3>3. channel'.reload_address = job.address
          /\ channel'.address = job.address
      BY <2>1, <2>4, <3>1, <3>2 DEF AddressByte, Channel
    <3> QED
      BY <2>1, <3>1, <3>3 DEF ChannelInv, Programming
  <2>5. CASE Go("count", "count_high") /\ CountByte(Low(job.count))
    <3>1. /\ ~byte_flipflop /\ byte_flipflop' /\ bios' = "count_high"
          /\ channel.address = job.address
          /\ channel.reload_address = job.address
      BY <2>5 DEF IInv, ChannelInv, Go, CountByte
    <3>2. /\ channel'.count = WithLow(channel.count, Low(job.count))
          /\ channel'.address = channel.address
          /\ channel'.reload_address = channel.reload_address
      BY <2>1, <2>5, <3>1 DEF CountByte, Channel
    <3>3. Low(channel'.count) = Low(job.count)
      BY <2>1, <2>2, <3>2, ByteWritten
    <3> QED
      BY <2>1, <3>1, <3>2, <3>3 DEF ChannelInv, Programming
  <2>6. CASE Go("count_high", "unmask") /\ CountByte(High(job.count))
    <3>1. /\ byte_flipflop /\ bios' = "unmask"
          /\ Low(channel.count) = Low(job.count)
          /\ channel.address = job.address
          /\ channel.reload_address = job.address
      BY <2>6 DEF IInv, ChannelInv, Go, CountByte
    <3>2. WithHigh(channel.count, High(job.count)) = job.count
      BY <2>1, <2>2, <3>1, WordWritten
    <3>3. /\ channel'.count = job.count
          /\ channel'.reload_count = job.count
          /\ channel'.address = channel.address
          /\ channel'.reload_address = channel.reload_address
      BY <2>1, <2>6, <3>1, <3>2 DEF CountByte, Channel
    <3> QED
      BY <2>1, <3>1, <3>3 DEF ChannelInv, Programming
  <2> QED
    BY <2>3, <2>4, <2>5, <2>6 DEF WriteAddressAndCount
<1>5. OrderInv'
  BY DEF IInv, TypeOK, OrderInv, RequestInv, PhaseInv, Programming,
      WriteAddressAndCount, Go, Port, AddressByte, CountByte
<1>6. PassInv'
  BY DEF IInv, TypeOK, Channel, PassInv, OrderInv, RequestInv, Programming,
      WriteAddressAndCount, Go, Port, AddressByte, CountByte
<1> QED
  BY <1>1, <1>2, <1>3, <1>4, <1>5, <1>6 DEF IInv

(* Unmask keeps the invariant.                                             *)
LEMMA UnmaskKeeps == ASSUME IInv, Unmask PROVE IInv'
<1>1. TypeOK'
  <2>1. channel' \in Channel
    <3>1. channel \in Channel
      BY DEF IInv, TypeOK
    <3>2. [channel EXCEPT !.masked = FALSE] \in Channel
      BY <3>1 DEF Channel
    <3>3. [channel EXCEPT !.masked = FALSE, !.address = channel.reload_address,
                          !.count = channel.reload_count] \in Channel
      BY <3>1 DEF Channel
    <3> QED
      BY <3>2, <3>3 DEF Unmask
  <2>2. bios' \in Bioses
    BY Zenon DEF Unmask, Go, Port, Bioses, Programming
  <2>3. UNCHANGED <<byte_flipflop, i8272, fdd_media_mask, irq6, pc0,
                   dest_addr, size, job, order, moved>>
    BY DEF Unmask, Go, Port
  <2> QED
    BY <2>1, <2>2, <2>3 DEF IInv, TypeOK, Bioses
<1>2. RequestInv'
  BY DEF IInv, TypeOK, Channel, RequestInv, ChannelInv, Programming, Unmask,
      Go, Port
<1>3. PhaseInv'
  BY DEF IInv, TypeOK, Fdc, PhaseInv, Programming, Unmask, Go, Port
<1>4. ChannelInv'
  <2>1. /\ channel.address = job.address /\ channel.count = job.count
        /\ channel.reload_address = job.address
        /\ channel.reload_count = job.count
        /\ job.cmd \in Transfers
    BY DEF IInv, ChannelInv, Unmask, Go
  <2>2. /\ bios' = "command" /\ job' = job
        /\ channel'.address \in {channel.address, channel.reload_address}
        /\ channel'.count \in {channel.count, channel.reload_count}
        /\ channel'.reload_address = channel.reload_address
        /\ channel'.reload_count = channel.reload_count
    <3>1. channel \in Channel
      BY DEF IInv, TypeOK
    <3> QED
      BY <3>1 DEF Unmask, Go, Port, Channel
  <2> QED
    BY <2>1, <2>2 DEF ChannelInv, Programming
<1>5. OrderInv'
  BY DEF IInv, TypeOK, OrderInv, RequestInv, PhaseInv, Programming, Unmask, Go,
      Port
<1>6. PassInv'
  BY DEF IInv, TypeOK, Channel, PassInv, OrderInv, RequestInv, Programming,
      Unmask, Go, Port
<1> QED
  BY <1>1, <1>2, <1>3, <1>4, <1>5, <1>6 DEF IInv

(* WriteDOR keeps the invariant.                                           *)
LEMMA WriteDORKeeps == ASSUME IInv, WriteDOR PROVE IInv'
<1>1. TypeOK'
  <2>1. i8272' \in Fdc
    <3>1. i8272 \in Fdc
      BY DEF IInv, TypeOK
    <3>2. /\ [i8272 EXCEPT !.irq_enabled = TRUE, !.running = FALSE] \in Fdc
          /\ [i8272 EXCEPT !.running = TRUE, !.check_drives_mask = 0 .. 3]
               \in Fdc
      BY <3>1 DEF Fdc
    <3> QED
      BY <3>2 DEF WriteDOR
  <2>2. irq6' \in BOOLEAN
    BY ZenonT(30) DEF IInv, TypeOK, WriteDOR, Irq, Go, Fdd
  <2>3. bios' \in Bioses
    BY Zenon DEF WriteDOR, Go, Irq, Fdd, Bioses, Programming
  <2>4. UNCHANGED <<channel, byte_flipflop, fdd_media_mask, pc0,
                   dest_addr, size, job, order, moved>>
    BY DEF WriteDOR, Go, Irq, Fdd
  <2> QED
    BY <2>1, <2>2, <2>3, <2>4 DEF IInv, TypeOK, Bioses
<1>2. RequestInv'
  BY DEF IInv, TypeOK, Channel, RequestInv, ChannelInv, Programming, WriteDOR,
      Go, Irq, Fdd
<1>3. PhaseInv'
  BY DEF IInv, TypeOK, Fdc, PhaseInv, Programming, WriteDOR, Go, Irq, Fdd
<1>4. ChannelInv'
  BY DEF IInv, TypeOK, Channel, ChannelInv, RequestInv, PhaseInv, Programming,
      WriteDOR, Go, Irq, Fdd
<1>5. OrderInv'
  BY DEF IInv, TypeOK, OrderInv, RequestInv, PhaseInv, Programming, WriteDOR,
      Go, Irq, Fdd
<1>6. PassInv'
  BY DEF IInv, TypeOK, Channel, PassInv, OrderInv, RequestInv, Programming,
      WriteDOR, Go, Irq, Fdd
<1> QED
  BY <1>1, <1>2, <1>3, <1>4, <1>5, <1>6 DEF IInv

(* SendByte keeps the invariant.                                           *)
LEMMA SendByteKeeps == ASSUME IInv, SendByte PROVE IInv'
<1>1. TypeOK'
  <2>1. i8272' \in Fdc
    <3>1. i8272 \in Fdc /\ job \in Jobs
      BY DEF IInv, TypeOK
    <3>2. Sent \in Commands /\ Expected \in 0 .. 9 /\ Index \in 0 .. 9
      <4>1. i8272.command \in Commands /\ i8272.command_length \in 0 .. 9
            /\ i8272.command_index \in 0 .. 9
        BY <3>1 DEF Fdc
      <4>2. job.cmd \in Commands \cup {"reset"} /\ Index < Expected
        BY <3>1, JobType DEF SendByte
      <4>3. i8272.command_length = 0 => Sent # "reset"
        BY <4>2 DEF Index, Expected, Length
      <4>4. Sent \in Commands
        BY <4>1, <4>2, <4>3 DEF Sent
      <4>5. Expected \in 0 .. 9
        BY <4>1 DEF Expected, Length
      <4>6. Index \in 0 .. 9
        BY <4>1, <4>5 DEF SendByte, Index
      <4> QED
        BY <4>4, <4>5, <4>6
    <3> QED
      BY <3>1, <3>2, Updated DEF SendByte
  <2>2. UNCHANGED <<channel, byte_flipflop, fdd_media_mask, irq6,
                   pc0, dest_addr, size, bios, job, order, moved>>
    BY DEF SendByte, Fdd, Sending, Sent, Expected, Index, Length
  <2> QED
    BY <2>1, <2>2 DEF IInv, TypeOK, Bioses
<1>2. RequestInv'
  BY DEF IInv, TypeOK, Channel, RequestInv, ChannelInv, Programming, SendByte,
      Fdd, Sending, Sent, Expected, Index, Length
<1>3. PhaseInv'
  BY DEF IInv, TypeOK, Fdc, PhaseInv, Programming, SendByte, Fdd, Sending,
      Sent, Expected, Index, Length
<1>4. ChannelInv'
  BY DEF IInv, TypeOK, Channel, ChannelInv, RequestInv, PhaseInv, Programming,
      SendByte, Fdd, Sending, Sent, Expected, Index, Length
<1>5. OrderInv'
  BY DEF IInv, TypeOK, OrderInv, RequestInv, PhaseInv, Programming, SendByte,
      Fdd, Sending, Sent, Expected, Index, Length
<1>6. PassInv'
  BY DEF IInv, TypeOK, Channel, PassInv, OrderInv, RequestInv, Programming,
      SendByte, Fdd, Sending, Sent, Expected, Index, Length
<1> QED
  BY <1>1, <1>2, <1>3, <1>4, <1>5, <1>6 DEF IInv

(* SendUnknown keeps the invariant.                                        *)
LEMMA SendUnknownKeeps == ASSUME IInv, SendUnknown PROVE IInv'
<1>1. TypeOK'
  <2>1. i8272' \in Fdc
    <3>1. i8272 \in Fdc
      BY DEF IInv, TypeOK
    <3> QED
      BY <3>1, Updated, Values DEF SendUnknown
  <2>2. bios' \in Bioses
    BY Zenon DEF SendUnknown, Fdd, Sending, Sent, Expected, Index, Length,
        Bioses, Programming
  <2>3. UNCHANGED <<channel, byte_flipflop, fdd_media_mask, irq6,
                   pc0, dest_addr, size, job, order, moved>>
    BY DEF SendUnknown, Fdd, Sending, Sent, Expected, Index, Length
  <2> QED
    BY <2>1, <2>2, <2>3 DEF IInv, TypeOK, Bioses
<1>2. RequestInv'
  BY DEF IInv, TypeOK, Channel, RequestInv, ChannelInv, Programming,
      SendUnknown, Fdd, Sending, Sent, Expected, Index, Length
<1>3. PhaseInv'
  BY DEF IInv, TypeOK, Fdc, PhaseInv, Programming, SendUnknown, Fdd, Sending,
      Sent, Expected, Index, Length
<1>4. ChannelInv'
  BY DEF IInv, TypeOK, Channel, ChannelInv, RequestInv, PhaseInv, Programming,
      SendUnknown, Fdd, Sending, Sent, Expected, Index, Length
<1>5. OrderInv'
  BY DEF IInv, TypeOK, OrderInv, RequestInv, PhaseInv, Programming,
      SendUnknown, Fdd, Sending, Sent, Expected, Index, Length
<1>6. PassInv'
  BY DEF IInv, TypeOK, Channel, PassInv, OrderInv, RequestInv, Programming,
      SendUnknown, Fdd, Sending, Sent, Expected, Index, Length
<1> QED
  BY <1>1, <1>2, <1>3, <1>4, <1>5, <1>6 DEF IInv

(* ReadData keeps the invariant.                                           *)
LEMMA ReadDataKeeps == ASSUME IInv, ReadData PROVE IInv'
<1>1. TypeOK'
  <2>1. channel' \in Channel
    <3>1. channel \in Channel /\ job \in Jobs
      BY DEF IInv, TypeOK
    <3>2. ASSUME NEW s \in Sources, StartTransfer(s) PROVE channel' \in Channel
      <4>1. channel' = [channel EXCEPT !.data_source_type = s,
                          !.data_offset = job.place, !.file_index = job.drive,
                          !.dreq = TRUE]
        BY <3>2 DEF StartTransfer
      <4> QED
        BY <3>1, <4>1, TransferTyped
    <3> QED
      BY <3>1, <3>2 DEF ReadData, Sources
  <2>2. i8272' \in Fdc
    <3>1. i8272 \in Fdc
      BY DEF IInv, TypeOK
    <3>2. \A s \in Status : [i8272 EXCEPT !.response = s, !.result = s, !.result_count = 7] \in Fdc
      BY <3>1, Updated, Values
    <3> QED
      BY <3>2, Values, ExecutedType DEF ReadData, TransferCommand
  <2>3. irq6' \in BOOLEAN
    BY ZenonT(30) DEF IInv, TypeOK, ReadData, StartTransfer, Irq
  <2>4. bios' \in Bioses
    BY Zenon DEF ReadData, TransferCommand, Execute, Bioses
  <2>5. order' \in Orders \cup {NoOrder} /\ moved' \in Seq(Orders)
    <3>1. job \in Jobs
      BY DEF IInv, TypeOK
    <3>2. job.count + 1 \in 1 .. Byte * Byte
      <4> DEFINE N == Byte * Byte
      <4>1. N \in Nat /\ job.count \in 0 .. N - 2
        BY <3>1, JobType, WordSize
      <4> HIDE DEF N
      <4>2. job.count + 1 \in 1 .. N
        BY <4>1
      <4> QED
        BY <4>2 DEF N
    <3>3. ASSUME NEW s \in Sources, StartTransfer(s)
          PROVE  order' \in Orders /\ moved' = moved
      BY <3>1, <3>2, <3>3, JobType DEF StartTransfer, Orders
    <3>4. UNCHANGED history \/ \E s \in Sources : StartTransfer(s)
      BY DEF ReadData, Sources
    <3> QED
      BY <3>3, <3>4 DEF IInv, TypeOK
  <2>6. UNCHANGED <<byte_flipflop, fdd_media_mask, pc0, dest_addr,
                   size, job>>
    BY DEF ReadData, TransferCommand, StartTransfer, Irq, Execute, Executed,
        Fdd, Sending, Sent
  <2> QED
    BY <2>1, <2>2, <2>3, <2>4, <2>5, <2>6 DEF IInv, TypeOK, Bioses
<1>2. RequestInv'
  BY DEF IInv, TypeOK, Channel, RequestInv, ChannelInv, Programming, ReadData,
      TransferCommand, StartTransfer, Irq, Execute, Executed, Fdd, Sending, Sent
<1>3. PhaseInv'
  BY DEF IInv, TypeOK, Fdc, PhaseInv, Programming, ReadData, TransferCommand,
      StartTransfer, Irq, Execute, Executed, Fdd, Sending, Sent
<1>4. ChannelInv'
  BY DEF IInv, TypeOK, Channel, ChannelInv, RequestInv, PhaseInv, Programming,
      ReadData, TransferCommand, StartTransfer, Irq, Execute, Executed, Fdd,
      Sending, Sent
<1>5. OrderInv'
  <2>1. /\ ~channel.dreq /\ pc0 = "look" /\ order = NoOrder /\ moved = <<>>
        /\ bios' = "wait" /\ pc0' = pc0 /\ job' = job /\ job \in Jobs
        /\ dest_addr' = dest_addr /\ size' = size
    BY DEF ReadData, TransferCommand, Execute, Sending, Fdd, IInv, RequestInv,
           OrderInv, TypeOK
  <2>2. bios = "command" /\ job.cmd = "read"
    BY DEF ReadData, TransferCommand, Execute, Sending, Sent, IInv, PhaseInv
  <2>3. CASE UNCHANGED history
    BY <2>1, <2>3 DEF OrderInv
  <2>4. ASSUME NEW s \in Sources, StartTransfer(s)
        PROVE  OrderInv'
    <3>1. /\ order'.source = s /\ order'.size = job.count + 1
          /\ order'.size < Byte * Byte /\ moved' = <<>>
          /\ channel'.dreq
      <4>1. job.count \in 0 .. Byte * Byte - 2 /\ channel \in Channel
        BY <2>1, JobType DEF IInv, TypeOK
      <4>2. job.count + 1 < Byte * Byte
        BY <4>1, WordSize
      <4> QED
        BY <2>1, <2>4, <4>1, <4>2 DEF StartTransfer, Channel
    <3>2. order' # NoOrder
      BY <3>1 DEF NoOrder, Sources
    <3>3. order' \in Orders
      BY <1>1, <3>2 DEF TypeOK
    <3> QED
      BY <2>1, <2>2, <3>1, <3>2, <3>3 DEF OrderInv
  <2>5. UNCHANGED history \/ \E s \in Sources : StartTransfer(s)
    BY DEF ReadData, Sources
  <2> QED
    BY <2>3, <2>4, <2>5
<1>6. PassInv'
  <2>1. /\ ~channel.dreq /\ pc0 = "look" /\ order = NoOrder /\ moved = <<>>
        /\ bios' = "wait" /\ pc0' = pc0 /\ job' = job /\ job \in Jobs
        /\ dest_addr' = dest_addr /\ size' = size
    BY DEF ReadData, TransferCommand, Execute, Sending, Fdd, IInv, RequestInv,
           OrderInv, TypeOK
  <2>2. bios = "command" /\ job.cmd = "read"
    BY DEF ReadData, TransferCommand, Execute, Sending, Sent, IInv, PhaseInv
  <2>3. CASE UNCHANGED channel
    BY <2>1, <2>3 DEF PassInv
  <2>4. ASSUME NEW s \in Sources, StartTransfer(s)
        PROVE  PassInv'
    <3>1. /\ channel \in Channel /\ channel.count \in Nat
          /\ channel.address = job.address /\ channel.count = job.count
      BY <2>2 DEF IInv, TypeOK, Channel, Word, ChannelInv
    <3>2. /\ order' # NoOrder /\ order'.source = s
          /\ order'.place = job.place /\ order'.file = job.drive
          /\ order'.address = job.address /\ order'.size = job.count + 1
      BY <2>4 DEF StartTransfer, NoOrder, Sources
    <3>3. /\ channel'.data_source_type = s
          /\ channel'.data_offset = job.place
          /\ channel'.file_index = job.drive
          /\ channel'.address = job.address
          /\ channel'.count = job.count
      BY <2>4, <3>1 DEF StartTransfer, Channel
    <3> QED
      BY <2>1, <3>2, <3>3 DEF PassInv
  <2>5. UNCHANGED channel \/ \E s \in Sources : StartTransfer(s)
    BY DEF ReadData, Sources
  <2> QED
    BY <2>3, <2>4, <2>5
<1> QED
  BY <1>1, <1>2, <1>3, <1>4, <1>5, <1>6 DEF IInv

(* WriteData keeps the invariant.                                          *)
LEMMA WriteDataKeeps == ASSUME IInv, WriteData PROVE IInv'
<1>1. TypeOK'
  <2>1. channel' \in Channel
    <3>1. channel \in Channel /\ job \in Jobs
      BY DEF IInv, TypeOK
    <3>2. ASSUME NEW s \in Sources, StartTransfer(s) PROVE channel' \in Channel
      <4>1. channel' = [channel EXCEPT !.data_source_type = s,
                          !.data_offset = job.place, !.file_index = job.drive,
                          !.dreq = TRUE]
        BY <3>2 DEF StartTransfer
      <4> QED
        BY <3>1, <4>1, TransferTyped
    <3> QED
      BY <3>1, <3>2 DEF WriteData, Sources
  <2>2. i8272' \in Fdc
    <3>1. i8272 \in Fdc
      BY DEF IInv, TypeOK
    <3>2. \A s \in Status : [i8272 EXCEPT !.response = s, !.result = s, !.result_count = 7] \in Fdc
      BY <3>1, Updated, Values
    <3> QED
      BY <3>2, Values, ExecutedType DEF WriteData, TransferCommand
  <2>3. irq6' \in BOOLEAN
    BY ZenonT(30) DEF IInv, TypeOK, WriteData, StartTransfer, Irq
  <2>4. bios' \in Bioses
    BY Zenon DEF WriteData, TransferCommand, Execute, Bioses
  <2>5. order' \in Orders \cup {NoOrder} /\ moved' \in Seq(Orders)
    <3>1. job \in Jobs
      BY DEF IInv, TypeOK
    <3>2. job.count + 1 \in 1 .. Byte * Byte
      <4> DEFINE N == Byte * Byte
      <4>1. N \in Nat /\ job.count \in 0 .. N - 2
        BY <3>1, JobType, WordSize
      <4> HIDE DEF N
      <4>2. job.count + 1 \in 1 .. N
        BY <4>1
      <4> QED
        BY <4>2 DEF N
    <3>3. ASSUME NEW s \in Sources, StartTransfer(s)
          PROVE  order' \in Orders /\ moved' = moved
      BY <3>1, <3>2, <3>3, JobType DEF StartTransfer, Orders
    <3>4. UNCHANGED history \/ \E s \in Sources : StartTransfer(s)
      BY DEF WriteData, Sources
    <3> QED
      BY <3>3, <3>4 DEF IInv, TypeOK
  <2>6. UNCHANGED <<byte_flipflop, fdd_media_mask, pc0, dest_addr,
                   size, job>>
    BY DEF WriteData, TransferCommand, StartTransfer, Irq, Execute, Executed,
        Fdd, Sending, Sent
  <2> QED
    BY <2>1, <2>2, <2>3, <2>4, <2>5, <2>6 DEF IInv, TypeOK, Bioses
<1>2. RequestInv'
  BY DEF IInv, TypeOK, Channel, RequestInv, ChannelInv, Programming, WriteData,
      TransferCommand, StartTransfer, Irq, Execute, Executed, Fdd, Sending, Sent
<1>3. PhaseInv'
  BY DEF IInv, TypeOK, Fdc, PhaseInv, Programming, WriteData, TransferCommand,
      StartTransfer, Irq, Execute, Executed, Fdd, Sending, Sent
<1>4. ChannelInv'
  BY DEF IInv, TypeOK, Channel, ChannelInv, RequestInv, PhaseInv, Programming,
      WriteData, TransferCommand, StartTransfer, Irq, Execute, Executed, Fdd,
      Sending, Sent
<1>5. OrderInv'
  <2>1. /\ ~channel.dreq /\ pc0 = "look" /\ order = NoOrder /\ moved = <<>>
        /\ bios' = "wait" /\ pc0' = pc0 /\ job' = job /\ job \in Jobs
        /\ dest_addr' = dest_addr /\ size' = size
    BY DEF WriteData, TransferCommand, Execute, Sending, Fdd, IInv, RequestInv,
           OrderInv, TypeOK
  <2>2. bios = "command" /\ job.cmd = "write"
    BY DEF WriteData, TransferCommand, Execute, Sending, Sent, IInv, PhaseInv
  <2>3. CASE UNCHANGED history
    BY <2>1, <2>3 DEF OrderInv
  <2>4. ASSUME NEW s \in Sources, StartTransfer(s)
        PROVE  OrderInv'
    <3>1. /\ order'.source = s /\ order'.size = job.count + 1
          /\ order'.size < Byte * Byte /\ moved' = <<>>
          /\ channel'.dreq
      <4>1. job.count \in 0 .. Byte * Byte - 2 /\ channel \in Channel
        BY <2>1, JobType DEF IInv, TypeOK
      <4>2. job.count + 1 < Byte * Byte
        BY <4>1, WordSize
      <4> QED
        BY <2>1, <2>4, <4>1, <4>2 DEF StartTransfer, Channel
    <3>2. order' # NoOrder
      BY <3>1 DEF NoOrder, Sources
    <3>3. order' \in Orders
      BY <1>1, <3>2 DEF TypeOK
    <3> QED
      BY <2>1, <2>2, <3>1, <3>2, <3>3 DEF OrderInv
  <2>5. UNCHANGED history \/ \E s \in Sources : StartTransfer(s)
    BY DEF WriteData, Sources
  <2> QED
    BY <2>3, <2>4, <2>5
<1>6. PassInv'
  <2>1. /\ ~channel.dreq /\ pc0 = "look" /\ order = NoOrder /\ moved = <<>>
        /\ bios' = "wait" /\ pc0' = pc0 /\ job' = job /\ job \in Jobs
        /\ dest_addr' = dest_addr /\ size' = size
    BY DEF WriteData, TransferCommand, Execute, Sending, Fdd, IInv, RequestInv,
           OrderInv, TypeOK
  <2>2. bios = "command" /\ job.cmd = "write"
    BY DEF WriteData, TransferCommand, Execute, Sending, Sent, IInv, PhaseInv
  <2>3. CASE UNCHANGED channel
    BY <2>1, <2>3 DEF PassInv
  <2>4. ASSUME NEW s \in Sources, StartTransfer(s)
        PROVE  PassInv'
    <3>1. /\ channel \in Channel /\ channel.count \in Nat
          /\ channel.address = job.address /\ channel.count = job.count
      BY <2>2 DEF IInv, TypeOK, Channel, Word, ChannelInv
    <3>2. /\ order' # NoOrder /\ order'.source = s
          /\ order'.place = job.place /\ order'.file = job.drive
          /\ order'.address = job.address /\ order'.size = job.count + 1
      BY <2>4 DEF StartTransfer, NoOrder, Sources
    <3>3. /\ channel'.data_source_type = s
          /\ channel'.data_offset = job.place
          /\ channel'.file_index = job.drive
          /\ channel'.address = job.address
          /\ channel'.count = job.count
      BY <2>4, <3>1 DEF StartTransfer, Channel
    <3> QED
      BY <2>1, <3>2, <3>3 DEF PassInv
  <2>5. UNCHANGED channel \/ \E s \in Sources : StartTransfer(s)
    BY DEF WriteData, Sources
  <2> QED
    BY <2>3, <2>4, <2>5
<1> QED
  BY <1>1, <1>2, <1>3, <1>4, <1>5, <1>6 DEF IInv

(* Seek keeps the invariant.                                               *)
LEMMA SeekKeeps == ASSUME IInv, Seek PROVE IInv'
<1>1. TypeOK'
  <2>1. i8272' \in Fdc
    <3>1. i8272 \in Fdc
      BY DEF IInv, TypeOK
    <3> QED
      BY <3>1, Updated, Values, ExecutedType DEF Seek, MoveHead
  <2>2. irq6' \in BOOLEAN
    BY ZenonT(30) DEF IInv, TypeOK, Seek, MoveHead, Irq
  <2>3. bios' \in Bioses
    BY Zenon DEF Seek, MoveHead, Execute, Bioses
  <2>4. UNCHANGED <<channel, byte_flipflop, fdd_media_mask, pc0,
                   dest_addr, size, job, order, moved>>
    BY DEF Seek, MoveHead, Irq, Execute, Executed, Fdd, Sending, Sent
  <2> QED
    BY <2>1, <2>2, <2>3, <2>4 DEF IInv, TypeOK, Bioses
<1>2. RequestInv'
  BY DEF IInv, TypeOK, Channel, RequestInv, ChannelInv, Programming, Seek,
      MoveHead, Irq, Execute, Executed, Fdd, Sending, Sent
<1>3. PhaseInv'
  BY DEF IInv, TypeOK, Fdc, PhaseInv, Programming, Seek, MoveHead, Irq,
      Execute, Executed, Fdd, Sending, Sent
<1>4. ChannelInv'
  BY DEF IInv, TypeOK, Channel, ChannelInv, RequestInv, PhaseInv, Programming,
      Seek, MoveHead, Irq, Execute, Executed, Fdd, Sending, Sent
<1>5. OrderInv'
  BY DEF IInv, TypeOK, OrderInv, RequestInv, PhaseInv, Programming, Seek,
      MoveHead, Irq, Execute, Executed, Fdd, Sending, Sent
<1>6. PassInv'
  BY DEF IInv, TypeOK, Channel, PassInv, OrderInv, RequestInv, Programming,
      Seek, MoveHead, Irq, Execute, Executed, Fdd, Sending, Sent
<1> QED
  BY <1>1, <1>2, <1>3, <1>4, <1>5, <1>6 DEF IInv

(* Recalibrate keeps the invariant.                                        *)
LEMMA RecalibrateKeeps == ASSUME IInv, Recalibrate PROVE IInv'
<1>1. TypeOK'
  <2>1. i8272' \in Fdc
    <3>1. i8272 \in Fdc
      BY DEF IInv, TypeOK
    <3> QED
      BY <3>1, Updated, Values, ExecutedType DEF Recalibrate, MoveHead
  <2>2. irq6' \in BOOLEAN
    BY ZenonT(30) DEF IInv, TypeOK, Recalibrate, MoveHead, Irq
  <2>3. bios' \in Bioses
    BY Zenon DEF Recalibrate, MoveHead, Execute, Bioses
  <2>4. UNCHANGED <<channel, byte_flipflop, fdd_media_mask, pc0,
                   dest_addr, size, job, order, moved>>
    BY DEF Recalibrate, MoveHead, Irq, Execute, Executed, Fdd, Sending, Sent
  <2> QED
    BY <2>1, <2>2, <2>3, <2>4 DEF IInv, TypeOK, Bioses
<1>2. RequestInv'
  BY DEF IInv, TypeOK, Channel, RequestInv, ChannelInv, Programming,
      Recalibrate, MoveHead, Irq, Execute, Executed, Fdd, Sending, Sent
<1>3. PhaseInv'
  BY DEF IInv, TypeOK, Fdc, PhaseInv, Programming, Recalibrate, MoveHead, Irq,
      Execute, Executed, Fdd, Sending, Sent
<1>4. ChannelInv'
  BY DEF IInv, TypeOK, Channel, ChannelInv, RequestInv, PhaseInv, Programming,
      Recalibrate, MoveHead, Irq, Execute, Executed, Fdd, Sending, Sent
<1>5. OrderInv'
  BY DEF IInv, TypeOK, OrderInv, RequestInv, PhaseInv, Programming,
      Recalibrate, MoveHead, Irq, Execute, Executed, Fdd, Sending, Sent
<1>6. PassInv'
  BY DEF IInv, TypeOK, Channel, PassInv, OrderInv, RequestInv, Programming,
      Recalibrate, MoveHead, Irq, Execute, Executed, Fdd, Sending, Sent
<1> QED
  BY <1>1, <1>2, <1>3, <1>4, <1>5, <1>6 DEF IInv

(* SenseInterrupt keeps the invariant.                                     *)
LEMMA SenseInterruptKeeps == ASSUME IInv, SenseInterrupt PROVE IInv'
<1>1. TypeOK'
  <2>1. i8272' \in Fdc
    <3>1. i8272 \in Fdc /\ i8272.response \in Status /\ i8272.check_drives_mask \in SUBSET (0 .. 3)
      BY DEF IInv, TypeOK, Fdc
    <3> QED
      BY <3>1, Updated, Values, ExecutedType DEF SenseInterrupt
  <2>2. bios' \in Bioses
    BY Zenon DEF SenseInterrupt, Execute, Bioses
  <2>3. UNCHANGED <<channel, byte_flipflop, fdd_media_mask, irq6,
                   pc0, dest_addr, size, job, order, moved>>
    BY DEF SenseInterrupt, Execute, Executed, Fdd, Sending, Sent
  <2> QED
    BY <2>1, <2>2, <2>3 DEF IInv, TypeOK, Bioses
<1>2. RequestInv'
  BY DEF IInv, TypeOK, Channel, RequestInv, ChannelInv, Programming,
      SenseInterrupt, Execute, Executed, Fdd, Sending, Sent
<1>3. PhaseInv'
  BY DEF IInv, TypeOK, Fdc, PhaseInv, Programming, SenseInterrupt, Execute,
      Executed, Fdd, Sending, Sent
<1>4. ChannelInv'
  BY DEF IInv, TypeOK, Channel, ChannelInv, RequestInv, PhaseInv, Programming,
      SenseInterrupt, Execute, Executed, Fdd, Sending, Sent
<1>5. OrderInv'
  BY DEF IInv, TypeOK, OrderInv, RequestInv, PhaseInv, Programming,
      SenseInterrupt, Execute, Executed, Fdd, Sending, Sent
<1>6. PassInv'
  BY DEF IInv, TypeOK, Channel, PassInv, OrderInv, RequestInv, Programming,
      SenseInterrupt, Execute, Executed, Fdd, Sending, Sent
<1> QED
  BY <1>1, <1>2, <1>3, <1>4, <1>5, <1>6 DEF IInv

(* SenseDrive keeps the invariant.                                         *)
LEMMA SenseDriveKeeps == ASSUME IInv, SenseDrive PROVE IInv'
<1>1. TypeOK'
  <2>1. i8272' \in Fdc
    <3>1. i8272 \in Fdc
      BY DEF IInv, TypeOK
    <3> QED
      BY <3>1, Updated, Values, ExecutedType DEF SenseDrive
  <2>2. bios' \in Bioses
    BY Zenon DEF SenseDrive, Execute, Bioses
  <2>3. UNCHANGED <<channel, byte_flipflop, fdd_media_mask, irq6,
                   pc0, dest_addr, size, job, order, moved>>
    BY DEF SenseDrive, Execute, Executed, Fdd, Sending, Sent
  <2> QED
    BY <2>1, <2>2, <2>3 DEF IInv, TypeOK, Bioses
<1>2. RequestInv'
  BY DEF IInv, TypeOK, Channel, RequestInv, ChannelInv, Programming,
      SenseDrive, Execute, Executed, Fdd, Sending, Sent
<1>3. PhaseInv'
  BY DEF IInv, TypeOK, Fdc, PhaseInv, Programming, SenseDrive, Execute,
      Executed, Fdd, Sending, Sent
<1>4. ChannelInv'
  BY DEF IInv, TypeOK, Channel, ChannelInv, RequestInv, PhaseInv, Programming,
      SenseDrive, Execute, Executed, Fdd, Sending, Sent
<1>5. OrderInv'
  BY DEF IInv, TypeOK, OrderInv, RequestInv, PhaseInv, Programming, SenseDrive,
      Execute, Executed, Fdd, Sending, Sent
<1>6. PassInv'
  BY DEF IInv, TypeOK, Channel, PassInv, OrderInv, RequestInv, Programming,
      SenseDrive, Execute, Executed, Fdd, Sending, Sent
<1> QED
  BY <1>1, <1>2, <1>3, <1>4, <1>5, <1>6 DEF IInv

(* ReadId keeps the invariant.                                             *)
LEMMA ReadIdKeeps == ASSUME IInv, ReadId PROVE IInv'
<1>1. TypeOK'
  <2>1. i8272' \in Fdc
    <3>1. i8272 \in Fdc
      BY DEF IInv, TypeOK
    <3> QED
      BY <3>1, Updated, Values, ExecutedType DEF ReadId
  <2>2. irq6' \in BOOLEAN
    BY ZenonT(30) DEF IInv, TypeOK, ReadId, Irq
  <2>3. bios' \in Bioses
    BY Zenon DEF ReadId, Execute, Bioses
  <2>4. UNCHANGED <<channel, byte_flipflop, fdd_media_mask, pc0,
                   dest_addr, size, job, order, moved>>
    BY DEF ReadId, Irq, Execute, Executed, Fdd, Sending, Sent
  <2> QED
    BY <2>1, <2>2, <2>3, <2>4 DEF IInv, TypeOK, Bioses
<1>2. RequestInv'
  BY DEF IInv, TypeOK, Channel, RequestInv, ChannelInv, Programming, ReadId,
      Irq, Execute, Executed, Fdd, Sending, Sent
<1>3. PhaseInv'
  BY DEF IInv, TypeOK, Fdc, PhaseInv, Programming, ReadId, Irq, Execute,
      Executed, Fdd, Sending, Sent
<1>4. ChannelInv'
  BY DEF IInv, TypeOK, Channel, ChannelInv, RequestInv, PhaseInv, Programming,
      ReadId, Irq, Execute, Executed, Fdd, Sending, Sent
<1>5. OrderInv'
  BY DEF IInv, TypeOK, OrderInv, RequestInv, PhaseInv, Programming, ReadId,
      Irq, Execute, Executed, Fdd, Sending, Sent
<1>6. PassInv'
  BY DEF IInv, TypeOK, Channel, PassInv, OrderInv, RequestInv, Programming,
      ReadId, Irq, Execute, Executed, Fdd, Sending, Sent
<1> QED
  BY <1>1, <1>2, <1>3, <1>4, <1>5, <1>6 DEF IInv

(* Specify keeps the invariant.                                            *)
LEMMA SpecifyKeeps == ASSUME IInv, Specify PROVE IInv'
<1>1. TypeOK'
  <2>1. i8272' \in Fdc
    <3>1. i8272 \in Fdc
      BY DEF IInv, TypeOK
    <3> QED
      BY <3>1, ExecutedType DEF Specify
  <2>2. bios' \in Bioses
    BY Zenon DEF Specify, Execute, Bioses
  <2>3. UNCHANGED <<channel, byte_flipflop, fdd_media_mask, irq6,
                   pc0, dest_addr, size, job, order, moved>>
    BY DEF Specify, Execute, Executed, Fdd, Sending, Sent
  <2> QED
    BY <2>1, <2>2, <2>3 DEF IInv, TypeOK, Bioses
<1>2. RequestInv'
  BY DEF IInv, TypeOK, Channel, RequestInv, ChannelInv, Programming, Specify,
      Execute, Executed, Fdd, Sending, Sent
<1>3. PhaseInv'
  BY DEF IInv, TypeOK, Fdc, PhaseInv, Programming, Specify, Execute, Executed,
      Fdd, Sending, Sent
<1>4. ChannelInv'
  BY DEF IInv, TypeOK, Channel, ChannelInv, RequestInv, PhaseInv, Programming,
      Specify, Execute, Executed, Fdd, Sending, Sent
<1>5. OrderInv'
  BY DEF IInv, TypeOK, OrderInv, RequestInv, PhaseInv, Programming, Specify,
      Execute, Executed, Fdd, Sending, Sent
<1>6. PassInv'
  BY DEF IInv, TypeOK, Channel, PassInv, OrderInv, RequestInv, Programming,
      Specify, Execute, Executed, Fdd, Sending, Sent
<1> QED
  BY <1>1, <1>2, <1>3, <1>4, <1>5, <1>6 DEF IInv

(* SeeInterrupt keeps the invariant.                                       *)
LEMMA SeeInterruptKeeps == ASSUME IInv, SeeInterrupt PROVE IInv'
<1>1. TypeOK'
  <2>1. irq6' \in BOOLEAN
    BY Zenon DEF SeeInterrupt
  <2>2. bios' \in Bioses
    BY DEF SeeInterrupt, Go, Bioses
  <2>3. UNCHANGED <<channel, byte_flipflop, i8272, fdd_media_mask,
                   pc0, dest_addr, size, job, order, moved>>
    BY DEF SeeInterrupt, Go, Fdd
  <2> QED
    BY <2>1, <2>2, <2>3 DEF IInv, TypeOK, Bioses
<1>2. RequestInv'
  BY DEF IInv, TypeOK, Channel, RequestInv, ChannelInv, Programming,
      SeeInterrupt, Go, Fdd
<1>3. PhaseInv'
  BY DEF IInv, TypeOK, Fdc, PhaseInv, Programming, SeeInterrupt, Go, Fdd
<1>4. ChannelInv'
  BY DEF IInv, TypeOK, Channel, ChannelInv, RequestInv, PhaseInv, Programming,
      SeeInterrupt, Go, Fdd
<1>5. OrderInv'
  BY DEF IInv, TypeOK, OrderInv, RequestInv, PhaseInv, Programming,
      SeeInterrupt, Go, Fdd
<1>6. PassInv'
  BY DEF IInv, TypeOK, Channel, PassInv, OrderInv, RequestInv, Programming,
      SeeInterrupt, Go, Fdd
<1> QED
  BY <1>1, <1>2, <1>3, <1>4, <1>5, <1>6 DEF IInv

(* ReadResult keeps the invariant.                                         *)
LEMMA ReadResultKeeps == ASSUME IInv, ReadResult PROVE IInv'
<1>1. TypeOK'
  <2>1. i8272' \in Fdc
    <3>1. /\ i8272 \in Fdc /\ i8272.result_index \in Nat
          /\ i8272.result_count \in 0 .. 7
          /\ i8272.result_index < i8272.result_count
      BY DEF IInv, TypeOK, Fdc, PhaseInv, ReadResult
    <3>2. i8272.result_index + 1 \in 0 .. 7
      BY <3>1
    <3>3. CASE i8272' = [i8272 EXCEPT !.result_index = i8272.result_index + 1]
      BY <3>1, <3>2, <3>3, Updated
    <3>4. CASE i8272' = [i8272 EXCEPT !.result_index = 0, !.result_count = 0,
                                      !.result = "ok"]
      BY <3>1, <3>4, Updated, Values
    <3> QED
      BY <3>3, <3>4 DEF ReadResult
  <2>2. bios' \in Bioses
    BY DEF IInv, TypeOK, ReadResult, Bioses
  <2>3. order' \in Orders \cup {NoOrder} /\ moved' \in Seq(Orders)
    <3>1. <<>> \in Seq(Orders)
      BY EmptySeq
    <3> QED
      BY <3>1 DEF IInv, TypeOK, ReadResult
  <2>4. UNCHANGED <<channel, byte_flipflop, fdd_media_mask, irq6,
                   pc0, dest_addr, size, job>>
    BY DEF ReadResult, Fdd
  <2> QED
    BY <2>1, <2>2, <2>3, <2>4 DEF IInv, TypeOK, Bioses
<1>2. RequestInv'
  BY DEF IInv, TypeOK, Channel, RequestInv, ChannelInv, Programming,
      ReadResult, Fdd
<1>3. PhaseInv'
  <2>1. /\ i8272 \in Fdc /\ i8272.command_length = 0
        /\ i8272.result_index \in Nat /\ i8272.result_count \in 0 .. 7
        /\ i8272.result_index < i8272.result_count
    BY DEF IInv, TypeOK, Fdc, PhaseInv, ReadResult
  <2>2. CASE i8272.result_index + 1 # i8272.result_count
    <3>1. i8272' = [i8272 EXCEPT !.result_index = i8272.result_index + 1]
          /\ bios' = bios /\ job' = job
      BY <2>2 DEF ReadResult
    <3>2. /\ i8272'.command_length = 0
          /\ i8272'.result_count = i8272.result_count
          /\ i8272'.result_index = i8272.result_index + 1
      BY <2>1, <3>1 DEF Fdc
    <3> QED
      BY <2>1, <2>2, <3>1, <3>2 DEF IInv, PhaseInv, ReadResult
  <2>3. CASE i8272.result_index + 1 = i8272.result_count
    <3>1. i8272' = [i8272 EXCEPT !.result_index = 0, !.result_count = 0,
                                 !.result = "ok"]
      BY <2>3 DEF ReadResult
    <3>2. i8272'.command_length = 0 /\ i8272'.result_count = 0
      BY <2>1, <3>1 DEF Fdc
    <3> QED
      BY <3>2 DEF PhaseInv
  <2> QED
    BY <2>2, <2>3
<1>4. ChannelInv'
  BY DEF IInv, TypeOK, Channel, ChannelInv, RequestInv, PhaseInv, Programming,
      ReadResult, Fdd
<1>5. OrderInv'
  BY DEF IInv, TypeOK, OrderInv, RequestInv, PhaseInv, Programming, ReadResult,
      Fdd
<1>6. PassInv'
  BY DEF IInv, TypeOK, Channel, PassInv, OrderInv, RequestInv, Programming,
      ReadResult, Fdd
<1> QED
  BY <1>1, <1>2, <1>3, <1>4, <1>5, <1>6 DEF IInv

(* StartJob keeps the invariant.                                           *)
LEMMA StartJobKeeps == ASSUME IInv, StartJob PROVE IInv'
<1>1. TypeOK'
  <2>1. bios' \in Bioses /\ job' \in Jobs
    BY DEF StartJob, Bioses, Programming
  <2>2. UNCHANGED <<channel, byte_flipflop, i8272, fdd_media_mask,
                   irq6, pc0, dest_addr, size, order, moved>>
    BY DEF StartJob, Fdd
  <2> QED
    BY <2>1, <2>2 DEF IInv, TypeOK, Bioses
<1>2. RequestInv'
  BY DEF IInv, TypeOK, Channel, RequestInv, ChannelInv, Programming, StartJob,
      Fdd
<1>3. PhaseInv'
  BY DEF IInv, TypeOK, Fdc, PhaseInv, Programming, StartJob, Fdd
<1>4. ChannelInv'
  BY DEF IInv, TypeOK, Channel, ChannelInv, RequestInv, PhaseInv, Programming,
      StartJob, Fdd
<1>5. OrderInv'
  BY DEF IInv, TypeOK, OrderInv, RequestInv, PhaseInv, Programming, StartJob,
      Fdd
<1>6. PassInv'
  BY DEF IInv, TypeOK, Channel, PassInv, OrderInv, RequestInv, Programming,
      StartJob, Fdd
<1> QED
  BY <1>1, <1>2, <1>3, <1>4, <1>5, <1>6 DEF IInv

(* BetweenJobs keeps the invariant.                                        *)
LEMMA BetweenJobsKeeps == ASSUME IInv, BetweenJobs PROVE IInv'
<1>1. TypeOK'
  <2>1. channel' \in Channel
    <3>1. channel \in Channel
      BY DEF IInv, TypeOK
    <3>2. /\ [channel EXCEPT !.masked = TRUE] \in Channel
          /\ [channel EXCEPT !.auto_init = TRUE] \in Channel
          /\ [channel EXCEPT !.finished = FALSE] \in Channel
      BY <3>1 DEF Channel
    <3> QED
      BY <3>2, ResetType DEF BetweenJobs
  <2>2. byte_flipflop' \in BOOLEAN
    BY Zenon DEF IInv, TypeOK, BetweenJobs
  <2>3. UNCHANGED <<i8272, fdd_media_mask, irq6, pc0, dest_addr,
                   size, bios, job, order, moved>>
    BY DEF BetweenJobs, ResetChannel, Port
  <2> QED
    BY <2>1, <2>2, <2>3 DEF IInv, TypeOK, Bioses
<1>2. RequestInv'
  BY DEF IInv, TypeOK, Channel, RequestInv, ChannelInv, Programming,
      BetweenJobs, ResetChannel, Port
<1>3. PhaseInv'
  BY DEF IInv, TypeOK, Fdc, PhaseInv, Programming, BetweenJobs, ResetChannel,
      Port
<1>4. ChannelInv'
  BY DEF IInv, TypeOK, Channel, ChannelInv, RequestInv, PhaseInv, Programming,
      BetweenJobs, ResetChannel, Port
<1>5. OrderInv'
  BY DEF IInv, TypeOK, OrderInv, RequestInv, PhaseInv, Programming,
      BetweenJobs, ResetChannel, Port
<1>6. PassInv'
  BY DEF IInv, TypeOK, Channel, PassInv, OrderInv, RequestInv, Programming,
      BetweenJobs, ResetChannel, Port
<1> QED
  BY <1>1, <1>2, <1>3, <1>4, <1>5, <1>6 DEF IInv

(* OtherChannel keeps the invariant.                                       *)
LEMMA OtherChannelKeeps == ASSUME IInv, OtherChannel PROVE IInv'
<1>1. TypeOK'
  BY DEF IInv, TypeOK, Channel, Fdc, OtherChannel, Port, Programming
<1>2. RequestInv'
  BY DEF IInv, TypeOK, Channel, RequestInv, ChannelInv, Programming,
      OtherChannel, Port
<1>3. PhaseInv'
  BY DEF IInv, TypeOK, Fdc, PhaseInv, Programming, OtherChannel, Port
<1>4. ChannelInv'
  BY DEF IInv, TypeOK, Channel, ChannelInv, RequestInv, PhaseInv, Programming,
      OtherChannel, Port
<1>5. OrderInv'
  BY DEF IInv, TypeOK, OrderInv, RequestInv, PhaseInv, Programming,
      OtherChannel, Port
<1>6. PassInv'
  BY DEF IInv, TypeOK, Channel, PassInv, OrderInv, RequestInv, Programming,
      OtherChannel, Port
<1> QED
  BY <1>1, <1>2, <1>3, <1>4, <1>5, <1>6 DEF IInv

(* MediaReload keeps the invariant.                                        *)
LEMMA MediaReloadKeeps == ASSUME IInv, MediaReload PROVE IInv'
<1>1. TypeOK'
  BY DEF IInv, TypeOK, Channel, Fdc, MediaReload, guest
<1>2. RequestInv'
  BY DEF IInv, TypeOK, Channel, RequestInv, ChannelInv, Programming,
      MediaReload, guest
<1>3. PhaseInv'
  BY DEF IInv, TypeOK, Fdc, PhaseInv, Programming, MediaReload, guest
<1>4. ChannelInv'
  BY DEF IInv, TypeOK, Channel, ChannelInv, RequestInv, PhaseInv, Programming,
      MediaReload, guest
<1>5. OrderInv'
  BY DEF IInv, TypeOK, OrderInv, RequestInv, PhaseInv, Programming,
      MediaReload, guest
<1>6. PassInv'
  BY DEF IInv, TypeOK, Channel, PassInv, OrderInv, RequestInv, Programming,
      MediaReload, guest
<1> QED
  BY <1>1, <1>2, <1>3, <1>4, <1>5, <1>6 DEF IInv

(* Every step keeps the invariant.                                         *)
LEMMA NextKeeps == IInv /\ [Next]_vars => IInv'
<1> SUFFICES ASSUME IInv, [Next]_vars PROVE IInv'
  OBVIOUS
<1>1. CASE UNCHANGED vars
  BY <1>1 DEF IInv, TypeOK, RequestInv, PhaseInv, ChannelInv, OrderInv,
              PassInv, vars, loop0, guest, history
<1>2. CASE Core0
  BY <1>2, LookKeeps, TransferKeeps, UpdateCountKeeps, TestFinishedKeeps,
     RaiseKeeps DEF Core0
<1>3. CASE Bios
  BY <1>3, ClearKeeps, WriteModeKeeps, WriteAddressAndCountKeeps, UnmaskKeeps,
     WriteDORKeeps, SendByteKeeps, SendUnknownKeeps, ReadDataKeeps,
     WriteDataKeeps, SeekKeeps, RecalibrateKeeps, SenseInterruptKeeps,
     SenseDriveKeeps, ReadIdKeeps, SpecifyKeeps, SeeInterruptKeeps,
     ReadResultKeeps DEF Bios
<1> QED
  BY <1>1, <1>2, <1>3, StartJobKeeps, BetweenJobsKeeps, OtherChannelKeeps,
     MediaReloadKeeps DEF Next

(* It holds for good.                                                      *)
LEMMA Invariant == Spec => []IInv
<1>1. Init => IInv
  BY InitIInv
<1>2. IInv /\ [Next]_vars => IInv'
  BY NextKeeps
<1> QED
  BY <1>1, <1>2, PTL DEF Spec

(* The channel's and the controller's registers, core 0's locals and the   *)
(* transfers keep their types: no count leaves its 16 bits.                *)
THEOREM TypeCorrect == Spec => []TypeOK
<1>1. IInv => TypeOK
  BY DEF IInv
<1> QED
  BY <1>1, Invariant, PTL

(* Between two jobs nothing is left of the last one: no request for core   *)
(* 0, no interrupt, no command byte and no result.                         *)
THEOREM QuietBetweenJobs == Spec => []QuietAtRest
<1>1. IInv => QuietAtRest
  BY DEF IInv, TypeOK, RequestInv, PhaseInv, OrderInv, QuietAtRest
<1> QED
  BY <1>1, Invariant, PTL

-----------------------------------------------------------------------------
(* The order comes once, is moved once and is answered after that.         *)

(* A command taken is one the drive accepts.                               *)
LEMMA CommandAccepts ==
  ASSUME IInv, IInv', ReadData \/ WriteData
  PROVE  Drive!Accept \/ UNCHANGED history
<1>1. order = NoOrder
  BY DEF ReadData, WriteData, TransferCommand, Execute, Sending, IInv, OrderInv
<1>2. ASSUME NEW s \in Sources, StartTransfer(s)
      PROVE  Drive!Accept
  <2>1. order'.source = s /\ moved' = moved
    BY <1>2 DEF StartTransfer
  <2>2. order' # NoOrder
    BY <2>1 DEF NoOrder, Sources
  <2>3. order' \in Orders
    BY <2>2 DEF IInv, TypeOK
  <2> QED
    BY <1>1, <2>1, <2>3 DEF Drive!Accept
<1>3. UNCHANGED history \/ \E s \in Sources : StartTransfer(s)
  BY DEF ReadData, WriteData, Sources
<1> QED
  BY <1>2, <1>3

(* A result read is an answer of the drive.                                *)
LEMMA ResultAnswers ==
  ASSUME IInv, ReadResult
  PROVE  Drive!Answer \/ UNCHANGED history
<1>1. UNCHANGED history \/ (order' = NoOrder /\ moved' = <<>>)
  BY DEF ReadResult
<1>2. CASE order = NoOrder
  BY <1>1, <1>2 DEF IInv, OrderInv
<1>3. CASE order # NoOrder
  <2>1. moved = <<order>>
    BY <1>3 DEF ReadResult, IInv, RequestInv, OrderInv
  <2> QED
    BY <1>1, <1>3, <2>1 DEF Drive!Answer
<1> QED
  BY <1>2, <1>3

(* Every step is one of the abstract drive, or none.                       *)
LEMMA StepImplements ==
  ASSUME IInv, IInv', [Next]_vars
  PROVE  [Drive!Next]_Drive!vars
<1>1. CASE ReadData \/ WriteData
  BY <1>1, CommandAccepts DEF Drive!Next, Drive!vars
<1>2. CASE Transfer
  BY <1>2, TransferMoves DEF Drive!Next
<1>3. CASE ReadResult
  BY <1>3, ResultAnswers DEF Drive!Next, Drive!vars
<1>4. CASE UNCHANGED vars
  BY <1>4 DEF vars, history, Drive!vars
<1>5. CASE Look \/ UpdateCount \/ TestFinished \/ Raise
  BY <1>5 DEF Look, UpdateCount, TestFinished, Raise, history, Drive!vars
<1>6. CASE Clear \/ WriteMode \/ WriteAddressAndCount \/ Unmask \/ BetweenJobs
           \/ OtherChannel
  BY <1>6 DEF Clear, WriteMode, WriteAddressAndCount, Unmask, BetweenJobs,
              OtherChannel, Port, history, Drive!vars
<1>7. CASE WriteDOR \/ SendByte \/ SendUnknown \/ Seek \/ Recalibrate
           \/ SenseInterrupt \/ SenseDrive \/ ReadId \/ Specify \/ SeeInterrupt
  BY <1>7 DEF WriteDOR, SendByte, SendUnknown, Seek, Recalibrate, MoveHead,
              SenseInterrupt, SenseDrive, ReadId, Specify, SeeInterrupt,
              history, Drive!vars
<1>8. CASE StartJob \/ MediaReload
  BY <1>8 DEF StartJob, MediaReload, history, Drive!vars
<1> QED
  BY <1>1, <1>2, <1>3, <1>4, <1>5, <1>6, <1>7, <1>8 DEF Next, Core0, Bios

(* A transfer the controller accepted is carried out once and as the BIOS  *)
(* gave it, before its result is read, for every byte size and every job.  *)
THEOREM ImplementsDrive == Spec => ImplementsFloppyDrive
<1>1. Init => Drive!Init
  BY DEF Init, Drive!Init
<1>2. IInv /\ IInv' /\ [Next]_vars => [Drive!Next]_Drive!vars
  BY StepImplements
<1> QED
  BY <1>1, <1>2, Invariant, PTL DEF Spec, ImplementsFloppyDrive, Drive!Spec

-----------------------------------------------------------------------------
(* Who is told of a success that was none.                                 *)

(* The drive has an image, or the sector is one of the firmware's own.     *)
Mounted == HasImage \/ (job.cmd = "read" /\ Welded)

(* A transfer of a mounted drive is ordered before it is waited for.       *)
MountedInv ==
  /\ bios = "sense" => job.cmd \notin Transfers
  /\ bios \in {"reset", "restart"} => job.cmd = "reset"
  /\ bios \in {"wait", "result"} /\ job.cmd \in Transfers /\ Mounted =>
       order # NoOrder

(* The image stays in its drive from the first byte of a job to the last.  *)
LEMMA MountedKeeps ==
  ASSUME IInv, MountedInv, [Next]_vars
  PROVE  MountedInv'
<1> USE DEF Mounted, HasImage, Welded
<1>1. ASSUME UNCHANGED <<fdd_media_mask, job, order>>,
             \/ bios' = bios
             \/ bios' \notin {"sense", "reset", "restart", "wait", "result"}
      PROVE  MountedInv'
  BY <1>1 DEF MountedInv
<1>2. CASE UNCHANGED vars
  BY <1>1, <1>2
<1>3. CASE Core0
  BY <1>1, <1>3 DEF Core0, Look, Transfer, UpdateCount, TestFinished, Raise,
                    Loop
<1>4. CASE \/ Clear \/ WriteMode \/ WriteAddressAndCount \/ Unmask
           \/ BetweenJobs \/ OtherChannel
  BY <1>1, <1>4 DEF Clear, WriteMode, WriteAddressAndCount, Unmask,
                    BetweenJobs, OtherChannel, Go, Port
<1>5. CASE WriteDOR
  BY <1>5 DEF WriteDOR, Go, Fdd, MountedInv
<1>6. CASE SendByte \/ Specify
  BY <1>1, <1>6 DEF SendByte, Specify, Execute, Fdd
<1>7. ASSUME Sending
      PROVE  /\ bios = "command" => Sent = job.cmd
             /\ bios = "sense" => job.cmd \notin Transfers
             /\ Expected = 0 => Sent \notin Transfers
  <2>1. i8272.command_length # 0 => bios = "command" /\ i8272.command = job.cmd
    BY DEF IInv, PhaseInv
  <2> QED
    BY <1>7, <2>1 DEF Sending, Sent, Expected, Length, MountedInv
<1>8. CASE \/ SendUnknown \/ Seek \/ Recalibrate \/ SenseInterrupt
           \/ SenseDrive \/ ReadId
  <2>1. /\ Sending /\ UNCHANGED <<fdd_media_mask, job>>
        /\ bios' \in {"wait", "result"}
        /\ \/ Expected = 0
           \/ Sent \in {"seek", "recalibrate", "sense_interrupt",
                        "sense_drive", "read_id"}
    BY <1>8 DEF SendUnknown, Seek, Recalibrate, MoveHead, SenseInterrupt,
                SenseDrive, ReadId, Execute, Fdd
  <2>2. job.cmd \notin Transfers
    BY <1>7, <2>1 DEF Sending
  <2> QED
    BY <2>1, <2>2 DEF MountedInv
<1>9. ASSUME NEW s \in Sources, StartTransfer(s) PROVE order' # NoOrder
  <2>1. order'.source = s
    BY <1>9 DEF StartTransfer
  <2> QED
    BY <2>1 DEF NoOrder, Sources
<1>10. CASE ReadData
  <2>1. /\ Sending /\ Sent = "read" /\ UNCHANGED <<fdd_media_mask, job>>
        /\ bios' = "wait"
    BY <1>10 DEF ReadData, TransferCommand, Execute, Fdd
  <2>2. Mounted => order' # NoOrder
    BY <1>9, <1>10 DEF ReadData, Sources
  <2> QED
    BY <2>1, <2>2 DEF MountedInv
<1>11. CASE WriteData
  <2>1. /\ Sending /\ Sent = "write" /\ UNCHANGED <<fdd_media_mask, job>>
        /\ bios' = "wait"
    BY <1>11 DEF WriteData, TransferCommand, Execute, Fdd
  <2>2. job.cmd # "read"
    BY <1>7, <2>1 DEF Sending
  <2>3. HasImage => order' # NoOrder
    BY <1>9, <1>11 DEF WriteData, Sources
  <2> QED
    BY <2>1, <2>2, <2>3 DEF MountedInv
<1>12. CASE SeeInterrupt
  BY <1>12 DEF SeeInterrupt, Go, Fdd, MountedInv
<1>13. CASE ReadResult
  <2>1. UNCHANGED <<fdd_media_mask, job>> /\ bios = "result"
    BY <1>13 DEF ReadResult, Fdd
  <2>2. \/ UNCHANGED <<bios, order>>
        \/ bios' = "idle"
        \/ bios' = "sense" /\ job.cmd = "reset"
    BY <1>13 DEF ReadResult
  <2> QED
    BY <2>1, <2>2 DEF MountedInv
<1>14. CASE StartJob
  BY <1>14 DEF StartJob, MountedInv
<1>15. CASE MediaReload
  BY <1>15 DEF MediaReload, MountedInv
<1> QED
  BY <1>2, <1>3, <1>4, <1>5, <1>6, <1>8, <1>10, <1>11, <1>12, <1>13, <1>14,
     <1>15 DEF Next, Bios

(* A result that says normal termination stands for a transfer that took   *)
(* place, whenever the drive has an image or the sector is welded in: the  *)
(* comments at i8272.h 192 and 274-276 are wrong of empty drives alone.    *)
THEOREM SuccessIsTrue == Spec => [](Mounted => NoFalseSuccess)
<1>1. Init => MountedInv
  BY DEF Init, MountedInv
<1>2. IInv /\ MountedInv /\ [Next]_vars => MountedInv'
  BY MountedKeeps
<1>3. IInv /\ MountedInv => (Mounted => NoFalseSuccess)
  <2> SUFFICES ASSUME IInv, MountedInv, Mounted, bios = "result",
                      job.cmd \in Transfers
               PROVE  moved # <<>>
    BY DEF NoFalseSuccess
  <2>1. order # NoOrder
    BY DEF MountedInv
  <2>2. ~channel.dreq
    BY DEF IInv, RequestInv
  <2>3. moved = <<order>>
    BY <2>1, <2>2 DEF IInv, OrderInv
  <2> QED
    BY <2>3
<1> QED
  BY <1>1, <1>2, <1>3, Invariant, PTL DEF Spec
=============================================================================
