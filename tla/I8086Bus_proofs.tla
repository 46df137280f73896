-------------------------- MODULE I8086Bus_proofs --------------------------
(***************************************************************************)
(* I8086Bus for any number of bus cycles: the handlers and the state       *)
(* machine stay in step as long as no write follows a write that is still  *)
(* being handled.  The inductive invariant says, for every place of the    *)
(* machine and of core 1, which words are in the FIFOs and how far core 1  *)
(* is behind the 8086.                                                     *)
(***************************************************************************)
EXTENDS I8086Bus, SequenceTheorems, TLAPS

(* The cycle the 8086 is in is not carried out, and not posted either.     *)
Unposted == \/ sm \in {"address", "WR_cycle", "WR_irq", "INTA_cycle",
                       "INTA_again", "RD_cycle"}
            \/ sm = "RD_pull" /\ irq1

(* Core 1 is behind by the cycle in hand and by a posted write, at most.   *)
CountInv == /\ irq0 /\ Unposted   => started = served + 2
            /\ irq0 /\ ~Unposted  => started = served + 1
            /\ ~irq0 /\ Unposted  => started = served + 1
            /\ ~irq0 /\ ~Unposted => started = served

(* What the place of the machine says of the cycle and of the flags.       *)
MachineInv ==
  /\ sm \in {"WR_cycle", "WR_irq", "WR_end"} => kind = "write"
  /\ sm \in {"INTA_cycle", "INTA_again"} => kind = "inta"
  /\ sm \in {"RD_cycle", "RD_pull", "RD_end"} => kind # "write"
  /\ irq0 => /\ sm \notin {"WR_cycle", "WR_irq", "RD_end"}
             /\ sm = "address" => kind # "write"
             /\ sm = "RD_pull" => irq1
  /\ irq1 => sm = "RD_pull"
  /\ irq3 => /\ kind = "inta"
             /\ sm \in {"INTA_again", "RD_cycle"} \/ (sm = "RD_pull" /\ irq1)
  /\ irq_pending_vector =>
       /\ kind = "inta" /\ ~irq3
       /\ sm \in {"INTA_again", "RD_cycle"} \/ (sm = "RD_pull" /\ irq1)

(* A handler runs for a flag that stands; a read is never handled while a  *)
(* write waits.                                                            *)
HandlerInv ==
  /\ handler = "none" => at = "point"
  /\ handler = "write" => irq0
  /\ handler = "read" => ~irq0 /\ (irq1 \/ irq3)
  /\ handler = "read" /\ at = "end" => irq1 /\ ~irq3

(* The words of a posted write that are not popped, and of the cycle in    *)
(* hand.                                                                   *)
Waiting == IF irq0 /\ ~In("write", "end") THEN 2 ELSE 0
Fresh == IF sm = "WR_irq" THEN 2
         ELSE IF \/ sm \in {"WR_cycle", "INTA_cycle", "INTA_again", "RD_cycle"}
                 \/ sm = "RD_pull" /\ irq1 /\ ~In("read", "end") THEN 1
         ELSE 0

RxInv == /\ Len(rx) = Waiting + Fresh
         /\ Waiting = 2 => /\ rx[1] = Word("address", served)
                           /\ rx[2] = Word("data", served)
         /\ Fresh > 0 => rx[Waiting + 1] = Word("address", Current)
         /\ Fresh = 2 => rx[Waiting + 2] = Word("data", Current)

(* One answer between its push and its pull, and it is the cycle's own.    *)
TxInv == /\ Len(tx) = IF sm = "RD_pull" /\ ~irq1 THEN 1 ELSE 0
         /\ Len(tx) = 1 => /\ tx[1].cycle = Current
                           /\ tx[1].vector => kind = "inta"

IInv == TypeOK /\ CountInv /\ MachineInv /\ HandlerInv /\ RxInv /\ TxInv
        /\ InStep /\ AnswerOwn
-----------------------------------------------------------------------------
USE DEF bus, flags, locals, core1, pause

(* The invariant holds at power-on.                                        *)
LEMMA InitIInv == Init => IInv
<1> SUFFICES ASSUME Init PROVE IInv
  OBVIOUS
<1>1. TypeOK
  <2>1. 0 \in 0 .. MaxCycles
    BY MaxCyclesAssumption
  <2>2. /\ rx \in Seq(Words) /\ Len(rx) <= Depth
        /\ tx \in Seq(Answers) /\ Len(tx) <= 1
    BY DEF Init, Depth
  <2>3. got \in Answers \cup {NoAnswer}
    BY DEF Init
  <2>4. bus_state \in Words \cup {NoWord} /\ data \in Words \cup {NoWord}
    BY DEF Init
  <2> QED
    BY <2>1, <2>2, <2>3, <2>4 DEF Init, TypeOK
<1>2. CountInv /\ MachineInv /\ HandlerInv /\ InStep /\ AnswerOwn
  BY DEF Init, CountInv, Unposted, MachineInv, HandlerInv, InStep, AnswerOwn
<1>3. RxInv /\ TxInv
  BY DEF Init, RxInv, Waiting, Fresh, In, TxInv
<1> QED
  BY <1>1, <1>2, <1>3 DEF IInv

(* A word that is pushed comes after those that are there.                 *)
LEMMA PushedWord ==
  ASSUME IInv, Unposted, NEW part \in {"address", "data"},
         Push(Word(part, Current))
  PROVE  /\ rx' \in Seq(Words) /\ Len(rx') = Len(rx) + 1 /\ Len(rx') <= Depth
         /\ rx'[Len(rx) + 1] = Word(part, Current)
         /\ \A n \in 1 .. Len(rx) : rx'[n] = rx[n]
<1>1. Current \in 0 .. MaxCycles
  BY MaxCyclesAssumption DEF IInv, TypeOK, CountInv, Unposted, Current
<1>2. Word(part, Current) \in Words
  BY <1>1 DEF Words, Word
<1> QED
  BY <1>2 DEF IInv, TypeOK, Push, Depth

USE DEF Current

(* StartCycle keeps the invariant.                                         *)
LEMMA StartCycleKeeps == ASSUME ~BackToBack, NEW k \in {"read", "write", "inta"},
         IInv, StartCycle(k) PROVE IInv'
<1>1. TypeOK'
  BY MaxCyclesAssumption DEF IInv, TypeOK, StartCycle
<1>2. CountInv'
  BY DEF IInv, TypeOK, CountInv, Unposted, MachineInv, HandlerInv, In, StartCycle
<1>3. MachineInv'
  BY DEF IInv, TypeOK, MachineInv, HandlerInv, CountInv, Unposted, In, StartCycle
<1>4. HandlerInv'
  BY DEF IInv, TypeOK, HandlerInv, MachineInv, In, StartCycle
<1>5. RxInv'
  BY DEF IInv, TypeOK, RxInv, Waiting, Fresh, CountInv, Unposted,
         MachineInv, HandlerInv, In, StartCycle
<1>6. TxInv'
  BY DEF IInv, TypeOK, TxInv, MachineInv, HandlerInv, CountInv, Unposted,
         InStep, In, StartCycle
<1>7. InStep'
  BY DEF IInv, TypeOK, InStep, RxInv, Waiting, Fresh, CountInv, Unposted,
         HandlerInv, MachineInv, In, StartCycle
<1>8. AnswerOwn'
  BY DEF IInv, TypeOK, AnswerOwn, TxInv, MachineInv, StartCycle
<1> QED
  BY <1>1, <1>2, <1>3, <1>4, <1>5, <1>6, <1>7, <1>8 DEF IInv

(* PushAddress keeps the invariant.                                        *)
LEMMA PushAddressKeeps == ASSUME IInv, PushAddress PROVE IInv'
<1>1. TypeOK'
  BY PushedWord DEF IInv, TypeOK, PushAddress, Unposted
<1>2. CountInv'
  BY DEF IInv, TypeOK, CountInv, Unposted, MachineInv, HandlerInv, In, PushAddress, Push
<1>3. MachineInv'
  BY DEF IInv, TypeOK, MachineInv, HandlerInv, CountInv, Unposted, In, PushAddress, Push
<1>4. HandlerInv'
  BY DEF IInv, TypeOK, HandlerInv, MachineInv, In, PushAddress, Push
<1>5. RxInv'
  <2>1. sm' \in {"WR_cycle", "INTA_cycle", "RD_cycle"}
    BY DEF PushAddress
  <2>2. Fresh = 0 /\ Fresh' = 1 /\ Waiting' = Waiting
    BY <2>1 DEF PushAddress, Fresh, Waiting, In
  <2>3. /\ Len(rx') = Len(rx) + 1
        /\ rx'[Len(rx) + 1] = Word("address", Current)
        /\ \A n \in 1 .. Len(rx) : rx'[n] = rx[n]
    BY PushedWord DEF PushAddress, Unposted
  <2> QED
    BY <2>2, <2>3 DEF IInv, TypeOK, RxInv, Waiting, PushAddress
<1>6. TxInv'
  BY DEF IInv, TypeOK, TxInv, MachineInv, HandlerInv, CountInv, Unposted,
         InStep, In, PushAddress, Push
<1>7. InStep'
  BY DEF IInv, TypeOK, InStep, RxInv, Waiting, Fresh, CountInv, Unposted,
         HandlerInv, MachineInv, In, PushAddress, Push
<1>8. AnswerOwn'
  BY DEF IInv, TypeOK, AnswerOwn, TxInv, MachineInv, PushAddress, Push
<1> QED
  BY <1>1, <1>2, <1>3, <1>4, <1>5, <1>6, <1>7, <1>8 DEF IInv

(* PushData keeps the invariant.                                           *)
LEMMA PushDataKeeps == ASSUME IInv, PushData PROVE IInv'
<1>1. TypeOK'
  BY PushedWord DEF IInv, TypeOK, PushData, Unposted
<1>2. CountInv'
  BY DEF IInv, TypeOK, CountInv, Unposted, MachineInv, HandlerInv, In, PushData, Push
<1>3. MachineInv'
  BY DEF IInv, TypeOK, MachineInv, HandlerInv, CountInv, Unposted, In, PushData, Push
<1>4. HandlerInv'
  BY DEF IInv, TypeOK, HandlerInv, MachineInv, In, PushData, Push
<1>5. RxInv'
  BY PushedWord, MaxCyclesAssumption
  DEF IInv, TypeOK, RxInv, Waiting, Fresh, CountInv, Unposted,
      MachineInv, HandlerInv, In, PushData
<1>6. TxInv'
  BY DEF IInv, TypeOK, TxInv, MachineInv, HandlerInv, CountInv, Unposted,
         InStep, In, PushData, Push
<1>7. InStep'
  BY DEF IInv, TypeOK, InStep, RxInv, Waiting, Fresh, CountInv, Unposted,
         HandlerInv, MachineInv, In, PushData, Push
<1>8. AnswerOwn'
  BY DEF IInv, TypeOK, AnswerOwn, TxInv, MachineInv, PushData, Push
<1> QED
  BY <1>1, <1>2, <1>3, <1>4, <1>5, <1>6, <1>7, <1>8 DEF IInv

(* IrqWrite keeps the invariant.                                           *)
LEMMA IrqWriteKeeps == ASSUME IInv, IrqWrite PROVE IInv'
<1>1. TypeOK'
  BY DEF IInv, TypeOK, IrqWrite
<1>2. CountInv'
  BY DEF IInv, TypeOK, CountInv, Unposted, MachineInv, HandlerInv, In, IrqWrite
<1>3. MachineInv'
  BY DEF IInv, TypeOK, MachineInv, HandlerInv, CountInv, Unposted, In, IrqWrite
<1>4. HandlerInv'
  BY DEF IInv, TypeOK, HandlerInv, MachineInv, In, IrqWrite
<1>5. RxInv'
  BY DEF IInv, TypeOK, RxInv, Waiting, Fresh, CountInv, Unposted,
         MachineInv, HandlerInv, In, IrqWrite
<1>6. TxInv'
  BY DEF IInv, TypeOK, TxInv, MachineInv, HandlerInv, CountInv, Unposted,
         InStep, In, IrqWrite
<1>7. InStep'
  BY DEF IInv, TypeOK, InStep, RxInv, Waiting, Fresh, CountInv, Unposted,
         HandlerInv, MachineInv, In, IrqWrite
<1>8. AnswerOwn'
  BY DEF IInv, TypeOK, AnswerOwn, TxInv, MachineInv, IrqWrite
<1> QED
  BY <1>1, <1>2, <1>3, <1>4, <1>5, <1>6, <1>7, <1>8 DEF IInv

(* IrqInta keeps the invariant.                                            *)
LEMMA IrqIntaKeeps == ASSUME IInv, IrqInta PROVE IInv'
<1>1. TypeOK'
  BY DEF IInv, TypeOK, IrqInta
<1>2. CountInv'
  BY DEF IInv, TypeOK, CountInv, Unposted, MachineInv, HandlerInv, In, IrqInta
<1>3. MachineInv'
  BY DEF IInv, TypeOK, MachineInv, HandlerInv, CountInv, Unposted, In, IrqInta
<1>4. HandlerInv'
  BY DEF IInv, TypeOK, HandlerInv, MachineInv, In, IrqInta
<1>5. RxInv'
  BY DEF IInv, TypeOK, RxInv, Waiting, Fresh, CountInv, Unposted,
         MachineInv, HandlerInv, In, IrqInta
<1>6. TxInv'
  BY DEF IInv, TypeOK, TxInv, MachineInv, HandlerInv, CountInv, Unposted,
         InStep, In, IrqInta
<1>7. InStep'
  BY DEF IInv, TypeOK, InStep, RxInv, Waiting, Fresh, CountInv, Unposted,
         HandlerInv, MachineInv, In, IrqInta
<1>8. AnswerOwn'
  BY DEF IInv, TypeOK, AnswerOwn, TxInv, MachineInv, IrqInta
<1> QED
  BY <1>1, <1>2, <1>3, <1>4, <1>5, <1>6, <1>7, <1>8 DEF IInv

(* SecondInta keeps the invariant.                                         *)
LEMMA SecondIntaKeeps == ASSUME IInv, SecondInta PROVE IInv'
<1>1. TypeOK'
  BY DEF IInv, TypeOK, SecondInta
<1>2. CountInv'
  BY DEF IInv, TypeOK, CountInv, Unposted, MachineInv, HandlerInv, In, SecondInta
<1>3. MachineInv'
  BY DEF IInv, TypeOK, MachineInv, HandlerInv, CountInv, Unposted, In, SecondInta
<1>4. HandlerInv'
  BY DEF IInv, TypeOK, HandlerInv, MachineInv, In, SecondInta
<1>5. RxInv'
  BY DEF IInv, TypeOK, RxInv, Waiting, Fresh, CountInv, Unposted,
         MachineInv, HandlerInv, In, SecondInta
<1>6. TxInv'
  BY DEF IInv, TypeOK, TxInv, MachineInv, HandlerInv, CountInv, Unposted,
         InStep, In, SecondInta
<1>7. InStep'
  BY DEF IInv, TypeOK, InStep, RxInv, Waiting, Fresh, CountInv, Unposted,
         HandlerInv, MachineInv, In, SecondInta
<1>8. AnswerOwn'
  BY DEF IInv, TypeOK, AnswerOwn, TxInv, MachineInv, SecondInta
<1> QED
  BY <1>1, <1>2, <1>3, <1>4, <1>5, <1>6, <1>7, <1>8 DEF IInv

(* IrqRead keeps the invariant.                                            *)
LEMMA IrqReadKeeps == ASSUME IInv, IrqRead PROVE IInv'
<1>1. TypeOK'
  BY DEF IInv, TypeOK, IrqRead
<1>2. CountInv'
  BY DEF IInv, TypeOK, CountInv, Unposted, MachineInv, HandlerInv, In, IrqRead
<1>3. MachineInv'
  BY DEF IInv, TypeOK, MachineInv, HandlerInv, CountInv, Unposted, In, IrqRead
<1>4. HandlerInv'
  BY DEF IInv, TypeOK, HandlerInv, MachineInv, In, IrqRead
<1>5. RxInv'
  BY DEF IInv, TypeOK, RxInv, Waiting, Fresh, CountInv, Unposted,
         MachineInv, HandlerInv, In, IrqRead
<1>6. TxInv'
  BY DEF IInv, TypeOK, TxInv, MachineInv, HandlerInv, CountInv, Unposted,
         InStep, In, IrqRead
<1>7. InStep'
  BY DEF IInv, TypeOK, InStep, RxInv, Waiting, Fresh, CountInv, Unposted,
         HandlerInv, MachineInv, In, IrqRead
<1>8. AnswerOwn'
  BY DEF IInv, TypeOK, AnswerOwn, TxInv, MachineInv, IrqRead
<1> QED
  BY <1>1, <1>2, <1>3, <1>4, <1>5, <1>6, <1>7, <1>8 DEF IInv

(* Pull keeps the invariant.                                               *)
LEMMA PullKeeps == ASSUME IInv, Pull PROVE IInv'
<1>1. TypeOK'
  BY DEF IInv, TypeOK, Pull
<1>2. CountInv'
  BY DEF IInv, TypeOK, CountInv, Unposted, TxInv, MachineInv, Pull
<1>3. MachineInv'
  BY DEF IInv, TypeOK, MachineInv, TxInv, HandlerInv, Pull
<1>4. HandlerInv'
  BY DEF IInv, TypeOK, HandlerInv, MachineInv, In, Pull
<1>5. RxInv'
  BY DEF IInv, TypeOK, RxInv, Waiting, Fresh, TxInv, MachineInv, In, Pull
<1>6. TxInv'
  BY DEF IInv, TypeOK, TxInv, MachineInv, HandlerInv, CountInv, Unposted,
         InStep, In, Pull
<1>7. InStep'
  BY DEF IInv, TypeOK, InStep, RxInv, Waiting, Fresh, CountInv, Unposted,
         HandlerInv, MachineInv, In, Pull
<1>8. AnswerOwn'
  BY DEF IInv, TypeOK, AnswerOwn, TxInv, MachineInv, Pull
<1> QED
  BY <1>1, <1>2, <1>3, <1>4, <1>5, <1>6, <1>7, <1>8 DEF IInv

(* EndCycle keeps the invariant.                                           *)
LEMMA EndCycleKeeps == ASSUME IInv, EndCycle PROVE IInv'
<1>1. TypeOK'
  BY DEF IInv, TypeOK, EndCycle
<1>2. CountInv'
  BY DEF IInv, TypeOK, CountInv, Unposted, MachineInv, HandlerInv, In, EndCycle
<1>3. MachineInv'
  BY DEF IInv, TypeOK, MachineInv, HandlerInv, CountInv, Unposted, In, EndCycle
<1>4. HandlerInv'
  BY DEF IInv, TypeOK, HandlerInv, MachineInv, In, EndCycle
<1>5. RxInv'
  BY DEF IInv, TypeOK, RxInv, Waiting, Fresh, CountInv, Unposted,
         MachineInv, HandlerInv, In, EndCycle
<1>6. TxInv'
  BY DEF IInv, TypeOK, TxInv, MachineInv, HandlerInv, CountInv, Unposted,
         InStep, In, EndCycle
<1>7. InStep'
  BY DEF IInv, TypeOK, InStep, RxInv, Waiting, Fresh, CountInv, Unposted,
         HandlerInv, MachineInv, In, EndCycle
<1>8. AnswerOwn'
  BY DEF IInv, TypeOK, AnswerOwn, TxInv, MachineInv, EndCycle
<1> QED
  BY <1>1, <1>2, <1>3, <1>4, <1>5, <1>6, <1>7, <1>8 DEF IInv

(* EnterWrite keeps the invariant.                                         *)
LEMMA EnterWriteKeeps == ASSUME IInv, EnterWrite PROVE IInv'
<1>1. TypeOK'
  BY DEF IInv, TypeOK, EnterWrite, Enter
<1>2. CountInv'
  BY DEF IInv, TypeOK, CountInv, Unposted, MachineInv, HandlerInv, In, EnterWrite, Enter
<1>3. MachineInv'
  BY DEF IInv, TypeOK, MachineInv, HandlerInv, CountInv, Unposted, In, EnterWrite, Enter
<1>4. HandlerInv'
  BY DEF IInv, TypeOK, HandlerInv, MachineInv, In, EnterWrite, Enter
<1>5. RxInv'
  BY DEF IInv, TypeOK, RxInv, Waiting, Fresh, CountInv, Unposted,
         MachineInv, HandlerInv, In, EnterWrite, Enter
<1>6. TxInv'
  BY DEF IInv, TypeOK, TxInv, MachineInv, HandlerInv, CountInv, Unposted,
         InStep, In, EnterWrite, Enter
<1>7. InStep'
  BY DEF IInv, TypeOK, InStep, RxInv, Waiting, Fresh, CountInv, Unposted,
         HandlerInv, MachineInv, In, EnterWrite, Enter
<1>8. AnswerOwn'
  BY DEF IInv, TypeOK, AnswerOwn, TxInv, MachineInv, EnterWrite, Enter
<1> QED
  BY <1>1, <1>2, <1>3, <1>4, <1>5, <1>6, <1>7, <1>8 DEF IInv

(* EnterRead keeps the invariant.                                          *)
LEMMA EnterReadKeeps == ASSUME IInv, EnterRead PROVE IInv'
<1>1. TypeOK'
  BY DEF IInv, TypeOK, EnterRead, Enter
<1>2. CountInv'
  BY DEF IInv, TypeOK, CountInv, Unposted, MachineInv, HandlerInv, In, EnterRead, Enter
<1>3. MachineInv'
  BY DEF IInv, TypeOK, MachineInv, HandlerInv, CountInv, Unposted, In, EnterRead, Enter
<1>4. HandlerInv'
  BY DEF IInv, TypeOK, HandlerInv, MachineInv, In, EnterRead, Enter
<1>5. RxInv'
  BY DEF IInv, TypeOK, RxInv, Waiting, Fresh, CountInv, Unposted,
         MachineInv, HandlerInv, In, EnterRead, Enter
<1>6. TxInv'
  BY DEF IInv, TypeOK, TxInv, MachineInv, HandlerInv, CountInv, Unposted,
         InStep, In, EnterRead, Enter
<1>7. InStep'
  BY DEF IInv, TypeOK, InStep, RxInv, Waiting, Fresh, CountInv, Unposted,
         HandlerInv, MachineInv, In, EnterRead, Enter
<1>8. AnswerOwn'
  BY DEF IInv, TypeOK, AnswerOwn, TxInv, MachineInv, EnterRead, Enter
<1> QED
  BY <1>1, <1>2, <1>3, <1>4, <1>5, <1>6, <1>7, <1>8 DEF IInv

(* PausePoint keeps the invariant.                                         *)
LEMMA PausePointKeeps == ASSUME IInv, PausePoint PROVE IInv'
<1>1. TypeOK'
  <2>1. /\ bus_paused' \in BOOLEAN /\ handler' = handler
        /\ at' \in {"paused", "body"}
    BY ZenonT(30) DEF PausePoint, Goto, IInv, TypeOK
  <2>2. UNCHANGED <<bus, sm, rx, tx, got, flags, locals, irq_pending_vector,
                    served, bus_pause_req>>
    BY DEF PausePoint
  <2> QED
    BY <2>1, <2>2 DEF IInv, TypeOK
<1>2. CountInv'
  BY DEF IInv, TypeOK, CountInv, Unposted, MachineInv, HandlerInv, In, PausePoint, Goto
<1>3. MachineInv'
  BY DEF IInv, TypeOK, MachineInv, HandlerInv, CountInv, Unposted, In, PausePoint, Goto
<1>4. HandlerInv'
  BY DEF IInv, TypeOK, HandlerInv, MachineInv, In, PausePoint, Goto
<1>5. RxInv'
  BY DEF IInv, TypeOK, RxInv, Waiting, Fresh, CountInv, Unposted,
         MachineInv, HandlerInv, In, PausePoint, Goto
<1>6. TxInv'
  BY DEF IInv, TypeOK, TxInv, MachineInv, HandlerInv, CountInv, Unposted,
         InStep, In, PausePoint, Goto
<1>7. InStep'
  BY DEF IInv, TypeOK, InStep, RxInv, Waiting, Fresh, CountInv, Unposted,
         HandlerInv, MachineInv, In, PausePoint, Goto
<1>8. AnswerOwn'
  BY DEF IInv, TypeOK, AnswerOwn, TxInv, MachineInv, PausePoint, Goto
<1> QED
  BY <1>1, <1>2, <1>3, <1>4, <1>5, <1>6, <1>7, <1>8 DEF IInv

(* Unpark keeps the invariant.                                             *)
LEMMA UnparkKeeps == ASSUME IInv, Unpark PROVE IInv'
<1>1. TypeOK'
  <2>1. bus_paused' \in BOOLEAN /\ handler' = handler /\ at' = "body"
    BY Zenon DEF Unpark, Goto
  <2>2. UNCHANGED <<bus, sm, rx, tx, got, flags, locals, irq_pending_vector,
                    served, bus_pause_req>>
    BY DEF Unpark
  <2> QED
    BY <2>1, <2>2 DEF IInv, TypeOK
<1>2. CountInv'
  BY DEF IInv, TypeOK, CountInv, Unposted, MachineInv, HandlerInv, In, Unpark, Goto
<1>3. MachineInv'
  BY DEF IInv, TypeOK, MachineInv, HandlerInv, CountInv, Unposted, In, Unpark, Goto
<1>4. HandlerInv'
  BY DEF IInv, TypeOK, HandlerInv, MachineInv, In, Unpark, Goto
<1>5. RxInv'
  BY DEF IInv, TypeOK, RxInv, Waiting, Fresh, CountInv, Unposted,
         MachineInv, HandlerInv, In, Unpark, Goto
<1>6. TxInv'
  BY DEF IInv, TypeOK, TxInv, MachineInv, HandlerInv, CountInv, Unposted,
         InStep, In, Unpark, Goto
<1>7. InStep'
  BY DEF IInv, TypeOK, InStep, RxInv, Waiting, Fresh, CountInv, Unposted,
         HandlerInv, MachineInv, In, Unpark, Goto
<1>8. AnswerOwn'
  BY DEF IInv, TypeOK, AnswerOwn, TxInv, MachineInv, Unpark, Goto
<1> QED
  BY <1>1, <1>2, <1>3, <1>4, <1>5, <1>6, <1>7, <1>8 DEF IInv

(* WritePop keeps the invariant.                                           *)
LEMMA WritePopKeeps == ASSUME IInv, WritePop PROVE IInv'
<1>1. TypeOK'
  <2>1. /\ bus_state' \in Words \cup {NoWord} /\ data' \in Words \cup {NoWord}
        /\ rx' \in Seq(Words) /\ Len(rx') <= Depth
    BY DEF IInv, TypeOK, WritePop, Popped, Rest, Depth
  <2> QED
    BY <2>1 DEF IInv, TypeOK, WritePop, Goto
<1>2. CountInv'
  BY DEF IInv, TypeOK, CountInv, Unposted, MachineInv, HandlerInv, In, WritePop, Goto, Popped, Rest
<1>3. MachineInv'
  BY DEF IInv, TypeOK, MachineInv, HandlerInv, CountInv, Unposted, In, WritePop, Goto, Popped, Rest
<1>4. HandlerInv'
  BY DEF IInv, TypeOK, HandlerInv, MachineInv, In, WritePop, Goto, Popped, Rest
<1>5. RxInv'
  BY DEF IInv, TypeOK, RxInv, Waiting, Fresh, CountInv, Unposted,
         MachineInv, HandlerInv, In, WritePop, Goto, Popped, Rest
<1>6. TxInv'
  BY DEF IInv, TypeOK, TxInv, MachineInv, HandlerInv, CountInv, Unposted,
         InStep, In, WritePop, Goto, Popped, Rest
<1>7. InStep'
  BY DEF IInv, TypeOK, InStep, RxInv, Waiting, Fresh, CountInv, Unposted,
         HandlerInv, MachineInv, In, WritePop, Goto, Popped, Rest
<1>8. AnswerOwn'
  BY DEF IInv, TypeOK, AnswerOwn, TxInv, MachineInv, WritePop, Goto, Popped, Rest
<1> QED
  BY <1>1, <1>2, <1>3, <1>4, <1>5, <1>6, <1>7, <1>8 DEF IInv

(* WriteServe keeps the invariant.                                         *)
LEMMA WriteServeKeeps == ASSUME IInv, WriteServe PROVE IInv'
<1>1. TypeOK'
  <2>1. served + 1 \in 0 .. MaxCycles
    BY MaxCyclesAssumption
    DEF IInv, TypeOK, CountInv, HandlerInv, WriteServe, In
  <2>2. /\ TypeOK /\ kind' = kind /\ started' = started /\ sm' = sm
        /\ rx' = rx /\ tx' = tx /\ got' = got
        /\ irq0' \in BOOLEAN /\ irq1' \in BOOLEAN /\ irq3' = irq3
        /\ handler' = "none" /\ at' = "point" /\ served' = served + 1
        /\ bus_state' = NoWord /\ data' \in {data, NoWord}
        /\ irq_pending_vector' \in BOOLEAN
        /\ bus_pause_req' = bus_pause_req /\ bus_paused' = bus_paused
    BY DEF IInv, TypeOK, WriteServe, Return
  <2> QED
    BY <2>1, <2>2 DEF TypeOK
<1>2. CountInv'
  BY DEF IInv, TypeOK, CountInv, Unposted, MachineInv, HandlerInv, In, WriteServe, Return
<1>3. MachineInv'
  BY DEF IInv, TypeOK, MachineInv, HandlerInv, CountInv, Unposted, In, WriteServe, Return
<1>4. HandlerInv'
  BY DEF IInv, TypeOK, HandlerInv, MachineInv, In, WriteServe, Return
<1>5. RxInv'
  BY DEF IInv, TypeOK, RxInv, Waiting, Fresh, CountInv, Unposted,
         MachineInv, HandlerInv, In, WriteServe, Return
<1>6. TxInv'
  BY DEF IInv, TypeOK, TxInv, MachineInv, HandlerInv, CountInv, Unposted,
         InStep, In, WriteServe, Return
<1>7. InStep'
  BY DEF IInv, TypeOK, InStep, RxInv, Waiting, Fresh, CountInv, Unposted,
         HandlerInv, MachineInv, In, WriteServe, Return
<1>8. AnswerOwn'
  BY DEF IInv, TypeOK, AnswerOwn, TxInv, MachineInv, WriteServe, Return
<1> QED
  BY <1>1, <1>2, <1>3, <1>4, <1>5, <1>6, <1>7, <1>8 DEF IInv

(* ReadInta keeps the invariant.                                           *)
LEMMA ReadIntaKeeps == ASSUME NEW vector \in BOOLEAN, IInv, ReadInta(vector) PROVE IInv'
<1>1. TypeOK'
  <2>1. irq_pending_vector' \in BOOLEAN
    BY Zenon DEF ReadInta
  <2>2. irq3' \in BOOLEAN /\ handler' = "none" /\ at' = "point"
    BY Zenon DEF ReadInta, Return
  <2>3. UNCHANGED <<bus, sm, rx, tx, got, irq0, irq1, locals, served, pause>>
    BY DEF ReadInta
  <2> QED
    BY <2>1, <2>2, <2>3 DEF IInv, TypeOK
<1>2. CountInv'
  BY DEF IInv, TypeOK, CountInv, Unposted, MachineInv, HandlerInv, In, ReadInta, Return
<1>3. MachineInv'
  BY DEF IInv, TypeOK, MachineInv, HandlerInv, CountInv, Unposted, In, ReadInta, Return
<1>4. HandlerInv'
  BY DEF IInv, TypeOK, HandlerInv, MachineInv, In, ReadInta, Return
<1>5. RxInv'
  BY DEF IInv, TypeOK, RxInv, Waiting, Fresh, CountInv, Unposted,
         MachineInv, HandlerInv, In, ReadInta, Return
<1>6. TxInv'
  BY DEF IInv, TypeOK, TxInv, MachineInv, HandlerInv, CountInv, Unposted,
         InStep, In, ReadInta, Return
<1>7. InStep'
  BY DEF IInv, TypeOK, InStep, RxInv, Waiting, Fresh, CountInv, Unposted,
         HandlerInv, MachineInv, In, ReadInta, Return
<1>8. AnswerOwn'
  BY DEF IInv, TypeOK, AnswerOwn, TxInv, MachineInv, ReadInta, Return
<1> QED
  BY <1>1, <1>2, <1>3, <1>4, <1>5, <1>6, <1>7, <1>8 DEF IInv

(* ReadPop keeps the invariant.                                            *)
LEMMA ReadPopKeeps == ASSUME IInv, ReadPop PROVE IInv'
<1>1. TypeOK'
  <2>1. /\ bus_state' \in Words \cup {NoWord}
        /\ rx' \in Seq(Words) /\ Len(rx') <= Depth
    BY DEF IInv, TypeOK, ReadPop, Popped, Rest, Depth
  <2> QED
    BY <2>1 DEF IInv, TypeOK, ReadPop, Goto
<1>2. CountInv'
  BY DEF IInv, TypeOK, CountInv, Unposted, MachineInv, HandlerInv, In, ReadPop, Goto, Popped, Rest
<1>3. MachineInv'
  BY DEF IInv, TypeOK, MachineInv, HandlerInv, CountInv, Unposted, In, ReadPop, Goto, Popped, Rest
<1>4. HandlerInv'
  BY DEF IInv, TypeOK, HandlerInv, MachineInv, In, ReadPop, Goto, Popped, Rest
<1>5. RxInv'
  BY DEF IInv, TypeOK, RxInv, Waiting, Fresh, CountInv, Unposted,
         MachineInv, HandlerInv, In, ReadPop, Goto, Popped, Rest
<1>6. TxInv'
  BY DEF IInv, TypeOK, TxInv, MachineInv, HandlerInv, CountInv, Unposted,
         InStep, In, ReadPop, Goto, Popped, Rest
<1>7. InStep'
  BY DEF IInv, TypeOK, InStep, RxInv, Waiting, Fresh, CountInv, Unposted,
         HandlerInv, MachineInv, In, ReadPop, Goto, Popped, Rest
<1>8. AnswerOwn'
  BY DEF IInv, TypeOK, AnswerOwn, TxInv, MachineInv, ReadPop, Goto, Popped, Rest
<1> QED
  BY <1>1, <1>2, <1>3, <1>4, <1>5, <1>6, <1>7, <1>8 DEF IInv

(* ReadAnswer keeps the invariant.                                         *)
LEMMA ReadAnswerKeeps == ASSUME IInv, ReadAnswer PROVE IInv'
<1>1. TypeOK'
  <2>1. served + 1 \in 0 .. MaxCycles
    BY MaxCyclesAssumption
    DEF IInv, TypeOK, CountInv, HandlerInv, MachineInv, ReadAnswer, In, Unposted
  <2>2. [cycle |-> bus_state.cycle, vector |-> irq_pending_vector] \in Answers
    BY DEF IInv, TypeOK, InStep, ReadAnswer, In, Answers, Word
  <2>3. tx' \in Seq(Answers) /\ Len(tx') <= 1
    BY <2>2 DEF IInv, TypeOK, TxInv, HandlerInv, MachineInv, ReadAnswer,
                Answer, In
  <2>4. /\ TypeOK /\ kind' = kind /\ started' = started /\ sm' = sm
        /\ rx' = rx /\ got' = got
        /\ irq0' \in BOOLEAN /\ irq1' \in BOOLEAN /\ irq3' = irq3
        /\ handler' = "none" /\ at' = "point" /\ served' = served + 1
        /\ bus_state' = NoWord /\ data' \in {data, NoWord}
        /\ irq_pending_vector' \in BOOLEAN
        /\ bus_pause_req' = bus_pause_req /\ bus_paused' = bus_paused
    BY DEF IInv, TypeOK, ReadAnswer, Answer, Return
  <2> QED
    BY <2>1, <2>3, <2>4 DEF TypeOK
<1>2. CountInv'
  BY DEF IInv, TypeOK, CountInv, Unposted, MachineInv, HandlerInv, In, ReadAnswer, Return, Answer
<1>3. MachineInv'
  BY DEF IInv, TypeOK, MachineInv, HandlerInv, CountInv, Unposted, In, ReadAnswer, Return, Answer
<1>4. HandlerInv'
  BY DEF IInv, TypeOK, HandlerInv, MachineInv, In, ReadAnswer, Return, Answer
<1>5. RxInv'
  BY DEF IInv, TypeOK, RxInv, Waiting, Fresh, CountInv, Unposted,
         MachineInv, HandlerInv, In, ReadAnswer, Return, Answer
<1>6. TxInv'
  <2>1. tx = <<>> /\ sm = "RD_pull" /\ started = served + 1
    BY EmptySeq DEF IInv, TypeOK, TxInv, MachineInv, HandlerInv, CountInv,
                    Unposted, ReadAnswer, In
  <2>2. Len(tx') = 1 /\ tx'[1] = [cycle |-> served, vector |-> irq_pending_vector]
    BY <2>1 DEF IInv, InStep, ReadAnswer, Answer, In, Word
  <2>3. ~irq1' /\ sm' = "RD_pull" /\ started' = served + 1 /\ kind' = kind
    BY <2>1 DEF ReadAnswer
  <2> QED
    BY <2>1, <2>2, <2>3 DEF IInv, TypeOK, TxInv, MachineInv
<1>7. InStep'
  BY DEF IInv, TypeOK, InStep, RxInv, Waiting, Fresh, CountInv, Unposted,
         HandlerInv, MachineInv, In, ReadAnswer, Return, Answer
<1>8. AnswerOwn'
  BY DEF IInv, TypeOK, AnswerOwn, TxInv, MachineInv, ReadAnswer, Return, Answer
<1> QED
  BY <1>1, <1>2, <1>3, <1>4, <1>5, <1>6, <1>7, <1>8 DEF IInv

(* BusPause keeps the invariant.                                           *)
LEMMA BusPauseKeeps == ASSUME IInv, BusPause PROVE IInv'
<1>1. TypeOK'
  BY DEF IInv, TypeOK, BusPause
<1>2. CountInv'
  BY DEF IInv, TypeOK, CountInv, Unposted, MachineInv, HandlerInv, In, BusPause
<1>3. MachineInv'
  BY DEF IInv, TypeOK, MachineInv, HandlerInv, CountInv, Unposted, In, BusPause
<1>4. HandlerInv'
  BY DEF IInv, TypeOK, HandlerInv, MachineInv, In, BusPause
<1>5. RxInv'
  BY DEF IInv, TypeOK, RxInv, Waiting, Fresh, CountInv, Unposted,
         MachineInv, HandlerInv, In, BusPause
<1>6. TxInv'
  BY DEF IInv, TypeOK, TxInv, MachineInv, HandlerInv, CountInv, Unposted,
         InStep, In, BusPause
<1>7. InStep'
  BY DEF IInv, TypeOK, InStep, RxInv, Waiting, Fresh, CountInv, Unposted,
         HandlerInv, MachineInv, In, BusPause
<1>8. AnswerOwn'
  BY DEF IInv, TypeOK, AnswerOwn, TxInv, MachineInv, BusPause
<1> QED
  BY <1>1, <1>2, <1>3, <1>4, <1>5, <1>6, <1>7, <1>8 DEF IInv

(* BusResume keeps the invariant.                                          *)
LEMMA BusResumeKeeps == ASSUME IInv, BusResume PROVE IInv'
<1>1. TypeOK'
  <2>1. bus_pause_req' \in BOOLEAN
    BY Zenon DEF BusResume
  <2>2. UNCHANGED <<bus, sm, rx, tx, got, flags, core1, locals,
                    irq_pending_vector, served, bus_paused>>
    BY DEF BusResume
  <2> QED
    BY <2>1, <2>2 DEF IInv, TypeOK
<1>2. CountInv'
  BY DEF IInv, TypeOK, CountInv, Unposted, MachineInv, HandlerInv, In, BusResume
<1>3. MachineInv'
  BY DEF IInv, TypeOK, MachineInv, HandlerInv, CountInv, Unposted, In, BusResume
<1>4. HandlerInv'
  BY DEF IInv, TypeOK, HandlerInv, MachineInv, In, BusResume
<1>5. RxInv'
  BY DEF IInv, TypeOK, RxInv, Waiting, Fresh, CountInv, Unposted,
         MachineInv, HandlerInv, In, BusResume
<1>6. TxInv'
  BY DEF IInv, TypeOK, TxInv, MachineInv, HandlerInv, CountInv, Unposted,
         InStep, In, BusResume
<1>7. InStep'
  BY DEF IInv, TypeOK, InStep, RxInv, Waiting, Fresh, CountInv, Unposted,
         HandlerInv, MachineInv, In, BusResume
<1>8. AnswerOwn'
  BY DEF IInv, TypeOK, AnswerOwn, TxInv, MachineInv, BusResume
<1> QED
  BY <1>1, <1>2, <1>3, <1>4, <1>5, <1>6, <1>7, <1>8 DEF IInv

-----------------------------------------------------------------------------
(* Every step keeps the invariant.                                         *)
LEMMA NextKeeps == ASSUME ~BackToBack, IInv, [Next]_vars PROVE IInv'
<1>1. CASE Guest
  BY <1>1, StartCycleKeeps DEF Guest
<1>2. CASE StateMachine
  BY <1>2, PushAddressKeeps, PushDataKeeps, IrqWriteKeeps, IrqIntaKeeps,
     SecondIntaKeeps, IrqReadKeeps, PullKeeps, EndCycleKeeps DEF StateMachine
<1>3. CASE Core1
  BY <1>3, EnterWriteKeeps, EnterReadKeeps, PausePointKeeps, UnparkKeeps,
     WritePopKeeps, WriteServeKeeps, ReadIntaKeeps, ReadPopKeeps,
     ReadAnswerKeeps DEF Core1
<1>4. CASE BusPause \/ BusResume
  BY <1>4, BusPauseKeeps, BusResumeKeeps
<1>5. CASE UNCHANGED vars
  <2> USE <1>5 DEF vars
  <2>1. TypeOK'
    BY DEF IInv, TypeOK
  <2>2. CountInv' /\ MachineInv' /\ HandlerInv'
    BY DEF IInv, CountInv, Unposted, MachineInv, HandlerInv
  <2>3. RxInv' /\ TxInv'
    BY DEF IInv, RxInv, Waiting, Fresh, In, TxInv
  <2>4. InStep' /\ AnswerOwn'
    BY DEF IInv, InStep, AnswerOwn
  <2> QED
    BY <2>1, <2>2, <2>3, <2>4 DEF IInv
<1> QED
  BY <1>1, <1>2, <1>3, <1>4, <1>5 DEF Next

(* It holds for good.                                                      *)
LEMMA Invariant == ASSUME ~BackToBack PROVE Spec => []IInv
  BY InitIInv, NextKeeps, PTL DEF Spec

(* Every variable keeps its type: the FIFOs do not overflow, and core 1 is *)
(* never ahead of the 8086 (i8086_bus.pio, cpu_bus.c 96-133).              *)
THEOREM TypeCorrect == ASSUME ~BackToBack PROVE Spec => []TypeOK
<1>1. IInv => TypeOK
  BY DEF IInv
<1> QED
  BY <1>1, Invariant, PTL

(* The handlers pop the words of the cycle they carry out, in program      *)
(* order, for any number of cycles (cpu_bus.c 100-103, 123).               *)
THEOREM HandlersInStep == ASSUME ~BackToBack PROVE Spec => []InStep
<1>1. IInv => InStep
  BY DEF IInv
<1> QED
  BY <1>1, Invariant, PTL

(* The 8086 is never given another cycle's answer, nor a vector in place   *)
(* of data (cpu_bus.c 125-130).                                            *)
THEOREM AnswersOwn == ASSUME ~BackToBack PROVE Spec => []AnswerOwn
<1>1. IInv => AnswerOwn
  BY DEF IInv
<1> QED
  BY <1>1, Invariant, PTL

(* A bus at rest holds no word, flag or vector of an earlier cycle.        *)
THEOREM RestIsClean == ASSUME ~BackToBack PROVE Spec => []NothingLeft
<1>1. IInv => NothingLeft
  <2> SUFFICES ASSUME IInv, sm = "wait_ALE", handler = "none", ~irq0
               PROVE  /\ rx = <<>> /\ tx = <<>> /\ ~irq1 /\ ~irq3
                      /\ ~irq_pending_vector /\ served = started
    BY DEF NothingLeft
  <2>1. rx = <<>>
    BY EmptySeq DEF IInv, TypeOK, RxInv, Waiting, Fresh
  <2>2. tx = <<>>
    BY EmptySeq DEF IInv, TypeOK, TxInv
  <2>3. ~irq1 /\ ~irq3 /\ ~irq_pending_vector
    BY DEF IInv, MachineInv
  <2>4. served = started
    BY DEF IInv, TypeOK, CountInv, Unposted
  <2> QED
    BY <2>1, <2>2, <2>3, <2>4
<1> QED
  BY <1>1, Invariant, PTL

(* For a guest that does not follow a write with a write, the comment at   *)
(* cpu_bus.c 69-70 is right: a parked 8086 stalls on its next cycle.       *)
THEOREM PatientGuestStalls == ASSUME ~BackToBack PROVE Spec => []StallsOnNext
<1>1. IInv => StallsOnNext
  BY DEF IInv, TypeOK, CountInv, Unposted, StallsOnNext, Completed
<1> QED
  BY <1>1, Invariant, PTL
=============================================================================
