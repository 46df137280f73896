--------------------- MODULE InterruptController_proofs ---------------------
(***************************************************************************)
(* InterruptController for any set of request lines, any depth of nesting  *)
(* and either kind of EOI: the types, a quiet POST, an in-service register *)
(* that drains, and an INTR pin core 1 does not go to sleep on.            *)
(***************************************************************************)
EXTENDS InterruptController, FiniteSetTheorems, SequenceTheorems, TLAPS

(* While POST is undisturbed the mask is full; the acknowledge core 1 is   *)
(* in the middle of was started with something to acknowledge.             *)
QuietInv == /\ post => imr = Lines
            /\ op = "ack" => opSeen \ imr # {} /\ Len(serving) < MaxNest

(* What is in service is owed an EOI: line by line with specific EOIs,     *)
(* only in number with non-specific ones, which may retire each other's.   *)
Served == {serving[i] : i \in 1 .. Len(serving)}
ServiceInv == IF SpecificEoi THEN isr \subseteq Served
                             ELSE Cardinality(isr) <= Len(serving)

(* Whoever has changed irr or imr since the loop looked has left a trace.  *)
PinInv == /\ loop = "put" => event \/ news \/ (sample <=> irr \ imr # {})
          /\ loop = "wfe" => event \/ news \/ (intr <=> irr \ imr # {})

IInv == TypeOK /\ QuietInv /\ ServiceInv /\ PinInv

-----------------------------------------------------------------------------
(* __builtin_ctz() of a register that is not zero is one of its bits.      *)
LEMMA HighestIsMember ==
  ASSUME NEW S \in SUBSET Lines, S # {}
  PROVE  Highest(S) \in S
<1>1. S \subseteq 0..7
  BY LinesAssumption
<1>2. ASSUME NEW n \in 0..7, n \in S, \A k \in 0..(n-1) : k \notin S
      PROVE  \E l \in S : \A k \in S : l <= k
  BY <1>1, <1>2
<1>3. \E n \in 0..7 : n \in S /\ \A k \in 0..(n-1) : k \notin S
  <2> SUFFICES ASSUME \A n \in 0..7 : n \in S => \E k \in 0..(n-1) : k \in S
               PROVE  FALSE
    OBVIOUS
  <2>1. 0 \notin S
    OBVIOUS
  <2>2. 1 \notin S /\ 2 \notin S /\ 3 \notin S
    <3>1. 1 \notin S  BY <2>1
    <3>2. 2 \notin S  BY <2>1, <3>1
    <3>3. 3 \notin S  BY <2>1, <3>1, <3>2
    <3> QED  BY <3>1, <3>2, <3>3
  <2>3. 4 \notin S /\ 5 \notin S
    <3>1. 4 \notin S  BY <2>1, <2>2
    <3>2. 5 \notin S  BY <2>1, <2>2, <3>1
    <3> QED  BY <3>1, <3>2
  <2>4. 6 \notin S
    BY <2>1, <2>2, <2>3
  <2>5. 7 \notin S
    BY <2>1, <2>2, <2>3, <2>4
  <2>6. PICK x \in S : x \in 0..7
    BY <1>1
  <2>7. x \in {0, 1, 2, 3, 4, 5, 6, 7}
    BY <2>6
  <2> QED
    BY <2>1, <2>2, <2>3, <2>4, <2>5, <2>6, <2>7
<1> QED
  BY <1>2, <1>3 DEF Highest

(* A register is a finite set of lines.                                    *)
LEMMA FiniteRegister ==
  ASSUME NEW S \in SUBSET Lines
  PROVE  IsFiniteSet(S) /\ Cardinality(S) \in Nat
<1>1. S \in SUBSET Nat /\ \A k \in S : k <= 7
  BY LinesAssumption
<1> QED
  BY <1>1, FS_BoundedSetOfNaturals, FS_CardinalityType

(* Retiring the innermost handler takes one line from those owed an EOI.   *)
LEMMA PopServing ==
  ASSUME NEW s \in Seq(Lines), s # <<>>
  PROVE  LET t == SubSeq(s, 1, Len(s) - 1)
         IN  /\ t \in Seq(Lines) /\ Len(t) = Len(s) - 1
             /\ \A i \in 1 .. Len(s) - 1 : t[i] = s[i]
<1>1. Len(s) \in Nat /\ Len(s) # 0
  BY EmptySeq, LenProperties
<1>2. Len(s) - 1 \in Int /\ \A i \in 1 .. Len(s) - 1 : s[i] \in Lines
  BY <1>1, LenProperties
<1> DEFINE t == SubSeq(s, 1, Len(s) - 1)
<1>3. /\ t \in Seq(Lines) /\ Len(t) = IF 1 <= Len(s) - 1 THEN Len(s) - 1 - 1 + 1 ELSE 0
      /\ \A i \in 1 .. Len(s) - 1 - 1 + 1 : t[i] = s[1 + i - 1]
  BY <1>1, <1>2, SubSeqProperties
<1> HIDE DEF t
<1>4. Len(s) - 1 - 1 + 1 = Len(s) - 1 /\ \A i \in 1 .. Len(s) - 1 : 1 + i - 1 = i
  BY <1>1
<1>5. Len(t) = Len(s) - 1
  <2>1. ASSUME NEW n \in Nat, n # 0
        PROVE  (IF 1 <= n - 1 THEN n - 1 - 1 + 1 ELSE 0) = n - 1
    BY <2>1
  <2> QED
    BY <1>1, <1>3, <2>1
<1>6. \A i \in 1 .. Len(s) - 1 : t[i] = s[i]
  BY <1>3, <1>4
<1> QED
  BY <1>3, <1>5, <1>6 DEF t

-----------------------------------------------------------------------------
(* The invariants hold at power-on.                                        *)
LEMMA InitIInv == Init => IInv
<1> SUFFICES ASSUME Init PROVE IInv
  OBVIOUS
<1>1. TypeOK
  <2>1. serving \in Seq(Lines) /\ Len(serving) = 0
    BY EmptySeq DEF Init
  <2>2. /\ ticking = FALSE /\ intr = FALSE /\ sample = FALSE
        /\ event = FALSE /\ post = FALSE /\ news = FALSE
    BY Zenon DEF Init
  <2>3. Len(serving) <= MaxNest
    BY <2>1, EoiAssumption
  <2> QED
    BY <2>1, <2>2, <2>3 DEF Init, TypeOK, Idle, Reset1
<1>2. QuietInv /\ PinInv
  BY DEF Init, QuietInv, PinInv
<1>3. ServiceInv
  BY FS_EmptySet DEF Init, ServiceInv
<1> QED
  BY <1>1, <1>2, <1>3 DEF IInv

USE DEF core0, core1, icw, guest, Handler

(* Every step keeps the types.                                             *)
LEMMA TypeStep == TypeOK /\ QuietInv /\ [Next]_vars => TypeOK'
<1> SUFFICES ASSUME TypeOK, QuietInv, [Next]_vars PROVE TypeOK'
  OBVIOUS
<1> USE LinesAssumption, Icw1Assumption, EoiAssumption DEF TypeOK, Idle
<1>1. CASE Core0
  <2>1. ASSUME NEW l \in Lines \ {0}, RaiseLoad(l) PROVE TypeOK'
    BY <2>1 DEF RaiseLoad
  <2>2. CASE RaiseStore
    BY <2>2 DEF RaiseStore
  <2>3. CASE TickLoad
    BY <2>3 DEF TickLoad
  <2>4. CASE TickStore
    BY <2>4, ZenonT(90) DEF TickStore
  <2> QED
    BY <1>1, <2>1, <2>2, <2>3, <2>4 DEF Core0
<1>2. CASE Loop
  <2>1. CASE LoopEval
    <3>1. sample' \in BOOLEAN /\ news' \in BOOLEAN
      BY <2>1, Zenon DEF LoopEval
    <3>2. UNCHANGED <<irr, isr, imr, icw, core0, op, opSeen, intr, event, guest>> /\ loop' = "put"
      BY <2>1 DEF LoopEval
    <3> QED
      BY <3>1, <3>2
  <2>2. CASE LoopPut
    BY <2>2 DEF LoopPut
  <2>3. CASE LoopWake
    BY <2>3 DEF LoopWake
  <2> QED
    BY <1>2, <2>1, <2>2, <2>3 DEF Loop
<1>3. CASE HandlerEnds
  <2>1. CASE AckStore
    <3>1. Highest(opSeen \ imr) \in Lines
      BY <2>1, HighestIsMember DEF AckStore, QuietInv
    <3>2. serving' \in Seq(Lines) /\ Len(serving') = Len(serving) + 1
      BY <2>1, <3>1, AppendProperties DEF AckStore
    <3>3. Len(serving') <= MaxNest
      BY <2>1, <3>2, LenProperties DEF AckStore, QuietInv
    <3> QED
      BY <2>1, <3>1, <3>2, <3>3, ZenonT(90) DEF AckStore
  <2>2. ASSUME NEW l \in Lines, ChipRaiseStore(l) PROVE TypeOK'
    BY <2>2 DEF ChipRaiseStore
  <2>3. CASE ReloadStore
    BY <2>3 DEF ReloadStore
  <2> QED
    BY <1>3, <2>1, <2>2, <2>3 DEF HandlerEnds
<1>4. CASE Guest
  <2>1. CASE OtherCycle
    BY <2>1 DEF OtherCycle
  <2>2. CASE AckLoad
    BY <2>2, ZenonT(90) DEF AckLoad
  <2>3. CASE ChipRaiseLoad
    BY <2>3 DEF ChipRaiseLoad
  <2>4. CASE ReloadLoad
    BY <2>4 DEF ReloadLoad
  <2>5. CASE WriteICW1
    BY <2>5 DEF WriteICW1
  <2>6. CASE WriteData
    BY <2>6 DEF WriteData, NextWord
  <2>7. CASE Eoi
    <3>1. serving' \in Seq(Lines) /\ Len(serving') = Len(serving) - 1
      BY <2>7, PopServing DEF Eoi
    <3>2. Len(serving') <= MaxNest
      BY <3>1, LenProperties
    <3>3. isr' \in SUBSET Lines
      BY <2>7 DEF Eoi
    <3> QED
      BY <2>7, <3>1, <3>2, <3>3 DEF Eoi
  <2>8. ASSUME NEW bios \in BOOLEAN, ReadWarmFlag(bios) PROVE TypeOK'
    <3>1. serving' \in Seq(Lines) /\ Len(serving') <= MaxNest
      <4>1. serving' = <<>> \/ serving' = serving
        BY <2>8, Zenon DEF ReadWarmFlag
      <4>2. <<>> \in Seq(Lines) /\ Len(<<>>) <= MaxNest
        BY EmptySeq
      <4> QED
        BY <4>1, <4>2, Zenon
    <3>2. post' \in BOOLEAN
      BY <2>8, Zenon DEF ReadWarmFlag
    <3> QED
      BY <2>8, <3>1, <3>2 DEF ReadWarmFlag, ResetRegisters
  <2> QED
    BY <1>4, <2>1, <2>2, <2>3, <2>4, <2>5, <2>6, <2>7, <2>8 DEF Guest
<1>5. CASE UNCHANGED vars
  BY <1>5 DEF vars
<1> QED
  BY <1>1, <1>2, <1>3, <1>4, <1>5 DEF Next

(* Only five actions touch what QuietInv and ServiceInv speak of together. *)
LEMMA QuietStep == TypeOK /\ QuietInv /\ [Next]_vars => QuietInv'
<1> SUFFICES ASSUME TypeOK, QuietInv, [Next]_vars PROVE QuietInv'
  OBVIOUS
<1> USE DEF QuietInv
<1>1. CASE Core0
  <2>1. UNCHANGED <<op, opSeen, imr, serving, post>>
    BY <1>1, Zenon DEF Core0, RaiseLoad, RaiseStore, TickLoad, TickStore
  <2> QED
    BY <2>1
<1>2. CASE Loop
  <2>1. UNCHANGED <<op, opSeen, imr, serving, post>>
    BY <1>2, Zenon DEF Loop, LoopEval, LoopPut, LoopWake
  <2> QED
    BY <2>1
<1>3. CASE HandlerEnds
  <2>1. op' = "none" /\ UNCHANGED <<imr, post>>
    BY <1>3, Zenon DEF HandlerEnds, AckStore, ChipRaiseStore, ReloadStore
  <2> QED
    BY <2>1
<1>4. CASE Guest
  <2>1. CASE AckLoad
    <3>1. UNCHANGED <<imr, serving, post>> /\ Len(serving) < MaxNest
      BY <2>1 DEF AckLoad
    <3>2. op' = "ack" => opSeen' \ imr' # {}
      BY <2>1 DEF AckLoad, Pending
    <3> QED
      BY <3>1, <3>2
  <2>2. CASE OtherCycle \/ Eoi \/ ChipRaiseLoad \/ ReloadLoad
    <3>1. op' # "ack" /\ UNCHANGED <<imr, post>>
      BY <2>2 DEF OtherCycle, Eoi, ChipRaiseLoad, ReloadLoad
    <3> QED
      BY <3>1
  <2>3. CASE WriteICW1 \/ WriteData
    <3>1. op' # "ack"
      BY <2>3 DEF WriteICW1, WriteData
    <3>2. post' => post /\ imr' = imr
      BY <2>3, Zenon DEF WriteICW1, WriteData
    <3> QED
      BY <3>1, <3>2
  <2>4. ASSUME NEW bios \in BOOLEAN, ReadWarmFlag(bios) PROVE QuietInv'
    <3>1. op' # "ack" /\ imr' = Lines
      BY <2>4, Zenon DEF ReadWarmFlag, ResetRegisters
    <3> QED
      BY <3>1
  <2> QED
    BY <1>4, <2>1, <2>2, <2>3, <2>4 DEF Guest
<1>5. CASE UNCHANGED vars
  BY <1>5 DEF vars
<1> QED
  BY <1>1, <1>2, <1>3, <1>4, <1>5 DEF Next

(* The acknowledge serves the request it took.                             *)
LEMMA AckServes == TypeOK /\ QuietInv /\ ServiceInv /\ AckStore => ServiceInv'
<1> SUFFICES ASSUME TypeOK, QuietInv, ServiceInv, AckStore PROVE ServiceInv'
  OBVIOUS
<1> DEFINE l == Highest(opSeen \ imr)
<1>1. l \in Lines
  BY HighestIsMember DEF AckStore, QuietInv, TypeOK
<1>2. /\ isr' = isr \cup {l} /\ serving' = Append(serving, l)
  BY DEF AckStore
<1>3. /\ Len(serving') = Len(serving) + 1 /\ Len(serving) \in Nat
      /\ \A i \in 1 .. Len(serving) : serving'[i] = serving[i]
      /\ serving'[Len(serving) + 1] = l
  BY <1>1, <1>2, AppendProperties, LenProperties DEF TypeOK
<1> HIDE DEF l
<1>4. CASE SpecificEoi
  <2>1. Served \subseteq Served'
    BY <1>3 DEF Served
  <2>2. l \in Served'
    BY <1>3 DEF Served
  <2> QED
    BY <1>2, <1>4, <2>1, <2>2 DEF ServiceInv
<1>5. CASE ~SpecificEoi
  <2>1. IsFiniteSet(isr) /\ Cardinality(isr) \in Nat
    BY FiniteRegister DEF TypeOK
  <2>2. Cardinality(isr') <= Cardinality(isr) + 1
    <3>1. Cardinality(isr') = Cardinality(isr) \/ Cardinality(isr') = Cardinality(isr) + 1
      BY <1>2, <2>1, FS_AddElement, Zenon
    <3> QED
      BY <2>1, <3>1
  <2>3. Cardinality(isr') \in Nat
    BY <1>1, <1>2, FiniteRegister DEF TypeOK
  <2>4. Cardinality(isr) <= Len(serving)
    BY <1>5 DEF ServiceInv
  <2>5. Cardinality(isr') <= Len(serving')
    BY <1>3, <2>1, <2>2, <2>3, <2>4
  <2> QED
    BY <1>5, <2>5 DEF ServiceInv
<1> QED
  BY <1>4, <1>5

(* The end of interrupt keeps what is in service in order.                 *)
LEMMA EoiServes == TypeOK /\ ServiceInv /\ Eoi => ServiceInv'
<1> SUFFICES ASSUME TypeOK, ServiceInv, Eoi PROVE ServiceInv'
  OBVIOUS
<1>1. serving \in Seq(Lines) /\ serving # <<>> /\ isr \in SUBSET Lines
  BY DEF Eoi, TypeOK
<1>2. Len(serving) \in Nat \ {0}
  BY <1>1, EmptySeq
<1>3. /\ Len(serving') = Len(serving) - 1
      /\ \A i \in 1 .. Len(serving) - 1 : serving'[i] = serving[i]
  BY <1>1, PopServing DEF Eoi
<1>4. CASE SpecificEoi
  <2>1. isr' = isr \ {Innermost}
    BY <1>4 DEF Eoi, Retired
  <2>2. ASSUME NEW x \in isr' PROVE x \in Served'
    <3>1. PICK i \in 1 .. Len(serving) : x = serving[i]
      BY <1>4, <2>1, <2>2 DEF ServiceInv, Served
    <3>2. i # Len(serving)
      BY <2>1, <2>2, <3>1 DEF Innermost
    <3>3. i \in 1 .. Len(serving') /\ x = serving'[i]
      BY <1>2, <1>3, <3>1, <3>2
    <3> QED
      BY <3>3 DEF Served
  <2> QED
    BY <1>4, <2>2 DEF ServiceInv
<1>5. CASE ~SpecificEoi
  <2>1. IsFiniteSet(isr) /\ Cardinality(isr) \in Nat /\ Cardinality(isr) <= Len(serving)
    BY <1>1, <1>5, FiniteRegister DEF ServiceInv
  <2>2. CASE isr = {}
    <3>1. isr' = {}
      BY <2>2 DEF Eoi
    <3>2. Cardinality(isr') <= Len(serving')
      BY <1>2, <1>3, <3>1, FS_EmptySet
    <3> QED
      BY <1>5, <3>2 DEF ServiceInv
  <2>3. CASE isr # {}
    <3>1. Highest(isr) \in isr
      BY <1>1, <2>3, HighestIsMember
    <3>2. isr' = isr \ {Highest(isr)}
      BY <1>5, <2>3 DEF Eoi, Retired
    <3>3. Cardinality(isr') = Cardinality(isr) - 1
      BY <2>1, <3>1, <3>2, FS_RemoveElement
    <3>4. Cardinality(isr') <= Len(serving')
      BY <1>2, <1>3, <2>1, <3>3
    <3> QED
      BY <1>5, <3>4 DEF ServiceInv
  <2> QED
    BY <2>2, <2>3
<1> QED
  BY <1>4, <1>5

(* Every step does.                                                        *)
LEMMA ServiceStep == TypeOK /\ QuietInv /\ ServiceInv /\ [Next]_vars => ServiceInv'
<1> SUFFICES ASSUME TypeOK, QuietInv, ServiceInv, [Next]_vars PROVE ServiceInv'
  OBVIOUS
<1>1. ASSUME UNCHANGED <<isr, serving>> PROVE ServiceInv'
  BY <1>1 DEF ServiceInv, Served
<1>2. CASE AckStore
  BY <1>2, AckServes
<1>3. CASE Eoi
  BY <1>3, EoiServes
<1>4. ASSUME NEW bios \in BOOLEAN, ReadWarmFlag(bios) PROVE ServiceInv'
  <2>1. isr' = {} /\ (serving' = <<>> \/ serving' = serving)
    BY <1>4, Zenon DEF ReadWarmFlag, ResetRegisters
  <2>2. Len(<<>>) = 0 /\ Len(serving) \in Nat
    BY EmptySeq, LenProperties DEF TypeOK
  <2>3. Len(serving') \in Nat
    BY <2>1, <2>2
  <2> QED
    BY <2>1, <2>3, FS_EmptySet DEF ServiceInv
<1>5. CASE Core0 \/ Loop
  <2>1. UNCHANGED <<isr, serving>>
    BY <1>5, Zenon DEF Core0, RaiseLoad, RaiseStore, TickLoad, TickStore,
                       Loop, LoopEval, LoopPut, LoopWake
  <2> QED
    BY <1>1, <2>1
<1>6. CASE (\E l \in Lines : ChipRaiseStore(l)) \/ ReloadStore
  <2>1. UNCHANGED <<isr, serving>>
    BY <1>6, Zenon DEF ChipRaiseStore, ReloadStore
  <2> QED
    BY <1>1, <2>1
<1>7. CASE OtherCycle \/ AckLoad \/ ChipRaiseLoad \/ ReloadLoad \/ WriteICW1 \/ WriteData
  <2>1. UNCHANGED <<isr, serving>>
    BY <1>7, Zenon DEF OtherCycle, AckLoad, ChipRaiseLoad, ReloadLoad, WriteICW1, WriteData
  <2> QED
    BY <1>1, <2>1
<1>8. CASE UNCHANGED vars
  BY <1>1, <1>8 DEF vars
<1> QED
  BY <1>2, <1>3, <1>4, <1>5, <1>6, <1>7, <1>8 DEF Next, HandlerEnds, Guest

(* Core 0's stores raise news, a handler's stores leave an event behind:   *)
(* whatever moves irr or imr keeps the pin excused until the loop looks.   *)
LEMMA PinStep == TypeOK /\ QuietInv /\ PinInv /\ [Next]_vars => PinInv'
<1> SUFFICES ASSUME TypeOK, QuietInv, PinInv, [Next]_vars PROVE PinInv'
  OBVIOUS
<1>1. ASSUME event' \/ news' PROVE PinInv'
  BY <1>1, Zenon DEF PinInv
<1>2. ASSUME UNCHANGED <<irr, imr, event, news, loop, sample, intr>> PROVE PinInv'
  BY <1>2 DEF PinInv
<1>3. CASE RaiseStore \/ TickStore
  BY <1>1, <1>3, Zenon DEF RaiseStore, TickStore
<1>4. CASE (\E l \in Lines \ {0} : RaiseLoad(l)) \/ TickLoad
  <2>1. UNCHANGED <<irr, imr, event, news, loop, sample, intr>>
    BY <1>4, Zenon DEF RaiseLoad, TickLoad
  <2> QED
    BY <1>2, <2>1
<1>5. CASE LoopEval
  <2>1. /\ sample' = (irr \ imr # {}) /\ loop' = "put"
        /\ irr' = irr /\ imr' = imr
    BY <1>5, Zenon DEF LoopEval, Pending
  <2>2. loop' # "wfe"
    BY <2>1
  <2> QED
    BY <2>1, <2>2, Zenon DEF PinInv
<1>6. CASE LoopPut
  <2>1. /\ loop = "put" /\ loop' = "wfe" /\ intr' = sample
        /\ irr' = irr /\ imr' = imr /\ event' = event /\ news' = news
    BY <1>6, Zenon DEF LoopPut
  <2>2. loop' # "put"
    BY <2>1
  <2> QED
    BY <2>1, <2>2, Zenon DEF PinInv
<1>7. CASE LoopWake
  <2>1. loop' # "put" /\ loop' # "wfe"
    BY <1>7 DEF LoopWake
  <2> QED
    BY <2>1 DEF PinInv
<1>8. CASE HandlerEnds
  BY <1>1, <1>8, Zenon DEF HandlerEnds, AckStore, ChipRaiseStore, ReloadStore
<1>9. CASE Guest
  <2>1. CASE AckLoad \/ ChipRaiseLoad \/ ReloadLoad
    <3>1. event' \/ UNCHANGED <<irr, imr, event, news, loop, sample, intr>>
      BY <2>1, Zenon DEF AckLoad, ChipRaiseLoad, ReloadLoad
    <3> QED
      BY <1>1, <1>2, <3>1
  <2>2. CASE OtherCycle \/ WriteICW1 \/ WriteData \/ Eoi \/ \E bios \in BOOLEAN : ReadWarmFlag(bios)
    BY <1>1, <2>2, Zenon DEF OtherCycle, WriteICW1, WriteData, Eoi, ReadWarmFlag
  <2> QED
    BY <1>9, <2>1, <2>2 DEF Guest
<1>10. CASE UNCHANGED vars
  BY <1>2, <1>10 DEF vars
<1> QED
  BY <1>3, <1>4, <1>5, <1>6, <1>7, <1>8, <1>9, <1>10 DEF Next, Core0, Loop

-----------------------------------------------------------------------------
(* The four parts together are inductive.                                  *)
THEOREM Invariance == Spec => []IInv
<1>1. IInv /\ [Next]_vars => IInv'
  BY TypeStep, QuietStep, ServiceStep, PinStep DEF IInv
<1> QED
  BY <1>1, InitIInv, PTL DEF Spec

(* The registers stay sets of lines, the initialization sequence stays on  *)
(* a step i8259_write() knows, and handlers nest no deeper than the bound. *)
THEOREM TypeCorrect == Spec => []TypeOK
<1>1. IInv => TypeOK
  BY DEF IInv
<1> QED
  BY <1>1, Invariance, PTL

(* Nothing stays in service once every handler has sent its EOI.           *)
THEOREM ServiceIsDrained == Spec => []ServiceDrains
<1>1. IInv => ServiceDrains
  <2> SUFFICES ASSUME TypeOK, ServiceInv, serving = <<>> PROVE isr = {}
    BY DEF IInv, ServiceDrains
  <2>1. Len(serving) = 0
    BY EmptySeq
  <2>2. CASE SpecificEoi
    BY <2>1, <2>2 DEF ServiceInv, Served
  <2>3. CASE ~SpecificEoi
    <3>1. IsFiniteSet(isr) /\ Cardinality(isr) \in Nat /\ Cardinality(isr) <= 0
      BY <2>1, <2>3, FiniteRegister DEF ServiceInv, TypeOK
    <3>2. Cardinality(isr) = 0
      BY <3>1
    <3> QED
      BY <3>1, <3>2, FS_EmptySet
  <2> QED
    BY <2>2, <2>3
<1> QED
  BY <1>1, Invariance, PTL

(* Core 1 goes to sleep on a pin that shows the requests it has seen.      *)
THEOREM PinIsCurrent == Spec => []PinCurrent
<1>1. IInv => PinCurrent
  BY Zenon DEF IInv, PinInv, PinCurrent
<1> QED
  BY <1>1, Invariance, PTL

(* POST's acknowledge cycles, if there are any, put nothing in service.    *)
THEOREM PostIsQuiet == Spec => PostQuiet
<1>1. IInv /\ [Next]_vars => (post /\ post' => isr' \subseteq isr)
  <2> SUFFICES ASSUME TypeOK, QuietInv, [Next]_vars, post, post'
               PROVE  isr' \subseteq isr
    BY DEF IInv
  <2>1. ~AckStore
    <3>1. imr = Lines /\ opSeen \subseteq Lines
      BY DEF QuietInv, TypeOK
    <3> QED
      BY <3>1 DEF AckStore, QuietInv
  <2>2. CASE Core0 \/ Loop
    BY <2>2, Zenon DEF Core0, RaiseLoad, RaiseStore, TickLoad, TickStore,
                       Loop, LoopEval, LoopPut, LoopWake
  <2>3. CASE HandlerEnds
    BY <2>1, <2>3, Zenon DEF HandlerEnds, ChipRaiseStore, ReloadStore
  <2>4. CASE Guest
    <3>1. CASE Eoi
      BY <3>1 DEF Eoi
    <3>2. ASSUME NEW bios \in BOOLEAN, ReadWarmFlag(bios) PROVE isr' = {}
      BY <3>2 DEF ReadWarmFlag, ResetRegisters
    <3>3. CASE OtherCycle \/ AckLoad \/ ChipRaiseLoad \/ ReloadLoad \/ WriteICW1 \/ WriteData
      BY <3>3, Zenon DEF OtherCycle, AckLoad, ChipRaiseLoad, ReloadLoad, WriteICW1, WriteData
    <3> QED
      BY <2>4, <3>1, <3>2, <3>3 DEF Guest
  <2>5. CASE UNCHANGED vars
    BY <2>5 DEF vars
  <2> QED
    BY <2>2, <2>3, <2>4, <2>5 DEF Next
<1> QED
  BY <1>1, Invariance, PTL DEF Spec, PostQuiet

=============================================================================
