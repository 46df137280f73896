------------------------- MODULE CardSharing_proofs -------------------------
(***************************************************************************)
(* CardSharing for any set of images: the types, the exclusion inside      *)
(* FatFs, the parking protocol, the open image, and the implementation of  *)
(* DriveBay.  Everything follows from one inductive invariant.             *)
(***************************************************************************)
EXTENDS CardSharing, TLAPS

(* The spinlock register says who is inside FatFs.                         *)
LockInv == /\ lock = "core0" <=> pc0 \in FatFs0
           /\ lock = "core1" <=> pc1 \in FatFs1

(* The request stands from bus_pause() to bus_resume(), the                *)
(* acknowledgement while core 1 spins; and once the menu is up, with the   *)
(* acknowledgement or without it, core 1 gets no further than its pause    *)
(* point, except to finish the FatFs call it was in.                       *)
PauseInv == /\ bus_pause_req <=> pc0 \notin InMain
            /\ bus_paused <=> pc1 = "parked"
            /\ pc0 = "pause_wait" => ~acked
            /\ AckedMeansParked
            /\ pc0 \in InMenu => pc1 \in {"idle", "point", "parked"} \cup FatFs1

(* ide.disk_image points at an open file except in the step between        *)
(* f_close() and the null; core 1 past its test has a pointer to use.      *)
ImageInv == /\ disk_image /\ pc0 # "reload_clear" => hdd_file # NoImage
            /\ pc0 = "reload_publish" => hdd_file # NoImage
            /\ pc1 \in {"size", "lock"} \cup FatFs1 => disk_image

IInv == TypeOK /\ LockInv /\ PauseInv /\ ImageInv

USE DEF hddVars, pauseVars, InMain, InMenu, FatFs0, FatFs1, Handler

(* The invariant holds at power-on.                                        *)
LEMMA InitIInv == Init => IInv
  BY DEF Init, IInv, TypeOK, LockInv, PauseInv, ImageInv, AckedMeansParked

(* The guest keeps the invariant.                                          *)
LEMMA GuestIInv == IInv /\ Guest => IInv'
<1> SUFFICES ASSUME IInv, Guest PROVE IInv'
  OBVIOUS
<1> USE DEF IInv, TypeOK, LockInv, PauseInv, ImageInv, AckedMeansParked
<1>1. CASE BusCycle
  BY <1>1, ZenonT(90) DEF BusCycle, Step1
<1>2. CASE Hlt
  BY <1>2 DEF Hlt
<1> QED
  BY <1>1, <1>2 DEF Guest

(* Core 1 keeps it.                                                        *)
LEMMA Core1IInv == IInv /\ Core1 => IInv'
<1> SUFFICES ASSUME IInv, Core1 PROVE IInv'
  OBVIOUS
<1> USE DEF IInv, TypeOK, LockInv, PauseInv, ImageInv, AckedMeansParked, Step1
<1>1. CASE PausePoint
  <2>1. CASE bus_pause_req
    BY <1>1, <2>1 DEF PausePoint
  <2>2. CASE ~bus_pause_req
    <3>1. pc1 = "point" /\ pc1' = "dispatch" /\ pc0 \notin InMenu
      BY <1>1, <2>2 DEF PausePoint
    <3>2. UNCHANGED <<sd_mounted, settings_hdd, disk_image, hdd_file, lock, bus_pause_req,
                      bus_paused, acked, halted, changed, pc0>>
      BY <1>1, <2>2 DEF PausePoint
    <3> QED
      BY <3>1, <3>2
  <2> QED
    BY <2>1, <2>2
<1>2. CASE Unpark
  BY <1>2, ZenonT(90) DEF Unpark
<1>3. CASE Dispatch
  BY <1>3 DEF Dispatch
<1>4. CASE SizeCheck
  BY <1>4 DEF SizeCheck
<1>5. CASE TestImage
  BY <1>5 DEF TestImage
<1>6. CASE LockCard
  BY <1>6 DEF LockCard, Lock1, Acquire
<1>7. CASE Seek
  BY <1>7 DEF Seek, Unlock
<1>8. CASE Transfer
  BY <1>8 DEF Transfer, Unlock
<1> QED
  BY <1>1, <1>2, <1>3, <1>4, <1>5, <1>6, <1>7, <1>8 DEF Core1

(* The exchange of an image keeps it.                                      *)
LEMMA ReloadIInv == IInv /\ Reload => IInv'
<1> SUFFICES ASSUME IInv, Reload PROVE IInv'
  OBVIOUS
<1> USE DEF IInv, TypeOK, LockInv, PauseInv, ImageInv, AckedMeansParked, Step0
<1>1. CASE ReloadLock
  BY <1>1 DEF ReloadLock, Acquire
<1>2. CASE ReloadClose
  BY <1>2 DEF ReloadClose
<1>3. CASE ReloadClear
  BY <1>3, ZenonT(90) DEF ReloadClear
<1>4. CASE ReloadOpen
  BY <1>4 DEF ReloadOpen, HddNamed
<1>5. CASE ReloadPublish
  BY <1>5 DEF ReloadPublish
<1>6. CASE ReloadUnlock
  BY <1>6 DEF ReloadUnlock, Unlock
<1> QED
  BY <1>1, <1>2, <1>3, <1>4, <1>5, <1>6 DEF Reload

(* Core 0 keeps it.                                                        *)
LEMMA Core0IInv == IInv /\ Core0 => IInv'
<1> SUFFICES ASSUME IInv, Core0 PROVE IInv'
  OBVIOUS
<1>1. CASE Reload
  BY <1>1, ReloadIInv
<1> USE DEF IInv, TypeOK, LockInv, PauseInv, ImageInv, AckedMeansParked, Step0
<1>2. CASE LockCall
  BY <1>2 DEF LockCall, Acquire
<1>3. CASE EndCall
  BY <1>3 DEF EndCall, Unlock
<1>4. CASE PauseAcknowledged
  <2>1. pc0 = "pause_wait" /\ pc0' = "menu" /\ acked' = TRUE /\ changed' = FALSE
    BY <1>4 DEF PauseAcknowledged
  <2>2. pc1 = "parked"
    <3>1. bus_paused
      BY <1>4, Zenon DEF PauseAcknowledged
    <3>2. bus_paused <=> pc1 = "parked"
      BY Zenon DEF IInv, PauseInv
    <3> QED
      BY <3>1, <3>2, Zenon
  <2>3. UNCHANGED <<sd_mounted, settings_hdd, disk_image, hdd_file, lock, bus_pause_req,
                    bus_paused, halted, pc1>>
    BY <1>4 DEF PauseAcknowledged
  <2>4. TypeOK' /\ LockInv' /\ ImageInv'
    BY <2>1, <2>2, <2>3
  <2>5. PauseInv'
    <3>1. bus_pause_req' <=> pc0' \notin InMain
      BY <2>1, <2>3
    <3>2. bus_paused' <=> pc1' = "parked"
      BY <2>3
    <3>3. /\ pc0' = "pause_wait" => ~acked'
          /\ AckedMeansParked' /\ (pc0' \in InMenu => pc1' \in {"idle", "point", "parked"} \cup FatFs1)
      BY <2>1, <2>2, <2>3
    <3> QED
      BY <3>1, <3>2, <3>3, Zenon DEF PauseInv
  <2> QED
    BY <2>4, <2>5
<1>5. CASE PauseTimeout
  BY <1>5 DEF PauseTimeout, DeadlinePassed, Outlasts50ms
<1>6. CASE BusResume
  BY <1>6, ZenonT(90) DEF BusResume
<1> QED
  BY <1>1, <1>2, <1>3, <1>4, <1>5, <1>6 DEF Core0

(* Whoever sits at the keyboard keeps it.                                  *)
LEMMA OperatorIInv == IInv /\ Operator => IInv'
<1> SUFFICES ASSUME IInv, Operator PROVE IInv'
  OBVIOUS
<1> USE DEF IInv, TypeOK, LockInv, PauseInv, ImageInv, AckedMeansParked, Step0
<1>1. CASE StartCall
  BY <1>1 DEF StartCall
<1>2. CASE BusPause
  BY <1>2, ZenonT(90) DEF BusPause
<1>3. CASE PickImage
  BY <1>3 DEF PickImage
<1>4. CASE CloseMenu
  BY <1>4 DEF CloseMenu
<1> QED
  BY <1>1, <1>2, <1>3, <1>4 DEF Operator

(* The invariant holds in every reachable state.                           *)
THEOREM Invariance == Spec => []IInv
<1>1. Init => IInv
  BY InitIInv
<1>2. IInv /\ [Next]_vars => IInv'
  <2> SUFFICES ASSUME IInv, [Next]_vars PROVE IInv'
    OBVIOUS
  <2>1. CASE Next
    BY <2>1, GuestIInv, Core1IInv, Core0IInv, OperatorIInv DEF Next
  <2>2. CASE UNCHANGED vars
    BY <2>2 DEF vars, IInv, TypeOK, LockInv, PauseInv, ImageInv, AckedMeansParked
  <2> QED
    BY <2>1, <2>2
<1> QED
  BY <1>1, <1>2, PTL DEF Spec

(* Every variable keeps its type.                                          *)
THEOREM TypeCorrect == Spec => []TypeOK
<1>1. IInv => TypeOK
  BY DEF IInv
<1> QED
  BY <1>1, Invariance, PTL

(* The two cores are never inside FatFs together, for any images on the    *)
(* card and whatever becomes of the pause.                                 *)
THEOREM Exclusion == Spec => []FatFsExclusive
<1>1. IInv => FatFsExclusive
  BY DEF IInv, LockInv, FatFsExclusive
<1> QED
  BY <1>1, Invariance, PTL

(* An acknowledged pause keeps core 1 parked while the menu is up.         *)
THEOREM Parking == Spec => []AckedMeansParked
<1>1. IInv => AckedMeansParked
  BY DEF IInv, PauseInv
<1> QED
  BY <1>1, Invariance, PTL

(* Core 1 never uses a closed image file.                                  *)
THEOREM OpenImage == Spec => []OpenImageUsed
<1>1. IInv => OpenImageUsed
  BY DEF IInv, LockInv, PauseInv, ImageInv, OpenImageUsed
<1> QED
  BY <1>1, Invariance, PTL

-----------------------------------------------------------------------------
(* The implementation of DriveBay.                                         *)

(* What an action does to the card's user and the image is one of three    *)
(* things, or nothing.                                                     *)
LEMMA BayStep == IInv /\ IInv' /\ Next => [Bay!Next]_(Bay!vars)
<1> SUFFICES ASSUME IInv, IInv', Next PROVE Bay!Next \/ UNCHANGED Bay!vars
  BY DEF Bay!vars
<1> USE DEF IInv, TypeOK, LockInv, CardUser, Bay!vars
<1>1. ASSUME UNCHANGED <<pc0, disk_image, hdd_file>>, pc1 \notin FatFs1, pc1' \notin FatFs1
      PROVE  UNCHANGED Bay!vars
  BY <1>1
<1>2. CASE Guest
  BY <1>1, <1>2 DEF Guest, BusCycle, Hlt, Step1
<1>3. CASE Core1
  <2>1. CASE PausePoint \/ Unpark \/ Dispatch \/ SizeCheck \/ TestImage
    BY <1>1, <2>1 DEF PausePoint, Unpark, Dispatch, SizeCheck, TestImage, Step1
  <2>2. CASE LockCard
    BY <2>2 DEF LockCard, Lock1, Acquire, Step1, Bay!Next, Bay!Enter, Bay!Cores
  <2>3. CASE Seek \/ Transfer
    BY <2>3 DEF Seek, Transfer, Unlock, Step1, Bay!Next, Bay!Leave, Bay!Cores
  <2> QED
    BY <1>3, <2>1, <2>2, <2>3 DEF Core1
<1>4. CASE Operator
  BY <1>4 DEF Operator, StartCall, BusPause, PickImage, CloseMenu, Step0
<1>5. CASE Core0
  <2>1. CASE LockCall \/ ReloadLock
    BY <2>1 DEF LockCall, ReloadLock, Acquire, Step0, Bay!Next, Bay!Enter, Bay!Cores
  <2>2. CASE EndCall \/ ReloadUnlock
    BY <2>2 DEF EndCall, ReloadUnlock, Unlock, Step0, Bay!Next, Bay!Leave, Bay!Cores
  <2>3. CASE ReloadClose \/ ReloadClear \/ ReloadOpen \/ ReloadPublish
    BY <2>3 DEF ReloadClose, ReloadClear, ReloadOpen, ReloadPublish, Step0, HddNamed,
                Bay!Next, Bay!Exchange
  <2>4. CASE PauseAcknowledged \/ PauseTimeout \/ BusResume
    BY <2>4 DEF PauseAcknowledged, PauseTimeout, BusResume, Step0
  <2> QED
    BY <1>5, <2>1, <2>2, <2>3, <2>4 DEF Core0, Reload
<1> QED
  BY <1>2, <1>3, <1>4, <1>5 DEF Next

(* CardSharing implements DriveBay: the card has one user at a time and    *)
(* the guest's image is exchanged only by core 0 as that user.             *)
THEOREM Implements == Spec => ImplementsDriveBay
<1>1. Init => Bay!Init
  BY DEF Init, Bay!Init, CardUser
<1>2. IInv /\ IInv' /\ [Next]_vars => [Bay!Next]_(Bay!vars)
  <2>1. CASE Next
    BY <2>1, BayStep
  <2>2. CASE UNCHANGED vars
    BY <2>2 DEF vars, Bay!vars, CardUser
  <2> QED
    BY <2>1, <2>2
<1> QED
  BY <1>1, <1>2, Invariance, PTL DEF Spec, Bay!Spec, ImplementsDriveBay
=============================================================================
