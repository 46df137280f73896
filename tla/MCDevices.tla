------------------------------ MODULE MCDevices ------------------------------
(***************************************************************************)
(* Devices that share nothing but the cores that serve them: the hard disk *)
(* (IdeDisk), the clock (RealTimeClock), COM1 with the mouse (SerialPort), *)
(* the memory card (SdCard), the settings (Setup) and the editor of the    *)
(* date (Calendar).  A behaviour is one of the device in focus, the others *)
(* at rest: their product says nothing more.                               *)
(***************************************************************************)
EXTENDS IdeDisk

CONSTANTS Months, Days, UseSet, RingSize, MaxBytes,
          Kinds, Size, BlockBytes, MaxCount, MaxCalls, MaxPulls,
          Drives, Defaults, Images, Tree, Home, Root, DirOf,
          MaxFiles, MaxChanges, MaxBoots, DayLength

VARIABLES
  focus,
  reg, set, dirty, valid, chip, fallback, pc0, t, clockGuest, wanted, flushed,
  overwritten,
  rx_fifo, rx_head, rx_tail, data_ready, ier, dtr, irr4, push, slot, read,
  more, accepted, reads, got, collided,
  kind, contents, power, mode, at, Stat, CardType, pc, cardRequest, cardMoved,
  cardOutcome, cardVoid, missed, calls, pulls,
  phase, card, settings, backup, changed, browse, file, mounted, saved,
  changes, boots,
  date

clock_vars == <<reg, set, dirty, valid, chip, fallback, pc0, t, clockGuest,
                wanted, flushed, overwritten>>
port_vars == <<rx_fifo, rx_head, rx_tail, data_ready, ier, dtr, irr4, push,
               slot, read, more, accepted, reads, got, collided>>
card_vars == <<kind, contents, power, mode, at, Stat, CardType, pc,
               cardRequest, cardMoved, cardOutcome, cardVoid, missed, calls,
               pulls>>
setup_vars == <<phase, card, settings, backup, changed, browse, file, mounted,
                saved, changes, boots>>

(* The second day of the second month is no date.                          *)
NotDates == {[month |-> 1, day |-> 2]}

Clock == INSTANCE RealTimeClock WITH guest <- clockGuest
Port  == INSTANCE SerialPort
Card  == INSTANCE SdCard WITH
           request <- cardRequest, moved <- cardMoved,
           outcome <- cardOutcome, void <- cardVoid

Settings == INSTANCE Setup
Date == INSTANCE Calendar

ASSUME DevicesAssumption ==
  /\ Clock!ClockAssumption /\ Port!SerialAssumption /\ Card!SdAssumption
  /\ Settings!SetupAssumption /\ Date!CalendarAssumption

DevicesInit ==
  /\ focus \in {"disk", "clock", "port", "card", "setup", "date"}
  /\ Init /\ Clock!Init /\ Port!Init /\ Card!Init /\ Settings!Init /\ Date!Init
  /\ focus # "disk" => disk_image = 2
  /\ focus # "clock" => /\ chip = [month |-> 0, day |-> 1] /\ valid
  /\ focus # "card" => kind = "sd1"
  /\ focus # "setup" => file = Settings!Layout(Settings!Version, Defaults)

DiskStep  == /\ focus = "disk" /\ Next
             /\ UNCHANGED <<focus, clock_vars, port_vars, card_vars,
                            setup_vars, date>>
ClockStep == /\ focus = "clock" /\ Clock!Next
             /\ UNCHANGED <<focus, vars, port_vars, card_vars,
                            setup_vars, date>>
PortStep  == /\ focus = "port" /\ Port!Next
             /\ UNCHANGED <<focus, vars, clock_vars, card_vars,
                            setup_vars, date>>
CardStep  == /\ focus = "card" /\ Card!Next
             /\ UNCHANGED <<focus, vars, clock_vars, port_vars,
                            setup_vars, date>>
SetupStep == /\ focus = "setup" /\ Settings!Next
             /\ UNCHANGED <<focus, vars, clock_vars, port_vars,
                            card_vars, date>>
DateStep  == /\ focus = "date" /\ Date!Next
             /\ UNCHANGED <<focus, vars, clock_vars, port_vars,
                            card_vars, setup_vars>>

DevicesNext == \/ DiskStep \/ ClockStep \/ PortStep \/ CardStep
               \/ SetupStep \/ DateStep

all_vars == <<focus, vars, clock_vars, port_vars, card_vars, setup_vars, date>>

DevicesSpec ==
  /\ DevicesInit
  /\ [][DevicesNext]_all_vars
  /\ WF_vars(Issue) /\ WF_vars(Poll) /\ WF_vars(Transfer)

-----------------------------------------------------------------------------
(* For Setup: no card, one without /XT, and one with the image the default *)
(* settings name, a file that is no image, and an image more than fits in  *)
(* the browser's list.                                                     *)
XtDrives == {"hdd"}
XtImages == {"/XT/hdd0.img", "/XT/z.img", "/b.img"}
XtDirOf  == [p \in XtImages |-> IF p = "/b.img" THEN "/" ELSE "/XT"]
XtDefaults == [f \in {"hdd", "sound", "vga"} |->
  CASE f = "hdd" -> "/XT/hdd0.img" [] f = "sound" -> 1 [] f = "vga" -> 0]

Image(path) == [kind |-> "image", path |-> path]
XtTree == [c \in {"none", "bare", "good"} |->
  CASE c = "none" -> <<>>
    [] c = "bare" -> [d \in {"/"} |-> <<Image("/b.img")>>]
    [] c = "good" -> [d \in {"/", "/XT"} |->
         IF d = "/"
         THEN <<[kind |-> "dir", path |-> "/XT"], Image("/b.img")>>
         ELSE <<Image("/XT/hdd0.img"),
                [kind |-> "other", path |-> "/XT/xt8086.cfg"],
                Image("/XT/z.img")>>]]

-----------------------------------------------------------------------------
(* What the modules state, of each device.                                 *)

(* Every variable of the device in focus keeps its type.                   *)
TypesOK ==
  CASE focus = "disk"  -> TypeOK
    [] focus = "clock" -> Clock!TypeOK
    [] focus = "port"  -> Port!TypeOK
    [] focus = "card"  -> Card!TypeOK
    [] focus = "setup" -> Settings!TypeOK
    [] focus = "date"  -> Date!TypeOK

(* mc146818.c: a date that core 0 did not overwrite reaches the fallback.  *)
SetDateKept == Clock!SetDateKept

(* uart16550.h: the n-th byte the guest takes is the n-th that was stored.  *)
BytesInOrder == Port!BytesInOrder

(* sdcard.c: sectors go where FatFs sent them, or it is told.              *)
CardImplementsSectorDisk == Card!ImplementsSectorDisk

(* sdcard.c: a failed transfer is ended on the card too.                   *)
CardLeftReady == Card!CardLeftReady

(* setup_menu.c, osd.c: the settings through edits, saves and power cuts.  *)
ImplementsSettingsStore == Settings!ImplementsSettingsStore

(* ds3231.c, mc146818.c: every date through every form it is kept in.      *)
DateSurvives == focus = "date" => Date!DateSurvives
=============================================================================
