------------------------------- MODULE Keyboard -------------------------------
(***************************************************************************)
(* A USB keyboard made to look like the one of an XT.  Core 0 turns HID    *)
(* reports into scancodes, queues them, repeats the key that is held, and  *)
(* hands one code at a time to port 60h (drivers/usbhid/hid_app.c,         *)
(* app/main.c 199-226); the guest's INT 9 reads it and acknowledges with   *)
(* bit 7 of port 61h (core/ports.h); Ctrl+Alt+F1 opens the drive menu,     *)
(* which takes the codes for itself (ui/osd.c).                            *)
(*                                                                         *)
(* Time is abstracted to one fact, `expired': the hand-over deadline of    *)
(* the code in port 60h has passed (FALSE when the port is empty, the      *)
(* deadline then matters to nobody).  History: `unread', the guest has not *)
(* read the code it was told of; `excuse', a code was lost in a way the    *)
(* code provides for.                                                      *)
(***************************************************************************)
EXTENDS Naturals, Sequences

CONSTANTS Keys,       \* the keys of this keyboard, "ctrl", "alt", "f1", "esc" among them
          Extended,   \* those whose codes have an E0 prefix
          QueueSize,  \* 32 in the code
          MaxReports  \* bound: what the keyboard sends, changes and repeats

ASSUME KeyboardAssumption ==
  /\ {"ctrl", "alt", "f1", "esc"} \subseteq Keys
  /\ Extended \subseteq Keys \ {"f1", "esc"}
  /\ {"E0", "AA", "none"} \cap Keys = {}
  /\ QueueSize \in Nat \ {0} /\ MaxReports \in Nat

Modifiers == {"ctrl", "alt"}
Code  == [key : Keys \cup {"E0", "AA"}, up : BOOLEAN]
None  == [key |-> "none", up |-> FALSE]     \* scancode 0
Prefix == [key |-> "E0", up |-> FALSE]
SelfTest == [key |-> "AA", up |-> FALSE]
Make(k)  == [key |-> k, up |-> FALSE]
Break(k) == [key |-> k, up |-> TRUE]

VARIABLES
  prev_report,       \* the keys held down
  reports,
  keyboard_queue, repeat_code, expired,
  current_scancode, irr1,
  ctrl_down, alt_down, osd_requested,
  menu,              \* "closed", or where osd_wait_key() is: "tick", "take"
  guest,             \* where the guest is: its program, or INT 9
  belief,            \* the modifiers the guest takes to be down
  prefixed,          \* the last code it read was E0
  unread, excuse     \* see above

hid    == <<prev_report, reports, repeat_code>>
guestVars == <<guest, belief, prefixed>>
vars == <<hid, keyboard_queue, expired, current_scancode, irr1, ctrl_down,
          alt_down, osd_requested, menu, guestVars, unread, excuse>>

TypeOK ==
  /\ prev_report \subseteq Keys /\ reports \in 0 .. MaxReports
  /\ keyboard_queue \in Seq(Code) /\ Len(keyboard_queue) <= QueueSize
  /\ repeat_code \in Keys \cup {"none"} /\ expired \in BOOLEAN
  /\ current_scancode \in Code \cup {None} /\ irr1 \in BOOLEAN
  /\ ctrl_down \in BOOLEAN /\ alt_down \in BOOLEAN
  /\ osd_requested \in BOOLEAN /\ menu \in {"closed", "tick", "take"}
  /\ guest \in {"program", "read", "ack"}
  /\ belief \subseteq Modifiers /\ prefixed \in BOOLEAN
  /\ unread \in BOOLEAN /\ excuse \in BOOLEAN

Init ==
  /\ prev_report = {} /\ reports = 0
  /\ keyboard_queue = <<>> /\ repeat_code = "none" /\ expired = FALSE
  /\ current_scancode = None /\ irr1 = FALSE
  /\ ctrl_down = FALSE /\ alt_down = FALSE
  /\ osd_requested = FALSE /\ menu = "closed"
  /\ guest = "program" /\ belief = {} /\ prefixed = FALSE
  /\ unread = FALSE /\ excuse = FALSE

-----------------------------------------------------------------------------
(* The queue.  queue_try_add() drops what does not fit, byte by byte.      *)

\* Mutation: the queue grows.
AddAll(q, seq) == q \o seq
AddSequence(q, seq) == LET room == QueueSize - Len(q)
                       IN q \o SubSeq(seq, 1, IF Len(seq) < room THEN Len(seq)
                                                                 ELSE room)
Dropped(q, seq) == Len(q) + Len(seq) > QueueSize

RawKey(k, up) == LET c == [key |-> k, up |-> up]
                 IN IF k \in Extended THEN <<Prefix, c>> ELSE <<c>>

(* What the tick's first two parts put into the queue: at most one change  *)
(* of the report, then the repeat if it is due.                            *)
Changes == {[key |-> k, up |-> k \in prev_report] : k \in Keys}

ReportSequence(c) == IF c = None THEN <<>> ELSE RawKey(c.key, c.up)

RepeatAfter(c) ==
  IF c = None \/ (~c.up /\ c.key \in Modifiers) THEN repeat_code
  ELSE IF ~c.up THEN c.key
  ELSE IF c.key = repeat_code THEN "none" ELSE repeat_code

(* A key just pressed does not repeat in the same tick.                    *)
MayRepeat(c) == RepeatAfter(c) # "none" /\ RepeatAfter(c) = repeat_code

(* tuh_task() and typematic_task(): a change of the report, a repeat.      *)
Queued(c, due) ==
  ReportSequence(c) \o (IF due THEN RawKey(repeat_code, FALSE) ELSE <<>>)

Collect(c, due) ==
  /\ c # None \/ due => reports < MaxReports
  /\ due => MayRepeat(c)
  /\ prev_report' = IF c = None THEN prev_report
                    ELSE IF c.up THEN prev_report \ {c.key}
                                 ELSE prev_report \cup {c.key}
  /\ reports' = reports + (IF c # None \/ due THEN 1 ELSE 0)
  /\ repeat_code' = RepeatAfter(c)

-----------------------------------------------------------------------------
(* keyboard_tick(), core 0.                                                *)

\* Mutation: the deadline is forgotten and the guest is waited for.
WaitForEver == current_scancode = None
\* Mutation: the next code does not wait for the guest.
DoNotWait == TRUE
MayHandOver == current_scancode = None \/ expired

Tracks(flag, k, code) == IF code.key = k THEN ~code.up ELSE flag

active == menu # "closed"

(* handleScancode(): the chord is kept from the guest; any other code goes *)
(* to port 60h, and the guest is told of it unless the menu is up.         *)
handleScancode(code) ==
  /\ ctrl_down' = Tracks(ctrl_down, "ctrl", code)
  /\ alt_down' = Tracks(alt_down, "alt", code)
  /\ IF ctrl_down' /\ alt_down' /\ code = Make("f1")
       THEN /\ osd_requested' = TRUE
            /\ UNCHANGED <<current_scancode, irr1, unread>>
       ELSE /\ current_scancode' = code
            /\ irr1' = (irr1 \/ ~active) /\ unread' = ~active
            /\ UNCHANGED osd_requested

(* The oldest code of q is handed over if there is one and it may go.      *)
HandOver(q) ==
  /\ MayHandOver /\ q # <<>>
  /\ handleScancode(Head(q))
  /\ keyboard_queue' = Tail(q) /\ expired' = FALSE

Stay(q) ==
  /\ ~(MayHandOver /\ q # <<>>)
  /\ keyboard_queue' = q
  /\ UNCHANGED <<ctrl_down, alt_down, osd_requested, current_scancode, irr1,
                 unread, expired>>

(* One call of keyboard_tick().  A hand-over after the deadline costs the  *)
(* code it overwrites, a full queue what does not fit.                     *)
keyboard_tick(c, due) ==
  LET q == AddSequence(keyboard_queue, Queued(c, due))
  IN /\ Collect(c, due)
     /\ HandOver(q) \/ Stay(q)
     /\ excuse' = (\/ excuse \/ Dropped(keyboard_queue, Queued(c, due))
                   \/ expired /\ current_scancode # None /\ q # <<>>)

(* The main loop tests osd_requested before the tick in every pass, so no  *)
(* tick falls between a chord and the menu (main.c 451-458).               *)
MainTick(c, due) ==
  /\ ~active /\ ~osd_requested
  /\ keyboard_tick(c, due)
  /\ UNCHANGED <<menu, guestVars>>

Expire ==          \* the 50 ms since the hand-over are over
  /\ current_scancode # None /\ ~expired /\ expired' = TRUE
  /\ UNCHANGED <<hid, keyboard_queue, current_scancode, irr1, ctrl_down,
                 alt_down, osd_requested, menu, guestVars, unread, excuse>>

-----------------------------------------------------------------------------
(* The drive menu (ui/osd.c), core 0, with the guest parked.               *)

OpenMenu ==
  /\ osd_requested /\ ~active
  /\ osd_requested' = FALSE /\ menu' = "tick"
  /\ UNCHANGED <<hid, keyboard_queue, expired, current_scancode, irr1,
                 ctrl_down, alt_down, guestVars, unread, excuse>>

(* A turn of osd_wait_key() is a tick and a look at port 60h.              *)
MenuTick(c, due) ==
  /\ menu = "tick" /\ menu' = "take"
  /\ keyboard_tick(c, due)
  /\ UNCHANGED guestVars

\* Mutation: the menu leaves without telling the guest.
NoBreaks == <<>>
ClosingBreaks == <<Break("ctrl"), Break("alt")>>

(* Only Esc matters here: it closes the menu, which queues the two breaks. *)
(* A prefix and a key going up are passed over, other keys are the menu's. *)
MenuTake ==
  /\ menu = "take"
  /\ current_scancode' = None /\ expired' = FALSE /\ unread' = FALSE
  /\ IF current_scancode = Make("esc")
       THEN /\ menu' = "closed"
            /\ keyboard_queue' = AddSequence(keyboard_queue, ClosingBreaks)
            /\ excuse' = (excuse \/ Dropped(keyboard_queue, ClosingBreaks))
       ELSE /\ menu' = "tick"
            /\ UNCHANGED <<keyboard_queue, excuse>>
  /\ UNCHANGED <<hid, irr1, ctrl_down, alt_down, osd_requested, guestVars>>

-----------------------------------------------------------------------------
(* The guest: INT 9 reads port 60h, then pulses bit 7 of port 61h.  It     *)
(* stands still while the menu is up.                                      *)

TakeIrq ==
  /\ ~active /\ guest = "program" /\ irr1
  /\ irr1' = FALSE /\ guest' = "read"
  /\ UNCHANGED <<hid, keyboard_queue, expired, current_scancode, ctrl_down,
                 alt_down, osd_requested, menu, belief, prefixed, unread, excuse>>

Believes(code) ==
  IF code.key \notin Modifiers THEN belief
  ELSE IF code.up THEN belief \ {code.key} ELSE belief \cup {code.key}

ReadPort60 ==
  /\ ~active /\ guest = "read" /\ guest' = "ack"
  /\ belief' = Believes(current_scancode)
  /\ prefixed' = (current_scancode = Prefix)
  /\ unread' = FALSE
  /\ UNCHANGED <<hid, keyboard_queue, expired, current_scancode, irr1,
                 ctrl_down, alt_down, osd_requested, menu, excuse>>

Acknowledge ==
  /\ ~active /\ guest = "ack" /\ guest' = "program"
  /\ current_scancode' = None /\ expired' = FALSE
  /\ UNCHANGED <<hid, keyboard_queue, irr1, ctrl_down, alt_down,
                 osd_requested, menu, belief, prefixed, unread, excuse>>

(* Bit 6 of port 61h, a keyboard reset, or a byte written to port 60h,     *)
(* which interrupts nobody: the self-test code comes whatever the last     *)
(* deadline is.  Once, as it is an excuse (bound).                         *)
ResetKeyboard ==
  /\ ~active /\ guest = "program" /\ ~excuse
  /\ current_scancode' = SelfTest
  /\ \/ irr1' = TRUE /\ unread' = TRUE /\ belief' = {}
     \/ UNCHANGED <<irr1, unread, belief>>
  /\ excuse' = TRUE /\ expired' \in BOOLEAN
  /\ UNCHANGED <<hid, keyboard_queue, ctrl_down, alt_down,
                 osd_requested, menu, guest, prefixed>>

-----------------------------------------------------------------------------
ATick(c, due) == MainTick(c, due) \/ MenuTick(c, due)

Next ==
  \/ \E c \in Changes \cup {None}, due \in BOOLEAN : ATick(c, due)
  \/ Expire \/ OpenMenu \/ MenuTake
  \/ TakeIrq \/ ReadPort60 \/ Acknowledge \/ ResetKeyboard

(* Core 0 passes its loop again and again and time goes on.  Nothing is    *)
(* asked of the guest.                                                     *)
Spec == Init /\ [][Next]_vars
             /\ WF_vars(ATick(None, FALSE)) /\ WF_vars(Expire)
             /\ WF_vars(OpenMenu) /\ WF_vars(MenuTake)

-----------------------------------------------------------------------------
(* A code the guest was told of stays in port 60h until it is read, unless *)
(* the 50 ms ran out, the queue overflowed or the guest reset the keyboard *)
(* ("anything arriving faster than the guest's interrupt handler lost      *)
(* bytes", hid_app.c 340-344).                                             *)
CodesReachGuest ==
  [][unread /\ ~excuse' => current_scancode' = current_scancode]_vars

(* An extended key never goes down without its E0 ("the prefix             *)
(* vanishes and an arrow key turns into whatever", hid_app.c 344-347).     *)
PrefixKept ==
  [][guest = "read" /\ guest' = "ack" /\ ~excuse
     /\ current_scancode \in {Make(k) : k \in Extended} => prefixed]_vars

(* When everything is handed over and read, the guest takes no modifier to *)
(* be down that is up: not after the menu swallowed the releases either    *)
(* (osd.c 223-240).                                                        *)
GuestModifiersAgree ==
  ~active /\ ~osd_requested /\ keyboard_queue = <<>> /\ ~unread
    /\ guest = "program" /\ ~excuse => belief \subseteq prev_report

(* The key that repeats is a key that is held.                             *)
RepeatOnlyHeld == repeat_code # "none" => repeat_code \in prev_report

(* A guest that never acknowledges does not take the keyboard away: codes  *)
(* that wait are handed over again and again (hid_app.c 353-362).          *)
SomeHandOver == \E c \in Changes \cup {None}, due \in BOOLEAN :
                  HandOver(AddSequence(keyboard_queue, Queued(c, due)))
KeyboardGoesOn == []<>(keyboard_queue = <<>>) \/ []<><<SomeHandOver>>_vars
=============================================================================
