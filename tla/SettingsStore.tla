----------------------------- MODULE SettingsStore -----------------------------
(***************************************************************************)
(* What the settings promise to whoever changes them: they are what was    *)
(* last saved, or the defaults when nothing was; SETUP changes them one at *)
(* a time, to a value of their own, and either keeps every change or takes *)
(* every one back; the drives of the running machine are the ones they     *)
(* name; and the power may fail at any moment, at which a save that was    *)
(* not finished leaves nothing.  Setup implements this specification.      *)
(***************************************************************************)
CONSTANTS Settings,      \* functions
          Choices,       \* of every setting, the values it may be given
          Defaults, Nothing,
          Cards,         \* cards, with "none" for no card in the slot
          Writable,      \* those of them that settings can be saved on
          Disks(_, _)    \* the disks a card and the settings give the machine

VARIABLES phase,         \* "off", "setup", "running" or "menu"
          card,          \* the one the machine was switched on with
          current,       \* the settings
          entered,       \* what they were when SETUP began
          saved,         \* what is on the card
          inserted       \* the disks the machine has

vars == <<phase, card, current, entered, saved, inserted>>

Init == /\ phase = "off" /\ card = "none"
        /\ current = Defaults /\ entered = Defaults
        /\ saved \in Settings \cup {Nothing}
        /\ inserted = Disks("none", Defaults)

SwitchOn ==
  /\ phase = "off" /\ phase' = "setup" /\ card' \in Cards
  /\ current' = IF card' \in Writable /\ saved # Nothing THEN saved ELSE Defaults
  /\ entered' = current'
  /\ UNCHANGED <<saved, inserted>>

Change ==
  /\ phase \in {"setup", "menu"}
  /\ \E f \in DOMAIN Choices : \E v \in Choices[f] :
       current' = [current EXCEPT ![f] = v]
  /\ UNCHANGED <<phase, card, entered, saved, inserted>>

TakeBack == /\ phase = "setup" /\ current' = entered
            /\ UNCHANGED <<phase, card, entered, saved, inserted>>

Saving == /\ phase \in {"setup", "menu"} /\ card \in Writable
          /\ saved' \in {Nothing, current}
          /\ UNCHANGED <<phase, card, current, entered, inserted>>

(* With a card, changes that are kept are saved ones, or the card failed.  *)
Run == /\ phase \in {"setup", "menu"} /\ phase' = "running"
       /\ card \in Writable => current \in {entered, saved} \/ saved = Nothing
       /\ inserted' = Disks(card, current)
       /\ UNCHANGED <<card, current, entered, saved>>

OpenMenu == /\ phase = "running" /\ phase' = "menu" /\ entered' = current
            /\ UNCHANGED <<card, current, saved, inserted>>

SwitchOff == /\ phase' = "off" /\ card' = "none"
             /\ current' = Defaults /\ entered' = Defaults
             /\ inserted' = Disks("none", Defaults)
             /\ UNCHANGED saved

Next == \/ SwitchOn \/ Change \/ TakeBack \/ Saving \/ Run \/ OpenMenu
        \/ SwitchOff

Spec == Init /\ [][Next]_vars
=============================================================================
