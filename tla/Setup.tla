-------------------------------- MODULE Setup --------------------------------
(***************************************************************************)
(* The settings: their file on the card, SETUP before the machine starts   *)
(* (ui/setup_menu.c), the drive menu while it is stopped (ui/osd.c), the   *)
(* browser both pick an image with, and the boot that puts them to use     *)
(* (app/main.c).                                                           *)
(*                                                                         *)
(* The rows the bar moves over and the window a list scrolls in are left   *)
(* out: the keys choose among everything a screen offers.  A path is a     *)
(* value; a directory is a sequence of entries, each with the path it      *)
(* leads to.  The settings are the drives and two of the switches.         *)
(***************************************************************************)
EXTENDS Naturals, Sequences, FiniteSets

CONSTANTS
  Drives,        \* the rows of the drive menu
  Defaults,      \* the settings the firmware is built with
  Images,        \* paths of images on some card
  Tree,          \* of every card, the directories and what is in them
  Home,          \* the directory /XT
  Root,          \* the directory /
  DirOf,         \* the directory of every path the settings can name
  MaxFiles,      \* BROWSER_MAX_FILES, 50 in the code
  MaxChanges, MaxBoots

Version    == 5      \* SETTINGS_VERSION
VersionMin == 3      \* SETTINGS_VERSION_MIN
Empty   == ""        \* no image
Nothing == [nothing |-> TRUE]   \* no settings that could be read

Cards  == DOMAIN Tree
Switch == {"sound", "vga"}

VARIABLES
  phase,       \* where core 0 is
  card,        \* the card the machine was switched on with
  settings,
  backup,      \* SETUP's copy
  changed,     \* the drive menu's
  browse,      \* the browser: for whom, which drive, in which directory
  file,        \* /XT/xt8086.cfg: what of the structure it holds, in order
  mounted,     \* the images the drives were opened on
  saved,       \* what was saved last: the reference
  changes, boots

vars == <<phase, card, settings, backup, changed, browse, file, mounted,
          saved, changes, boots>>

-----------------------------------------------------------------------------
(* The file.                                                               *)

Paths == Images \cup {Empty}

Record(paths, sound, vga) ==
  [f \in Drives \cup Switch |->
     IF f \in Drives THEN paths[f] ELSE IF f = "sound" THEN sound ELSE vga]

Settings == {Record(paths, sound, vga) :
               paths \in [Drives -> Paths], sound \in {0, 1}, vga \in {0, 1}}

(* The file of version 4 ends in padding, zeros: VGA is off by default.    *)
SetupAssumption ==
  /\ Defaults \in Settings /\ Defaults["vga"] = 0
  /\ Drives \cap (Switch \cup {"nothing"}) = {}
  /\ "none" \in Cards /\ DOMAIN Tree["none"] = {}
  /\ \A c \in Cards : DOMAIN Tree[c] \subseteq {Home, Root}
  /\ \A c \in Cards : \A d \in DOMAIN Tree[c] : \A i \in DOMAIN Tree[c][d] :
       /\ Tree[c][d][i].kind \in {"dir", "image", "other"}
       /\ Tree[c][d][i].kind = "image" => Tree[c][d][i].path \in Images
  /\ MaxFiles \in Nat \ {0} /\ MaxChanges \in Nat /\ MaxBoots \in Nat

PathsOf(s) == [d \in Drives |-> s[d]]

(* Sound came with version 4, in front of what then was padding; VGA took  *)
(* the place of the padding with version 5.                                *)
Layout(version, s) ==
  CASE version < 4 -> <<version, PathsOf(s)>>
    [] version = 4 -> <<version, PathsOf(s), s["sound"], 0>>
    [] OTHER       -> <<version, PathsOf(s), s["sound"], s["vga"]>>

(* Only a card with the directory holds the file.                          *)
Keeps(c) == Home \in DOMAIN Tree[c]

\* Mutation: what the file lacks is zero.
ReadZero(f, i) == IF i <= Len(f) THEN f[i] ELSE 0
Read(f, i) == IF i <= Len(f) THEN f[i] ELSE Layout(Version, Defaults)[i]

Readable(f) == Len(f) >= 2 /\ Read(f, 1) \in VersionMin .. Version

load_settings(c, f) ==
  IF Keeps(c) /\ Readable(f) THEN Record(Read(f, 2), Read(f, 3), Read(f, 4))
  ELSE Defaults

(* The images that can be opened, of those the settings name.              *)
IsIn(path, c) ==
  \E d \in DOMAIN Tree[c] : \E i \in DOMAIN Tree[c][d] :
    Tree[c][d][i] = [kind |-> "image", path |-> path]

Disks(c, s) == [d \in Drives |-> IF IsIn(s[d], c) THEN s[d] ELSE Empty]

-----------------------------------------------------------------------------
(* Switching on and off.                                                   *)

NotBrowsing == [for |-> "none"]

(* What a firmware of some version may have left on the card.              *)
Init ==
  /\ phase = "off" /\ card = "none"
  /\ settings = Defaults /\ backup = Defaults /\ changed = FALSE
  /\ browse = NotBrowsing /\ mounted = Disks("none", Defaults)
  /\ changes = 0 /\ boots = 0
  /\ \E s \in Settings, version \in 2 .. Version + 1 :
       /\ file = Layout(version, s)
       /\ saved = IF version \in VersionMin .. Version
                  THEN [s EXCEPT
                    !["sound"] = IF version < 4 THEN Defaults["sound"] ELSE @,
                    !["vga"]   = IF version < 5 THEN Defaults["vga"] ELSE @]
                  ELSE Nothing

PowerOn(c, wants_setup) ==
  /\ phase = "off" /\ boots < MaxBoots /\ boots' = boots + 1
  /\ card' = c
  /\ settings' = load_settings(c, file) /\ backup' = settings'
  /\ phase' = IF wants_setup THEN "setup" ELSE "leaving"
  /\ UNCHANGED <<changed, browse, file, mounted, saved, changes>>

PowerOff ==
  /\ phase # "off" /\ phase' = "off" /\ card' = "none"
  /\ settings' = Defaults /\ backup' = Defaults /\ changed' = FALSE
  /\ browse' = NotBrowsing /\ mounted' = Disks("none", Defaults)
  /\ UNCHANGED <<file, saved, changes, boots>>

Count == changes < MaxChanges /\ changes' = changes + 1

-----------------------------------------------------------------------------
(* SETUP.                                                                  *)

cycle_array(f) ==
  /\ phase = "setup" /\ Count
  /\ \E dir \in {1, 3} : settings' = [settings EXCEPT ![f] = (@ + dir) % 2]
  /\ UNCHANGED <<phase, card, backup, changed, browse, file, mounted, saved,
                 boots>>

(* DEL, in SETUP and in the drive menu.                                    *)
Eject(d) ==
  /\ phase \in {"setup", "menu"} /\ Count
  /\ settings' = [settings EXCEPT ![d] = Empty]
  /\ changed' = (changed \/ phase = "menu")
  /\ UNCHANGED <<phase, card, backup, browse, file, mounted, saved, boots>>

Discard ==
  /\ phase = "setup"
  /\ settings' = backup /\ phase' = "leaving"
  /\ UNCHANGED <<card, backup, changed, browse, file, mounted, saved,
                 changes, boots>>

-----------------------------------------------------------------------------
(* The browser.                                                            *)

(* It starts where the selection is; a directory that cannot be opened is  *)
(* the root instead.                                                       *)
Opened(d) == IF d \in DOMAIN Tree[card] THEN d ELSE Root
StartDir(path) ==
  IF path # Empty /\ DirOf[path] # Root THEN DirOf[path] ELSE Home

Browse(d) ==
  /\ phase \in {"setup", "menu"}
  /\ browse' = [for |-> phase, drive |-> d,
                dir |-> Opened(StartDir(settings[d]))]
  /\ phase' = "browser"
  /\ UNCHANGED <<card, settings, backup, changed, file, mounted, saved,
                 changes, boots>>

(* Eject, up, and what comes first in the directory of what is shown.      *)
Listed(dir) ==
  LET entries == IF dir \in DOMAIN Tree[card] THEN Tree[card][dir] ELSE <<>>
      up    == IF dir = Root THEN {} ELSE {[kind |-> "dir", path |-> Root]}
      shown == {i \in DOMAIN entries : entries[i].kind # "other"}
      room(i) == Cardinality({j \in shown : j < i})
                   + Cardinality(up) + 1 < MaxFiles
  IN {[kind |-> "eject", path |-> Empty]} \cup up
       \cup {entries[i] : i \in {j \in shown : room(j)}}

BackTo == /\ phase' = browse.for /\ browse' = NotBrowsing

Enter(e) ==
  /\ e.kind = "dir"
  /\ browse' = [browse EXCEPT !.dir = Opened(e.path)]
  /\ UNCHANGED <<phase, card, settings, backup, changed, file, mounted, saved,
                 changes, boots>>

Pick(e) ==
  /\ Count
  /\ e.kind \in {"eject", "image"}
  /\ settings' = [settings EXCEPT ![browse.drive] = e.path]
  /\ changed' = (changed \/ browse.for = "menu")
  /\ BackTo
  /\ UNCHANGED <<card, backup, file, mounted, saved, boots>>

Cancel ==
  /\ phase = "browser" /\ BackTo
  /\ UNCHANGED <<card, settings, backup, changed, file, mounted, saved,
                 changes, boots>>

-----------------------------------------------------------------------------
(* Saving, and the start of the machine.                                   *)

(* The file is emptied when it is opened.                                  *)
OpenFile ==
  /\ IF Keeps(card) THEN phase' = "opened" /\ file' = <<>> /\ saved' = Nothing
                    ELSE phase' = "leaving" /\ UNCHANGED <<file, saved>>
  /\ UNCHANGED <<card, settings, backup, changed, browse, mounted, changes,
                 boots>>

SaveAndExit == phase = "setup" /\ OpenFile
SaveChanges == phase = "menu" /\ changed /\ OpenFile

(* All of it, or no more than a sector: the paths are longer than one.     *)
WriteFile ==
  /\ phase = "opened" /\ phase' = "leaving"
  /\ \/ file' = Layout(Version, settings) /\ saved' = settings
     \/ file' \in {<<>>, <<Version>>} /\ UNCHANGED saved
  /\ UNCHANGED <<card, settings, backup, changed, browse, mounted, changes,
                 boots>>

media_reload ==
  /\ phase = "leaving" /\ phase' = "running"
  /\ mounted' = Disks(card, settings) /\ changed' = FALSE
  /\ UNCHANGED <<card, settings, backup, browse, file, saved, changes, boots>>

OpenMenu ==
  /\ phase = "running" /\ phase' = "menu"
  /\ changed' = FALSE /\ backup' = settings
  /\ UNCHANGED <<card, settings, browse, file, mounted, saved, changes, boots>>

CloseMenu ==
  /\ phase = "menu" /\ ~changed /\ phase' = "running"
  /\ UNCHANGED <<card, settings, backup, changed, browse, file, mounted,
                 saved, changes, boots>>

Next ==
  \/ \E c \in Cards, wants_setup \in BOOLEAN : PowerOn(c, wants_setup)
  \/ PowerOff
  \/ \E f \in Switch : cycle_array(f)
  \/ \E d \in Drives : Eject(d) \/ Browse(d)
  \/ Discard
  \/ /\ phase = "browser"
     /\ \E e \in Listed(browse.dir) : Enter(e) \/ Pick(e)
  \/ Cancel
  \/ SaveAndExit \/ SaveChanges \/ WriteFile
  \/ media_reload \/ OpenMenu \/ CloseMenu

Spec == Init /\ [][Next]_vars

-----------------------------------------------------------------------------
TypeOK ==
  /\ phase \in {"off", "setup", "browser", "menu", "opened", "leaving",
                "running"}
  /\ card \in Cards
  /\ settings \in Settings /\ backup \in Settings /\ changed \in BOOLEAN
  /\ browse \in {NotBrowsing}
                \cup [for : {"setup", "menu"}, drive : Drives,
                       dir : {Home, Root}]
  /\ file \in {<<>>, <<Version>>}
              \cup {Layout(version, s) :
                      version \in 2 .. Version + 1, s \in Settings}
  /\ mounted \in [Drives -> Paths]
  /\ saved \in Settings \cup {Nothing}
  /\ changes \in 0 .. MaxChanges /\ boots \in 0 .. MaxBoots

(* In SETUP and in the drive menu the machine does not run; the browser is *)
(* part of the one it was opened from, and a save of both.                 *)
Phase ==
  CASE phase = "browser" -> browse.for
    [] phase \in {"opened", "leaving"} ->
         IF changed THEN "menu" ELSE "setup"
    [] OTHER -> phase

Choices == [f \in Drives \cup Switch |-> IF f \in Drives THEN Paths ELSE {0, 1}]

Store == INSTANCE SettingsStore WITH
           Writable <- {c \in Cards : Keeps(c)},
           phase <- Phase, current <- settings, entered <- backup,
           inserted <- mounted

(* setup_menu.c, osd.c: whatever is edited, discarded, browsed and saved,  *)
(* whatever version of the firmware wrote the file, and wherever the power *)
(* fails, the settings are what SettingsStore promises.                    *)
ImplementsSettingsStore == Store!Spec
=============================================================================
