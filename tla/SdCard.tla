-------------------------------- MODULE SdCard --------------------------------
(***************************************************************************)
(* The memory card driver under FatFs (drivers/sdcard/sdcard.c): SPI       *)
(* commands, responses and data blocks, a time-out on every wait.  FatFs   *)
(* calls it one call at a time (FatFs lock).  The card is external: it     *)
(* answers, refuses or keeps silent; it drops a block that nobody clocks   *)
(* out; it can be pulled and another one pushed in at any time, which the  *)
(* driver is not told.                                                     *)
(***************************************************************************)
EXTENDS Naturals, Sequences

CONSTANTS
  Kinds,        \* the cards there are, of AllKinds
  Size,         \* sectors of a card
  BlockBytes,   \* 512
  MaxCount,     \* bound: sectors of a call (1..128 in the code)
  MaxCalls, MaxPulls   \* bounds

AllKinds == {"mmc", "sd1", "sd2", "sdhc"}

SdAssumption ==
  /\ Kinds \subseteq AllKinds
  /\ Size \in Nat /\ BlockBytes \in Nat \ {0, 1} /\ MaxCount \in Nat \ {0}
  /\ MaxCalls \in Nat /\ MaxPulls \in Nat

VARIABLES
  kind, contents,    \* the card
  power,             \* off: it has not seen CMD0; idle; ready
  mode, at,          \* the transfer it is in, and the next sector of it
  Stat, CardType,    \* the driver: STA_NOINIT, and how the card is addressed
  pc, request, moved, outcome,
  void,              \* history: the card was exchanged during this call
  missed,            \* history: the card is in a transfer whose start it did
                     \* not get to confirm, whose only block was never sent,
                     \* or whose end it did not take
  calls, pulls

card   == <<kind, contents, power, mode, at>>
driver == <<Stat, CardType>>
call   == <<pc, request, moved, outcome>>
bounds == <<calls, pulls>>
vars == <<card, driver, call, void, missed, bounds>>

Old(n)    == <<"old", n>>
Source(n) == <<"new", n>>
NoRequest == [cmd |-> "none", start |-> 0, count |-> 0]
Requests  == [cmd : {"read", "write"}, start : 0 .. Size - 1, count : 1 .. MaxCount]
Initial   == {"cmd0", "cmd8", "acmd41", "cmd58", "op_cond", "cmd16"}

TypeOK ==
  /\ kind \in Kinds /\ Len(contents) = Size
  /\ power \in {"off", "idle", "ready"}
  /\ mode \in {"tran", "read", "write"} /\ at \in Nat
  /\ Stat \in {"ok", "noinit"} /\ CardType \in {"none", "byte", "block"}
  /\ (Stat = "ok" <=> CardType # "none")
  /\ pc \in {"idle", "command", "block", "stop", "return", "failing"}
           \cup Initial
  /\ request \in Requests \cup {NoRequest}
  /\ Len(moved) <= request.count
  /\ outcome \in {"none", "ok", "failed"}
  /\ void \in BOOLEAN /\ missed \in BOOLEAN
  /\ calls \in 0 .. MaxCalls /\ pulls \in 0 .. MaxPulls

Init ==
  /\ kind \in Kinds /\ contents = [n \in 1 .. Size |-> Old(n)] /\ power = "off"
  /\ mode = "tran" /\ at = 0
  /\ Stat = "noinit" /\ CardType = "none"
  /\ pc = "idle" /\ request = NoRequest /\ moved = <<>> /\ outcome = "none"
  /\ void = FALSE /\ missed = FALSE /\ calls = 0 /\ pulls = 0

-----------------------------------------------------------------------------
(* disk_initialize(): CMD0, CMD8; a card that knows CMD8 gets ACMD41 and   *)
(* then CMD58, any other one ACMD41 or CMD1 and then CMD16.                *)

InitializeCall ==
  /\ pc = "idle" /\ pc' = "cmd0"
  /\ calls < MaxCalls /\ calls' = calls + 1
  /\ UNCHANGED <<card, driver, request, moved, outcome, void, missed, pulls>>

Version2 == kind \in {"sd2", "sdhc"}

After(step) ==
  CASE step = "cmd0"    -> "cmd8"
    [] step = "cmd8"    -> IF Version2 THEN "acmd41" ELSE "op_cond"
    [] step = "acmd41"  -> "cmd58"
    [] step = "op_cond" -> "cmd16"

(* CMD0 puts the card into its idle state, and only then does it answer    *)
(* the rest; ACMD41 and CMD1 are repeated until it is ready.               *)
InitStep ==
  /\ pc \in Initial \ {"cmd58", "cmd16"}
  /\ pc = "cmd0" \/ power # "off"
  /\ pc' = After(pc)
  /\ power' = IF pc \in {"acmd41", "op_cond"} THEN "ready" ELSE "idle"
  /\ mode' = IF pc = "cmd0" THEN "tran" ELSE mode
  /\ missed' = (missed /\ pc # "cmd0")
  /\ UNCHANGED <<kind, contents, at, driver, request, moved, outcome, void,
                 bounds>>

InitDone ==
  /\ pc \in {"cmd58", "cmd16"} /\ power = "ready"
  /\ pc' = "idle" /\ Stat' = "ok"
  /\ CardType' = IF pc = "cmd58" /\ kind = "sdhc" THEN "block" ELSE "byte"
  /\ UNCHANGED <<card, request, moved, outcome, void, missed, bounds>>

InitFail ==          \* no or a wrong answer, or the second is over
  /\ pc \in Initial
  /\ pc' = "idle" /\ Stat' = "noinit" /\ CardType' = "none"
  /\ UNCHANGED <<card, request, moved, outcome, void, missed, bounds>>

-----------------------------------------------------------------------------
(* disk_read(), disk_write().                                              *)

Call(r) ==
  /\ pc = "idle" /\ calls < MaxCalls /\ calls' = calls + 1
  /\ request' = r /\ outcome' = "none"
  /\ pc' = IF Stat = "noinit" THEN "failing" ELSE "command"
  /\ UNCHANGED <<card, driver, moved, void, missed, pulls>>

\* Mutation: the sector number is passed to every card as it is.
SectorNumber(sector) == sector
Address(sector) == IF CardType = "block" THEN sector ELSE sector * BlockBytes

(* The card takes the address in its own unit.                             *)
Sector(address) == IF kind = "sdhc" THEN address ELSE address \div BlockBytes

Multiple == request.count > 1

(* CMD17, 18, 24, 25.                                                      *)
Taken ==
  /\ pc = "command" /\ power = "ready" /\ mode = "tran"
  /\ mode' = request.cmd
  /\ at' = Sector(Address(request.start))
  /\ UNCHANGED <<kind, contents, power, driver, request, moved, outcome, void,
                 bounds>>

Command == Taken /\ pc' = "block" /\ UNCHANGED missed

(* The card has taken the command, but its response is lost: the driver    *)
(* gives up and ends nothing.                                              *)
ResponseLost ==
  /\ Taken /\ (Multiple \/ request.cmd = "write")
  /\ pc' = "failing" /\ missed' = TRUE

(* Not taken; or a single read, whose block nobody clocks out.             *)
Refused ==
  /\ pc = "command" /\ pc' = "failing"
  /\ UNCHANGED <<card, driver, request, moved, outcome, void, missed, bounds>>

(* After a block: the next one, CMD12 or the stop token, or the end.       *)
Then(n) == IF n < request.count THEN "block" ELSE IF Multiple THEN "stop" ELSE "return"
ModeAfter == IF Multiple THEN mode ELSE "tran"

ReadBlock ==
  /\ pc = "block" /\ mode = "read" /\ power = "ready" /\ at < Size
  /\ moved' = Append(moved, contents[at + 1])
  /\ at' = at + 1 /\ mode' = ModeAfter /\ pc' = Then(Len(moved) + 1)
  /\ UNCHANGED <<kind, contents, power, driver, request, outcome, void, missed, bounds>>

WriteBlock ==
  /\ pc = "block" /\ mode = "write" /\ power = "ready" /\ at < Size
  /\ contents' = [contents EXCEPT ![at + 1] = Source(Len(moved))]
  /\ moved' = Append(moved, Source(Len(moved)))
  /\ at' = at + 1 /\ mode' = ModeAfter /\ pc' = Then(Len(moved) + 1)
  /\ UNCHANGED <<kind, power, driver, request, outcome, void, missed, bounds>>

(* No token in 200 ms, an error token, or a block that is not accepted --  *)
(* or whose acceptance is lost, or, of a single write, that is never sent. *)
BlockFails ==
  /\ pc = "block"
  /\ pc' = IF Multiple THEN "stop" ELSE "return"
  /\ \/ /\ mode = "write" /\ power = "ready" /\ at < Size
        /\ contents' = [contents EXCEPT ![at + 1] = Source(Len(moved))]
        /\ mode' = ModeAfter /\ UNCHANGED missed
     \/ mode' = ModeAfter /\ UNCHANGED <<contents, missed>>
     \/ mode = "write" /\ ~Multiple /\ missed' = TRUE /\ UNCHANGED <<contents, mode>>
  /\ UNCHANGED <<kind, power, at, driver, request, moved, outcome, void, bounds>>

\* Mutation: a transfer is not ended when one of its blocks fails.
StopsOnlyWhole == Len(moved) = request.count
StopSent == TRUE

(* CMD12 or the stop token, whether the blocks went well or not.  FatFs is *)
(* told of a stop token that was not taken, not of a CMD12.                *)
Stop ==
  /\ pc = "stop"
  /\ \/ mode' = (IF StopSent THEN "tran" ELSE mode) /\ pc' = "return"
        /\ UNCHANGED missed
     \/ /\ missed' = (mode # "tran") /\ UNCHANGED mode
        /\ pc' = IF request.cmd = "write" THEN "failing" ELSE "return"
  /\ UNCHANGED <<kind, contents, power, at, driver, request, moved, outcome,
                 void, bounds>>

Return ==
  /\ pc \in {"return", "failing"} /\ pc' = "idle"
  /\ outcome' = IF pc = "return" /\ Len(moved) = request.count THEN "ok" ELSE "failed"
  /\ request' = NoRequest /\ moved' = <<>> /\ void' = FALSE
  /\ UNCHANGED <<card, driver, missed, bounds>>

(* Another card is pushed in.  Nothing tells the driver.                   *)
Pull ==
  /\ pulls < MaxPulls /\ pulls' = pulls + 1
  /\ kind' \in Kinds /\ contents' = [n \in 1 .. Size |-> <<"other", n>>]
  /\ power' = "off" /\ mode' = "tran"
  /\ void' = (request # NoRequest) /\ missed' = FALSE
  /\ UNCHANGED <<at, driver, call, calls>>

Next ==
  \/ InitializeCall \/ InitStep \/ InitDone \/ InitFail
  \/ \E r \in Requests : Call(r)
  \/ Command \/ ResponseLost \/ Refused \/ ReadBlock \/ WriteBlock \/ BlockFails \/ Stop
  \/ Return \/ Pull

Spec == Init /\ [][Next]_vars

-----------------------------------------------------------------------------
(* FatFs gets the sectors it asked for, from where it asked, or is told of *)
(* a failure; and a write changes nothing else.                            *)
Disk == INSTANCE SectorDisk WITH
          Disks  <- {[n \in 1 .. Size |-> Old(n)]},
          disk   <- contents,
          mounts <- pulls
ImplementsSectorDisk == Disk!Spec

(* Between two calls the card is not inside a transfer, also when the      *)
(* transfer failed.  Excepted is the transfer in which the fault itself    *)
(* kept the driver from ending it: the response to its start was lost, the *)
(* block of a single write could not be sent, or the card did not take its *)
(* end.  Nothing is excepted any more once the card is back: every later   *)
(* transfer must again be ended.                                           *)
CardLeftReady == pc = "idle" => mode = "tran" \/ missed
=============================================================================
