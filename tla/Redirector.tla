------------------------------ MODULE Redirector ------------------------------
(***************************************************************************)
(* Drive H: of the guest is a directory of the card.  A resident program   *)
(* (tools/dos/redir.asm) hooks INT 2Fh and hands the 8086's registers,     *)
(* word by word, to the window of chipset/redirector.c; core 0 serves the  *)
(* call from FatFs and sets `done'; the program takes the registers back.  *)
(*                                                                         *)
(* A word is a tag: the call it belongs to, and whether the firmware has   *)
(* written it since.  The two port accesses of one 16-bit IN or OUT are    *)
(* one bus cycle (core/ports.h 444-488) and one step.                      *)
(***************************************************************************)
EXTENDS Naturals, FiniteSets

CONSTANTS MaxOpenFiles,
          Sfts, NoSft,     \* DOS's System File Table entries
          Files, NoFile,
          Functions        \* what DOS asks of a redirector

AllFunctions == {"install", "info", "chdir", "attributes", "find", "open",
                 "close", "commit", "read", "other"}
OnFile == {"open", "close", "commit", "read"}

ASSUME RedirectorAssumption ==
  /\ MaxOpenFiles \in Nat \ {0}
  /\ NoSft \notin Sfts /\ NoFile \notin Files
  /\ Functions \subseteq AllFunctions

VARIABLES
  regs, slot,              \* the window
  pending, done, answer,
  redirector_reset_requested,
  sda_addr,                \* has it been told where DOS keeps its names
  open_used, open_files,   \* the handles, and the file each was opened on
  pc0,                     \* core 0 in redirector_task()
  code,                    \* what fail() leaves in AX
  guest,                   \* the resident program: where, in which call, and
                           \* how many words it has sent or taken
  frame, verdict,          \* the registers it hands back to DOS, and the flag
  dos,                     \* the file DOS believes each table entry has open
  sft_handle,              \* guest memory: SFT_FILE_HANDLE of each entry
  dta                      \* guest memory: the file last read into the DTA

window  == <<regs, slot, pending, done, answer>>
handles == <<open_used, open_files>>
guestVars == <<guest, frame, verdict, dos>>
memory  == <<sft_handle, dta>>
vars == <<window, redirector_reset_requested, sda_addr, handles, pc0, code,
          guestVars, memory>>

Handles  == 0 .. MaxOpenFiles - 1
NoHandle == MaxOpenFiles
Slots    == 0 .. 9
Returned == 0 .. 5      \* AX BX CX DX SI DI come back

NoCall == [fn |-> "none", sft |-> NoSft, file |-> NoFile]
Calls  == [fn : Functions \cap OnFile, sft : Sfts, file : Files]
          \cup [fn : Functions \ OnFile, sft : {NoSft}, file : {NoFile}]
Words  == [call : Calls \cup {NoCall}, part : {"asked", "answered"}]
Verdicts == {"ok", "error", "decline"}
Codes    == {"none", "not_found", "too_many_files", "invalid_handle"}

InCall == {"begin", "send", "exec", "wait", "recv", "flag", "return"}
Places == {"idle", "post", "boot"} \cup InCall

(* Which words of the window the function that gave this verdict wrote.    *)
Written(fn, v) ==
  IF v = "error" THEN {0}
  ELSE IF v = "decline" THEN {}
  ELSE CASE fn = "info"       -> {0, 1, 2, 3}
         [] fn = "attributes" -> {0, 1, 2, 3, 5}
         [] fn = "find"       -> {}
         [] fn = "read"       -> {0, 2}
         [] OTHER             -> {0}

Asked(c) == [call |-> c, part |-> "asked"]

TypeOK ==
  /\ regs \in [Slots -> Words] /\ slot \in 0 .. 10
  /\ pending \in BOOLEAN /\ done \in BOOLEAN /\ answer \in Verdicts
  /\ redirector_reset_requested \in BOOLEAN /\ sda_addr \in BOOLEAN
  /\ open_used \in [Handles -> BOOLEAN]
  /\ open_files \in [Handles -> Files \cup {NoFile}]
  /\ pc0 \in {"loop", "closing", "dispatch", "finish"}
  /\ code \in Codes
  /\ guest \in [at : Places, call : Calls \cup {NoCall}, n : 0 .. 10]
  /\ frame \in [Returned -> Words] /\ verdict \in Verdicts
  /\ dos \in [Sfts -> Files \cup {NoFile}]
  /\ sft_handle \in [Sfts -> Handles \cup {NoHandle}]
  /\ dta \in Files \cup {NoFile}

Init ==
  /\ regs = [s \in Slots |-> Asked(NoCall)] /\ slot = 0
  /\ pending = FALSE /\ done = FALSE /\ answer = "decline"
  /\ redirector_reset_requested = FALSE /\ sda_addr = FALSE
  /\ open_used = [h \in Handles |-> FALSE]
  /\ open_files = [h \in Handles |-> NoFile]
  /\ pc0 = "loop" /\ code = "none"
  /\ guest = [at |-> "idle", call |-> NoCall, n |-> 0]
  /\ frame = [s \in Returned |-> Asked(NoCall)] /\ verdict = "decline"
  /\ dos = [s \in Sfts |-> NoFile]
  /\ sft_handle = [s \in Sfts |-> NoHandle]
  /\ dta = NoFile

-----------------------------------------------------------------------------
(* The window, on core 1: redirector_write() and redirector_read().        *)

\* Mutation: BEGIN leaves the flag of the last call standing.
KeepDone == slot' = 0 /\ UNCHANGED <<regs, done, pending, answer>>

WriteBegin == slot' = 0 /\ done' = FALSE /\ UNCHANGED <<regs, pending, answer>>

\* Mutation: EXEC does not rewind to the first register.
ExecOnly == pending' = TRUE /\ UNCHANGED <<regs, slot, done, answer>>

WriteExec == slot' = 0 /\ pending' = TRUE /\ UNCHANGED <<regs, done, answer>>

WriteWord(w) ==
  /\ IF slot \in Slots
       THEN regs' = [regs EXCEPT ![slot] = w] /\ slot' = slot + 1
       ELSE UNCHANGED <<regs, slot>>
  /\ UNCHANGED <<pending, done, answer>>

ReadWord == slot' = slot + 1 /\ UNCHANGED <<regs, pending, done, answer>>
WordRead == IF slot \in Returned THEN regs[slot] ELSE Asked(NoCall)
FlagRead == IF slot = 6 THEN answer ELSE "decline"

-----------------------------------------------------------------------------
(* The guest.  Interrupts are off in the resident program, so its accesses *)
(* follow one another.                                                     *)

Firmware0 == <<redirector_reset_requested, sda_addr, handles, pc0, code>>

Goes(from, to, n) == /\ guest.at = from
                     /\ guest' = [guest EXCEPT !.at = to, !.n = n]

(* DOS opens into a free entry of its table, and closes or reads what it   *)
(* has open.  The program pushes the registers: they are its frame.        *)
Call ==
  /\ guest.at = "idle"
  /\ \E c \in Calls :
       /\ c.fn = "open" => dos[c.sft] = NoFile
       /\ c.fn \in OnFile \ {"open"} => dos[c.sft] = c.file
       /\ guest' = [at |-> "begin", call |-> c, n |-> 0]
       /\ frame' = [s \in Returned |-> Asked(c)]
  /\ UNCHANGED <<window, Firmware0, verdict, dos, memory>>

Begin ==
  /\ Goes("begin", "send", 0) /\ WriteBegin
  /\ UNCHANGED <<Firmware0, frame, verdict, dos, memory>>

Send ==
  /\ IF guest.n < 9 THEN Goes("send", "send", guest.n + 1)
                    ELSE Goes("send", "exec", 0)
  /\ WriteWord(Asked(guest.call))
  /\ UNCHANGED <<Firmware0, frame, verdict, dos, memory>>

Exec ==
  /\ Goes("exec", "wait", 0) /\ WriteExec
  /\ UNCHANGED <<Firmware0, frame, verdict, dos, memory>>

Poll ==
  /\ done /\ Goes("wait", "recv", 0)
  /\ UNCHANGED <<window, Firmware0, frame, verdict, dos, memory>>

Receive ==
  /\ IF guest.n < 5 THEN Goes("recv", "recv", guest.n + 1)
                    ELSE Goes("recv", "flag", 0)
  /\ frame' = [frame EXCEPT ![guest.n] = WordRead] /\ ReadWord
  /\ UNCHANGED <<Firmware0, verdict, dos, memory>>

ReceiveFlag ==
  /\ Goes("flag", "return", 0)
  /\ verdict' = FlagRead /\ ReadWord
  /\ UNCHANGED <<Firmware0, frame, dos, memory>>

(* The words and the verdict of a call that is over are dead, in the       *)
(* window and in the guest, and the model forgets them.                    *)
ForgetCall ==
  /\ regs' = [s \in Slots |-> Asked(NoCall)] /\ answer' = "decline"
  /\ verdict' = "decline" /\ code' = "none" /\ dta' = NoFile

(* DOS has its answer.                                                     *)
Return ==
  /\ guest.at = "return"
  /\ guest' = [at |-> "idle", call |-> NoCall, n |-> 0]
  /\ frame' = [s \in Returned |-> Asked(NoCall)]
  /\ dos' = CASE verdict = "ok" /\ guest.call.fn = "open" ->
                   [dos EXCEPT ![guest.call.sft] = guest.call.file]
              [] verdict = "ok" /\ guest.call.fn = "close" ->
                   [dos EXCEPT ![guest.call.sft] = NoFile]
              [] OTHER -> dos
  /\ ForgetCall
  /\ sft_handle' = [s \in Sfts |-> IF dos'[s] = NoFile THEN NoHandle
                                                       ELSE sft_handle[s]]
  /\ UNCHANGED <<slot, pending, done, redirector_reset_requested, sda_addr,
                 handles, pc0>>

(* The guest starts again: by itself between two calls, or because core 0, *)
(* in its console, pulses RESET (ui/console.h 434-437).                    *)
ResetGuest ==
  /\ guest.at \notin {"post", "boot"}
  /\ guest.at = "idle" \/ pc0 = "loop"
  /\ guest' = [at |-> "post", call |-> NoCall, n |-> 0]
  /\ frame' = [s \in Returned |-> Asked(NoCall)]
  /\ dos' = [s \in Sfts |-> NoFile]
  /\ UNCHANGED <<window, Firmware0, verdict, memory>>

(* POST initializes the interrupt controller; its ICW1 handler asks the    *)
(* drive to let go of its files.                                           *)
PostIcw1 ==
  /\ Goes("post", "boot", 0)
  /\ redirector_reset_requested' = TRUE
  /\ UNCHANGED <<window, sda_addr, handles, pc0, code, frame, verdict, dos,
                 memory>>

(* POST and the start of DOS take seconds: core 0 has been round.          *)
Boot ==
  /\ ~redirector_reset_requested /\ pc0 = "loop" /\ ~pending
  /\ Goes("boot", "idle", 0)
  /\ ForgetCall /\ sft_handle' = [s \in Sfts |-> NoHandle]
  /\ UNCHANGED <<slot, pending, done, redirector_reset_requested, sda_addr,
                 handles, pc0, frame, dos>>

Guest == \/ Call \/ Begin \/ Send \/ Exec \/ Poll \/ Receive \/ ReceiveFlag
         \/ Return \/ ResetGuest \/ PostIcw1 \/ Boot

-----------------------------------------------------------------------------
(* Core 0: redirector_task().                                              *)

NotServing == UNCHANGED <<guestVars, memory, sda_addr, code>>

TaskReset ==
  /\ pc0 = "loop" /\ redirector_reset_requested
  /\ redirector_reset_requested' = FALSE /\ pc0' = "closing"
  /\ UNCHANGED <<window, handles>> /\ NotServing

CloseOne == \E h \in Handles :
  /\ pc0 = "closing" /\ open_used[h]
  /\ open_used' = [open_used EXCEPT ![h] = FALSE]
  /\ open_files' = [open_files EXCEPT ![h] = NoFile]
  /\ UNCHANGED <<window, redirector_reset_requested, pc0>>
  /\ NotServing

\* Mutation: the closed handles stay marked as used.
ForgetToClose ==
  /\ pc0 = "closing"
  /\ pending' = FALSE /\ done' = FALSE /\ slot' = 0 /\ pc0' = "loop"
  /\ UNCHANGED <<regs, answer, redirector_reset_requested, handles>>
  /\ NotServing

(* The test of `pending' follows at once; a pass that finds it clear is a  *)
(* pass that did nothing.                                                  *)
ClearFlags ==
  /\ pc0 = "closing" /\ \A h \in Handles : ~open_used[h]
  /\ pending' = FALSE /\ done' = FALSE /\ slot' = 0 /\ pc0' = "loop"
  /\ UNCHANGED <<regs, answer, redirector_reset_requested, handles>>
  /\ NotServing

TakeRequest ==
  /\ pc0 = "loop" /\ ~redirector_reset_requested /\ pending
  /\ pending' = FALSE /\ answer' = "decline" /\ pc0' = "dispatch"
  /\ UNCHANGED <<regs, slot, done, redirector_reset_requested, handles>>
  /\ NotServing

(* The function is in AX, the table entry at ES:DI.  ok(), fail() and      *)
(* decline() set the answer and the words of the window.                   *)
Fn  == regs[0].call.fn
Sft == regs[5].call.sft

Result(v, e) ==
  /\ answer' = v /\ code' = e
  /\ regs' = [s \in Slots |-> IF s \in Written(Fn, v)
                                THEN [regs[s] EXCEPT !.part = "answered"]
                                ELSE regs[s]]

Serving(fns) == pc0 = "dispatch" /\ Fn \in fns /\ pc0' = "finish"
Elsewhere == UNCHANGED <<slot, pending, done, redirector_reset_requested,
                         guestVars>>

(* The resident program's own check brings the address in BX:DX; one that  *)
(* leaves them zero is answered too.                                       *)
fn_install_check ==
  /\ Serving({"install"}) /\ Result("ok", "none")
  /\ sda_addr' \in {sda_addr, TRUE}
  /\ UNCHANGED <<handles, memory>> /\ Elsewhere

(* The functions that look names up: chdir, get_attributes, find_first and *)
(* find_next, which open and close what they look at within the call.      *)
fn_lookup ==
  /\ Serving({"chdir", "attributes", "find"})
  /\ IF sda_addr THEN \/ Result("ok", "none")
                      \/ Result("error", "not_found")
                 ELSE Result("decline", "none")
  /\ UNCHANGED <<sda_addr, handles, memory>> /\ Elsewhere

fn_disk_info ==
  /\ Serving({"info"}) /\ Result("ok", "none")
  /\ UNCHANGED <<sda_addr, handles, memory>> /\ Elsewhere

Declined ==
  /\ Serving({"other", "none"}) /\ Result("decline", "none")
  /\ UNCHANGED <<sda_addr, handles, memory>> /\ Elsewhere

FreeHandles == {h \in Handles : ~open_used[h]}

FreeHandle == CHOOSE h \in FreeHandles : \A i \in FreeHandles : h <= i

OpenSucceeds ==
  /\ open_used' = [open_used EXCEPT ![FreeHandle] = TRUE]
  /\ open_files' = [open_files EXCEPT ![FreeHandle] = regs[0].call.file]
  /\ sft_handle' = [sft_handle EXCEPT ![Sft] = FreeHandle]
  /\ Result("ok", "none")

OpenFails(v, e) == Result(v, e) /\ UNCHANGED <<handles, sft_handle>>

fn_open ==
  /\ Serving({"open"})
  /\ IF ~sda_addr THEN OpenFails("decline", "none")
     ELSE IF FreeHandles = {} THEN OpenFails("error", "too_many_files")
     ELSE OpenSucceeds \/ OpenFails("error", "not_found")
  /\ UNCHANGED <<sda_addr, dta>> /\ Elsewhere

(* The handle is what the table entry in guest memory says it is.          *)
Valid(h) == h \in Handles /\ open_used[h]

\* Mutation: the file is closed but its handle stays marked as used.
CloseLeaks ==
  /\ Serving({"close", "commit"})
  /\ IF Valid(sft_handle[Sft]) THEN Result("ok", "none")
                               ELSE Result("error", "invalid_handle")
  /\ UNCHANGED <<sda_addr, handles, memory>> /\ Elsewhere

(* 06h closes; so does 07h, "commit: nothing buffered".                    *)
fn_close ==
  /\ Serving({"close", "commit"})
  /\ IF Valid(sft_handle[Sft])
       THEN /\ open_used' = [open_used EXCEPT ![sft_handle[Sft]] = FALSE]
            /\ open_files' = [open_files EXCEPT ![sft_handle[Sft]] = NoFile]
            /\ Result("ok", "none")
       ELSE Result("error", "invalid_handle") /\ UNCHANGED handles
  /\ UNCHANGED <<sda_addr, memory>> /\ Elsewhere

(* A buffer beyond RAM and an error of the card are the same answer.       *)
fn_read ==
  /\ Serving({"read"})
  /\ \/ /\ Valid(sft_handle[Sft])
        /\ dta' = open_files[sft_handle[Sft]] /\ Result("ok", "none")
     \/ Result("error", "invalid_handle") /\ UNCHANGED dta
  /\ UNCHANGED <<sda_addr, handles, sft_handle>> /\ Elsewhere

\* Mutation: a call that is declined returns before `done' is set.
FinishUnlessDeclined ==
  /\ pc0 = "finish" /\ done' = (answer # "decline") /\ pc0' = "loop"
  /\ UNCHANGED <<regs, slot, pending, answer, redirector_reset_requested,
                 handles>>
  /\ NotServing

Finish ==
  /\ pc0 = "finish" /\ done' = TRUE /\ pc0' = "loop"
  /\ UNCHANGED <<regs, slot, pending, answer, redirector_reset_requested,
                 handles>>
  /\ NotServing

Core0 == \/ TaskReset \/ CloseOne \/ ClearFlags \/ TakeRequest
         \/ fn_install_check \/ fn_lookup \/ fn_disk_info \/ Declined
         \/ fn_open \/ fn_close \/ fn_read \/ Finish

Next == Guest \/ Core0

(* The program goes on with a call it has begun; core 0 comes round.       *)
Fairness == /\ WF_vars(Core0)
            /\ WF_vars(Begin \/ Send \/ Exec \/ Poll \/ Receive \/ ReceiveFlag)

Spec == Init /\ [][Next]_vars /\ Fairness

-----------------------------------------------------------------------------
(* What the program takes back are the registers it sent, with the words   *)
(* its own call's function wrote and no other's, and its own verdict:      *)
(* whatever reset, leftover answer or unfinished call came before.         *)
CallGetsOwnAnswer ==
  guest.at = "return" =>
    /\ verdict = answer
    /\ \A s \in Returned :
         frame[s] = [call |-> guest.call,
                     part |-> IF s \in Written(guest.call.fn, verdict)
                                THEN "answered" ELSE "asked"]

(* Between two calls the handles in use are those of the files DOS has     *)
(* open, one each and on the right file: none leaks, over reboots either,  *)
(* and none is shared.                                                     *)
HandlesOwned ==
  guest.at = "idle" =>
    LET Open == {s \in Sfts : dos[s] # NoFile}
    IN /\ \A s \in Open : /\ Valid(sft_handle[s])
                          /\ open_files[sft_handle[s]] = dos[s]
       /\ \A s, t \in Open : sft_handle[s] = sft_handle[t] => s = t
       /\ \A h \in Handles : open_used[h] => \E s \in Open : sft_handle[s] = h

(* What a read brought came from the file DOS has open there.              *)
ReadsOwnFile ==
  guest.at = "return" /\ guest.call.fn = "read" /\ verdict = "ok" =>
    dta = guest.call.file

(* The program, which waits with interrupts off, gets an answer.           *)
CallReturns == guest.at = "wait" ~> guest.at \in {"return", "post"}

NoReply == [verdict |-> "none", code |-> "none", from |-> NoFile]
Replies == [verdict : Verdicts, code : Codes, from : Files \cup {NoFile}]

Drive == INSTANCE RemoteDrive WITH
  held    <- dos,
  request <- guest.call,
  reply   <- IF done /\ pc0 = "loop" /\ guest.at \in {"wait", "recv", "flag", "return"}
               THEN [verdict |-> IF guest.at = "return" THEN verdict ELSE answer,
                     code |-> code,
                     from |-> IF guest.call.fn = "read" THEN dta ELSE NoFile]
               ELSE NoReply

(* Redirector keeps the promises of RemoteDrive.                           *)
ImplementsRemoteDrive == Drive!Init /\ [][Drive!Next(Replies)]_Drive!vars
=============================================================================
