-------------------------- MODULE Redirector_proofs --------------------------
(***************************************************************************)
(* Redirector for any number of handles, table entries and files: a call's *)
(* own answer comes back, and between calls DOS and the firmware agree on  *)
(* the handles.  The invariant says which of guest and core 0 has the turn *)
(* and what the window holds in each phase of a call.                      *)
(***************************************************************************)
EXTENDS Redirector, FiniteSetTheorems, WellFoundedInduction, TLAPS

(* Who has the turn.  A call is in one place at a time; after a reset an   *)
(* old one may still be served, and is over before the guest has booted.   *)
TurnInv ==
  /\ redirector_reset_requested \/ pc0 = "closing" => guest.at = "boot"
  /\ pc0 \in {"dispatch", "finish"} => ~pending
  /\ guest.at \in {"idle", "begin", "send", "exec"} =>
       pc0 = "loop" /\ ~pending
  /\ guest.at \in {"send", "exec"} => ~done
  /\ guest.at = "wait" =>
       \/ pc0 = "loop" /\ pending # done
       \/ pc0 \in {"dispatch", "finish"} /\ ~done
  /\ guest.at \in {"recv", "flag", "return"} =>
       pc0 = "loop" /\ ~pending /\ done

Served == \/ guest.at = "wait" /\ (pc0 = "finish" \/ done)
          \/ guest.at \in {"recv", "flag", "return"}

(* A word as the function that gave this verdict leaves it.                *)
Left(c, v, s) ==
  [call |-> c, part |-> IF s \in Written(c.fn, v) THEN "answered" ELSE "asked"]

(* What the window holds, and how far the program is with it.              *)
WindowInv ==
  /\ guest.at \in {"idle", "post", "boot"} <=> guest.call = NoCall
  /\ guest.at \in InCall => guest.call \in Calls
  /\ guest.at = "send" =>
       /\ guest.n \in 0 .. 9 /\ slot = guest.n
       /\ \A s \in Slots : s < guest.n => regs[s] = Asked(guest.call)
  /\ guest.at = "exec" \/ (guest.at = "wait" /\ ~Served) =>
       \A s \in Slots : regs[s] = Asked(guest.call)
  /\ Served => \A s \in Slots : regs[s] = Left(guest.call, answer, s)
  /\ pending \/ pc0 = "dispatch" =>
       \E c \in Calls : \A s \in Slots : regs[s] = Asked(c)

(* The registers that have come back.                                      *)
FrameInv ==
  /\ guest.at = "recv" =>
       /\ guest.n \in Returned /\ slot = guest.n
       /\ \A s \in Returned : s < guest.n => frame[s] = regs[s]
  /\ guest.at = "wait" => slot = 0
  /\ guest.at = "flag" => slot = 6
  /\ guest.at \in {"flag", "return"} =>
       \A s \in Returned : frame[s] = regs[s]
  /\ guest.at = "return" => verdict = answer

(* DOS opens into a free entry, and closes or reads what it has open.      *)
ProperInv ==
  guest.at \in InCall =>
    /\ guest.call.fn = "open" => dos[guest.call.sft] = NoFile
    /\ guest.call.fn \in OnFile \ {"open"} =>
         dos[guest.call.sft] = guest.call.file

(* The files DOS will have open when it has its answer.                    *)
After ==
  IF Served /\ answer = "ok" /\ guest.call.fn = "open"
    THEN [dos EXCEPT ![guest.call.sft] = guest.call.file]
    ELSE IF Served /\ answer = "ok" /\ guest.call.fn = "close"
           THEN [dos EXCEPT ![guest.call.sft] = NoFile]
           ELSE dos

Owned(table) ==
  /\ \A s \in Sfts : table[s] # NoFile =>
       Valid(sft_handle[s]) /\ open_files[sft_handle[s]] = table[s]
  /\ \A s, t \in Sfts :
       table[s] # NoFile /\ table[t] # NoFile
         /\ sft_handle[s] = sft_handle[t] => s = t
  /\ \A h \in Handles : open_used[h] =>
       \E s \in Sfts : table[s] # NoFile /\ sft_handle[s] = h

(* The handles are those of DOS's files, from the moment a function has    *)
(* set them; a reset closes them all before DOS is there again.            *)
HandleInv ==
  /\ guest.at \notin {"post", "boot"} => Owned(After)
  /\ guest.at = "boot" /\ ~redirector_reset_requested =>
       \/ pc0 = "closing"
       \/ pc0 = "loop" /\ ~pending /\ \A h \in Handles : ~open_used[h]
  /\ guest.at \in {"post", "boot"} => \A s \in Sfts : dos[s] = NoFile

ReadInv ==
  Served /\ guest.call.fn = "read" /\ answer = "ok" => dta = guest.call.file

CoreInv == TypeOK /\ TurnInv /\ WindowInv /\ FrameInv
FileInv == ProperInv /\ HandleInv /\ ReadInv

-----------------------------------------------------------------------------
USE DEF window, handles, guestVars, memory, vars, Firmware0, InCall

(* A nonempty set of naturals has a least element: a free handle is found. *)
LEMMA Least ==
  ASSUME NEW S \in SUBSET Nat, S # {}
  PROVE  \E h \in S : \A i \in S : h <= i
<1>1. PICK h \in S : \A y \in S : ~(<<y, h>> \in OpToRel(<, Nat))
  BY NatLessThanWellFounded, WFMin
<1>2. \A i \in S : ~(i < h)
  BY <1>1 DEF OpToRel
<1> QED
  BY <1>2

(* The handle that open takes is a free one.                               *)
LEMMA FreeHandleIsFree ==
  ASSUME FreeHandles # {}
  PROVE  FreeHandle \in Handles /\ ~open_used[FreeHandle]
<1>1. FreeHandles \subseteq Nat
  BY RedirectorAssumption DEF FreeHandles, Handles
<1>2. FreeHandle \in FreeHandles
  BY <1>1, Least DEF FreeHandle
<1> QED
  BY <1>2 DEF FreeHandles

(* What a call holds.                                                      *)
LEMMA CallFields ==
  ASSUME NEW c \in Calls
  PROVE  /\ c.fn \in Functions /\ c.fn \in AllFunctions /\ c # NoCall
         /\ c.fn \in OnFile =>
              c.sft \in Sfts /\ c.file \in Files /\ c.file # NoFile
         /\ c.sft \in Sfts \cup {NoSft} /\ c.file \in Files \cup {NoFile}
<1>1. CASE c \in [fn : Functions \cap OnFile, sft : Sfts, file : Files]
  BY <1>1, RedirectorAssumption DEF AllFunctions, OnFile, NoCall
<1>2. CASE c \in [fn : Functions \ OnFile, sft : {NoSft}, file : {NoFile}]
  <2>1. c.fn \in Functions /\ c.fn \notin OnFile /\ c.sft = NoSft /\ c.file = NoFile
    BY <1>2
  <2>2. c.fn \in AllFunctions /\ c.fn # "none"
    BY <2>1, RedirectorAssumption DEF AllFunctions
  <2> QED
    BY <2>1, <2>2 DEF NoCall
<1> QED
  BY <1>1, <1>2 DEF Calls

(* No call is not a call.                                                  *)
LEMMA NoCallFields ==
  NoCall \notin Calls /\ NoCall.fn = "none" /\ NoCall.file = NoFile
    /\ NoCall.sft = NoSft
  BY RedirectorAssumption DEF Calls, AllFunctions, OnFile, NoCall

Guests == [at : Places, call : Calls \cup {NoCall}, n : 0 .. 10]

(* The guest goes from one place of its call to the next.                  *)
LEMMA Gone ==
  ASSUME TypeOK, NEW from, NEW to \in Places, NEW n \in 0 .. 10,
         Goes(from, to, n)
  PROVE  /\ guest' \in Guests
         /\ guest.at = from /\ guest'.at = to
         /\ guest'.n = n /\ guest'.call = guest.call
<1> DEFINE there == [guest EXCEPT !.at = to]
<1>1. guest \in Guests
  BY DEF TypeOK, Guests
<1>2. there \in Guests /\ there.at = to /\ there.call = guest.call
  BY <1>1 DEF Guests
<1>3. guest' = [there EXCEPT !.n = n]
  BY DEF Goes
<1> HIDE DEF there
<1>4. guest' \in Guests /\ guest'.at = there.at /\ guest'.n = n
      /\ guest'.call = there.call
  BY <1>2, <1>3 DEF Guests
<1> QED
  BY <1>2, <1>4 DEF Goes

(* A word asked is a word of the window.                                   *)
LEMMA AskedType ==
  ASSUME NEW c \in Calls \cup {NoCall}
  PROVE  /\ Asked(c) \in Words /\ [s \in Slots |-> Asked(c)] \in [Slots -> Words]
         /\ [s \in Returned |-> Asked(c)] \in [Returned -> Words]
  BY DEF Asked, Words

(* The invariant holds at power-on.                                        *)
LEMMA InitCoreInv == Init => CoreInv
<1> SUFFICES ASSUME Init PROVE CoreInv
  OBVIOUS
<1>1. TypeOK
  <2>1. /\ regs \in [Slots -> Words] /\ frame \in [Returned -> Words]
        /\ slot \in 0 .. 10
    BY AskedType DEF Init
  <2>2. /\ pending \in BOOLEAN /\ done \in BOOLEAN
        /\ redirector_reset_requested \in BOOLEAN /\ sda_addr \in BOOLEAN
    BY DEF Init
  <2>3. /\ answer \in Verdicts /\ verdict \in Verdicts /\ code \in Codes
        /\ pc0 \in {"loop", "closing", "dispatch", "finish"}
        /\ guest \in [at : Places, call : Calls \cup {NoCall}, n : 0 .. 10]
    BY DEF Init, Verdicts, Codes, Places
  <2>4. /\ open_used \in [Handles -> BOOLEAN]
        /\ open_files \in [Handles -> Files \cup {NoFile}]
        /\ dos \in [Sfts -> Files \cup {NoFile}]
        /\ sft_handle \in [Sfts -> Handles \cup {NoHandle}]
        /\ dta \in Files \cup {NoFile}
    BY DEF Init
  <2> QED
    BY <2>1, <2>2, <2>3, <2>4 DEF TypeOK
<1>2. TurnInv
  BY DEF Init, TurnInv
<1>3. WindowInv /\ FrameInv
  BY DEF Init, WindowInv, FrameInv, Served
<1> QED
  BY <1>1, <1>2, <1>3 DEF CoreInv

(* Call keeps the invariant.                                               *)
LEMMA CallKeeps == ASSUME CoreInv, Call PROVE CoreInv'
<1>1. PICK c \in Calls : guest' = [at |-> "begin", call |-> c, n |-> 0]
                        /\ frame' = [s \in Returned |-> Asked(c)]
  BY DEF Call
<1>2. TypeOK'
  <2>1. guest' \in Guests
    BY <1>1 DEF Guests, Places
  <2>2. frame' \in [Returned -> Words]
    BY <1>1, AskedType
  <2>3. UNCHANGED <<regs, slot, pending, done, answer,
                  redirector_reset_requested, sda_addr, open_used, open_files,
                  pc0, code, verdict, dos, sft_handle, dta>>
    BY DEF Call
  <2> QED
    BY <2>1, <2>2, <2>3 DEF CoreInv, TypeOK, Guests
<1>3. TurnInv'
  BY <1>1 DEF CoreInv, TypeOK, TurnInv, Call
<1>4. WindowInv'
  BY <1>1, NoCallFields DEF CoreInv, TypeOK, WindowInv, TurnInv, Served, Call
<1>5. FrameInv'
  BY <1>1 DEF CoreInv, TypeOK, FrameInv, TurnInv, WindowInv, Call
<1> QED
  BY <1>2, <1>3, <1>4, <1>5 DEF CoreInv

(* Begin keeps the invariant.                                              *)
LEMMA BeginKeeps == ASSUME CoreInv, Begin PROVE CoreInv'
<1>1. guest' \in Guests /\ guest.at = "begin" /\ guest'.at = "send"
        /\ guest'.n = 0 /\ guest'.call = guest.call
  BY Gone DEF CoreInv, Begin, Places
<1>2. TypeOK'
  <2>1. guest' \in Guests
    BY <1>1
  <2>2. slot' \in 0 .. 10
    BY DEF Begin, WriteBegin
  <2>3. done' \in BOOLEAN
    BY DEF Begin, WriteBegin
  <2>4. UNCHANGED <<regs, pending, answer,
                  redirector_reset_requested, sda_addr, open_used, open_files,
                  pc0, code, frame, verdict, dos, sft_handle, dta>>
    BY DEF Begin, WriteBegin, Goes
  <2> QED
    BY <2>1, <2>2, <2>3, <2>4 DEF CoreInv, TypeOK, Guests
<1>3. TurnInv'
  BY <1>1 DEF CoreInv, TypeOK, TurnInv, Begin, WriteBegin, Goes
<1>4. WindowInv'
  BY <1>1 DEF CoreInv, TypeOK, WindowInv, TurnInv, Served, Begin, WriteBegin,
      Slots
<1>5. FrameInv'
  BY <1>1 DEF CoreInv, TypeOK, FrameInv, TurnInv, WindowInv, Begin, WriteBegin,
      Goes
<1> QED
  BY <1>2, <1>3, <1>4, <1>5 DEF CoreInv

(* Send keeps the invariant.                                               *)
LEMMA SendKeeps == ASSUME CoreInv, Send PROVE CoreInv'
<1>1. /\ guest' \in Guests /\ guest.at = "send" /\ guest'.call = guest.call
      /\ guest.n \in 0 .. 9 /\ slot = guest.n /\ guest.call \in Calls
      /\ \/ guest.n < 9 /\ guest'.at = "send" /\ guest'.n = guest.n + 1
         \/ guest.n = 9 /\ guest'.at = "exec"
  <2>1. guest.at = "send"
    BY DEF Send, Goes
  <2>2. guest.n \in 0 .. 9 /\ slot = guest.n /\ guest.call \in Calls
    BY <2>1 DEF CoreInv, WindowInv
  <2>3. CASE guest.n < 9
    <3>1. Goes("send", "send", guest.n + 1) /\ guest.n + 1 \in 0 .. 10
      BY <2>2, <2>3 DEF Send
    <3> QED
      BY <2>2, <2>3, <3>1, Gone DEF CoreInv, Places
  <2>4. CASE ~(guest.n < 9)
    <3>1. Goes("send", "exec", 0)
      BY <2>4 DEF Send
    <3> QED
      BY <2>2, <2>4, <3>1, Gone DEF CoreInv, Places
  <2> QED
    BY <2>3, <2>4
<1>2. TypeOK'
  <2>1. guest' \in Guests
    BY <1>1
  <2>2. regs' \in [Slots -> Words]
    BY <1>1, AskedType DEF CoreInv, TypeOK, Send, WriteWord, Slots
  <2>3. slot' \in 0 .. 10
    BY <1>1 DEF CoreInv, TypeOK, Send, WriteWord, Slots
  <2>4. UNCHANGED <<pending, done, answer,
                  redirector_reset_requested, sda_addr, open_used, open_files,
                  pc0, code, frame, verdict, dos, sft_handle, dta>>
    BY DEF Send, WriteWord, Goes
  <2> QED
    BY <2>1, <2>2, <2>3, <2>4 DEF CoreInv, TypeOK, Guests
<1>3. TurnInv'
  BY <1>1 DEF CoreInv, TypeOK, TurnInv, Send, WriteWord, Goes
<1>4. WindowInv'
  <2>1. regs' = [regs EXCEPT ![guest.n] = Asked(guest.call)]
        /\ slot' = guest.n + 1
    BY <1>1 DEF Send, WriteWord, Slots
  <2>2. \A s \in Slots : s < guest.n + 1 => regs'[s] = Asked(guest.call)
    BY <1>1, <2>1 DEF CoreInv, TypeOK, WindowInv, Slots
  <2>3. pc0' = "loop" /\ ~pending' /\ ~done'
    BY <1>1 DEF CoreInv, TurnInv, Send, WriteWord
  <2> QED
    BY <1>1, <2>1, <2>2, <2>3, NoCallFields DEF WindowInv, Served, Slots
<1>5. FrameInv'
  BY <1>1 DEF CoreInv, TypeOK, FrameInv, TurnInv, WindowInv, Send, WriteWord,
      Goes
<1> QED
  BY <1>2, <1>3, <1>4, <1>5 DEF CoreInv

(* Exec keeps the invariant.                                               *)
LEMMA ExecKeeps == ASSUME CoreInv, Exec PROVE CoreInv'
<1>1. guest' \in Guests /\ guest.at = "exec" /\ guest'.at = "wait"
        /\ guest'.n = 0 /\ guest'.call = guest.call
  BY Gone DEF CoreInv, Exec, Places
<1>2. TypeOK'
  <2>1. guest' \in Guests
    BY <1>1
  <2>2. slot' \in 0 .. 10
    BY DEF Exec, WriteExec
  <2>3. pending' \in BOOLEAN
    BY DEF Exec, WriteExec
  <2>4. UNCHANGED <<regs, done, answer, redirector_reset_requested,
                  sda_addr, open_used, open_files, pc0, code, frame, verdict,
                  dos, sft_handle, dta>>
    BY DEF Exec, WriteExec, Goes
  <2> QED
    BY <2>1, <2>2, <2>3, <2>4 DEF CoreInv, TypeOK, Guests
<1>3. TurnInv'
  BY <1>1 DEF CoreInv, TypeOK, TurnInv, Exec, WriteExec, Goes
<1>4. WindowInv'
  BY <1>1 DEF CoreInv, TypeOK, WindowInv, TurnInv, Served, Exec, WriteExec,
      Goes
<1>5. FrameInv'
  BY <1>1 DEF CoreInv, TypeOK, FrameInv, TurnInv, WindowInv, Exec, WriteExec,
      Goes
<1> QED
  BY <1>2, <1>3, <1>4, <1>5 DEF CoreInv

(* Poll keeps the invariant.                                               *)
LEMMA PollKeeps == ASSUME CoreInv, Poll PROVE CoreInv'
<1>1. guest' \in Guests /\ guest.at = "wait" /\ guest'.at = "recv"
        /\ guest'.n = 0 /\ guest'.call = guest.call
  BY Gone DEF CoreInv, Poll, Places
<1>2. TypeOK'
  <2>1. guest' \in Guests
    BY <1>1
  <2>2. UNCHANGED <<regs, slot, pending, done, answer,
                  redirector_reset_requested, sda_addr, open_used, open_files,
                  pc0, code, frame, verdict, dos, sft_handle, dta>>
    BY DEF Poll, Goes
  <2> QED
    BY <2>1, <2>2 DEF CoreInv, TypeOK, Guests
<1>3. TurnInv'
  BY <1>1 DEF CoreInv, TypeOK, TurnInv, Poll, Goes
<1>4. WindowInv'
  BY <1>1 DEF CoreInv, TypeOK, WindowInv, TurnInv, Served, Poll, Goes
<1>5. FrameInv'
  BY <1>1 DEF CoreInv, FrameInv, Poll, Returned
<1> QED
  BY <1>2, <1>3, <1>4, <1>5 DEF CoreInv

(* Receive keeps the invariant.                                            *)
LEMMA ReceiveKeeps == ASSUME CoreInv, Receive PROVE CoreInv'
<1>1. /\ guest' \in Guests /\ guest.at = "recv" /\ guest'.call = guest.call
      /\ guest.n \in Returned /\ slot = guest.n /\ slot' = guest.n + 1
      /\ frame' = [frame EXCEPT ![guest.n] = regs[guest.n]]
      /\ \/ guest.n < 5 /\ guest'.at = "recv" /\ guest'.n = guest.n + 1
         \/ guest.n = 5 /\ guest'.at = "flag"
  <2>1. guest.at = "recv"
    BY DEF Receive, Goes
  <2>2. guest.n \in 0 .. 5 /\ slot = guest.n
    BY <2>1 DEF CoreInv, FrameInv, Returned
  <2>3. frame' = [frame EXCEPT ![guest.n] = regs[guest.n]] /\ slot' = guest.n + 1
    BY <2>2 DEF Receive, ReadWord, WordRead, Returned
  <2>4. CASE guest.n < 5
    <3>1. Goes("recv", "recv", guest.n + 1) /\ guest.n + 1 \in 0 .. 10
      BY <2>2, <2>4 DEF Receive
    <3> QED
      BY <2>2, <2>3, <2>4, <3>1, Gone DEF CoreInv, Places, Returned
  <2>5. CASE ~(guest.n < 5)
    <3>1. Goes("recv", "flag", 0)
      BY <2>5 DEF Receive
    <3> QED
      BY <2>2, <2>3, <2>5, <3>1, Gone DEF CoreInv, Places, Returned
  <2> QED
    BY <2>4, <2>5
<1>2. TypeOK'
  <2>1. guest' \in Guests
    BY <1>1
  <2>2. slot' \in 0 .. 10
    BY <1>1 DEF Returned
  <2>3. frame' \in [Returned -> Words]
    BY <1>1 DEF CoreInv, TypeOK, Returned, Slots
  <2>4. UNCHANGED <<regs, pending, done, answer,
                  redirector_reset_requested, sda_addr, open_used, open_files,
                  pc0, code, verdict, dos, sft_handle, dta>>
    BY DEF Receive, ReadWord, Goes
  <2> QED
    BY <2>1, <2>2, <2>3, <2>4 DEF CoreInv, TypeOK, Guests
<1>3. TurnInv'
  BY <1>1 DEF CoreInv, TypeOK, TurnInv, Receive, ReadWord, Goes
<1>4. WindowInv'
  BY <1>1 DEF CoreInv, TypeOK, WindowInv, TurnInv, Served, Receive, ReadWord,
      Goes
<1>5. FrameInv'
  <2>1. regs' = regs
    BY DEF Receive, ReadWord
  <2>2. \A s \in Returned : s < guest.n + 1 => frame'[s] = regs'[s]
    BY <1>1, <2>1 DEF CoreInv, TypeOK, FrameInv, Returned
  <2> QED
    BY <1>1, <2>1, <2>2 DEF FrameInv, Returned
<1> QED
  BY <1>2, <1>3, <1>4, <1>5 DEF CoreInv

(* ReceiveFlag keeps the invariant.                                        *)
LEMMA ReceiveFlagKeeps == ASSUME CoreInv, ReceiveFlag PROVE CoreInv'
<1>1. guest' \in Guests /\ guest.at = "flag" /\ guest'.at = "return"
        /\ guest'.n = 0 /\ guest'.call = guest.call
  BY Gone DEF CoreInv, ReceiveFlag, Places
<1>2. TypeOK'
  <2>1. guest' \in Guests
    BY <1>1
  <2>2. slot' \in 0 .. 10
    BY <1>1 DEF CoreInv, FrameInv, ReceiveFlag, ReadWord
  <2>3. verdict' \in Verdicts
    BY DEF CoreInv, TypeOK, ReceiveFlag, FlagRead, Verdicts
  <2>4. UNCHANGED <<regs, pending, done, answer,
                  redirector_reset_requested, sda_addr, open_used, open_files,
                  pc0, code, frame, dos, sft_handle, dta>>
    BY DEF ReceiveFlag, ReadWord, Goes
  <2> QED
    BY <2>1, <2>2, <2>3, <2>4 DEF CoreInv, TypeOK, Guests
<1>3. TurnInv'
  BY <1>1 DEF CoreInv, TypeOK, TurnInv, ReceiveFlag, ReadWord, Goes
<1>4. WindowInv'
  BY <1>1 DEF CoreInv, TypeOK, WindowInv, TurnInv, Served, ReceiveFlag,
      ReadWord, Goes
<1>5. FrameInv'
  BY <1>1 DEF CoreInv, FrameInv, ReceiveFlag, ReadWord, FlagRead
<1> QED
  BY <1>2, <1>3, <1>4, <1>5 DEF CoreInv

(* Return keeps the invariant.                                             *)
LEMMA ReturnKeeps == ASSUME CoreInv, Return PROVE CoreInv'
<1>1. guest.at = "return" /\ guest' = [at |-> "idle", call |-> NoCall, n |-> 0]
  BY DEF Return
<1>2. TypeOK'
  <2>1. guest' \in Guests
    BY <1>1 DEF Guests, Places
  <2>2. regs' \in [Slots -> Words]
    BY AskedType DEF Return, ForgetCall, Verdicts, Codes
  <2>3. answer' \in Verdicts /\ verdict' \in Verdicts /\ code' \in Codes /\ dta' \in Files \cup {NoFile}
    BY AskedType DEF Return, ForgetCall, Verdicts, Codes
  <2>4. frame' \in [Returned -> Words]
    BY AskedType DEF Return
  <2>5. dos' \in [Sfts -> Files \cup {NoFile}]
    <3>1. guest.call \in Calls
      BY <1>1 DEF CoreInv, WindowInv
    <3> QED
      BY <3>1, CallFields DEF CoreInv, TypeOK, Return, OnFile
  <2>6. sft_handle' \in [Sfts -> Handles \cup {NoHandle}]
    BY DEF CoreInv, TypeOK, Return
  <2>7. UNCHANGED <<slot, pending, done, redirector_reset_requested,
                  sda_addr, open_used, open_files, pc0>>
    BY DEF Return, ForgetCall
  <2> QED
    BY <2>1, <2>2, <2>3, <2>4, <2>5, <2>6, <2>7 DEF CoreInv, TypeOK, Guests
<1>3. TurnInv'
  BY <1>1 DEF CoreInv, TypeOK, TurnInv, Return, ForgetCall
<1>4. WindowInv'
  BY <1>1 DEF CoreInv, TypeOK, WindowInv, TurnInv, Served, Return, ForgetCall
<1>5. FrameInv'
  BY <1>1 DEF CoreInv, TypeOK, FrameInv, TurnInv, WindowInv, Return, ForgetCall
<1> QED
  BY <1>2, <1>3, <1>4, <1>5 DEF CoreInv

(* Boot keeps the invariant.                                               *)
LEMMA BootKeeps == ASSUME CoreInv, Boot PROVE CoreInv'
<1>1. guest' \in Guests /\ guest.at = "boot" /\ guest'.at = "idle"
        /\ guest'.n = 0 /\ guest'.call = guest.call
  BY Gone DEF CoreInv, Boot, Places
<1>2. TypeOK'
  <2>1. guest' \in Guests
    BY <1>1
  <2>2. regs' \in [Slots -> Words]
    BY AskedType DEF Boot, ForgetCall, Verdicts, Codes
  <2>3. answer' \in Verdicts /\ verdict' \in Verdicts /\ code' \in Codes /\ dta' \in Files \cup {NoFile}
    BY AskedType DEF Boot, ForgetCall, Verdicts, Codes
  <2>4. sft_handle' \in [Sfts -> Handles \cup {NoHandle}]
    BY DEF Boot
  <2>5. UNCHANGED <<slot, pending, done, redirector_reset_requested,
                  sda_addr, open_used, open_files, pc0, frame, dos>>
    BY DEF Boot, ForgetCall, Goes
  <2> QED
    BY <2>1, <2>2, <2>3, <2>4, <2>5 DEF CoreInv, TypeOK, Guests
<1>3. TurnInv'
  BY <1>1 DEF CoreInv, TypeOK, TurnInv, Boot, ForgetCall, Goes
<1>4. WindowInv'
  BY <1>1 DEF CoreInv, TypeOK, WindowInv, TurnInv, Served, Boot, ForgetCall,
      Goes
<1>5. FrameInv'
  BY <1>1 DEF CoreInv, TypeOK, FrameInv, TurnInv, WindowInv, Boot, ForgetCall,
      Goes
<1> QED
  BY <1>2, <1>3, <1>4, <1>5 DEF CoreInv

(* ResetGuest keeps the invariant.                                         *)
LEMMA ResetGuestKeeps == ASSUME CoreInv, ResetGuest PROVE CoreInv'
<1>1. /\ guest.at \notin {"post", "boot"} /\ (guest.at = "idle" \/ pc0 = "loop")
      /\ guest' = [at |-> "post", call |-> NoCall, n |-> 0]
  BY DEF ResetGuest
<1>2. TypeOK'
  <2>1. guest' \in Guests
    BY <1>1 DEF Guests, Places
  <2>2. frame' \in [Returned -> Words]
    BY AskedType DEF ResetGuest
  <2>3. dos' \in [Sfts -> Files \cup {NoFile}]
    BY DEF ResetGuest
  <2>4. UNCHANGED <<regs, slot, pending, done, answer,
                  redirector_reset_requested, sda_addr, open_used, open_files,
                  pc0, code, verdict, sft_handle, dta>>
    BY DEF ResetGuest
  <2> QED
    BY <2>1, <2>2, <2>3, <2>4 DEF CoreInv, TypeOK, Guests
<1>3. TurnInv'
  BY <1>1 DEF CoreInv, TypeOK, TurnInv, ResetGuest
<1>4. WindowInv'
  BY <1>1 DEF CoreInv, TypeOK, WindowInv, TurnInv, Served, ResetGuest
<1>5. FrameInv'
  BY <1>1 DEF CoreInv, TypeOK, FrameInv, TurnInv, WindowInv, ResetGuest
<1> QED
  BY <1>2, <1>3, <1>4, <1>5 DEF CoreInv

(* PostIcw1 keeps the invariant.                                           *)
LEMMA PostIcw1Keeps == ASSUME CoreInv, PostIcw1 PROVE CoreInv'
<1>1. guest' \in Guests /\ guest.at = "post" /\ guest'.at = "boot"
        /\ guest'.n = 0 /\ guest'.call = guest.call
  BY Gone DEF CoreInv, PostIcw1, Places
<1>2. TypeOK'
  <2>1. guest' \in Guests
    BY <1>1
  <2>2. redirector_reset_requested' \in BOOLEAN
    BY DEF PostIcw1
  <2>3. UNCHANGED <<regs, slot, pending, done, answer, sda_addr,
                  open_used, open_files, pc0, code, frame, verdict, dos,
                  sft_handle, dta>>
    BY DEF PostIcw1, Goes
  <2> QED
    BY <2>1, <2>2, <2>3 DEF CoreInv, TypeOK, Guests
<1>3. TurnInv'
  BY <1>1 DEF CoreInv, TypeOK, TurnInv, PostIcw1, Goes
<1>4. WindowInv'
  BY <1>1 DEF CoreInv, TypeOK, WindowInv, TurnInv, Served, PostIcw1, Goes
<1>5. FrameInv'
  BY <1>1 DEF CoreInv, TypeOK, FrameInv, TurnInv, WindowInv, PostIcw1, Goes
<1> QED
  BY <1>2, <1>3, <1>4, <1>5 DEF CoreInv

(* TaskReset keeps the invariant.                                          *)
LEMMA TaskResetKeeps == ASSUME CoreInv, TaskReset PROVE CoreInv'
<1>1. TypeOK'
  <2>1. redirector_reset_requested' \in BOOLEAN
    BY DEF TaskReset
  <2>2. pc0' \in {"loop", "closing", "dispatch", "finish"}
    BY DEF TaskReset
  <2>3. UNCHANGED <<regs, slot, pending, done, answer, sda_addr,
                  open_used, open_files, code, guest, frame, verdict, dos,
                  sft_handle, dta>>
    BY DEF TaskReset, NotServing
  <2> QED
    BY <2>1, <2>2, <2>3 DEF CoreInv, TypeOK, Guests
<1>2. TurnInv'
  BY DEF CoreInv, TypeOK, TurnInv, TaskReset, NotServing
<1>3. WindowInv'
  BY DEF CoreInv, TypeOK, WindowInv, TurnInv, Served, TaskReset, NotServing
<1>4. FrameInv'
  BY DEF CoreInv, TypeOK, FrameInv, TurnInv, WindowInv, TaskReset, NotServing
<1> QED
  BY <1>1, <1>2, <1>3, <1>4 DEF CoreInv

(* ClearFlags keeps the invariant.                                         *)
LEMMA ClearFlagsKeeps == ASSUME CoreInv, ClearFlags PROVE CoreInv'
<1>1. TypeOK'
  <2>1. pending' \in BOOLEAN
    BY DEF ClearFlags
  <2>2. done' \in BOOLEAN
    BY DEF ClearFlags
  <2>3. slot' \in 0 .. 10
    BY DEF ClearFlags
  <2>4. pc0' \in {"loop", "closing", "dispatch", "finish"}
    BY DEF ClearFlags
  <2>5. UNCHANGED <<regs, answer, redirector_reset_requested,
                  sda_addr, open_used, open_files, code, guest, frame,
                  verdict, dos, sft_handle, dta>>
    BY DEF ClearFlags, NotServing
  <2> QED
    BY <2>1, <2>2, <2>3, <2>4, <2>5 DEF CoreInv, TypeOK, Guests
<1>2. TurnInv'
  BY DEF CoreInv, TypeOK, TurnInv, ClearFlags, NotServing
<1>3. WindowInv'
  BY DEF CoreInv, TypeOK, WindowInv, TurnInv, Served, ClearFlags, NotServing
<1>4. FrameInv'
  BY DEF CoreInv, TypeOK, FrameInv, TurnInv, WindowInv, ClearFlags, NotServing
<1> QED
  BY <1>1, <1>2, <1>3, <1>4 DEF CoreInv

(* TakeRequest keeps the invariant.                                        *)
LEMMA TakeRequestKeeps == ASSUME CoreInv, TakeRequest PROVE CoreInv'
<1>1. TypeOK'
  <2>1. pending' \in BOOLEAN
    BY DEF TakeRequest
  <2>2. answer' \in Verdicts
    BY DEF TakeRequest, Verdicts
  <2>3. pc0' \in {"loop", "closing", "dispatch", "finish"}
    BY DEF TakeRequest
  <2>4. UNCHANGED <<regs, slot, done, redirector_reset_requested,
                  sda_addr, open_used, open_files, code, guest, frame,
                  verdict, dos, sft_handle, dta>>
    BY DEF TakeRequest, NotServing
  <2> QED
    BY <2>1, <2>2, <2>3, <2>4 DEF CoreInv, TypeOK, Guests
<1>2. TurnInv'
  BY DEF CoreInv, TypeOK, TurnInv, TakeRequest, NotServing
<1>3. WindowInv'
  BY DEF CoreInv, TypeOK, WindowInv, TurnInv, Served, TakeRequest, NotServing
<1>4. FrameInv'
  BY DEF CoreInv, TypeOK, FrameInv, TurnInv, WindowInv, TakeRequest, NotServing
<1> QED
  BY <1>1, <1>2, <1>3, <1>4 DEF CoreInv

(* Finish keeps the invariant.                                             *)
LEMMA FinishKeeps == ASSUME CoreInv, Finish PROVE CoreInv'
<1>1. TypeOK'
  <2>1. done' \in BOOLEAN
    BY DEF Finish
  <2>2. pc0' \in {"loop", "closing", "dispatch", "finish"}
    BY DEF Finish
  <2>3. UNCHANGED <<regs, slot, pending, answer,
                  redirector_reset_requested, sda_addr, open_used, open_files,
                  code, guest, frame, verdict, dos, sft_handle, dta>>
    BY DEF Finish, NotServing
  <2> QED
    BY <2>1, <2>2, <2>3 DEF CoreInv, TypeOK, Guests
<1>2. TurnInv'
  BY DEF CoreInv, TypeOK, TurnInv, Finish, NotServing
<1>3. WindowInv'
  BY DEF CoreInv, TypeOK, WindowInv, TurnInv, Served, Finish, NotServing
<1>4. FrameInv'
  BY DEF CoreInv, TypeOK, FrameInv, TurnInv, WindowInv, Finish, NotServing
<1> QED
  BY <1>1, <1>2, <1>3, <1>4 DEF CoreInv

(* CloseOne keeps the invariant.                                           *)
LEMMA CloseOneKeeps == ASSUME CoreInv, CloseOne PROVE CoreInv'
<1>1. TypeOK'
  <2>1. open_used' \in [Handles -> BOOLEAN]
    BY DEF CoreInv, TypeOK, CloseOne
  <2>2. open_files' \in [Handles -> Files \cup {NoFile}]
    BY DEF CoreInv, TypeOK, CloseOne
  <2>3. UNCHANGED <<regs, slot, pending, done, answer,
                  redirector_reset_requested, sda_addr, pc0, code, guest,
                  frame, verdict, dos, sft_handle, dta>>
    BY DEF CloseOne, NotServing
  <2> QED
    BY <2>1, <2>2, <2>3 DEF CoreInv, TypeOK, Guests
<1>2. TurnInv'
  BY DEF CoreInv, TypeOK, TurnInv, CloseOne, NotServing
<1>3. WindowInv'
  BY DEF CoreInv, TypeOK, WindowInv, TurnInv, Served, CloseOne, NotServing
<1>4. FrameInv'
  BY DEF CoreInv, TypeOK, FrameInv, TurnInv, WindowInv, CloseOne, NotServing
<1> QED
  BY <1>1, <1>2, <1>3, <1>4 DEF CoreInv

-----------------------------------------------------------------------------
(* A function of the drive, from core 0's dispatch to its answer.          *)
Function == fn_install_check \/ fn_lookup \/ fn_disk_info \/ Declined
              \/ fn_open \/ fn_close \/ fn_read

(* A function answers in the window.                                       *)
LEMMA FunctionAnswers ==
  ASSUME Function
  PROVE  /\ pc0 = "dispatch" /\ pc0' = "finish" /\ Elsewhere
         /\ \E v \in Verdicts, e \in Codes : Result(v, e)
<1>1. pc0 = "dispatch" /\ pc0' = "finish" /\ Elsewhere
  BY DEF Function, fn_install_check, fn_lookup, fn_disk_info, Declined,
         fn_open, fn_close, fn_read, Serving
<1>2. /\ "ok" \in Verdicts /\ "error" \in Verdicts /\ "decline" \in Verdicts
      /\ "none" \in Codes /\ "not_found" \in Codes
      /\ "too_many_files" \in Codes /\ "invalid_handle" \in Codes
  BY DEF Verdicts, Codes
<1>3. \E v \in Verdicts, e \in Codes : Result(v, e)
  BY <1>2 DEF Function, fn_install_check, fn_lookup, fn_disk_info, Declined,
         fn_open, fn_close, fn_read, OpenSucceeds, OpenFails
<1> QED
  BY <1>1, <1>3

(* What a function leaves of the guest's tables.                           *)
LEMMA FunctionMemory ==
  ASSUME CoreInv, Function
  PROVE  /\ sda_addr' \in BOOLEAN
         /\ open_used' \in [Handles -> BOOLEAN]
         /\ open_files' \in [Handles -> Files \cup {NoFile}]
         /\ sft_handle' \in [Sfts -> Handles \cup {NoHandle}]
         /\ dta' \in Files \cup {NoFile}
<1>1. CASE fn_install_check
  <2>1. sda_addr' \in {sda_addr, TRUE}
    BY <1>1 DEF fn_install_check
  <2> QED
    BY <1>1, <2>1 DEF CoreInv, TypeOK, fn_install_check
<1>2. CASE fn_lookup \/ fn_disk_info \/ Declined
  <2>1. UNCHANGED <<sda_addr, open_used, open_files, sft_handle, dta>>
    BY <1>2 DEF fn_lookup, fn_disk_info, Declined
  <2> QED
    BY <2>1 DEF CoreInv, TypeOK
<1>3. CASE fn_open
  <2>1. UNCHANGED <<sda_addr, dta>>
    BY <1>3 DEF fn_open
  <2>2. CASE UNCHANGED <<handles, sft_handle>>
    BY <2>1, <2>2 DEF CoreInv, TypeOK
  <2>3. CASE OpenSucceeds /\ FreeHandles # {}
    <3>1. FreeHandle \in Handles
      BY <2>3, FreeHandleIsFree
    <3>2. regs[0].call \in Calls \cup {NoCall}
      BY DEF CoreInv, TypeOK, Words, Slots
    <3>3. regs[0].call.file \in Files \cup {NoFile}
      BY <3>2, CallFields, NoCallFields
    <3> QED
      BY <2>1, <2>3, <3>1, <3>3 DEF CoreInv, TypeOK, OpenSucceeds
  <2> QED
    BY <1>3, <2>2, <2>3 DEF fn_open, OpenFails
<1>4. CASE fn_close
  <2>1. UNCHANGED <<sda_addr, sft_handle, dta>>
    BY <1>4 DEF fn_close
  <2>2. open_used' \in [Handles -> BOOLEAN]
        /\ open_files' \in [Handles -> Files \cup {NoFile}]
    BY <1>4 DEF fn_close, CoreInv, TypeOK
  <2> QED
    BY <2>1, <2>2 DEF CoreInv, TypeOK
<1>5. CASE fn_read
  <2>1. UNCHANGED <<sda_addr, open_used, open_files, sft_handle>>
    BY <1>5 DEF fn_read
  <2>2. dta' \in Files \cup {NoFile}
    BY <1>5 DEF fn_read, CoreInv, TypeOK, Valid
  <2> QED
    BY <2>1, <2>2 DEF CoreInv, TypeOK
<1> QED
  BY <1>1, <1>2, <1>3, <1>4, <1>5 DEF Function

(* The function is the one that was asked for, and it writes its words.    *)
LEMMA FunctionWords ==
  ASSUME CoreInv, Function, NEW v \in Verdicts, NEW e \in Codes, Result(v, e)
  PROVE  /\ regs' \in [Slots -> Words] /\ answer' = v /\ code' = e
         /\ guest.at = "wait" =>
              /\ Fn = guest.call.fn /\ Sft = guest.call.sft
              /\ regs[0].call = guest.call /\ guest.call \in Calls
              /\ \A s \in Slots : regs'[s] = Left(guest.call, v, s)
<1>1. pc0 = "dispatch"
  BY FunctionAnswers
<1>2. PICK c \in Calls : \A s \in Slots : regs[s] = Asked(c)
  BY <1>1 DEF CoreInv, WindowInv
<1>3. 0 \in Slots /\ 5 \in Slots
  BY DEF Slots
<1>4. Fn = c.fn /\ Sft = c.sft /\ regs[0].call = c
  BY <1>2, <1>3 DEF Fn, Sft, Asked
<1>5. \A s \in Slots : regs'[s] = Left(c, v, s)
  BY <1>2, <1>4 DEF Result, Left, Asked
<1>6. \A s \in Slots : Left(c, v, s) \in Words
  BY DEF Left, Words
<1>7. regs' \in [Slots -> Words]
  BY <1>5, <1>6 DEF Result
<1>8. ASSUME guest.at = "wait" PROVE c = guest.call
  <2>1. ~Served
    BY <1>1, <1>8 DEF CoreInv, TurnInv, Served
  <2>2. regs[0] = Asked(guest.call)
    BY <1>3, <1>8, <2>1 DEF CoreInv, WindowInv
  <2> QED
    BY <1>2, <1>3, <2>2 DEF Asked
<1> QED
  BY <1>4, <1>5, <1>7, <1>8 DEF Result

(* Function keeps the invariant.                                           *)
LEMMA FunctionKeeps == ASSUME CoreInv, Function PROVE CoreInv'
<1>1. pc0 = "dispatch" /\ pc0' = "finish" /\ Elsewhere
  BY FunctionAnswers
<1>2. PICK v \in Verdicts, e \in Codes : Result(v, e)
  BY FunctionAnswers
<1>3. /\ regs' \in [Slots -> Words] /\ answer' \in Verdicts /\ code' \in Codes
      /\ guest.at = "wait" =>
           \A s \in Slots : regs'[s] = Left(guest.call, answer', s)
  BY <1>2, FunctionWords
<1>4. TypeOK'
  BY <1>1, <1>3, FunctionMemory DEF CoreInv, TypeOK, Elsewhere
<1>5. TurnInv'
  BY <1>1 DEF CoreInv, TurnInv, Elsewhere
<1>6. guest.at \in {"wait", "post", "boot"} /\ ~pending
  <2>1. guest.at \in Places
    BY DEF CoreInv, TypeOK
  <2> QED
    BY <1>1, <2>1 DEF CoreInv, Places, TurnInv
<1>7. WindowInv'
  BY <1>1, <1>3, <1>6 DEF CoreInv, WindowInv, Served, Elsewhere
<1>8. FrameInv'
  BY <1>1, <1>6 DEF CoreInv, FrameInv, Elsewhere
<1> QED
  BY <1>4, <1>5, <1>7, <1>8 DEF CoreInv

(* Every step keeps the invariant.                                         *)
LEMMA CoreNext == CoreInv /\ [Next]_vars => CoreInv'
<1> SUFFICES ASSUME CoreInv, [Next]_vars PROVE CoreInv'
  OBVIOUS
<1>1. CASE UNCHANGED vars
  BY <1>1 DEF CoreInv, TypeOK, TurnInv, WindowInv, FrameInv, Served
<1>2. CASE Guest
  BY <1>2, CallKeeps, BeginKeeps, SendKeeps, ExecKeeps, PollKeeps, ReceiveKeeps,
     ReceiveFlagKeeps, ReturnKeeps, ResetGuestKeeps, PostIcw1Keeps, BootKeeps
  DEF Guest
<1>3. CASE Core0
  BY <1>3, TaskResetKeeps, CloseOneKeeps, ClearFlagsKeeps, TakeRequestKeeps,
     FunctionKeeps, FinishKeeps DEF Core0, Function
<1> QED
  BY <1>1, <1>2, <1>3 DEF Next

(* It holds for good.                                                      *)
LEMMA CoreInvariant == Spec => []CoreInv
<1>1. Init => CoreInv
  BY InitCoreInv
<1>2. CoreInv /\ [Next]_vars => CoreInv'
  BY CoreNext
<1> QED
  BY <1>1, <1>2, PTL DEF Spec

(* The window, the handles, the calls and the guest's memory keep their    *)
(* types: no access runs past the window's ten words and their flag.       *)
THEOREM TypeCorrect == Spec => []TypeOK
<1>1. CoreInv => TypeOK
  BY DEF CoreInv
<1> QED
  BY <1>1, CoreInvariant, PTL

(* A call comes back with the words its own function wrote and with its    *)
(* own verdict, whatever reset or leftover answer came before it.          *)
THEOREM OwnAnswer == Spec => []CallGetsOwnAnswer
<1>1. CoreInv => CallGetsOwnAnswer
  <2> SUFFICES ASSUME CoreInv, guest.at = "return"
               PROVE  /\ verdict = answer
                      /\ \A s \in Returned :
                           frame[s] = Left(guest.call, verdict, s)
    BY DEF CallGetsOwnAnswer, Left
  <2>1. verdict = answer /\ \A s \in Returned : frame[s] = regs[s]
    BY DEF CoreInv, FrameInv
  <2>2. Returned \subseteq Slots /\ Served
    BY DEF Returned, Slots, Served
  <2>3. \A s \in Slots : regs[s] = Left(guest.call, answer, s)
    BY <2>2 DEF CoreInv, WindowInv
  <2> QED
    BY <2>1, <2>2, <2>3
<1> QED
  BY <1>1, CoreInvariant, PTL

-----------------------------------------------------------------------------
(* The handles, for a DOS that never commits: 07h closes the file.         *)

(* The handles start unused.                                               *)
LEMMA InitFileInv == ASSUME Init PROVE FileInv
<1>1. ProperInv /\ ReadInv /\ ~Served
  BY DEF Init, ProperInv, ReadInv, Served
<1>2. Owned(dos)
  BY DEF Init, Owned, Valid
<1> QED
  BY <1>1, <1>2 DEF Init, FileInv, HandleInv, After

(* The steps by which the program goes on with its call.                   *)
Advance == Begin \/ Send \/ Exec \/ Poll \/ Receive \/ ReceiveFlag

(* The guest on its way through a call touches no file.                    *)
LEMMA AdvanceOnly ==
  ASSUME CoreInv, Advance
  PROVE  /\ guest.at \in InCall /\ guest'.at \in InCall
         /\ guest'.call = guest.call /\ (Served' <=> Served)
         /\ UNCHANGED <<dos, answer, code, handles, memory,
                        redirector_reset_requested, pc0>>
<1>1. CASE Begin
  <2>1. guest.at = "begin" /\ guest'.at = "send" /\ guest'.call = guest.call
    BY <1>1, Gone DEF CoreInv, Begin, Places
  <2> QED
    BY <1>1, <2>1 DEF Begin, WriteBegin, Served
<1>2. CASE Send
  <2>1. guest.at = "send" /\ guest.n \in 0 .. 9
    BY <1>2 DEF Send, Goes, CoreInv, WindowInv
  <2>2. guest'.at \in {"send", "exec"} /\ guest'.call = guest.call
    <3>1. CASE guest.n < 9
      <4>1. Goes("send", "send", guest.n + 1) /\ guest.n + 1 \in 0 .. 10
        BY <1>2, <2>1, <3>1 DEF Send
      <4> QED
        BY <4>1, Gone DEF CoreInv, Places
    <3>2. CASE ~(guest.n < 9)
      <4>1. Goes("send", "exec", 0)
        BY <1>2, <3>2 DEF Send
      <4> QED
        BY <4>1, Gone DEF CoreInv, Places
    <3> QED
      BY <3>1, <3>2
  <2> QED
    BY <1>2, <2>1, <2>2 DEF Send, WriteWord, Served
<1>3. CASE Exec
  <2>1. guest.at = "exec" /\ guest'.at = "wait" /\ guest'.call = guest.call
    BY <1>3, Gone DEF CoreInv, Exec, Places
  <2>2. pc0 = "loop" /\ ~done
    BY <2>1 DEF CoreInv, TurnInv
  <2> QED
    BY <1>3, <2>1, <2>2 DEF Exec, WriteExec, Served
<1>4. CASE Poll
  <2>1. guest.at = "wait" /\ guest'.at = "recv" /\ guest'.call = guest.call
    BY <1>4, Gone DEF CoreInv, Poll, Places
  <2> QED
    BY <1>4, <2>1 DEF Poll, Served
<1>5. CASE Receive
  <2>1. guest.at = "recv" /\ guest.n \in 0 .. 5
    BY <1>5 DEF Receive, Goes, CoreInv, FrameInv, Returned
  <2>2. guest'.at \in {"recv", "flag"} /\ guest'.call = guest.call
    <3>1. CASE guest.n < 5
      <4>1. Goes("recv", "recv", guest.n + 1) /\ guest.n + 1 \in 0 .. 10
        BY <1>5, <2>1, <3>1 DEF Receive
      <4> QED
        BY <4>1, Gone DEF CoreInv, Places
    <3>2. CASE ~(guest.n < 5)
      <4>1. Goes("recv", "flag", 0)
        BY <1>5, <3>2 DEF Receive
      <4> QED
        BY <4>1, Gone DEF CoreInv, Places
    <3> QED
      BY <3>1, <3>2
  <2> QED
    BY <1>5, <2>1, <2>2 DEF Receive, ReadWord, Served
<1>6. CASE ReceiveFlag
  <2>1. guest.at = "flag" /\ guest'.at = "return" /\ guest'.call = guest.call
    BY <1>6, Gone DEF CoreInv, ReceiveFlag, Places
  <2> QED
    BY <1>6, <2>1 DEF ReceiveFlag, ReadWord, Served
<1> QED
  BY <1>1, <1>2, <1>3, <1>4, <1>5, <1>6 DEF Advance

(* So it keeps what is said of the files.                                  *)
LEMMA AdvanceFiles == ASSUME CoreInv, FileInv, Advance PROVE FileInv'
<1>1. After' = After
  BY AdvanceOnly DEF After
<1>2. Owned(After)' 
  <2>1. Owned(After)
    BY AdvanceOnly DEF FileInv, HandleInv
  <2> QED
    BY <1>1, <2>1, AdvanceOnly DEF Owned, Valid
<1> QED
  BY <1>2, AdvanceOnly DEF FileInv, ProperInv, HandleInv, ReadInv

(* A call does.                                                            *)
LEMMA CallFiles == ASSUME CoreInv, FileInv, Call PROVE FileInv'
<1>1. PICK c \in Calls :
        /\ c.fn = "open" => dos[c.sft] = NoFile
        /\ c.fn \in OnFile \ {"open"} => dos[c.sft] = c.file
        /\ guest' = [at |-> "begin", call |-> c, n |-> 0]
  BY DEF Call
<1>2. guest.at = "idle" /\ ~Served /\ ~Served'
  BY <1>1 DEF Call, Served
<1>3. After = dos /\ After' = dos'
  BY <1>2 DEF After
<1>4. Owned(dos)
  BY <1>2, <1>3 DEF FileInv, HandleInv
<1>5. Owned(After)'
  BY <1>3, <1>4 DEF Owned, Valid, Call
<1> QED
  BY <1>1, <1>2, <1>5 DEF FileInv, ProperInv, HandleInv, ReadInv, Call

(* Its return does.                                                        *)
LEMMA ReturnFiles == ASSUME CoreInv, FileInv, Return PROVE FileInv'
<1>1. guest.at = "return" /\ guest'.at = "idle" /\ Served /\ ~Served'
  BY DEF Return, Served
<1>2. verdict = answer
  BY <1>1 DEF CoreInv, FrameInv
<1>3. dos' = After
  BY <1>1, <1>2 DEF Return, After
<1>4. After' = dos' /\ Owned(After)
  BY <1>1 DEF After, FileInv, HandleInv
<1>5. \A s \in Sfts : dos'[s] # NoFile => sft_handle'[s] = sft_handle[s]
  BY DEF Return
<1>6. Owned(After)'
  <2>1. Owned(dos') /\ UNCHANGED handles
    BY <1>3, <1>4 DEF Return
  <2>2. \A s \in Sfts : dos'[s] # NoFile =>
          /\ sft_handle'[s] \in Handles /\ open_used'[sft_handle'[s]]
          /\ open_files'[sft_handle'[s]] = dos'[s]
    BY <1>5, <2>1 DEF Owned, Valid
  <2>3. \A s, t \in Sfts :
          dos'[s] # NoFile /\ dos'[t] # NoFile
            /\ sft_handle'[s] = sft_handle'[t] => s = t
    BY <1>5, <2>1 DEF Owned
  <2>4. \A h \in Handles : open_used'[h] =>
          \E s \in Sfts : dos'[s] # NoFile /\ sft_handle'[s] = h
    BY <1>5, <2>1 DEF Owned
  <2> QED
    BY <1>4, <2>2, <2>3, <2>4 DEF Owned, Valid
<1> QED
  BY <1>1, <1>6 DEF FileInv, ProperInv, HandleInv, ReadInv

(* A restart of the guest does.                                            *)
LEMMA RebootFiles ==
  ASSUME CoreInv, CoreInv', FileInv, ResetGuest \/ PostIcw1 \/ Boot
  PROVE  FileInv'
<1>1. CASE ResetGuest
  <2>1. guest'.at = "post" /\ dos' = [s \in Sfts |-> NoFile]
    BY <1>1 DEF ResetGuest
  <2> QED
    BY <2>1 DEF FileInv, ProperInv, HandleInv, ReadInv, Served
<1>2. CASE PostIcw1
  <2>1. guest.at = "post" /\ guest'.at = "boot" /\ dos' = dos
        /\ redirector_reset_requested'
    BY <1>2, Gone DEF CoreInv, PostIcw1, Places
  <2> QED
    BY <2>1 DEF FileInv, ProperInv, HandleInv, ReadInv, Served
<1>3. CASE Boot
  <2>1. guest.at = "boot" /\ guest'.at = "idle" /\ dos' = dos
    BY <1>3, Gone DEF CoreInv, Boot, Places
  <2>2. /\ \A h \in Handles : ~open_used'[h]
        /\ \A s \in Sfts : dos'[s] = NoFile
    BY <1>3, <2>1 DEF Boot, FileInv, HandleInv
  <2>3. After' = dos' /\ ~Served'
    BY <2>1 DEF After, Served
  <2>4. Owned(After)'
    BY <2>2, <2>3 DEF Owned
  <2> QED
    BY <2>1, <2>3, <2>4 DEF FileInv, ProperInv, HandleInv, ReadInv
<1> QED
  BY <1>1, <1>2, <1>3

(* The redirector between two calls does.                                  *)
LEMMA TaskFiles ==
  ASSUME CoreInv, FileInv, TaskReset \/ CloseOne \/ ClearFlags
  PROVE  FileInv'
<1>1. guest.at = "boot" /\ guest'.at = "boot" /\ dos' = dos
  BY DEF CoreInv, TurnInv, TaskReset, CloseOne, ClearFlags, NotServing
<1>2. \/ pc0' = "closing"
      \/ pc0' = "loop" /\ ~pending' /\ \A h \in Handles : ~open_used'[h]
  <2>1. CASE TaskReset \/ CloseOne
    BY <2>1 DEF TaskReset, CloseOne
  <2>2. CASE ClearFlags
    BY <2>2 DEF ClearFlags
  <2> QED
    BY <2>1, <2>2
<1> QED
  BY <1>1, <1>2 DEF FileInv, ProperInv, HandleInv, ReadInv, Served

(* Its turns that touch no file do.                                        *)
LEMMA TurnFiles ==
  ASSUME CoreInv, FileInv, TakeRequest \/ Finish
  PROVE  FileInv'
<1>1. /\ UNCHANGED <<guestVars, memory, handles>>
      /\ (TakeRequest /\ pending /\ pc0 = "loop" /\ pc0' = "dispatch"
            /\ ~redirector_reset_requested /\ done' = done)
         \/ (Finish /\ pc0 = "finish" /\ done' /\ answer' = answer)
  BY DEF TakeRequest, Finish, NotServing
<1>2. (Served' <=> Served) /\ (Served => answer' = answer)
  BY <1>1 DEF CoreInv, TurnInv, Served
<1>3. After' = After
  BY <1>1, <1>2 DEF After
<1>4. ASSUME guest.at \notin {"post", "boot"} PROVE Owned(After)'
  <2>1. Owned(After)
    BY <1>4 DEF FileInv, HandleInv
  <2> QED
    BY <1>1, <1>3, <2>1 DEF Owned, Valid
<1>5. guest.at = "boot" => redirector_reset_requested'
  BY <1>1 DEF FileInv, HandleInv, TakeRequest, Finish
<1> QED
  BY <1>1, <1>2, <1>4, <1>5 DEF FileInv, ProperInv, HandleInv, ReadInv

(* fn_open does.                                                           *)
LEMMA OpenFiles ==
  ASSUME CoreInv, FileInv, fn_open, guest.at = "wait",
         guest.call \in Calls, Fn = guest.call.fn, Sft = guest.call.sft,
         regs[0].call = guest.call, ~Served, Served', guest' = guest,
         dos' = dos
  PROVE  Owned(After)' /\ guest.call.fn = "open"
<1>1. guest.call.fn = "open" /\ Owned(dos)
  BY DEF fn_open, Serving, FileInv, HandleInv, After
<1>2. guest.call.sft \in Sfts /\ guest.call.file # NoFile
      /\ dos[guest.call.sft] = NoFile
  BY <1>1, CallFields DEF FileInv, ProperInv, OnFile
<1>3. CASE UNCHANGED <<handles, sft_handle>> /\ answer' # "ok"
  <2>1. After' = dos'
    BY <1>3 DEF After
  <2> QED
    BY <1>1, <1>3, <2>1 DEF Owned, Valid
<1>4. CASE OpenSucceeds /\ FreeHandles # {}
  <2> DEFINE h == FreeHandle
             t == guest.call.sft
             table == [dos EXCEPT ![t] = guest.call.file]
  <2>1. h \in Handles /\ ~open_used[h]
    BY <1>4, FreeHandleIsFree
  <2>2. /\ open_used' = [open_used EXCEPT ![h] = TRUE]
        /\ open_files' = [open_files EXCEPT ![h] = guest.call.file]
        /\ sft_handle' = [sft_handle EXCEPT ![t] = h]
        /\ answer' = "ok"
    BY <1>4 DEF OpenSucceeds, Result
  <2>3. After' = table
    BY <1>1, <2>2 DEF After
  <2> HIDE DEF h
  <2>4. /\ open_used \in [Handles -> BOOLEAN] /\ DOMAIN open_files = Handles
        /\ DOMAIN sft_handle = Sfts /\ DOMAIN dos = Sfts
    BY DEF CoreInv, TypeOK
  <2>5. \A s \in Sfts : s # t =>
          table[s] = dos[s] /\ sft_handle'[s] = sft_handle[s]
    BY <2>2, <2>4
  <2>6. table[t] = guest.call.file /\ sft_handle'[t] = h
    BY <1>2, <2>2, <2>4
  <2>7. open_used'[h] /\ open_files'[h] = guest.call.file
    BY <2>1, <2>2, <2>4
  <2>8. \A i \in Handles : i # h =>
          (open_used'[i] <=> open_used[i]) /\ open_files'[i] = open_files[i]
    BY <2>2, <2>4
  <2>9. \A s \in Sfts : s # t /\ table[s] # NoFile =>
          sft_handle[s] # h /\ sft_handle[s] \in Handles
            /\ open_used[sft_handle[s]]
            /\ open_files[sft_handle[s]] = table[s]
    BY <1>1, <2>1, <2>5 DEF Owned, Valid
  <2>10. \A s \in Sfts : table[s] # NoFile =>
           sft_handle'[s] \in Handles /\ open_used'[sft_handle'[s]]
             /\ open_files'[sft_handle'[s]] = table[s]
    <3> SUFFICES ASSUME NEW s \in Sfts, table[s] # NoFile
                 PROVE  sft_handle'[s] \in Handles /\ open_used'[sft_handle'[s]]
                          /\ open_files'[sft_handle'[s]] = table[s]
      OBVIOUS
    <3>1. CASE s = t
      BY <2>1, <2>6, <2>7, <3>1
    <3>2. CASE s # t
      <4> HIDE DEF table
      <4> QED
        BY <2>5, <2>8, <2>9, <3>2
    <3> QED
      BY <3>1, <3>2
  <2>11. \A r, s \in Sfts :
           table[r] # NoFile /\ table[s] # NoFile
             /\ sft_handle'[r] = sft_handle'[s] => r = s
    <3> HIDE DEF table
    <3> QED
      BY <1>1, <2>5, <2>6, <2>9 DEF Owned
  <2>12. \A i \in Handles : open_used'[i] =>
           \E s \in Sfts : table[s] # NoFile /\ sft_handle'[s] = i
    <3> SUFFICES ASSUME NEW i \in Handles, open_used'[i]
                 PROVE  \E s \in Sfts : table[s] # NoFile /\ sft_handle'[s] = i
      OBVIOUS
    <3>1. CASE i = h
      BY <1>2, <2>6, <3>1
    <3>2. CASE i # h
      <4>1. PICK s \in Sfts : dos[s] # NoFile /\ sft_handle[s] = i
        BY <1>1, <2>8, <3>2 DEF Owned
      <4>2. s # t
        BY <1>2, <4>1
      <4> QED
        BY <2>5, <4>1, <4>2
    <3> QED
      BY <3>1, <3>2
  <2> HIDE DEF table
  <2> QED
    BY <1>1, <2>3, <2>10, <2>11, <2>12 DEF Owned, Valid
<1> QED
  BY <1>1, <1>3, <1>4 DEF fn_open, OpenFails, Result

(* fn_close does.                                                          *)
LEMMA CloseFiles ==
  ASSUME CoreInv, FileInv, fn_close, guest.at = "wait",
         guest.call \in Calls, Fn = guest.call.fn, Sft = guest.call.sft,
         guest.call.fn # "commit", ~Served, Served', guest' = guest, dos' = dos
  PROVE  Owned(After)' /\ guest.call.fn = "close" /\ answer' = "ok"
<1> DEFINE t == guest.call.sft
           h == sft_handle[t]
           table == [dos EXCEPT ![t] = NoFile]
<1>1. guest.call.fn = "close" /\ Owned(dos)
  BY DEF fn_close, Serving, FileInv, HandleInv, After
<1>2. t \in Sfts /\ dos[t] # NoFile
  BY <1>1, CallFields DEF FileInv, ProperInv, OnFile
<1>3. h \in Handles /\ open_used[h]
  BY <1>1, <1>2 DEF Owned, Valid
<1>4. /\ open_used' = [open_used EXCEPT ![h] = FALSE]
      /\ open_files' = [open_files EXCEPT ![h] = NoFile]
      /\ sft_handle' = sft_handle /\ answer' = "ok"
  BY <1>3 DEF fn_close, Valid, Result
<1>5. After' = table
  BY <1>1, <1>4 DEF After
<1>6. /\ open_used \in [Handles -> BOOLEAN] /\ DOMAIN open_files = Handles
      /\ DOMAIN dos = Sfts
  BY DEF CoreInv, TypeOK
<1>7. table[t] = NoFile /\ \A s \in Sfts : s # t => table[s] = dos[s]
  BY <1>2, <1>6
<1>8. ~open_used'[h]
      /\ \A i \in Handles : i # h =>
           (open_used'[i] <=> open_used[i]) /\ open_files'[i] = open_files[i]
  BY <1>3, <1>4, <1>6
<1> HIDE DEF table
<1>9. \A s \in Sfts : table[s] # NoFile =>
        s # t /\ dos[s] = table[s] /\ sft_handle[s] # h
  BY <1>1, <1>2, <1>7 DEF Owned
<1> HIDE DEF h
<1>10. \A s \in Sfts : table[s] # NoFile =>
         sft_handle[s] \in Handles /\ open_used'[sft_handle[s]]
           /\ open_files'[sft_handle[s]] = table[s]
  BY <1>1, <1>8, <1>9 DEF Owned, Valid
<1>11. \A r, s \in Sfts :
         table[r] # NoFile /\ table[s] # NoFile
           /\ sft_handle[r] = sft_handle[s] => r = s
  BY <1>1, <1>9 DEF Owned
<1>12. \A i \in Handles : open_used'[i] =>
         \E s \in Sfts : table[s] # NoFile /\ sft_handle[s] = i
  <2> SUFFICES ASSUME NEW i \in Handles, open_used'[i]
               PROVE  \E s \in Sfts : table[s] # NoFile /\ sft_handle[s] = i
    OBVIOUS
  <2>1. PICK s \in Sfts : dos[s] # NoFile /\ sft_handle[s] = i
    BY <1>1, <1>8 DEF Owned
  <2>2. s # t
    BY <1>8, <2>1 DEF h
  <2> QED
    BY <1>7, <2>1, <2>2
<1>13. Owned(After)'
  BY <1>4, <1>5, <1>10, <1>11, <1>12 DEF Owned, Valid
<1> QED
  BY <1>1, <1>4, <1>13

(* Every function does.                                                    *)
LEMMA FunctionFiles ==
  ASSUME "commit" \notin Functions, CoreInv, FileInv, Function
  PROVE  FileInv'
<1>1. /\ pc0 = "dispatch" /\ pc0' = "finish" /\ guest' = guest /\ dos' = dos
      /\ redirector_reset_requested' = redirector_reset_requested
      /\ done' = done
  BY FunctionAnswers DEF Elsewhere
<1>2. guest.at \in {"wait", "post", "boot"}
  <2>1. guest.at \in Places
    BY DEF CoreInv, TypeOK
  <2> QED
    BY <1>1, <2>1 DEF CoreInv, Places, TurnInv
<1>3. CASE guest.at # "wait"
  <2>1. guest.at = "boot" => redirector_reset_requested
    BY <1>1 DEF FileInv, HandleInv
  <2> QED
    BY <1>1, <1>2, <1>3, <2>1 DEF FileInv, ProperInv, HandleInv, ReadInv,
        Served
<1>4. CASE guest.at = "wait"
  <2>1. ~Served /\ Served'
    BY <1>1, <1>4 DEF CoreInv, TurnInv, Served
  <2>2. PICK v \in Verdicts, e \in Codes : Result(v, e)
    BY FunctionAnswers
  <2>3. /\ Fn = guest.call.fn /\ Sft = guest.call.sft
        /\ regs[0].call = guest.call /\ guest.call \in Calls
    BY <1>4, <2>2, FunctionWords
  <2>4. guest.call.fn # "commit"
    BY <2>3, CallFields
  <2>5. ProperInv'
    BY <1>1, <1>4 DEF FileInv, ProperInv
  <2>6. Owned(dos)
    BY <1>4, <2>1 DEF FileInv, HandleInv, After
  <2>7. CASE fn_install_check \/ fn_lookup \/ fn_disk_info \/ Declined
    <3>1. guest.call.fn \notin {"open", "close", "read"}
          /\ UNCHANGED <<handles, sft_handle>>
      BY <2>3, <2>7 DEF fn_install_check, fn_lookup, fn_disk_info, Declined,
                        Serving
    <3>2. After' = dos'
      BY <1>1, <3>1 DEF After
    <3>3. Owned(After)'
      BY <1>1, <2>6, <3>1, <3>2 DEF Owned, Valid
    <3> QED
      BY <1>1, <1>4, <2>5, <3>1, <3>3 DEF FileInv, HandleInv, ReadInv
  <2>8. CASE fn_open
    <3>1. Owned(After)' /\ guest.call.fn = "open"
      BY <1>1, <1>4, <2>1, <2>3, <2>8, OpenFiles
    <3> QED
      BY <1>1, <1>4, <2>5, <3>1 DEF FileInv, HandleInv, ReadInv
  <2>9. CASE fn_close
    <3>1. Owned(After)' /\ guest.call.fn = "close"
      BY <1>1, <1>4, <2>1, <2>3, <2>4, <2>9, CloseFiles
    <3> QED
      BY <1>1, <1>4, <2>5, <3>1 DEF FileInv, HandleInv, ReadInv
  <2>10. CASE fn_read
    <3>1. guest.call.fn = "read" /\ UNCHANGED <<handles, sft_handle>>
      BY <2>3, <2>10 DEF fn_read, Serving
    <3>2. After' = dos'
      BY <1>1, <3>1 DEF After
    <3>3. Owned(After)'
      BY <1>1, <2>6, <3>1, <3>2 DEF Owned, Valid
    <3>4. guest.call.sft \in Sfts /\ dos[guest.call.sft] = guest.call.file
          /\ guest.call.file # NoFile
      BY <1>4, <2>3, <3>1, CallFields DEF FileInv, ProperInv, OnFile
    <3>5. open_files[sft_handle[Sft]] = guest.call.file
      BY <2>3, <2>6, <3>4 DEF Owned
    <3>6. answer' = "ok" => dta' = guest.call.file
      BY <2>10, <3>5 DEF fn_read, Result
    <3> QED
      BY <1>1, <1>4, <2>5, <3>1, <3>3, <3>6 DEF FileInv, HandleInv, ReadInv
  <2> QED
    BY <2>7, <2>8, <2>9, <2>10 DEF Function
<1> QED
  BY <1>3, <1>4

(* Every step does.                                                        *)
LEMMA FileNext ==
  ASSUME "commit" \notin Functions, CoreInv, CoreInv', FileInv, [Next]_vars
  PROVE  FileInv'
<1>1. CASE UNCHANGED vars
  BY <1>1 DEF FileInv, ProperInv, HandleInv, ReadInv, Owned, After, Valid,
      Served
<1>2. CASE Guest
  BY <1>2, AdvanceFiles, CallFiles, ReturnFiles, RebootFiles
  DEF Guest, Advance
<1>3. CASE Core0
  BY <1>3, TaskFiles, TurnFiles, FunctionFiles DEF Core0, Function
<1> QED
  BY <1>1, <1>2, <1>3 DEF Next

(* What is said of the files holds for good.                               *)
LEMMA FileInvariant == ASSUME "commit" \notin Functions PROVE Spec => []FileInv
<1>1. Init => CoreInv /\ FileInv
  BY InitCoreInv, InitFileInv
<1>2. CoreInv /\ CoreInv' /\ FileInv /\ [Next]_vars => FileInv'
  BY FileNext
<1> QED
  BY <1>1, <1>2, CoreInvariant, PTL DEF Spec

(* Between two calls of a DOS that does not commit the handles in use are  *)
(* those of its open files, one each and on the right file: none leaks,    *)
(* over resets either, and none is shared.                                 *)
THEOREM HandlesBelong ==
  ASSUME "commit" \notin Functions
  PROVE  Spec => []HandlesOwned
<1>1. FileInv => HandlesOwned
  <2> SUFFICES ASSUME FileInv, guest.at = "idle" PROVE HandlesOwned
    BY DEF HandlesOwned
  <2>1. Owned(dos)
    BY DEF FileInv, HandleInv, After, Served
  <2> QED
    BY <2>1 DEF HandlesOwned, Owned
<1> QED
  BY <1>1, FileInvariant, PTL

(* Nor does such a DOS ever read from another file than the one it has     *)
(* open: it is the commit alone that lets one handle serve two.            *)
THEOREM OwnFileRead ==
  ASSUME "commit" \notin Functions
  PROVE  Spec => []ReadsOwnFile
<1>1. CoreInv /\ FileInv => ReadsOwnFile
  <2> SUFFICES ASSUME CoreInv, FileInv, guest.at = "return",
                      guest.call.fn = "read", verdict = "ok"
               PROVE  dta = guest.call.file
    BY DEF ReadsOwnFile
  <2>1. verdict = answer /\ Served
    BY DEF CoreInv, FrameInv, Served
  <2> QED
    BY <2>1 DEF FileInv, ReadInv
<1> QED
  BY <1>1, CoreInvariant, FileInvariant, PTL

-----------------------------------------------------------------------------
(* The remote drive that DOS sees.                                         *)

(* What an answer on its way says of the handles.                          *)
AnswerInv ==
  /\ Served /\ guest.call.fn = "close" => answer = "ok"
  /\ Served /\ guest.call.fn = "open" /\ answer = "error"
       /\ code = "too_many_files" => \A h \in Handles : open_used[h]

(* As many files are held as handles are used.                             *)
LEMMA Counted ==
  ASSUME NEW S
  PROVE  Drive!Cardinality(S) = Cardinality(S)
  BY Zenon DEF Drive!Cardinality, Cardinality

(* When every handle is in use DOS holds as many files as there are.       *)
LEMMA AllHandlesHeld ==
  ASSUME CoreInv, Owned(dos), \A h \in Handles : open_used[h]
  PROVE  Cardinality(Drive!Held) = MaxOpenFiles
<1> DEFINE H == Drive!Held
           f == [h \in Handles |-> CHOOSE s \in H : sft_handle[s] = h]
<1>1. H = {s \in Sfts : dos[s] # NoFile}
  BY DEF Drive!Held
<1> HIDE DEF H
<1>2. ASSUME NEW h \in Handles
      PROVE  f[h] \in H /\ sft_handle[f[h]] = h
  <2>1. \E s \in H : sft_handle[s] = h
    BY <1>1 DEF Owned
  <2> QED
    BY <2>1
<1>3. f \in [Handles -> H]
  BY <1>2
<1>4. \A g, h \in Handles : f[g] = f[h] => g = h
  BY <1>2
<1>5. \A s \in H : \E h \in Handles : f[h] = s
  <2> SUFFICES ASSUME NEW s \in H PROVE \E h \in Handles : f[h] = s
    OBVIOUS
  <2>1. s \in Sfts /\ dos[s] # NoFile /\ sft_handle[s] \in Handles
    BY <1>1 DEF Owned, Valid
  <2> DEFINE h == sft_handle[s]
  <2>2. f[h] \in H /\ sft_handle[f[h]] = h
    BY <1>2, <2>1
  <2>3. f[h] = s
    BY <1>1, <2>1, <2>2 DEF Owned
  <2> QED
    BY <2>1, <2>3
<1> HIDE DEF f
<1>6. f \in Bijection(Handles, H)
  BY <1>3, <1>4, <1>5 DEF Bijection, Injection, Surjection, IsInjective
<1>7. IsFiniteSet(Handles) /\ Cardinality(Handles) = MaxOpenFiles
  BY FS_Interval, RedirectorAssumption DEF Handles
<1>8. Cardinality(H) = Cardinality(Handles)
  BY <1>6, <1>7, FS_Bijection DEF ExistsBijection
<1> QED
  BY <1>7, <1>8 DEF H

(* The answer of a function is one the drive may give.                     *)
LEMMA AnswerNext ==
  ASSUME "commit" \notin Functions, CoreInv, FileInv, AnswerInv, [Next]_vars
  PROVE  AnswerInv'
<1>1. CASE UNCHANGED vars
  BY <1>1 DEF AnswerInv, Served
<1>2. CASE Advance
  BY <1>2, AdvanceOnly DEF AnswerInv
<1>3. CASE Call \/ Return \/ ResetGuest
  <2>1. ~Served'
    BY <1>3 DEF Call, Return, ResetGuest, Served
  <2> QED
    BY <2>1 DEF AnswerInv
<1>4. CASE PostIcw1 \/ Boot
  <2>1. guest'.at \in {"boot", "idle"}
    BY <1>4, Gone DEF CoreInv, PostIcw1, Boot, Places
  <2> QED
    BY <2>1 DEF AnswerInv, Served
<1>5. CASE TaskReset \/ CloseOne \/ ClearFlags
  <2>1. guest'.at = "boot"
    BY <1>5 DEF CoreInv, TurnInv, TaskReset, CloseOne, ClearFlags, NotServing
  <2> QED
    BY <2>1 DEF AnswerInv, Served
<1>6. CASE TakeRequest
  <2>1. ~Served'
    BY <1>6 DEF CoreInv, TurnInv, TakeRequest, NotServing, Served
  <2> QED
    BY <2>1 DEF AnswerInv
<1>7. CASE Finish
  <2>1. Served' => Served
    BY <1>7 DEF Finish, NotServing, Served
  <2> QED
    BY <1>7, <2>1 DEF AnswerInv, Finish, NotServing
<1>8. CASE Function
  <2> SUFFICES ASSUME Served' PROVE AnswerInv'
    BY DEF AnswerInv
  <2>1. pc0 = "dispatch" /\ guest' = guest /\ dos' = dos /\ done' = done
    BY <1>8, FunctionAnswers DEF Elsewhere
  <2>2. guest.at = "wait" /\ ~Served
    BY <2>1 DEF CoreInv, TurnInv, Served
  <2>3. PICK v \in Verdicts, e \in Codes : Result(v, e)
    BY <1>8, FunctionAnswers
  <2>4. /\ Fn = guest.call.fn /\ Sft = guest.call.sft
        /\ guest.call \in Calls /\ guest.call.fn # "commit"
    BY <1>8, <2>2, <2>3, FunctionWords, CallFields
  <2>5. ASSUME guest.call.fn = "close" PROVE answer' = "ok"
    <3>1. fn_close
      BY <1>8, <2>4, <2>5 DEF Function, fn_install_check, fn_lookup,
         fn_disk_info, Declined, fn_open, fn_read, Serving
    <3> QED
      BY <2>1, <2>2, <2>4, <3>1, CloseFiles
  <2>6. ASSUME guest.call.fn = "open", answer' = "error",
               code' = "too_many_files"
        PROVE  \A h \in Handles : open_used'[h]
    <3>1. fn_open
      BY <1>8, <2>4, <2>6 DEF Function, fn_install_check, fn_lookup,
         fn_disk_info, Declined, fn_close, fn_read, Serving
    <3>2. FreeHandles = {} /\ UNCHANGED handles
      BY <2>6, <3>1 DEF fn_open, OpenFails, OpenSucceeds, Result
    <3> QED
      BY <3>2 DEF FreeHandles
  <2> QED
    BY <2>1, <2>5, <2>6 DEF AnswerInv
<1> QED
  BY <1>1, <1>2, <1>3, <1>4, <1>5, <1>6, <1>7, <1>8
  DEF Next, Guest, Core0, Advance, Function

(* DOS has an answer as soon as core 0 is done with its call.              *)
Replied == /\ done /\ pc0 = "loop"
           /\ guest.at \in {"wait", "recv", "flag", "return"}

Reply ==
  IF Replied
    THEN [verdict |-> IF guest.at = "return" THEN verdict ELSE answer,
          code |-> code,
          from |-> IF guest.call.fn = "read" THEN dta ELSE NoFile]
    ELSE NoReply

(* A step that the abstract drive does not see.                            *)
LEMMA SameDrive ==
  ASSUME dos' = dos, guest'.call = guest.call, Reply' = Reply
  PROVE  UNCHANGED Drive!vars
  BY DEF Drive!vars, Reply, Replied

(* The answer as core 0 gave it.                                           *)
LEMMA ReplyIs ==
  ASSUME CoreInv
  PROVE  /\ Replied => Served
         /\ Replied => Reply =
              [verdict |-> answer, code |-> code,
               from |-> IF guest.call.fn = "read" THEN dta ELSE NoFile]
         /\ Replied => Reply \in Replies /\ Reply # NoReply
         /\ Served /\ pc0 = "loop" => Replied
<1>1. Replied => Served
  BY DEF Replied, Served
<1>2. guest.at = "return" => verdict = answer
  BY DEF CoreInv, FrameInv
<1>3. answer \in Verdicts /\ code \in Codes /\ dta \in Files \cup {NoFile}
  BY DEF CoreInv, TypeOK
<1>4. Served /\ pc0 = "loop" => Replied
  BY DEF CoreInv, TurnInv, Served, Replied
<1>5. ASSUME Replied
      PROVE  /\ Reply = [verdict |-> answer, code |-> code,
                         from |-> IF guest.call.fn = "read" THEN dta
                                                            ELSE NoFile]
             /\ Reply \in Replies /\ Reply # NoReply
  <2>1. Reply = [verdict |-> answer, code |-> code,
                 from |-> IF guest.call.fn = "read" THEN dta ELSE NoFile]
    BY <1>2, <1>5 DEF Reply
  <2>2. Reply \in Replies
    BY <1>3, <2>1 DEF Replies
  <2>3. Reply.verdict # NoReply.verdict
    BY <1>3, <2>1 DEF NoReply, Verdicts
  <2> QED
    BY <2>1, <2>2, <2>3
<1> QED
  BY <1>1, <1>4, <1>5

(* The way through a call is none of its steps.                            *)
LEMMA AdvanceImplements ==
  ASSUME CoreInv, CoreInv', Advance
  PROVE  UNCHANGED Drive!vars
<1>1. Reply' = Reply
  <2>1. CASE ~Served
    <3>1. ~Replied /\ ~Replied'
      BY <2>1, AdvanceOnly DEF Served, Replied
    <3> QED
      BY <3>1 DEF Reply
  <2>2. CASE Served
    <3>1. pc0 = "loop" /\ pc0' = "loop"
      <4>1. ~(Begin \/ Send \/ Exec)
        BY <2>2 DEF Begin, Send, Exec, Goes, Served
      <4>2. pc0 = "loop"
        BY <2>2, <4>1 DEF Advance, Poll, Receive, ReceiveFlag, Goes, CoreInv,
                          TurnInv
      <4> QED
        BY <4>2, AdvanceOnly
    <3>2. Replied /\ Replied'
      <4>1. Replied
        BY <2>2, <3>1 DEF CoreInv, TurnInv, Served, Replied
      <4>2. Served'
        BY <2>2, AdvanceOnly
      <4>3. Replied'
        BY <3>1, <4>2 DEF CoreInv, TurnInv, Served, Replied
      <4> QED
        BY <4>1, <4>3
    <3>3. guest.at = "return" => verdict = answer
      BY DEF CoreInv, FrameInv
    <3>4. guest'.at = "return" => verdict' = answer'
      BY DEF CoreInv, FrameInv
    <3> QED
      BY <3>2, <3>3, <3>4, AdvanceOnly DEF Reply
  <2> QED
    BY <2>1, <2>2
<1> QED
  BY <1>1, AdvanceOnly, SameDrive

(* A call is a request.                                                    *)
LEMMA CallImplements == ASSUME CoreInv, Call PROVE Drive!Ask
<1>1. PICK c \in Calls :
        /\ c.fn = "open" => dos[c.sft] = NoFile
        /\ c.fn \in OnFile \ {"open"} => dos[c.sft] = c.file
        /\ guest' = [at |-> "begin", call |-> c, n |-> 0]
  BY DEF Call
<1>2. guest.at = "idle" /\ guest.call = NoCall /\ dos' = dos
  BY DEF Call, CoreInv, WindowInv
<1>3. Drive!Proper(c)
  BY <1>1 DEF Drive!Proper, OnFile
<1>4. ~Replied /\ ~Replied'
  BY <1>1, <1>2 DEF Replied
<1> QED
  BY <1>1, <1>2, <1>3, <1>4 DEF Drive!Ask, Replied

(* Its return is the return.                                               *)
LEMMA ReturnImplements ==
  ASSUME CoreInv, AnswerInv, Return
  PROVE  Drive!Return
<1>1. /\ guest.at = "return" /\ guest'.call = NoCall /\ guest'.at = "idle"
      /\ guest.call \in Calls /\ guest.call # NoCall
  <2>1. guest.at = "return" /\ guest' = [at |-> "idle", call |-> NoCall, n |-> 0]
    BY DEF Return
  <2>2. guest.call \in Calls
    BY <2>1 DEF CoreInv, WindowInv
  <2> QED
    BY <2>1, <2>2, CallFields
<1>2. Replied /\ ~Replied' /\ Served /\ verdict = answer
  BY <1>1 DEF CoreInv, TurnInv, FrameInv, Replied, Served
<1>3. Reply # NoReply /\ Reply.verdict = answer
  BY <1>2, ReplyIs
<1>4. Reply' = NoReply
  BY <1>2 DEF Reply
<1>5. guest.call.fn = "close" => verdict = "ok"
  BY <1>2 DEF AnswerInv
<1>6. dos' = CASE guest.call.fn = "open" /\ Reply.verdict = "ok" ->
                    [dos EXCEPT ![guest.call.sft] = guest.call.file]
               [] guest.call.fn = "close" ->
                    [dos EXCEPT ![guest.call.sft] = NoFile]
               [] OTHER -> dos
  BY <1>2, <1>3, <1>5 DEF Return
<1> QED
  BY <1>1, <1>3, <1>4, <1>6 DEF Drive!Return, Reply, Replied

(* A restart is a restart.                                                 *)
LEMMA RebootImplements ==
  ASSUME CoreInv, CoreInv', FileInv, ResetGuest \/ PostIcw1 \/ Boot
  PROVE  Drive!Reboot
<1>1. /\ guest'.at \in {"post", "boot", "idle"}
      /\ dos' = [s \in Sfts |-> NoFile]
  <2>1. CASE ResetGuest
    BY <2>1 DEF ResetGuest
  <2>2. CASE PostIcw1 \/ Boot
    <3>1. guest.at \in {"post", "boot"} /\ guest'.at \in {"boot", "idle"}
          /\ dos' = dos
      BY <2>2, Gone DEF CoreInv, PostIcw1, Boot, Places
    <3>2. dos \in [Sfts -> Files \cup {NoFile}]
          /\ \A s \in Sfts : dos[s] = NoFile
      BY <3>1 DEF CoreInv, TypeOK, FileInv, HandleInv
    <3>3. dos = [s \in Sfts |-> NoFile]
      BY <3>2
    <3> QED
      BY <3>1, <3>3
  <2> QED
    BY <2>1, <2>2
<1>2. guest'.call = NoCall /\ ~Replied'
  BY <1>1 DEF CoreInv, WindowInv, Replied
<1> QED
  BY <1>1, <1>2 DEF Drive!Reboot, Replied

(* The end of a function serves the request.                               *)
LEMMA FinishImplements ==
  ASSUME "commit" \notin Functions,
         CoreInv, CoreInv', FileInv, AnswerInv, Finish
  PROVE  Drive!Serve(Replies) \/ UNCHANGED Drive!vars
<1>1. /\ pc0 = "finish" /\ pc0' = "loop" /\ done' /\ guest' = guest
      /\ UNCHANGED <<answer, code, dos, dta>>
  BY DEF Finish, NotServing
<1>2. ~Replied /\ Reply = NoReply
  BY <1>1 DEF Replied, Reply
<1>3. CASE guest.at \notin InCall
  <2>1. ~Replied'
    BY <1>1, <1>3 DEF Replied
  <2>2. Reply' = NoReply
    BY <2>1 DEF Reply
  <2> QED
    BY <1>1, <1>2, <2>2, SameDrive
<1>4. CASE guest.at \in InCall
  <2>1. guest.at = "wait" /\ Served
    BY <1>1, <1>4 DEF CoreInv, TurnInv, Served
  <2>2. guest.call \in Calls /\ guest.call # NoCall
    BY <2>1, CallFields DEF CoreInv, WindowInv
  <2>3. Replied'
    BY <1>1, <2>1 DEF Replied
  <2>4. Reply' = [verdict |-> answer, code |-> code,
                  from |-> IF guest.call.fn = "read" THEN dta ELSE NoFile]
    BY <1>1, <2>1, <2>3 DEF Reply
  <2>5. Reply' \in Replies
    BY <2>4 DEF CoreInv, TypeOK, Replies
  <2>6. ASSUME answer = "ok", guest.call.fn = "read"
        PROVE  Reply'.from = guest.call.file
    BY <2>1, <2>4, <2>6 DEF FileInv, ReadInv
  <2>7. ASSUME answer = "error", guest.call.fn = "open",
               code = "too_many_files"
        PROVE  Cardinality(Drive!Held) >= MaxOpenFiles
    <3>1. Owned(dos)
      BY <2>1, <2>7 DEF FileInv, HandleInv, After
    <3>2. Cardinality(Drive!Held) = MaxOpenFiles
      BY <2>1, <2>7, <3>1, AllHandlesHeld DEF AnswerInv
    <3> QED
      BY <3>2, RedirectorAssumption
  <2>8. guest.call.fn = "close" => answer = "ok"
    BY <2>1 DEF AnswerInv
  <2>9. guest.call.fn # "commit"
    BY <2>2, CallFields
  <2>10. PICK r \in Replies : r = Reply'
    BY <2>5
  <2>11. Drive!Fitting(guest.call, r)
    <3>1. r.verdict = answer /\ r.code = code
      BY <2>4, <2>10
    <3>2. r.verdict = "ok" /\ guest.call.fn = "read" => r.from = guest.call.file
      BY <2>6, <2>10, <3>1
    <3>3. r.verdict = "error" /\ guest.call.fn = "open"
            /\ r.code = "too_many_files" =>
              Cardinality(Drive!Held) >= MaxOpenFiles
      BY <2>7, <3>1
    <3>4. guest.call.fn \in {"close", "commit"} => r.verdict = "ok"
      BY <2>8, <2>9, <3>1
    <3> QED
      BY <3>2, <3>3, <3>4, Counted DEF Drive!Fitting
  <2>12. guest'.call = guest.call
    BY <1>1
  <2> QED
    BY <1>1, <1>2, <2>2, <2>10, <2>11, <2>12 DEF Drive!Serve, Reply, Replied
<1> QED
  BY <1>3, <1>4

(* The rest is no step of the drive.                                       *)
LEMMA QuietImplements ==
  ASSUME CoreInv, TaskReset \/ CloseOne \/ ClearFlags \/ TakeRequest \/ Function
  PROVE  UNCHANGED Drive!vars
<1>1. guest' = guest /\ dos' = dos
  BY FunctionAnswers DEF TaskReset, CloseOne, ClearFlags, TakeRequest,
                         NotServing, Elsewhere
<1>2. ~Replied /\ ~Replied'
  <2>1. CASE TaskReset \/ CloseOne \/ ClearFlags
    <3>1. guest.at = "boot"
      BY <2>1 DEF CoreInv, TurnInv, TaskReset, CloseOne, ClearFlags
    <3> QED
      BY <1>1, <3>1 DEF Replied
  <2>2. CASE TakeRequest
    BY <1>1, <2>2 DEF CoreInv, TurnInv, Replied, TakeRequest
  <2>3. CASE Function
    BY <2>3, FunctionAnswers DEF Replied
  <2> QED
    BY <2>1, <2>2, <2>3
<1>3. Reply' = Reply
  BY <1>2 DEF Reply
<1> QED
  BY <1>1, <1>3, SameDrive

(* Every step is one of the abstract drive, or none.                       *)
LEMMA StepImplements ==
  ASSUME "commit" \notin Functions,
         CoreInv, CoreInv', FileInv, AnswerInv, [Next]_vars
  PROVE  [Drive!Next(Replies)]_Drive!vars
<1>1. CASE UNCHANGED vars
  BY <1>1 DEF Drive!vars
<1>2. CASE Guest
  BY <1>2, AdvanceImplements, CallImplements, ReturnImplements, RebootImplements
  DEF Guest, Advance, Drive!Next
<1>3. CASE Core0
  BY <1>3, FinishImplements, QuietImplements DEF Core0, Function, Drive!Next
<1> QED
  BY <1>1, <1>2, <1>3 DEF Next

(* To a DOS that does not commit, the window, the resident program and     *)
(* core 0 are the drive of RemoteDrive, with any number of handles.        *)
THEOREM ImplementsDrive ==
  ASSUME "commit" \notin Functions
  PROVE  Spec => ImplementsRemoteDrive
<1>1. Init => CoreInv /\ FileInv /\ AnswerInv /\ Drive!Init
  <2>1. ASSUME Init PROVE AnswerInv /\ Drive!Init
    BY <2>1 DEF Init, AnswerInv, Served, Drive!Init
  <2> QED
    BY <2>1, InitCoreInv, InitFileInv
<1>2. CoreInv /\ FileInv /\ AnswerInv /\ [Next]_vars => AnswerInv'
  BY AnswerNext
<1>3. CoreInv /\ CoreInv' /\ FileInv /\ AnswerInv /\ [Next]_vars
        => [Drive!Next(Replies)]_Drive!vars
  BY StepImplements
<1> QED
  BY <1>1, <1>2, <1>3, CoreInvariant, FileInvariant, PTL
  DEF Spec, ImplementsRemoteDrive


=============================================================================
