----------------------------- MODULE RemoteDrive -----------------------------
(***************************************************************************)
(* What the network drive promises to DOS: one call at a time, each served *)
(* once and answered with its own answer; a file that DOS has open stays   *)
(* open until DOS closes it or the machine reboots, and what is read from  *)
(* it comes from it; an open is refused for want of handles only when DOS  *)
(* holds as many files as there are.  Redirector implements this.          *)
(***************************************************************************)
EXTENDS FiniteSets, Naturals

CONSTANTS Sfts,          \* DOS's System File Table entries
          Files, NoFile,
          MaxOpenFiles,
          Calls, NoCall,
          NoReply

VARIABLES held,     \* the file each table entry has open
          request,  \* the call being made
          reply     \* its answer, once it is served

vars == <<held, request, reply>>

Held == {s \in Sfts : held[s] # NoFile}

Init == held = [s \in Sfts |-> NoFile] /\ request = NoCall /\ reply = NoReply

(* DOS opens into a free entry, and closes or reads what it has open.      *)
Proper(c) ==
  CASE c.fn = "open"                        -> held[c.sft] = NoFile
    [] c.fn \in {"close", "commit", "read"} -> held[c.sft] = c.file
    [] OTHER                                -> TRUE

Ask == \E c \in Calls :
         /\ request = NoCall /\ Proper(c)
         /\ request' = c
         /\ UNCHANGED <<held, reply>>

(* The answers a call may get.  A decline passes it down the chain of      *)
(* INT 2Fh handlers.                                                       *)
Fitting(c, r) ==
  /\ r.verdict = "ok" /\ c.fn = "read" => r.from = c.file
  /\ r.verdict = "error" /\ c.fn = "open" /\ r.code = "too_many_files" =>
       Cardinality(Held) >= MaxOpenFiles
  /\ c.fn \in {"close", "commit"} => r.verdict = "ok"

Serve(Replies) == \E r \in Replies :
  /\ request # NoCall /\ reply = NoReply
  /\ Fitting(request, r)
  /\ reply' = r
  /\ UNCHANGED <<held, request>>

Return ==
  /\ request # NoCall /\ reply # NoReply
  /\ request' = NoCall /\ reply' = NoReply
  /\ held' = CASE request.fn = "open" /\ reply.verdict = "ok" ->
                    [held EXCEPT ![request.sft] = request.file]
               [] request.fn = "close" -> [held EXCEPT ![request.sft] = NoFile]
               [] OTHER -> held

Reboot ==
  /\ held' = [s \in Sfts |-> NoFile]
  /\ request' = NoCall /\ reply' = NoReply

Next(Replies) == Ask \/ Serve(Replies) \/ Return \/ Reboot
=============================================================================
