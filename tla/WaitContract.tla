----------------------------- MODULE WaitContract -----------------------------
(***************************************************************************)
(* What WaitForBuild of pkg/template promises its caller, with no poll, no *)
(* offset and no interval in sight.  A build writes its log and ends; the  *)
(* caller hears of the log from its first entry on, never of more than     *)
(* there is, and gets one answer: what the build ended with, once it has   *)
(* ended, or that the wait was given up.  Nothing is heard after it.       *)
(*                                                                         *)
(* BuildPoll implements it, and TemplateBuild's Wait is its answer.        *)
(***************************************************************************)
EXTENDS Naturals, Sequences

VARIABLES
  status,   \* the build's: "waiting", "building", "ready", "error", "other"
  logs,     \* how many entries its log has
  onLogs,   \* whether the caller asked to hear of them
  heard,    \* the entries it was told
  ended,    \* the caller's context has ended
  answer    \* [status, err]

vars == <<status, logs, onLogs, heard, ended, answer>>

Final   == {"ready", "error", "other"}
Pending == [status |-> "none", err |-> "none"]

Init ==
  /\ status \in {"waiting", "building", "ready"}
  /\ logs \in Nat
  /\ onLogs \in BOOLEAN
  /\ heard = <<>>
  /\ ended = FALSE
  /\ answer = Pending

\* A build goes on until it ends, and then writes nothing more.
Progress ==
  /\ status \notin Final
  /\ status' \in Final \cup {"building"}
  /\ UNCHANGED <<logs, onLogs, heard, ended, answer>>

Log ==
  /\ status \notin Final
  /\ logs' = logs + 1
  /\ UNCHANGED <<status, onLogs, heard, ended, answer>>

ContextEnds ==
  /\ ended' = TRUE
  /\ UNCHANGED <<status, logs, onLogs, heard, answer>>

\* The next entries of the log, or none.
HearMore ==
  IF onLogs THEN \E n \in Len(heard)..logs : heard' = [i \in 1..n |-> i]
  ELSE UNCHANGED heard

Hear ==
  /\ answer = Pending
  /\ HearMore
  /\ UNCHANGED <<status, logs, onLogs, ended, answer>>

\* The answer, for which the build must have ended, with the last that is heard.
Conclude ==
  /\ answer = Pending
  /\ status \in Final
  /\ HearMore
  /\ answer' = [status |-> status,
                err    |-> IF status = "ready" THEN "none" ELSE "build"]
  /\ UNCHANGED <<status, logs, onLogs, ended>>

\* A call failed, or the context ended.
GiveUp ==
  /\ answer = Pending
  /\ \/ answer' = [status |-> "none", err |-> "call"]
     \/ ended /\ answer' = [status |-> "none", err |-> "context"]
  /\ UNCHANGED <<status, logs, onLogs, heard, ended>>

Next == Progress \/ Log \/ ContextEnds \/ Hear \/ Conclude \/ GiveUp

Spec == Init /\ [][Next]_vars
===============================================================================
