------------------------------ MODULE BuildPoll ------------------------------
(***************************************************************************)
(* template/build.go, WaitForBuild: a client polls the status of a build   *)
(* until it is final, hands each log entry a reply carries to a callback,  *)
(* and sleeps between polls for an interval that doubles up to a cap.      *)
(*                                                                         *)
(* The build runs in the control plane: its status moves on and its log    *)
(* grows at any moment, also between a reply's being written and its being *)
(* acted upon.  A log entry is its number; a reply carries at most Limit   *)
(* entries, since the poll asks for no other limit.                        *)
(*                                                                         *)
(* Its specification is PollSpec: TemplateBuild, the sequence that ends in *)
(* this wait, has the plain names, and their theorems are proved together. *)
(***************************************************************************)
EXTENDS Naturals, Sequences

CONSTANTS Limit,     \* entries in one reply (spec/openapi.yml: 100)
          MaxLogs,   \* bound: entries a build writes
          Initial,   \* initialPollInterval
          Longest    \* maxPollInterval

ASSUME LimitAssumption == Limit \in Nat \ {0}
ASSUME MaxLogsAssumption == MaxLogs \in Nat
ASSUME IntervalAssumption == /\ Initial \in Nat \ {0}
                             /\ Longest \in Nat
                             /\ Initial <= Longest

VARIABLES
  status,     \* the build's: "waiting", "building", "ready", "error", "other"
  logs,       \* how many entries its log has
  pc,         \* WaitForBuild: "check", "asked", "answered", "sleep", "done"
  reply,      \* the reply being delivered or acted upon: [status, from, count]
  logsOffset, \* as in the code
  interval,   \* as in the code
  onLogs,     \* whether the caller passed a callback
  forwarded,  \* history: the entries handed to it
  ended,      \* the context has ended
  result,     \* what is returned: [status, err]
  slept,      \* history: the time slept while the build was not final
  late        \* history: the time slept since

served   == <<status, logs>>
times    == <<slept, late>>
pollVars == <<status, logs, pc, reply, logsOffset, interval, onLogs, forwarded,
              ended, result, slept, late>>

Final   == {"ready", "error", "other"}
NoReply == [status |-> "waiting", from |-> 0, count |-> 0]
Least(a, b) == IF a < b THEN a ELSE b

PollInit ==
  /\ status \in {"waiting", "building", "ready"}
  /\ logs \in 0..MaxLogs
  /\ pc = "check"
  /\ reply = NoReply
  /\ logsOffset = 0
  /\ interval = Initial
  /\ onLogs \in BOOLEAN
  /\ forwarded = <<>>
  /\ ended = FALSE
  /\ result = [status |-> "none", err |-> "none"]
  /\ slept = 0 /\ late = 0

-----------------------------------------------------------------------------
(* The build and the control plane.                                         *)

\* A status the SDK does not know may only follow one it does.
Progress ==
  /\ status \notin Final
  /\ \/ status = "waiting" /\ status' = "building"
     \/ status = "building" /\ status' \in Final
     \/ status = "waiting" /\ status' \in {"error", "other"}
  /\ UNCHANGED <<logs, pc, reply, logsOffset, interval, onLogs, forwarded,
                 ended, result, times>>

\* A build that is over writes nothing more.
Log ==
  /\ status \notin Final
  /\ logs < MaxLogs
  /\ logs' = logs + 1
  /\ UNCHANGED <<status, pc, reply, logsOffset, interval, onLogs, forwarded,
                 ended, result, times>>

\* The status and the entries from the offset on, as they are at this moment.
Answer ==
  /\ pc = "asked"
  /\ reply' = [status |-> status, from |-> logsOffset,
               count |-> Least(Limit, logs - logsOffset)]
  /\ pc' = "answered"
  /\ UNCHANGED <<served, logsOffset, interval, onLogs, forwarded, ended, result, times>>

ContextEnds ==
  /\ ~ended
  /\ ended' = TRUE
  /\ UNCHANGED <<served, pc, reply, logsOffset, interval, onLogs, forwarded, result, times>>

-----------------------------------------------------------------------------
(* WaitForBuild.                                                            *)

Returns(s, e) == /\ pc' = "done"
                 /\ result' = [status |-> s, err |-> e]

\* The top of the loop: the context, then the poll.
Check ==
  /\ pc = "check"
  /\ \/ ended /\ Returns("none", "context")
     \/ ~ended /\ pc' = "asked" /\ UNCHANGED result
  /\ UNCHANGED <<served, reply, logsOffset, interval, onLogs, forwarded, ended, times>>

\* Any failing call ends the wait, whether the build has failed or not.
PollFails ==
  /\ pc \in {"asked", "answered"}
  /\ Returns("none", IF ended THEN "context" ELSE "call")
  /\ UNCHANGED <<served, reply, logsOffset, interval, onLogs, forwarded, ended, times>>

Entries == [i \in 1..reply.count |-> reply.from + i]

\* As Verdict, a failed build taken for one still going (a mutant).
VerdictIgnoresError ==
  \/ reply.status = "ready" /\ Returns("ready", "none")
  \/ reply.status = "other" /\ Returns("other", "build")
  \/ reply.status \in {"building", "waiting", "error"} /\ pc' = "sleep" /\ UNCHANGED result

\* As Verdict, an unknown status taken for the end of a good build (a mutant).
VerdictTrustsUnknown ==
  \/ reply.status = "error" /\ Returns("error", "build")
  \/ reply.status \in {"ready", "other"} /\ Returns("ready", "none")
  \/ reply.status \in {"building", "waiting"} /\ pc' = "sleep" /\ UNCHANGED result

\* As Verdict, the switch left on a failed build but not the loop (a mutant).
VerdictFallsThrough ==
  \/ reply.status = "ready" /\ Returns("ready", "none")
  \/ reply.status = "error" /\ pc' = "sleep"
     /\ result' = [status |-> "error", err |-> "build"]
  \/ reply.status = "other" /\ Returns("other", "build")
  \/ reply.status \in {"building", "waiting"} /\ pc' = "sleep" /\ UNCHANGED result

\* The switch over the status of the reply.
Verdict ==
  \/ reply.status = "ready" /\ Returns("ready", "none")
  \/ reply.status = "error" /\ Returns("error", "build")
  \/ reply.status = "other" /\ Returns("other", "build")
  \/ reply.status \in {"building", "waiting"} /\ pc' = "sleep" /\ UNCHANGED result

\* As Act, the offset set to the length of the reply (a mutant).
ActForgetsOffset ==
  /\ pc = "answered"
  /\ forwarded' = IF onLogs THEN forwarded \o Entries ELSE forwarded
  /\ logsOffset' = reply.count
  /\ Verdict
  /\ UNCHANGED <<served, reply, interval, onLogs, ended, times>>

\* A reply: forward its entries, advance the offset, and judge its status.
Act ==
  /\ pc = "answered"
  /\ forwarded' = IF onLogs THEN forwarded \o Entries ELSE forwarded
  /\ logsOffset' = logsOffset + reply.count
  /\ Verdict
  /\ UNCHANGED <<served, reply, interval, onLogs, ended, times>>

Interrupted ==
  /\ pc = "sleep" /\ ended
  /\ Returns("none", "context")
  /\ UNCHANGED <<served, reply, logsOffset, interval, onLogs, forwarded, ended, times>>

\* The time slept, counted up to Longest before the build's end and just above
\* it after: more of it makes no difference to NoticedPromptly.
Elapse == IF status \in Final
          THEN late' = Least(late + interval, Longest + 1) /\ UNCHANGED slept
          ELSE slept' = Least(slept + interval, Longest) /\ UNCHANGED late

\* As Wake, the interval doubling without end (a mutant).
WakeUncapped ==
  /\ pc = "sleep"
  /\ pc' = "check"
  /\ interval' = interval * 2
  /\ Elapse
  /\ UNCHANGED <<served, reply, logsOffset, onLogs, forwarded, ended, result>>

Wake ==
  /\ pc = "sleep"
  /\ pc' = "check"
  /\ interval' = Least(interval * 2, Longest)
  /\ Elapse
  /\ UNCHANGED <<served, reply, logsOffset, onLogs, forwarded, ended, result>>

Server == Progress \/ Log \/ Answer
Client == Check \/ Act \/ Wake
PollNext == Server \/ Client \/ ContextEnds \/ PollFails \/ Interrupted

PollSpec == PollInit /\ [][PollNext]_pollVars

\* A poll that does not fail is answered, and the client is scheduled.
\* Nothing makes a build end, a call fail or a context end.
FairSpec == PollSpec /\ WF_pollVars(Answer) /\ WF_pollVars(Client)

-----------------------------------------------------------------------------
(* What WaitForBuild promises.                                              *)

\* The backing off never costs more than it saves: the end of a build is
\* slept through for no longer than maxPollInterval, and for no longer than
\* the build had taken by then plus one initial interval (build.go:13-15).
NoticedPromptly == late <= Longest /\ late <= slept + Initial

\* Across any number of polls the callback gets the entries of the log from the
\* first on, each once and in order, however the log grows meanwhile; what is
\* returned is what the build ended with, and nothing is heard after it. The
\* polls implement WaitContract.
Promise == INSTANCE WaitContract WITH heard <- forwarded, answer <- result

ImplementsWait == Promise!Spec

\* A build that ends is noticed, unless the wait ended before.
BuildEndsWait == status \in Final ~> pc = "done"
=============================================================================
