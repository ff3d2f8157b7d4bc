--------------------------- MODULE CommandContract ---------------------------
(***************************************************************************)
(* What a command handle of pkg/sandbox promises its caller, with no       *)
(* stream, no goroutine and no lock in sight.  A process writes chunks to  *)
(* stdout and stderr and exits once.  A handle is attached to at most one  *)
(* process, hears everything the process writes from then on, and reaches  *)
(* exactly one verdict: either the exit status of its process with exactly *)
(* the output written since the handle attached, or "lost", the honest     *)
(* answer when the stream did not live to tell.                            *)
(***************************************************************************)
EXTENDS Naturals, Sequences

CONSTANTS Handles, Procs, NoPid

Sources == {"stdout", "stderr"}
Codes   == {"zero", "nonzero", "killed"}

VARIABLES
  written,    \* written[p][s]: chunks process p has written to s, in order
  exit,       \* exit[p]: "unborn", "running" or the code p exited with
  attached,   \* attached[h]: the process behind handle h, or NoPid
  base,       \* base[h][s]: how much of s was written before h attached
  verdict     \* verdict[h].kind: "pending", "lost" or "exited" (code, out)

vars == <<written, exit, attached, base, verdict>>

Silent  == [s \in Sources |-> <<>>]
Pending == [kind |-> "pending", code |-> "running", out |-> Silent]
Lost    == [kind |-> "lost",    code |-> "running", out |-> Silent]

\* The output of p past the mark b.
Since(p, b) ==
  [s \in Sources |-> SubSeq(written[p][s], b[s] + 1, Len(written[p][s]))]

\* Chunks stand for bytes: the n-th chunk a process writes is the number n.
NextChunk(p) == Len(written[p]["stdout"]) + Len(written[p]["stderr"]) + 1

Init ==
  /\ written  = [p \in Procs |-> Silent]
  /\ exit     = [p \in Procs |-> "unborn"]
  /\ attached = [h \in Handles |-> NoPid]
  /\ base     = [h \in Handles |-> [s \in Sources |-> 0]]
  /\ verdict  = [h \in Handles |-> Pending]

\* A handle starts a process, or joins one that is running.
Attach(h, p) ==
  /\ attached[h] = NoPid
  /\ exit[p] \in {"unborn", "running"}
  /\ attached' = [attached EXCEPT ![h] = p]
  /\ exit'     = [exit EXCEPT ![p] = "running"]
  /\ base'     = [base EXCEPT ![h] = [s \in Sources |-> Len(written[p][s])]]
  /\ UNCHANGED <<written, verdict>>

Write(p, s) ==
  /\ exit[p] = "running"
  /\ written' = [written EXCEPT ![p][s] = Append(@, NextChunk(p))]
  /\ UNCHANGED <<exit, attached, base, verdict>>

Exit(p, c) ==
  /\ exit[p] = "running"
  /\ exit' = [exit EXCEPT ![p] = c]
  /\ UNCHANGED <<written, attached, base, verdict>>

Report(h) ==
  /\ verdict[h] = Pending
  /\ attached[h] \in Procs
  /\ exit[attached[h]] \in Codes
  /\ verdict' = [verdict EXCEPT ![h] =
                   [kind |-> "exited",
                    code |-> exit[attached[h]],
                    out  |-> Since(attached[h], base[h])]]
  /\ UNCHANGED <<written, exit, attached, base>>

Lose(h) ==
  /\ verdict[h] = Pending
  /\ verdict' = [verdict EXCEPT ![h] = Lost]
  /\ UNCHANGED <<written, exit, attached, base>>

Next ==
  \/ \E h \in Handles, p \in Procs : Attach(h, p)
  \/ \E p \in Procs, s \in Sources : Write(p, s)
  \/ \E p \in Procs, c \in Codes : Exit(p, c)
  \/ \E h \in Handles : Report(h) \/ Lose(h)

Spec == Init /\ [][Next]_vars
==============================================================================
