---------------------------- MODULE CommandStream ----------------------------
(***************************************************************************)
(* Running commands in a sandbox: pkg/sandbox/commands*.go.                *)
(*                                                                         *)
(* Start, Connect and Run open a server stream to envd and hand it to a    *)
(* goroutine (consume) which fills the CommandHandle: PID, the two output  *)
(* buffers behind a mutex, the result or the error, and last the done      *)
(* channel that Wait blocks on.  Kill is a separate unary call that names  *)
(* the process by the PID the handle holds at that moment.                 *)
(*                                                                         *)
(* envd, the processes and the network are not in this repository; they    *)
(* are modelled from what the client relies on: a stream delivers in order *)
(* what envd pushed into it, until it ends or breaks, and a request may    *)
(* reach envd although its caller has given up.                            *)
(*                                                                         *)
(* A chunk of output is the number of the write that produced it, an exit  *)
(* status is "zero", "nonzero" or "killed", and a PID is the process       *)
(* itself (NoPid is the zero a new handle holds; PIDs are not reused).     *)
(***************************************************************************)
EXTENDS Naturals, Sequences

CONSTANTS
  Handles,      \* command handles: one per Start, Connect or Run
  Procs,        \* processes of the sandbox, named by their PIDs
  Calls,        \* API calls made on handles: Run, Wait, Kill, Stdout
  Cancellable,  \* handles whose owner may cancel the context of the stream
  Listeners,    \* handles whose CommandOptions carry OnStdout and OnStderr
  NoPid,        \* CommandHandle.PID before the start event: zero
  NoHandle,     \* the handle of a call not made yet
  MaxWrites     \* bound on the chunks a process writes

ASSUME NoPidAssumption     == NoPid \notin Procs
ASSUME NoHandleAssumption  == NoHandle \notin Handles
ASSUME OptionsAssumption   == Listeners \subseteq Handles /\ Cancellable \subseteq Handles
ASSUME MaxWritesAssumption == MaxWrites \in Nat

Sources == {"stdout", "stderr"}
Codes   == {"zero", "nonzero", "killed"}

VARIABLES
  \* envd and the sandbox
  written,      \* written[p][s]: chunks p has written to s
  exit,         \* exit[p]: "unborn", "running", or the code p exited with
  signalled,    \* processes SIGKILL was delivered to
  \* the stream of each handle
  arrived,      \* envd has seen the request that opened the stream
  attached,     \* the process whose events envd pushes into it, or NoPid
  base,         \* base[h][s]: what was written to s before h attached
  wire,         \* events in flight, in order
  tail,         \* what follows them: "open", "eof", "error"; "closed" by us
  ctx,          \* the context of the stream: "live" or "cancelled"
  \* the CommandHandle and its goroutine
  how,          \* "none", "start", "connect"; "failed" returned no handle
  pc,           \* where consume is
  event,        \* the data event consume is handling
  mu,           \* CommandHandle.mu: "free" or "held"
  pid, buf, result, err, done,
  heard,        \* chunks handed to the callbacks, in order
  \* the calls
  call

envdVars   == <<written, exit, signalled>>
streamVars == <<arrived, attached, base, wire, tail, ctx>>
handleVars == <<how, pc, event, mu, pid, buf, result, err, done, heard>>
vars == <<envdVars, streamVars, handleVars, call>>

Silent   == [s \in Sources |-> <<>>]
NoResult == [code |-> "running", out |-> Silent]
NoCall   == [op |-> "none", h |-> NoHandle, st |-> "idle", expired |-> FALSE,
             target |-> NoPid, ret |-> "none"]

\* Events of process.ProcessEvent, one uniform shape.
Event(type, p, s, n, code) ==
  [type |-> type, pid |-> p, src |-> s, chunk |-> n, code |-> code]
StartEvent(p)   == Event("start", p, "stdout", 0, "running")
DataEvent(s, n) == Event("data", NoPid, s, n, "running")
EndEvent(c)     == Event("end", NoPid, "stdout", 0, c)
Keepalive       == Event("keepalive", NoPid, "stdout", 0, "running")

Init ==
  /\ written   = [p \in Procs |-> Silent]
  /\ exit      = [p \in Procs |-> "unborn"]
  /\ signalled = {}
  /\ arrived   = [h \in Handles |-> FALSE]
  /\ attached  = [h \in Handles |-> NoPid]
  /\ base      = [h \in Handles |-> [s \in Sources |-> 0]]
  /\ wire      = [h \in Handles |-> <<>>]
  /\ tail      = [h \in Handles |-> "open"]
  /\ ctx       = [h \in Handles |-> "live"]
  /\ how       = [h \in Handles |-> "none"]
  /\ pc        = [h \in Handles |-> "none"]
  /\ event     = [h \in Handles |-> Keepalive]
  /\ mu        = [h \in Handles |-> "free"]
  /\ pid       = [h \in Handles |-> NoPid]
  /\ buf       = [h \in Handles |-> Silent]
  /\ result    = [h \in Handles |-> NoResult]
  /\ err       = [h \in Handles |-> "none"]
  /\ done      = [h \in Handles |-> FALSE]
  /\ heard     = [h \in Handles |-> <<>>]
  /\ call      = [c \in Calls |-> NoCall]

-----------------------------------------------------------------------------
(* Opening a stream.  The client library returns before envd answers, so   *)
(* the handle exists, and may be waited on or killed, before the process.  *)

\* Start: the handle is born with PID zero; its goroutine is already running.
Open(h) ==
  /\ how[h] = "none"
  /\ how' = [how EXCEPT ![h] = "start"]
  /\ pc'  = [pc EXCEPT ![h] = "recv"]
  /\ UNCHANGED <<event, mu, pid, buf, result, err, done, heard,
                 arrived, attached, base, wire, tail>>

Start(h) ==
  /\ Open(h)
  /\ UNCHANGED <<envdVars, ctx, call>>

\* The request could not even be sent: an error, and no handle.
StartFails(h) ==
  /\ how[h] = "none"
  /\ how' = [how EXCEPT ![h] = "failed"]
  /\ UNCHANGED <<envdVars, streamVars, pc, event, mu, pid, buf, result, err,
                 done, heard, call>>

\* Connect: the caller names a PID it learnt from the sandbox, perhaps of a
\* process that is gone by now; the handle holds it from the outset.
Connect(h, p) ==
  /\ how[h] = "none"
  /\ exit[p] # "unborn"
  /\ how' = [how EXCEPT ![h] = "connect"]
  /\ pc'  = [pc EXCEPT ![h] = "recv"]
  /\ pid' = [pid EXCEPT ![h] = p]
  /\ UNCHANGED <<envdVars, streamVars, event, mu, buf, result, err, done,
                 heard, call>>

\* The context passed to Start or Connect is cancelled by its owner.
Cancel(h) ==
  /\ h \in Cancellable
  /\ how[h] \in {"start", "connect"}
  /\ ctx[h] = "live"
  /\ ctx' = [ctx EXCEPT ![h] = "cancelled"]
  /\ UNCHANGED <<envdVars, arrived, attached, base, wire, tail, handleVars,
                 call>>

-----------------------------------------------------------------------------
(* envd and the network.                                                   *)

\* An event pushed to every stream that follows p and is still open.
Pushed(p, e) ==
  [h \in Handles |-> IF attached[h] = p /\ tail[h] = "open"
                     THEN Append(wire[h], e) ELSE wire[h]]

\* envd attaches the stream of h to p and announces it.
AttachTo(h, p) ==
  /\ arrived'  = [arrived EXCEPT ![h] = TRUE]
  /\ attached' = [attached EXCEPT ![h] = p]
  /\ base'     = [base EXCEPT ![h] = [s \in Sources |-> Len(written[p][s])]]
  /\ wire'     = IF tail[h] = "open"
                 THEN [wire EXCEPT ![h] = Append(@, StartEvent(p))]
                 ELSE wire

\* The start request arrives, perhaps after its sender has given up.
Spawn(h, p) ==
  /\ how[h] = "start" /\ ~arrived[h]
  /\ exit[p] = "unborn"
  /\ exit' = [exit EXCEPT ![p] = "running"]
  /\ AttachTo(h, p)
  /\ UNCHANGED <<written, signalled, tail, ctx, handleVars, call>>

Join(h) ==
  /\ how[h] = "connect" /\ ~arrived[h]
  /\ exit[pid[h]] = "running"
  /\ AttachTo(h, pid[h])
  /\ UNCHANGED <<envdVars, tail, ctx, handleVars, call>>

\* Connecting to a PID that is not running fails on the stream, not in Connect.
JoinRefused(h) ==
  /\ how[h] = "connect" /\ ~arrived[h]
  /\ exit[pid[h]] # "running"
  /\ arrived' = [arrived EXCEPT ![h] = TRUE]
  /\ tail'    = IF tail[h] = "open" THEN [tail EXCEPT ![h] = "error"] ELSE tail
  /\ UNCHANGED <<envdVars, attached, base, wire, ctx, handleVars, call>>

NextChunk(p) == Len(written[p]["stdout"]) + Len(written[p]["stderr"]) + 1

Write(p, s) ==
  /\ exit[p] = "running"
  /\ NextChunk(p) <= MaxWrites
  /\ written' = [written EXCEPT ![p][s] = Append(@, NextChunk(p))]
  /\ wire'    = Pushed(p, DataEvent(s, NextChunk(p)))
  /\ UNCHANGED <<exit, signalled, arrived, attached, base, tail, ctx,
                 handleVars, call>>

Exit(p, c) ==
  /\ exit[p] = "running"
  /\ exit' = [exit EXCEPT ![p] = c]
  /\ wire' = Pushed(p, EndEvent(c))
  /\ UNCHANGED <<written, signalled, arrived, attached, base, tail, ctx,
                 handleVars, call>>

\* Keepalives flow on an idle stream (one in flight bounds the model).
SendKeepalive(h) ==
  /\ attached[h] # NoPid /\ tail[h] = "open" /\ wire[h] = <<>>
  /\ wire' = [wire EXCEPT ![h] = <<Keepalive>>]
  /\ UNCHANGED <<envdVars, arrived, attached, base, tail, ctx, handleVars, call>>

\* The server side ends the stream: after the end event, or early.
EndStream(h) ==
  /\ arrived[h] /\ tail[h] = "open"
  /\ tail' = [tail EXCEPT ![h] = "eof"]
  /\ UNCHANGED <<envdVars, arrived, attached, base, wire, ctx, handleVars, call>>

\* The stream breaks and what was in flight is lost from some point on: the
\* network, the HTTP client's own timeout, or a cancelled context.
Break(h) ==
  /\ how[h] \in {"start", "connect"}
  /\ tail[h] \in {"open", "eof"}
  /\ \E k \in 0..Len(wire[h]) :
       wire' = [wire EXCEPT ![h] = SubSeq(@, 1, k)]
  /\ tail' = [tail EXCEPT ![h] = "error"]
  /\ UNCHANGED <<envdVars, arrived, attached, base, ctx, handleVars, call>>

-----------------------------------------------------------------------------
(* consume: one goroutine per handle.                                      *)

\* Receive returned an event of this type; the rest of the loop body follows.
Receive(h, type) ==
  /\ pc[h] = "recv" /\ wire[h] # <<>>
  /\ Head(wire[h]).type = type
  /\ wire' = [wire EXCEPT ![h] = Tail(@)]
  /\ UNCHANGED <<envdVars, arrived, attached, base, tail, ctx, how, call>>

\* The PID is written without the lock: Kill may read it before or after.
RecvStart(h) ==
  /\ Receive(h, "start")
  /\ pid' = [pid EXCEPT ![h] = Head(wire[h]).pid]
  /\ UNCHANGED <<pc, event, mu, buf, result, err, done, heard>>

\* Mutation of RecvData: stderr is appended to the stdout buffer.
RecvDataToStdout(h) ==
  /\ Receive(h, "data")
  /\ mu[h] = "free"
  /\ mu'    = [mu EXCEPT ![h] = "held"]
  /\ buf'   = [buf EXCEPT ![h]["stdout"] = Append(@, Head(wire[h]).chunk)]
  /\ event' = [event EXCEPT ![h] = Head(wire[h])]
  /\ pc'    = [pc EXCEPT ![h] = "unlock"]
  /\ UNCHANGED <<pid, result, err, done, heard>>

\* appendOutput, up to the unlock.
RecvData(h) ==
  /\ Receive(h, "data")
  /\ mu[h] = "free"
  /\ mu'    = [mu EXCEPT ![h] = "held"]
  /\ buf'   = [buf EXCEPT ![h][Head(wire[h]).src] = Append(@, Head(wire[h]).chunk)]
  /\ event' = [event EXCEPT ![h] = Head(wire[h])]
  /\ pc'    = [pc EXCEPT ![h] = "unlock"]
  /\ UNCHANGED <<pid, result, err, done, heard>>

\* Mutation of Unlock: the lock is still held when the callback starts.
UnlockAfterCallback(h) ==
  /\ pc[h] = "unlock"
  /\ mu' = [mu EXCEPT ![h] = IF h \in Listeners THEN "held" ELSE "free"]
  /\ pc' = [pc EXCEPT ![h] = IF h \in Listeners THEN "call" ELSE "recv"]
  /\ UNCHANGED <<envdVars, streamVars, how, event, pid, buf, result, err, done,
                 heard, call>>

\* Mutation of Unlock: only OnStdout is called.
UnlockStdoutOnly(h) ==
  /\ pc[h] = "unlock"
  /\ mu' = [mu EXCEPT ![h] = "free"]
  /\ pc' = [pc EXCEPT ![h] = IF h \in Listeners /\ event[h].src = "stdout"
                             THEN "call" ELSE "recv"]
  /\ UNCHANGED <<envdVars, streamVars, how, event, pid, buf, result, err, done,
                 heard, call>>

Unlock(h) ==
  /\ pc[h] = "unlock"
  /\ mu' = [mu EXCEPT ![h] = "free"]
  /\ pc' = [pc EXCEPT ![h] = IF h \in Listeners THEN "call" ELSE "recv"]
  /\ UNCHANGED <<envdVars, streamVars, how, event, pid, buf, result, err, done,
                 heard, call>>

\* The callback starts; it may run for as long as it likes.
CallBack(h) ==
  /\ pc[h] = "call"
  /\ heard' = [heard EXCEPT ![h] =
                 Append(@, <<event[h].src, event[h].chunk>>)]
  /\ pc' = [pc EXCEPT ![h] = "callback"]
  /\ UNCHANGED <<envdVars, streamVars, how, event, mu, pid, buf, result, err,
                 done, call>>

CallbackReturns(h) ==
  /\ pc[h] = "callback"
  /\ pc' = [pc EXCEPT ![h] = "recv"]
  /\ UNCHANGED <<envdVars, streamVars, how, event, mu, pid, buf, result, err,
                 done, heard, call>>

\* Mutation of RecvEnd: done is closed as soon as the exit status is known.
RecvEndSignals(h) ==
  /\ Receive(h, "end")
  /\ mu[h] = "free"
  /\ result' = [result EXCEPT ![h] =
                  [code |-> Head(wire[h]).code, out |-> buf[h]]]
  /\ done' = [done EXCEPT ![h] = TRUE]
  /\ UNCHANGED <<pc, event, mu, pid, buf, err, heard>>

\* errFromEnd: the exit status with a snapshot of both buffers.
RecvEnd(h) ==
  /\ Receive(h, "end")
  /\ mu[h] = "free"
  /\ result' = [result EXCEPT ![h] =
                  [code |-> Head(wire[h]).code, out |-> buf[h]]]
  /\ UNCHANGED <<pc, event, mu, pid, buf, err, done, heard>>

RecvKeepalive(h) ==
  /\ Receive(h, "keepalive")
  /\ UNCHANGED <<pc, event, mu, pid, buf, result, err, done, heard>>

\* Receive returned false: the error of the stream comes first, and a stream
\* that ended without an end event is an error too.
StreamOver(h) ==
  /\ pc[h] = "recv" /\ wire[h] = <<>> /\ tail[h] \in {"eof", "error"}
  /\ err' = [err EXCEPT ![h] = IF tail[h] = "error" THEN "stream"
                               ELSE IF result[h] = NoResult THEN "early"
                               ELSE @]
  /\ pc'  = [pc EXCEPT ![h] = "close"]
  /\ UNCHANGED <<envdVars, streamVars, how, event, mu, pid, buf, result, done,
                 heard, call>>

\* The deferred calls run last in, first out: stream.Close, then close(done).
CloseStream(h) ==
  /\ pc[h] = "close"
  /\ tail' = [tail EXCEPT ![h] = "closed"]
  /\ pc'   = [pc EXCEPT ![h] = "signal"]
  /\ UNCHANGED <<envdVars, arrived, attached, base, wire, ctx, how, event, mu,
                 pid, buf, result, err, done, heard, call>>

\* Mutation of CloseDone: done is not closed on the error paths.
CloseDoneOnSuccess(h) ==
  /\ pc[h] = "signal" /\ err[h] = "none"
  /\ done' = [done EXCEPT ![h] = TRUE]
  /\ pc'   = [pc EXCEPT ![h] = "exited"]
  /\ UNCHANGED <<envdVars, streamVars, how, event, mu, pid, buf, result, err,
                 heard, call>>

CloseDone(h) ==
  /\ pc[h] = "signal"
  /\ done' = [done EXCEPT ![h] = TRUE]
  /\ pc'   = [pc EXCEPT ![h] = "exited"]
  /\ UNCHANGED <<envdVars, streamVars, how, event, mu, pid, buf, result, err,
                 heard, call>>

Consume(h) ==
  \/ RecvStart(h) \/ RecvData(h) \/ RecvEnd(h) \/ RecvKeepalive(h)
  \/ Unlock(h) \/ CallBack(h)
  \/ StreamOver(h) \/ CloseStream(h) \/ CloseDone(h)

-----------------------------------------------------------------------------
(* Calls on a handle.                                                      *)

Made(c, op, h, st, target) ==
  /\ call[c] = NoCall
  /\ call' = [call EXCEPT ![c] = [op |-> op, h |-> h, st |-> st,
                                  expired |-> FALSE, target |-> target,
                                  ret |-> "none"]]

Returned(c, ret) ==
  [call EXCEPT ![c].st = "back", ![c].ret = ret]

IsHandle(h) == how[h] \in {"start", "connect"}

\* Run: Start under a context of its own, then Wait under the same context.
Run(c, h) ==
  /\ Open(h)
  /\ Made(c, "run", h, "blocked", NoPid)
  /\ UNCHANGED <<envdVars, ctx>>

Wait(c, h) ==
  /\ IsHandle(h)
  /\ Made(c, "wait", h, "blocked", NoPid)
  /\ UNCHANGED <<envdVars, streamVars, handleVars>>

\* The context of the call is cancelled, or its deadline passes.  Run's is
\* the context of the stream as well.
Expire(c) ==
  /\ call[c].st = "blocked" /\ call[c].op \in {"run", "wait"}
  /\ ~call[c].expired
  /\ call' = [call EXCEPT ![c].expired = TRUE]
  /\ ctx'  = IF call[c].op = "run"
             THEN [ctx EXCEPT ![call[c].h] = "cancelled"] ELSE ctx
  /\ UNCHANGED <<envdVars, arrived, attached, base, wire, tail, handleVars>>

\* Mutation of Outcome: Run forgets to look at the exit code.
OutcomeIgnoresCode(h, op) == IF err[h] # "none" THEN "error" ELSE "result"

\* What Wait makes of a finished handle, and Run of a non-zero exit.
Outcome(h, op) ==
  IF err[h] # "none" THEN "error"
  ELSE IF op = "run" /\ result[h].code # "zero" THEN "exit error"
  ELSE "result"

\* Run's deferred cancel releases the context it made.
Released(c) ==
  IF call[c].op = "run" THEN [ctx EXCEPT ![call[c].h] = "cancelled"] ELSE ctx

\* select takes either ready branch.
WaitDone(c) ==
  /\ call[c].st = "blocked" /\ call[c].op \in {"run", "wait"}
  /\ done[call[c].h]
  /\ call' = Returned(c, Outcome(call[c].h, call[c].op))
  /\ ctx'  = Released(c)
  /\ UNCHANGED <<envdVars, arrived, attached, base, wire, tail, handleVars>>

WaitExpired(c) ==
  /\ call[c].st = "blocked" /\ call[c].op \in {"run", "wait"}
  /\ call[c].expired
  /\ call' = Returned(c, "context")
  /\ ctx'  = Released(c)
  /\ UNCHANGED <<envdVars, arrived, attached, base, wire, tail, handleVars>>

\* Kill reads the PID the handle holds now and sends SIGKILL to it.
Kill(c, h) ==
  /\ IsHandle(h)
  /\ Made(c, "kill", h, "sent", pid[h])
  /\ UNCHANGED <<envdVars, streamVars, handleVars>>

\* envd (external) delivers the signal, or finds no such process.
Signal(c) ==
  /\ call[c].st = "sent"
  /\ IF call[c].target # NoPid /\ exit[call[c].target] = "running"
     THEN /\ signalled' = signalled \cup {call[c].target}
          /\ call' = [call EXCEPT ![c].st = "delivered"]
     ELSE /\ UNCHANGED signalled
          /\ call' = [call EXCEPT ![c].st = "not found"]
  /\ UNCHANGED <<written, exit, streamVars, handleVars>>

KillReply(c) ==
  /\ call[c].st \in {"delivered", "not found"}
  /\ call' = Returned(c, IF call[c].st = "delivered" THEN "true" ELSE "false")
  /\ UNCHANGED <<envdVars, streamVars, handleVars>>

\* Mutation of KillFails: every failure is taken for "already gone".
KillFailsSilently(c) ==
  /\ call[c].op = "kill" /\ call[c].st # "back"
  /\ call' = Returned(c, "false")
  /\ UNCHANGED <<envdVars, streamVars, handleVars>>

\* The request or its answer is lost: Kill reports the error.
KillFails(c) ==
  /\ call[c].op = "kill" /\ call[c].st # "back"
  /\ call' = Returned(c, "error")
  /\ UNCHANGED <<envdVars, streamVars, handleVars>>

\* Stdout and Stderr take the lock, copy and release it.
Read(c, h) ==
  /\ IsHandle(h)
  /\ Made(c, "read", h, "blocked", NoPid)
  /\ UNCHANGED <<envdVars, streamVars, handleVars>>

ReadReturns(c) ==
  /\ call[c].op = "read" /\ call[c].st = "blocked"
  /\ mu[call[c].h] = "free"
  /\ call' = Returned(c, "output")
  /\ UNCHANGED <<envdVars, streamVars, handleVars>>

-----------------------------------------------------------------------------
Envd ==
  \/ \E h \in Handles :
       \/ \E p \in Procs : Spawn(h, p)
       \/ Join(h) \/ JoinRefused(h)
       \/ SendKeepalive(h) \/ EndStream(h) \/ Break(h)
  \/ \E p \in Procs :
       \/ \E s \in Sources : Write(p, s)
       \/ \E c \in Codes : Exit(p, c)
  \/ \E c \in Calls : Signal(c)

Client ==
  \/ \E h \in Handles :
       \/ Start(h) \/ StartFails(h) \/ Cancel(h)
       \/ \E p \in Procs : Connect(h, p)
       \/ \E c \in Calls : Run(c, h) \/ Wait(c, h) \/ Kill(c, h) \/ Read(c, h)
  \/ \E c \in Calls :
       \/ Expire(c) \/ WaitDone(c) \/ WaitExpired(c)
       \/ KillReply(c) \/ KillFails(c) \/ ReadReturns(c)

Next ==
  \/ Envd
  \/ Client
  \/ \E h \in Handles : Consume(h) \/ CallbackReturns(h)

Spec == Init /\ [][Next]_vars

\* The goroutines and the blocked calls are scheduled, and a reader of a mutex
\* that keeps being freed gets it.
FairClient ==
  /\ \A h \in Handles : WF_vars(Consume(h))
  /\ \A c \in Calls : /\ WF_vars(WaitDone(c) \/ WaitExpired(c))
                      /\ SF_vars(ReadReturns(c))

\* envd ends a stream whose process is gone; a cancelled context reaches it.
FairStreams ==
  \A h \in Handles :
    /\ WF_vars(attached[h] \in Procs /\ exit[attached[h]] \in Codes /\ EndStream(h))
    /\ WF_vars(ctx[h] = "cancelled" /\ Break(h))

\* Callbacks are the user's: they need not return.
FairSpec == Spec /\ FairClient /\ FairStreams

-----------------------------------------------------------------------------
(* Properties.                                                             *)

EventType ==
  {e \in [type : {"start", "data", "end", "keepalive"}, pid : Procs \cup {NoPid},
          src : Sources, chunk : Nat, code : Codes \cup {"running"}] :
     e.type = "start" => e.pid \in Procs}

CallType ==
  {c \in [op : {"none", "run", "wait", "kill", "read"}, h : Handles \cup {NoHandle},
          st : {"idle", "blocked", "sent", "delivered", "not found", "back"},
          expired : BOOLEAN, target : Procs \cup {NoPid},
          ret : {"none", "result", "exit error", "error", "context", "true",
                 "false", "output"}] :
     /\ c.op = "none" <=> c.st = "idle"
     /\ c.op # "none" => c.h \in Handles}

\* Every variable keeps its type, a call names a handle once it is made, and a
\* handle made by Connect always holds a PID.
TypeOK ==
  /\ written   \in [Procs -> [Sources -> Seq(Nat)]]
  /\ exit      \in [Procs -> {"unborn", "running"} \cup Codes]
  /\ signalled \in SUBSET Procs
  /\ arrived   \in [Handles -> BOOLEAN]
  /\ attached  \in [Handles -> Procs \cup {NoPid}]
  /\ base      \in [Handles -> [Sources -> Nat]]
  /\ wire      \in [Handles -> Seq(EventType)]
  /\ tail      \in [Handles -> {"open", "eof", "error", "closed"}]
  /\ ctx       \in [Handles -> {"live", "cancelled"}]
  /\ how       \in [Handles -> {"none", "start", "connect", "failed"}]
  /\ pc        \in [Handles -> {"none", "recv", "unlock", "call", "callback",
                                "close", "signal", "exited"}]
  /\ event     \in [Handles -> EventType]
  /\ mu        \in [Handles -> {"free", "held"}]
  /\ pid       \in [Handles -> Procs \cup {NoPid}]
  /\ buf       \in [Handles -> [Sources -> Seq(Nat)]]
  /\ result    \in [Handles -> [code : Codes \cup {"running"},
                                out : [Sources -> Seq(Nat)]]]
  /\ err       \in [Handles -> {"none", "stream", "early"}]
  /\ done      \in [Handles -> BOOLEAN]
  /\ heard     \in [Handles -> Seq(Sources \X Nat)]
  /\ call      \in [Calls -> CallType]
  /\ \A h \in Handles : how[h] = "connect" => pid[h] \in Procs

\* What p wrote to each source past the mark b.
Since(p, b) ==
  [s \in Sources |-> SubSeq(written[p][s], b[s] + 1, Len(written[p][s]))]

\* A result is never invented (errFromEnd, errStreamEndedEarly): it carries the
\* status the process really exited with and, per source and in order, exactly
\* what the process wrote since the handle attached.
ResultTruthful ==
  \A h \in Handles : result[h] # NoResult =>
    /\ attached[h] \in Procs
    /\ result[h].code = exit[attached[h]]
    /\ result[h].out = Since(attached[h], base[h])

\* Wait never returns neither a result nor an error: Run dereferences the
\* result of a Wait that reported no error.
WaitNeverEmptyHanded ==
  \A h \in Handles : done[h] => err[h] # "none" \/ result[h] # NoResult

\* Wait and Run report success only for a process that exited with zero, and
\* whatever they report agrees with the finished handle.
ReportAgrees ==
  \A c \in Calls : call[c].ret \in {"result", "exit error", "error"} /\ call[c].op # "kill" =>
    LET h == call[c].h IN
      /\ done[h]
      /\ call[c].ret = "error" <=> err[h] # "none"
      /\ call[c].op = "run" /\ call[c].ret = "result" =>
           attached[h] \in Procs /\ exit[attached[h]] = "zero"

\* Once done is closed the handle is frozen: every Wait, early or late, sees
\* the same outcome, and no callback runs any more.
SettledForGood ==
  [][\A h \in Handles : done[h] =>
       /\ done'[h]
       /\ pid'[h] = pid[h] /\ buf'[h] = buf[h] /\ heard'[h] = heard[h]
       /\ result'[h] = result[h] /\ err'[h] = err[h]]_vars

\* Callbacks hear each chunk once, in the order the process wrote them across
\* both sources, never ahead of the buffers, and a result is only there once
\* they have heard all of it.
CallbacksFaithful ==
  \A h \in Listeners :
    LET n == Len(heard[h]) IN
      /\ \A i, j \in 1..n : i < j => heard[h][i][2] < heard[h][j][2]
      /\ \A i \in 1..n : \E k \in 1..Len(buf[h][heard[h][i][1]]) :
           buf[h][heard[h][i][1]][k] = heard[h][i][2]
      /\ result[h] # NoResult =>
           n = Len(buf[h]["stdout"]) + Len(buf[h]["stderr"])

\* A Kill aimed at a PID tells the truth: true after the signal was delivered,
\* false only if the process is not running.
KillHonest ==
  \A c \in Calls : call[c].op = "kill" /\ call[c].target # NoPid =>
    /\ call[c].ret = "true"  => call[c].target \in signalled
    /\ call[c].ret = "false" => exit[call[c].target] # "running"

\* A blocked Wait or Run comes back once its context ends, the stream stops
\* or the process exits, provided callbacks return.
WaitReturns ==
  (\A h \in Handles : []<>(pc[h] # "callback")) =>
    \A c \in Calls :
      /\ call[c].st = "blocked" /\ call[c].op \in {"run", "wait"}
      /\ \/ call[c].expired
         \/ ctx[call[c].h] = "cancelled"
         \/ tail[call[c].h] # "open"
         \/ attached[call[c].h] \in Procs /\ exit[attached[call[c].h]] \in Codes
      ~> call[c].st = "back"

\* A slow callback cannot block a reader (appendOutput's comment): Stdout
\* returns although callbacks may never do.
ReaderNeverBlocked ==
  \A c \in Calls :
    call[c].op = "read" /\ call[c].st = "blocked" ~> call[c].st = "back"

\* The handle implements the contract of CommandContract: its verdict is what
\* a Wait would return, visible from the moment done is closed.
Verdict ==
  [h \in Handles |->
     IF ~done[h] THEN [kind |-> "pending", code |-> "running", out |-> Silent]
     ELSE IF err[h] # "none"
     THEN [kind |-> "lost", code |-> "running", out |-> Silent]
     ELSE [kind |-> "exited", code |-> result[h].code, out |-> result[h].out]]

Contract == INSTANCE CommandContract WITH verdict <- Verdict

ImplementsContract == Contract!Spec

-----------------------------------------------------------------------------
(* The inductive strengthening of the safety properties.                   *)

\* w is what a process wrote, b and f the base and the buffers of a handle on
\* it, q the events in flight to that handle.

\* Chunk numbers grow along each source.
WritesOrdered(w) ==
  \A s \in Sources :
    /\ \A i \in 1..Len(w[s]) : w[s][i] <= Len(w["stdout"]) + Len(w["stderr"])
    /\ \A i, j \in 1..Len(w[s]) : i < j => w[s][i] < w[s][j]

\* The buffers hold what the process wrote right after the handle attached.
BufferMatches(w, b, f) ==
  \A s \in Sources :
    /\ b[s] + Len(f[s]) <= Len(w[s])
    /\ \A k \in 1..Len(f[s]) : f[s][k] = w[s][b[s] + k]

\* Event e carries the chunk n of source s.
Carries(e, s, n) == e.type = "data" /\ e.src = s /\ e.chunk = n

\* The first n events carry every chunk of s past the buffer, up to the m-th.
Covered(w, b, f, q, s, m, n) ==
  \A r \in b[s] + Len(f[s]) + 1 .. m :
    \E j \in 1..n : Carries(q[j], s, w[s][r])

\* The data in flight continues the buffers without a gap, and in order.
DataMatches(w, b, f, q) ==
  \A i \in 1..Len(q), s \in Sources : q[i].type = "data" /\ q[i].src = s =>
    \E m \in b[s] + Len(f[s]) + 1 .. Len(w[s]) :
      q[i].chunk = w[s][m] /\ Covered(w, b, f, q, s, m - 1, i - 1)

DataOrdered(q) ==
  \A i, j \in 1..Len(q) :
    /\ i < j /\ q[i].type = "data" /\ q[j].type = "data" /\ q[i].src = q[j].src
    => q[i].chunk < q[j].chunk

\* An end event tells the exit status x, after all of the output.
EndMatches(w, x, b, f, q) ==
  \A i \in 1..Len(q) : q[i].type = "end" =>
    /\ x \in Codes /\ q[i].code = x
    /\ \A s \in Sources : Covered(w, b, f, q, s, Len(w[s]), i - 1)

\* An open stream has, or will have, everything.
OpenMatches(w, b, f, q) ==
  \A s \in Sources : Covered(w, b, f, q, s, Len(w[s]), Len(q))

Follows(w, x, b, f, q, open) ==
  /\ BufferMatches(w, b, f)
  /\ DataMatches(w, b, f, q)
  /\ DataOrdered(q)
  /\ EndMatches(w, x, b, f, q)
  /\ open => OpenMatches(w, b, f, q)

\* Nothing arrives from envd before the stream is attached to a process.
Unattached(h) ==
  /\ attached[h] = NoPid => wire[h] = <<>> /\ buf[h] = Silent /\ result[h] = NoResult
  /\ attached[h] # NoPid => arrived[h] /\ exit[attached[h]] # "unborn"

StreamInv ==
  /\ \A p \in Procs : WritesOrdered(written[p])
  /\ \A h \in Handles :
       /\ Unattached(h)
       /\ attached[h] \in Procs =>
            Follows(written[attached[h]], exit[attached[h]], base[h], buf[h],
                    wire[h], tail[h] = "open")
       /\ result[h] # NoResult => exit[attached[h]] \in Codes
  /\ ResultTruthful

\* The goroutine of a handle decides the outcome before it closes done.
SettledInv ==
  \A h \in Handles :
    /\ how[h] \in {"none", "failed"} => pc[h] = "none"
    /\ done[h] <=> pc[h] = "exited"
    /\ pc[h] \in {"close", "signal", "exited"} =>
         err[h] # "none" \/ result[h] # NoResult

\* A PID is only ever learnt from a process that was started.
PidInv ==
  /\ \A h \in Handles :
       /\ pid[h] # NoPid => exit[pid[h]] # "unborn"
       /\ attached[h] # NoPid => exit[attached[h]] # "unborn"
       /\ \A i \in 1..Len(wire[h]) : wire[h][i].type = "start" =>
            exit[wire[h][i].pid] # "unborn"
  /\ \A c \in Calls : call[c].target # NoPid =>
       /\ exit[call[c].target] # "unborn"
       /\ call[c].st = "delivered" => call[c].target \in signalled
       /\ call[c].st = "not found" => exit[call[c].target] # "running"

-----------------------------------------------------------------------------
(* A statement of the repository that the code does not keep.              *)

\* "A process that is already gone is reported as false": so false means that
\* the command of this handle is not running.
KillFalseMeansGone ==
  \A c \in Calls : call[c].op = "kill" /\ call[c].ret = "false" =>
    \A p \in Procs : attached[call[c].h] = p => exit[p] # "running"
==============================================================================
