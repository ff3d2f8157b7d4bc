------------------------------ MODULE PtyStream ------------------------------
(***************************************************************************)
(* pkg/sandbox/pty.go: one pseudo-terminal and the handle a client holds   *)
(* on it.  A goroutine (consume) moves the events of the stream into the   *)
(* handle: chunks of output go through a bounded channel, a send on which  *)
(* blocks while it is full; when the stream is over it closes the stream,  *)
(* the channel and then done.  Readers of Output, calls of Wait and of     *)
(* Kill run beside it.                                                     *)
(*                                                                         *)
(* A chunk is its number.  The stream itself holds Window events: beyond   *)
(* that, flow control makes the terminal wait.                             *)
(***************************************************************************)
EXTENDS Naturals, Sequences

CONSTANTS Capacity,   \* ptyOutputBuffer
          Window,     \* events the connection holds before the sender blocks
          MaxChunks,  \* bound: chunks the terminal prints
          Waiters,    \* calls of PtyHandle.Wait
          Pid         \* the terminal's process ID

ASSUME CapacityAssumption == Capacity \in Nat \ {0}
ASSUME WindowAssumption == Window \in Nat \ {0}
ASSUME MaxChunksAssumption == MaxChunks \in Nat
ASSUME PidAssumption == Pid \in Nat \ {0}

VARIABLES
  shell,    \* the terminal: "running" or "exited"
  printed,  \* how many chunks it has printed since the handle attached
  wire,     \* the events sent and not yet received
  stream,   \* "open", "finished" (the server ended it) or "broken"
  pc,       \* where consume is
  hand,     \* the chunk consume is sending on the channel: at most one
  output,   \* the channel's contents
  closed,   \* the channel is closed
  read,     \* history: the chunks read from the channel, in order
  pid, err, result, done,  \* the handle's fields
  waits,    \* Waiters -> where each Wait is and how it ended
  kill      \* one Kill: [at, pid], at its answer when it has one

terminal == <<shell, printed>>
link     == <<wire, stream>>
channel  == <<hand, output, closed>>
handle   == <<pid, err, result, done>>
vars == <<shell, printed, wire, stream, pc, hand, output, closed, read,
          pid, err, result, done, waits, kill>>

Event(kind, chunk) == [kind |-> kind, chunk |-> chunk]

\* newPtyHandle: Create knows no process ID yet, Connect was given one.
Init == /\ shell = "running"
        /\ printed = 0
        /\ wire = <<Event("start", 0)>>
        /\ stream = "open"
        /\ pc = "receive"
        /\ hand = <<>> /\ output = <<>> /\ closed = FALSE /\ read = <<>>
        /\ pid \in {0, Pid}
        /\ err = "none" /\ result = FALSE /\ done = FALSE
        /\ waits = [w \in Waiters |-> "idle"]
        /\ kill = [at |-> "idle", pid |-> 0]

-----------------------------------------------------------------------------
(* envd and the network.                                                    *)

Sendable == stream = "open" /\ Len(wire) < Window

Emit ==
  /\ shell = "running" /\ Sendable
  /\ printed < MaxChunks
  /\ printed' = printed + 1
  /\ wire' = Append(wire, Event("data", printed + 1))
  /\ UNCHANGED <<shell, stream, pc, channel, read, handle, waits, kill>>

Keepalive ==
  /\ shell = "running" /\ Sendable
  /\ \A i \in 1..Len(wire) : wire[i].kind # "keepalive"
  /\ wire' = Append(wire, Event("keepalive", 0))
  /\ UNCHANGED <<terminal, stream, pc, channel, read, handle, waits, kill>>

\* The shell ends by itself, or is found dead.
Exit ==
  /\ shell = "running"
  /\ shell' = "exited"
  /\ UNCHANGED <<printed, link, pc, channel, read, handle, waits, kill>>

\* An exited shell's stream carries its End event and then finishes.
SendEnd ==
  /\ shell = "exited" /\ Sendable
  /\ wire' = Append(wire, Event("end", 0))
  /\ stream' = "finished"
  /\ UNCHANGED <<terminal, pc, channel, read, handle, waits, kill>>

\* The server, or something on the way, ends the stream without an End.
CutShort ==
  /\ stream = "open"
  /\ stream' = "finished"
  /\ UNCHANGED <<terminal, wire, pc, channel, read, handle, waits, kill>>

\* The connection fails, or the context given to Create ends: what was not
\* received yet may be lost.
Break ==
  /\ stream \in {"open", "finished"}
  /\ stream' = "broken"
  /\ \E k \in 0..Len(wire) : wire' = SubSeq(wire, 1, k)
  /\ UNCHANGED <<terminal, pc, channel, read, handle, waits, kill>>

-----------------------------------------------------------------------------
(* consume                                                                  *)

Receives(kind) == pc = "receive" /\ wire # <<>> /\ Head(wire).kind = kind

RecvStart ==
  /\ Receives("start")
  /\ wire' = Tail(wire)
  /\ pid' = Pid
  /\ UNCHANGED <<terminal, stream, pc, channel, read, err, result, done, waits, kill>>

RecvData ==
  /\ Receives("data")
  /\ wire' = Tail(wire)
  /\ hand' = <<Head(wire).chunk>>
  /\ pc' = "send"
  /\ UNCHANGED <<terminal, stream, output, closed, read, handle, waits, kill>>

\* As PushOutput, a full channel making consume drop the chunk (a mutant).
PushOrDrop ==
  /\ pc = "send"
  /\ output' = IF Len(output) < Capacity THEN output \o hand ELSE output
  /\ hand' = <<>>
  /\ pc' = "receive"
  /\ UNCHANGED <<terminal, link, closed, read, handle, waits, kill>>

\* h.output <- data.Pty: blocks while the channel is full.
PushOutput ==
  /\ pc = "send"
  /\ Len(output) < Capacity
  /\ output' = output \o hand
  /\ hand' = <<>>
  /\ pc' = "receive"
  /\ UNCHANGED <<terminal, link, closed, read, handle, waits, kill>>

RecvEnd ==
  /\ Receives("end")
  /\ wire' = Tail(wire)
  /\ result' = TRUE
  /\ UNCHANGED <<terminal, stream, pc, channel, read, pid, err, done, waits, kill>>

RecvKeepalive ==
  /\ Receives("keepalive")
  /\ wire' = Tail(wire)
  /\ UNCHANGED <<terminal, stream, pc, channel, read, handle, waits, kill>>

\* As StreamOver, a stream that ended early taken for a clean end (a mutant).
StreamOverTrustsEof ==
  /\ pc = "receive" /\ wire = <<>> /\ stream # "open"
  /\ err' = IF stream = "broken" THEN "stream" ELSE "none"
  /\ pc' = "closeOutput"
  /\ UNCHANGED <<terminal, link, channel, read, pid, result, done, waits, kill>>

\* Receive returned false: the verdict, then the deferred stream.Close.
StreamOver ==
  /\ pc = "receive" /\ wire = <<>> /\ stream # "open"
  /\ err' = IF stream = "broken" THEN "stream"
            ELSE IF ~result THEN "early" ELSE "none"
  /\ pc' = "closeOutput"
  /\ UNCHANGED <<terminal, link, channel, read, pid, result, done, waits, kill>>

CloseOutput ==
  /\ pc = "closeOutput"
  /\ closed' = TRUE
  /\ pc' = "closeDone"
  /\ UNCHANGED <<terminal, link, hand, output, read, handle, waits, kill>>

\* As CloseDone, done closed only when there is a result (a mutant).
CloseDoneOnSuccess ==
  /\ pc = "closeDone"
  /\ done' = (err = "none")
  /\ pc' = "gone"
  /\ UNCHANGED <<terminal, link, channel, read, pid, err, result, waits, kill>>

\* As CloseDone, the stream asked once more how it ended (a mutant).
CloseDoneAsksAgain ==
  /\ pc = "closeDone"
  /\ err' = IF stream = "broken" THEN "stream" ELSE err
  /\ done' = TRUE
  /\ pc' = "gone"
  /\ UNCHANGED <<terminal, link, channel, read, pid, result, waits, kill>>

CloseDone ==
  /\ pc = "closeDone"
  /\ done' = TRUE
  /\ pc' = "gone"
  /\ UNCHANGED <<terminal, link, channel, read, pid, err, result, waits, kill>>

Consume == \/ RecvStart \/ RecvData \/ PushOutput \/ RecvEnd \/ RecvKeepalive
           \/ StreamOver \/ CloseOutput \/ CloseDone

-----------------------------------------------------------------------------
(* The client's calls.                                                      *)

\* A receive from Output().
Read ==
  /\ output # <<>>
  /\ read' = Append(read, Head(output))
  /\ output' = Tail(output)
  /\ UNCHANGED <<terminal, link, pc, hand, closed, handle, waits, kill>>

Wait(w) ==
  /\ waits[w] = "idle"
  /\ waits' = [waits EXCEPT ![w] = "waiting"]
  /\ UNCHANGED <<terminal, link, pc, channel, read, handle, kill>>

\* Wait's select, then its reading of err and result.
WaitDone(w) ==
  /\ waits[w] = "waiting" /\ done
  /\ waits' = [waits EXCEPT ![w] = IF err # "none" THEN "error"
                                   ELSE IF result THEN "result" ELSE "nothing"]
  /\ UNCHANGED <<terminal, link, pc, channel, read, handle, kill>>

WaitExpired(w) ==
  /\ waits[w] = "waiting"
  /\ waits' = [waits EXCEPT ![w] = "cancelled"]
  /\ UNCHANGED <<terminal, link, pc, channel, read, handle, kill>>

\* Kill goes out with the process ID the handle has at that moment.
Kill ==
  /\ kill.at = "idle"
  /\ kill' = [at |-> "sent", pid |-> pid]
  /\ UNCHANGED <<terminal, link, pc, channel, read, handle, waits>>

Found == kill.pid = Pid /\ shell = "running"

\* SendSignal reaches envd.
Signal ==
  /\ kill.at = "sent"
  /\ kill' = [kill EXCEPT !.at = IF Found THEN "killed" ELSE "missing"]
  /\ shell' = IF Found THEN "exited" ELSE shell
  /\ UNCHANGED <<printed, link, pc, channel, read, handle, waits>>

KillReturns ==
  /\ kill.at \in {"killed", "missing"}
  /\ kill' = [kill EXCEPT !.at = IF kill.at = "killed" THEN "true" ELSE "false"]
  /\ UNCHANGED <<terminal, link, pc, channel, read, handle, waits>>

\* The request or its answer is lost.
KillFails ==
  /\ kill.at \in {"sent", "killed", "missing"}
  /\ kill' = [kill EXCEPT !.at = "error"]
  /\ UNCHANGED <<terminal, link, pc, channel, read, handle, waits>>

Envd == Emit \/ Keepalive \/ Exit \/ SendEnd \/ CutShort \/ Break \/ Signal
Client == \/ Read \/ Kill \/ KillReturns \/ KillFails
          \/ \E w \in Waiters : Wait(w) \/ WaitDone(w) \/ WaitExpired(w)
Next == Envd \/ Consume \/ Client

Spec == Init /\ [][Next]_vars

\* The goroutines of the SDK are scheduled, and envd ends the stream of a
\* terminal that has exited; nothing makes a shell exit, a connection fail, a
\* context end, or anybody read Output.
FairSpec == /\ Spec
            /\ WF_vars(Consume)
            /\ WF_vars(SendEnd)
            /\ \A w \in Waiters : WF_vars(WaitDone(w))

\* And the caller does drain Output (pty_create.go:11-12).
DrainedSpec == FairSpec /\ WF_vars(Read)

-----------------------------------------------------------------------------
(* What the handle promises.                                                *)

\* What has left the wire, first to last.
Taken == read \o output \o hand

\* The i-th event on the wire carries the n-th chunk.
Carries(i, n) == wire[i] = Event("data", n)

\* Backpressure loses, repeats and reorders nothing: at any moment the chunks
\* read, buffered and in consume's hand are the first that were printed, and
\* those on the wire the ones that follow, each once and in order; all of them
\* are in one of these places unless the connection broke.
OutputFaithful ==
  LET next == Len(Taken) + 1 IN
  /\ \A i \in 1 .. Len(Taken) : Taken[i] = i
  /\ \A i, j \in 1 .. Len(wire) :
       i < j /\ wire[i].kind = "data" /\ wire[j].kind = "data" =>
         wire[i].chunk < wire[j].chunk
  /\ \A j \in 1 .. Len(wire) : wire[j].kind = "data" =>
       /\ wire[j].chunk \in next .. printed
       /\ \A n \in next .. wire[j].chunk - 1 : \E i \in 1 .. j : Carries(i, n)
  /\ Len(Taken) <= printed
  /\ stream # "broken" =>
       \A n \in next .. printed : \E i \in 1 .. Len(wire) : Carries(i, n)

\* When Wait reports how the terminal exited it did exit, and every chunk it
\* printed has been read or sits in a channel already closed, so that a range
\* over Output gets the rest and ends; with an error it never reports a
\* result, and it never reports nothing at all.  Kill reports true only for a
\* terminal that has been killed and, once its process ID is known, false only
\* for one that is gone.
ExitTruthful ==
  /\ done => closed /\ hand = <<>>
  /\ done /\ err = "none" =>
       result /\ shell = "exited" /\ Len(read) + Len(output) = printed
  /\ \A w \in Waiters :
       /\ waits[w] = "result" => done /\ err = "none" /\ result
       /\ waits[w] = "error" => done /\ err # "none"
       /\ waits[w] # "nothing"
  /\ kill.at = "true" => shell = "exited"
  /\ kill.at = "false" /\ kill.pid = Pid => shell = "exited"

\* The connection failed, or the stream is over without an End event.
Ending == result \/ \E i \in 1 .. Len(wire) : wire[i].kind = "end"
Lost   == stream = "broken" \/ (stream = "finished" /\ ~Ending)

\* A verdict is reached when consume has left its loop; a Wait reports it.
Concluded == pc \in {"closeOutput", "closeDone", "gone"}
Named(wait) == IF wait = "result" THEN "well"
               ELSE IF wait = "error" THEN "lost"
               ELSE IF wait = "cancelled" THEN "gaveUp" ELSE wait
Verdict == IF ~Concluded THEN "pending"
           ELSE IF err = "none" THEN "well" ELSE "lost"
Answers == [w \in Waiters |-> Named(waits[w])]

Promise == INSTANCE StreamContract WITH
  opened <- TRUE, first <- 0, made <- printed, listens <- TRUE, got <- Taken,
  over <- shell = "exited", broken <- Lost, asked <- FALSE,
  verdict <- Verdict, answers <- Answers

\* The handle of a terminal reports an exit only once it has taken all the
\* output, and an error only of a stream that was lost; consume takes nothing
\* more once it has decided, its verdict never changes, and every Wait that is
\* answered gets it. The handle implements StreamContract.
ImplementsStream == Promise!Spec

\* With the caller draining Output, a terminal that exits, or a stream that
\* ends otherwise, ends consume, closes Output and lets every Wait return.
WaitReturns ==
  /\ shell = "exited" \/ stream # "open" ~> done /\ closed
  /\ \A w \in Waiters :
       waits[w] = "waiting" /\ (shell = "exited" \/ stream # "open")
         ~> waits[w] # "waiting"
=============================================================================
