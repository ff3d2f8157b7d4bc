--------------------------- MODULE DirectoryWatch ---------------------------
(***************************************************************************)
(* pkg/sandbox/files_watch.go and files_watcher.go: the two ways of being  *)
(* told what changes under a directory.                                    *)
(*                                                                         *)
(* Watch holds a stream: a goroutine (consume) hands its events to onEvent *)
(* one at a time, and when it is over tells onExit and then whoever is in  *)
(* Wait why.  Stop, the watch's timeout and the caller's context all end   *)
(* the same context, at any moment.                                        *)
(*                                                                         *)
(* A Watcher is parked in envd: Events takes what has gathered there since *)
(* the last call, and a reply may be lost on its way.                      *)
(*                                                                         *)
(* A change is its number.  A behaviour uses one of the two ways.          *)
(***************************************************************************)
EXTENDS Naturals, Sequences, SequencesExt

CONSTANTS MaxChanges,   \* bound: changes made under the directory
          Window,       \* events the connection holds before envd blocks
          Waiters,      \* calls of WatchHandle.Wait
          Pollers       \* calls of Watcher.Events

ASSUME MaxChangesAssumption == MaxChanges \in Nat
ASSUME WindowAssumption == Window \in Nat \ {0}

VARIABLES
  changes,    \* how many changes have been made
  \* Watch: the connection ...
  since,      \* the changes made before envd began to watch
  sent,       \* the last change envd put on the stream
  wire,       \* what it holds: changes, and 0 for a marker
  stream,     \* "open", "finished", "broken", "cut" by the context, or
              \* "expired" by the HTTP client's timeout
  ctx,        \* "live", or what ended it: "asked" (Stop, timeout, the
              \* caller's context) or "consume" (its deferred cancel)
  \* ... the goroutine ...
  pc,         \* where consume is
  hooks,      \* which callbacks the caller passed
  failed,     \* what stream.Err() said
  \* ... and what the caller sees
  err, done,  \* the handle's fields
  told,       \* history: the changes onEvent was called with
  exits,      \* history: the errors onExit was called with
  waits,      \* Waiters -> where each Wait is, and how it ended
  \* Watcher
  watcher,    \* at envd: "none", "live" or "removed"
  held,       \* the caller holds a Watcher
  pending,    \* the changes gathered at envd
  polls,      \* Pollers -> [at, batch]
  handed,     \* history: the changes Events has returned, call by call
  lost        \* history: a call that reached envd failed

link     == <<since, sent, wire, stream>>
routine  == <<pc, hooks, failed>>
seen     == <<err, done, told, exits, waits>>
watchVars == <<link, ctx, routine, seen>>
pollVars == <<watcher, held, pending, polls, handed, lost>>
vars == <<changes, watchVars, pollVars>>

Hooks == {"onEvent", "onExit"}

Init ==
  /\ changes = 0
  /\ since = 0 /\ sent = 0 /\ wire = <<>> /\ stream = "open"
  /\ ctx = "live"
  /\ pc = "idle" /\ hooks = {} /\ failed = FALSE
  /\ err = "none" /\ done = FALSE /\ told = <<>> /\ exits = <<>>
  /\ waits = [w \in Waiters |-> "idle"]
  /\ watcher = "none" /\ held = FALSE /\ pending = <<>>
  /\ polls = [p \in Pollers |-> [at |-> "idle", batch |-> <<>>]]
  /\ handed = <<>> /\ lost = FALSE

-----------------------------------------------------------------------------
(* The directory and envd.                                                  *)

Change ==
  /\ changes < MaxChanges
  /\ changes' = changes + 1
  /\ pending' = IF watcher = "live" THEN Append(pending, changes')
                ELSE pending
  /\ UNCHANGED <<watchVars, watcher, held, polls, handed, lost>>

Receiving == pc \in {"receive", "onEvent"}
Sending == Receiving /\ stream = "open" /\ Len(wire) < Window

Send ==
  /\ Sending /\ sent < changes
  /\ sent' = sent + 1
  /\ wire' = Append(wire, sent')
  /\ UNCHANGED <<changes, since, stream, ctx, routine, seen, pollVars>>

\* The start of the stream, or a keepalive.
SendMarker ==
  /\ Sending /\ 0 \notin ToSet(wire)
  /\ wire' = Append(wire, 0)
  /\ UNCHANGED <<changes, since, sent, stream, ctx, routine, seen, pollVars>>

\* envd ends the stream without an error.
Finish ==
  /\ Receiving /\ stream = "open"
  /\ stream' = "finished"
  /\ UNCHANGED <<changes, since, sent, wire, ctx, routine, seen, pollVars>>

\* envd ends it with one, or the connection fails: some of what is under way
\* is lost.
Break ==
  /\ Receiving /\ stream \in {"open", "finished"}
  /\ stream' = "broken"
  /\ \E k \in 0 .. Len(wire) : wire' = SubSeq(wire, 1, k)
  /\ UNCHANGED <<changes, since, sent, ctx, routine, seen, pollVars>>

\* The HTTP client the streams share with every other request has a timeout,
\* RequestTimeout or else five minutes, and it covers the reading of a body.
RequestTimeout ==
  /\ Receiving /\ stream = "open"
  /\ stream' = "expired"
  /\ \E k \in 0 .. Len(wire) : wire' = SubSeq(wire, 1, k)
  /\ UNCHANGED <<changes, since, sent, ctx, routine, seen, pollVars>>

\* The context has ended, and the stream with it.
Cut ==
  /\ Receiving /\ ctx # "live" /\ stream \in {"open", "finished"}
  /\ stream' = "cut"
  /\ \E k \in 0 .. Len(wire) : wire' = SubSeq(wire, 1, k)
  /\ UNCHANGED <<changes, since, sent, ctx, routine, seen, pollVars>>

-----------------------------------------------------------------------------
(* Watch and its handle.                                                    *)

\* Watch returns a handle. (One refused for its version, or whose request
\* could not be sent, has no handle and leaves nothing behind.)
Watch ==
  /\ pc = "idle" /\ watcher = "none"
  /\ pc' = "receive"
  /\ since' = changes /\ sent' = changes
  /\ hooks' \in SUBSET Hooks
  /\ UNCHANGED <<changes, wire, stream, ctx, failed, seen, pollVars>>

\* Stop, the timeout given to Watch, or the end of the caller's context.
Stop ==
  /\ pc # "idle" /\ ctx = "live"
  /\ ctx' = "asked"
  /\ UNCHANGED <<changes, link, routine, seen, pollVars>>

Wait(w) ==
  /\ pc # "idle" /\ waits[w] = "idle"
  /\ waits' = [waits EXCEPT ![w] = "waiting"]
  /\ UNCHANGED <<changes, link, ctx, routine, err, done, told, exits, pollVars>>

\* As WaitReturns, not waiting for done (a mutant).
WaitReturnsEarly(w) ==
  /\ waits[w] = "waiting" /\ (done \/ ctx # "live")
  /\ waits' = [waits EXCEPT ![w] = err]
  /\ UNCHANGED <<changes, link, ctx, routine, err, done, told, exits, pollVars>>

WaitReturns(w) ==
  /\ waits[w] = "waiting" /\ done
  /\ waits' = [waits EXCEPT ![w] = err]
  /\ UNCHANGED <<changes, link, ctx, routine, err, done, told, exits, pollVars>>

\* The context of the Wait itself ends.
WaitGivesUp(w) ==
  /\ waits[w] = "waiting"
  /\ waits' = [waits EXCEPT ![w] = "gaveUp"]
  /\ UNCHANGED <<changes, link, ctx, routine, err, done, told, exits, pollVars>>

-----------------------------------------------------------------------------
(* consume                                                                  *)

\* The stream's marker, or an event nobody listens for.
RecvNothing ==
  /\ pc = "receive" /\ wire # <<>>
  /\ Head(wire) = 0 \/ "onEvent" \notin hooks
  /\ wire' = Tail(wire)
  /\ UNCHANGED <<changes, since, sent, stream, ctx, routine, seen, pollVars>>

\* As RecvEvent, events that come after the context ended left out (a mutant).
RecvEventWhileLive ==
  /\ pc = "receive" /\ wire # <<>> /\ Head(wire) # 0 /\ "onEvent" \in hooks
  /\ wire' = Tail(wire)
  /\ told' = IF ctx = "live" THEN Append(told, Head(wire)) ELSE told
  /\ pc' = "onEvent"
  /\ UNCHANGED <<changes, since, sent, stream, ctx, hooks, failed, err, done,
                 exits, waits, pollVars>>

RecvEvent ==
  /\ pc = "receive" /\ wire # <<>> /\ Head(wire) # 0 /\ "onEvent" \in hooks
  /\ wire' = Tail(wire)
  /\ told' = Append(told, Head(wire))
  /\ pc' = "onEvent"
  /\ UNCHANGED <<changes, since, sent, stream, ctx, hooks, failed, err, done,
                 exits, waits, pollVars>>

EventReturns ==
  /\ pc = "onEvent"
  /\ pc' = "receive"
  /\ UNCHANGED <<changes, link, ctx, hooks, failed, seen, pollVars>>

\* Receive returns false.
StreamOver ==
  /\ pc = "receive" /\ wire = <<>> /\ stream # "open"
  /\ failed' = (stream # "finished")
  /\ pc' = "judge"
  /\ UNCHANGED <<changes, link, ctx, hooks, seen, pollVars>>

\* As Judge, after the context has been cancelled, as it would be by a cancel
\* that is not deferred (a mutant).
JudgeCancelled ==
  /\ pc = "judge"
  /\ ctx' = IF ctx = "live" THEN "consume" ELSE ctx
  /\ pc' = "tell"
  /\ UNCHANGED <<changes, link, hooks, failed, seen, pollVars>>

\* The context is read later than the stream's end: it may have ended since.
Judge ==
  /\ pc = "judge"
  /\ err' = IF failed /\ ctx = "live" THEN "error" ELSE "none"
  /\ pc' = "tell"
  /\ UNCHANGED <<changes, link, ctx, hooks, failed, done, told, exits, waits,
                 pollVars>>

\* onExit returns before any of the deferred calls runs.
TellExit ==
  /\ pc = "tell"
  /\ exits' = IF "onExit" \in hooks THEN Append(exits, err) ELSE exits
  /\ pc' = "cancel"
  /\ UNCHANGED <<changes, link, ctx, hooks, failed, err, done, told, waits,
                 pollVars>>

CancelContext ==
  /\ pc = "cancel"
  /\ ctx' = IF ctx = "live" THEN "consume" ELSE ctx
  /\ pc' = "close"
  /\ UNCHANGED <<changes, link, hooks, failed, seen, pollVars>>

\* As CloseDone, done closed by the branch that calls onExit (a mutant).
CloseDoneIfHeard ==
  /\ pc = "close"
  /\ done' = ("onExit" \in hooks)
  /\ pc' = "gone"
  /\ UNCHANGED <<changes, link, ctx, hooks, failed, err, told, exits, waits,
                 pollVars>>

\* stream.Close(), then close(w.done).
CloseDone ==
  /\ pc = "close"
  /\ done' = TRUE
  /\ pc' = "gone"
  /\ UNCHANGED <<changes, link, ctx, hooks, failed, err, told, exits, waits,
                 pollVars>>

Consume == \/ RecvNothing \/ RecvEvent \/ StreamOver \/ Judge \/ TellExit
           \/ CancelContext \/ CloseDone

-----------------------------------------------------------------------------
(* Watcher: each call, what it does at envd, and the fate of its reply.     *)

CreateWatcher ==
  /\ pc = "idle" /\ watcher = "none"
  /\ watcher' = "live"
  /\ \E arrives \in BOOLEAN : held' = arrives /\ lost' = ~arrives
  /\ UNCHANGED <<changes, watchVars, pending, polls, handed>>

\* envd answers Events: what it hands out it no longer has.
Poll(p) ==
  /\ held /\ watcher = "live" /\ polls[p].at = "idle"
  /\ polls' = [polls EXCEPT ![p] = [at |-> "answered", batch |-> pending]]
  /\ pending' = <<>>
  /\ UNCHANGED <<changes, watchVars, watcher, held, handed, lost>>

\* As PollReturns, an error answered with an empty list (a mutant).
PollSwallows(p) ==
  /\ polls[p].at = "answered"
  /\ polls' = [polls EXCEPT ![p].at = "returned"]
  /\ \/ handed' = handed \o polls[p].batch
     \/ UNCHANGED handed
  /\ UNCHANGED <<changes, watchVars, watcher, held, pending, lost>>

PollReturns(p) ==
  /\ polls[p].at = "answered"
  /\ polls' = [polls EXCEPT ![p].at = "returned"]
  /\ handed' = handed \o polls[p].batch
  /\ UNCHANGED <<changes, watchVars, watcher, held, pending, lost>>

\* The reply is lost, or the caller's context ends before it: an error.
PollFails(p) ==
  /\ polls[p].at = "answered"
  /\ polls' = [polls EXCEPT ![p].at = "failed"]
  /\ lost' = TRUE
  /\ UNCHANGED <<changes, watchVars, watcher, held, pending, handed>>

\* The call never reaches envd, or finds no watcher there.
PollRefused(p) ==
  /\ held /\ polls[p].at = "idle"
  /\ polls' = [polls EXCEPT ![p].at = "failed"]
  /\ UNCHANGED <<changes, watchVars, watcher, held, pending, handed, lost>>

\* Watcher.Remove, whether or not its reply arrives.
RemoveWatcher ==
  /\ held /\ watcher = "live"
  /\ watcher' = "removed" /\ pending' = <<>>
  /\ UNCHANGED <<changes, watchVars, held, polls, handed, lost>>

-----------------------------------------------------------------------------

Next ==
  \/ Change \/ Send \/ SendMarker \/ Finish \/ Break \/ RequestTimeout
  \/ Cut \/ Watch \/ Stop
  \/ \E w \in Waiters : Wait(w) \/ WaitReturns(w) \/ WaitGivesUp(w)
  \/ Consume \/ EventReturns
  \/ CreateWatcher \/ RemoveWatcher
  \/ \E p \in Pollers : \/ Poll(p) \/ PollReturns(p) \/ PollFails(p)
                        \/ PollRefused(p)

Spec == Init /\ [][Next]_vars

\* The goroutine is scheduled, a caller's onEvent returns, a select with a
\* ready case proceeds, and a stream whose context ended ends.
FairSpec == /\ Spec
            /\ WF_vars(Consume) /\ WF_vars(EventReturns) /\ WF_vars(Cut)
            /\ \A w \in Waiters : WF_vars(WaitReturns(w))

-----------------------------------------------------------------------------

TypeOK ==
  /\ changes \in 0 .. MaxChanges
  /\ since \in 0 .. MaxChanges /\ sent \in 0 .. MaxChanges
  /\ wire \in Seq(0 .. MaxChanges)
  /\ stream \in {"open", "finished", "broken", "cut", "expired"}
  /\ ctx \in {"live", "asked", "consume"}
  /\ pc \in {"idle", "receive", "onEvent", "judge", "tell", "cancel",
             "close", "gone"}
  /\ hooks \in SUBSET Hooks /\ failed \in BOOLEAN
  /\ err \in {"none", "error"} /\ done \in BOOLEAN
  /\ told \in Seq(1 .. MaxChanges) /\ exits \in Seq({"none", "error"})
  /\ waits \in [Waiters -> {"idle", "waiting", "none", "error", "gaveUp"}]
  /\ watcher \in {"none", "live", "removed"} /\ held \in BOOLEAN
  /\ pending \in Seq(1 .. MaxChanges)
  /\ polls \in [Pollers -> [at : {"idle", "answered", "returned", "failed"},
                            batch : Seq(1 .. MaxChanges)]]
  /\ handed \in Seq(1 .. MaxChanges) /\ lost \in BOOLEAN

\* onEvent hears of every change since the watch began, in order and once,
\* up to some point: nothing is skipped, even while the watch is being
\* stopped, and what is still under way continues where it is. As long as
\* nothing cut the stream, all that envd sent is told or under way.
EventsFaithful ==
  LET next == since + Len(told) + 1 IN
  "onEvent" \in hooks =>
    /\ \A i \in 1 .. Len(told) : told[i] = since + i
    /\ \A i, j \in 1 .. Len(wire) :
         i < j /\ wire[i] # 0 /\ wire[j] # 0 => wire[i] < wire[j]
    /\ \A j \in 1 .. Len(wire) : wire[j] # 0 =>
         /\ next <= wire[j]
         /\ \A n \in next .. wire[j] - 1 : \E i \in 1 .. j : wire[i] = n
    /\ stream \in {"open", "finished"} => next .. sent \subseteq ToSet(wire)

\* onExit is called once, before Wait returns and with what Wait returns, and no
\* event is delivered after it.
ExitBeforeWait ==
  /\ "onExit" \in hooks /\ done => exits = <<err>>
  /\ Len(exits) <= 1
  /\ exits # <<>> => pc \in {"cancel", "close", "gone"}
  /\ \A w \in Waiters :
       waits[w] \in {"none", "error"} => done /\ waits[w] = err

\* A verdict is reached when consume has judged the end; a Wait reports it.
Concluded == pc \in {"tell", "cancel", "close", "gone"}
Named(wait) == IF wait = "none" THEN "well"
               ELSE IF wait = "error" THEN "lost" ELSE wait
Verdict == IF ~Concluded THEN "pending"
           ELSE IF err = "none" THEN "well" ELSE "lost"
Answers == [w \in Waiters |-> Named(waits[w])]

Promise == INSTANCE StreamContract WITH
  opened <- pc # "idle", first <- since, made <- sent,
  listens <- "onEvent" \in hooks, got <- told,
  over <- stream # "open", broken <- stream \in {"broken", "expired"},
  asked <- ctx = "asked",
  verdict <- Verdict, answers <- Answers

\* A watch that reports no error, and was not asked to end, told its caller of
\* everything envd sent; one with an error really failed. onEvent hears nothing
\* more once the end has been judged, the verdict never changes, and every Wait
\* that is answered gets it. The handle implements StreamContract.
ImplementsStream == Promise!Spec

\* Each change is handed out at most once, whoever asks, and changes are lost
\* only with a call that failed: until then each one gathered is at envd, on
\* its way to a caller, or returned.
PolledOnce ==
  LET way == UNION {ToSet(polls[p].batch) :
                    p \in {q \in Pollers : polls[q].at = "answered"}}
  IN /\ IsInjective(handed)
     /\ ToSet(handed) \cap (way \cup ToSet(pending)) = {}
     /\ watcher = "live" /\ ~lost =>
          \E first \in 1 .. changes + 1 :
            ToSet(handed) \cup way \cup ToSet(pending) = first .. changes

\* A watch that is asked to end ends, and so does every Wait for it.
StopEnds ==
  /\ ctx = "asked" ~> done
  /\ \A w \in Waiters :
       (ctx = "asked" /\ waits[w] = "waiting") ~> (waits[w] # "waiting")

\* "Zero watches until the handle is stopped or the context ends": when
\* neither envd nor the network ends a watch, it is over because it was asked
\* to be. The code does not hold to it (RequestTimeout).
WatchesUntilAsked ==
  done => stream \in {"finished", "broken"} \/ ctx = "asked"
=============================================================================
