-------------------------------- MODULE Retry --------------------------------
(***************************************************************************)
(* transport/retry.go: one request going through retryTransport.RoundTrip, *)
(* which re-sends a request answered 429 when Retry-After names a number   *)
(* of seconds it is willing to wait.                                       *)
(*                                                                         *)
(* What matters of a request is whether its body can be produced again     *)
(* (req.GetBody) and whether the copy about to be sent is whole; of a      *)
(* response, whether it is a 429, its Retry-After, and whether its body is *)
(* still held open.  time.Duration is a signed integer that wraps: the     *)
(* constants scale its 64 bits down to a word of size Word, and a second   *)
(* to Second units.                                                        *)
(***************************************************************************)
EXTENDS Integers, Sequences

CONSTANTS Retries,   \* Config.Retries after resolution
          Second,    \* time.Second
          Word,      \* the number of values of an int64 (an even number)
          MaxAfter,  \* maxRetryAfter
          Seconds,   \* the numbers a server may send as Retry-After
          Absent     \* a Retry-After that is missing or not a number

ASSUME RetriesAssumption == Retries \in Nat
ASSUME WordAssumption == /\ Second \in Nat \ {0}
                         /\ MaxAfter \in Nat
                         /\ Word \in Nat \ {0}
                         /\ Word % 2 = 0
                         /\ MaxAfter < Word \div 2
ASSUME SecondsAssumption ==
  \A n \in Seconds : n \in Int /\ -(Word \div 2) <= n /\ n < Word \div 2
ASSUME AbsentAssumption == Absent \notin Int

VARIABLES pc,       \* where RoundTrip is: "send", "answered", "sleep", "done"
          attempt,  \* the loop counter
          source,   \* what GetBody does: "none" (no body), "again", "never", "fails"
          body,     \* req.Body: "none", "whole" or "spent"
          resp,     \* the last response: [status, after]
          wait,     \* what the sleep in progress waits for
          ended,    \* the request's context has ended
          open,     \* the attempts whose response body nobody has closed
          trace,    \* history: one record per attempt sent
          result    \* "none", "error", or "response": the last one received

vars == <<pc, attempt, source, body, resp, wait, ended, open, trace, result>>

Responses == [status : {"other", "429"}, after : Seconds \cup {Absent}]

\* int64 arithmetic.
Wrap(n) == ((n + Word \div 2) % Word) - Word \div 2

\* retryAfter: the wait a response asks for, and whether it is one to honour.
Wait(r) == Wrap(r.after * Second)
\* As Waits, without the cap (a mutant).
WaitsUncapped(r) == r.after # Absent /\ r.after >= 0

Waits(r) == /\ r.after # Absent
            /\ r.after >= 0
            /\ Wait(r) <= MaxAfter

\* replayBody
Replays == source \in {"none", "again"}
Replayed == IF source = "none" THEN "none" ELSE "whole"

Init == /\ pc = "send"
        /\ attempt = 0
        /\ source \in {"none", "again", "never", "fails"}
        /\ body = Replayed
        /\ resp = [status |-> "other", after |-> Absent]
        /\ wait = 0
        /\ ended = FALSE
        /\ open = {}
        /\ trace = <<>>
        /\ result = "none"

-----------------------------------------------------------------------------
(* The base transport: it consumes the body it is given.                    *)

Send ==
  /\ pc = "send"
  /\ body' = IF body = "none" THEN "none" ELSE "spent"
  /\ trace' = Append(trace, [body |-> body, asked |-> resp.after, waited |-> wait])
  /\ \/ /\ ~ended
        /\ resp' \in Responses
        /\ open' = open \cup {attempt}
        /\ pc' = "answered"
        /\ UNCHANGED result
     \/ /\ pc' = "done"
        /\ result' = "error"
        /\ UNCHANGED <<resp, open>>
  /\ UNCHANGED <<attempt, source, wait, ended>>

ContextEnds ==
  /\ ~ended
  /\ ended' = TRUE
  /\ UNCHANGED <<pc, attempt, source, body, resp, wait, open, trace, result>>

-----------------------------------------------------------------------------
(* RoundTrip's loop.                                                        *)

Retriable == /\ resp.status = "429"
             /\ attempt < Retries
             /\ Waits(resp)
             /\ Replays

Return ==
  /\ pc = "answered"
  /\ ~Retriable
  /\ pc' = "done"
  /\ result' = "response"
  /\ UNCHANGED <<attempt, source, body, resp, wait, ended, open, trace>>

\* As Retry, the response closed only once the wait is over (a mutant).
RetryKeepsResponse ==
  /\ pc = "answered"
  /\ Retriable
  /\ wait' = Wait(resp)
  /\ pc' = "sleep"
  /\ UNCHANGED <<attempt, source, body, resp, ended, open, trace, result>>

\* The new body is in hand and the 429 is drained before the wait begins.
Retry ==
  /\ pc = "answered"
  /\ Retriable
  /\ open' = open \ {attempt}
  /\ wait' = Wait(resp)
  /\ pc' = "sleep"
  /\ UNCHANGED <<attempt, source, body, resp, ended, trace, result>>

\* As Wake, the request cloned without its new body (a mutant).
WakeKeepsBody ==
  /\ pc = "sleep"
  /\ attempt' = attempt + 1
  /\ pc' = "send"
  /\ UNCHANGED <<source, body, resp, wait, ended, open, trace, result>>

\* sleep: the timer fires; with both ready either branch may be taken.
Wake ==
  /\ pc = "sleep"
  /\ body' = Replayed
  /\ attempt' = attempt + 1
  /\ pc' = "send"
  /\ UNCHANGED <<source, resp, wait, ended, open, trace, result>>

Cancelled ==
  /\ pc = "sleep"
  /\ ended
  /\ pc' = "done"
  /\ result' = "error"
  /\ UNCHANGED <<attempt, source, body, resp, wait, ended, open, trace>>

Next == Send \/ ContextEnds \/ Return \/ Retry \/ Wake \/ Cancelled

Spec == Init /\ [][Next]_vars

-----------------------------------------------------------------------------
(* What the retrying transport promises.                                    *)

\* The loop stays inside its types.
TypeOK ==
  /\ pc \in {"send", "answered", "sleep", "done"}
  /\ attempt \in 0..Retries
  /\ source \in {"none", "again", "never", "fails"}
  /\ body \in {"none", "whole", "spent"}
  /\ resp \in Responses
  /\ wait \in Int
  /\ ended \in BOOLEAN
  /\ open \subseteq 0..Retries
  /\ trace \in Seq([body : {"none", "whole", "spent"},
                    asked : Seconds \cup {Absent}, waited : Int])
  /\ result \in {"none", "error", "response"}

\* A request is sent at most Retries times after the first, each time with
\* its body from the beginning, and a body that cannot be produced again is
\* sent once: RoundTrip takes the new body before it gives up the response.
WholeBodies ==
  /\ Len(trace) <= Retries + 1
  /\ source \in {"never", "fails"} => Len(trace) <= 1
  /\ \A i \in 1..Len(trace) :
       trace[i].body = IF source = "none" THEN "none" ELSE "whole"

\* Whichever way RoundTrip leaves, the connection of every response it does
\* not return has been released, and that of the one it returns has not.
ResponsesAccounted ==
  open = IF pc = "answered" \/ result = "response" THEN {attempt} ELSE {}

\* A request is sent again only when the server asked for it, with a number of
\* seconds that is not negative, and never after a longer wait than
\* maxRetryAfter. The wait is what the server asked for, which then was no more
\* than that, as long as a duration holds it: a number of seconds that wraps
\* is the exception, and is waited for as what it wraps to.
FitsDuration(seconds) == seconds * Second < Word \div 2
HonoursRetryAfter ==
  \A i \in 2..Len(trace) :
    /\ trace[i].asked \in Seconds
    /\ trace[i].asked >= 0
    /\ trace[i].waited <= MaxAfter
    /\ FitsDuration(trace[i].asked) =>
         trace[i].waited = trace[i].asked * Second
=============================================================================
