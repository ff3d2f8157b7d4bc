----------------------------- MODULE RetryProofs -----------------------------
(* The theorems about Retry: they hold for any number of retries, any cap    *)
(* and any width of the duration.                                            *)
EXTENDS Retry, TLAPS

USE RetriesAssumption DEF RetriesAssumption

Record == [body : {"none", "whole", "spent"},
           asked : Seconds \cup {Absent}, waited : Int]

\* The wait about to be served, or just served, is one the server asked for.
Asked == pc = "sleep" \/ (pc = "send" /\ attempt > 0)

\* Where the loop is settles what it has sent and what it holds.
Progress ==
  /\ Len(trace) = IF pc = "send" THEN attempt ELSE attempt + 1
  /\ pc = "send" => body = Replayed
  /\ pc = "sleep" => attempt < Retries
  /\ pc = "sleep" \/ attempt > 0 => source \in {"none", "again"}
  /\ pc = "done" <=> result # "none"
  /\ Asked => resp.after \in Seconds /\ Waits(resp) /\ wait = Wait(resp)

IInv == TypeOK /\ Progress /\ WholeBodies /\ ResponsesAccounted

-----------------------------------------------------------------------------
LEMMA WrapType == \A n \in Int : Wrap(n) \in Int
BY WordAssumption DEF Wrap, WordAssumption

\* Appending one record leaves the earlier ones in place.
LEMMA Appended ==
  ASSUME NEW S, NEW s \in Seq(S), NEW e \in S
  PROVE  /\ Append(s, e) \in Seq(S)
         /\ Len(Append(s, e)) = Len(s) + 1
         /\ Len(s) \in Nat
         /\ \A i \in 1..Len(s) : Append(s, e)[i] = s[i]
         /\ Append(s, e)[Len(s) + 1] = e
OBVIOUS

LEMMA InitInv == Init => IInv
<1> SUFFICES ASSUME Init PROVE IInv
  OBVIOUS
<1>1. TypeOK
  <2>1. trace \in Seq([body : {"none", "whole", "spent"},
                       asked : Seconds \cup {Absent}, waited : Int])
    BY DEF Init
  <2>2. resp \in Responses
    BY DEF Init, Responses
  <2>3. body \in {"none", "whole", "spent"} /\ source \in {"none", "again", "never", "fails"}
    BY DEF Init, Replayed
  <2>4. attempt \in 0..Retries /\ wait \in Int
    BY DEF Init
  <2>5. /\ open \subseteq 0..Retries
        /\ ended \in BOOLEAN
        /\ pc \in {"send", "answered", "sleep", "done"}
        /\ result \in {"none", "error", "response"}
    BY Zenon DEF Init
  <2> QED BY <2>1, <2>2, <2>3, <2>4, <2>5 DEF TypeOK
<1>2. Progress /\ WholeBodies /\ ResponsesAccounted
  BY DEF Init, Progress, WholeBodies, ResponsesAccounted, Asked
<1> QED BY <1>1, <1>2 DEF IInv

LEMMA StepInv == IInv /\ [Next]_vars => IInv'
<1> SUFFICES ASSUME IInv, [Next]_vars PROVE IInv'
  OBVIOUS
<1> USE DEF IInv
<1>1. CASE Send
  <2> DEFINE e == [body |-> body, asked |-> resp.after, waited |-> wait]
  <2>1. e \in Record
    BY DEF TypeOK, Responses, Record
  <2>2. trace \in Seq(Record) /\ trace' = Append(trace, e)
    BY <1>1 DEF TypeOK, Record, Send
  <2>3. /\ trace' \in Seq(Record)
        /\ Len(trace') = Len(trace) + 1
        /\ \A i \in 1..Len(trace) : trace'[i] = trace[i]
        /\ trace'[Len(trace) + 1] = e
    BY <2>1, <2>2, Appended
  <2>4. TypeOK'
    BY <1>1, <2>3 DEF TypeOK, Record, Send
  <2>5. Progress'
    BY <1>1, <2>3 DEF TypeOK, Progress, Send, Asked
  <2>6. Len(trace') = attempt + 1 /\ attempt \in 0..Retries /\ source' = source
    BY <1>1, <2>3 DEF Progress, TypeOK, Send
  <2>7. e.body = IF source = "none" THEN "none" ELSE "whole"
    BY <1>1 DEF Progress, Send, Replayed
  <2>8. WholeBodies'
    <3>1. Len(trace') <= Retries + 1
      BY <2>6
    <3>2. source \in {"never", "fails"} => Len(trace') <= 1
      BY <2>6, <1>1 DEF Progress, TypeOK
    <3>3. ASSUME NEW i \in 1..Len(trace')
          PROVE  trace'[i].body = IF source = "none" THEN "none" ELSE "whole"
      <4>1. CASE i \in 1..Len(trace)
        BY <4>1, <2>3 DEF WholeBodies
      <4>2. CASE i = Len(trace) + 1
        BY <4>2, <2>3, <2>7
      <4> QED BY <4>1, <4>2, <2>2, <2>3
    <3> QED BY <3>1, <3>2, <3>3, <2>6 DEF WholeBodies
  <2>9. ResponsesAccounted'
    BY <1>1 DEF ResponsesAccounted, Progress, Send, TypeOK
  <2> QED BY <2>4, <2>5, <2>8, <2>9
<1>2. CASE ContextEnds
  BY <1>2 DEF ContextEnds, TypeOK, Progress, Asked, Replayed, WholeBodies, ResponsesAccounted
<1>3. CASE Return
  BY <1>3 DEF Return, TypeOK, Progress, Asked, WholeBodies, ResponsesAccounted
<1>4. CASE Retry
  <2>1. Wait(resp) \in Int /\ resp.after \in Seconds
    BY <1>4, WrapType, WordAssumption, SecondsAssumption
    DEF Retry, Retriable, Wait, Waits, TypeOK, Responses, WordAssumption, SecondsAssumption
  <2>2. TypeOK'
    BY <1>4, <2>1 DEF Retry, TypeOK
  <2>3. Progress'
    BY <1>4, <2>1 DEF Wait, Waits, Retry, Retriable, Progress, Asked, Replays, TypeOK
  <2>4. WholeBodies' /\ ResponsesAccounted'
    BY <1>4 DEF Retry, WholeBodies, ResponsesAccounted, Progress
  <2> QED BY <2>2, <2>3, <2>4
<1>5. CASE Wake
  <2>1. TypeOK'
    BY <1>5 DEF Wake, TypeOK, Progress, Replayed
  <2>2. Progress'
    BY <1>5 DEF Wake, TypeOK, Progress, Replayed, Asked
  <2>3. WholeBodies' /\ ResponsesAccounted'
    BY <1>5 DEF Wake, WholeBodies, ResponsesAccounted, Progress
  <2> QED BY <2>1, <2>2, <2>3
<1>6. CASE Cancelled
  BY <1>6 DEF Cancelled, TypeOK, Progress, Asked, WholeBodies, ResponsesAccounted
<1>7. CASE UNCHANGED vars
  BY <1>7 DEF vars, TypeOK, Progress, Asked, Replayed, WholeBodies, ResponsesAccounted
<1> QED BY <1>1, <1>2, <1>3, <1>4, <1>5, <1>6, <1>7 DEF Next

LEMMA Invariant == Spec => []IInv
BY InitInv, StepInv, PTL DEF Spec

\* Whatever the server answers, a request is sent at most Retries times after
\* the first and always with its body from the beginning.
THEOREM BodiesWhole == Spec => []WholeBodies
BY Invariant, PTL DEF IInv

\* Every response RoundTrip does not return has been closed, on every path
\* out of the loop.
THEOREM NothingLeaks == Spec => []ResponsesAccounted
BY Invariant, PTL DEF IInv

-----------------------------------------------------------------------------
\* A number of seconds an int64 can hold as a duration is not changed by it.
LEMMA WrapSmall ==
  ASSUME NEW n \in Nat, n < Word \div 2
  PROVE  Wrap(n) = n
<1> DEFINE h == Word \div 2
<1>1. h \in Nat /\ n + h \in Nat /\ n + h < Word /\ Word \in Nat
  BY WordAssumption DEF WordAssumption
<1>2. (n + h) % Word = n + h
  BY <1>1
<1> QED BY <1>1, <1>2 DEF Wrap

\* Whatever numbers a server may send: a request is re-sent only when it was
\* asked for, after no longer than the cap, and after just the wait that was
\* asked for unless no duration holds it.
THEOREM WaitsHonoured == Spec => []HonoursRetryAfter
<1>1. Init => HonoursRetryAfter
  BY DEF Init, HonoursRetryAfter
<1>2. IInv /\ HonoursRetryAfter /\ [Next]_vars => HonoursRetryAfter'
  <2> SUFFICES ASSUME IInv, HonoursRetryAfter, [Next]_vars PROVE HonoursRetryAfter'
    OBVIOUS
  <2> USE DEF IInv
  <2>1. CASE trace' = trace
    BY <2>1 DEF HonoursRetryAfter
  <2>2. CASE Send
    <3> DEFINE e == [body |-> body, asked |-> resp.after, waited |-> wait]
    <3>1. e \in Record
      BY DEF TypeOK, Responses, Record
    <3>2. trace \in Seq(Record) /\ trace' = Append(trace, e)
      BY <2>2 DEF TypeOK, Record, Send
    <3>3. /\ Len(trace') = Len(trace) + 1
          /\ Len(trace) \in Nat
          /\ \A i \in 1..Len(trace) : trace'[i] = trace[i]
          /\ trace'[Len(trace) + 1] = e
      BY <3>1, <3>2, Appended
    <3>4. Len(trace) = attempt /\ attempt \in Nat
      BY <2>2 DEF Send, Progress, TypeOK
    <3>5. ASSUME attempt > 0
          PROVE  /\ resp.after \in Seconds
                 /\ resp.after >= 0
                 /\ wait <= MaxAfter
                 /\ FitsDuration(resp.after) => wait = resp.after * Second
      <4>1. resp.after \in Seconds /\ Waits(resp) /\ wait = Wait(resp)
        BY <2>2, <3>5 DEF Send, Progress, Asked
      <4>2. resp.after * Second \in Nat
        BY <4>1, WordAssumption, SecondsAssumption DEF Waits, WordAssumption, SecondsAssumption
      <4>3. FitsDuration(resp.after) => Wait(resp) = resp.after * Second
        BY <4>1, <4>2, WrapSmall DEF Wait, FitsDuration
      <4> QED BY <4>1, <4>3 DEF Waits
    <3>6. ASSUME NEW i \in 2..Len(trace')
          PROVE  /\ trace'[i].asked \in Seconds
                 /\ trace'[i].asked >= 0
                 /\ trace'[i].waited <= MaxAfter
                 /\ FitsDuration(trace'[i].asked) =>
                      trace'[i].waited = trace'[i].asked * Second
      <4>1. CASE i \in 2..Len(trace)
        BY <4>1, <3>3 DEF HonoursRetryAfter
      <4>2. CASE i = Len(trace) + 1
        BY <4>2, <3>3, <3>4, <3>5
      <4> QED BY <4>1, <4>2, <3>3
    <3> QED BY <3>6 DEF HonoursRetryAfter, FitsDuration
  <2> QED BY <2>1, <2>2 DEF Next, ContextEnds, Return, Retry, Wake, Cancelled, vars
<1> QED BY <1>1, <1>2, Invariant, PTL DEF Spec

\* The loop of RoundTrip stays inside its types: the counter within Retries, a
\* body whole or spent, the open responses among those received.
THEOREM TypeCorrect == Spec => []TypeOK
<1>1. IInv => TypeOK
  BY DEF IInv
<1> QED BY <1>1, Invariant, PTL
=============================================================================
