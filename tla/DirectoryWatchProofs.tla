------------------------ MODULE DirectoryWatchProofs ------------------------
(***************************************************************************)
(* Proofs about DirectoryWatch, for any number of changes, any window and  *)
(* any number of callers: what onEvent hears, what the handle says of the  *)
(* end, in which order its owner learns of it, and what polls hand out.    *)
(*                                                                         *)
(* Three invariants, one for each part of the state.  OrderInv follows     *)
(* consume from line to line: what it has decided and told at each of      *)
(* them.  StreamInv bounds what is told and under way by what was sent,    *)
(* which with EventsFaithful makes a stream that finished a stream heard   *)
(* in full.  PollInv keeps the changes at envd, under way and handed out   *)
(* apart, and each without repetition.                                     *)
(***************************************************************************)
EXTENDS DirectoryWatch, SequenceTheorems, TLAPS

-----------------------------------------------------------------------------
(* Types.                                                                   *)

LEMMA InitTypes == Init => TypeOK
<1> SUFFICES ASSUME Init PROVE TypeOK
  OBVIOUS
<1> USE MaxChangesAssumption DEF MaxChangesAssumption, Init, Hooks
<1>1. polls \in [Pollers -> [at : {"idle", "answered", "returned", "failed"},
                             batch : Seq(1 .. MaxChanges)]]
  <2> DEFINE B == Seq(1 .. MaxChanges)
  <2>1. <<>> \in B
    OBVIOUS
  <2> HIDE DEF B
  <2>2. polls \in [Pollers -> [at : {"idle", "answered", "returned", "failed"},
                               batch : B]]
    BY <2>1
  <2> QED BY <2>2 DEF B
<1>2. /\ <<>> \in Seq(0 .. MaxChanges) /\ <<>> \in Seq(1 .. MaxChanges)
      /\ <<>> \in Seq({"none", "error"})
  OBVIOUS
<1>3. waits \in [Waiters -> {"idle", "waiting", "none", "error", "gaveUp"}]
  OBVIOUS
<1>4. 0 \in 0 .. MaxChanges /\ hooks \in SUBSET Hooks
  OBVIOUS
<1> QED BY <1>1, <1>2, <1>3, <1>4 DEF TypeOK

\* What a step does to the sequences of the state.
LEMMA Cuts ==
  ASSUME NEW S, NEW s \in Seq(S), NEW k \in 0 .. Len(s)
  PROVE  /\ SubSeq(s, 1, k) \in Seq(S)
         /\ Len(SubSeq(s, 1, k)) = k
         /\ \A i \in 1 .. k : SubSeq(s, 1, k)[i] = s[i]
<1>1. \A i \in 1 .. k : s[i] \in S
  BY ElementOfSeq
<1>2. Len(s) \in Nat /\ k \in Nat
  OBVIOUS
<1> QED BY <1>1, <1>2, SubSeqProperties, Z3

LEMMA StreamTypes ==
  ASSUME TypeOK,
         \/ Change \/ Send \/ SendMarker \/ Finish \/ Break \/ RequestTimeout
         \/ Cut \/ Watch \/ Stop
  PROVE  TypeOK'
<1> USE MaxChangesAssumption DEF MaxChangesAssumption
<1>1. CASE Change
  <2>1. changes' \in 1 .. MaxChanges
    BY <1>1 DEF Change, TypeOK
  <2>2. pending' \in Seq(1 .. MaxChanges)
    <3> DEFINE N == changes'
               M == 1 .. MaxChanges
    <3>1. N \in M /\ pending \in Seq(M)
      BY <2>1 DEF TypeOK
    <3>2. pending' = IF watcher = "live" THEN Append(pending, N) ELSE pending
      BY <1>1 DEF Change
    <3> HIDE DEF N, M
    <3>3. pending' \in Seq(M)
      BY <3>1, <3>2
    <3> QED BY <3>3 DEF M
  <2>3. UNCHANGED <<watchVars, watcher, held, polls, handed, lost>>
    BY <1>1 DEF Change
  <2> QED BY <2>1, <2>2, <2>3 DEF TypeOK, watchVars, link, routine, seen
<1>2. CASE Send
  BY <1>2 DEF Send, TypeOK, routine, seen, pollVars
<1>3. CASE SendMarker
  BY <1>3 DEF SendMarker, TypeOK, routine, seen, pollVars
<1>4. CASE Finish
  BY <1>4 DEF Finish, TypeOK, routine, seen, pollVars
<1>5. CASE Break \/ RequestTimeout \/ Cut
  <2>1. /\ stream' \in {"broken", "expired", "cut"}
        /\ \E k \in 0 .. Len(wire) : wire' = SubSeq(wire, 1, k)
        /\ UNCHANGED <<changes, since, sent, ctx, routine, seen, pollVars>>
    BY <1>5 DEF Break, RequestTimeout, Cut
  <2>2. wire' \in Seq(0 .. MaxChanges)
    BY <2>1, Cuts DEF TypeOK
  <2> QED BY <2>1, <2>2 DEF TypeOK, routine, seen, pollVars
<1>6. CASE Watch
  BY <1>6 DEF Watch, TypeOK, seen, pollVars
<1>7. CASE Stop
  BY <1>7 DEF Stop, TypeOK, link, routine, seen, pollVars
<1> QED BY <1>1, <1>2, <1>3, <1>4, <1>5, <1>6, <1>7

LEMMA WaitTypes ==
  ASSUME TypeOK, NEW w \in Waiters, Wait(w) \/ WaitReturns(w) \/ WaitGivesUp(w)
  PROVE  TypeOK'
<1>1. \E v \in {"waiting", "gaveUp", err} : waits' = [waits EXCEPT ![w] = v]
  BY DEF Wait, WaitReturns, WaitGivesUp
<1>2. waits' \in [Waiters -> {"idle", "waiting", "none", "error", "gaveUp"}]
  BY <1>1 DEF TypeOK
<1>3. UNCHANGED <<changes, link, ctx, routine, err, done, told, exits, pollVars>>
  BY DEF Wait, WaitReturns, WaitGivesUp
<1> QED BY <1>2, <1>3 DEF TypeOK, link, routine, pollVars

LEMMA ConsumeTypes ==
  ASSUME TypeOK, Consume \/ EventReturns
  PROVE  TypeOK'
<1> USE MaxChangesAssumption DEF MaxChangesAssumption, TypeOK
<1>1. CASE RecvNothing
  BY <1>1 DEF RecvNothing, routine, seen, pollVars
<1>2. CASE RecvEvent
  <2>1. Head(wire) \in 0 .. MaxChanges /\ Head(wire) # 0
    BY <1>2 DEF RecvEvent
  <2> QED BY <1>2, <2>1 DEF RecvEvent, pollVars
<1>3. CASE StreamOver
  BY <1>3 DEF StreamOver, link, seen, pollVars
<1>4. CASE Judge
  BY <1>4 DEF Judge, link, pollVars
<1>5. CASE TellExit
  BY <1>5 DEF TellExit, link, pollVars
<1>6. CASE CancelContext
  BY <1>6 DEF CancelContext, link, seen, pollVars
<1>7. CASE CloseDone
  BY <1>7 DEF CloseDone, link, pollVars
<1>8. CASE EventReturns
  BY <1>8 DEF EventReturns, link, seen, pollVars
<1> QED BY <1>1, <1>2, <1>3, <1>4, <1>5, <1>6, <1>7, <1>8 DEF Consume

LEMMA PollTypes ==
  ASSUME TypeOK,
         \/ CreateWatcher \/ RemoveWatcher
         \/ \E p \in Pollers : Poll(p) \/ PollReturns(p) \/ PollFails(p) \/ PollRefused(p)
  PROVE  TypeOK'
<1> DEFINE B == Seq(1 .. MaxChanges)
           A == {"idle", "answered", "returned", "failed"}
<1>0. /\ polls \in [Pollers -> [at : A, batch : B]]
      /\ pending \in B /\ handed \in B /\ <<>> \in B
      /\ \A s, t \in B : s \o t \in B
  BY DEF TypeOK
<1>b. UNCHANGED <<changes, watchVars>>
  BY DEF CreateWatcher, RemoveWatcher, Poll, PollReturns, PollFails, PollRefused
<1>1. SUFFICES /\ polls' \in [Pollers -> [at : A, batch : B]]
               /\ pending' \in B /\ handed' \in B
               /\ watcher' \in {"none", "live", "removed"}
               /\ held' \in BOOLEAN /\ lost' \in BOOLEAN
  BY <1>b DEF TypeOK, watchVars, link, routine, seen
<1>2. watcher \in {"none", "live", "removed"} /\ held \in BOOLEAN /\ lost \in BOOLEAN
  BY DEF TypeOK
<1> HIDE DEF B, A
<1>a. {"idle", "answered", "returned", "failed"} \subseteq A
  BY DEF A
<1> USE <1>0, <1>2, <1>a
<1>3. CASE CreateWatcher
  BY <1>3 DEF CreateWatcher
<1>4. CASE RemoveWatcher
  BY <1>4 DEF RemoveWatcher
<1>5. ASSUME NEW p \in Pollers, Poll(p) \/ PollReturns(p) \/ PollFails(p) \/ PollRefused(p)
      PROVE  /\ polls' \in [Pollers -> [at : A, batch : B]]
             /\ pending' \in B /\ handed' \in B
             /\ watcher' \in {"none", "live", "removed"}
             /\ held' \in BOOLEAN /\ lost' \in BOOLEAN
  <2>1. polls[p] \in [at : A, batch : B]
    OBVIOUS
  <2>2. CASE Poll(p)
    BY <2>2 DEF Poll
  <2>3. CASE PollReturns(p)
    BY <2>1, <2>3 DEF PollReturns
  <2>4. CASE PollFails(p)
    BY <2>1, <2>4 DEF PollFails
  <2>5. CASE PollRefused(p)
    BY <2>1, <2>5 DEF PollRefused
  <2> QED BY <1>5, <2>2, <2>3, <2>4, <2>5
<1> QED BY <1>3, <1>4, <1>5

LEMMA StepTypes == TypeOK /\ [Next]_vars => TypeOK'
<1> SUFFICES ASSUME TypeOK, [Next]_vars PROVE TypeOK'
  OBVIOUS
<1>1. CASE UNCHANGED vars
  BY <1>1 DEF TypeOK, vars, watchVars, link, routine, seen, pollVars
<1> QED BY <1>1, StreamTypes, WaitTypes, ConsumeTypes, PollTypes DEF Next

\* Every variable keeps its type, for any constants.
THEOREM TypeCorrect == Spec => []TypeOK
<1> QED BY InitTypes, StepTypes, PTL DEF Spec

-----------------------------------------------------------------------------
(* The course of consume.                                                   *)

Ended == {"judge", "tell", "cancel", "close", "gone"}
Judged == {"tell", "cancel", "close", "gone"}
Told == {"cancel", "close", "gone"}

\* What consume has decided at each line, and what its caller may see of it.
OrderInv ==
  /\ pc = "idle" =>
       ctx = "live" /\ stream = "open" /\ wire = <<>> /\ told = <<>> /\ hooks = {}
  /\ done <=> pc = "gone"
  /\ pc \notin Told => exits = <<>>
  /\ pc \in Told => exits = IF "onExit" \in hooks THEN <<err>> ELSE <<>>
  /\ pc \notin Judged => err = "none"
  /\ ctx = "consume" => pc \in {"close", "gone"}
  /\ pc \in Ended =>
       stream # "open" /\ wire = <<>> /\ (failed <=> stream # "finished")
  /\ stream = "cut" => ctx # "live"
  /\ pc \in Judged =>
       /\ err = "error" => failed /\ stream # "cut"
       /\ err = "none" => ~failed \/ ctx = "asked"
  /\ \A w \in Waiters : waits[w] \in {"none", "error"} => done /\ waits[w] = err

LEMMA InitOrder == Init => OrderInv
BY DEF Init, OrderInv, Ended, Judged, Told

LEMMA StepOrder == TypeOK /\ OrderInv /\ [Next]_vars => OrderInv'
<1> SUFFICES ASSUME TypeOK, OrderInv, [Next]_vars PROVE OrderInv'
  OBVIOUS
<1> USE DEF OrderInv, Ended, Judged, Told
<1>1. CASE Change \/ UNCHANGED vars
  BY <1>1 DEF Change, vars, watchVars, link, routine, seen
<1>2. CASE Send
  BY <1>2 DEF Send, Sending, Receiving, routine, seen
<1>3. CASE SendMarker
  BY <1>3 DEF SendMarker, Sending, Receiving, routine, seen
<1>4. CASE Finish
  BY <1>4 DEF Finish, Receiving, routine, seen
<1>5. CASE Break \/ RequestTimeout \/ Cut
  BY <1>5 DEF Break, RequestTimeout, Cut, Receiving, routine, seen
<1>6. CASE Watch
  BY <1>6 DEF Watch, seen
<1>7. CASE Stop
  BY <1>7 DEF Stop, link, routine, seen
<1>8. ASSUME NEW w \in Waiters, Wait(w) \/ WaitReturns(w) \/ WaitGivesUp(w)
      PROVE  OrderInv'
  <2>1. UNCHANGED <<link, ctx, routine, err, done, told, exits>>
    BY <1>8 DEF Wait, WaitReturns, WaitGivesUp
  <2>2. /\ waits \in [Waiters -> {"idle", "waiting", "none", "error", "gaveUp"}]
        /\ err \in {"none", "error"}
    BY DEF TypeOK
  <2>3. \/ waits' = [waits EXCEPT ![w] = "waiting"]
        \/ waits' = [waits EXCEPT ![w] = "gaveUp"]
        \/ waits' = [waits EXCEPT ![w] = err] /\ done
    BY <1>8 DEF Wait, WaitReturns, WaitGivesUp
  <2>4. \A v \in Waiters : waits'[v] \in {"none", "error"} => done /\ waits'[v] = err
    BY <2>2, <2>3
  <2> QED BY <2>1, <2>4 DEF link, routine
<1>9. CASE RecvNothing
  BY <1>9 DEF RecvNothing, routine, seen
<1>10. CASE RecvEvent
  BY <1>10 DEF RecvEvent
<1>11. CASE EventReturns
  BY <1>11 DEF EventReturns, link, seen
<1>12. CASE StreamOver
  BY <1>12 DEF StreamOver, link, seen
<1>13. CASE Judge
  <2>1. ctx # "consume" /\ ~done /\ ctx \in {"live", "asked", "consume"}
    BY <1>13 DEF Judge, TypeOK
  <2> QED BY <1>13, <2>1 DEF Judge, link
<1>14. CASE TellExit
  BY <1>14 DEF TellExit, link
<1>15. CASE CancelContext
  BY <1>15 DEF CancelContext, link, seen
<1>16. CASE CloseDone
  BY <1>16 DEF CloseDone, link
<1>17. CASE CreateWatcher \/ RemoveWatcher
  BY <1>17 DEF CreateWatcher, RemoveWatcher, watchVars, link, routine, seen
<1>18. ASSUME NEW p \in Pollers, Poll(p) \/ PollReturns(p) \/ PollFails(p) \/ PollRefused(p)
       PROVE  OrderInv'
  BY <1>18 DEF Poll, PollReturns, PollFails, PollRefused, watchVars, link, routine, seen
<1> QED
  BY <1>1, <1>2, <1>3, <1>4, <1>5, <1>6, <1>7, <1>8, <1>9, <1>10, <1>11, <1>12, <1>13,
     <1>14, <1>15, <1>16, <1>17, <1>18
  DEF Next, Consume

\* onExit is called at most once, before Wait returns and with what Wait
\* returns, for any callers and any callbacks.
THEOREM ExitComesFirst == Spec => []ExitBeforeWait
<1>1. TypeOK /\ OrderInv => ExitBeforeWait
  <2> SUFFICES ASSUME OrderInv PROVE ExitBeforeWait
    OBVIOUS
  <2>1. exits = <<>> \/ exits = <<err>>
    BY DEF OrderInv
  <2>2. Len(exits) <= 1
    <3>1. Len(<<>>) = 0 /\ Len(<<err>>) = 1
      OBVIOUS
    <3>2. CASE exits = <<>>
      BY <3>1, <3>2
    <3>3. CASE exits = <<err>>
      BY <3>1, <3>3
    <3> QED BY <2>1, <3>2, <3>3
  <2>3. exits # <<>> => pc \in {"cancel", "close", "gone"}
    BY DEF OrderInv, Told
  <2>4. "onExit" \in hooks /\ done => exits = <<err>>
    BY DEF OrderInv, Told
  <2> QED BY <2>2, <2>3, <2>4 DEF OrderInv, ExitBeforeWait
<1> QED BY <1>1, InitTypes, StepTypes, InitOrder, StepOrder, PTL DEF Spec

-----------------------------------------------------------------------------
(* What onEvent hears.                                                      *)

\* Nothing is told or under way that was not sent.
Bounds ==
  "onEvent" \in hooks =>
    /\ since + Len(told) <= sent
    /\ \A j \in 1 .. Len(wire) : wire[j] <= sent

StreamInv == Bounds /\ EventsFaithful

LEMMA InitStream == Init => StreamInv
BY DEF Init, StreamInv, Bounds, EventsFaithful

\* An event is put at the end of the stream.
LEMMA SendStream ==
  ASSUME TypeOK, StreamInv, Send
  PROVE  StreamInv'
<1>1. /\ wire \in Seq(0 .. MaxChanges) /\ told \in Seq(1 .. MaxChanges)
      /\ since \in Nat /\ sent \in Nat /\ stream = "open"
      /\ sent' = sent + 1 /\ wire' = Append(wire, sent + 1)
      /\ UNCHANGED <<since, told, hooks, stream>>
  BY MaxChangesAssumption DEF MaxChangesAssumption, TypeOK, Send, Sending, routine, seen
<1>2. /\ Len(wire') = Len(wire) + 1 /\ Len(wire) \in Nat /\ Len(told) \in Nat
      /\ wire'[Len(wire) + 1] = sent + 1
      /\ \A i \in 1 .. Len(wire) : wire'[i] = wire[i] /\ wire[i] \in Nat
  <2>1. sent + 1 \in 0 .. MaxChanges
    BY MaxChangesAssumption DEF MaxChangesAssumption, TypeOK, Send
  <2>2. Len(wire) \in Nat /\ Len(told) \in Nat
    BY <1>1
  <2> DEFINE e == sent + 1
             N == 0 .. MaxChanges
  <2>3. e \in N /\ wire \in Seq(N) /\ wire' = Append(wire, e)
    BY <1>1, <2>1
  <2>4. \A n \in N : n \in Nat
    OBVIOUS
  <2> HIDE DEF e, N
  <2>5. /\ Len(wire') = Len(wire) + 1 /\ wire'[Len(wire) + 1] = e
        /\ \A i \in 1 .. Len(wire) : wire'[i] = wire[i] /\ wire[i] \in N
    BY <2>3, AppendProperties, ElementOfSeq
  <2> QED BY <2>2, <2>4, <2>5 DEF e
<1> SUFFICES ASSUME "onEvent" \in hooks PROVE StreamInv'
  BY <1>1 DEF StreamInv, Bounds, EventsFaithful
<1> DEFINE next == since + Len(told) + 1
<1>3. /\ next <= sent + 1
      /\ \A i \in 1 .. Len(told) : told[i] = since + i
      /\ \A j \in 1 .. Len(wire) : wire[j] <= sent
      /\ \A i, j \in 1 .. Len(wire) :
           i < j /\ wire[i] # 0 /\ wire[j] # 0 => wire[i] < wire[j]
      /\ \A j \in 1 .. Len(wire) : wire[j] # 0 =>
           /\ next <= wire[j]
           /\ \A n \in next .. wire[j] - 1 : \E i \in 1 .. j : wire[i] = n
  BY <1>1, <1>2 DEF StreamInv, Bounds, EventsFaithful
<1>4. \A n \in next .. sent : \E i \in 1 .. Len(wire) : wire[i] = n
  BY <1>1 DEF StreamInv, EventsFaithful, ToSet
<1> HIDE DEF next
<1>5. next \in Nat /\ next \in Int
  BY <1>1, <1>2 DEF next
<1>6. \A i, j \in 1 .. Len(wire') :
        i < j /\ wire'[i] # 0 /\ wire'[j] # 0 => wire'[i] < wire'[j]
  <2> SUFFICES ASSUME NEW i \in 1 .. Len(wire'), NEW j \in 1 .. Len(wire'),
                      i < j, wire'[i] # 0, wire'[j] # 0
               PROVE  wire'[i] < wire'[j]
    OBVIOUS
  <2>1. i \in 1 .. Len(wire) /\ (j \in 1 .. Len(wire) \/ j = Len(wire) + 1)
    BY <1>2
  <2>2. wire'[i] = wire[i] /\ wire[i] \in Nat /\ wire[i] <= sent
    BY <1>2, <1>3, <2>1
  <2>3. CASE j \in 1 .. Len(wire)
    <3>1. wire'[j] = wire[j]
      BY <1>2, <2>3
    <3> QED BY <1>3, <2>1, <2>2, <2>3, <3>1
  <2>4. CASE j = Len(wire) + 1
    <3>1. wire'[j] = sent + 1 /\ sent \in Nat
      BY <1>1, <1>2, <2>4
    <3> QED BY <2>2, <3>1
  <2> QED BY <2>1, <2>3, <2>4
<1>7. \A j \in 1 .. Len(wire') : wire'[j] # 0 =>
        /\ next <= wire'[j]
        /\ \A n \in next .. wire'[j] - 1 : \E i \in 1 .. j : wire'[i] = n
  <2> SUFFICES ASSUME NEW j \in 1 .. Len(wire'), wire'[j] # 0
               PROVE  /\ next <= wire'[j]
                      /\ \A n \in next .. wire'[j] - 1 : \E i \in 1 .. j : wire'[i] = n
    OBVIOUS
  <2>1. CASE j \in 1 .. Len(wire)
    <3>1. wire'[j] = wire[j] /\ \A i \in 1 .. j : i \in 1 .. Len(wire) /\ wire'[i] = wire[i]
      BY <1>2, <2>1
    <3> QED BY <1>3, <2>1, <3>1
  <2>2. CASE j = Len(wire) + 1
    <3>1. wire'[j] = sent + 1 /\ wire'[j] - 1 = sent
      BY <1>1, <1>2, <2>2
    <3>2. \A n \in next .. sent : \E i \in 1 .. j : wire'[i] = n
      BY <1>2, <1>4, <2>2
    <3> QED BY <1>3, <3>1, <3>2
  <2> QED BY <1>2, <2>1, <2>2
<1>8. \A n \in next .. sent' : \E i \in 1 .. Len(wire') : wire'[i] = n
  BY <1>1, <1>2, <1>4, <1>5
<1>9. next .. sent' \subseteq ToSet(wire')
  <2>1. DOMAIN wire' = 1 .. Len(wire')
    BY <1>1
  <2> QED BY <1>8, <2>1 DEF ToSet
<1>10. EventsFaithful'
  BY <1>1, <1>3, <1>6, <1>7, <1>9 DEF EventsFaithful, next
<1>11. Bounds'
  BY <1>1, <1>2, <1>3 DEF Bounds, next
<1> QED BY <1>10, <1>11 DEF StreamInv

\* A marker is put at the end of the stream: nothing anyone hears.
LEMMA MarkerStream ==
  ASSUME TypeOK, StreamInv, SendMarker
  PROVE  StreamInv'
<1>1. /\ wire \in Seq(0 .. MaxChanges) /\ since \in Nat /\ sent \in Nat
      /\ told \in Seq(1 .. MaxChanges)
      /\ wire' = Append(wire, 0)
      /\ UNCHANGED <<since, sent, told, hooks, stream>>
  BY DEF TypeOK, SendMarker, routine, seen
<1>2. /\ Len(wire') = Len(wire) + 1 /\ Len(wire) \in Nat /\ Len(told) \in Nat
      /\ wire'[Len(wire) + 1] = 0
      /\ \A i \in 1 .. Len(wire) : wire'[i] = wire[i]
      /\ DOMAIN wire = 1 .. Len(wire) /\ DOMAIN wire' = 1 .. Len(wire')
  <2>1. 0 \in 0 .. MaxChanges
    BY MaxChangesAssumption DEF MaxChangesAssumption
  <2> QED BY <1>1, <2>1, AppendProperties, LenProperties
<1> SUFFICES ASSUME "onEvent" \in hooks PROVE StreamInv'
  BY <1>1 DEF StreamInv, Bounds, EventsFaithful
<1> DEFINE next == since + Len(told) + 1
<1>3. /\ since + Len(told) <= sent
      /\ \A i \in 1 .. Len(told) : told[i] = since + i
      /\ \A j \in 1 .. Len(wire) : wire[j] <= sent
      /\ \A i, j \in 1 .. Len(wire) :
           i < j /\ wire[i] # 0 /\ wire[j] # 0 => wire[i] < wire[j]
      /\ \A j \in 1 .. Len(wire) : wire[j] # 0 =>
           /\ next <= wire[j]
           /\ \A n \in next .. wire[j] - 1 : \E i \in 1 .. j : wire[i] = n
      /\ stream \in {"open", "finished"} => next .. sent \subseteq ToSet(wire)
  BY DEF StreamInv, Bounds, EventsFaithful
<1>4. Bounds'
  BY <1>1, <1>2, <1>3 DEF Bounds
<1> HIDE DEF next
<1>5. \A j \in 1 .. Len(wire') : wire'[j] # 0 => j \in 1 .. Len(wire)
  BY <1>2
<1>6. \A j \in 1 .. Len(wire') : wire'[j] # 0 =>
        /\ next <= wire'[j]
        /\ \A n \in next .. wire'[j] - 1 : \E i \in 1 .. j : wire'[i] = n
  <2> SUFFICES ASSUME NEW j \in 1 .. Len(wire), wire[j] # 0
               PROVE  /\ next <= wire'[j]
                      /\ \A n \in next .. wire'[j] - 1 : \E i \in 1 .. j : wire'[i] = n
    BY <1>2, <1>5
  <2>1. wire'[j] = wire[j] /\ \A i \in 1 .. j : i \in 1 .. Len(wire) /\ wire'[i] = wire[i]
    BY <1>2
  <2> QED BY <1>3, <2>1
<1>7. \A i, j \in 1 .. Len(wire') :
        i < j /\ wire'[i] # 0 /\ wire'[j] # 0 => wire'[i] < wire'[j]
  BY <1>2, <1>3, <1>5
<1>8. ToSet(wire) \subseteq ToSet(wire')
  BY <1>2 DEF ToSet
<1> QED BY <1>1, <1>3, <1>4, <1>6, <1>7, <1>8 DEF StreamInv, EventsFaithful, next

\* The stream ends, or is cut short: what is left of it is its beginning.
LEMMA CutStream ==
  ASSUME TypeOK, StreamInv, Finish \/ Break \/ RequestTimeout \/ Cut
  PROVE  StreamInv'
<1>1. CASE Finish
  BY <1>1 DEF Finish, StreamInv, Bounds, EventsFaithful, routine, seen
<1>2. CASE Break \/ RequestTimeout \/ Cut
  <2>1. PICK k \in 0 .. Len(wire) : wire' = SubSeq(wire, 1, k)
    BY <1>2 DEF Break, RequestTimeout, Cut
  <2>2. /\ stream' \notin {"open", "finished"}
        /\ UNCHANGED <<since, sent, told, hooks>>
    BY <1>2 DEF Break, RequestTimeout, Cut, routine, seen
  <2>3. wire \in Seq(0 .. MaxChanges) /\ Len(wire) \in Nat
    BY DEF TypeOK
  <2>4. Len(wire') = k /\ \A i \in 1 .. k : wire'[i] = wire[i]
    BY <2>1, <2>3, Cuts
  <2>5. /\ \A j \in 1 .. k : j \in 1 .. Len(wire)
        /\ \A j \in 1 .. k : \A i \in 1 .. j : i \in 1 .. k
    BY <2>3
  <2> SUFFICES ASSUME "onEvent" \in hooks PROVE StreamInv'
    BY <2>2 DEF StreamInv, Bounds, EventsFaithful
  <2>6. Bounds'
    BY <2>2, <2>4, <2>5 DEF StreamInv, Bounds
  <2> DEFINE next == since + Len(told) + 1
  <2>7. /\ \A i \in 1 .. Len(told) : told[i] = since + i
        /\ \A i, j \in 1 .. Len(wire) :
             i < j /\ wire[i] # 0 /\ wire[j] # 0 => wire[i] < wire[j]
        /\ \A j \in 1 .. Len(wire) : wire[j] # 0 =>
             /\ next <= wire[j]
             /\ \A n \in next .. wire[j] - 1 : \E i \in 1 .. j : wire[i] = n
    BY DEF StreamInv, EventsFaithful
  <2>8. next' = next
    BY <2>2
  <2> HIDE DEF next
  <2>9. \A i, j \in 1 .. Len(wire') :
          i < j /\ wire'[i] # 0 /\ wire'[j] # 0 => wire'[i] < wire'[j]
    BY <2>4, <2>5, <2>7
  <2>10. \A j \in 1 .. Len(wire') : wire'[j] # 0 =>
           /\ next <= wire'[j]
           /\ \A n \in next .. wire'[j] - 1 : \E i \in 1 .. j : wire'[i] = n
    BY <2>4, <2>5, <2>7
  <2> QED BY <2>2, <2>6, <2>7, <2>8, <2>9, <2>10 DEF StreamInv, EventsFaithful, next
<1> QED BY <1>1, <1>2

\* The first of what is under way leaves the stream: a marker, or the very
\* change onEvent is to hear next.
LEMMA ReceiveStream ==
  ASSUME TypeOK, StreamInv, RecvNothing \/ RecvEvent
  PROVE  StreamInv'
<1>1. /\ wire \in Seq(0 .. MaxChanges) /\ told \in Seq(1 .. MaxChanges) /\ wire # <<>>
      /\ since \in Nat /\ sent \in Nat
      /\ wire' = Tail(wire)
      /\ UNCHANGED <<since, sent, stream, hooks>>
  BY DEF TypeOK, RecvNothing, RecvEvent, routine
<1>2. /\ Len(wire) \in Nat /\ Len(told) \in Nat /\ Len(wire) >= 1
      /\ Len(wire') = Len(wire) - 1 /\ Head(wire) = wire[1]
      /\ \A i \in 1 .. Len(wire) : wire[i] \in Nat /\ wire[i] <= MaxChanges
      /\ \A i \in 1 .. Len(wire') : wire'[i] = wire[i + 1]
      /\ DOMAIN wire = 1 .. Len(wire) /\ DOMAIN wire' = 1 .. Len(wire')
  <2> DEFINE N == 0 .. MaxChanges
  <2>1. wire \in Seq(N) /\ \A n \in N : n \in Nat /\ n <= MaxChanges
    BY <1>1, MaxChangesAssumption DEF MaxChangesAssumption
  <2>2. Len(wire) \in Nat /\ Len(told) \in Nat /\ Len(wire) >= 1
    BY <1>1
  <2> HIDE DEF N
  <2>3. \A i \in 1 .. Len(wire) : wire[i] \in N
    BY <2>1, ElementOfSeq
  <2> QED BY <1>1, <2>1, <2>2, <2>3, HeadTailProperties, LenProperties
<1> SUFFICES ASSUME "onEvent" \in hooks PROVE StreamInv'
  BY <1>1 DEF StreamInv, Bounds, EventsFaithful
<1> DEFINE next == since + Len(told) + 1
<1>3. /\ since + Len(told) <= sent
      /\ \A i \in 1 .. Len(told) : told[i] = since + i
      /\ \A j \in 1 .. Len(wire) : wire[j] <= sent
      /\ \A i, j \in 1 .. Len(wire) :
           i < j /\ wire[i] # 0 /\ wire[j] # 0 => wire[i] < wire[j]
      /\ \A j \in 1 .. Len(wire) : wire[j] # 0 =>
           /\ next <= wire[j]
           /\ \A n \in next .. wire[j] - 1 : \E i \in 1 .. j : wire[i] = n
      /\ stream \in {"open", "finished"} =>
           \A n \in next .. sent : \E i \in 1 .. Len(wire) : wire[i] = n
  BY <1>2 DEF StreamInv, Bounds, EventsFaithful, ToSet
<1>4. /\ \A j \in 1 .. Len(wire') : j + 1 \in 1 .. Len(wire)
      /\ \A i \in 1 .. Len(wire) : i # 1 => i - 1 \in 1 .. Len(wire')
  BY <1>2
<1>5. next \in Nat /\ next >= 1
  BY <1>1, <1>2
<1>6. \A i, j \in 1 .. Len(wire') :
        i < j /\ wire'[i] # 0 /\ wire'[j] # 0 => wire'[i] < wire'[j]
  <2> SUFFICES ASSUME NEW i \in 1 .. Len(wire'), NEW j \in 1 .. Len(wire'),
                      i < j, wire'[i] # 0, wire'[j] # 0
               PROVE  wire'[i] < wire'[j]
    OBVIOUS
  <2>1. i + 1 < j + 1 /\ i + 1 \in 1 .. Len(wire) /\ j + 1 \in 1 .. Len(wire)
    BY <1>2, <1>4
  <2> HIDE DEF next
  <2> QED BY <1>2, <1>3, <2>1
<1>7. CASE RecvNothing
  <2>1. wire[1] = 0 /\ told' = told
    BY <1>2, <1>7 DEF RecvNothing, seen
  <2>2. Bounds'
    BY <1>1, <1>2, <1>3, <1>4, <2>1 DEF Bounds
  <2> HIDE DEF next
  <2>3. ASSUME NEW m \in 1 .. Len(wire), NEW n \in Nat, n >= next, wire[m] = n
        PROVE  m - 1 \in 1 .. Len(wire') /\ wire'[m - 1] = n
    <3>1. m # 1
      BY <1>5, <2>1, <2>3
    <3>2. m - 1 \in 1 .. Len(wire') /\ (m - 1) + 1 = m
      BY <1>2, <1>4, <3>1
    <3> QED BY <1>2, <2>3, <3>2
  <2>4. ASSUME NEW j \in 1 .. Len(wire'), wire'[j] # 0
        PROVE  /\ next <= wire'[j]
               /\ \A n \in next .. wire'[j] - 1 : \E i \in 1 .. j : wire'[i] = n
    <3>1. wire'[j] = wire[j + 1] /\ j + 1 \in 1 .. Len(wire)
      BY <1>2, <1>4
    <3>2. next <= wire'[j]
      BY <1>3, <2>4, <3>1
    <3>3. ASSUME NEW n \in next .. wire'[j] - 1
          PROVE  \E i \in 1 .. j : wire'[i] = n
      <4>1. PICK m \in 1 .. j + 1 : wire[m] = n
        BY <1>3, <2>4, <3>1
      <4>2. m \in 1 .. Len(wire) /\ n \in Nat /\ n >= next
        BY <1>2, <1>5, <3>1
      <4>3. m - 1 \in 1 .. Len(wire') /\ wire'[m - 1] = n
        BY <2>3, <4>1, <4>2
      <4> QED BY <4>1, <4>3
    <3> QED BY <3>2, <3>3
  <2>5. ASSUME stream \in {"open", "finished"}, NEW n \in next .. sent
        PROVE  n \in ToSet(wire')
    <3>1. PICK m \in 1 .. Len(wire) : wire[m] = n
      BY <1>3, <2>5
    <3>2. n \in Nat /\ n >= next
      BY <1>1, <1>5
    <3> QED BY <1>2, <2>3, <3>1, <3>2 DEF ToSet
  <2> QED BY <1>1, <1>3, <1>6, <2>1, <2>2, <2>4, <2>5 DEF StreamInv, EventsFaithful, next
<1>8. CASE RecvEvent
  <2>1. wire[1] # 0 /\ told' = Append(told, wire[1])
    BY <1>2, <1>8 DEF RecvEvent
  <2>2. wire[1] = next
    <3>1. 1 \in 1 .. Len(wire) /\ wire[1] \in Nat /\ next <= wire[1]
      BY <1>2, <1>3, <2>1
    <3>2. next # wire[1] => \E i \in 1 .. 1 : wire[i] = next
      BY <1>3, <1>5, <2>1, <3>1
    <3> QED BY <3>1, <3>2
  <2>3. /\ Len(told') = Len(told) + 1 /\ told'[Len(told) + 1] = next
        /\ \A i \in 1 .. Len(told) : told'[i] = told[i]
    <3>1. next \in 1 .. MaxChanges
      <4>1. wire[1] \in Nat /\ wire[1] <= MaxChanges
        BY <1>2
      <4> QED BY <1>5, <2>2, <4>1, MaxChangesAssumption DEF MaxChangesAssumption
    <3> QED BY <1>1, <2>1, <2>2, <3>1, AppendProperties
  <2>4. \A i \in 1 .. Len(told') : told'[i] = since + i
    <3>1. \A i \in 1 .. Len(told') : i \in 1 .. Len(told) \/ i = Len(told) + 1
      BY <1>2, <2>3
    <3>2. told'[Len(told) + 1] = since + (Len(told) + 1)
      BY <1>1, <1>2, <2>3
    <3>3. \A i \in 1 .. Len(told) : told'[i] = since + i
      BY <1>3, <2>3
    <3> QED BY <3>1, <3>2, <3>3
  <2>5. next' = next + 1
    BY <1>1, <1>2, <2>3
  <2>6. Bounds'
    <3>1. since + Len(told) + 1 <= sent
      BY <1>2, <1>3, <2>2
    <3> QED BY <1>1, <1>2, <1>3, <1>4, <2>3, <3>1 DEF Bounds
  <2> HIDE DEF next
  <2>7. ASSUME NEW m \in 1 .. Len(wire), NEW n \in Nat, n >= next + 1, wire[m] = n
        PROVE  m - 1 \in 1 .. Len(wire') /\ wire'[m - 1] = n
    <3>1. m # 1
      BY <1>5, <2>2, <2>7
    <3>2. m - 1 \in 1 .. Len(wire') /\ (m - 1) + 1 = m
      BY <1>2, <1>4, <3>1
    <3> QED BY <1>2, <2>7, <3>2
  <2>8. ASSUME NEW j \in 1 .. Len(wire'), wire'[j] # 0
        PROVE  /\ next + 1 <= wire'[j]
               /\ \A n \in next + 1 .. wire'[j] - 1 : \E i \in 1 .. j : wire'[i] = n
    <3>1. wire'[j] = wire[j + 1] /\ j + 1 \in 1 .. Len(wire) /\ 1 < j + 1
      BY <1>2, <1>4
    <3>2. next + 1 <= wire'[j]
      <4>1. wire[1] < wire[j + 1] /\ wire[j + 1] \in Nat
        BY <1>2, <1>3, <2>1, <2>8, <3>1
      <4> QED BY <1>5, <2>2, <3>1, <4>1
    <3>3. ASSUME NEW n \in next + 1 .. wire'[j] - 1
          PROVE  \E i \in 1 .. j : wire'[i] = n
      <4>1. n \in next .. wire[j + 1] - 1
        BY <1>2, <1>5, <3>1
      <4>2. PICK m \in 1 .. j + 1 : wire[m] = n
        BY <1>3, <2>8, <3>1, <4>1
      <4>3. m \in 1 .. Len(wire) /\ n \in Nat /\ n >= next + 1
        BY <1>2, <1>5, <3>1
      <4>4. m - 1 \in 1 .. Len(wire') /\ wire'[m - 1] = n
        BY <2>7, <4>2, <4>3
      <4> QED BY <4>2, <4>4
    <3> QED BY <3>2, <3>3
  <2>9. ASSUME stream \in {"open", "finished"}, NEW n \in next + 1 .. sent
        PROVE  n \in ToSet(wire')
    <3>1. n \in next .. sent /\ n \in Nat /\ n >= next + 1
      BY <1>1, <1>5
    <3>2. PICK m \in 1 .. Len(wire) : wire[m] = n
      BY <1>3, <2>9, <3>1
    <3> QED BY <1>2, <2>7, <3>1, <3>2 DEF ToSet
  <2>10. EventsFaithful'
    BY <1>1, <1>6, <2>4, <2>5, <2>8, <2>9 DEF EventsFaithful, next
  <2> QED BY <2>6, <2>10 DEF StreamInv
<1> QED BY <1>7, <1>8

LEMMA StepStream == TypeOK /\ OrderInv /\ StreamInv /\ [Next]_vars => StreamInv'
<1> SUFFICES ASSUME TypeOK, OrderInv, StreamInv, [Next]_vars PROVE StreamInv'
  OBVIOUS
<1>1. CASE UNCHANGED <<since, sent, wire, stream, told, hooks>>
  BY <1>1 DEF StreamInv, Bounds, EventsFaithful
<1>2. CASE Watch
  <2>1. /\ wire = <<>> /\ told = <<>> /\ UNCHANGED <<wire, told, stream>>
        /\ since' = changes /\ sent' = changes /\ changes \in Nat
    BY <1>2, MaxChangesAssumption DEF MaxChangesAssumption, Watch, OrderInv, TypeOK, seen
  <2>2. Len(told') = 0 /\ Len(wire') = 0
    BY <2>1
  <2> QED BY <2>1, <2>2 DEF StreamInv, Bounds, EventsFaithful
<1>3. CASE \/ Change \/ Stop \/ CreateWatcher \/ RemoveWatcher \/ EventReturns
           \/ StreamOver \/ Judge \/ TellExit \/ CancelContext \/ CloseDone
           \/ UNCHANGED vars
  <2>1. UNCHANGED <<since, sent, wire, stream, told, hooks>>
    BY <1>3 DEF Change, Stop, CreateWatcher, RemoveWatcher, EventReturns, StreamOver, Judge,
                TellExit, CancelContext, CloseDone, vars, watchVars, link, routine, seen
  <2> QED BY <1>1, <2>1
<1>4. ASSUME NEW w \in Waiters, Wait(w) \/ WaitReturns(w) \/ WaitGivesUp(w)
      PROVE  StreamInv'
  BY <1>1, <1>4 DEF Wait, WaitReturns, WaitGivesUp, link, routine
<1>5. ASSUME NEW p \in Pollers, Poll(p) \/ PollReturns(p) \/ PollFails(p) \/ PollRefused(p)
      PROVE  StreamInv'
  BY <1>1, <1>5 DEF Poll, PollReturns, PollFails, PollRefused, watchVars, link, routine, seen
<1> QED
  BY <1>2, <1>3, <1>4, <1>5, SendStream, MarkerStream, CutStream, ReceiveStream
  DEF Next, Consume

LEMMA Invariance == Spec => [](TypeOK /\ OrderInv /\ StreamInv)
<1> QED BY InitTypes, StepTypes, InitOrder, StepOrder, InitStream, StepStream, PTL DEF Spec

\* onEvent hears of every change since the watch began, each once and in
\* order, for any number of changes and however the watch ends.
THEOREM EventsAreFaithful == Spec => []EventsFaithful
<1> QED BY Invariance, PTL DEF StreamInv

\* What was sent has been told when a stream that finished is received.
LEMMA AllTold ==
  ASSUME TypeOK, StreamInv, stream = "finished", wire = <<>>, "onEvent" \in hooks
  PROVE  since + Len(told) = sent
<1>1. since + Len(told) + 1 .. sent \subseteq ToSet(wire)
  BY DEF StreamInv, EventsFaithful
<1>2. ToSet(wire) = {}
  BY DEF ToSet
<1>3. since + Len(told) <= sent
  BY DEF StreamInv, Bounds
<1>4. since \in Nat /\ sent \in Nat /\ Len(told) \in Nat
  BY MaxChangesAssumption DEF MaxChangesAssumption, TypeOK
<1>5. ~(since + Len(told) < sent)
  <2>1. since + Len(told) < sent => sent \in since + Len(told) + 1 .. sent
    BY <1>4
  <2> QED BY <1>1, <1>2, <2>1
<1> QED BY <1>3, <1>4, <1>5

\* A watch over without an error, that nobody asked to end, told the caller
\* of everything envd sent; one with an error really failed. An error is
\* dropped only when the watch was also asked to end.
VerdictTruthful ==
  /\ pc = "gone" /\ err = "none" /\ ctx = "consume" =>
       /\ stream = "finished"
       /\ "onEvent" \in hooks => Len(told) = sent - since
  /\ err = "error" => stream \in {"broken", "expired"}

\* What the contract says of a verdict when it is reached holds of it for good.
THEOREM VerdictIsTruthful == Spec => []VerdictTruthful
<1>1. TypeOK /\ OrderInv /\ StreamInv => VerdictTruthful
  <2> SUFFICES ASSUME TypeOK, OrderInv, StreamInv PROVE VerdictTruthful
    OBVIOUS
  <2>1. err = "error" => stream \in {"broken", "expired"}
    BY DEF TypeOK, OrderInv, Ended, Judged
  <2>2. ASSUME pc = "gone", err = "none", ctx = "consume"
        PROVE  stream = "finished" /\ wire = <<>>
    BY <2>2 DEF OrderInv, Ended, Judged
  <2>3. ASSUME stream = "finished", wire = <<>>, "onEvent" \in hooks
        PROVE  Len(told) = sent - since
    <3>1. since \in Nat /\ sent \in Nat /\ Len(told) \in Nat
      BY MaxChangesAssumption DEF MaxChangesAssumption, TypeOK
    <3> QED BY <2>3, <3>1, AllTold
  <2> QED BY <2>1, <2>2, <2>3 DEF VerdictTruthful
<1> QED BY <1>1, Invariance, PTL

-----------------------------------------------------------------------------
(* The handle implements StreamContract.                                    *)

LEMMA InitPromise == Init => Promise!Init
<1> SUFFICES ASSUME Init PROVE Promise!Init
  OBVIOUS
<1>1. Verdict = "pending"
  BY DEF Init, Verdict, Concluded
<1>2. Answers = [w \in Waiters |-> "idle"]
  BY DEF Init, Answers, Named
<1> QED BY <1>1, <1>2 DEF Init, Promise!Init

\* What the contract does not see of a step.
LEMMA Unseen ==
  ASSUME UNCHANGED <<since, sent, stream, hooks, told, waits>>,
         pc' = "idle" <=> pc = "idle",
         ctx' = "asked" <=> ctx = "asked",
         Verdict' = Verdict
  PROVE  UNCHANGED Promise!vars
<1>1. Answers' = Answers
  BY DEF Answers
<1>2. /\ (pc' # "idle") = (pc # "idle")
      /\ ("onEvent" \in hooks') = ("onEvent" \in hooks)
      /\ (stream' # "open") = (stream # "open")
      /\ (stream' \in {"broken", "expired"}) = (stream \in {"broken", "expired"})
      /\ (ctx' = "asked") = (ctx = "asked")
  OBVIOUS
<1> QED BY <1>1, <1>2 DEF Promise!vars

\* envd and the network; what ends the context.
LEMMA LinkPromise ==
  ASSUME TypeOK, OrderInv,
         \/ Send \/ SendMarker \/ Finish \/ Break \/ RequestTimeout \/ Cut \/ Stop
  PROVE  [Promise!Next]_(Promise!vars)
<1>1. /\ UNCHANGED <<since, hooks, told, Verdict, Answers>>
      /\ pc' = pc /\ pc # "idle"
  <2>1. UNCHANGED <<since, pc, hooks, told, err, waits>> /\ pc # "idle"
    BY DEF Send, SendMarker, Finish, Break, RequestTimeout, Cut, Stop, Sending,
           Receiving, link, routine, seen
  <2> QED BY <2>1 DEF Verdict, Concluded, Answers
<1>2. /\ (pc' # "idle") = (pc # "idle")
      /\ ("onEvent" \in hooks') = ("onEvent" \in hooks)
  BY <1>1
<1>3. CASE Send
  <2>1. sent' = sent + 1 /\ stream = "open" /\ UNCHANGED <<stream, ctx>>
    BY <1>3 DEF Send, Sending
  <2>2. /\ (stream' # "open") = (stream # "open")
        /\ (stream' \in {"broken", "expired"}) = (stream \in {"broken", "expired"})
        /\ (ctx' = "asked") = (ctx = "asked")
    BY <2>1
  <2>3. Promise!Make
    BY <1>1, <1>2, <2>1, <2>2 DEF Promise!Make
  <2> QED BY <2>3 DEF Promise!Next
<1>4. CASE SendMarker
  <2>1. UNCHANGED <<sent, stream, ctx, waits>>
    BY <1>4 DEF SendMarker, seen
  <2>2. UNCHANGED Promise!vars
    BY <1>1, <2>1, Unseen
  <2> QED BY <2>2
<1>5. CASE Finish \/ Cut
  <2>1. /\ stream \in {"open", "finished"} /\ stream' \in {"finished", "cut"}
        /\ UNCHANGED <<sent, ctx>>
    BY <1>5 DEF Finish, Cut
  <2>2. /\ stream' # "open"
        /\ (stream' \in {"broken", "expired"}) = (stream \in {"broken", "expired"})
        /\ (ctx' = "asked") = (ctx = "asked")
    BY <2>1
  <2>3. Promise!End
    BY <1>1, <1>2, <2>1, <2>2 DEF Promise!End
  <2> QED BY <2>3 DEF Promise!Next
<1>6. CASE Break \/ RequestTimeout
  <2>1. stream' \in {"broken", "expired"} /\ UNCHANGED <<sent, ctx>>
    BY <1>6 DEF Break, RequestTimeout
  <2>2. stream' # "open" /\ (ctx' = "asked") = (ctx = "asked")
    BY <2>1
  <2>3. Promise!Fail
    BY <1>1, <1>2, <2>1, <2>2 DEF Promise!Fail
  <2> QED BY <2>3 DEF Promise!Next
<1>7. CASE Stop
  <2>1. ctx' = "asked" /\ UNCHANGED <<sent, stream>>
    BY <1>7 DEF Stop, link
  <2>2. /\ (stream' # "open") = (stream # "open")
        /\ (stream' \in {"broken", "expired"}) = (stream \in {"broken", "expired"})
    BY <2>1
  <2>3. Promise!Ask
    BY <1>1, <1>2, <2>1, <2>2 DEF Promise!Ask
  <2> QED BY <2>3 DEF Promise!Next
<1> QED BY <1>3, <1>4, <1>5, <1>6, <1>7

\* An event received is told, the next one there is; the end judged is a verdict.
LEMMA ConsumePromise ==
  ASSUME TypeOK, OrderInv, StreamInv, StreamInv', Consume \/ EventReturns
  PROVE  [Promise!Next]_(Promise!vars)
<1>1. /\ UNCHANGED <<since, sent, stream, hooks, waits>>
      /\ pc # "idle" /\ pc' # "idle"
  BY DEF Consume, RecvNothing, RecvEvent, EventReturns, StreamOver, Judge, TellExit,
         CancelContext, CloseDone, link, routine, seen
<1>2. /\ (pc' # "idle") = (pc # "idle")
      /\ ("onEvent" \in hooks') = ("onEvent" \in hooks)
      /\ (stream' # "open") = (stream # "open")
      /\ (stream' \in {"broken", "expired"}) = (stream \in {"broken", "expired"})
  BY <1>1
<1>3. Answers' = Answers
  BY <1>1 DEF Answers
<1>4. CASE RecvNothing \/ EventReturns \/ StreamOver \/ TellExit \/ CancelContext
           \/ CloseDone
  <2>1. told' = told /\ err' = err
    BY <1>4 DEF RecvNothing, EventReturns, StreamOver, TellExit, CancelContext,
                CloseDone, seen
  <2>2. ctx' = "asked" <=> ctx = "asked"
    BY <1>4 DEF RecvNothing, EventReturns, StreamOver, TellExit, CancelContext,
                CloseDone
  <2>3. Verdict' = Verdict
    BY <1>4, <2>1 DEF RecvNothing, EventReturns, StreamOver, TellExit, CancelContext,
                      CloseDone, routine, Verdict, Concluded
  <2>4. UNCHANGED Promise!vars
    BY <1>1, <2>1, <2>2, <2>3, Unseen
  <2> QED BY <2>4
<1>5. CASE RecvEvent
  <2> DEFINE e == Head(wire)
             n == Len(told)
  <2>1. /\ told' = Append(told, e) /\ "onEvent" \in hooks /\ "onEvent" \in hooks'
        /\ wire # <<>> /\ e # 0
        /\ pc = "receive" /\ pc' = "onEvent" /\ ctx' = ctx
    BY <1>1, <1>5 DEF RecvEvent
  <2>2. /\ told \in Seq(Nat) /\ e \in Nat /\ n \in Nat /\ since \in Nat /\ sent \in Nat
    BY <2>1, MaxChangesAssumption DEF MaxChangesAssumption, TypeOK
  <2> HIDE DEF e
  <2>3. Len(told') = n + 1 /\ told'[n + 1] = e
    BY <2>1, <2>2, AppendProperties
  <2>4. e = since + n + 1 /\ since + n < sent
    <3>1. n + 1 \in 1 .. Len(told')
      BY <2>2, <2>3
    <3>2. told'[n + 1] = since + (n + 1) /\ since + Len(told') <= sent
      BY <1>1, <2>1, <3>1 DEF StreamInv, Bounds, EventsFaithful
    <3> QED BY <2>2, <2>3, <3>2
  <2>5. Verdict = "pending" /\ Verdict' = "pending" /\ (ctx' = "asked") = (ctx = "asked")
    BY <2>1 DEF Verdict, Concluded
  <2>6. told' = Append(told, since + Len(told) + 1) /\ since + Len(told) < sent
    BY <2>1, <2>4
  <2>7. Promise!Deliver
    BY <1>1, <1>2, <1>3, <2>1, <2>5, <2>6 DEF Promise!Deliver
  <2> QED BY <2>7 DEF Promise!Next
<1>6. CASE Judge
  <2>1. /\ pc = "judge" /\ pc' = "tell" /\ ctx' = ctx /\ told' = told
        /\ err' = IF failed /\ ctx = "live" THEN "error" ELSE "none"
    BY <1>6 DEF Judge
  <2>2. /\ stream # "open" /\ wire = <<>> /\ (failed <=> stream # "finished")
        /\ (stream = "cut" => ctx # "live") /\ ctx \in {"live", "asked"}
    BY <2>1 DEF TypeOK, OrderInv, Ended
  <2>3. Verdict = "pending" /\ (ctx' = "asked") = (ctx = "asked")
    BY <2>1 DEF Verdict, Concluded
  <2>4. CASE failed /\ ctx = "live"
    <3>1. Verdict' = "lost"
      BY <2>1, <2>4 DEF Verdict, Concluded
    <3>2. stream \in {"broken", "expired"}
      BY <2>2, <2>4 DEF TypeOK
    <3>3. Promise!Conclude
      BY <1>1, <1>2, <1>3, <2>1, <2>3, <3>1, <3>2 DEF Promise!Conclude
    <3> QED BY <3>3 DEF Promise!Next
  <2>5. CASE ~(failed /\ ctx = "live")
    <3>1. Verdict' = "well"
      BY <2>1, <2>5 DEF Verdict, Concluded
    <3>2. Promise!HeardToTheEnd \/ ctx = "asked"
      <4>1. CASE ~failed
        <5>1. stream = "finished"
          BY <2>2, <4>1
        <5>2. "onEvent" \in hooks => since + Len(told) = sent
          BY <2>2, <5>1, AllTold
        <5> QED BY <5>1, <5>2 DEF Promise!HeardToTheEnd
      <4> QED BY <2>2, <2>5, <4>1
    <3>3. Promise!Conclude
      BY <1>1, <1>2, <1>3, <2>1, <2>3, <3>1, <3>2 DEF Promise!Conclude
    <3> QED BY <3>3 DEF Promise!Next
  <2> QED BY <2>4, <2>5
<1> QED BY <1>4, <1>5, <1>6 DEF Consume

LEMMA WaitPromise ==
  ASSUME TypeOK, OrderInv, NEW w \in Waiters,
         Wait(w) \/ WaitReturns(w) \/ WaitGivesUp(w)
  PROVE  [Promise!Next]_(Promise!vars)
<1>1. UNCHANGED <<since, sent, stream, ctx, pc, hooks, err, told>>
  BY DEF Wait, WaitReturns, WaitGivesUp, link, routine
<1>2. Verdict' = Verdict
  BY <1>1 DEF Verdict, Concluded
<1>3. /\ (pc' # "idle") = (pc # "idle")
      /\ ("onEvent" \in hooks') = ("onEvent" \in hooks)
      /\ (stream' # "open") = (stream # "open")
      /\ (stream' \in {"broken", "expired"}) = (stream \in {"broken", "expired"})
      /\ (ctx' = "asked") = (ctx = "asked")
  BY <1>1
<1>4. \A from, to : waits[w] = from /\ waits' = [waits EXCEPT ![w] = to] =>
        /\ Answers[w] = Named(from)
        /\ Answers' = [Answers EXCEPT ![w] = Named(to)]
  BY DEF TypeOK, Answers
<1>5. \A from, to : Answers[w] = from /\ Answers' = [Answers EXCEPT ![w] = to] =>
        Promise!Becomes(w, from, to)
  BY <1>1, <1>2, <1>3 DEF Promise!Becomes
<1>6. CASE Wait(w)
  <2>1. /\ pc # "idle"
        /\ Answers[w] = "idle" /\ Answers' = [Answers EXCEPT ![w] = "waiting"]
    BY <1>4, <1>6 DEF Wait, Named
  <2>2. Promise!Wait(w)
    BY <1>5, <2>1 DEF Promise!Wait
  <2> QED BY <2>2 DEF Promise!Next
<1>7. CASE WaitReturns(w)
  <2>1. /\ done /\ waits[w] = "waiting" /\ waits' = [waits EXCEPT ![w] = err]
        /\ err \in {"none", "error"}
    BY <1>7 DEF WaitReturns, TypeOK
  <2>2. Concluded
    BY <2>1 DEF OrderInv, Concluded
  <2>3. Verdict = Named(err) /\ Verdict # "pending" /\ Named("waiting") = "waiting"
    BY <2>1, <2>2 DEF Verdict, Named
  <2>4. Answers[w] = "waiting" /\ Answers' = [Answers EXCEPT ![w] = Verdict]
    BY <1>4, <2>1, <2>3
  <2>5. Promise!Answer(w)
    BY <1>5, <2>3, <2>4 DEF Promise!Answer
  <2> QED BY <2>5 DEF Promise!Next
<1>8. CASE WaitGivesUp(w)
  <2>1. Answers[w] = "waiting" /\ Answers' = [Answers EXCEPT ![w] = "gaveUp"]
    BY <1>4, <1>8 DEF WaitGivesUp, Named
  <2>2. Promise!GiveUp(w)
    BY <1>5, <2>1 DEF Promise!GiveUp
  <2> QED BY <2>2 DEF Promise!Next
<1> QED BY <1>6, <1>7, <1>8

\* Watch opens the handle; the polled way and the directory are not part of it.
LEMMA OtherPromise ==
  ASSUME TypeOK, OrderInv,
         \/ Watch \/ Change \/ CreateWatcher \/ RemoveWatcher \/ UNCHANGED vars
         \/ \E p \in Pollers : Poll(p) \/ PollReturns(p) \/ PollFails(p) \/ PollRefused(p)
  PROVE  [Promise!Next]_(Promise!vars)
<1>1. CASE Watch
  <2>1. /\ pc = "idle" /\ pc' = "receive" /\ since' = changes /\ sent' = changes
        /\ UNCHANGED <<stream, ctx, told, waits>>
    BY <1>1 DEF Watch, seen
  <2>2. changes \in Nat
    BY MaxChangesAssumption DEF MaxChangesAssumption, TypeOK
  <2>3. Verdict' = Verdict /\ Answers' = Answers
    BY <2>1 DEF Verdict, Concluded, Answers
  <2>4. /\ (stream' # "open") = (stream # "open")
        /\ (stream' \in {"broken", "expired"}) = (stream \in {"broken", "expired"})
        /\ (ctx' = "asked") = (ctx = "asked")
        /\ ("onEvent" \in hooks') \in BOOLEAN
    BY <2>1
  <2>5. Promise!Open
    BY <2>1, <2>2, <2>3, <2>4 DEF Promise!Open
  <2> QED BY <2>5 DEF Promise!Next
<1>2. CASE \/ Change \/ CreateWatcher \/ RemoveWatcher \/ UNCHANGED vars
           \/ \E p \in Pollers : \/ Poll(p) \/ PollReturns(p) \/ PollFails(p)
                                 \/ PollRefused(p)
  <2>1. UNCHANGED <<since, sent, stream, ctx, pc, hooks, err, told, waits>>
    <3>1. UNCHANGED watchVars
      BY <1>2 DEF Change, CreateWatcher, RemoveWatcher, Poll, PollReturns, PollFails,
                  PollRefused, vars
    <3> QED BY <3>1 DEF watchVars, link, routine, seen
  <2>2. Verdict' = Verdict
    BY <2>1 DEF Verdict, Concluded
  <2>3. UNCHANGED Promise!vars
    BY <2>1, <2>2, Unseen
  <2> QED BY <2>3
<1> QED BY <1>1, <1>2

\* For any callbacks, changes and callers, the handle of a watch tells of the
\* changes in order, reaches one verdict after which it tells of nothing, and
\* answers every Wait with it.
THEOREM HandleImplementsStream == Spec => ImplementsStream
<1> DEFINE I == TypeOK /\ OrderInv /\ StreamInv
<1>1. I /\ I' /\ [Next]_vars => [Promise!Next]_(Promise!vars)
  BY LinkPromise, ConsumePromise, WaitPromise, OtherPromise DEF Next
<1>2. Spec => []I
  BY Invariance
<1> QED BY <1>1, <1>2, InitPromise, PTL DEF Spec, ImplementsStream, Promise!Spec

-----------------------------------------------------------------------------
(* What polls hand out.                                                     *)

Answered(p) == polls[p].at = "answered"

Way == UNION {ToSet(polls[p].batch) : p \in {q \in Pollers : polls[q].at = "answered"}}

\* The changes handed out, under way and at envd, each without repetition and
\* none in two places.
PollInv ==
  /\ IsInjective(handed) /\ IsInjective(pending)
  /\ \A p \in Pollers : Answered(p) => IsInjective(polls[p].batch)
  /\ ToSet(handed) \cap (Way \cup ToSet(pending)) = {}
  /\ Way \cap ToSet(pending) = {}
  /\ \A p, q \in Pollers : p # q /\ Answered(p) /\ Answered(q) =>
       ToSet(polls[p].batch) \cap ToSet(polls[q].batch) = {}
  /\ ToSet(handed) \cup Way \cup ToSet(pending) \subseteq 1 .. changes
  /\ watcher = "none" =>
       ~held /\ handed = <<>> /\ pending = <<>> /\ \A p \in Pollers : ~Answered(p)
  /\ watcher = "live" /\ ~lost =>
       \E first \in 1 .. changes + 1 :
         ToSet(handed) \cup Way \cup ToSet(pending) = first .. changes

LEMMA Concatenated ==
  ASSUME NEW S, NEW s \in Seq(S), NEW t \in Seq(S)
  PROVE  /\ ToSet(s \o t) = ToSet(s) \cup ToSet(t)
         /\ IsInjective(s) /\ IsInjective(t) /\ ToSet(s) \cap ToSet(t) = {} =>
              IsInjective(s \o t)
<1>1. /\ Len(s) \in Nat /\ Len(t) \in Nat /\ Len(s \o t) = Len(s) + Len(t)
      /\ DOMAIN s = 1 .. Len(s) /\ DOMAIN t = 1 .. Len(t)
      /\ DOMAIN (s \o t) = 1 .. Len(s) + Len(t)
  BY LenProperties, ConcatProperties
<1> DEFINE u == s \o t
<1>2. /\ \A i \in DOMAIN s : i \in DOMAIN u /\ u[i] = s[i]
      /\ \A i \in DOMAIN t : Len(s) + i \in DOMAIN u /\ u[Len(s) + i] = t[i]
  BY <1>1, ConcatProperties
<1>3. \A i \in DOMAIN u : i \in DOMAIN s \/ \E j \in DOMAIN t : i = Len(s) + j
  <2> SUFFICES ASSUME NEW i \in 1 .. Len(s) + Len(t), i \notin 1 .. Len(s)
               PROVE  \E j \in 1 .. Len(t) : i = Len(s) + j
    BY <1>1
  <2>1. i - Len(s) \in 1 .. Len(t) /\ i = Len(s) + (i - Len(s))
    BY <1>1
  <2> QED BY <2>1
<1> HIDE DEF u
<1>4. ToSet(u) = ToSet(s) \cup ToSet(t)
  <2>1. ToSet(u) \subseteq ToSet(s) \cup ToSet(t)
    BY <1>2, <1>3 DEF ToSet
  <2>2. ToSet(s) \cup ToSet(t) \subseteq ToSet(u)
    BY <1>2 DEF ToSet
  <2> QED BY <2>1, <2>2
<1>5. ASSUME IsInjective(s), IsInjective(t), ToSet(s) \cap ToSet(t) = {}
      PROVE  IsInjective(u)
  <2> SUFFICES ASSUME NEW i \in DOMAIN u, NEW j \in DOMAIN u, u[i] = u[j]
               PROVE  i = j
    BY DEF IsInjective
  <2>1. \A a \in DOMAIN s, b \in DOMAIN t : s[a] # t[b]
    BY <1>5 DEF ToSet
  <2>2. CASE i \in DOMAIN s /\ j \in DOMAIN s
    BY <1>2, <1>5, <2>2 DEF IsInjective
  <2>3. CASE i \notin DOMAIN s /\ j \notin DOMAIN s
    <3>1. PICK a \in DOMAIN t : i = Len(s) + a
      BY <1>3, <2>3
    <3>2. PICK b \in DOMAIN t : j = Len(s) + b
      BY <1>3, <2>3
    <3> QED BY <1>2, <1>5, <3>1, <3>2 DEF IsInjective
  <2>4. CASE i \in DOMAIN s /\ j \notin DOMAIN s
    BY <1>2, <1>3, <2>1, <2>4
  <2>5. CASE i \notin DOMAIN s /\ j \in DOMAIN s
    BY <1>2, <1>3, <2>1, <2>5
  <2> QED BY <2>2, <2>3, <2>4, <2>5
<1> QED BY <1>4, <1>5 DEF u

LEMMA Appended ==
  ASSUME NEW S, NEW s \in Seq(S), NEW e \in S
  PROVE  /\ ToSet(Append(s, e)) = ToSet(s) \cup {e}
         /\ IsInjective(s) /\ e \notin ToSet(s) => IsInjective(Append(s, e))
<1> DEFINE t == <<e>>
<1>1. t \in Seq(S) /\ Append(s, e) = s \o t
  BY AppendIsConcat
<1>2. ToSet(t) = {e} /\ IsInjective(t)
  BY DEF ToSet, IsInjective
<1> HIDE DEF t
<1>3. /\ ToSet(s \o t) = ToSet(s) \cup ToSet(t)
      /\ IsInjective(s) /\ IsInjective(t) /\ ToSet(s) \cap ToSet(t) = {} =>
           IsInjective(s \o t)
  BY <1>1, Concatenated
<1> QED BY <1>1, <1>2, <1>3

LEMMA Empty == ToSet(<<>>) = {} /\ IsInjective(<<>>)
BY DEF ToSet, IsInjective

LEMMA InitPoll == Init => PollInv
<1> SUFFICES ASSUME Init PROVE PollInv
  OBVIOUS
<1>1. /\ handed = <<>> /\ pending = <<>> /\ watcher = "none" /\ ~held
      /\ \A p \in Pollers : polls[p].at = "idle"
  BY DEF Init
<1>2. Way = {}
  BY <1>1 DEF Way
<1> QED BY <1>1, <1>2, Empty DEF PollInv, Answered

LEMMA ChangePoll ==
  ASSUME TypeOK, PollInv, Change
  PROVE  PollInv'
<1>1. /\ changes \in Nat /\ changes' = changes + 1
      /\ changes' \in 1 .. MaxChanges
      /\ pending \in Seq(1 .. MaxChanges)
      /\ UNCHANGED <<watcher, held, polls, handed, lost>>
  BY MaxChangesAssumption DEF MaxChangesAssumption, TypeOK, Change
<1>2. Way' = Way /\ \A p \in Pollers : Answered(p)' = Answered(p)
  BY <1>1 DEF Way, Answered
<1>3. CASE watcher = "live"
  <2> DEFINE n == changes + 1
             all == ToSet(handed) \cup Way \cup ToSet(pending)
  <2>1. pending' = Append(pending, n) /\ n \in 1 .. MaxChanges
    BY <1>1, <1>3 DEF Change
  <2>2. n \notin all /\ all \subseteq 1 .. n
    BY <1>1 DEF PollInv
  <2>3. ToSet(pending') = ToSet(pending) \cup {n} /\ IsInjective(pending')
    <3> DEFINE S == 1 .. MaxChanges
    <3>1. pending \in Seq(S) /\ n \in S
      BY <1>1, <2>1
    <3> HIDE DEF S, n
    <3> QED BY <2>1, <2>2, <3>1, Appended DEF PollInv
  <2>4. n \in 1 .. n
    BY <1>1
  <2>5. ASSUME ~lost PROVE \E first \in 1 .. n + 1 : all \cup {n} = first .. n
    <3>1. PICK first \in 1 .. n : all = first .. changes
      BY <1>3, <2>5 DEF PollInv
    <3> HIDE DEF all
    <3>2. all \cup {n} = first .. n /\ first \in 1 .. n + 1
      BY <1>1, <3>1
    <3> QED BY <3>2
  <2> HIDE DEF n
  <2>6. changes' = n
    BY <1>1 DEF n
  <2>7. ToSet(handed) \cup Way \cup ToSet(pending') = all \cup {n}
    BY <2>3
  <2>8. all \cup {n} \subseteq 1 .. n
    BY <2>2, <2>4
  <2>9. /\ ToSet(handed) \cap (Way \cup ToSet(pending')) = {}
        /\ Way \cap ToSet(pending') = {}
    BY <2>2, <2>3 DEF PollInv
  <2> HIDE DEF all
  <2>10. \A p \in Pollers : polls'[p] = polls[p]
    BY <1>1
  <2> QED
    BY <1>1, <1>2, <1>3, <2>3, <2>5, <2>6, <2>7, <2>8, <2>9, <2>10 DEF PollInv
<1>4. CASE watcher # "live"
  <2>1. pending' = pending /\ 1 .. changes \subseteq 1 .. changes'
    BY <1>1, <1>4 DEF Change
  <2> QED BY <1>1, <1>2, <1>4, <2>1 DEF PollInv
<1> QED BY <1>3, <1>4

\* Answering a call puts its batch under way; the end of a call takes it off.
LEMMA OneMore ==
  ASSUME NEW p \in Pollers, ~Answered(p), Answered(p)',
         \A q \in Pollers : q # p => polls'[q] = polls[q]
  PROVE  Way' = Way \cup ToSet(polls'[p].batch)
BY DEF Way, Answered

LEMMA OneLess ==
  ASSUME PollInv, NEW p \in Pollers, Answered(p), ~Answered(p)',
         \A q \in Pollers : q # p => polls'[q] = polls[q]
  PROVE  /\ Way = Way' \cup ToSet(polls[p].batch)
         /\ Way' \cap ToSet(polls[p].batch) = {}
<1>1. Way = Way' \cup ToSet(polls[p].batch)
  BY DEF Way, Answered
<1>2. Way' \cap ToSet(polls[p].batch) = {}
  <2> SUFFICES ASSUME NEW n \in Way', n \in ToSet(polls[p].batch) PROVE FALSE
    OBVIOUS
  <2>1. PICK q \in Pollers : polls'[q].at = "answered" /\ n \in ToSet(polls'[q].batch)
    BY DEF Way
  <2>2. q # p /\ Answered(q) /\ n \in ToSet(polls[q].batch)
    BY <2>1 DEF Answered
  <2> QED BY <2>2 DEF PollInv
<1> QED BY <1>1, <1>2

LEMMA AnswerPoll ==
  ASSUME TypeOK, PollInv, NEW p \in Pollers, Poll(p)
  PROVE  PollInv'
<1>1. /\ held /\ watcher = "live" /\ ~Answered(p)
      /\ pending' = <<>> /\ UNCHANGED <<changes, watcher, held, handed, lost>>
  BY DEF Poll, Answered
<1>2. /\ polls'[p] = [at |-> "answered", batch |-> pending]
      /\ \A q \in Pollers : q # p => polls'[q] = polls[q]
  BY DEF Poll, TypeOK
<1>3. Answered(p)' /\ polls'[p].batch = pending
  BY <1>2 DEF Answered
<1>4. Way' = Way \cup ToSet(pending) /\ ToSet(pending') = {} /\ IsInjective(pending')
  BY <1>1, <1>2, <1>3, OneMore, Empty
<1>5. \A q \in Pollers : q # p => (Answered(q)' <=> Answered(q))
  BY <1>2 DEF Answered
<1>6. \A q \in Pollers : Answered(q)' => IsInjective(polls'[q].batch)
  BY <1>2, <1>3, <1>5 DEF PollInv
<1>7. \A q \in Pollers : Answered(q) => ToSet(polls[q].batch) \cap ToSet(pending) = {}
  BY DEF PollInv, Way, Answered
<1>8. \A q, r \in Pollers : q # r /\ Answered(q)' /\ Answered(r)' =>
        ToSet(polls'[q].batch) \cap ToSet(polls'[r].batch) = {}
  BY <1>2, <1>3, <1>5, <1>7 DEF PollInv
<1>9. /\ ToSet(handed) \cap (Way' \cup ToSet(pending')) = {}
      /\ Way' \cap ToSet(pending') = {}
      /\ ToSet(handed) \cup Way' \cup ToSet(pending') =
           ToSet(handed) \cup Way \cup ToSet(pending)
  BY <1>4 DEF PollInv
<1> QED BY <1>1, <1>4, <1>6, <1>8, <1>9 DEF PollInv

LEMMA FinishPoll ==
  ASSUME TypeOK, PollInv, NEW p \in Pollers, PollReturns(p) \/ PollFails(p)
  PROVE  PollInv'
<1>1. /\ Answered(p) /\ UNCHANGED <<changes, watcher, held, pending>>
      /\ watcher # "none"
  BY DEF PollReturns, PollFails, Answered, PollInv
<1>2. \E a \in {"returned", "failed"} : polls' = [polls EXCEPT ![p].at = a]
  BY DEF PollReturns, PollFails
<1>3. \A q \in Pollers : q # p => polls'[q] = polls[q]
  BY <1>2 DEF TypeOK
<1>4. ~Answered(p)'
  <2>1. polls'[p].at \in {"returned", "failed"}
    BY <1>2 DEF TypeOK
  <2> QED BY <2>1 DEF Answered
<1> DEFINE batch == polls[p].batch
<1>5. Way = Way' \cup ToSet(batch) /\ Way' \cap ToSet(batch) = {}
  BY <1>1, <1>3, <1>4, OneLess
<1>6. /\ \A q \in Pollers : Answered(q)' => IsInjective(polls'[q].batch)
      /\ \A q, r \in Pollers : q # r /\ Answered(q)' /\ Answered(r)' =>
           ToSet(polls'[q].batch) \cap ToSet(polls'[r].batch) = {}
  <2>1. \A q \in Pollers : Answered(q)' => Answered(q) /\ polls'[q] = polls[q]
    BY <1>3, <1>4 DEF Answered
  <2> QED BY <2>1 DEF PollInv
<1>7. CASE PollReturns(p)
  <2>1. handed' = handed \o batch /\ lost' = lost
    BY <1>7 DEF PollReturns
  <2>2. /\ handed \in Seq(1 .. MaxChanges) /\ batch \in Seq(1 .. MaxChanges)
    BY DEF TypeOK
  <2> DEFINE S == 1 .. MaxChanges
  <2> HIDE DEF S
  <2>3. handed \in Seq(S) /\ batch \in Seq(S)
    BY <2>2 DEF S
  <2>4. /\ IsInjective(handed) /\ IsInjective(batch)
        /\ ToSet(handed) \cap ToSet(batch) = {}
    BY <1>1, <1>5 DEF PollInv
  <2> HIDE DEF batch
  <2>5. /\ ToSet(handed') = ToSet(handed) \cup ToSet(batch)
        /\ IsInjective(handed')
    BY <2>1, <2>3, <2>4, Concatenated
  <2>6. /\ ToSet(handed') \cap (Way' \cup ToSet(pending)) = {}
        /\ Way' \cap ToSet(pending) = {}
        /\ ToSet(handed') \cup Way' \cup ToSet(pending) =
             ToSet(handed) \cup Way \cup ToSet(pending)
    BY <1>5, <2>5 DEF PollInv
  <2> QED BY <1>1, <1>6, <2>1, <2>5, <2>6 DEF PollInv
<1>8. CASE PollFails(p)
  <2>1. handed' = handed /\ lost'
    BY <1>8 DEF PollFails
  <2> HIDE DEF batch
  <2>2. /\ ToSet(handed) \cap (Way' \cup ToSet(pending)) = {}
        /\ Way' \cap ToSet(pending) = {}
        /\ ToSet(handed) \cup Way' \cup ToSet(pending) \subseteq 1 .. changes
    BY <1>5 DEF PollInv
  <2> QED BY <1>1, <1>6, <2>1, <2>2 DEF PollInv
<1> QED BY <1>7, <1>8

LEMMA WatcherPoll ==
  ASSUME TypeOK, PollInv,
         CreateWatcher \/ RemoveWatcher \/ \E p \in Pollers : PollRefused(p)
  PROVE  PollInv'
<1>1. changes \in Nat
  BY MaxChangesAssumption DEF MaxChangesAssumption, TypeOK
<1>2. CASE CreateWatcher
  <2>1. /\ watcher = "none" /\ watcher' = "live"
        /\ UNCHANGED <<changes, pending, polls, handed>>
    BY <1>2 DEF CreateWatcher
  <2>2. /\ handed = <<>> /\ pending = <<>>
        /\ \A p \in Pollers : ~Answered(p)
    BY <2>1 DEF PollInv
  <2>3. Way = {} /\ Way' = Way /\ \A p \in Pollers : Answered(p)' = Answered(p)
    BY <2>1, <2>2 DEF Way, Answered
  <2>4. ToSet(handed) \cup Way \cup ToSet(pending) = changes + 1 .. changes
    BY <1>1, <2>2, <2>3, Empty
  <2>5. changes + 1 \in 1 .. changes + 1
    BY <1>1
  <2> QED BY <2>1, <2>2, <2>3, <2>4, <2>5, Empty DEF PollInv
<1>3. CASE RemoveWatcher
  <2>1. /\ watcher' = "removed" /\ pending' = <<>>
        /\ UNCHANGED <<changes, held, polls, handed, lost>>
    BY <1>3 DEF RemoveWatcher
  <2>2. Way' = Way /\ \A p \in Pollers : Answered(p)' = Answered(p)
    BY <2>1 DEF Way, Answered
  <2> QED BY <2>1, <2>2, Empty DEF PollInv
<1>4. ASSUME NEW p \in Pollers, PollRefused(p)
      PROVE  PollInv'
  <2>1. /\ polls' = [polls EXCEPT ![p].at = "failed"] /\ polls[p].at = "idle"
        /\ UNCHANGED <<changes, watcher, held, pending, handed, lost>>
    BY <1>4 DEF PollRefused
  <2>2. /\ polls'[p].at = "failed"
        /\ \A q \in Pollers : q # p => polls'[q] = polls[q]
    BY <2>1 DEF TypeOK
  <2>3. /\ ~Answered(p) /\ ~Answered(p)'
        /\ \A q \in Pollers : Answered(q)' <=> Answered(q)
        /\ \A q \in Pollers : Answered(q) => polls'[q] = polls[q]
    BY <2>1, <2>2 DEF Answered
  <2>4. Way' = Way
    BY <2>3 DEF Way, Answered
  <2> QED BY <2>1, <2>3, <2>4 DEF PollInv
<1> QED BY <1>2, <1>3, <1>4

LEMMA StepPoll == TypeOK /\ PollInv /\ [Next]_vars => PollInv'
<1> SUFFICES ASSUME TypeOK, PollInv, [Next]_vars PROVE PollInv'
  OBVIOUS
<1>1. CASE UNCHANGED <<changes, pollVars>>
  <2>1. UNCHANGED <<changes, watcher, held, pending, polls, handed, lost>>
    BY <1>1 DEF pollVars
  <2>2. Way' = Way /\ \A p \in Pollers : Answered(p)' = Answered(p)
    BY <2>1 DEF Way, Answered
  <2> QED BY <2>1, <2>2 DEF PollInv
<1>2. CASE \/ Send \/ SendMarker \/ Finish \/ Break \/ RequestTimeout \/ Cut \/ Watch
           \/ Stop \/ Consume \/ EventReturns \/ UNCHANGED vars
           \/ \E w \in Waiters : Wait(w) \/ WaitReturns(w) \/ WaitGivesUp(w)
  <2>1. UNCHANGED <<changes, pollVars>>
    BY <1>2 DEF Send, SendMarker, Finish, Break, RequestTimeout, Cut, Watch, Stop, Consume,
                RecvNothing, RecvEvent, EventReturns, StreamOver, Judge, TellExit,
                CancelContext, CloseDone, Wait, WaitReturns, WaitGivesUp, vars
  <2> QED BY <1>1, <2>1
<1> QED BY <1>2, ChangePoll, AnswerPoll, FinishPoll, WatcherPoll DEF Next

\* A change is handed out at most once, however many callers poll, and lost
\* only with a call that failed.
THEOREM EachHandedOutOnce == Spec => []PolledOnce
<1>1. PollInv => PolledOnce
  BY DEF PollInv, PolledOnce, Way
<1> QED BY <1>1, InitTypes, StepTypes, InitPoll, StepPoll, PTL DEF Spec

=============================================================================
