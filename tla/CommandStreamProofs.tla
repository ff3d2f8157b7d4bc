------------------------- MODULE CommandStreamProofs -------------------------
(***************************************************************************)
(* Proofs about CommandStream, for any number of handles, processes and    *)
(* calls.                                                                  *)
(*                                                                         *)
(* First the types, the verdict of a handle and what Kill answers.  Then   *)
(* what the caller of a command sees: a result is never invented, a        *)
(* finished handle implements CommandContract, what Wait and Run return    *)
(* agrees with it, and callbacks hear every chunk in order.                *)
(*                                                                         *)
(* That second half begins with values: what becomes of Follows when a     *)
(* chunk is written and pushed, when an event is received, when the wire   *)
(* is cut.  It goes on to apply them to the steps of CommandStream, joins  *)
(* the two halves of the state, SettledInv (the outcome is decided before  *)
(* done is closed) and StreamInv (a result is the truth about the process  *)
(* the handle is attached to), and ends by doing for callbacks what it did *)
(* for results.                                                            *)
(***************************************************************************)
EXTENDS CommandStream, Integers, SequenceTheorems, TLAPS

USE DEF Sources, Codes

LEMMA EventTypes ==
  /\ Keepalive \in EventType
  /\ \A p \in Procs : StartEvent(p) \in EventType
  /\ \A s \in Sources, n \in Nat : DataEvent(s, n) \in EventType
  /\ \A c \in Codes : EndEvent(c) \in EventType
BY DEF EventType, Keepalive, StartEvent, DataEvent, EndEvent, Event

LEMMA InitTypeOK == Init => TypeOK
<1> SUFFICES ASSUME Init PROVE TypeOK
  OBVIOUS
<1> Silent \in [Sources -> Seq(Nat)]
  BY DEF Silent
<1> NoCall \in CallType
  BY DEF NoCall, CallType
<1> QED
  BY EventTypes DEF Init, TypeOK, NoResult, NoCall

\* Opening, extending, truncating and reading a stream keep it a sequence of
\* events.
LEMMA WireTypes ==
  ASSUME TypeOK, NEW h \in Handles
  PROVE  /\ wire[h] \in Seq(EventType)
         /\ \A e \in EventType : Append(wire[h], e) \in Seq(EventType) /\ <<e>> \in Seq(EventType)
         /\ \A k \in 0..Len(wire[h]) : SubSeq(wire[h], 1, k) \in Seq(EventType)
         /\ wire[h] # <<>> => Head(wire[h]) \in EventType /\ Tail(wire[h]) \in Seq(EventType)
<1>1. wire[h] \in Seq(EventType)
  BY DEF TypeOK
<1>2. ASSUME NEW k \in 0..Len(wire[h]) PROVE SubSeq(wire[h], 1, k) \in Seq(EventType)
  <2>1. \A i \in 1..k : wire[h][i] \in EventType
    BY <1>1
  <2>2. QED
    BY <1>1, <2>1
<1>3. QED
  BY <1>1, <1>2

LEMMA AttachTypes ==
  ASSUME TypeOK, NEW h \in Handles, NEW p \in Procs, AttachTo(h, p)
  PROVE  /\ arrived'  \in [Handles -> BOOLEAN]
         /\ attached' \in [Handles -> Procs \cup {NoPid}]
         /\ base'     \in [Handles -> [Sources -> Nat]]
         /\ wire'     \in [Handles -> Seq(EventType)]
<1>1. [s \in Sources |-> Len(written[p][s])] \in [Sources -> Nat]
  BY DEF TypeOK
<1>2. Append(wire[h], StartEvent(p)) \in Seq(EventType)
  BY WireTypes, EventTypes
<1>3. QED
  BY <1>1, <1>2 DEF TypeOK, AttachTo

LEMMA PushTypes ==
  ASSUME TypeOK, NEW p \in Procs, NEW e \in EventType
  PROVE  Pushed(p, e) \in [Handles -> Seq(EventType)]
BY WireTypes DEF TypeOK, Pushed

\* A call that was made stays a call when its progress or its answer changes.
LEMMA CallUpdates ==
  ASSUME NEW x \in CallType, x.st # "idle",
         NEW st \in {"delivered", "not found", "back"},
         NEW ret \in {"none", "result", "exit error", "error", "context", "true",
                      "false", "output"}
  PROVE  /\ [x EXCEPT !.st = st] \in CallType
         /\ [x EXCEPT !.st = st, !.ret = ret] \in CallType
         /\ [x EXCEPT !.expired = TRUE] \in CallType
<1>1. [x EXCEPT !.st = st] \in CallType
  BY DEF CallType
<1>2. [x EXCEPT !.st = st, !.ret = ret] \in CallType
  BY DEF CallType
<1>3. [x EXCEPT !.expired = TRUE] \in CallType
  BY DEF CallType
<1>4. QED
  BY <1>1, <1>2, <1>3

LEMMA StepTypeOK == TypeOK /\ [Next]_vars => TypeOK'
<1> SUFFICES ASSUME TypeOK, [Next]_vars PROVE TypeOK'
  OBVIOUS
<1>1. ASSUME NEW h \in Handles, Start(h) PROVE TypeOK'
  BY <1>1 DEF TypeOK, Start, Open, envdVars
<1>2. ASSUME NEW h \in Handles, StartFails(h) PROVE TypeOK'
  BY <1>2 DEF TypeOK, StartFails, envdVars, streamVars
<1>3. ASSUME NEW h \in Handles, NEW p \in Procs, Connect(h, p) PROVE TypeOK'
  BY <1>3 DEF TypeOK, Connect, envdVars, streamVars
<1>4. ASSUME NEW h \in Handles, Cancel(h) PROVE TypeOK'
  BY <1>4 DEF TypeOK, Cancel, envdVars, handleVars
<1>5. ASSUME NEW h \in Handles, NEW p \in Procs, Spawn(h, p) PROVE TypeOK'
  <2>1. AttachTo(h, p)
    BY <1>5 DEF Spawn
  <2>2. QED
    BY <1>5, <2>1, AttachTypes DEF TypeOK, Spawn, handleVars
<1>6. ASSUME NEW h \in Handles, Join(h) PROVE TypeOK'
  <2>1. how[h] = "connect" /\ exit[pid[h]] = "running" /\ AttachTo(h, pid[h])
    BY <1>6 DEF Join
  <2>2. pid[h] \in Procs \cup {NoPid}
    BY DEF TypeOK
  <2>3. QED
    BY <1>6, <2>1, AttachTypes DEF TypeOK, Join, envdVars, handleVars
<1>7. ASSUME NEW h \in Handles, JoinRefused(h) PROVE TypeOK'
  BY <1>7 DEF TypeOK, JoinRefused, envdVars, handleVars
<1>8. ASSUME NEW h \in Handles, SendKeepalive(h) PROVE TypeOK'
  BY <1>8, EventTypes, WireTypes DEF TypeOK, SendKeepalive, envdVars, handleVars
<1>9. ASSUME NEW h \in Handles, EndStream(h) PROVE TypeOK'
  BY <1>9 DEF TypeOK, EndStream, envdVars, handleVars
<1>10. ASSUME NEW h \in Handles, Break(h) PROVE TypeOK'
  <2>1. PICK k \in 0..Len(wire[h]) : wire' = [wire EXCEPT ![h] = SubSeq(wire[h], 1, k)]
    BY <1>10 DEF Break
  <2>2. wire' \in [Handles -> Seq(EventType)]
    BY <2>1, WireTypes DEF TypeOK
  <2>3. QED
    BY <1>10, <2>2 DEF TypeOK, Break, envdVars, handleVars
<1>11. ASSUME NEW p \in Procs, NEW s \in Sources, Write(p, s) PROVE TypeOK'
  <2>1. NextChunk(p) \in Nat
    <3>1. written[p]["stdout"] \in Seq(Nat) /\ written[p]["stderr"] \in Seq(Nat)
      BY DEF TypeOK
    <3>2. \A q \in Seq(Nat) : Len(q) \in Nat
      OBVIOUS
    <3>3. \A a, b \in Nat : a + b + 1 \in Nat
      OBVIOUS
    <3>4. QED
      BY <3>1, <3>2, <3>3, Zenon DEF NextChunk
  <2>2. wire' \in [Handles -> Seq(EventType)]
    BY <1>11, <2>1, EventTypes, PushTypes DEF Write
  <2>3. written' \in [Procs -> [Sources -> Seq(Nat)]]
    BY <1>11, <2>1 DEF Write, TypeOK
  <2>4. QED
    BY <1>11, <2>2, <2>3 DEF TypeOK, Write, handleVars
<1>12. ASSUME NEW p \in Procs, NEW c \in Codes, Exit(p, c) PROVE TypeOK'
  <2>1. wire' \in [Handles -> Seq(EventType)]
    BY <1>12, EventTypes, PushTypes DEF Exit
  <2>2. QED
    BY <1>12, <2>1 DEF TypeOK, Exit, handleVars
<1>13. ASSUME NEW c \in Calls, Signal(c) PROVE TypeOK'
  <2>1. call[c] \in CallType /\ call[c].st = "sent" /\ call[c].target \in Procs \cup {NoPid}
    BY <1>13 DEF Signal, TypeOK, CallType
  <2>2. PICK st \in {"delivered", "not found"} : call' = [call EXCEPT ![c].st = st]
    BY <1>13 DEF Signal
  <2>3. call' \in [Calls -> CallType]
    BY <2>1, <2>2, CallUpdates DEF TypeOK
  <2>4. signalled' \in SUBSET Procs
    <3>1. CASE signalled' = signalled
      BY <3>1 DEF TypeOK
    <3>2. CASE call[c].target # NoPid /\ signalled' = signalled \cup {call[c].target}
      BY <2>1, <3>2 DEF TypeOK
    <3>3. QED
      BY <1>13, <2>1, <3>1, <3>2 DEF Signal
  <2>5. QED
    BY <1>13, <2>3, <2>4 DEF TypeOK, Signal, streamVars, handleVars
<1>14. ASSUME NEW c \in Calls, NEW h \in Handles,
              Run(c, h) \/ Wait(c, h) \/ Kill(c, h) \/ Read(c, h)
       PROVE TypeOK'
  <2>1. pid[h] \in Procs \cup {NoPid}
    BY DEF TypeOK
  <2>2. PICK op \in {"run", "wait", "kill", "read"}, st \in {"blocked", "sent"},
             target \in Procs \cup {NoPid} : Made(c, op, h, st, target)
    BY <1>14, <2>1 DEF Run, Wait, Kill, Read
  <2>3. call' \in [Calls -> CallType]
    BY <2>2 DEF Made, TypeOK, CallType
  <2>4. CASE Run(c, h)
    BY <2>3, <2>4 DEF Run, Open, envdVars, TypeOK
  <2>5. CASE Wait(c, h) \/ Kill(c, h) \/ Read(c, h)
    BY <2>3, <2>5 DEF Wait, Kill, Read, envdVars, streamVars, handleVars, TypeOK
  <2>6. QED
    BY <1>14, <2>4, <2>5
<1>15. ASSUME NEW c \in Calls,
              \/ Expire(c) \/ WaitDone(c) \/ WaitExpired(c)
              \/ KillReply(c) \/ KillFails(c) \/ ReadReturns(c)
       PROVE TypeOK'
  <2>1. call[c] \in CallType /\ call[c].st # "idle" /\ call[c].h \in Handles
    BY <1>15 DEF TypeOK, Expire, WaitDone, WaitExpired, KillReply, KillFails,
                 ReadReturns, CallType
  <2>2. ASSUME NEW ret \in {"result", "exit error", "error", "context", "true",
                            "false", "output"},
               call' = Returned(c, ret)
        PROVE  call' \in [Calls -> CallType]
    BY <2>1, <2>2, CallUpdates DEF Returned, TypeOK
  <2>3. Released(c) \in [Handles -> {"live", "cancelled"}]
    BY DEF Released, TypeOK
  <2>4. CASE Expire(c)
    <3>1. call' \in [Calls -> CallType]
      BY <2>1, <2>4, CallUpdates DEF Expire, TypeOK
    <3>2. ctx' \in [Handles -> {"live", "cancelled"}]
      BY <2>4 DEF Expire, TypeOK
    <3>3. QED
      BY <2>4, <3>1, <3>2 DEF Expire, TypeOK, envdVars, handleVars
  <2>5. CASE WaitDone(c)
    <3>1. Outcome(call[c].h, call[c].op) \in {"result", "exit error", "error"}
      BY DEF Outcome
    <3>2. call' \in [Calls -> CallType]
      BY <2>2, <2>5, <3>1 DEF WaitDone
    <3>3. QED
      BY <2>3, <2>5, <3>2 DEF WaitDone, TypeOK, envdVars, handleVars
  <2>6. CASE WaitExpired(c)
    <3>1. call' \in [Calls -> CallType]
      BY <2>2, <2>6 DEF WaitExpired
    <3>2. QED
      BY <2>3, <2>6, <3>1 DEF WaitExpired, TypeOK, envdVars, handleVars
  <2>7. CASE KillReply(c) \/ KillFails(c) \/ ReadReturns(c)
    <3>1. call' \in [Calls -> CallType]
      BY <2>2, <2>7 DEF KillReply, KillFails, ReadReturns
    <3>2. UNCHANGED <<envdVars, streamVars, handleVars>>
      BY <2>7 DEF KillReply, KillFails, ReadReturns
    <3>3. QED
      BY <3>1, <3>2 DEF TypeOK, envdVars, streamVars, handleVars
  <2>8. QED
    BY <1>15, <2>4, <2>5, <2>6, <2>7
<1>16. ASSUME NEW h \in Handles, Consume(h) PROVE TypeOK'
  <2>1. ASSUME NEW type \in {"start", "data", "end", "keepalive"}, Receive(h, type)
        PROVE  /\ wire' \in [Handles -> Seq(EventType)]
               /\ Head(wire[h]) \in EventType
    BY <2>1, WireTypes DEF Receive, TypeOK
  <2>2. CASE RecvStart(h)
    <3>1. Head(wire[h]).pid \in Procs
      BY <2>1, <2>2 DEF RecvStart, Receive, EventType
    <3>2. QED
      BY <2>1, <2>2, <3>1 DEF RecvStart, Receive, TypeOK, envdVars
  <2>3. CASE RecvData(h)
    <3>1. Head(wire[h]).src \in Sources /\ Head(wire[h]).chunk \in Nat
      BY <2>1, <2>3 DEF RecvData, EventType
    <3>2. buf' \in [Handles -> [Sources -> Seq(Nat)]]
      <4> DEFINE src == Head(wire[h]).src
                 n   == Head(wire[h]).chunk
      <4>1. buf' = [buf EXCEPT ![h][src] = Append(buf[h][src], n)]
        BY <2>3 DEF RecvData
      <4>2. buf[h] \in [Sources -> Seq(Nat)] /\ Append(buf[h][src], n) \in Seq(Nat)
        BY <3>1 DEF TypeOK
      <4> HIDE DEF src, n
      <4>3. QED
        BY <3>1, <4>1, <4>2 DEF TypeOK, src
    <3>3. QED
      BY <2>1, <2>3, <3>2 DEF RecvData, Receive, TypeOK, envdVars
  <2>4. CASE RecvEnd(h)
    <3>1. Head(wire[h]).code \in Codes \cup {"running"}
      BY <2>1, <2>4 DEF RecvEnd, EventType
    <3>2. result' \in [Handles -> [code : Codes \cup {"running"}, out : [Sources -> Seq(Nat)]]]
      BY <2>4, <3>1 DEF RecvEnd, TypeOK
    <3>3. QED
      BY <2>1, <2>4, <3>2 DEF RecvEnd, Receive, TypeOK, envdVars
  <2>5. CASE RecvKeepalive(h)
    BY <2>1, <2>5 DEF RecvKeepalive, Receive, TypeOK, envdVars
  <2>6. CASE CallBack(h)
    <3>1. event[h].src \in Sources /\ event[h].chunk \in Nat
      BY DEF TypeOK, EventType
    <3>2. heard' \in [Handles -> Seq(Sources \X Nat)]
      BY <2>6, <3>1 DEF CallBack, TypeOK
    <3>3. QED
      BY <2>6, <3>2 DEF CallBack, TypeOK, envdVars, streamVars
  <2>7. CASE Unlock(h)
    BY <2>7 DEF Unlock, TypeOK, envdVars, streamVars
  <2>8. CASE StreamOver(h)
    BY <2>8 DEF StreamOver, TypeOK, envdVars, streamVars
  <2>9. CASE CloseStream(h)
    BY <2>9 DEF CloseStream, TypeOK, envdVars
  <2>10. CASE CloseDone(h)
    BY <2>10 DEF CloseDone, TypeOK, envdVars, streamVars
  <2>11. QED
    BY <1>16, <2>2, <2>3, <2>4, <2>5, <2>6, <2>7, <2>8, <2>9, <2>10 DEF Consume
<1>17. ASSUME NEW h \in Handles, CallbackReturns(h) PROVE TypeOK'
  BY <1>17 DEF TypeOK, CallbackReturns, envdVars, streamVars
<1>18. CASE UNCHANGED vars
  BY <1>18 DEF TypeOK, vars, envdVars, streamVars, handleVars
<1>19. QED
  BY <1>1, <1>2, <1>3, <1>4, <1>5, <1>6, <1>7, <1>8, <1>9, <1>10, <1>11, <1>12,
     <1>13, <1>14, <1>15, <1>16, <1>17, <1>18 DEF Next, Envd, Client

\* Every variable keeps its type in every behaviour of the module.
THEOREM TypeCorrect == Spec => []TypeOK
<1>1. Init => TypeOK
  BY InitTypeOK
<1>2. TypeOK /\ [Next]_vars => TypeOK'
  BY StepTypeOK
<1>3. QED
  BY <1>1, <1>2, PTL DEF Spec

-----------------------------------------------------------------------------
(* The outcome is decided before done is closed, and never changes after.  *)

\* Envd, the calls that open no stream and the callbacks leave the fields
\* SettledInv speaks of alone.
LEMMA StepSettled == TypeOK /\ SettledInv /\ [Next]_vars => SettledInv'
<1> SUFFICES ASSUME TypeOK, SettledInv, [Next]_vars PROVE SettledInv'
  OBVIOUS
<1>0. /\ how    \in [Handles -> {"none", "start", "connect", "failed"}]
      /\ pc     \in [Handles -> {"none", "recv", "unlock", "call", "callback",
                                 "close", "signal", "exited"}]
      /\ done   \in [Handles -> BOOLEAN]
      /\ err    \in [Handles -> {"none", "stream", "early"}]
      /\ result \in [Handles -> [code : Codes \cup {"running"},
                                 out : [Sources -> Seq(Nat)]]]
  BY DEF TypeOK
<1>1. CASE Envd
  BY <1>1 DEF Envd, SettledInv, Spawn, Join, JoinRefused, SendKeepalive, EndStream,
              Break, Write, Exit, Signal, handleVars
<1>2. ASSUME NEW h \in Handles,
             \/ Start(h) \/ StartFails(h) \/ Cancel(h)
             \/ \E p \in Procs : Connect(h, p)
             \/ \E c \in Calls : Run(c, h) \/ Wait(c, h) \/ Kill(c, h) \/ Read(c, h)
      PROVE  SettledInv'
  <2>1. \/ UNCHANGED <<how, pc, done, err, result>>
        \/ /\ how[h] = "none" /\ how' = [how EXCEPT ![h] = "failed"]
           /\ UNCHANGED <<pc, done, err, result>>
        \/ /\ how[h] = "none" /\ pc' = [pc EXCEPT ![h] = "recv"]
           /\ how' \in {[how EXCEPT ![h] = "start"], [how EXCEPT ![h] = "connect"]}
           /\ UNCHANGED <<done, err, result>>
    BY <1>2 DEF Start, StartFails, Cancel, Connect, Run, Wait, Kill, Read, Open,
                handleVars
  <2>2. QED
    BY <1>0, <2>1 DEF SettledInv
<1>3. ASSUME NEW c \in Calls,
             \/ Expire(c) \/ WaitDone(c) \/ WaitExpired(c)
             \/ KillReply(c) \/ KillFails(c) \/ ReadReturns(c)
      PROVE  SettledInv'
  BY <1>3 DEF Expire, WaitDone, WaitExpired, KillReply, KillFails, ReadReturns,
              handleVars, SettledInv
<1>4. ASSUME NEW h \in Handles, Consume(h) PROVE SettledInv'
  <2>1. CASE RecvStart(h) \/ RecvData(h) \/ RecvKeepalive(h)
    <3>1. pc[h] = "recv" /\ UNCHANGED <<how, done, err, result>>
          /\ (pc' = pc \/ pc' = [pc EXCEPT ![h] = "unlock"])
      BY <2>1 DEF RecvStart, RecvData, RecvKeepalive, Receive
    <3>2. QED
      BY <1>0, <3>1 DEF SettledInv
  <2>2. CASE RecvEnd(h)
    <3>1. pc[h] = "recv" /\ UNCHANGED <<how, pc, done, err>>
          /\ \A g \in Handles \ {h} : result'[g] = result[g]
      BY <1>0, <2>2 DEF RecvEnd, Receive
    <3>2. QED
      BY <1>0, <3>1 DEF SettledInv
  <2>3. CASE Unlock(h) \/ CallBack(h)
    BY <1>0, <2>3 DEF Unlock, CallBack, SettledInv
  <2>4. CASE StreamOver(h)
    <3>1. /\ pc[h] = "recv" /\ pc' = [pc EXCEPT ![h] = "close"]
          /\ UNCHANGED <<how, done, result>>
          /\ \A g \in Handles \ {h} : err'[g] = err[g]
          /\ err'[h] # "none" \/ result[h] # NoResult
      BY <1>0, <2>4 DEF StreamOver
    <3>2. QED
      BY <1>0, <3>1 DEF SettledInv
  <2>5. CASE CloseStream(h)
    BY <1>0, <2>5 DEF CloseStream, SettledInv
  <2>6. CASE CloseDone(h)
    BY <1>0, <2>6 DEF CloseDone, SettledInv
  <2>7. QED
    BY <1>4, <2>1, <2>2, <2>3, <2>4, <2>5, <2>6 DEF Consume
<1>5. ASSUME NEW h \in Handles, CallbackReturns(h) PROVE SettledInv'
  BY <1>0, <1>5 DEF CallbackReturns, SettledInv
<1>6. CASE UNCHANGED vars
  BY <1>6 DEF vars, handleVars, SettledInv
<1>7. QED
  BY <1>1, <1>2, <1>3, <1>4, <1>5, <1>6 DEF Next, Client

LEMMA Settled == Spec => []SettledInv
<1>1. Init => SettledInv
  BY DEF Init, SettledInv
<1>2. QED
  BY <1>1, StepSettled, TypeCorrect, PTL DEF Spec

\* Wait never returns nil, nil: a closed done comes with a result or an error.
THEOREM NeverEmptyHanded == Spec => []WaitNeverEmptyHanded
<1>1. SettledInv => WaitNeverEmptyHanded
  BY DEF SettledInv, WaitNeverEmptyHanded
<1>2. QED
  BY <1>1, Settled, PTL

\* The fields of a handle whose done is closed.
Frozen(h) ==
  /\ done'[h]
  /\ pid'[h] = pid[h] /\ buf'[h] = buf[h] /\ heard'[h] = heard[h]
  /\ result'[h] = result[h] /\ err'[h] = err[h]

LEMMA StepFrozen ==
  ASSUME TypeOK, SettledInv, [Next]_vars, NEW h \in Handles, done[h]
  PROVE  Frozen(h)
<1> USE DEF Frozen
<1>1. pc[h] = "exited" /\ how[h] \notin {"none", "failed"}
  BY DEF SettledInv
<1>2. CASE Envd
  BY <1>2 DEF Envd, Spawn, Join, JoinRefused, SendKeepalive, EndStream, Break,
              Write, Exit, Signal, handleVars
<1>3. CASE Client
  <2>1. \/ UNCHANGED <<pid, buf, result, err, done, heard>>
        \/ \E g \in Handles, p \in Procs :
             /\ how[g] = "none" /\ pid' = [pid EXCEPT ![g] = p]
             /\ UNCHANGED <<buf, result, err, done, heard>>
    BY <1>3 DEF Client, Start, StartFails, Cancel, Connect, Run, Wait, Kill, Read,
                Open, Expire, WaitDone, WaitExpired, KillReply, KillFails,
                ReadReturns, handleVars
  <2>2. QED
    BY <1>1, <2>1 DEF TypeOK
<1>4. ASSUME NEW g \in Handles, Consume(g) \/ CallbackReturns(g) PROVE Frozen(h)
  <2>1. g # h
    BY <1>1, <1>4 DEF Consume, CallbackReturns, Receive, RecvStart, RecvData, RecvEnd,
              RecvKeepalive, Unlock, CallBack, StreamOver, CloseStream, CloseDone
  <2>2. CASE \/ RecvStart(g) \/ RecvData(g) \/ RecvEnd(g) \/ RecvKeepalive(g)
    BY <2>1, <2>2 DEF Receive, RecvStart, RecvData, RecvEnd, RecvKeepalive, TypeOK
  <2>3. CASE Unlock(g) \/ CallBack(g) \/ CallbackReturns(g)
    <3>1. /\ done' = done /\ pid' = pid /\ buf' = buf /\ err' = err
          /\ result' = result
      BY <2>3 DEF Unlock, CallBack, CallbackReturns
    <3>2. heard'[h] = heard[h]
      BY <2>1, <2>3 DEF Unlock, CallBack, CallbackReturns, TypeOK
    <3> QED BY <3>1, <3>2
  <2>4. CASE StreamOver(g)
    <3>1. /\ done' = done /\ pid' = pid /\ buf' = buf /\ heard' = heard
          /\ result' = result
      BY <2>4 DEF StreamOver, handleVars
    <3>2. err'[h] = err[h]
      BY <2>1, <2>4 DEF StreamOver, TypeOK
    <3> QED BY <3>1, <3>2
  <2>5. CASE CloseStream(g) \/ CloseDone(g)
    BY <2>1, <2>5 DEF CloseStream, CloseDone, TypeOK
  <2>6. QED
    BY <1>4, <2>2, <2>3, <2>4, <2>5 DEF Consume
<1>5. CASE UNCHANGED vars
  BY <1>5 DEF vars, handleVars
<1>6. QED
  BY <1>2, <1>3, <1>4, <1>5 DEF Next

\* What a handle says once done is closed it says for ever.
THEOREM OutcomeSettled == Spec => SettledForGood
<1>1. TypeOK /\ SettledInv /\ [Next]_vars => [\A h \in Handles : done[h] =>
         /\ done'[h]
         /\ pid'[h] = pid[h] /\ buf'[h] = buf[h] /\ heard'[h] = heard[h]
         /\ result'[h] = result[h] /\ err'[h] = err[h]]_vars
  BY StepFrozen DEF Frozen
<1>2. QED
  BY <1>1, TypeCorrect, Settled, PTL DEF Spec, SettledForGood

-----------------------------------------------------------------------------
(* Kill tells the truth about the PID it was aimed at.                     *)

\* A process that was started stays started; an exit status is final.
LEMMA ExitIsFinal ==
  ASSUME TypeOK, [Next]_vars, NEW p \in Procs
  PROVE  /\ exit[p] # "unborn" => exit'[p] # "unborn"
         /\ exit[p] \in Codes => exit'[p] = exit[p]
<1>0. exit \in [Procs -> {"unborn", "running"} \cup Codes]
  BY DEF TypeOK
<1>1. CASE Envd
  BY <1>0, <1>1 DEF Envd, Spawn, Join, JoinRefused, SendKeepalive, EndStream,
              Break, Write, Exit, Signal, envdVars
<1>2. CASE Client
  BY <1>2 DEF Client, Start, StartFails, Cancel, Connect, Run, Wait, Kill, Read,
              Expire, WaitDone, WaitExpired, KillReply, KillFails, ReadReturns,
              envdVars
<1>3. ASSUME NEW h \in Handles, Consume(h) \/ CallbackReturns(h) PROVE exit' = exit
  BY <1>3 DEF Consume, CallbackReturns, Receive, RecvStart, RecvData, RecvEnd,
              RecvKeepalive, Unlock, CallBack, StreamOver, CloseStream, CloseDone,
              envdVars
<1>4. CASE UNCHANGED vars
  BY <1>4 DEF vars, envdVars
<1>5. QED
  BY <1>1, <1>2, <1>3, <1>4 DEF Next

\* Every event on a wire was there before, or is not a start event, or announces
\* the running process the stream was just attached to.
LEMMA NewEvents ==
  ASSUME TypeOK, [Next]_vars, NEW h \in Handles, NEW i \in 1..Len(wire'[h])
  PROVE  \/ \E j \in 1..Len(wire[h]) : wire'[h][i] = wire[h][j]
         \/ wire'[h][i].type # "start"
         \/ /\ attached'[h] \in Procs /\ exit'[attached'[h]] = "running"
            /\ wire'[h][i] = StartEvent(attached'[h])
<1>0. /\ wire \in [Handles -> Seq(EventType)]
      /\ exit \in [Procs -> {"unborn", "running"} \cup Codes]
      /\ attached \in [Handles -> Procs \cup {NoPid}]
      /\ pid \in [Handles -> Procs \cup {NoPid}]
      /\ \A g \in Handles : how[g] = "connect" => pid[g] \in Procs
      /\ wire[h] \in Seq(EventType)
  BY DEF TypeOK
<1> DEFINE Claim == \/ \E j \in 1..Len(wire[h]) : wire'[h][i] = wire[h][j]
                    \/ wire'[h][i].type # "start"
                    \/ /\ attached'[h] \in Procs /\ exit'[attached'[h]] = "running"
                       /\ wire'[h][i] = StartEvent(attached'[h])
<1>1. CASE wire'[h] = wire[h]
  BY <1>1
<1>2. ASSUME NEW e, wire'[h] = Append(wire[h], e),
             \/ e.type # "start"
             \/ /\ attached'[h] \in Procs /\ exit'[attached'[h]] = "running"
                /\ e = StartEvent(attached'[h])
      PROVE  Claim
  <2>1. i \in 1..Len(wire[h]) \/ i = Len(wire[h]) + 1
    BY <1>0, <1>2
  <2>2. CASE i \in 1..Len(wire[h])
    <3>1. wire'[h][i] = wire[h][i]
      BY <1>0, <1>2, <2>2
    <3>2. QED
      BY <2>2, <3>1
  <2>3. CASE i = Len(wire[h]) + 1
    <3>1. wire'[h][i] = e
      BY <1>0, <1>2, <2>3
    <3>2. QED
      BY <1>2, <3>1
  <2>4. QED
    BY <2>1, <2>2, <2>3
<1>3. ASSUME NEW g \in Handles, NEW p \in Procs, AttachTo(g, p), exit'[p] = "running"
      PROVE  Claim
  <2>1. CASE wire'[h] = wire[h]
    BY <2>1, <1>1
  <2>2. CASE g = h /\ wire'[h] = Append(wire[h], StartEvent(p)) /\ attached'[h] = p
    BY <1>2, <1>3, <2>2
  <2>3. QED
    BY <1>0, <1>3, <2>1, <2>2 DEF AttachTo
<1>4. ASSUME NEW p \in Procs, NEW e, e.type # "start", wire' = Pushed(p, e)
      PROVE  Claim
  <2>1. wire'[h] = wire[h] \/ wire'[h] = Append(wire[h], e)
    BY <1>4 DEF Pushed
  <2>2. QED
    BY <1>1, <1>2, <1>4, <2>1
<1>5. CASE Envd
  <2>1. ASSUME NEW g \in Handles, NEW p \in Procs, Spawn(g, p) PROVE Claim
    BY <1>0, <1>3, <2>1 DEF Spawn
  <2>2. ASSUME NEW g \in Handles, Join(g) PROVE Claim
    BY <1>0, <1>3, <2>2 DEF Join, envdVars
  <2>3. ASSUME NEW g \in Handles, JoinRefused(g) \/ EndStream(g) PROVE Claim
    BY <1>1, <2>3 DEF JoinRefused, EndStream
  <2>4. ASSUME NEW g \in Handles, SendKeepalive(g) PROVE Claim
    <3>1. wire'[h] = wire[h] \/ wire'[h] = <<Keepalive>>
      BY <1>0, <2>4 DEF SendKeepalive
    <3>2. CASE wire'[h] = <<Keepalive>>
      BY <3>2 DEF Keepalive, Event
    <3>3. QED
      BY <1>1, <3>1, <3>2
  <2>5. ASSUME NEW g \in Handles, Break(g) PROVE Claim
    <3>1. wire'[h] = wire[h] \/ \E k \in 0..Len(wire[h]) : wire'[h] = SubSeq(wire[h], 1, k)
      BY <1>0, <2>5 DEF Break
    <3>2. ASSUME NEW k \in 0..Len(wire[h]), wire'[h] = SubSeq(wire[h], 1, k)
          PROVE  i \in 1..Len(wire[h]) /\ wire'[h][i] = wire[h][i]
      BY <1>0, <3>2
    <3>3. QED
      BY <1>1, <3>1, <3>2
  <2>6. ASSUME NEW p \in Procs, NEW s \in Sources, Write(p, s) PROVE Claim
    BY <1>4, <2>6 DEF Write, DataEvent, Event
  <2>7. ASSUME NEW p \in Procs, NEW c \in Codes, Exit(p, c) PROVE Claim
    BY <1>4, <2>7 DEF Exit, EndEvent, Event
  <2>8. ASSUME NEW c \in Calls, Signal(c) PROVE Claim
    BY <1>1, <2>8 DEF Signal, streamVars
  <2>9. QED
    BY <1>5, <2>1, <2>2, <2>3, <2>4, <2>5, <2>6, <2>7, <2>8 DEF Envd
<1>6. CASE Client
  <2>1. wire' = wire
    BY <1>6 DEF Client, Start, StartFails, Cancel, Connect, Run, Wait, Kill, Read, Open,
                Expire, WaitDone, WaitExpired, KillReply, KillFails, ReadReturns,
                streamVars
  <2>2. QED
    BY <1>1, <2>1
<1>7. ASSUME NEW g \in Handles, Consume(g) \/ CallbackReturns(g) PROVE Claim
  <2>1. wire' = wire \/ (wire[g] # <<>> /\ wire' = [wire EXCEPT ![g] = Tail(@)])
    BY <1>7 DEF Consume, CallbackReturns, Receive, RecvStart, RecvData, RecvEnd,
                RecvKeepalive, Unlock, CallBack, StreamOver, CloseStream, CloseDone,
                streamVars
  <2>2. CASE wire[h] # <<>> /\ wire'[h] = Tail(wire[h])
    <3>1. i + 1 \in 1..Len(wire[h]) /\ wire'[h][i] = wire[h][i + 1]
      BY <1>0, <2>2
    <3>2. QED
      BY <3>1
  <2>3. QED
    BY <1>0, <1>1, <2>1, <2>2
<1>8. CASE UNCHANGED vars
  BY <1>1, <1>8 DEF vars, streamVars
<1>9. QED
  BY <1>5, <1>6, <1>7, <1>8 DEF Next

LEMMA StepPid == TypeOK /\ PidInv /\ [Next]_vars => PidInv'
<1> SUFFICES ASSUME TypeOK, PidInv, [Next]_vars PROVE PidInv'
  OBVIOUS
<1>0. /\ exit \in [Procs -> {"unborn", "running"} \cup Codes]
      /\ attached \in [Handles -> Procs \cup {NoPid}]
      /\ pid \in [Handles -> Procs \cup {NoPid}]
      /\ signalled \in SUBSET Procs
      /\ \A g \in Handles : how[g] = "connect" => pid[g] \in Procs
      /\ \A g \in Handles : wire[g] \in Seq(EventType)
      /\ call \in [Calls -> CallType]
      /\ \A c \in Calls : call[c].target \in Procs \cup {NoPid}
  BY DEF TypeOK, CallType
<1>1. \A p \in Procs : /\ exit[p] # "unborn" => exit'[p] # "unborn"
                       /\ exit[p] \in Codes => exit'[p] = exit[p]
  BY ExitIsFinal
<1>2. ASSUME NEW h \in Handles, attached'[h] # NoPid PROVE exit'[attached'[h]] # "unborn"
  <2>1. CASE attached'[h] = attached[h]
    BY <1>0, <1>1, <1>2, <2>1 DEF PidInv
  <2>2. ASSUME NEW g \in Handles, NEW p \in Procs, AttachTo(g, p), exit'[p] = "running"
        PROVE  exit'[attached'[h]] # "unborn"
    <3>1. attached' = [attached EXCEPT ![g] = p]
      BY <2>2 DEF AttachTo
    <3>2. QED
      BY <1>0, <2>1, <2>2, <3>1
  <2>3. CASE Envd
    <3>1. ASSUME NEW g \in Handles, NEW p \in Procs, Spawn(g, p)
          PROVE  exit'[attached'[h]] # "unborn"
      BY <1>0, <2>2, <3>1 DEF Spawn
    <3>2. ASSUME NEW g \in Handles, Join(g) PROVE exit'[attached'[h]] # "unborn"
      BY <1>0, <2>2, <3>2 DEF Join, envdVars
    <3>3. QED
      BY <2>1, <2>3, <3>1, <3>2 DEF Envd, JoinRefused, SendKeepalive, EndStream, Break,
                Write, Exit, Signal, streamVars
  <2>4. CASE Client
    BY <2>1, <2>4 DEF Client, Start, StartFails, Cancel, Connect, Run, Wait, Kill, Read,
                Open, Expire, WaitDone, WaitExpired, KillReply, KillFails, ReadReturns,
                streamVars
  <2>5. ASSUME NEW g \in Handles, Consume(g) \/ CallbackReturns(g)
        PROVE  exit'[attached'[h]] # "unborn"
    BY <2>1, <2>5 DEF Consume, CallbackReturns, Receive, RecvStart, RecvData, RecvEnd,
                RecvKeepalive, Unlock, CallBack, StreamOver, CloseStream, CloseDone,
                streamVars
  <2>6. CASE UNCHANGED vars
    BY <2>1, <2>6 DEF vars, streamVars
  <2>7. QED
    BY <2>3, <2>4, <2>5, <2>6 DEF Next
<1>3. ASSUME NEW h \in Handles, NEW i \in 1..Len(wire'[h]), wire'[h][i].type = "start"
      PROVE  exit'[wire'[h][i].pid] # "unborn"
  <2>1. CASE \E j \in 1..Len(wire[h]) : wire'[h][i] = wire[h][j]
    <3>1. PICK j \in 1..Len(wire[h]) : wire'[h][i] = wire[h][j]
      BY <2>1
    <3>2. wire[h][j] \in EventType
      BY <1>0
    <3>3. wire[h][j].pid \in Procs /\ exit[wire[h][j].pid] # "unborn"
      BY <1>3, <3>1, <3>2 DEF PidInv, EventType
    <3>4. QED
      BY <1>1, <3>1, <3>3
  <2>2. CASE attached'[h] \in Procs /\ exit'[attached'[h]] = "running"
             /\ wire'[h][i] = StartEvent(attached'[h])
    BY <2>2 DEF StartEvent, Event
  <2>3. QED
    BY <1>3, <2>1, <2>2, NewEvents
<1>4. ASSUME NEW h \in Handles, pid'[h] # NoPid PROVE exit'[pid'[h]] # "unborn"
  <2>1. CASE pid'[h] = pid[h]
    BY <1>0, <1>1, <1>4, <2>1 DEF PidInv
  <2>2. ASSUME NEW g \in Handles, NEW p \in Procs, exit[p] # "unborn",
               pid' = [pid EXCEPT ![g] = p]
        PROVE  exit'[pid'[h]] # "unborn"
    BY <1>0, <1>1, <2>1, <2>2
  <2>3. CASE Envd
    BY <2>1, <2>3 DEF Envd, Spawn, Join, JoinRefused, SendKeepalive, EndStream, Break,
                Write, Exit, Signal, handleVars
  <2>4. CASE Client
    <3>1. pid' = pid \/ \E g \in Handles, p \in Procs : Connect(g, p)
      BY <2>4 DEF Client, Start, StartFails, Cancel, Run, Wait, Kill, Read, Open,
                Expire, WaitDone, WaitExpired, KillReply, KillFails, ReadReturns,
                handleVars
    <3>2. QED
      BY <2>1, <2>2, <3>1 DEF Connect
  <2>5. ASSUME NEW g \in Handles, Consume(g) \/ CallbackReturns(g)
        PROVE  exit'[pid'[h]] # "unborn"
    <3>1. CASE RecvStart(g)
      <4>1. Head(wire[g]) = wire[g][1] /\ wire[g][1] \in EventType
            /\ 1 \in 1..Len(wire[g]) /\ wire[g][1].type = "start"
        BY <1>0, <3>1 DEF RecvStart, Receive
      <4>2. wire[g][1].pid \in Procs /\ exit[wire[g][1].pid] # "unborn"
        BY <4>1 DEF EventType, PidInv
      <4>3. QED
        BY <2>2, <3>1, <4>1, <4>2 DEF RecvStart
    <3>2. CASE pid' = pid
      BY <2>1, <3>2
    <3>3. QED
      BY <2>5, <3>1, <3>2 DEF Consume, CallbackReturns, RecvData, RecvEnd,
                RecvKeepalive, Unlock, CallBack, StreamOver, CloseStream, CloseDone
  <2>6. CASE UNCHANGED vars
    BY <2>1, <2>6 DEF vars, handleVars
  <2>7. QED
    BY <2>3, <2>4, <2>5, <2>6 DEF Next
<1> DEFINE Aimed(c) == call'[c].target # NoPid =>
                         /\ exit'[call'[c].target] # "unborn"
                         /\ call'[c].st = "delivered" => call'[c].target \in signalled'
                         /\ call'[c].st = "not found" => exit'[call'[c].target] # "running"
<1>5. ASSUME NEW c \in Calls PROVE Aimed(c)
  <2>1. signalled \subseteq signalled'
    BY DEF Next, vars, envdVars, Envd, Spawn, Join, JoinRefused, SendKeepalive,
           EndStream, Break, Write, Exit, Signal, Client, Start, StartFails, Cancel,
           Connect, Run, Wait, Kill, Read, Expire, WaitDone, WaitExpired, KillReply,
           KillFails, ReadReturns, Consume, CallbackReturns, Receive, RecvStart,
           RecvData, RecvEnd, RecvKeepalive, Unlock, CallBack, StreamOver,
           CloseStream, CloseDone
  <2>2. CASE call'[c].target = call[c].target /\ call'[c].st \in {call[c].st, "back"}
    BY <1>0, <1>1, <2>1, <2>2 DEF PidInv
  <2>3. ASSUME NEW d \in Calls, NEW ret, call' = Returned(d, ret) PROVE Aimed(c)
    <3>1. call'[c].target = call[c].target /\ call'[c].st \in {call[c].st, "back"}
      BY <1>0, <2>3 DEF Returned, CallType
    <3>2. QED
      BY <2>2, <3>1
  <2>4. CASE Envd
    <3>1. ASSUME NEW d \in Calls, Signal(d) PROVE Aimed(c)
      <4>1. CASE c # d
        BY <1>0, <2>2, <3>1, <4>1 DEF Signal
      <4>2. CASE c = d
        <5>1. call[c].target = NoPid \/ (call[c].target \in Procs /\ exit[call[c].target] # "unborn")
          BY <1>0 DEF PidInv
        <5>2. call'[c].target = call[c].target /\ call[c] \in CallType
          BY <1>0, <3>1, <4>2 DEF Signal, CallType
        <5>3. \/ call'[c].st = "delivered" /\ call[c].target \in signalled'
              \/ call'[c].st = "not found" /\ (call[c].target = NoPid \/ exit[call[c].target] # "running")
          <6>1. \A st : [call[c] EXCEPT !.st = st].st = st
            BY <5>2 DEF CallType
          <6>2. CASE call[c].target # NoPid /\ exit[call[c].target] = "running"
            <7>1. signalled' = signalled \cup {call[c].target}
              BY <3>1, <4>2, <6>2 DEF Signal
            <7>2. call' = [call EXCEPT ![c] = [call[c] EXCEPT !.st = "delivered"]]
              BY <3>1, <4>2, <6>2 DEF Signal
            <7>3. QED
              BY <1>0, <6>1, <7>1, <7>2
          <6>3. CASE ~(call[c].target # NoPid /\ exit[call[c].target] = "running")
            <7>1. call' = [call EXCEPT ![c] = [call[c] EXCEPT !.st = "not found"]]
              BY <3>1, <4>2, <6>3 DEF Signal
            <7>2. QED
              BY <1>0, <6>1, <6>3, <7>1
          <6>4. QED
            BY <6>2, <6>3
        <5>4. exit' = exit
          BY <3>1 DEF Signal
        <5>5. QED
          BY <5>1, <5>2, <5>3, <5>4
      <4>3. QED
        BY <4>1, <4>2
    <3>2. QED
      BY <2>2, <2>4, <3>1 DEF Envd, Spawn, Join, JoinRefused, SendKeepalive, EndStream,
                Break, Write, Exit
  <2>5. ASSUME NEW d \in Calls, NEW h \in Handles, NEW op, NEW st \in {"blocked", "sent"},
               NEW target \in {NoPid, pid[h]}, Made(d, op, h, st, target)
        PROVE  Aimed(c)
    <3>1. CASE c # d
      BY <1>0, <2>2, <2>5, <3>1 DEF Made
    <3>2. CASE c = d
      <4>0. call'[c] = [op |-> op, h |-> h, st |-> st, expired |-> FALSE,
                        target |-> target, ret |-> "none"]
        BY <1>0, <2>5, <3>2 DEF Made
      <4>1. call'[c].target = target /\ call'[c].st = st
        BY <4>0
      <4>2. target = NoPid \/ (target \in Procs /\ exit[target] # "unborn")
        <5>1. pid[h] = NoPid \/ (pid[h] \in Procs /\ exit[pid[h]] # "unborn")
          BY <1>0 DEF PidInv
        <5>2. QED
          BY <2>5, <5>1
      <4>3. QED
        BY <1>1, <2>5, <4>1, <4>2
    <3>3. QED
      BY <3>1, <3>2
  <2>6. CASE Client
    <3>1. ASSUME NEW d \in Calls, NEW h \in Handles,
                 Run(d, h) \/ Wait(d, h) \/ Kill(d, h) \/ Read(d, h)
          PROVE  Aimed(c)
      BY <2>5, <3>1 DEF Run, Wait, Kill, Read
    <3>2. ASSUME NEW d \in Calls, Expire(d) PROVE Aimed(c)
      <4>1. call'[c].target = call[c].target /\ call'[c].st = call[c].st
        BY <1>0, <3>2 DEF Expire, CallType
      <4>2. QED
        BY <2>2, <4>1
    <3>3. ASSUME NEW d \in Calls,
                 WaitDone(d) \/ WaitExpired(d) \/ KillReply(d) \/ KillFails(d) \/ ReadReturns(d)
          PROVE  Aimed(c)
      BY <2>3, <3>3 DEF WaitDone, WaitExpired, KillReply, KillFails, ReadReturns
    <3>4. QED
      BY <2>2, <2>6, <3>1, <3>2, <3>3 DEF Client, Start, StartFails, Cancel, Connect
  <2>7. ASSUME NEW g \in Handles, Consume(g) \/ CallbackReturns(g) PROVE Aimed(c)
    BY <2>2, <2>7 DEF Consume, CallbackReturns, Receive, RecvStart, RecvData, RecvEnd,
                RecvKeepalive, Unlock, CallBack, StreamOver, CloseStream, CloseDone
  <2>8. CASE UNCHANGED vars
    BY <2>2, <2>8 DEF vars
  <2>9. QED
    BY <2>4, <2>6, <2>7, <2>8 DEF Next
<1>6. QED
  BY <1>2, <1>3, <1>4, <1>5 DEF PidInv

LEMMA PidsAreProcesses == Spec => []PidInv
<1>1. Init => PidInv
  <2> SUFFICES ASSUME Init PROVE PidInv
    OBVIOUS
  <2>1. \A h \in Handles : pid[h] = NoPid /\ attached[h] = NoPid /\ wire[h] = <<>>
    BY DEF Init
  <2>2. 1..Len(<<>>) = {}
    OBVIOUS
  <2>3. \A c \in Calls : call[c].target = NoPid
    BY DEF Init, NoCall
  <2>4. QED
    BY <2>1, <2>2, <2>3 DEF PidInv
<1>2. QED
  BY <1>1, StepPid, TypeCorrect, PTL DEF Spec

LEMMA StepKill == TypeOK /\ PidInv /\ KillHonest /\ [Next]_vars => KillHonest'
<1> SUFFICES ASSUME TypeOK, PidInv, KillHonest, [Next]_vars, NEW c \in Calls,
                    call'[c].op = "kill", call'[c].target # NoPid
             PROVE  /\ call'[c].ret = "true"  => call'[c].target \in signalled'
                    /\ call'[c].ret = "false" => exit'[call'[c].target] # "running"
  BY DEF KillHonest
<1> DEFINE Honest == /\ call'[c].ret = "true"  => call'[c].target \in signalled'
                     /\ call'[c].ret = "false" => exit'[call'[c].target] # "running"
<1>0. /\ call \in [Calls -> CallType]
      /\ exit \in [Procs -> {"unborn", "running"} \cup Codes]
      /\ call[c].target \in Procs \cup {NoPid}
      /\ call[c].target # NoPid => exit[call[c].target] # "unborn"
  <2>1. /\ call \in [Calls -> CallType]
        /\ exit \in [Procs -> {"unborn", "running"} \cup Codes]
    BY DEF TypeOK
  <2>2. call[c].target \in Procs \cup {NoPid}
    BY <2>1 DEF CallType
  <2>3. QED
    BY <2>1, <2>2 DEF PidInv
<1>1. \A p \in Procs : exit[p] \in Codes => exit'[p] = exit[p]
  BY ExitIsFinal
<1>2. signalled \subseteq signalled'
  BY DEF Next, vars, envdVars, Envd, Spawn, Join, JoinRefused, SendKeepalive,
         EndStream, Break, Write, Exit, Signal, Client, Start, StartFails, Cancel,
         Connect, Run, Wait, Kill, Read, Expire, WaitDone, WaitExpired, KillReply,
         KillFails, ReadReturns, Consume, CallbackReturns, Receive, RecvStart,
         RecvData, RecvEnd, RecvKeepalive, Unlock, CallBack, StreamOver,
         CloseStream, CloseDone
<1>3. CASE call'[c].target = call[c].target /\ call'[c].op = call[c].op
           /\ call'[c].ret = call[c].ret
  BY <1>0, <1>1, <1>2, <1>3 DEF KillHonest
<1>4. ASSUME NEW d \in Calls, NEW ret, call' = Returned(d, ret),
             d = c => \/ ret \notin {"true", "false"}
                      \/ ret = "true" /\ call[c].st = "delivered"
                      \/ ret = "false" /\ call[c].st = "not found"
      PROVE  Honest
  <2>1. CASE c # d
    <3>1. call'[c] = call[c]
      BY <1>0, <1>4, <2>1 DEF Returned
    <3>2. QED
      BY <1>3, <3>1
  <2>2. CASE c = d
    <3>1. call'[c].target = call[c].target /\ call'[c].ret = ret
      BY <1>0, <1>4, <2>2 DEF Returned, CallType
    <3>2. /\ call[c].st = "delivered" => call[c].target \in signalled
          /\ call[c].st = "not found" => exit[call[c].target] # "running"
      BY <3>1 DEF PidInv
    <3>3. QED
      BY <1>0, <1>1, <1>2, <1>4, <2>2, <3>1, <3>2
  <2>3. QED
    BY <2>1, <2>2
<1>5. ASSUME NEW d \in Calls, NEW h \in Handles, NEW op, NEW st, NEW target,
             Made(d, op, h, st, target)
      PROVE  Honest
  <2>1. CASE c # d
    <3>1. call'[c] = call[c]
      BY <1>0, <1>5, <2>1 DEF Made
    <3>2. QED
      BY <1>3, <3>1
  <2>2. CASE c = d
    <3>1. call'[c] = [op |-> op, h |-> h, st |-> st, expired |-> FALSE,
                      target |-> target, ret |-> "none"]
      BY <1>0, <1>5, <2>2 DEF Made
    <3>2. call'[c].ret = "none"
      BY <3>1
    <3>3. QED
      BY <3>2
  <2>3. QED
    BY <2>1, <2>2
<1>6. CASE Envd
  <2>1. ASSUME NEW d \in Calls, Signal(d) PROVE Honest
    <3>1. PICK st \in {"delivered", "not found"} : call' = [call EXCEPT ![d].st = st]
      BY <2>1 DEF Signal
    <3>2. call'[c].target = call[c].target /\ call'[c].op = call[c].op
          /\ call'[c].ret = call[c].ret
      BY <1>0, <3>1 DEF CallType
    <3>3. QED
      BY <1>3, <3>2
  <2>2. QED
    BY <1>3, <1>6, <2>1 DEF Envd, Spawn, Join, JoinRefused, SendKeepalive, EndStream,
              Break, Write, Exit
<1>7. CASE Client
  <2>1. ASSUME NEW d \in Calls, NEW h \in Handles,
               Run(d, h) \/ Wait(d, h) \/ Kill(d, h) \/ Read(d, h)
        PROVE  Honest
    BY <1>5, <2>1 DEF Run, Wait, Kill, Read
  <2>2. ASSUME NEW d \in Calls, Expire(d) PROVE Honest
    <3>1. call'[c].target = call[c].target /\ call'[c].op = call[c].op
          /\ call'[c].ret = call[c].ret
      BY <1>0, <2>2 DEF Expire, CallType
    <3>2. QED
      BY <1>3, <3>1
  <2>3. ASSUME NEW d \in Calls, WaitDone(d) PROVE Honest
    <3>1. Outcome(call[d].h, call[d].op) \notin {"true", "false"}
      BY DEF Outcome
    <3>2. QED
      BY <1>4, <2>3, <3>1 DEF WaitDone
  <2>4. ASSUME NEW d \in Calls, WaitExpired(d) \/ KillFails(d) \/ ReadReturns(d)
        PROVE  Honest
    BY <1>4, <2>4 DEF WaitExpired, KillFails, ReadReturns
  <2>5. ASSUME NEW d \in Calls, KillReply(d) PROVE Honest
    <3>1. CASE call[d].st = "delivered"
      BY <1>4, <2>5, <3>1 DEF KillReply
    <3>2. CASE call[d].st = "not found"
      BY <1>4, <2>5, <3>2 DEF KillReply
    <3>3. QED
      BY <2>5, <3>1, <3>2 DEF KillReply
  <2>6. QED
    BY <1>3, <1>7, <2>1, <2>2, <2>3, <2>4, <2>5 DEF Client, Start, StartFails, Cancel,
              Connect
<1>8. ASSUME NEW g \in Handles, Consume(g) \/ CallbackReturns(g) PROVE Honest
  BY <1>3, <1>8 DEF Consume, CallbackReturns, Receive, RecvStart, RecvData, RecvEnd,
              RecvKeepalive, Unlock, CallBack, StreamOver, CloseStream, CloseDone
<1>9. CASE UNCHANGED vars
  BY <1>3, <1>9 DEF vars
<1>10. QED
  BY <1>6, <1>7, <1>8, <1>9 DEF Next

\* A Kill that names a PID never mistakes a running process for a dead one, nor
\* an undelivered signal for a delivered one.
THEOREM KillTellsTheTruth == Spec => []KillHonest
<1>1. Init => KillHonest
  BY DEF Init, KillHonest, NoCall
<1>2. QED
  BY <1>1, StepKill, TypeCorrect, PidsAreProcesses, PTL DEF Spec

-----------------------------------------------------------------------------
(* What the caller of a command sees.                                       *)

HIDE DEF Sources, Codes

Writes == [Sources -> Seq(Nat)]

\* Indices past a mark.
LEMMA Interval ==
  ASSUME NEW a \in Nat, NEW n \in Nat, NEW v \in Nat, n <= v, NEW m \in a + 1 .. n
  PROVE  m \in 1..n /\ m - 1 \in 0..n /\ m \in a + 1 .. v
OBVIOUS

LEMMA Element == ASSUME NEW u \in Seq(Nat), NEW i \in 1..Len(u) PROVE u[i] \in Nat
OBVIOUS

\* A cut wire still continues the buffers; it promises nothing about the rest.
LEMMA CutFollows ==
  ASSUME NEW w \in Writes, NEW x, NEW b \in [Sources -> Nat], NEW f \in Writes,
         NEW q \in Seq(EventType), NEW open \in BOOLEAN, Follows(w, x, b, f, q, open),
         NEW k \in 0..Len(q)
  PROVE  Follows(w, x, b, f, SubSeq(q, 1, k), FALSE)
<1> DEFINE c == SubSeq(q, 1, k)
<1>1. c \in Seq(EventType) /\ Len(c) = k /\ k <= Len(q) /\ \A i \in 1..k : c[i] = q[i]
  OBVIOUS
<1> HIDE DEF c
<1>2. ASSUME NEW s \in Sources, NEW m \in Int, NEW n \in 0..k,
             Covered(w, b, f, q, s, m, n)
      PROVE  Covered(w, b, f, c, s, m, n)
  BY <1>1, <1>2 DEF Covered
<1>3. BufferMatches(w, b, f)
  BY DEF Follows
<1>4. DataMatches(w, b, f, c)
  <2> SUFFICES ASSUME NEW i \in 1..Len(c), NEW s \in Sources,
                      c[i].type = "data", c[i].src = s
               PROVE  \E m \in b[s] + Len(f[s]) + 1 .. Len(w[s]) :
                        c[i].chunk = w[s][m] /\ Covered(w, b, f, c, s, m - 1, i - 1)
    BY DEF DataMatches
  <2>1. i \in 1..Len(q) /\ q[i] = c[i] /\ i - 1 \in 0..k
    BY <1>1
  <2>2. PICK m \in b[s] + Len(f[s]) + 1 .. Len(w[s]) :
          q[i].chunk = w[s][m] /\ Covered(w, b, f, q, s, m - 1, i - 1)
    BY <2>1 DEF Follows, DataMatches
  <2>3. m - 1 \in Int
    BY DEF Writes
  <2>4. QED
    BY <1>2, <2>1, <2>2, <2>3
<1>5. DataOrdered(c)
  BY <1>1 DEF Follows, DataOrdered
<1>6. EndMatches(w, x, b, f, c)
  <2> SUFFICES ASSUME NEW i \in 1..Len(c), c[i].type = "end"
               PROVE  /\ x \in Codes /\ c[i].code = x
                      /\ \A s \in Sources : Covered(w, b, f, c, s, Len(w[s]), i - 1)
    BY DEF EndMatches
  <2>1. i \in 1..Len(q) /\ q[i] = c[i] /\ i - 1 \in 0..k
    BY <1>1
  <2>2. \A s \in Sources : Len(w[s]) \in Int
    BY DEF Writes
  <2>3. /\ x \in Codes /\ q[i].code = x
        /\ \A s \in Sources : Covered(w, b, f, q, s, Len(w[s]), i - 1)
    BY <2>1 DEF Follows, EndMatches
  <2>4. QED
    BY <1>2, <2>1, <2>2, <2>3
<1>7. QED
  BY <1>3, <1>4, <1>5, <1>6 DEF Follows, c

\* A stream that is not open any more promises less.
LEMMA ClosedFollows ==
  ASSUME NEW w, NEW x, NEW b, NEW f, NEW q, NEW open, Follows(w, x, b, f, q, open)
  PROVE  Follows(w, x, b, f, q, FALSE)
BY DEF Follows

\* An event without data that is pushed at the end disturbs nothing, provided
\* an end event tells the exit status and comes when all the output is covered.
LEMMA PushFollows ==
  ASSUME NEW w \in Writes, NEW x, NEW y, NEW b \in [Sources -> Nat], NEW f \in Writes,
         NEW q \in Seq(EventType), Follows(w, x, b, f, q, TRUE),
         x = y \/ x \notin Codes,
         NEW e \in EventType, e.type # "data",
         e.type = "end" => y \in Codes /\ e.code = y
  PROVE  Follows(w, y, b, f, Append(q, e), TRUE)
<1> DEFINE c == Append(q, e)
           n == Len(q)
<1>1. /\ c \in Seq(EventType) /\ n \in Nat /\ Len(c) = n + 1
      /\ \A i \in 1..n : c[i] = q[i]
      /\ c[n + 1] = e
  OBVIOUS
<1> HIDE DEF c, n
<1>2. ASSUME NEW s \in Sources, NEW m \in Int, NEW k \in 0..n,
             Covered(w, b, f, q, s, m, k), NEW l \in {k, k + 1}
      PROVE  Covered(w, b, f, c, s, m, l)
  BY <1>1, <1>2 DEF Covered
<1>3. BufferMatches(w, b, f)
  BY DEF Follows
<1>4. \A s \in Sources : Len(w[s]) \in Int
  BY DEF Writes
<1>5. \A s \in Sources : Covered(w, b, f, q, s, Len(w[s]), n)
  BY DEF Follows, OpenMatches, n
<1>6. DataMatches(w, b, f, c)
  <2> SUFFICES ASSUME NEW i \in 1..Len(c), NEW s \in Sources,
                      c[i].type = "data", c[i].src = s
               PROVE  \E m \in b[s] + Len(f[s]) + 1 .. Len(w[s]) :
                        c[i].chunk = w[s][m] /\ Covered(w, b, f, c, s, m - 1, i - 1)
    BY DEF DataMatches
  <2>1. i \in 1..n /\ q[i] = c[i] /\ i - 1 \in 0..n
    BY <1>1
  <2>2. PICK m \in b[s] + Len(f[s]) + 1 .. Len(w[s]) :
          q[i].chunk = w[s][m] /\ Covered(w, b, f, q, s, m - 1, i - 1)
    BY <2>1 DEF Follows, DataMatches, n
  <2>3. m - 1 \in Int
    BY <1>4
  <2>4. QED
    BY <1>2, <2>1, <2>2, <2>3
<1>7. DataOrdered(c)
  BY <1>1 DEF Follows, DataOrdered, n
<1>8. EndMatches(w, y, b, f, c)
  <2> SUFFICES ASSUME NEW i \in 1..Len(c), c[i].type = "end"
               PROVE  /\ y \in Codes /\ c[i].code = y
                      /\ \A s \in Sources : Covered(w, b, f, c, s, Len(w[s]), i - 1)
    BY DEF EndMatches
  <2>1. CASE i \in 1..n
    <3>1. q[i] = c[i] /\ i - 1 \in 0..n /\ i \in 1..Len(q)
      BY <1>1, <2>1 DEF n
    <3>2. /\ x \in Codes /\ q[i].code = x
          /\ \A s \in Sources : Covered(w, b, f, q, s, Len(w[s]), i - 1)
      BY <3>1 DEF Follows, EndMatches
    <3>3. QED
      BY <1>2, <1>4, <3>1, <3>2
  <2>2. CASE i = n + 1
    <3>1. c[i] = e /\ i - 1 = n /\ n \in 0..n
      BY <1>1, <2>2
    <3>2. QED
      BY <1>2, <1>4, <1>5, <3>1
  <2>3. QED
    BY <1>1, <2>1, <2>2
<1>9. OpenMatches(w, b, f, c)
  <2>1. n \in 0..n /\ Len(c) = n + 1
    BY <1>1
  <2>2. QED
    BY <1>2, <1>4, <1>5, <2>1 DEF OpenMatches
<1>10. QED
  BY <1>3, <1>6, <1>7, <1>8, <1>9 DEF Follows, c

\* A running process writes a chunk the stream does not get to see.
LEMMA GrowFollows ==
  ASSUME NEW w \in Writes, NEW x, x \notin Codes, NEW b \in [Sources -> Nat],
         NEW f \in Writes, NEW q \in Seq(EventType), Follows(w, x, b, f, q, FALSE),
         NEW t \in Sources, NEW n \in Nat
  PROVE  Follows([w EXCEPT ![t] = Append(@, n)], x, b, f, q, FALSE)
<1> DEFINE v == [w EXCEPT ![t] = Append(@, n)]
<1>1. /\ v \in Writes
      /\ \A s \in Sources : /\ Len(w[s]) \in Nat /\ Len(v[s]) \in Nat
                            /\ Len(w[s]) <= Len(v[s])
                            /\ \A r \in 1..Len(w[s]) : v[s][r] = w[s][r]
  BY DEF Writes
<1> HIDE DEF v
<1>2. ASSUME NEW s \in Sources, NEW m \in 0..Len(w[s]), NEW k,
             Covered(w, b, f, q, s, m, k)
      PROVE  Covered(v, b, f, q, s, m, k)
  <2>1. b[s] + Len(f[s]) \in Nat
    BY DEF Writes
  <2>2. \A r \in b[s] + Len(f[s]) + 1 .. m : v[s][r] = w[s][r]
    BY <1>1, <2>1
  <2>3. QED
    BY <1>2, <2>2 DEF Covered
<1>3. BufferMatches(v, b, f)
  <2>1. ASSUME NEW s \in Sources
        PROVE  /\ b[s] + Len(f[s]) <= Len(v[s])
               /\ \A k \in 1..Len(f[s]) : f[s][k] = v[s][b[s] + k]
    <3>1. /\ b[s] + Len(f[s]) <= Len(w[s])
          /\ \A k \in 1..Len(f[s]) : f[s][k] = w[s][b[s] + k]
      BY DEF Follows, BufferMatches
    <3>2. b[s] \in Nat /\ Len(f[s]) \in Nat
      BY DEF Writes
    <3>3. /\ Len(w[s]) \in Nat /\ Len(v[s]) \in Nat /\ Len(w[s]) <= Len(v[s])
          /\ \A r \in 1..Len(w[s]) : v[s][r] = w[s][r]
      BY <1>1
    <3>4. \A k \in 1..Len(f[s]) : b[s] + k \in 1..Len(w[s])
      BY <3>1, <3>2, <3>3
    <3>5. b[s] + Len(f[s]) <= Len(v[s])
      BY <3>1, <3>2, <3>3
    <3>6. QED
      BY <3>1, <3>3, <3>4, <3>5
  <2>2. QED
    BY <2>1 DEF BufferMatches
<1>4. DataMatches(v, b, f, q)
  <2> SUFFICES ASSUME NEW i \in 1..Len(q), NEW s \in Sources,
                      q[i].type = "data", q[i].src = s
               PROVE  \E m \in b[s] + Len(f[s]) + 1 .. Len(v[s]) :
                        q[i].chunk = v[s][m] /\ Covered(v, b, f, q, s, m - 1, i - 1)
    BY DEF DataMatches
  <2>1. PICK m \in b[s] + Len(f[s]) + 1 .. Len(w[s]) :
          q[i].chunk = w[s][m] /\ Covered(w, b, f, q, s, m - 1, i - 1)
    BY DEF Follows, DataMatches
  <2>2. b[s] + Len(f[s]) \in Nat
    BY DEF Writes
  <2>3. m \in 1..Len(w[s]) /\ m - 1 \in 0..Len(w[s]) /\ m \in b[s] + Len(f[s]) + 1 .. Len(v[s])
    <3>1. Len(w[s]) \in Nat /\ Len(v[s]) \in Nat /\ Len(w[s]) <= Len(v[s])
      BY <1>1
    <3>2. m \in b[s] + Len(f[s]) + 1 .. Len(w[s])
      BY <2>1
    <3>3. QED
      BY <2>2, <3>1, <3>2, Interval
  <2>4. QED
    BY <1>1, <1>2, <2>1, <2>3
<1>5. EndMatches(v, x, b, f, q)
  BY DEF Follows, EndMatches
<1>6. QED
  BY <1>3, <1>4, <1>5 DEF Follows, v

\* A running process exits and the stream does not get to see it.
LEMMA ExitFollows ==
  ASSUME NEW w, NEW x, x \notin Codes, NEW y, NEW b, NEW f, NEW q,
         Follows(w, x, b, f, q, FALSE)
  PROVE  Follows(w, y, b, f, q, FALSE)
BY DEF Follows, EndMatches

\* A running process writes a chunk and envd pushes it.
LEMMA WriteFollows ==
  ASSUME NEW w \in Writes, NEW x, x \notin Codes, NEW b \in [Sources -> Nat],
         NEW f \in Writes, NEW q \in Seq(EventType), Follows(w, x, b, f, q, TRUE),
         WritesOrdered(w), NEW t \in Sources, NEW n \in Nat,
         Len(w["stdout"]) + Len(w["stderr"]) < n
  PROVE  Follows([w EXCEPT ![t] = Append(@, n)], x, b, f,
                 Append(q, DataEvent(t, n)), TRUE)
<1> DEFINE v == [w EXCEPT ![t] = Append(@, n)]
           e == DataEvent(t, n)
           c == Append(q, e)
           z == Len(q)
<1>1. /\ v \in Writes
      /\ \A s \in Sources : /\ Len(w[s]) \in Nat /\ Len(v[s]) \in Nat
                            /\ \A r \in 1..Len(w[s]) : v[s][r] = w[s][r]
                            /\ s # t => v[s] = w[s]
      /\ Len(v[t]) = Len(w[t]) + 1 /\ v[t][Len(w[t]) + 1] = n
  BY DEF Writes
<1>2. /\ e \in EventType /\ e.type = "data" /\ e.src = t /\ e.chunk = n
  BY EventTypes DEF DataEvent, Event
<1>3. /\ c \in Seq(EventType) /\ z \in Nat /\ Len(c) = z + 1
      /\ \A i \in 1..z : c[i] = q[i]
      /\ c[z + 1] = e
  BY <1>2
<1> HIDE DEF v, e, c, z
<1>4. Follows(v, x, b, f, q, FALSE)
  <2>1. Follows(w, x, b, f, q, FALSE)
    BY DEF Follows
  <2>2. QED
    BY <2>1, GrowFollows DEF v
<1>5. \A s \in Sources : b[s] + Len(f[s]) \in Nat /\ b[s] + Len(f[s]) <= Len(w[s])
  BY DEF Follows, BufferMatches, Writes
<1>6. ASSUME NEW s \in Sources, NEW m \in Int, NEW k \in 0..z,
             Covered(v, b, f, q, s, m, k), NEW l \in {k, k + 1}
      PROVE  Covered(v, b, f, c, s, m, l)
  BY <1>3, <1>6 DEF Covered
<1>7. ASSUME NEW s \in Sources PROVE Covered(v, b, f, q, s, Len(w[s]), z)
  <2>1. Covered(w, b, f, q, s, Len(w[s]), z)
    BY DEF Follows, OpenMatches, z
  <2>2. \A r \in b[s] + Len(f[s]) + 1 .. Len(w[s]) : v[s][r] = w[s][r]
    BY <1>1, <1>5
  <2>3. QED
    BY <2>1, <2>2 DEF Covered
<1>8. DataMatches(v, b, f, c)
  <2> SUFFICES ASSUME NEW i \in 1..Len(c), NEW s \in Sources,
                      c[i].type = "data", c[i].src = s
               PROVE  \E m \in b[s] + Len(f[s]) + 1 .. Len(v[s]) :
                        c[i].chunk = v[s][m] /\ Covered(v, b, f, c, s, m - 1, i - 1)
    BY DEF DataMatches
  <2>1. CASE i \in 1..z
    <3>1. q[i] = c[i] /\ i - 1 \in 0..z /\ i \in 1..Len(q)
      BY <1>3, <2>1 DEF z
    <3>2. PICK m \in b[s] + Len(f[s]) + 1 .. Len(v[s]) :
            q[i].chunk = v[s][m] /\ Covered(v, b, f, q, s, m - 1, i - 1)
      BY <1>4, <3>1 DEF Follows, DataMatches
    <3>3. m - 1 \in Int
      BY <1>1, <1>5
    <3>4. QED
      BY <1>6, <3>1, <3>2, <3>3
  <2>2. CASE i = z + 1
    <3>1. s = t /\ c[i].chunk = v[t][Len(w[t]) + 1] /\ i - 1 = z
      BY <1>1, <1>2, <1>3, <2>2
    <3>2. Len(w[t]) + 1 \in b[t] + Len(f[t]) + 1 .. Len(v[t]) /\ Len(w[t]) \in Int
          /\ (Len(w[t]) + 1) - 1 = Len(w[t])
      <4>1. Len(w[t]) \in Nat /\ Len(v[t]) = Len(w[t]) + 1
        BY <1>1
      <4>2. b[t] + Len(f[t]) \in Nat /\ b[t] + Len(f[t]) <= Len(w[t])
        BY <1>5
      <4>3. QED
        BY <4>1, <4>2
    <3>3. Covered(v, b, f, c, t, Len(w[t]), z)
      BY <1>3, <1>6, <1>7, <3>2
    <3>4. QED
      BY <3>1, <3>2, <3>3
  <2>3. QED
    BY <1>3, <2>1, <2>2
<1>9. DataOrdered(c)
  <2>1. ASSUME NEW i \in 1..z, q[i].type = "data", q[i].src = t PROVE q[i].chunk < n
    <3>1. i \in 1..Len(q)
      BY <2>1 DEF z
    <3>2. PICK m \in b[t] + Len(f[t]) + 1 .. Len(w[t]) : q[i].chunk = w[t][m]
      BY <2>1, <3>1 DEF Follows, DataMatches
    <3>3. m \in 1..Len(w[t])
      BY <1>1, <1>5
    <3>4. w[t][m] <= Len(w["stdout"]) + Len(w["stderr"])
      BY <3>3 DEF WritesOrdered
    <3>5. w[t] \in Seq(Nat) /\ w[t][m] \in Nat
      BY <3>3 DEF Writes
    <3>6. Len(w["stdout"]) \in Nat /\ Len(w["stderr"]) \in Nat
      BY <1>1
    <3>7. w[t][m] < n
      <4>1. ASSUME NEW k \in Nat, NEW y \in Nat, NEW d \in Nat, k <= y + d, y + d < n
            PROVE  k < n
        BY <4>1
      <4>2. QED
        BY <3>4, <3>5, <3>6, <4>1
    <3>8. QED
      BY <3>2, <3>7
  <2>2. ASSUME NEW i \in 1..Len(c), NEW j \in 1..Len(c), i < j, c[i].type = "data",
               c[j].type = "data", c[i].src = c[j].src
        PROVE  c[i].chunk < c[j].chunk
    <3>1. i \in 1..z /\ c[i] = q[i]
      BY <1>3, <2>2
    <3>2. CASE j \in 1..z
      BY <1>3, <2>2, <3>1, <3>2 DEF Follows, DataOrdered, z
    <3>3. CASE j = z + 1
      BY <1>2, <1>3, <2>1, <2>2, <3>1, <3>3
    <3>4. QED
      BY <1>3, <3>2, <3>3
  <2>3. QED
    BY <2>2 DEF DataOrdered
<1>10. EndMatches(v, x, b, f, c)
  <2>1. ASSUME NEW i \in 1..Len(c), c[i].type = "end" PROVE FALSE
    <3>1. i \in 1..z /\ q[i] = c[i]
      BY <1>2, <1>3, <2>1
    <3>2. QED
      BY <2>1, <3>1 DEF Follows, EndMatches, z
  <2>2. QED
    BY <2>1 DEF EndMatches
<1>11. OpenMatches(v, b, f, c)
  <2>1. ASSUME NEW s \in Sources PROVE Covered(v, b, f, c, s, Len(v[s]), z + 1)
    <3>1. Covered(v, b, f, c, s, Len(w[s]), z + 1)
      BY <1>1, <1>3, <1>6, <1>7
    <3>2. CASE s # t
      BY <1>1, <3>1, <3>2
    <3>3. CASE s = t
      <4>1. Carries(c[z + 1], t, v[t][Len(w[t]) + 1]) /\ z + 1 \in 1..z + 1
        BY <1>1, <1>2, <1>3 DEF Carries
      <4>2. \A r \in b[t] + Len(f[t]) + 1 .. Len(v[t]) :
              r \in b[t] + Len(f[t]) + 1 .. Len(w[t]) \/ r = Len(w[t]) + 1
        BY <1>1, <1>5
      <4>3. QED
        BY <3>1, <3>3, <4>1, <4>2 DEF Covered
    <3>4. QED
      BY <3>2, <3>3
  <2>2. QED
    BY <1>3, <2>1 DEF OpenMatches
<1>12. QED
  BY <1>4, <1>8, <1>9, <1>10, <1>11 DEF Follows, v, e, c

\* The first event leaves the wire for the buffers g.  Two things make the rest
\* follow g: what was covered still is, by the remaining events, and the chunks
\* in flight lie past the end of g.
LEMMA PopFollows ==
  ASSUME NEW w \in Writes, NEW x, NEW b \in [Sources -> Nat], NEW f \in Writes,
         NEW g \in Writes, NEW q \in Seq(EventType), NEW open \in BOOLEAN,
         q # <<>>, Follows(w, x, b, f, q, open), BufferMatches(w, b, g),
         \A s \in Sources : \A m \in 0..Len(w[s]), n \in 1..Len(q) :
           Covered(w, b, f, q, s, m, n) => Covered(w, b, g, Tail(q), s, m, n - 1),
         \A s \in Sources, i \in 2..Len(q) : q[i].type = "data" /\ q[i].src = s =>
           \A m \in b[s] + Len(f[s]) + 1 .. Len(w[s]) : q[i].chunk = w[s][m] =>
             m \in b[s] + Len(g[s]) + 1 .. Len(w[s])
  PROVE  Follows(w, x, b, g, Tail(q), open)
<1> DEFINE c == Tail(q)
           n == Len(q)
<1>1. /\ n \in Nat /\ n >= 1 /\ c \in Seq(EventType) /\ Len(c) = n - 1
      /\ \A i \in 1..Len(c) : /\ c[i] = q[i + 1]
                              /\ i + 1 \in 2..n /\ i + 1 \in 1..n
                              /\ i \in 1..n /\ (i + 1) - 1 = i
  OBVIOUS
<1>2. ASSUME NEW s \in Sources, NEW m \in 0..Len(w[s]), NEW k \in 1..n,
             Covered(w, b, f, q, s, m, k)
      PROVE  Covered(w, b, g, c, s, m, k - 1)
  BY <1>2
<1> HIDE DEF c, n
<1>3. \A s \in Sources : /\ Len(w[s]) \in 0..Len(w[s]) /\ Len(w[s]) \in Nat
                        /\ b[s] + Len(f[s]) \in Nat
  BY DEF Writes
<1>4. DataMatches(w, b, g, c)
  <2> SUFFICES ASSUME NEW i \in 1..Len(c), NEW s \in Sources,
                      c[i].type = "data", c[i].src = s
               PROVE  \E m \in b[s] + Len(g[s]) + 1 .. Len(w[s]) :
                        c[i].chunk = w[s][m] /\ Covered(w, b, g, c, s, m - 1, i - 1)
    BY DEF DataMatches
  <2> DEFINE k == i + 1
  <2>0. k \in 2..Len(q) /\ k \in 1..Len(q) /\ k - 1 = i /\ q[k] = c[i]
    BY <1>1 DEF n
  <2> HIDE DEF k
  <2>1. PICK m \in b[s] + Len(f[s]) + 1 .. Len(w[s]) :
          q[k].chunk = w[s][m] /\ Covered(w, b, f, q, s, m - 1, k - 1)
    BY <2>0 DEF Follows, DataMatches
  <2>2. m \in b[s] + Len(g[s]) + 1 .. Len(w[s])
    BY <2>0, <2>1
  <2>3. m - 1 \in 0..Len(w[s])
    BY <1>3, Interval
  <2>4. QED
    BY <1>1, <1>2, <2>0, <2>1, <2>2, <2>3
<1>5. DataOrdered(c)
  <2>1. ASSUME NEW i \in 1..Len(c), NEW j \in 1..Len(c), i < j, c[i].type = "data",
               c[j].type = "data", c[i].src = c[j].src
        PROVE  c[i].chunk < c[j].chunk
    <3>1. i + 1 \in 1..Len(q) /\ j + 1 \in 1..Len(q) /\ i + 1 < j + 1
      BY <1>1, <2>1 DEF n
    <3>2. q[i + 1] = c[i] /\ q[j + 1] = c[j]
      BY <1>1
    <3>3. QED
      BY <2>1, <3>1, <3>2 DEF Follows, DataOrdered
  <2>2. QED
    BY <2>1 DEF DataOrdered
<1>6. EndMatches(w, x, b, g, c)
  <2> SUFFICES ASSUME NEW i \in 1..Len(c), c[i].type = "end"
               PROVE  /\ x \in Codes /\ c[i].code = x
                      /\ \A s \in Sources : Covered(w, b, g, c, s, Len(w[s]), i - 1)
    BY DEF EndMatches
  <2>1. /\ x \in Codes /\ q[i + 1].code = x
        /\ \A s \in Sources : Covered(w, b, f, q, s, Len(w[s]), i)
    BY <1>1 DEF Follows, EndMatches, n
  <2>2. QED
    BY <1>1, <1>2, <1>3, <2>1
<1>7. open => OpenMatches(w, b, g, c)
  <2>1. n \in 1..n /\ Len(c) = n - 1
    BY <1>1
  <2>2. open => \A s \in Sources : Covered(w, b, f, q, s, Len(w[s]), n)
    BY DEF Follows, OpenMatches, n
  <2>3. QED
    BY <1>2, <1>3, <2>1, <2>2 DEF OpenMatches
<1>8. QED
  BY <1>4, <1>5, <1>6, <1>7 DEF Follows, c

\* An event without data is received.
LEMMA SkipFollows ==
  ASSUME NEW w \in Writes, NEW x, NEW b \in [Sources -> Nat], NEW f \in Writes,
         NEW q \in Seq(EventType), NEW open \in BOOLEAN,
         q # <<>>, Follows(w, x, b, f, q, open), Head(q).type # "data"
  PROVE  Follows(w, x, b, f, Tail(q), open)
<1>1. ASSUME NEW s \in Sources, NEW m \in 0..Len(w[s]), NEW n \in 1..Len(q),
             Covered(w, b, f, q, s, m, n)
      PROVE  Covered(w, b, f, Tail(q), s, m, n - 1)
  <2> SUFFICES ASSUME NEW r \in b[s] + Len(f[s]) + 1 .. m
               PROVE  \E j \in 1..n - 1 : Carries(Tail(q)[j], s, w[s][r])
    BY DEF Covered
  <2>1. PICK j \in 1..n : Carries(q[j], s, w[s][r])
    BY <1>1 DEF Covered
  <2>2. j # 1
    BY <2>1 DEF Carries
  <2>3. j - 1 \in 1..n - 1 /\ Tail(q)[j - 1] = q[j]
    BY <2>2
  <2>4. QED
    BY <2>1, <2>3
<1>2. BufferMatches(w, b, f)
  BY DEF Follows
<1>3. QED
  BY <1>1, <1>2, PopFollows

\* A chunk is received: it is the one the buffers lack.
LEMMA TakeFollows ==
  ASSUME NEW w \in Writes, NEW x, NEW b \in [Sources -> Nat], NEW f \in Writes,
         NEW q \in Seq(EventType), NEW open \in BOOLEAN, WritesOrdered(w),
         q # <<>>, Follows(w, x, b, f, q, open), Head(q).type = "data"
  PROVE  Follows(w, x, b, [f EXCEPT ![Head(q).src] = Append(@, Head(q).chunk)],
                 Tail(q), open)
<1> DEFINE t == Head(q).src
           z == b[t] + Len(f[t])
           g == [f EXCEPT ![t] = Append(@, Head(q).chunk)]
<1>1. Head(q) \in EventType /\ Head(q) = q[1] /\ 1 \in 1..Len(q)
  OBVIOUS
<1>2. t \in Sources /\ q[1].chunk \in Nat /\ q[1].src = t /\ q[1].type = "data"
  BY <1>1 DEF EventType
<1>3. /\ g \in Writes
      /\ \A s \in Sources : /\ Len(f[s]) \in Nat /\ Len(g[s]) \in Nat /\ Len(w[s]) \in Nat
                            /\ s # t => g[s] = f[s]
                            /\ \A k \in 1..Len(f[s]) : g[s][k] = f[s][k]
      /\ Len(g[t]) = Len(f[t]) + 1 /\ g[t][Len(f[t]) + 1] = q[1].chunk
  BY <1>1, <1>2 DEF Writes
<1> HIDE DEF t, g
<1>4. z \in Nat /\ b[t] \in Nat /\ z = b[t] + Len(f[t])
  BY <1>2, <1>3
<1> HIDE DEF z
<1>5. z + 1 \in 1..Len(w[t]) /\ q[1].chunk = w[t][z + 1]
  <2>1. PICK m \in z + 1 .. Len(w[t]) :
          q[1].chunk = w[t][m] /\ Covered(w, b, f, q, t, m - 1, 1 - 1)
    BY <1>1, <1>2 DEF Follows, DataMatches, z
  <2>2. m = z + 1
    <3>1. ~ \E r \in z + 1 .. m - 1 : TRUE
      BY <2>1 DEF Covered, z
    <3>2. m \in Int /\ z + 1 <= m
      BY <1>2, <1>3, <1>4, <2>1
    <3>3. QED
      BY <1>4, <3>1, <3>2
  <2>3. QED
    BY <1>2, <1>3, <1>4, <2>1, <2>2
<1>6. BufferMatches(w, b, g)
  <2>1. ASSUME NEW s \in Sources
        PROVE  /\ b[s] + Len(g[s]) <= Len(w[s])
               /\ \A k \in 1..Len(g[s]) : g[s][k] = w[s][b[s] + k]
    <3>1. /\ b[s] + Len(f[s]) <= Len(w[s])
          /\ \A k \in 1..Len(f[s]) : f[s][k] = w[s][b[s] + k]
      BY DEF Follows, BufferMatches
    <3>2. CASE s # t
      BY <1>3, <3>1, <3>2
    <3>3. CASE s = t
      <4>1. \A k \in 1..Len(g[t]) : k \in 1..Len(f[t]) \/ k = Len(f[t]) + 1
        BY <1>2, <1>3
      <4>2. b[t] + (Len(f[t]) + 1) = z + 1 /\ b[t] + Len(g[t]) = z + 1
        BY <1>2, <1>3, <1>4
      <4>3. b[t] + Len(g[t]) <= Len(w[t])
        BY <1>4, <1>5, <4>2
      <4>4. QED
        BY <1>3, <1>5, <3>1, <3>3, <4>1, <4>2, <4>3
    <3>4. QED
      BY <3>2, <3>3
  <2>2. QED
    BY <2>1 DEF BufferMatches
<1>7. ASSUME NEW s \in Sources, NEW m \in 0..Len(w[s]), NEW n \in 1..Len(q),
             Covered(w, b, f, q, s, m, n)
      PROVE  Covered(w, b, g, Tail(q), s, m, n - 1)
  <2> SUFFICES ASSUME NEW r \in b[s] + Len(g[s]) + 1 .. m
               PROVE  \E j \in 1..n - 1 : Carries(Tail(q)[j], s, w[s][r])
    BY DEF Covered
  <2>1. r \in b[s] + Len(f[s]) + 1 .. m /\ (s = t => r \in z + 2 .. Len(w[t]))
    <3>1. b[s] \in Nat /\ Len(f[s]) \in Nat /\ Len(g[s]) \in Nat /\ Len(w[s]) \in Nat
      BY <1>3
    <3>2. CASE s # t
      BY <1>3, <3>2
    <3>3. CASE s = t
      <4>1. Len(g[s]) = Len(f[s]) + 1
        BY <1>3, <3>3
      <4>2. /\ r \in Int /\ m \in Int /\ Len(w[s]) \in Int
            /\ b[s] + Len(f[s]) + 2 <= r /\ r <= m /\ m <= Len(w[s])
        BY <3>1, <4>1
      <4>3. r \in b[s] + Len(f[s]) + 1 .. m
        BY <3>1, <4>2
      <4>4. z + 2 <= r /\ r <= Len(w[t])
        BY <1>4, <3>3, <4>2
      <4>5. r \in z + 2 .. Len(w[t])
        BY <1>4, <3>3, <4>2, <4>4
      <4>6. QED
        BY <4>3, <4>5
    <3>4. QED
      BY <3>2, <3>3
  <2>2. PICK j \in 1..n : Carries(q[j], s, w[s][r])
    BY <1>7, <2>1 DEF Covered
  <2>3. j # 1
    <3>1. CASE s # t
      BY <1>2, <2>2, <3>1 DEF Carries
    <3>2. CASE s = t
      <4>1. z + 1 < r /\ r \in 1..Len(w[t])
        <5>1. r \in z + 2 .. Len(w[t])
          BY <2>1, <3>2
        <5>2. z \in Nat /\ Len(w[t]) \in Nat
          BY <1>3, <1>4
        <5> HIDE DEF z
        <5>3. QED
          BY <5>1, <5>2
      <4>2. w[t][z + 1] < w[t][r]
        BY <1>2, <1>5, <4>1 DEF WritesOrdered
      <4>3. w[t] \in Seq(Nat) /\ w[t][z + 1] \in Nat /\ w[t][r] \in Nat
        <5>1. w[t] \in Seq(Nat)
          BY <1>2 DEF Writes
        <5>2. QED
          BY <1>5, <4>1, <5>1, Element
      <4>4. q[1].chunk # w[t][r]
        BY <1>5, <4>2, <4>3
      <4>5. QED
        BY <2>2, <3>2, <4>4 DEF Carries
    <3>3. QED
      BY <3>1, <3>2
  <2>4. j - 1 \in 1..n - 1 /\ Tail(q)[j - 1] = q[j]
    BY <2>3
  <2>5. QED
    BY <2>2, <2>4
<1>8. ASSUME NEW s \in Sources, NEW i \in 2..Len(q), q[i].type = "data", q[i].src = s,
             NEW m \in b[s] + Len(f[s]) + 1 .. Len(w[s]), q[i].chunk = w[s][m]
      PROVE  m \in b[s] + Len(g[s]) + 1 .. Len(w[s])
  <2>1. CASE s # t
    BY <1>3, <2>1
  <2>2. CASE s = t
    <3>1. q[1].chunk < q[i].chunk
      BY <1>1, <1>2, <1>8, <2>2 DEF Follows, DataOrdered
    <3>2. m # z + 1
      BY <1>2, <1>5, <1>8, <2>2, <3>1
    <3>3. b[t] + Len(g[t]) + 1 = z + 1 + 1 /\ m \in z + 1 .. Len(w[t])
      BY <1>2, <1>3, <1>4, <2>2
    <3>4. Len(w[t]) \in Nat
      BY <1>2, <1>3
    <3>5. m \in z + 2 .. Len(w[t])
      BY <1>4, <3>2, <3>3, <3>4
    <3>6. z + 2 = b[t] + Len(g[t]) + 1
      BY <1>4, <3>3
    <3>7. QED
      BY <2>2, <3>5, <3>6
  <2>3. QED
    BY <2>1, <2>2
<1>9. QED
  <2>0. /\ \A s \in Sources : \A m \in 0..Len(w[s]), n \in 1..Len(q) :
             Covered(w, b, f, q, s, m, n) => Covered(w, b, g, Tail(q), s, m, n - 1)
        /\ \A s \in Sources, i \in 2..Len(q) : q[i].type = "data" /\ q[i].src = s =>
             \A m \in b[s] + Len(f[s]) + 1 .. Len(w[s]) : q[i].chunk = w[s][m] =>
               m \in b[s] + Len(g[s]) + 1 .. Len(w[s])
    BY <1>7, <1>8
  <2>1. Follows(w, x, b, g, Tail(q), open)
    <3>1. g \in Writes
      BY <1>3
    <3>2. QED
      BY <1>6, <2>0, <3>1, PopFollows, Zenon
  <2>2. QED
    BY <2>1 DEF g, t

LEMMA Suffix ==
  ASSUME NEW v \in Seq(Nat), NEW k \in 0..Len(v)
  PROVE  /\ SubSeq(v, k + 1, Len(v)) \in Seq(Nat)
         /\ Len(SubSeq(v, k + 1, Len(v))) = Len(v) - k
         /\ \A i \in 1..Len(v) - k : SubSeq(v, k + 1, Len(v))[i] = v[k + i]
<1> DEFINE m == k + 1
           n == Len(v)
<1>1. m \in Int /\ n \in Int /\ n - m + 1 = n - k
  OBVIOUS
<1>2. \A i \in m..n : v[i] \in Nat
  OBVIOUS
<1>3. m <= n \/ n - m + 1 = 0
  OBVIOUS
<1>4. \A i \in 1..n - k : m + i - 1 = k + i
  OBVIOUS
<1> HIDE DEF m, n
<1>5. /\ SubSeq(v, m, n) \in Seq(Nat)
      /\ Len(SubSeq(v, m, n)) = IF m <= n THEN n - m + 1 ELSE 0
      /\ \A i \in 1 .. n - m + 1 : SubSeq(v, m, n)[i] = v[m + i - 1]
  BY <1>1, <1>2, SubSeqProperties
<1>6. Len(SubSeq(v, m, n)) = n - k
  BY <1>1, <1>3, <1>5
<1>7. \A i \in 1..n - k : SubSeq(v, m, n)[i] = v[k + i]
  BY <1>1, <1>4, <1>5
<1>8. QED
  BY <1>5, <1>6, <1>7 DEF m, n

\* The end event e tells the exit x and the buffers hold all of the output.
Completed(w, x, b, f, e) ==
  /\ x \in Codes /\ e.code = x
  /\ \A s \in Sources : f[s] = SubSeq(w[s], b[s] + 1, Len(w[s]))

\* An end event is received: the exit is known and the buffers are complete.
LEMMA EndCompletes ==
  ASSUME NEW w \in Writes, NEW x, NEW b \in [Sources -> Nat], NEW f \in Writes,
         NEW q \in Seq(EventType),
         q # <<>>, Follows(w, x, b, f, q, FALSE), Head(q).type = "end"
  PROVE  Completed(w, x, b, f, Head(q))
<1>1. 1 \in 1..Len(q) /\ q[1] = Head(q)
  OBVIOUS
<1>2. /\ x \in Codes /\ Head(q).code = x
      /\ \A s \in Sources : Covered(w, b, f, q, s, Len(w[s]), 1 - 1)
  BY <1>1 DEF Follows, EndMatches
<1>3. ASSUME NEW s \in Sources PROVE f[s] = SubSeq(w[s], b[s] + 1, Len(w[s]))
  <2>1. w[s] \in Seq(Nat) /\ f[s] \in Seq(Nat) /\ b[s] \in Nat
    BY DEF Writes
  <2>2. Len(w[s]) \in Nat /\ Len(f[s]) \in Nat
    BY <2>1
  <2>3. /\ b[s] + Len(f[s]) <= Len(w[s])
        /\ \A k \in 1..Len(f[s]) : f[s][k] = w[s][b[s] + k]
    BY DEF Follows, BufferMatches
  <2>4. ~ \E r \in b[s] + Len(f[s]) + 1 .. Len(w[s]) : TRUE
    BY <1>2 DEF Covered
  <2>5. Len(w[s]) = b[s] + Len(f[s])
    <3>1. ASSUME NEW c \in Nat, NEW n \in Nat, c <= n, n # c PROVE n \in c + 1 .. n
      BY <3>1
    <3>2. b[s] + Len(f[s]) \in Nat
      BY <2>1, <2>2
    <3>3. Len(w[s]) # b[s] + Len(f[s]) => Len(w[s]) \in b[s] + Len(f[s]) + 1 .. Len(w[s])
      BY <2>2, <2>3, <3>1, <3>2
    <3>4. QED
      BY <2>4, <3>3
  <2> DEFINE u == SubSeq(w[s], b[s] + 1, Len(w[s]))
  <2>6. u \in Seq(Nat) /\ Len(u) = Len(f[s]) /\ \A k \in 1..Len(u) : u[k] = w[s][b[s] + k]
    <3>1. b[s] \in 0..Len(w[s]) /\ Len(w[s]) - b[s] = Len(f[s])
      <4>1. ASSUME NEW y \in Nat, NEW c \in Nat, NEW d \in Nat, y = c + d
            PROVE  c \in 0..y /\ y - c = d
        BY <4>1
      <4>2. QED
        BY <2>1, <2>2, <2>5, <4>1
    <3>2. QED
      BY <2>1, <3>1, Suffix
  <2> HIDE DEF u
  <2>7. f[s] = u
    BY <2>1, <2>3, <2>6, SeqEqual
  <2>8. QED
    BY <2>7 DEF u
<1>4. QED
  BY <1>2, <1>3 DEF Completed

\* A handle attaches: nothing is buffered, nothing is owed.
LEMMA AttachFollows ==
  ASSUME NEW w \in Writes, NEW x, NEW q \in Seq(EventType), NEW open,
         \A i \in 1..Len(q) : q[i].type \notin {"data", "end"}
  PROVE  Follows(w, x, [s \in Sources |-> Len(w[s])], Silent, q, open)
<1> DEFINE b == [s \in Sources |-> Len(w[s])]
<1>1. \A s \in Sources : /\ Silent[s] = <<>> /\ Len(Silent[s]) = 0
                         /\ b[s] = Len(w[s]) /\ Len(w[s]) \in Nat
  BY DEF Silent, Writes
<1> HIDE DEF b
<1>2. BufferMatches(w, b, Silent)
  BY <1>1 DEF BufferMatches
<1>3. \A s \in Sources : \A n : Covered(w, b, Silent, q, s, Len(w[s]), n)
  BY <1>1 DEF Covered
<1>4. QED
  BY <1>2, <1>3 DEF Follows, DataMatches, DataOrdered, EndMatches, OpenMatches, b

\* The next chunk of a process is numbered past all others.
LEMMA AppendOrdered ==
  ASSUME NEW w \in Writes, WritesOrdered(w), NEW t \in Sources
  PROVE  WritesOrdered([w EXCEPT ![t] = Append(@, Len(w["stdout"]) + Len(w["stderr"]) + 1)])
<1> DEFINE o == Len(w["stdout"])
           e == Len(w["stderr"])
           n == o + e
           v == [w EXCEPT ![t] = Append(@, n + 1)]
<1>1. /\ \A s \in Sources : w[s] \in Seq(Nat) /\ Len(w[s]) \in Nat
      /\ o \in Nat /\ e \in Nat
  BY DEF Writes, Sources
<1>0. o = Len(w["stdout"]) /\ e = Len(w["stderr"])
  OBVIOUS
<1>9. /\ \A s \in Sources : \A i \in 1..Len(w[s]) : w[s][i] <= n
      /\ \A s \in Sources : \A i, j \in 1..Len(w[s]) : i < j => w[s][i] < w[s][j]
  BY DEF WritesOrdered
<1> HIDE DEF o, e
<1>2. n \in Nat /\ n + 1 \in Nat
  BY <1>1
<1> HIDE DEF n
<1>3. /\ v[t] = Append(w[t], n + 1) /\ \A s \in Sources : s # t => v[s] = w[s]
      /\ Len(v[t]) = Len(w[t]) + 1 /\ v[t][Len(w[t]) + 1] = n + 1
      /\ \A i \in 1..Len(w[t]) : v[t][i] = w[t][i]
  BY <1>1, <1>2 DEF Writes
<1>4. Len(v["stdout"]) + Len(v["stderr"]) = n + 1
  <2>1. CASE t = "stdout"
    <3>1. Len(v["stdout"]) = o + 1 /\ Len(v["stderr"]) = e
      BY <1>0, <1>3, <2>1 DEF Sources
    <3>2. (o + 1) + e = (o + e) + 1
      BY <1>1
    <3>3. QED
      BY <3>1, <3>2, Zenon DEF n
  <2>2. CASE t = "stderr"
    <3>1. Len(v["stderr"]) = e + 1 /\ Len(v["stdout"]) = o
      BY <1>0, <1>3, <2>2 DEF Sources
    <3>2. o + (e + 1) = (o + e) + 1
      BY <1>1
    <3>3. QED
      BY <3>1, <3>2, Zenon DEF n
  <2>3. QED
    BY <2>1, <2>2 DEF Sources
<1>5. \A s \in Sources : /\ \A i \in 1..Len(w[s]) : w[s][i] \in Nat /\ w[s][i] <= n
                         /\ \A i, j \in 1..Len(w[s]) : i < j => w[s][i] < w[s][j]
  BY <1>1, <1>9, Element
<1> HIDE DEF v
<1>6. ASSUME NEW s \in Sources
      PROVE  /\ \A i \in 1..Len(v[s]) : v[s][i] <= n + 1
             /\ \A i, j \in 1..Len(v[s]) : i < j => v[s][i] < v[s][j]
  <2>1. CASE s # t
    BY <1>2, <1>3, <1>5, <2>1
  <2>2. CASE s = t
    <3>1. \A i \in 1..Len(v[t]) : i \in 1..Len(w[t]) \/ i = Len(w[t]) + 1
      BY <1>1, <1>3
    <3>2. \A i \in 1..Len(w[t]) : v[t][i] \in Nat /\ v[t][i] < n + 1
      BY <1>2, <1>3, <1>5
    <3>3. \A i \in 1..Len(v[t]) : v[t][i] <= n + 1
      BY <1>2, <1>3, <3>1, <3>2
    <3>4. ASSUME NEW i \in 1..Len(v[t]), NEW j \in 1..Len(v[t]), i < j
          PROVE  v[t][i] < v[t][j]
      <4>1. i \in 1..Len(w[t])
        BY <1>1, <1>3, <3>4
      <4>2. CASE j \in 1..Len(w[t])
        BY <1>3, <1>5, <3>4, <4>1, <4>2
      <4>3. CASE j = Len(w[t]) + 1
        BY <1>3, <3>2, <4>1, <4>3
      <4>4. QED
        BY <3>1, <4>2, <4>3
    <3>5. QED
      BY <2>2, <3>3, <3>4
  <2>3. QED
    BY <2>1, <2>2
<1>7. WritesOrdered(v)
  BY <1>4, <1>6 DEF WritesOrdered
<1>8. QED
  BY <1>7 DEF v, n, o, e

-----------------------------------------------------------------------------
(* The steps of CommandStream.                                             *)

\* What StreamInv says of one handle.
Truthful(h) ==
  result[h] # NoResult =>
    /\ attached[h] \in Procs /\ exit[attached[h]] \in Codes
    /\ result[h].code = exit[attached[h]]
    /\ result[h].out = Since(attached[h], base[h])

Following(h) ==
  attached[h] \in Procs =>
    Follows(written[attached[h]], exit[attached[h]], base[h], buf[h], wire[h],
            tail[h] = "open")

HandleInv(h) == Unattached(h) /\ Following(h) /\ Truthful(h)

LEMMA StreamInvByHandle ==
  StreamInv <=> /\ \A p \in Procs : WritesOrdered(written[p])
                /\ \A h \in Handles : HandleInv(h)
BY DEF StreamInv, HandleInv, Following, Truthful, ResultTruthful

LEMMA NextStreamInv ==
  ASSUME \A p \in Procs : WritesOrdered(written'[p]), \A h \in Handles : HandleInv(h)'
  PROVE  StreamInv'
BY DEF StreamInv, HandleInv, Following, Truthful, ResultTruthful

\* What is true of a stream that is open is true of any.
LEMMA OpenFollows ==
  ASSUME NEW w, NEW x, NEW b, NEW f, NEW q, NEW open, Follows(w, x, b, f, q, TRUE)
  PROVE  Follows(w, x, b, f, q, open)
BY DEF Follows

LEMMA StreamTypes ==
  ASSUME TypeOK
  PROVE  /\ written  \in [Procs -> Writes]
         /\ exit     \in [Procs -> {"unborn", "running"} \cup Codes]
         /\ arrived  \in [Handles -> BOOLEAN]
         /\ attached \in [Handles -> Procs \cup {NoPid}]
         /\ base     \in [Handles -> [Sources -> Nat]]
         /\ wire     \in [Handles -> Seq(EventType)]
         /\ tail     \in [Handles -> {"open", "eof", "error", "closed"}]
         /\ buf      \in [Handles -> Writes]
         /\ result   \in [Handles -> [code : Codes \cup {"running"}, out : Writes]]
         /\ pid      \in [Handles -> Procs \cup {NoPid}]
         /\ \A h \in Handles : how[h] = "connect" => pid[h] \in Procs
BY DEF TypeOK, Writes

\* A step that leaves the stream and the handle alone, but perhaps ends the
\* stream, and lets the process be.
LEMMA Unmoved ==
  ASSUME NEW h \in Handles, HandleInv(h),
         arrived[h] => arrived'[h], attached'[h] = attached[h], base'[h] = base[h],
         wire'[h] = wire[h], buf'[h] = buf[h], result'[h] = result[h],
         tail'[h] = "open" => tail[h] = "open",
         attached[h] \in Procs => /\ written'[attached[h]] = written[attached[h]]
                                  /\ exit'[attached[h]] = exit[attached[h]],
         attached[h] \in Procs \cup {NoPid}
  PROVE  HandleInv(h)'
<1>1. Unattached(h)'
  BY NoPidAssumption DEF HandleInv, Unattached
<1>2. Following(h)'
  BY DEF HandleInv, Following, Follows
<1>3. Truthful(h)'
  BY DEF HandleInv, Truthful, Since
<1>4. QED
  BY <1>1, <1>2, <1>3 DEF HandleInv

\* Nothing reaches a handle that is not attached.
LEMMA HandleAttached ==
  ASSUME TypeOK, StreamInv, NEW h \in Handles
  PROVE  /\ attached[h] # NoPid <=> attached[h] \in Procs
         /\ attached[h] \in Procs => arrived[h] /\ exit[attached[h]] # "unborn"
         /\ ~arrived[h] => attached[h] = NoPid /\ wire[h] = <<>> /\ buf[h] = Silent
                           /\ result[h] = NoResult
         /\ wire[h] # <<>> => attached[h] \in Procs
         /\ result[h] # NoResult => attached[h] \in Procs /\ exit[attached[h]] \in Codes
         /\ HandleInv(h)
<1>1. HandleInv(h)
  BY StreamInvByHandle
<1>2. attached[h] \in Procs \cup {NoPid}
  BY StreamTypes
<1>3. QED
  BY <1>1, <1>2, NoPidAssumption DEF HandleInv, Unattached, Truthful

LEMMA AttachStream ==
  ASSUME TypeOK, StreamInv, NEW h \in Handles, NEW p \in Procs, ~arrived[h],
         AttachTo(h, p), UNCHANGED <<written, tail, buf, result>>,
         exit'[p] = "running",
         \A g \in Handles : attached[g] \in Procs => exit'[attached[g]] = exit[attached[g]]
  PROVE  StreamInv'
<1>1. written' = written /\ \A q \in Procs : WritesOrdered(written[q])
  BY DEF StreamInv
<1>2. ASSUME NEW g \in Handles, g # h PROVE HandleInv(g)'
  <2>1. /\ arrived'[g] = arrived[g] /\ attached'[g] = attached[g] /\ base'[g] = base[g]
        /\ wire'[g] = wire[g]
    BY <1>2, StreamTypes DEF AttachTo
  <2>2. HandleInv(g) /\ attached[g] \in Procs \cup {NoPid}
    BY HandleAttached, StreamTypes
  <2>3. QED
    BY <2>1, <2>2, Unmoved
<1>3. HandleInv(h)'
  <2>1. attached[h] = NoPid /\ wire[h] = <<>> /\ buf[h] = Silent /\ result[h] = NoResult
    BY HandleAttached
  <2>2. /\ arrived'[h] = TRUE /\ attached'[h] = p
        /\ base'[h] = [s \in Sources |-> Len(written[p][s])]
        /\ wire'[h] = IF tail[h] = "open" THEN Append(wire[h], StartEvent(p)) ELSE wire[h]
    BY StreamTypes DEF AttachTo
  <2>3. wire'[h] = <<StartEvent(p)>> \/ wire'[h] = <<>>
    BY <2>1, <2>2
  <2>4. /\ wire'[h] \in Seq(EventType)
        /\ \A i \in 1..Len(wire'[h]) : wire'[h][i].type \notin {"data", "end"}
    <3> DEFINE e == StartEvent(p)
    <3>1. e \in EventType /\ e.type = "start"
      BY EventTypes DEF StartEvent, Event
    <3> HIDE DEF e
    <3>2. /\ <<e>> \in Seq(EventType) /\ <<>> \in Seq(EventType)
          /\ \A i \in 1..Len(<<e>>) : <<e>>[i] = e
          /\ 1..Len(<<>>) = {}
      BY <3>1
    <3>3. QED
      BY <2>3, <3>1, <3>2 DEF e
  <2>5. written[p] \in Writes
    BY StreamTypes
  <2>6. Follows(written[p], exit'[p], base'[h], Silent, wire'[h], tail'[h] = "open")
    <3>1. Follows(written[p], exit'[p], [s \in Sources |-> Len(written[p][s])], Silent,
                  wire'[h], TRUE)
      BY <2>4, <2>5, AttachFollows
    <3>2. QED
      BY <2>2, <3>1, OpenFollows
  <2>7. Following(h)'
    BY <1>1, <2>1, <2>2, <2>6 DEF Following
  <2>8. Unattached(h)'
    BY <2>2, NoPidAssumption DEF Unattached
  <2>9. Truthful(h)'
    BY <2>1 DEF Truthful
  <2>10. QED
    BY <2>7, <2>8, <2>9 DEF HandleInv
<1>4. QED
  <2>1. \A q \in Procs : WritesOrdered(written'[q])
    BY <1>1
  <2>2. \A g \in Handles : HandleInv(g)'
    BY <1>2, <1>3
  <2>3. QED
    BY <2>1, <2>2, NextStreamInv

\* A step that leaves the streams, the handles and the processes alone.
LEMMA SameStream ==
  ASSUME TypeOK, StreamInv,
         UNCHANGED <<written, exit, attached, base, wire, buf, result>>,
         \A h \in Handles : arrived[h] => arrived'[h],
         \A h \in Handles : tail'[h] = "open" => tail[h] = "open"
  PROVE  StreamInv'
<1>1. \A p \in Procs : WritesOrdered(written'[p])
  BY DEF StreamInv
<1>2. ASSUME NEW h \in Handles PROVE HandleInv(h)'
  <2>1. HandleInv(h) /\ attached[h] \in Procs \cup {NoPid}
    BY HandleAttached, StreamTypes
  <2>2. QED
    BY <2>1, Unmoved
<1>3. QED
  BY <1>1, <1>2, NextStreamInv

LEMMA WriteStream ==
  ASSUME TypeOK, StreamInv, NEW p \in Procs, NEW s \in Sources, Write(p, s)
  PROVE  StreamInv'
<1> DEFINE n == NextChunk(p)
           v == [written[p] EXCEPT ![s] = Append(@, n)]
<1>1. /\ written[p] \in Writes /\ WritesOrdered(written[p]) /\ exit[p] = "running"
      /\ Len(written[p]["stdout"]) \in Nat /\ Len(written[p]["stderr"]) \in Nat
  BY StreamTypes DEF Write, StreamInv, Writes, Sources
<1>2. n \in Nat /\ Len(written[p]["stdout"]) + Len(written[p]["stderr"]) < n
  <2>1. ASSUME NEW y \in Nat, NEW z \in Nat PROVE y + z + 1 \in Nat /\ y + z < y + z + 1
    OBVIOUS
  <2>2. QED
    BY <1>1, <2>1 DEF NextChunk
<1>3. WritesOrdered(v)
  BY <1>1, AppendOrdered DEF NextChunk
<1> HIDE DEF n
<1>4. /\ written' = [written EXCEPT ![p] = v] /\ written'[p] = v
      /\ \A q \in Procs : q # p => written'[q] = written[q]
      /\ UNCHANGED <<exit, arrived, attached, base, tail, buf, result>>
      /\ wire' = Pushed(p, DataEvent(s, n))
  BY StreamTypes DEF Write, handleVars, n
<1> HIDE DEF v
<1>5. \A q \in Procs : WritesOrdered(written'[q])
  BY <1>3, <1>4 DEF StreamInv
<1>6. ASSUME NEW h \in Handles, attached[h] # p PROVE HandleInv(h)'
  <2>1. HandleInv(h) /\ attached[h] \in Procs \cup {NoPid}
    BY HandleAttached, StreamTypes
  <2>2. wire'[h] = wire[h]
    BY <1>4, <1>6 DEF Pushed
  <2>3. QED
    BY <1>4, <1>6, <2>1, <2>2, Unmoved
<1>7. ASSUME NEW h \in Handles, attached[h] = p PROVE HandleInv(h)'
  <2>1. /\ HandleInv(h) /\ arrived[h] /\ attached'[h] = p /\ arrived'[h]
        /\ result'[h] = NoResult /\ "running" \notin Codes
    BY <1>1, <1>4, <1>7, HandleAttached DEF Codes
  <2>2. base[h] \in [Sources -> Nat] /\ buf[h] \in Writes /\ wire[h] \in Seq(EventType)
    BY StreamTypes
  <2>3. Follows(written[p], "running", base[h], buf[h], wire[h], tail[h] = "open")
    BY <1>1, <1>7, <2>1 DEF HandleInv, Following
  <2>4. Unattached(h)' /\ Truthful(h)'
    <3>1. Unattached(h)'
      BY <1>1, <1>4, <2>1, NoPidAssumption DEF Unattached
    <3>2. Truthful(h)'
      BY <2>1 DEF Truthful
    <3>3. QED
      BY <3>1, <3>2
  <2>5. CASE tail[h] = "open"
    <3>1. Follows(written[p], "running", base[h], buf[h], wire[h], TRUE)
      BY <2>3, <2>5 DEF Follows
    <3>2. Follows(v, "running", base[h], buf[h], Append(wire[h], DataEvent(s, n)), TRUE)
      BY <1>1, <1>2, <2>1, <2>2, <3>1, WriteFollows DEF v
    <3>3. wire'[h] = Append(wire[h], DataEvent(s, n))
      BY <1>4, <1>7, <2>5 DEF Pushed
    <3>4. Following(h)'
      BY <1>1, <1>4, <2>1, <2>5, <3>2, <3>3, OpenFollows DEF Following
    <3>5. QED
      BY <2>4, <3>4 DEF HandleInv
  <2>6. CASE tail[h] # "open"
    <3>1. Follows(written[p], "running", base[h], buf[h], wire[h], FALSE)
      BY <2>3, ClosedFollows
    <3>2. Follows(v, "running", base[h], buf[h], wire[h], FALSE)
      BY <1>1, <1>2, <2>1, <2>2, <3>1, GrowFollows DEF v
    <3>3. wire'[h] = wire[h]
      BY <1>4, <1>7, <2>6 DEF Pushed
    <3>4. Following(h)'
      BY <1>1, <1>4, <2>1, <2>6, <3>2, <3>3 DEF Following, Follows
    <3>5. QED
      BY <2>4, <3>4 DEF HandleInv
  <2>7. QED
    BY <2>5, <2>6
<1>8. QED
  BY <1>5, <1>6, <1>7, NextStreamInv

LEMMA ExitStream ==
  ASSUME TypeOK, StreamInv, NEW p \in Procs, NEW c \in Codes, Exit(p, c)
  PROVE  StreamInv'
<1>1. written[p] \in Writes /\ exit[p] = "running" /\ "running" \notin Codes
  BY StreamTypes DEF Exit, Codes
<1>2. /\ exit'[p] = c /\ \A q \in Procs : q # p => exit'[q] = exit[q]
      /\ UNCHANGED <<written, arrived, attached, base, tail, buf, result>>
      /\ wire' = Pushed(p, EndEvent(c))
  BY StreamTypes DEF Exit, handleVars
<1>3. \A q \in Procs : WritesOrdered(written'[q])
  BY <1>2 DEF StreamInv
<1>4. ASSUME NEW h \in Handles, attached[h] # p PROVE HandleInv(h)'
  <2>1. HandleInv(h) /\ attached[h] \in Procs \cup {NoPid}
    BY HandleAttached, StreamTypes
  <2>2. wire'[h] = wire[h]
    BY <1>2, <1>4 DEF Pushed
  <2>3. QED
    BY <1>2, <1>4, <2>1, <2>2, Unmoved
<1>5. ASSUME NEW h \in Handles, attached[h] = p PROVE HandleInv(h)'
  <2>1. /\ HandleInv(h) /\ arrived[h] /\ attached'[h] = p /\ arrived'[h]
        /\ result'[h] = NoResult
    BY <1>1, <1>2, <1>5, HandleAttached
  <2>2. base[h] \in [Sources -> Nat] /\ buf[h] \in Writes /\ wire[h] \in Seq(EventType)
    BY StreamTypes
  <2>3. Follows(written[p], "running", base[h], buf[h], wire[h], tail[h] = "open")
    BY <1>1, <1>5, <2>1 DEF HandleInv, Following
  <2>4. Unattached(h)' /\ Truthful(h)'
    <3>1. Unattached(h)'
      BY <1>2, <2>1, NoPidAssumption DEF Unattached, Codes
    <3>2. Truthful(h)'
      BY <2>1 DEF Truthful
    <3>3. QED
      BY <3>1, <3>2
  <2>5. CASE tail[h] = "open"
    <3>1. Follows(written[p], "running", base[h], buf[h], wire[h], TRUE)
      BY <2>3, <2>5 DEF Follows
    <3>2. EndEvent(c) \in EventType /\ EndEvent(c).type = "end" /\ EndEvent(c).code = c
      BY EventTypes DEF EndEvent, Event
    <3>3. Follows(written[p], c, base[h], buf[h], Append(wire[h], EndEvent(c)), TRUE)
      BY <1>1, <2>2, <3>1, <3>2, PushFollows
    <3>4. wire'[h] = Append(wire[h], EndEvent(c))
      BY <1>2, <1>5, <2>5 DEF Pushed
    <3>5. Following(h)'
      <4>1. Follows(written[p], c, base[h], buf[h], Append(wire[h], EndEvent(c)),
                    tail[h] = "open")
        BY <3>3, OpenFollows
      <4>2. Follows(written'[p], exit'[p], base'[h], buf'[h], wire'[h], tail'[h] = "open")
        BY <1>2, <3>4, <4>1
      <4>3. QED
        BY <2>1, <4>2 DEF Following
    <3>6. QED
      BY <2>4, <3>5 DEF HandleInv
  <2>6. CASE tail[h] # "open"
    <3>1. Follows(written[p], "running", base[h], buf[h], wire[h], FALSE)
      BY <2>3, ClosedFollows
    <3>2. Follows(written[p], c, base[h], buf[h], wire[h], FALSE)
      BY <1>1, <3>1, ExitFollows
    <3>3. wire'[h] = wire[h]
      BY <1>2, <1>5, <2>6 DEF Pushed
    <3>4. Following(h)'
      BY <1>2, <2>1, <2>6, <3>2, <3>3 DEF Following, Follows
    <3>5. QED
      BY <2>4, <3>4 DEF HandleInv
  <2>7. QED
    BY <2>5, <2>6
<1>6. QED
  BY <1>3, <1>4, <1>5, NextStreamInv

\* consume receives an event: only the stream and the handle it serves move.
LEMMA ReceiveStream ==
  ASSUME TypeOK, StreamInv, NEW h \in Handles, NEW type \in {"start", "data", "end", "keepalive"},
         Receive(h, type), HandleInv(h)',
         buf' = [buf EXCEPT ![h] = buf'[h]], result' = [result EXCEPT ![h] = result'[h]]
  PROVE  StreamInv'
<1>1. \A p \in Procs : WritesOrdered(written'[p])
  BY DEF StreamInv, Receive, envdVars
<1>2. ASSUME NEW g \in Handles, g # h PROVE HandleInv(g)'
  <2>1. HandleInv(g) /\ attached[g] \in Procs \cup {NoPid}
    BY HandleAttached, StreamTypes
  <2>2. wire'[g] = wire[g] /\ buf'[g] = buf[g] /\ result'[g] = result[g]
    BY <1>2, StreamTypes DEF Receive
  <2>3. UNCHANGED <<written, exit, arrived, attached, base, tail>>
    BY DEF Receive, envdVars
  <2>4. QED
    BY <2>1, <2>2, <2>3, Unmoved
<1>3. QED
  BY <1>1, <1>2, NextStreamInv

\* What is known when an event is received.
LEMMA Received ==
  ASSUME TypeOK, StreamInv, NEW h \in Handles, NEW type \in {"start", "data", "end", "keepalive"},
         Receive(h, type)
  PROVE  /\ wire[h] # <<>> /\ Head(wire[h]).type = type /\ wire'[h] = Tail(wire[h])
         /\ UNCHANGED <<written, exit, arrived, attached, base, tail>>
         /\ attached[h] \in Procs /\ arrived[h] /\ exit[attached[h]] # "unborn"
         /\ HandleInv(h)
         /\ Follows(written[attached[h]], exit[attached[h]], base[h], buf[h], wire[h],
                    tail[h] = "open")
         /\ WritesOrdered(written[attached[h]])
         /\ written[attached[h]] \in Writes /\ base[h] \in [Sources -> Nat]
         /\ buf[h] \in Writes /\ wire[h] \in Seq(EventType)
<1>1. /\ wire[h] # <<>> /\ Head(wire[h]).type = type /\ wire'[h] = Tail(wire[h])
      /\ UNCHANGED <<written, exit, arrived, attached, base, tail>>
  BY StreamTypes DEF Receive, envdVars
<1>2. /\ attached[h] \in Procs /\ arrived[h] /\ exit[attached[h]] # "unborn"
      /\ HandleInv(h)
  BY <1>1, HandleAttached
<1>3. /\ Follows(written[attached[h]], exit[attached[h]], base[h], buf[h], wire[h],
                 tail[h] = "open")
      /\ WritesOrdered(written[attached[h]])
  BY <1>2 DEF HandleInv, Following, StreamInv
<1>4. QED
  BY <1>1, <1>2, <1>3, StreamTypes

\* An event without data: start, keepalive or end.
LEMMA SkipStream ==
  ASSUME TypeOK, StreamInv, NEW h \in Handles, NEW type \in {"start", "end", "keepalive"},
         Receive(h, type), UNCHANGED buf,
         Truthful(h)', result' = [result EXCEPT ![h] = result'[h]]
  PROVE  StreamInv'
<1>1. type \in {"start", "data", "end", "keepalive"} /\ type # "data"
  OBVIOUS
<1> DEFINE p == attached[h]
<1>2. /\ wire[h] # <<>> /\ Head(wire[h]).type = type /\ wire'[h] = Tail(wire[h])
      /\ UNCHANGED <<written, exit, arrived, attached, base, tail>>
      /\ p \in Procs /\ arrived[h] /\ exit[p] # "unborn"
      /\ Follows(written[p], exit[p], base[h], buf[h], wire[h], tail[h] = "open")
      /\ written[p] \in Writes /\ base[h] \in [Sources -> Nat]
      /\ buf[h] \in Writes /\ wire[h] \in Seq(EventType)
  BY <1>1, Received
<1>3. Follows(written[p], exit[p], base[h], buf[h], Tail(wire[h]), tail[h] = "open")
  <2>1. (tail[h] = "open") \in BOOLEAN
    OBVIOUS
  <2>2. QED
    BY <1>1, <1>2, <2>1, SkipFollows
<1>4. Following(h)'
  BY <1>2, <1>3 DEF Following
<1>5. Unattached(h)'
  BY <1>2, NoPidAssumption DEF Unattached
<1>6. buf' = [buf EXCEPT ![h] = buf'[h]]
  BY StreamTypes
<1>7. HandleInv(h)'
  BY <1>4, <1>5 DEF HandleInv
<1>8. QED
  BY <1>1, <1>6, <1>7, ReceiveStream

LEMMA DataStream ==
  ASSUME TypeOK, StreamInv, NEW h \in Handles, RecvData(h)
  PROVE  StreamInv'
<1> DEFINE p == attached[h]
           e == Head(wire[h])
<1>1. Receive(h, "data") /\ UNCHANGED result
      /\ buf' = [buf EXCEPT ![h][e.src] = Append(@, e.chunk)]
  BY DEF RecvData
<1>2. /\ wire[h] # <<>> /\ e.type = "data" /\ wire'[h] = Tail(wire[h])
      /\ UNCHANGED <<written, exit, arrived, attached, base, tail>>
      /\ p \in Procs /\ arrived[h] /\ exit[p] # "unborn"
      /\ HandleInv(h)
      /\ Follows(written[p], exit[p], base[h], buf[h], wire[h], tail[h] = "open")
      /\ WritesOrdered(written[p])
      /\ written[p] \in Writes /\ base[h] \in [Sources -> Nat]
      /\ buf[h] \in Writes /\ wire[h] \in Seq(EventType)
  BY <1>1, Received
<1> DEFINE g == [buf[h] EXCEPT ![e.src] = Append(@, e.chunk)]
<1>3. buf' = [buf EXCEPT ![h] = g] /\ buf'[h] = g
  BY <1>1, StreamTypes
<1>4. Follows(written[p], exit[p], base[h], g, Tail(wire[h]), tail[h] = "open")
  <2>1. (tail[h] = "open") \in BOOLEAN
    OBVIOUS
  <2>2. QED
    BY <1>2, <2>1, TakeFollows
<1> HIDE DEF g
<1>5. Following(h)'
  BY <1>2, <1>3, <1>4 DEF Following
<1>6. Unattached(h)'
  BY <1>2, NoPidAssumption DEF Unattached
<1>7. Truthful(h)'
  BY <1>1, <1>2 DEF HandleInv, Truthful, Since
<1>8. HandleInv(h)'
  BY <1>5, <1>6, <1>7 DEF HandleInv
<1>9. QED
  BY <1>1, <1>3, <1>8, StreamTypes, ReceiveStream

LEMMA EndStreamResult ==
  ASSUME TypeOK, StreamInv, NEW h \in Handles, RecvEnd(h)
  PROVE  StreamInv'
<1> DEFINE p == attached[h]
           r == [code |-> Head(wire[h]).code, out |-> buf[h]]
<1>1. Receive(h, "end") /\ UNCHANGED buf /\ result' = [result EXCEPT ![h] = r]
  BY DEF RecvEnd
<1>2. /\ wire[h] # <<>> /\ Head(wire[h]).type = "end" /\ wire'[h] = Tail(wire[h])
      /\ UNCHANGED <<written, exit, arrived, attached, base, tail>>
      /\ p \in Procs
      /\ Follows(written[p], exit[p], base[h], buf[h], wire[h], tail[h] = "open")
      /\ written[p] \in Writes /\ base[h] \in [Sources -> Nat]
      /\ buf[h] \in Writes /\ wire[h] \in Seq(EventType)
  BY <1>1, Received
<1>3. /\ exit[p] \in Codes /\ Head(wire[h]).code = exit[p]
      /\ \A s \in Sources :
           buf[h][s] = SubSeq(written[p][s], base[h][s] + 1, Len(written[p][s]))
  <2>1. Follows(written[p], exit[p], base[h], buf[h], wire[h], FALSE)
    BY <1>2, ClosedFollows
  <2>2. /\ written[p] \in Writes /\ base[h] \in [Sources -> Nat]
        /\ buf[h] \in Writes /\ wire[h] \in Seq(EventType)
        /\ wire[h] # <<>> /\ Head(wire[h]).type = "end"
    BY <1>2
  <2>3. Completed(written[p], exit[p], base[h], buf[h], Head(wire[h]))
    BY <2>1, <2>2, EndCompletes
  <2>4. QED
    BY <2>3 DEF Completed
<1>4. result'[h] = r
  BY <1>1, StreamTypes
<1>5. buf[h] = Since(p, base[h])
  BY <1>2, <1>3 DEF Since, Writes
<1>6. Truthful(h)'
  BY <1>2, <1>3, <1>4, <1>5 DEF Truthful, Since
<1>7. QED
  BY <1>1, <1>4, <1>6, SkipStream

LEMMA KeepaliveStream ==
  ASSUME TypeOK, StreamInv, NEW h \in Handles, SendKeepalive(h)
  PROVE  StreamInv'
<1>1. /\ wire' = [wire EXCEPT ![h] = <<Keepalive>>] /\ wire'[h] = <<Keepalive>>
      /\ wire[h] = <<>> /\ tail[h] = "open" /\ attached[h] # NoPid
      /\ UNCHANGED <<written, exit, arrived, attached, base, tail, buf, result>>
  BY StreamTypes DEF SendKeepalive, envdVars, handleVars
<1>2. /\ attached[h] \in Procs /\ arrived[h] /\ exit[attached[h]] # "unborn"
      /\ HandleInv(h)
  BY <1>1, HandleAttached
<1>3. /\ written[attached[h]] \in Writes /\ base[h] \in [Sources -> Nat]
      /\ buf[h] \in Writes /\ wire[h] \in Seq(EventType)
  BY <1>2, StreamTypes
<1>4. Append(wire[h], Keepalive) = <<Keepalive>>
  BY <1>1
<1>5. Keepalive \in EventType /\ Keepalive.type = "keepalive"
  BY EventTypes DEF Keepalive, Event
<1>6. Follows(written[attached[h]], exit[attached[h]], base[h], buf[h], wire[h], TRUE)
  BY <1>1, <1>2 DEF HandleInv, Following, Follows
<1>7. Follows(written[attached[h]], exit[attached[h]], base[h], buf[h],
              Append(wire[h], Keepalive), TRUE)
  BY <1>3, <1>5, <1>6, PushFollows
<1>8. Following(h)'
  BY <1>1, <1>2, <1>4, <1>7, OpenFollows DEF Following
<1>9. Unattached(h)' /\ Truthful(h)'
  BY <1>1, <1>2, NoPidAssumption DEF HandleInv, Unattached, Truthful, Since
<1>10. ASSUME NEW g \in Handles, g # h PROVE HandleInv(g)'
  <2>1. HandleInv(g) /\ attached[g] \in Procs \cup {NoPid}
    BY HandleAttached, StreamTypes
  <2>2. wire'[g] = wire[g]
    BY <1>1, <1>10, StreamTypes
  <2>3. QED
    BY <1>1, <2>1, <2>2, Unmoved
<1>11. \A p \in Procs : WritesOrdered(written'[p])
  BY <1>1 DEF StreamInv
<1>12. HandleInv(h)'
  BY <1>8, <1>9 DEF HandleInv
<1>13. QED
  BY <1>10, <1>11, <1>12, NextStreamInv

LEMMA BreakStream ==
  ASSUME TypeOK, StreamInv, NEW h \in Handles, Break(h)
  PROVE  StreamInv'
<1>1. PICK k \in 0..Len(wire[h]) : wire' = [wire EXCEPT ![h] = SubSeq(@, 1, k)]
  BY DEF Break
<1>2. /\ wire'[h] = SubSeq(wire[h], 1, k)
      /\ tail' = [tail EXCEPT ![h] = "error"] /\ tail'[h] = "error"
      /\ UNCHANGED <<written, exit, arrived, attached, base, buf, result>>
  BY <1>1, StreamTypes DEF Break, envdVars, handleVars
<1>3. HandleInv(h) /\ (attached[h] = NoPid => wire[h] = <<>>)
  BY HandleAttached, NoPidAssumption
<1>4. Following(h)'
  <2> SUFFICES ASSUME attached[h] \in Procs
               PROVE  Follows(written[attached[h]], exit[attached[h]], base[h], buf[h],
                              SubSeq(wire[h], 1, k), FALSE)
    BY <1>2 DEF Following, Follows
  <2>1. /\ written[attached[h]] \in Writes /\ base[h] \in [Sources -> Nat]
        /\ buf[h] \in Writes /\ wire[h] \in Seq(EventType)
    BY StreamTypes
  <2>2. Follows(written[attached[h]], exit[attached[h]], base[h], buf[h], wire[h],
                tail[h] = "open")
    BY <1>3 DEF HandleInv, Following
  <2>3. (tail[h] = "open") \in BOOLEAN
    OBVIOUS
  <2>4. QED
    BY <2>1, <2>2, <2>3, CutFollows
<1>5. Unattached(h)'
  <2>1. wire[h] = <<>> => SubSeq(wire[h], 1, k) = <<>>
    BY <1>1
  <2>2. QED
    BY <1>2, <1>3, <2>1 DEF HandleInv, Unattached
<1>6. Truthful(h)'
  BY <1>2, <1>3 DEF HandleInv, Truthful, Since
<1>7. ASSUME NEW g \in Handles, g # h PROVE HandleInv(g)'
  <2>1. HandleInv(g) /\ attached[g] \in Procs \cup {NoPid}
    BY HandleAttached, StreamTypes
  <2>2. wire'[g] = wire[g] /\ tail'[g] = tail[g]
    BY <1>1, <1>2, <1>7, StreamTypes
  <2>3. QED
    BY <1>2, <2>1, <2>2, Unmoved
<1>8. \A p \in Procs : WritesOrdered(written'[p])
  BY <1>2 DEF StreamInv
<1>9. HandleInv(h)'
  BY <1>4, <1>5, <1>6 DEF HandleInv
<1>10. QED
  BY <1>7, <1>8, <1>9, NextStreamInv

LEMMA StepStream == TypeOK /\ StreamInv /\ [Next]_vars => StreamInv'
<1> SUFFICES ASSUME TypeOK, StreamInv, [Next]_vars PROVE StreamInv'
  OBVIOUS
<1>1. ASSUME NEW h \in Handles, NEW p \in Procs, Spawn(h, p) PROVE StreamInv'
  <2>1. /\ ~arrived[h] /\ AttachTo(h, p) /\ UNCHANGED <<written, tail, buf, result>>
        /\ exit' = [exit EXCEPT ![p] = "running"] /\ exit[p] = "unborn"
    BY <1>1 DEF Spawn, handleVars
  <2>2. /\ exit'[p] = "running"
        /\ \A g \in Handles : attached[g] \in Procs => exit'[attached[g]] = exit[attached[g]]
    BY <2>1, StreamTypes, HandleAttached
  <2>3. QED
    BY <2>1, <2>2, AttachStream
<1>2. ASSUME NEW h \in Handles, Join(h) PROVE StreamInv'
  <2>1. /\ ~arrived[h] /\ AttachTo(h, pid[h])
        /\ UNCHANGED <<written, exit, tail, buf, result>>
        /\ how[h] = "connect" /\ exit[pid[h]] = "running"
    BY <1>2 DEF Join, envdVars, handleVars
  <2>2. pid[h] \in Procs
    BY <2>1, StreamTypes
  <2>3. QED
    BY <2>1, <2>2, AttachStream
<1>3. CASE Envd
  <2>1. ASSUME NEW h \in Handles, JoinRefused(h) \/ EndStream(h) PROVE StreamInv'
    <3>1. UNCHANGED <<written, exit, attached, base, wire, buf, result>>
      BY <2>1 DEF JoinRefused, EndStream, envdVars, handleVars
    <3>2. /\ \A g \in Handles : arrived[g] => arrived'[g]
          /\ \A g \in Handles : tail'[g] = "open" => tail[g] = "open"
      BY <2>1, StreamTypes DEF JoinRefused, EndStream
    <3>3. QED
      BY <3>1, <3>2, SameStream
  <2>2. ASSUME NEW c \in Calls, Signal(c) PROVE StreamInv'
    <3>1. UNCHANGED <<written, exit, arrived, attached, base, wire, tail, buf, result>>
      BY <2>2 DEF Signal, streamVars, handleVars
    <3>2. QED
      BY <3>1, SameStream
  <2>3. QED
    BY <1>1, <1>2, <1>3, <2>1, <2>2, KeepaliveStream, BreakStream, WriteStream,
       ExitStream DEF Envd
<1>4. CASE Client
  <2>1. /\ UNCHANGED <<written, exit, attached, base, wire, buf, result>>
        /\ arrived' = arrived /\ tail' = tail
    BY <1>4 DEF Client, Start, Open, StartFails, Cancel, Connect, Run, Wait, Kill, Read,
                Expire, WaitDone, WaitExpired, KillReply, KillFails, ReadReturns,
                envdVars, streamVars, handleVars
  <2>2. QED
    BY <2>1, SameStream
<1>5. ASSUME NEW h \in Handles, Consume(h) \/ CallbackReturns(h) PROVE StreamInv'
  <2>1. CASE RecvStart(h) \/ RecvKeepalive(h)
    <3>1. /\ Receive(h, "start") \/ Receive(h, "keepalive")
          /\ UNCHANGED <<buf, result>>
      BY <2>1 DEF RecvStart, RecvKeepalive
    <3>2. HandleInv(h) /\ UNCHANGED <<written, exit, attached, base>>
      BY <3>1, Received
    <3>3. Truthful(h)'
      BY <3>1, <3>2 DEF HandleInv, Truthful, Since
    <3>4. result' = [result EXCEPT ![h] = result'[h]]
      BY <3>1, StreamTypes
    <3>5. QED
      BY <3>1, <3>3, <3>4, SkipStream
  <2>2. CASE RecvData(h)
    BY <2>2, DataStream
  <2>3. CASE RecvEnd(h)
    BY <2>3, EndStreamResult
  <2>4. CASE \/ Unlock(h) \/ CallBack(h) \/ CallbackReturns(h) \/ StreamOver(h)
             \/ CloseStream(h) \/ CloseDone(h)
    <3>1. UNCHANGED <<written, exit, arrived, attached, base, wire, buf, result>>
      BY <2>4 DEF Unlock, CallBack, CallbackReturns, StreamOver, CloseStream, CloseDone,
                  envdVars, streamVars
    <3>2. \A g \in Handles : tail'[g] = "open" => tail[g] = "open"
      BY <2>4, StreamTypes DEF Unlock, CallBack, CallbackReturns, StreamOver,
                               CloseStream, CloseDone, streamVars
    <3>3. QED
      BY <3>1, <3>2, SameStream
  <2>5. QED
    BY <1>5, <2>1, <2>2, <2>3, <2>4 DEF Consume
<1>6. CASE UNCHANGED vars
  <2>1. UNCHANGED <<written, exit, arrived, attached, base, wire, tail, buf, result>>
    BY <1>6 DEF vars, envdVars, streamVars, handleVars
  <2>2. QED
    BY <2>1, SameStream
<1>7. QED
  BY <1>3, <1>4, <1>5, <1>6 DEF Next

LEMMA StreamsFaithful == Spec => []StreamInv
<1>1. Init => StreamInv
  <2> SUFFICES ASSUME Init PROVE StreamInv
    OBVIOUS
  <2>1. ASSUME NEW p \in Procs PROVE WritesOrdered(written[p])
    <3>1. \A s \in Sources : written[p][s] = <<>>
      BY DEF Init, Silent
    <3>2. 1..Len(<<>>) = {}
      OBVIOUS
    <3>3. QED
      BY <3>1, <3>2 DEF WritesOrdered
  <2>2. ASSUME NEW h \in Handles PROVE HandleInv(h)
    BY NoPidAssumption DEF Init, HandleInv, Unattached, Following, Truthful
  <2>3. QED
    BY <2>1, <2>2, StreamInvByHandle
<1>2. QED
  BY <1>1, StepStream, TypeCorrect, PTL DEF Spec

\* A result carries the code the process exited with and exactly the output it
\* wrote since the handle attached, whatever is lost or cut on the way.
THEOREM ResultIsTruthful == Spec => []ResultTruthful
<1>1. StreamInv => ResultTruthful
  BY DEF StreamInv
<1>2. QED
  BY <1>1, StreamsFaithful, PTL

-----------------------------------------------------------------------------
(* The contract.                                                           *)

\* The state the contract speaks of, as CommandStream changes it.
Visible == <<written, exit, attached, base, done, err, result>>

LEMMA VerdictTypes ==
  ASSUME TypeOK
  PROVE  /\ done \in [Handles -> BOOLEAN]
         /\ err  \in [Handles -> {"none", "stream", "early"}]
BY DEF TypeOK

\* The initial states are those of the contract.
LEMMA InitContract == Init => Contract!Init
BY DEF Init, Contract!Init, Verdict, Silent, Contract!Silent, Contract!Pending,
       Sources, Contract!Sources

\* A step that changes nothing the contract can see.
LEMMA StutterContract ==
  ASSUME UNCHANGED <<written, exit, attached, base>>, Verdict' = Verdict
  PROVE  UNCHANGED Contract!vars
BY DEF Contract!vars

\* The verdict of a handle is pending until done is closed: what happens to
\* err and result before is invisible.
LEMMA HiddenVerdict ==
  ASSUME done' = done,
         \A h \in Handles : done[h] => err'[h] = err[h] /\ result'[h] = result[h]
  PROVE  Verdict' = Verdict
BY DEF Verdict

LEMMA AttachContract ==
  ASSUME TypeOK, StreamInv, NEW h \in Handles, NEW p \in Procs,
         ~arrived[h], AttachTo(h, p), exit[p] \in {"unborn", "running"},
         exit' = [exit EXCEPT ![p] = "running"],
         UNCHANGED <<written, done, err, result>>
  PROVE  Contract!Attach(h, p)
<1>1. attached[h] = NoPid
  BY HandleAttached
<1>2. Verdict' = Verdict
  BY HiddenVerdict
<1>3. QED
  BY <1>1, <1>2 DEF Contract!Attach, AttachTo, Sources, Contract!Sources

\* Closing done is the moment of truth.
LEMMA CloseContract ==
  ASSUME TypeOK, StreamInv, SettledInv, NEW h \in Handles, CloseDone(h)
  PROVE  Contract!Report(h) \/ Contract!Lose(h)
<1>1. /\ done' = [done EXCEPT ![h] = TRUE] /\ ~done[h]
      /\ UNCHANGED <<written, exit, attached, base, err, result>>
      /\ err[h] # "none" \/ result[h] # NoResult
  BY DEF CloseDone, SettledInv, envdVars, streamVars
<1>2. /\ Verdict[h] = Contract!Pending
      /\ \A g \in Handles : g # h => Verdict'[g] = Verdict[g]
  BY <1>1, VerdictTypes DEF Verdict, Contract!Pending, Silent, Contract!Silent, Sources,
        Contract!Sources
<1>3. CASE err[h] # "none"
  <2>1. Verdict'[h] = Contract!Lost
    BY <1>1, <1>3, VerdictTypes DEF Verdict, Contract!Lost, Silent, Contract!Silent,
          Sources, Contract!Sources
  <2>2. Verdict' = [Verdict EXCEPT ![h] = Contract!Lost]
    BY <1>2, <2>1 DEF Verdict
  <2>3. QED
    BY <1>1, <1>2, <2>2 DEF Contract!Lose
<1>4. CASE err[h] = "none"
  <2>1. result[h] # NoResult
    BY <1>1, <1>4
  <2>2. /\ attached[h] \in Procs /\ exit[attached[h]] \in Codes
        /\ result[h].code = exit[attached[h]]
        /\ result[h].out = Since(attached[h], base[h])
    BY <2>1, HandleAttached DEF HandleInv, Truthful
  <2> DEFINE r == [kind |-> "exited", code |-> exit[attached[h]],
                   out |-> Contract!Since(attached[h], base[h])]
  <2>3. Contract!Since(attached[h], base[h]) = Since(attached[h], base[h])
    BY DEF Since, Contract!Since, Sources, Contract!Sources
  <2>4. Verdict'[h] = r
    BY <1>1, <1>4, <2>2, <2>3, VerdictTypes DEF Verdict
  <2>5. Verdict' = [Verdict EXCEPT ![h] = r]
    BY <1>2, <2>4 DEF Verdict
  <2>6. QED
    BY <1>1, <1>2, <2>2, <2>5 DEF Contract!Report, Codes, Contract!Codes
<1>5. QED
  BY <1>3, <1>4

LEMMA StepContract ==
  TypeOK /\ StreamInv /\ SettledInv /\ [Next]_vars => [Contract!Next]_Contract!vars
<1> SUFFICES ASSUME TypeOK, StreamInv, SettledInv, [Next]_vars
             PROVE  [Contract!Next]_Contract!vars
  OBVIOUS
<1>1. ASSUME NEW h \in Handles, NEW p \in Procs, Spawn(h, p) PROVE Contract!Next
  <2>1. Contract!Attach(h, p)
    BY <1>1, AttachContract DEF Spawn, handleVars
  <2>2. QED
    BY <2>1 DEF Contract!Next
<1>2. ASSUME NEW h \in Handles, Join(h) PROVE Contract!Next
  <2>1. pid[h] \in Procs /\ exit[pid[h]] = "running" /\ exit' = exit
    BY <1>2, StreamTypes DEF Join, envdVars
  <2>2. exit' = [exit EXCEPT ![pid[h]] = "running"]
    BY <2>1, StreamTypes
  <2>3. Contract!Attach(h, pid[h])
    BY <1>2, <2>1, <2>2, AttachContract DEF Join, envdVars, handleVars
  <2>4. QED
    BY <2>1, <2>3 DEF Contract!Next
<1>3. ASSUME NEW p \in Procs, NEW s \in Sources, Write(p, s) PROVE Contract!Next
  <2>1. Verdict' = Verdict
    BY <1>3, HiddenVerdict DEF Write, handleVars
  <2>2. Contract!Write(p, s)
    BY <1>3, <2>1 DEF Write, Contract!Write, NextChunk, Contract!NextChunk
  <2>3. QED
    BY <2>2 DEF Contract!Next, Sources, Contract!Sources
<1>4. ASSUME NEW p \in Procs, NEW c \in Codes, Exit(p, c) PROVE Contract!Next
  <2>1. Verdict' = Verdict
    BY <1>4, HiddenVerdict DEF Exit, handleVars
  <2>2. Contract!Exit(p, c)
    BY <1>4, <2>1 DEF Exit, Contract!Exit
  <2>3. QED
    BY <2>2 DEF Contract!Next, Codes, Contract!Codes
<1>5. ASSUME NEW h \in Handles, CloseDone(h) PROVE Contract!Next
  BY <1>5, CloseContract DEF Contract!Next
<1>6. ASSUME UNCHANGED <<written, exit, attached, base, done>>,
             \A h \in Handles : done[h] => err'[h] = err[h] /\ result'[h] = result[h]
      PROVE  UNCHANGED Contract!vars
  BY <1>6, HiddenVerdict, StutterContract
<1>7. CASE Envd
  <2>1. ASSUME NEW h \in Handles,
               JoinRefused(h) \/ SendKeepalive(h) \/ EndStream(h) \/ Break(h)
        PROVE  UNCHANGED Contract!vars
    BY <1>6, <2>1 DEF JoinRefused, SendKeepalive, EndStream, Break, envdVars, handleVars
  <2>2. ASSUME NEW c \in Calls, Signal(c) PROVE UNCHANGED Contract!vars
    BY <1>6, <2>2 DEF Signal, streamVars, handleVars
  <2>3. QED
    BY <1>1, <1>2, <1>3, <1>4, <1>7, <2>1, <2>2 DEF Envd
<1>8. CASE Client
  <2>1. UNCHANGED Visible
    BY <1>8 DEF Client, Start, Open, StartFails, Cancel, Connect, Run, Wait, Kill, Read,
                Expire, WaitDone, WaitExpired, KillReply, KillFails, ReadReturns,
                envdVars, streamVars, handleVars, Visible
  <2>2. QED
    BY <1>6, <2>1 DEF Visible
<1>9. ASSUME NEW h \in Handles, Consume(h) \/ CallbackReturns(h), ~CloseDone(h)
      PROVE  UNCHANGED Contract!vars
  <2>1. UNCHANGED <<written, exit, attached, base, done>>
    BY <1>9 DEF Consume, CallbackReturns, Receive, RecvStart, RecvData, RecvEnd,
                RecvKeepalive, Unlock, CallBack, StreamOver, CloseStream, envdVars,
                streamVars
  <2>2. \A g \in Handles : done[g] => err'[g] = err[g] /\ result'[g] = result[g]
    BY StepFrozen DEF Frozen
  <2>3. QED
    BY <1>6, <2>1, <2>2
<1>10. CASE UNCHANGED vars
  BY <1>6, <1>10 DEF vars, envdVars, streamVars, handleVars
<1>11. QED
  BY <1>5, <1>7, <1>8, <1>9, <1>10 DEF Next

\* The streams, goroutines, locks and lost messages of CommandStream implement
\* the contract: one verdict per handle, and an honest one.
THEOREM StreamImplementsContract == Spec => ImplementsContract
<1>1. Init => Contract!Init
  BY InitContract
<1>2. TypeOK /\ StreamInv /\ SettledInv /\ [Next]_vars => [Contract!Next]_Contract!vars
  BY StepContract
<1>3. QED
  BY <1>1, <1>2, TypeCorrect, StreamsFaithful, Settled, PTL
     DEF Spec, Contract!Spec, ImplementsContract

-----------------------------------------------------------------------------
(* What Wait and Run return.                                               *)

\* A handle that is attached stays attached to its process.
LEMMA AttachedForGood ==
  ASSUME TypeOK, StreamInv, [Next]_vars, NEW h \in Handles, attached[h] \in Procs
  PROVE  attached'[h] = attached[h]
<1>0. arrived[h] /\ attached \in [Handles -> Procs \cup {NoPid}]
  BY HandleAttached, StreamTypes
<1>1. CASE Envd
  BY <1>0, <1>1 DEF Envd, Spawn, Join, AttachTo, JoinRefused, SendKeepalive, EndStream,
                    Break, Write, Exit, Signal, streamVars
<1>2. CASE Client
  BY <1>2 DEF Client, Start, Open, StartFails, Cancel, Connect, Run, Wait, Kill, Read,
              Expire, WaitDone, WaitExpired, KillReply, KillFails, ReadReturns, streamVars
<1>3. ASSUME NEW g \in Handles, Consume(g) \/ CallbackReturns(g) PROVE attached' = attached
  BY <1>3 DEF Consume, CallbackReturns, Receive, RecvStart, RecvData, RecvEnd,
              RecvKeepalive, Unlock, CallBack, StreamOver, CloseStream, CloseDone,
              streamVars
<1>4. QED
  BY <1>1, <1>2, <1>3 DEF Next, vars, streamVars

\* The calls that may have returned something about the outcome.
Reported(c) ==
  call[c].ret \in {"result", "exit error", "error"} /\ call[c].op # "kill"

Agrees(c) ==
  LET h == call[c].h IN
    /\ done[h]
    /\ call[c].ret = "error" <=> err[h] # "none"
    /\ call[c].op = "run" /\ call[c].ret = "result" =>
         attached[h] \in Procs /\ exit[attached[h]] = "zero"

\* A report is fixed when it is made, and so is what it speaks of.
LEMMA StillAgrees ==
  ASSUME TypeOK, StreamInv, SettledInv, [Next]_vars, NEW c \in Calls,
         Reported(c), Agrees(c), call[c].h \in Handles,
         call'[c].h = call[c].h, call'[c].ret = call[c].ret, call'[c].op = call[c].op
  PROVE  Agrees(c)'
<1> DEFINE h == call[c].h
<1>1. Frozen(h)
  BY StepFrozen DEF Agrees
<1>2. attached[h] \in Procs => attached'[h] = attached[h]
  BY AttachedForGood
<1>3. attached[h] \in Procs /\ exit[attached[h]] = "zero" =>
        exit'[attached[h]] = "zero"
  BY ExitIsFinal DEF Codes
<1>4. QED
  BY <1>1, <1>2, <1>3 DEF Agrees, Frozen

\* The report of Wait and Run agrees when it is made.
LEMMA NowAgrees ==
  ASSUME TypeOK, StreamInv, SettledInv, NEW c \in Calls, WaitDone(c)
  PROVE  Agrees(c)'
<1> DEFINE h == call[c].h
<1>1. call \in [Calls -> CallType] /\ call[c] \in CallType
  BY DEF TypeOK
<1>2. h \in Handles
  BY <1>1 DEF WaitDone, CallType
<1>3. /\ call'[c].h = h /\ call'[c].op = call[c].op
      /\ call'[c].ret = Outcome(h, call[c].op)
      /\ UNCHANGED <<exit, attached, done, err>>
      /\ done[h]
  BY <1>1 DEF WaitDone, Returned, envdVars, handleVars, CallType
<1>4. err[h] # "none" \/ result[h] # NoResult
  BY <1>2, <1>3 DEF SettledInv
<1>5. result[h] # NoResult => attached[h] \in Procs /\ result[h].code = exit[attached[h]]
  BY <1>2, HandleAttached DEF HandleInv, Truthful
<1>6. QED
  BY <1>3, <1>4, <1>5 DEF Agrees, Outcome

\* Any other step either leaves a call alone or reports nothing.
LEMMA OtherSteps ==
  ASSUME TypeOK, [Next]_vars, NEW c \in Calls, ~WaitDone(c), Reported(c)'
  PROVE  /\ call'[c].h = call[c].h /\ call'[c].ret = call[c].ret /\ call'[c].op = call[c].op
<1> DEFINE Same == call'[c].h = call[c].h /\ call'[c].ret = call[c].ret
                   /\ call'[c].op = call[c].op
<1>0. call \in [Calls -> CallType] /\ call[c] \in CallType
  BY DEF TypeOK
<1>1. ASSUME NEW d \in Calls, NEW ret, call' = Returned(d, ret),
             d = c => ret \notin {"result", "exit error", "error"} \/ call[c].op = "kill"
      PROVE  Same
  <2>1. CASE c # d
    BY <1>0, <1>1, <2>1 DEF Returned
  <2>2. CASE c = d
    <3>1. call'[c].ret = ret /\ call'[c].op = call[c].op
      BY <1>0, <1>1, <2>2 DEF Returned, CallType
    <3>2. QED
      BY <1>1, <2>2, <3>1 DEF Reported
  <2>3. QED
    BY <2>1, <2>2
<1>2. ASSUME NEW d \in Calls, NEW h \in Handles, NEW op, NEW st, NEW target,
             Made(d, op, h, st, target)
      PROVE  Same
  <2>1. CASE c # d
    BY <1>0, <1>2, <2>1 DEF Made
  <2>2. CASE c = d
    <3>1. call'[c] = [op |-> op, h |-> h, st |-> st, expired |-> FALSE,
                      target |-> target, ret |-> "none"]
      BY <1>0, <1>2, <2>2 DEF Made
    <3>2. call'[c].ret = "none"
      BY <3>1
    <3>3. QED
      BY <3>2 DEF Reported
  <2>3. QED
    BY <2>1, <2>2
<1>3. CASE Envd
  <2>1. ASSUME NEW d \in Calls, Signal(d) PROVE Same
    <3>1. PICK st \in {"delivered", "not found"} : call' = [call EXCEPT ![d].st = st]
      BY <2>1 DEF Signal
    <3>2. QED
      BY <1>0, <3>1 DEF CallType
  <2>2. QED
    BY <1>3, <2>1 DEF Envd, Spawn, Join, JoinRefused, SendKeepalive, EndStream, Break,
                      Write, Exit
<1>4. CASE Client
  <2>1. ASSUME NEW d \in Calls, NEW h \in Handles,
               Run(d, h) \/ Wait(d, h) \/ Kill(d, h) \/ Read(d, h)
        PROVE  Same
    BY <1>2, <2>1 DEF Run, Wait, Kill, Read
  <2>2. ASSUME NEW d \in Calls, Expire(d) PROVE Same
    BY <1>0, <2>2 DEF Expire, CallType
  <2>3. ASSUME NEW d \in Calls, WaitDone(d) PROVE Same
    BY <1>1, <2>3 DEF WaitDone
  <2>4. ASSUME NEW d \in Calls, WaitExpired(d) \/ KillFails(d) \/ ReadReturns(d)
        PROVE  Same
    BY <1>1, <2>4 DEF WaitExpired, KillFails, ReadReturns
  <2>5. ASSUME NEW d \in Calls, KillReply(d) PROVE Same
    <3>1. PICK ret \in {"true", "false"} : call' = Returned(d, ret)
      BY <2>5 DEF KillReply
    <3>2. QED
      BY <1>1, <3>1
  <2>6. QED
    BY <1>4, <2>1, <2>2, <2>3, <2>4, <2>5 DEF Client, Start, StartFails, Cancel, Connect
<1>5. ASSUME NEW g \in Handles, Consume(g) \/ CallbackReturns(g) PROVE Same
  BY <1>5 DEF Consume, CallbackReturns, Receive, RecvStart, RecvData, RecvEnd,
              RecvKeepalive, Unlock, CallBack, StreamOver, CloseStream, CloseDone
<1>6. CASE UNCHANGED vars
  BY <1>6 DEF vars
<1>7. QED
  BY <1>3, <1>4, <1>5, <1>6 DEF Next

\* A report is made on a handle, and agrees with it.
ReportInv == \A c \in Calls : Reported(c) => call[c].h \in Handles /\ Agrees(c)

LEMMA StepReport ==
  TypeOK /\ StreamInv /\ SettledInv /\ ReportInv /\ [Next]_vars => ReportInv'
<1> SUFFICES ASSUME TypeOK, StreamInv, SettledInv, ReportInv, [Next]_vars,
                    NEW c \in Calls, Reported(c)'
             PROVE  call'[c].h \in Handles /\ Agrees(c)'
  BY DEF ReportInv
<1>1. CASE WaitDone(c)
  <2>1. call[c] \in CallType /\ call \in [Calls -> CallType]
    BY DEF TypeOK
  <2>2. call'[c].h = call[c].h /\ call[c].h \in Handles
    <3>1. call[c].op \in {"run", "wait"} /\ call[c].h \in Handles
      BY <1>1, <2>1 DEF WaitDone, CallType
    <3>2. call'[c].h = call[c].h
      BY <1>1, <2>1 DEF WaitDone, Returned, CallType
    <3>3. QED
      BY <3>1, <3>2
  <2>3. QED
    BY <1>1, <2>2, NowAgrees
<1>2. CASE ~WaitDone(c)
  <2>1. call'[c].h = call[c].h /\ call'[c].ret = call[c].ret /\ call'[c].op = call[c].op
    BY <1>2, OtherSteps
  <2>2. Reported(c)
    BY <2>1 DEF Reported
  <2>3. Agrees(c) /\ call[c].h \in Handles
    BY <2>2 DEF ReportInv
  <2>4. QED
    BY <2>1, <2>2, <2>3, StillAgrees
<1>3. QED
  BY <1>1, <1>2

\* Wait and Run report an error only for a failed handle, and Run reports
\* success only for a process that exited with zero.
THEOREM ReportsAgree == Spec => []ReportAgrees
<1>1. Init => ReportInv
  <2>1. NoCall.ret = "none"
    BY DEF NoCall
  <2>2. QED
    BY <2>1 DEF Init, ReportInv, Reported
<1>2. ReportInv => ReportAgrees
  BY DEF ReportInv, ReportAgrees, Reported, Agrees
<1>3. QED
  BY <1>1, <1>2, StepReport, TypeCorrect, StreamsFaithful, Settled, PTL DEF Spec

-----------------------------------------------------------------------------
(* What the callbacks hear.                                                *)

Data(e) == e.type = "data"

\* The wire q of a process that has written n chunks and has the status x:
\* its data in the order of the writes, none after an end event, and none left
\* once there is a result.
Flow(q, n, x, r) ==
  /\ \A i, j \in 1..Len(q) : i < j /\ Data(q[j]) =>
       q[i].type # "end" /\ (Data(q[i]) => q[i].chunk < q[j].chunk)
  /\ \A i \in 1..Len(q) : /\ Data(q[i]) => q[i].chunk <= n
                          /\ q[i].type = "end" => x \in Codes
                          /\ r => ~Data(q[i])
  /\ r => x \in Codes

\* The chunk c comes before all that is in flight.
Past(q, n, c) == c <= n /\ \A j \in 1..Len(q) : Data(q[j]) => c < q[j].chunk

\* The chunks s, each with its source, are those of the buffers f, in order and
\* before all that is in flight.
Heard(s, f, q, n) ==
  /\ Len(s) = Len(f["stdout"]) + Len(f["stderr"])
  /\ \A i, j \in 1..Len(s) : i < j => s[i][2] < s[j][2]
  /\ \A i \in 1..Len(s) : /\ \E k \in 1..Len(f[s[i][1]]) : f[s[i][1]][k] = s[i][2]
                          /\ Past(q, n, s[i][2])

Hearings == Seq(Sources \X Nat)

LEMMA Chunks ==
  ASSUME NEW q \in Seq(EventType)
  PROVE  Len(q) \in Nat /\ \A i \in 1..Len(q) : q[i].chunk \in Nat /\ q[i].src \in Sources
<1>1. \A e \in EventType : e.chunk \in Nat /\ e.src \in Sources
  BY DEF EventType
<1>2. \A i \in 1..Len(q) : q[i] \in EventType
  BY ElementOfSeq
<1> QED BY <1>1, <1>2, LenProperties

LEMMA Hearing ==
  ASSUME NEW s \in Hearings
  PROVE  Len(s) \in Nat /\ \A i \in 1..Len(s) : s[i][1] \in Sources /\ s[i][2] \in Nat
<1> DEFINE P == Sources \X Nat
<1>1. \A e \in P : e[1] \in Sources /\ e[2] \in Nat
  OBVIOUS
<1>2. s \in Seq(P)
  BY DEF Hearings
<1> HIDE DEF P
<1>3. \A i \in 1..Len(s) : s[i] \in P
  BY <1>2, ElementOfSeq
<1> QED BY <1>1, <1>2, <1>3, LenProperties

\* A process writes or exits: what is in flight may get one more event.
LEMMA PushFlow ==
  ASSUME NEW q \in Seq(EventType), NEW e \in EventType, NEW n \in Nat, NEW m \in Nat, n <= m,
         NEW x, NEW y, x \in Codes => y \in Codes, NEW r \in BOOLEAN, Flow(q, n, x, r),
         Data(e) => n < e.chunk /\ e.chunk <= m /\ x \notin Codes,
         e.type = "end" => y \in Codes
  PROVE  Flow(Append(q, e), m, y, r)
<1> DEFINE v == Append(q, e)
           k == Len(q) + 1
<1>1. /\ Len(q) \in Nat /\ Len(v) = k /\ v[k] = e
      /\ \A i \in 1..Len(q) : v[i] = q[i] /\ q[i].chunk \in Nat
  BY Chunks, AppendProperties
<1> HIDE DEF v
<1>2. \A i \in 1..Len(v) : i \in 1..Len(q) \/ i = k
  BY <1>1
<1>3. ASSUME NEW i \in 1..Len(v)
      PROVE  /\ Data(v[i]) => v[i].chunk <= m
             /\ v[i].type = "end" => y \in Codes
             /\ r => ~Data(v[i])
  <2>1. CASE i \in 1..Len(q)
    <3>1. v[i] = q[i] /\ q[i].chunk \in Nat
      BY <1>1, <2>1
    <3>2. Data(q[i]) => q[i].chunk <= n
      BY <2>1 DEF Flow
    <3> QED BY <2>1, <3>1, <3>2 DEF Flow
  <2>2. CASE i = k
    <3>1. r => x \in Codes
      BY DEF Flow
    <3> QED BY <1>1, <2>2, <3>1
  <2> QED BY <1>2, <2>1, <2>2
<1>4. ASSUME NEW i \in 1..Len(v), NEW j \in 1..Len(v), i < j, Data(v[j])
      PROVE  v[i].type # "end" /\ (Data(v[i]) => v[i].chunk < v[j].chunk)
  <2>1. i \in 1..Len(q) /\ v[i] = q[i] /\ q[i].chunk \in Nat
    BY <1>1, <1>4
  <2>2. CASE j \in 1..Len(q)
    BY <1>1, <1>4, <2>1, <2>2 DEF Flow
  <2>3. CASE j = k
    <3>1. e.chunk \in Nat /\ n < e.chunk /\ x \notin Codes /\ v[j] = e
      BY <1>1, <1>4, <2>3 DEF EventType
    <3>2. q[i].type # "end" /\ (Data(q[i]) => q[i].chunk <= n)
      BY <2>1, <3>1 DEF Flow
    <3> QED BY <2>1, <3>1, <3>2
  <2> QED BY <1>2, <2>2, <2>3
<1>5. r => y \in Codes
  BY DEF Flow
<1> QED BY <1>3, <1>4, <1>5 DEF Flow, v

LEMMA PushHeard ==
  ASSUME NEW q \in Seq(EventType), NEW e \in EventType, NEW n \in Nat, NEW m \in Nat, n <= m,
         Data(e) => n < e.chunk, NEW s \in Hearings, NEW f, Heard(s, f, q, n)
  PROVE  Heard(s, f, Append(q, e), m)
<1> DEFINE v == Append(q, e)
<1>1. /\ Len(q) \in Nat /\ Len(v) = Len(q) + 1 /\ v[Len(q) + 1] = e
      /\ \A i \in 1..Len(q) : v[i] = q[i]
  BY Chunks, AppendProperties
<1> HIDE DEF v
<1>2. ASSUME NEW i \in 1..Len(s) PROVE Past(v, m, s[i][2])
  <2>1. s[i][2] \in Nat /\ Past(q, n, s[i][2])
    BY Hearing DEF Heard
  <2>2. s[i][2] <= n /\ \A j \in 1..Len(q) : Data(q[j]) => s[i][2] < q[j].chunk
    BY <2>1 DEF Past
  <2>3. e.chunk \in Nat
    BY DEF EventType
  <2>4. Data(e) => s[i][2] < e.chunk
    BY <2>1, <2>2, <2>3
  <2>5. \A j \in 1..Len(v) : j \in 1..Len(q) \/ j = Len(q) + 1
    BY <1>1
  <2>6. \A j \in 1..Len(v) : Data(v[j]) => s[i][2] < v[j].chunk
    BY <1>1, <2>2, <2>4, <2>5
  <2>7. s[i][2] <= m
    BY <2>1, <2>2
  <2> QED BY <2>6, <2>7 DEF Past
<1> QED BY <1>2 DEF Heard, v

\* What is in flight stays, or is cut.
LEMMA CutFlow ==
  ASSUME NEW q \in Seq(EventType), NEW k \in 0..Len(q), NEW n, NEW x, NEW r \in BOOLEAN,
         Flow(q, n, x, r)
  PROVE  /\ Flow(SubSeq(q, 1, k), n, x, r)
         /\ \A s, f : Heard(s, f, q, n) => Heard(s, f, SubSeq(q, 1, k), n)
<1> DEFINE v == SubSeq(q, 1, k)
<1>1. Len(v) = k /\ k \in Nat /\ Len(q) \in Nat /\ \A i \in 1..k : v[i] = q[i] /\ i \in 1..Len(q)
  OBVIOUS
<1> HIDE DEF v
<1>2. Flow(v, n, x, r)
  BY <1>1 DEF Flow
<1>3. \A c : Past(q, n, c) => Past(v, n, c)
  BY <1>1 DEF Past
<1>4. \A s, f : Heard(s, f, q, n) => Heard(s, f, v, n)
  BY <1>3 DEF Heard
<1> QED BY <1>2, <1>4 DEF v

LEMMA GrowFlow ==
  ASSUME NEW q \in Seq(EventType), NEW n \in Nat, NEW m \in Nat, n <= m,
         NEW x, NEW y, x \in Codes => y \in Codes, NEW r \in BOOLEAN, Flow(q, n, x, r)
  PROVE  Flow(q, m, y, r)
<1>1. \A c \in Nat : c <= n => c <= m
  OBVIOUS
<1> QED BY <1>1, Chunks DEF Flow

LEMMA GrowHeard ==
  ASSUME NEW q, NEW n \in Nat, NEW m \in Nat, n <= m, NEW s \in Hearings, NEW f,
         Heard(s, f, q, n)
  PROVE  Heard(s, f, q, m)
<1>1. \A c \in Nat : c <= n => c <= m
  OBVIOUS
<1>2. \A i \in 1..Len(s) : s[i][2] \in Nat /\ Past(q, n, s[i][2])
  BY Hearing DEF Heard
<1>3. \A i \in 1..Len(s) : Past(q, m, s[i][2])
  BY <1>1, <1>2 DEF Past
<1> QED BY <1>3 DEF Heard

\* An event is received; an end event is what makes a result.
LEMMA PopFlow ==
  ASSUME NEW q \in Seq(EventType), q # <<>>, NEW n \in Nat, NEW x, NEW r \in BOOLEAN,
         Flow(q, n, x, r)
  PROVE  /\ Flow(Tail(q), n, x, r \/ q[1].type = "end")
         /\ \A s, f : Heard(s, f, q, n) => Heard(s, f, Tail(q), n)
         /\ Data(q[1]) => ~r /\ \A j \in 1..Len(Tail(q)) : Data(Tail(q)[j]) =>
                                   q[1].chunk < Tail(q)[j].chunk
         /\ Data(q[1]) => q[1].chunk <= n
<1> DEFINE v == Tail(q)
<1>1. /\ Len(q) \in Nat /\ 1 \in 1..Len(q) /\ Len(v) = Len(q) - 1
      /\ \A i \in 1..Len(v) : v[i] = q[i + 1] /\ i + 1 \in 1..Len(q) /\ 1 < i + 1
  <2>1. Len(q) \in Nat /\ Len(q) >= 1
    BY EmptySeq, LenProperties
  <2> QED BY <2>1, HeadTailProperties
<1> HIDE DEF v
<1>2. \A i, j \in 1..Len(v) : i < j => i + 1 < j + 1
  BY <1>1
<1>3. \A i, j \in 1..Len(v) : i < j /\ Data(v[j]) =>
        v[i].type # "end" /\ (Data(v[i]) => v[i].chunk < v[j].chunk)
  BY <1>1, <1>2 DEF Flow
<1>4. \A i \in 1..Len(v) : /\ Data(v[i]) => v[i].chunk <= n
                           /\ v[i].type = "end" => x \in Codes
                           /\ r \/ q[1].type = "end" => ~Data(v[i])
  BY <1>1 DEF Flow
<1>5. r \/ q[1].type = "end" => x \in Codes
  BY <1>1 DEF Flow
<1>6. Flow(v, n, x, r \/ q[1].type = "end")
  BY <1>3, <1>4, <1>5 DEF Flow
<1>7. \A c : Past(q, n, c) => Past(v, n, c)
  BY <1>1 DEF Past
<1>8. \A s, f : Heard(s, f, q, n) => Heard(s, f, v, n)
  BY <1>7 DEF Heard
<1>9. Data(q[1]) => ~r /\ \A j \in 1..Len(v) : Data(v[j]) => q[1].chunk < v[j].chunk
  BY <1>1 DEF Flow
<1>10. Data(q[1]) => q[1].chunk <= n
  BY <1>1 DEF Flow
<1> QED BY <1>6, <1>8, <1>9, <1>10 DEF v

\* A chunk is received: it is the next one to hear.
LEMMA TakeHeard ==
  ASSUME NEW q \in Seq(EventType), q # <<>>, Data(q[1]), NEW n \in Nat, NEW x,
         NEW r \in BOOLEAN, Flow(q, n, x, r),
         NEW s \in Hearings, NEW f \in Writes, Heard(s, f, q, n)
  PROVE  Heard(Append(s, <<q[1].src, q[1].chunk>>),
               [f EXCEPT ![q[1].src] = Append(@, q[1].chunk)], Tail(q), n)
<1> DEFINE src == q[1].src
           c == q[1].chunk
           u == Append(s, <<src, c>>)
           g == [f EXCEPT ![src] = Append(@, c)]
           v == Tail(q)
           k == Len(s) + 1
<1>1. c \in Nat /\ src \in Sources
  <2>1. 1 \in 1..Len(q)
    BY EmptySeq
  <2> QED BY <2>1, Chunks
<1>2. Past(v, n, c)
  BY PopFlow DEF Past
<1>3. \A i \in 1..Len(s) : Past(v, n, s[i][2])
  <2>1. Heard(s, f, v, n)
    BY PopFlow
  <2> QED BY <2>1 DEF Heard
<1>4. \A i \in 1..Len(s) : s[i][2] < c
  <2>1. 1 \in 1..Len(q)
    BY EmptySeq
  <2> QED BY <2>1 DEF Heard, Past
<1> HIDE DEF c, src, v
<1>5. /\ Len(s) \in Nat /\ Len(u) = k /\ u[k] = <<src, c>>
      /\ \A i \in 1..Len(s) : u[i] = s[i] /\ s[i][1] \in Sources /\ s[i][2] \in Nat
  <2> DEFINE P == Sources \X Nat
             p == <<src, c>>
  <2>1. s \in Seq(P) /\ p \in P /\ u = Append(s, p)
    BY <1>1 DEF Hearings
  <2> HIDE DEF P, p, u
  <2>2. Len(u) = k /\ u[k] = p /\ \A i \in 1..Len(s) : u[i] = s[i]
    BY <2>1, AppendProperties
  <2> QED BY <2>2, Hearing DEF p
<1>6. /\ \A t \in Sources : f[t] \in Seq(Nat) /\ Len(f[t]) \in Nat
      /\ \A t \in Sources : t # src => g[t] = f[t]
      /\ g[src] = Append(f[src], c)
  BY <1>1 DEF Writes
<1>7. /\ Len(g[src]) = Len(f[src]) + 1 /\ g[src][Len(f[src]) + 1] = c
      /\ \A i \in 1..Len(f[src]) : g[src][i] = f[src][i]
  BY <1>1, <1>6, AppendProperties
<1> HIDE DEF u, g
<1>8. Len(g["stdout"]) + Len(g["stderr"]) = Len(f["stdout"]) + Len(f["stderr"]) + 1
  <2>1. "stdout" \in Sources /\ "stderr" \in Sources /\ (src = "stdout" \/ src = "stderr")
    BY <1>1 DEF Sources
  <2>a. \A a, b \in Nat : (a + 1) + b = a + b + 1 /\ a + (b + 1) = a + b + 1
    OBVIOUS
  <2>b. Len(f["stdout"]) \in Nat /\ Len(f["stderr"]) \in Nat
    BY <1>6, <2>1
  <2>2. CASE src = "stdout"
    <3>1. Len(g["stdout"]) = Len(f["stdout"]) + 1 /\ Len(g["stderr"]) = Len(f["stderr"])
      BY <1>6, <1>7, <2>1, <2>2
    <3> QED BY <2>a, <2>b, <3>1, Zenon
  <2>3. CASE src = "stderr"
    <3>1. Len(g["stderr"]) = Len(f["stderr"]) + 1 /\ Len(g["stdout"]) = Len(f["stdout"])
      BY <1>6, <1>7, <2>1, <2>3
    <3> QED BY <2>a, <2>b, <3>1, Zenon
  <2> QED BY <2>1, <2>2, <2>3
<1>9. \A i \in 1..Len(u) : i \in 1..Len(s) \/ i = k
  BY <1>5
<1>10. Len(u) = Len(g["stdout"]) + Len(g["stderr"])
  <2>1. Len(s) = Len(f["stdout"]) + Len(f["stderr"])
    BY DEF Heard
  <2> QED BY <1>5, <1>8, <2>1
<1>11. ASSUME NEW i \in 1..Len(u), NEW j \in 1..Len(u), i < j PROVE u[i][2] < u[j][2]
  <2>1. i \in 1..Len(s)
    BY <1>5, <1>11
  <2>2. CASE j \in 1..Len(s)
    BY <1>5, <1>11, <2>1, <2>2 DEF Heard
  <2>3. CASE j = k
    <3>1. u[j][2] = c /\ u[i] = s[i]
      BY <1>5, <2>1, <2>3
    <3> QED BY <1>4, <2>1, <3>1
  <2> QED BY <1>9, <2>2, <2>3
<1>12. ASSUME NEW i \in 1..Len(u)
       PROVE  /\ \E l \in 1..Len(g[u[i][1]]) : g[u[i][1]][l] = u[i][2]
              /\ Past(v, n, u[i][2])
  <2>1. CASE i = k
    <3>1. u[i][1] = src /\ u[i][2] = c
      BY <1>5, <2>1
    <3>2. Len(f[src]) + 1 \in 1..Len(g[src])
      BY <1>1, <1>6, <1>7
    <3> QED BY <1>2, <1>7, <3>1, <3>2
  <2>2. CASE i \in 1..Len(s)
    <3>1. u[i] = s[i] /\ s[i][1] \in Sources
      BY <1>5, <2>2
    <3>2. PICK l \in 1..Len(f[s[i][1]]) : f[s[i][1]][l] = s[i][2]
      BY <2>2 DEF Heard
    <3>3. l \in 1..Len(g[s[i][1]]) /\ g[s[i][1]][l] = s[i][2]
      <4>1. CASE s[i][1] = src
        <5>1. l \in 1..Len(f[src]) /\ f[src][l] = s[i][2]
          BY <3>2, <4>1
        <5>2. Len(f[src]) \in Nat /\ Len(g[src]) = Len(f[src]) + 1 /\ g[src][l] = f[src][l]
          BY <1>1, <1>6, <1>7, <5>1
        <5> QED BY <4>1, <5>1, <5>2
      <4>2. CASE s[i][1] # src
        <5>1. g[s[i][1]] = f[s[i][1]]
          BY <1>6, <3>1, <4>2
        <5> QED BY <3>2, <5>1
      <4> QED BY <4>1, <4>2
    <3> QED BY <1>3, <2>2, <3>1, <3>3
  <2> QED BY <1>9, <2>1, <2>2
<1> QED BY <1>10, <1>11, <1>12 DEF Heard, src, c, u, g, v

\* The chunk consume has put in a buffer and not yet in a callback's hands.
Pending(h) == pc[h] \in {"unlock", "call"}

\* What the callbacks of h have heard, with the chunk they are about to hear.
Hears(h) == IF Pending(h) THEN Append(heard[h], <<event[h].src, event[h].chunk>>)
            ELSE heard[h]

\* How much the process of h has written, and how it is.
Amount(h) == IF attached[h] \in Procs
             THEN Len(written[attached[h]]["stdout"]) + Len(written[attached[h]]["stderr"])
             ELSE 0
Status(h) == IF attached[h] \in Procs THEN exit[attached[h]] ELSE "unborn"

\* Every chunk is in a buffer and heard, or about to be, or still in flight, in
\* the order it was written across both sources.
HearsAll(h) ==
  /\ Flow(wire[h], Amount(h), Status(h), result[h] # NoResult)
  /\ Pending(h) => result[h] = NoResult
  /\ h \in Listeners => Heard(Hears(h), buf[h], wire[h], Amount(h))

HearInv == \A h \in Handles : HearsAll(h)

LEMMA HearTypes ==
  ASSUME TypeOK, NEW h \in Handles
  PROVE  /\ Amount(h) \in Nat /\ Hears(h) \in Hearings /\ heard[h] \in Hearings
         /\ wire[h] \in Seq(EventType) /\ buf[h] \in Writes /\ event[h] \in EventType
         /\ heard \in [Handles -> Hearings] /\ event \in [Handles -> EventType]
         /\ pc \in [Handles -> {"none", "recv", "unlock", "call", "callback",
                                "close", "signal", "exited"}]
<1>1. /\ heard \in [Handles -> Hearings] /\ event \in [Handles -> EventType]
      /\ pc \in [Handles -> {"none", "recv", "unlock", "call", "callback",
                             "close", "signal", "exited"}]
  BY DEF TypeOK, Hearings
<1>2. Amount(h) \in Nat
  <2>1. attached[h] \in Procs => /\ Len(written[attached[h]]["stdout"]) \in Nat
                                 /\ Len(written[attached[h]]["stderr"]) \in Nat
    BY StreamTypes DEF Writes, Sources
  <2>2. \A a, b \in Nat : a + b \in Nat
    OBVIOUS
  <2>3. CASE attached[h] \in Procs
    BY <2>1, <2>2, <2>3, Zenon DEF Amount
  <2>4. CASE attached[h] \notin Procs
    BY <2>4 DEF Amount
  <2> QED BY <2>3, <2>4
<1>3. Hears(h) \in Hearings
  <2> DEFINE e == <<event[h].src, event[h].chunk>>
             P == Sources \X Nat
  <2>1. e \in P
    BY <1>1 DEF EventType
  <2>2. heard[h] \in Seq(P)
    BY <1>1 DEF Hearings
  <2> HIDE DEF e, P
  <2>3. Append(heard[h], e) \in Seq(P)
    BY <2>1, <2>2, AppendProperties
  <2> QED BY <2>2, <2>3 DEF Hears, Hearings, e, P
<1> QED BY <1>1, <1>2, <1>3, StreamTypes

AmountsTyped == \A h \in Handles : Amount(h) \in Nat

LEMMA HearTypesNext == TypeOK' => AmountsTyped'
<1>1. TypeOK => AmountsTyped
  BY HearTypes DEF AmountsTyped
<1> QED BY <1>1, PTL

\* A step that gives a handle nothing to hear: at most one more event is in
\* flight, a chunk past all that was written or an end.
LEMMA HearsNothing ==
  ASSUME TypeOK, NEW h \in Handles, HearsAll(h),
         Amount(h)' \in Nat, Amount(h) <= Amount(h)',
         Status(h) \in Codes => Status(h)' \in Codes,
         buf'[h] = buf[h], result'[h] = result[h],
         Pending(h)' => Pending(h),
         h \in Listeners => Hears(h)' = Hears(h),
         \/ wire'[h] = wire[h]
         \/ \E e \in EventType :
              /\ wire'[h] = Append(wire[h], e)
              /\ Data(e) => /\ Amount(h) < e.chunk /\ e.chunk <= Amount(h)'
                            /\ Status(h) \notin Codes
              /\ e.type = "end" => Status(h)' \in Codes
  PROVE  HearsAll(h)'
<1> DEFINE q == wire[h]
           n == Amount(h)
           m == Amount(h)'
           x == Status(h)
           y == Status(h)'
           r == result[h] # NoResult
           s == Hears(h)
           f == buf[h]
<1>1. /\ q \in Seq(EventType) /\ n \in Nat /\ m \in Nat /\ n <= m /\ r \in BOOLEAN
      /\ s \in Hearings /\ (x \in Codes => y \in Codes)
  BY HearTypes
<1>2. Flow(q, n, x, r) /\ (h \in Listeners => Heard(s, f, q, n))
  BY DEF HearsAll
<1>3. Pending(h)' => result'[h] = NoResult
  BY DEF HearsAll
<1>4. Flow(wire'[h], m, y, r) /\ (h \in Listeners => Heard(s, f, wire'[h], m))
  <2>1. CASE wire'[h] = wire[h]
    <3> HIDE DEF q, n, m, x, y, r, s, f
    <3>0. Flow(q, n, x, r)
      BY <1>2
    <3>1. Flow(q, m, y, r)
      <4>1. \A c \in Nat : c <= n => c <= m
        BY <1>1
      <4>2. \A i \in 1..Len(q) : q[i].chunk \in Nat
        BY <1>1, Chunks
      <4> QED BY <1>1, <3>0, <4>1, <4>2 DEF Flow
    <3>2. h \in Listeners => Heard(s, f, q, m)
      BY <1>1, <1>2, GrowHeard
    <3> QED BY <2>1, <3>1, <3>2 DEF q
  <2>2. CASE \E e \in EventType :
               /\ wire'[h] = Append(wire[h], e)
               /\ Data(e) => n < e.chunk /\ e.chunk <= m /\ x \notin Codes
               /\ e.type = "end" => y \in Codes
    <3>1. PICK e \in EventType :
            /\ wire'[h] = Append(q, e)
            /\ Data(e) => n < e.chunk /\ e.chunk <= m /\ x \notin Codes
            /\ e.type = "end" => y \in Codes
      BY <2>2
    <3> HIDE DEF q, n, m, x, y, r, s, f
    <3>2. Flow(Append(q, e), m, y, r)
      BY <1>1, <1>2, <3>1, PushFlow
    <3>3. h \in Listeners => Heard(s, f, Append(q, e), m)
      BY <1>1, <1>2, <3>1, PushHeard
    <3> QED BY <3>1, <3>2, <3>3
  <2> QED BY <2>1, <2>2
<1> HIDE DEF n, m, x, y
<1>5. h \in Listeners => Heard(Hears(h)', buf'[h], wire'[h], m)
  BY <1>4
<1>6. Flow(wire'[h], m, y, result'[h] # NoResult)
  BY <1>4
<1> QED BY <1>3, <1>5, <1>6 DEF HearsAll, m, y

\* The steps that leave the processes and the buffers alone.
LEMMA QuietHear ==
  ASSUME TypeOK, TypeOK', HearInv,
         UNCHANGED <<written, exit, attached, wire, buf, result>>,
         \A h \in Handles : Pending(h)' => Pending(h),
         \A h \in Listeners : Hears(h)' = Hears(h)
  PROVE  HearInv'
<1> SUFFICES ASSUME NEW h \in Handles PROVE HearsAll(h)'
  BY DEF HearInv
<1>1. Amount(h)' = Amount(h) /\ Status(h)' = Status(h)
  BY DEF Amount, Status
<1>2. Amount(h) \in Nat /\ Amount(h) <= Amount(h)
  BY HearTypes
<1> QED BY <1>1, <1>2, HearsNothing DEF HearInv

LEMMA ClientHear ==
  ASSUME TypeOK, TypeOK', SettledInv, HearInv,
         \/ Client \/ UNCHANGED vars
         \/ \E h \in Handles : \/ JoinRefused(h) \/ EndStream(h) \/ StreamOver(h)
                               \/ CloseStream(h) \/ CloseDone(h) \/ CallbackReturns(h)
         \/ \E c \in Calls : Signal(c)
  PROVE  HearInv'
<1>1. /\ UNCHANGED <<written, exit, attached, wire, buf, result, event, heard>>
      /\ \/ pc' = pc
         \/ \E h \in Handles : \E v \in {"recv", "close", "signal", "exited"} :
              pc' = [pc EXCEPT ![h] = v] /\ pc[h] \notin {"unlock", "call"}
  <2>1. \A h \in Handles : how[h] = "none" => pc[h] = "none"
    BY DEF SettledInv
  <2> QED
    BY <2>1 DEF Client, Start, Open, StartFails, Cancel, Connect, Run, Wait, Kill, Read,
                Expire, WaitDone, WaitExpired, KillReply, KillFails, ReadReturns, Signal,
                JoinRefused, EndStream, StreamOver, CloseStream, CloseDone,
                CallbackReturns, vars, envdVars, streamVars, handleVars
<1>2. \A h \in Handles : Pending(h)' <=> Pending(h)
  BY <1>1, HearTypes DEF Pending
<1>3. \A h \in Listeners : Hears(h)' = Hears(h)
  BY <1>1, <1>2, OptionsAssumption DEF OptionsAssumption, Hears
<1> QED BY <1>1, <1>2, <1>3, QuietHear

LEMMA CallbackHear ==
  ASSUME TypeOK, TypeOK', HearInv, NEW g \in Handles, Unlock(g) \/ CallBack(g)
  PROVE  HearInv'
<1>1. UNCHANGED <<written, exit, attached, wire, buf, result, event>>
  BY DEF Unlock, CallBack, envdVars, streamVars
<1>2. \A h \in Handles : h # g => pc'[h] = pc[h] /\ heard'[h] = heard[h]
  BY HearTypes DEF Unlock, CallBack
<1>3. CASE Unlock(g)
  <2>1. /\ pc[g] = "unlock" /\ heard' = heard
        /\ pc'[g] = IF g \in Listeners THEN "call" ELSE "recv"
    BY <1>3, HearTypes DEF Unlock
  <2> QED
    BY <1>1, <1>2, <2>1, QuietHear, OptionsAssumption DEF OptionsAssumption, Pending, Hears
<1>4. CASE CallBack(g)
  <2>1. /\ pc[g] = "call" /\ pc'[g] = "callback"
        /\ heard'[g] = Append(heard[g], <<event[g].src, event[g].chunk>>)
    BY <1>4, HearTypes DEF CallBack
  <2> QED
    BY <1>1, <1>2, <2>1, QuietHear, OptionsAssumption DEF OptionsAssumption, Pending, Hears
<1> QED BY <1>3, <1>4

LEMMA AttachHear ==
  ASSUME TypeOK, TypeOK', StreamInv, HearInv, NEW g \in Handles, NEW p \in Procs, ~arrived[g],
         AttachTo(g, p), UNCHANGED <<written, pc, event, heard, buf, result>>,
         \A h \in Handles : attached[h] \in Procs => exit'[attached[h]] = exit[attached[h]]
  PROVE  HearInv'
<1> SUFFICES ASSUME NEW h \in Handles PROVE HearsAll(h)'
  BY DEF HearInv
<1>1. HearsAll(h) /\ Amount(h) \in Nat /\ Amount(h)' \in Nat
  <2>1. Amount(h) \in Nat
    BY HearTypes
  <2>2. (Amount(h) \in Nat)'
    BY HearTypesNext DEF AmountsTyped
  <2> QED BY <2>1, <2>2 DEF HearInv
<1>2. /\ Pending(h)' = Pending(h) /\ Hears(h)' = Hears(h)
      /\ buf'[h] = buf[h] /\ result'[h] = result[h]
  BY DEF Pending, Hears
<1>3. /\ Amount(h) <= Amount(h)' /\ (Status(h) \in Codes => Status(h)' \in Codes)
      /\ wire'[h] = wire[h] \/ wire'[h] = Append(wire[h], StartEvent(p))
  <2>1. CASE h = g
    <3>1. attached[h] \notin Procs
      BY <2>1, HandleAttached, NoPidAssumption DEF NoPidAssumption
    <3>2. Amount(h) = 0 /\ Status(h) \notin Codes
      BY <3>1 DEF Amount, Status, Codes
    <3>3. wire'[h] = wire[h] \/ wire'[h] = Append(wire[h], StartEvent(p))
      BY <2>1, StreamTypes DEF AttachTo
    <3> QED BY <1>1, <3>2, <3>3
  <2>2. CASE h # g
    <3>1. attached'[h] = attached[h] /\ wire'[h] = wire[h]
      BY <2>2, StreamTypes DEF AttachTo
    <3>2. Amount(h)' = Amount(h) /\ Status(h)' = Status(h)
      BY <3>1 DEF Amount, Status
    <3> QED BY <1>1, <3>1, <3>2
  <2> QED BY <2>1, <2>2
<1>4. StartEvent(p) \in EventType /\ StartEvent(p).type = "start"
  BY EventTypes DEF StartEvent, Event
<1>5. ~Data(StartEvent(p)) /\ StartEvent(p).type # "end"
  BY <1>4 DEF Data
<1> QED BY <1>1, <1>2, <1>3, <1>4, <1>5, HearsNothing

\* A process writes: the chunk is numbered past all that its streams carried.
LEMMA WriteHear ==
  ASSUME TypeOK, TypeOK', HearInv, NEW p \in Procs, NEW s \in Sources, Write(p, s)
  PROVE  HearInv'
<1> SUFFICES ASSUME NEW h \in Handles PROVE HearsAll(h)'
  BY DEF HearInv
<1> DEFINE n == NextChunk(p)
           e == DataEvent(s, n)
<1>1. /\ exit[p] = "running" /\ wire' = Pushed(p, e)
      /\ UNCHANGED <<exit, attached, tail, pc, event, heard, buf, result>>
      /\ written' = [written EXCEPT ![p][s] = Append(@, n)]
  BY DEF Write, handleVars
<1>2. /\ HearsAll(h) /\ Amount(h) \in Nat /\ Amount(h)' \in Nat
      /\ Pending(h)' = Pending(h) /\ Hears(h)' = Hears(h) /\ Status(h)' = Status(h)
      /\ buf'[h] = buf[h] /\ result'[h] = result[h]
  <2>1. Amount(h) \in Nat
    BY HearTypes
  <2>2. (Amount(h) \in Nat)'
    BY HearTypesNext DEF AmountsTyped
  <2> QED BY <1>1, <2>1, <2>2 DEF HearInv, Pending, Hears, Status
<1>3. CASE attached[h] # p
  <2>1. wire'[h] = wire[h]
    BY <1>1, <1>3 DEF Pushed
  <2>2. attached[h] \in Procs => written'[attached[h]] = written[attached[h]]
    BY <1>1, <1>3, StreamTypes
  <2>3. attached' = attached
    BY <1>1
  <2>4. Amount(h)' = Amount(h)
    BY <2>2, <2>3, Zenon DEF Amount
  <2> QED BY <1>2, <2>1, <2>4, HearsNothing
<1>4. CASE attached[h] = p
  <2>1. Amount(h) + 1 = n /\ Amount(h)' = n
    <3> DEFINE w == written[p]
               o == Len(w["stdout"])
               d == Len(w["stderr"])
               v == written'[p]
    <3>1. o \in Nat /\ d \in Nat /\ w \in Writes
      BY StreamTypes DEF Writes, Sources
    <3>2. v = [w EXCEPT ![s] = Append(@, n)]
      BY <1>1, StreamTypes
    <3>3. n \in Nat /\ n = o + d + 1
      <4>1. n = o + d + 1
        BY Zenon DEF NextChunk
      <4>2. \A a, b \in Nat : a + b + 1 \in Nat
        OBVIOUS
      <4> QED BY <3>1, <4>1, <4>2, Zenon
    <3>4. Amount(h) = o + d /\ Amount(h)' = Len(v["stdout"]) + Len(v["stderr"])
      BY <1>1, <1>4 DEF Amount
    <3> HIDE DEF n, v
    <3>5. Len(v["stdout"]) + Len(v["stderr"]) = o + d + 1
      <4>1. /\ w["stdout"] \in Seq(Nat) /\ w["stderr"] \in Seq(Nat)
            /\ s = "stdout" \/ s = "stderr"
        BY <3>1 DEF Writes, Sources
      <4>2. \A a, b \in Nat : (a + 1) + b = a + b + 1 /\ a + (b + 1) = a + b + 1
        OBVIOUS
      <4>3. CASE s = "stdout"
        <5>1. v["stdout"] = Append(w["stdout"], n) /\ v["stderr"] = w["stderr"]
          BY <3>1, <3>2, <4>3 DEF Writes, Sources
        <5>2. Len(v["stdout"]) = o + 1 /\ Len(v["stderr"]) = d
          BY <3>3, <4>1, <5>1, AppendProperties
        <5> QED BY <3>1, <4>2, <5>2, Zenon
      <4>4. CASE s = "stderr"
        <5>1. v["stderr"] = Append(w["stderr"], n) /\ v["stdout"] = w["stdout"]
          BY <3>1, <3>2, <4>4 DEF Writes, Sources
        <5>2. Len(v["stderr"]) = d + 1 /\ Len(v["stdout"]) = o
          BY <3>3, <4>1, <5>1, AppendProperties
        <5> QED BY <3>1, <4>2, <5>2, Zenon
      <4> QED BY <4>1, <4>3, <4>4
    <3> QED BY <3>3, <3>4, <3>5, Zenon
  <2>2. Amount(h) < n /\ n <= Amount(h)' /\ Amount(h) <= Amount(h)' /\ n \in Nat
    BY <1>2, <2>1
  <2> HIDE DEF n
  <2>3. e \in EventType /\ e.chunk = n /\ e.type = "data"
    BY <2>2, EventTypes DEF DataEvent, Event
  <2>4. Status(h) \notin Codes
    BY <1>1, <1>4 DEF Status, Codes
  <2>5. wire'[h] = wire[h] \/ wire'[h] = Append(wire[h], e)
    BY <1>1 DEF Pushed
  <2> HIDE DEF e
  <2> QED BY <1>2, <2>2, <2>3, <2>4, <2>5, HearsNothing DEF Data
<1> QED BY <1>3, <1>4

LEMMA ExitHear ==
  ASSUME TypeOK, HearInv, NEW p \in Procs, NEW c \in Codes, Exit(p, c)
  PROVE  HearInv'
<1> SUFFICES ASSUME NEW h \in Handles PROVE HearsAll(h)'
  BY DEF HearInv
<1> DEFINE e == EndEvent(c)
<1>1. /\ exit' = [exit EXCEPT ![p] = c] /\ exit[p] = "running" /\ wire' = Pushed(p, e)
      /\ UNCHANGED <<written, attached, tail, pc, event, heard, buf, result>>
  BY DEF Exit, handleVars
<1>2. /\ HearsAll(h) /\ Amount(h) \in Nat /\ Amount(h)' = Amount(h)
      /\ Pending(h)' = Pending(h) /\ Hears(h)' = Hears(h)
      /\ buf'[h] = buf[h] /\ result'[h] = result[h]
  BY <1>1, HearTypes DEF HearInv, Pending, Hears, Amount
<1>3. e \in EventType /\ e.type = "end"
  BY EventTypes DEF EndEvent, Event
<1>4. CASE attached[h] = p
  <2>1. Status(h)' \in Codes
    BY <1>1, <1>4, StreamTypes DEF Status
  <2>2. wire'[h] = wire[h] \/ wire'[h] = Append(wire[h], e)
    BY <1>1 DEF Pushed
  <2>3. ~Data(e)
    BY <1>3 DEF Data
  <2> HIDE DEF e
  <2> QED BY <1>2, <1>3, <2>1, <2>2, <2>3, HearsNothing
<1>5. CASE attached[h] # p
  <2>1. wire'[h] = wire[h]
    BY <1>1, <1>5 DEF Pushed
  <2>2. Status(h)' = Status(h)
    BY <1>1, <1>5, StreamTypes DEF Status
  <2> QED BY <1>2, <2>1, <2>2, HearsNothing
<1> QED BY <1>4, <1>5

LEMMA KeepaliveHear ==
  ASSUME TypeOK, HearInv, NEW g \in Handles, SendKeepalive(g)
  PROVE  HearInv'
<1> SUFFICES ASSUME NEW h \in Handles PROVE HearsAll(h)'
  BY DEF HearInv
<1>1. /\ wire[g] = <<>> /\ wire' = [wire EXCEPT ![g] = <<Keepalive>>]
      /\ UNCHANGED <<written, exit, attached, pc, event, heard, buf, result>>
  BY DEF SendKeepalive, envdVars, handleVars
<1>2. /\ HearsAll(h) /\ Amount(h) \in Nat /\ Amount(h)' = Amount(h)
      /\ Pending(h)' = Pending(h) /\ Hears(h)' = Hears(h) /\ Status(h)' = Status(h)
      /\ buf'[h] = buf[h] /\ result'[h] = result[h]
  BY <1>1, HearTypes DEF HearInv, Pending, Hears, Amount, Status
<1>3. wire'[h] = wire[h] \/ wire'[h] = Append(wire[h], Keepalive)
  <2>1. Append(<<>>, Keepalive) = <<Keepalive>>
    OBVIOUS
  <2>2. wire'[h] = wire[h] \/ (h = g /\ wire'[h] = <<Keepalive>>)
    BY <1>1, StreamTypes
  <2> QED BY <1>1, <2>1, <2>2
<1>4. Keepalive \in EventType /\ Keepalive.type = "keepalive"
  BY EventTypes DEF Keepalive, Event
<1>5. ~Data(Keepalive) /\ Keepalive.type # "end"
  BY <1>4 DEF Data
<1> QED BY <1>2, <1>3, <1>4, <1>5, HearsNothing

LEMMA BreakHear ==
  ASSUME TypeOK, HearInv, NEW g \in Handles, Break(g)
  PROVE  HearInv'
<1> SUFFICES ASSUME NEW h \in Handles PROVE HearsAll(h)'
  BY DEF HearInv
<1>1. UNCHANGED <<written, exit, attached, pc, event, heard, buf, result>>
  BY DEF Break, envdVars, handleVars
<1>2. PICK k \in 0..Len(wire[g]) : wire' = [wire EXCEPT ![g] = SubSeq(@, 1, k)]
  BY DEF Break
<1>3. /\ HearsAll(h) /\ Amount(h) \in Nat /\ Amount(h)' = Amount(h)
      /\ Pending(h)' = Pending(h) /\ Hears(h)' = Hears(h) /\ Status(h)' = Status(h)
      /\ buf'[h] = buf[h] /\ result'[h] = result[h]
  BY <1>1, HearTypes DEF HearInv, Pending, Hears, Amount, Status
<1>4. CASE h # g
  <2>1. wire'[h] = wire[h]
    BY <1>2, <1>4, StreamTypes
  <2> QED BY <1>3, <2>1, HearsNothing
<1>5. CASE h = g
  <2> DEFINE q == wire[h]
             r == result[h] # NoResult
  <2>1. wire'[h] = SubSeq(q, 1, k) /\ q \in Seq(EventType) /\ k \in 0..Len(q) /\ r \in BOOLEAN
    BY <1>2, <1>5, StreamTypes
  <2>2. Flow(q, Amount(h), Status(h), r)
    BY <1>3 DEF HearsAll
  <2> HIDE DEF q, r
  <2>3. /\ Flow(SubSeq(q, 1, k), Amount(h), Status(h), r)
        /\ \A s, f : Heard(s, f, q, Amount(h)) => Heard(s, f, SubSeq(q, 1, k), Amount(h))
    BY <2>1, <2>2, CutFlow
  <2> QED BY <1>3, <2>1, <2>3 DEF HearsAll, q, r
<1> QED BY <1>4, <1>5

\* An event is received by the handle g; the others hear nothing of it.
LEMMA ReceiveHear ==
  ASSUME TypeOK, TypeOK', HearInv, NEW g \in Handles,
         RecvStart(g) \/ RecvKeepalive(g) \/ RecvEnd(g) \/ RecvData(g)
  PROVE  HearInv'
<1> SUFFICES ASSUME NEW h \in Handles PROVE HearsAll(h)'
  BY DEF HearInv
<1>1. UNCHANGED <<written, exit, attached, heard>>
  BY DEF RecvStart, RecvKeepalive, RecvEnd, RecvData, Receive, envdVars
<1>2. /\ HearsAll(h) /\ Amount(h) \in Nat /\ Amount(h)' = Amount(h)
      /\ Status(h)' = Status(h)
  BY <1>1, HearTypes DEF HearInv, Amount, Status
<1>3. CASE h # g
  <2>1. /\ wire'[h] = wire[h] /\ pc'[h] = pc[h] /\ event'[h] = event[h]
        /\ buf'[h] = buf[h] /\ result'[h] = result[h]
    BY <1>3, StreamTypes, HearTypes DEF RecvStart, RecvKeepalive, RecvEnd, RecvData, Receive
  <2>2. Pending(h)' = Pending(h) /\ Hears(h)' = Hears(h)
    BY <1>1, <2>1 DEF Pending, Hears
  <2> QED BY <1>2, <2>1, <2>2, HearsNothing
<1>4. CASE h = g
  <2> DEFINE q == wire[h]
             n == Amount(h)
             x == Status(h)
             r == result[h] # NoResult
             z == r \/ q[1].type = "end"
  <2>1. /\ q # <<>> /\ wire'[h] = Tail(q) /\ pc[h] = "recv" /\ Head(q) = q[1]
        /\ q \in Seq(EventType) /\ r \in BOOLEAN
    BY <1>4, StreamTypes DEF RecvStart, RecvKeepalive, RecvEnd, RecvData, Receive
  <2>2. Flow(q, n, x, r) /\ ~Pending(h) /\ Hears(h) = heard[h]
    BY <1>2, <2>1 DEF HearsAll, Pending, Hears
  <2>3. /\ Flow(Tail(q), n, x, z)
        /\ \A s, f : Heard(s, f, q, n) => Heard(s, f, Tail(q), n)
        /\ Data(q[1]) => ~r
    <3> HIDE DEF q, n, x, r
    <3> QED BY <1>2, <2>1, <2>2, PopFlow DEF n
  <2>4. result'[h] # NoResult => z
    BY <1>4, <2>1, StreamTypes DEF RecvStart, RecvKeepalive, RecvEnd, RecvData, Receive
  <2>5. Flow(wire'[h], n, x, result'[h] # NoResult)
    BY <2>1, <2>3, <2>4 DEF Flow
  <2>6. CASE RecvData(h)
    <3>1. /\ q[1].type = "data" /\ pc'[h] = "unlock" /\ event'[h] = q[1]
          /\ buf'[h] = [buf[h] EXCEPT ![q[1].src] = Append(@, q[1].chunk)]
          /\ result'[h] = result[h]
      BY <2>1, <2>6, StreamTypes, HearTypes DEF RecvData, Receive
    <3>2. Hears(h)' = Append(heard[h], <<q[1].src, q[1].chunk>>)
      BY <1>1, <3>1 DEF Hears, Pending
    <3>3. Data(q[1]) /\ ~r
      BY <2>3, <3>1 DEF Data
    <3>4. ASSUME h \in Listeners PROVE Heard(Hears(h)', buf'[h], wire'[h], n)
      <4>1. heard[h] \in Hearings /\ buf[h] \in Writes
        BY HearTypes
      <4>2. Heard(heard[h], buf[h], q, n)
        BY <1>2, <2>2, <3>4 DEF HearsAll
      <4> HIDE DEF q, n, x, r
      <4>3. Heard(Append(heard[h], <<q[1].src, q[1].chunk>>),
                  [buf[h] EXCEPT ![q[1].src] = Append(@, q[1].chunk)], Tail(q), n)
        BY <1>2, <2>1, <2>2, <3>3, <4>1, <4>2, TakeHeard DEF n
      <4> QED BY <2>1, <3>1, <3>2, <4>3
    <3> QED BY <1>2, <2>5, <3>1, <3>3, <3>4 DEF HearsAll
  <2>7. CASE RecvStart(h) \/ RecvKeepalive(h) \/ RecvEnd(h)
    <3>1. pc'[h] = "recv" /\ buf'[h] = buf[h]
      BY <2>1, <2>7 DEF RecvStart, RecvKeepalive, RecvEnd, Receive
    <3>2. ~Pending(h)' /\ Hears(h)' = heard[h]
      BY <1>1, <3>1 DEF Pending, Hears
    <3>3. h \in Listeners => Heard(Hears(h)', buf'[h], wire'[h], n)
      BY <1>2, <2>1, <2>2, <2>3, <3>1, <3>2 DEF HearsAll
    <3> QED BY <1>2, <2>5, <3>2, <3>3 DEF HearsAll
  <2> QED BY <1>4, <2>6, <2>7
<1> QED BY <1>3, <1>4

LEMMA StepHear ==
  TypeOK /\ StreamInv /\ SettledInv /\ HearInv /\ [Next]_vars => HearInv'
<1> SUFFICES ASSUME TypeOK, StreamInv, SettledInv, HearInv, [Next]_vars PROVE HearInv'
  OBVIOUS
<1>0. TypeOK'
  BY StepTypeOK
<1>1. ASSUME NEW h \in Handles, NEW p \in Procs, Spawn(h, p) PROVE HearInv'
  <2>1. /\ ~arrived[h] /\ AttachTo(h, p)
        /\ UNCHANGED <<written, pc, event, heard, buf, result>>
        /\ exit' = [exit EXCEPT ![p] = "running"] /\ exit[p] = "unborn"
    BY <1>1 DEF Spawn, handleVars
  <2>2. \A g \in Handles : attached[g] \in Procs => exit'[attached[g]] = exit[attached[g]]
    BY <2>1, StreamTypes, HandleAttached
  <2> QED BY <1>0, <2>1, <2>2, AttachHear
<1>2. ASSUME NEW h \in Handles, Join(h) PROVE HearInv'
  <2>1. /\ ~arrived[h] /\ AttachTo(h, pid[h])
        /\ UNCHANGED <<written, exit, pc, event, heard, buf, result>>
        /\ how[h] = "connect"
    BY <1>2 DEF Join, envdVars, handleVars
  <2>2. pid[h] \in Procs
    BY <2>1, StreamTypes
  <2> QED BY <1>0, <2>1, <2>2, AttachHear
<1>3. ASSUME NEW h \in Handles, Consume(h) \/ CallbackReturns(h) PROVE HearInv'
  BY <1>0, <1>3, ReceiveHear, CallbackHear, ClientHear DEF Consume
<1>4. CASE Envd
  BY <1>0, <1>1, <1>2, <1>4, ClientHear, KeepaliveHear, BreakHear, WriteHear, ExitHear DEF Envd
<1> QED BY <1>0, <1>3, <1>4, ClientHear DEF Next

\* Callbacks hear each chunk once and in the order of the writes, and a result
\* waits for them, however many handles share a process and however the events
\* of its two sources interleave.
THEOREM CallbacksAreFaithful == Spec => []CallbacksFaithful
<1>1. Init => HearInv
  <2> SUFFICES ASSUME Init, NEW h \in Handles PROVE HearsAll(h)
    BY DEF HearInv
  <2>1. /\ wire[h] = <<>> /\ result[h] = NoResult /\ attached[h] = NoPid /\ pc[h] = "none"
        /\ heard[h] = <<>> /\ buf[h] = Silent
    BY DEF Init
  <2>2. Amount(h) = 0 /\ Hears(h) = <<>> /\ ~Pending(h)
    BY <2>1, NoPidAssumption DEF NoPidAssumption, Amount, Hears, Pending
  <2>3. Flow(<<>>, 0, Status(h), FALSE) /\ Heard(<<>>, Silent, <<>>, 0)
    BY DEF Flow, Heard, Silent, Sources
  <2> QED BY <2>1, <2>2, <2>3 DEF HearsAll
<1>2. TypeOK /\ HearInv => CallbacksFaithful
  <2> SUFFICES ASSUME TypeOK, HearInv, NEW h \in Listeners
               PROVE  LET n == Len(heard[h]) IN
                      /\ \A i, j \in 1..n : i < j => heard[h][i][2] < heard[h][j][2]
                      /\ \A i \in 1..n : \E k \in 1..Len(buf[h][heard[h][i][1]]) :
                           buf[h][heard[h][i][1]][k] = heard[h][i][2]
                      /\ result[h] # NoResult =>
                           n = Len(buf[h]["stdout"]) + Len(buf[h]["stderr"])
    BY DEF CallbacksFaithful
  <2>1. h \in Handles
    BY OptionsAssumption DEF OptionsAssumption
  <2>2. Heard(Hears(h), buf[h], wire[h], Amount(h)) /\ (Pending(h) => result[h] = NoResult)
    BY <2>1 DEF HearInv, HearsAll
  <2>3. heard[h] \in Hearings /\ Len(heard[h]) \in Nat
    BY <2>1, HearTypes, Hearing
  <2>4. \A i \in 1..Len(heard[h]) : i \in 1..Len(Hears(h)) /\ Hears(h)[i] = heard[h][i]
    <3> DEFINE e == <<event[h].src, event[h].chunk>>
               P == Sources \X Nat
    <3>1. e \in P /\ heard[h] \in Seq(P)
      BY <2>1, <2>3, HearTypes DEF EventType, Hearings
    <3> HIDE DEF e, P
    <3>2. /\ Len(Append(heard[h], e)) = Len(heard[h]) + 1
          /\ \A i \in 1..Len(heard[h]) : Append(heard[h], e)[i] = heard[h][i]
      BY <3>1, AppendProperties
    <3> QED BY <2>3, <3>2 DEF Hears, e
  <2>5. result[h] # NoResult => Hears(h) = heard[h]
    BY <2>2 DEF Hears
  <2> QED BY <2>2, <2>4, <2>5 DEF Heard
<1> QED
  BY <1>1, <1>2, StepHear, TypeCorrect, StreamsFaithful, Settled, PTL DEF Spec
==============================================================================
