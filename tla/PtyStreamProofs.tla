--------------------------- MODULE PtyStreamProofs ---------------------------
(***************************************************************************)
(* Proofs about PtyStream, for any capacity of the channel, any window, any *)
(* number of chunks and any callers: what a reader of Output gets, and what *)
(* Wait and Kill tell.                                                     *)
(*                                                                         *)
(* OutputFaithful is inductive by itself once a chunk on its way from       *)
(* consume's hand to the channel, and from there to the reader, is seen to  *)
(* change nothing in the order of what was taken (Pushed, Handover); it is *)
(* proved over plain sequences (Faithful) so that the three changes of the *)
(* wire are lemmas without primes.  CourseInv follows consume, and every    *)
(* call of Wait and Kill, from line to line.                               *)
(***************************************************************************)
EXTENDS PtyStream, SequenceTheorems, TLAPS

Kinds  == {"start", "data", "keepalive", "end"}
Chunks == 0 .. MaxChunks
Events == [kind : Kinds, chunk : Chunks]

\* The values each variable takes.
TypeOK ==
  /\ shell \in {"running", "exited"}
  /\ printed \in Chunks
  /\ wire \in Seq(Events)
  /\ stream \in {"open", "finished", "broken"}
  /\ pc \in {"receive", "send", "closeOutput", "closeDone", "gone"}
  /\ hand \in Seq(Chunks) /\ output \in Seq(Chunks) /\ read \in Seq(Chunks)
  /\ closed \in BOOLEAN /\ result \in BOOLEAN /\ done \in BOOLEAN
  /\ pid \in {0, Pid}
  /\ err \in {"none", "stream", "early"}
  /\ waits \in [Waiters -> {"idle", "waiting", "result", "error", "nothing", "cancelled"}]
  /\ kill \in [at : {"idle", "sent", "killed", "missing", "true", "false", "error"},
               pid : {0, Pid}]

-----------------------------------------------------------------------------
(* Sequences.                                                               *)

LEMMA Cuts ==
  ASSUME NEW S, NEW s \in Seq(S), NEW k \in 0 .. Len(s)
  PROVE  /\ SubSeq(s, 1, k) \in Seq(S)
         /\ Len(SubSeq(s, 1, k)) = k
         /\ \A i \in 1 .. k : SubSeq(s, 1, k)[i] = s[i]
<1>1. \A i \in 1 .. k : s[i] \in S
  BY ElementOfSeq
<1>2. Len(s) \in Nat /\ k \in Nat
  OBVIOUS
<1> QED BY <1>1, <1>2, SubSeqProperties, Z3

LEMMA Single ==
  ASSUME NEW S, NEW e \in S
  PROVE  <<e>> \in Seq(S) /\ Len(<<e>>) = 1 /\ <<e>>[1] = e
OBVIOUS

\* A sequence is its head before its tail.
LEMMA HeadFirst ==
  ASSUME NEW S, NEW t \in Seq(S), t # <<>>
  PROVE  <<Head(t)>> \o Tail(t) = t
<1> DEFINE h == <<Head(t)>>
           u == h \o Tail(t)
<1>1. /\ Head(t) = t[1] /\ Head(t) \in S /\ Tail(t) \in Seq(S)
      /\ Len(t) \in Nat /\ Len(t) >= 1 /\ Len(Tail(t)) = Len(t) - 1
      /\ \A i \in 1 .. Len(t) - 1 : Tail(t)[i] = t[i + 1]
  BY HeadTailProperties, EmptySeq, LenProperties
<1>2. h \in Seq(S) /\ Len(h) = 1 /\ h[1] = t[1]
  BY <1>1, Single
<1> HIDE DEF h
<1>3. /\ u \in Seq(S) /\ Len(u) = Len(h) + Len(Tail(t))
      /\ \A i \in 1 .. Len(h) + Len(Tail(t)) :
           u[i] = IF i <= Len(h) THEN h[i] ELSE Tail(t)[i - Len(h)]
  <2> DEFINE v == Tail(t)
  <2>1. h \in Seq(S) /\ v \in Seq(S)
    BY <1>1, <1>2
  <2> HIDE DEF v
  <2>2. /\ h \o v \in Seq(S) /\ Len(h \o v) = Len(h) + Len(v)
        /\ \A i \in 1 .. Len(h) + Len(v) :
             (h \o v)[i] = IF i <= Len(h) THEN h[i] ELSE v[i - Len(h)]
    BY <2>1, ConcatProperties
  <2> QED BY <2>2 DEF v
<1> HIDE DEF u
<1>4. \A i \in 1 .. Len(u) : u[i] = t[i]
  <2> SUFFICES ASSUME NEW i \in 1 .. Len(t) PROVE u[i] = t[i]
    BY <1>1, <1>2, <1>3
  <2>0. i \in 1 .. Len(h) + Len(Tail(t))
    BY <1>1, <1>2
  <2>1. CASE i = 1
    <3>1. u[i] = h[i]
      BY <1>2, <1>3, <2>0, <2>1
    <3> QED BY <1>2, <2>1, <3>1
  <2>2. CASE i # 1
    <3>1. i - 1 \in 1 .. Len(t) - 1 /\ (i - 1) + 1 = i /\ ~(i <= 1)
      BY <1>1, <2>2
    <3>2. u[i] = Tail(t)[i - 1]
      BY <1>2, <1>3, <2>0, <3>1
    <3> QED BY <1>1, <3>1, <3>2
  <2> QED BY <2>1, <2>2
<1>5. Len(u) = Len(t)
  BY <1>1, <1>2, <1>3
<1>6. u = t
  BY <1>3, <1>4, <1>5, SeqEqual
<1> QED BY <1>6 DEF u, h

\* The chunk in hand joins the channel, the first of the channel is read: in
\* the order of all that was taken nothing moves.
LEMMA Pushed ==
  ASSUME NEW S, NEW r \in Seq(S), NEW o \in Seq(S), NEW h \in Seq(S)
  PROVE  (r \o (o \o h)) \o <<>> = (r \o o) \o h
<1>1. r \o (o \o h) = (r \o o) \o h
  BY ConcatAssociative
<1>2. (r \o o) \o h \in Seq(S)
  BY ConcatProperties
<1> QED BY <1>1, <1>2, ConcatEmptySeq

LEMMA Handover ==
  ASSUME NEW S, NEW r \in Seq(S), NEW o \in Seq(S), o # <<>>
  PROVE  Append(r, Head(o)) \o Tail(o) = r \o o
<1> DEFINE T == Seq(S)
           h == <<Head(o)>>
           t == Tail(o)
           a == Append(r, Head(o))
<1>1. Head(o) \in S /\ t \in T
  BY HeadTailProperties
<1>2. r \in T /\ h \in T /\ t \in T
  BY <1>1, Single
<1>3. a = r \o h /\ o = h \o t
  BY <1>1, AppendIsConcat, HeadFirst
<1>4. \A x, y, z \in T : (x \o y) \o z = x \o (y \o z)
  BY ConcatAssociative
<1> HIDE DEF T, h, t, a
<1>5. (r \o h) \o t = r \o (h \o t)
  BY <1>2, <1>4
<1>6. a \o t = r \o o
  BY <1>3, <1>5
<1> QED BY <1>6 DEF a, t

-----------------------------------------------------------------------------
(* Types.                                                                   *)

LEMMA InitTypes == Init => TypeOK
<1> SUFFICES ASSUME Init PROVE TypeOK
  OBVIOUS
<1>1. Event("start", 0) \in Events /\ 0 \in Chunks
  BY MaxChunksAssumption DEF MaxChunksAssumption, Event, Events, Kinds, Chunks
<1>2. wire \in Seq(Events)
  <2> DEFINE E == Events
             e == Event("start", 0)
  <2>1. wire = <<e>> /\ e \in E
    BY <1>1 DEF Init
  <2> HIDE DEF E, e
  <2>2. wire \in Seq(E)
    BY <2>1, Single
  <2> QED BY <2>2 DEF E
<1>3. kill \in [at : {"idle", "sent", "killed", "missing", "true", "false", "error"},
                pid : {0, Pid}]
  BY DEF Init
<1>4. /\ hand \in Seq(Chunks) /\ output \in Seq(Chunks) /\ read \in Seq(Chunks)
  BY DEF Init
<1>5. waits \in [Waiters -> {"idle", "waiting", "result", "error", "nothing", "cancelled"}]
  BY DEF Init
<1> QED BY <1>1, <1>2, <1>3, <1>4, <1>5 DEF Init, TypeOK

LEMMA EnvdTypes ==
  ASSUME TypeOK, Emit \/ Keepalive \/ Exit \/ SendEnd \/ CutShort \/ Break
  PROVE  TypeOK'
<1>1. CASE Emit \/ Keepalive \/ SendEnd
  <2>1. /\ printed' \in Chunks /\ stream' \in {"open", "finished", "broken"}
        /\ UNCHANGED <<shell, pc, hand, output, closed, read, handle, waits, kill>>
    <3>1. 0 \in Chunks /\ (printed < MaxChunks => printed + 1 \in Chunks)
      BY MaxChunksAssumption DEF MaxChunksAssumption, TypeOK, Chunks
    <3> QED BY <1>1, <3>1 DEF TypeOK, Emit, Keepalive, SendEnd, terminal, channel, Sendable
  <2>2. \E e \in Events : wire' = Append(wire, e)
    <3>1. /\ Event("keepalive", 0) \in Events /\ Event("end", 0) \in Events
          /\ printed < MaxChunks => Event("data", printed + 1) \in Events
      BY MaxChunksAssumption
      DEF MaxChunksAssumption, TypeOK, Event, Events, Kinds, Chunks
    <3> QED BY <1>1, <3>1 DEF Emit, Keepalive, SendEnd
  <2>3. wire' \in Seq(Events)
    BY <2>2, AppendProperties DEF TypeOK
  <2> QED BY <2>1, <2>3 DEF TypeOK, handle
<1>2. CASE Exit
  BY <1>2 DEF Exit, TypeOK, link, channel, handle
<1>3. CASE CutShort
  BY <1>3 DEF CutShort, TypeOK, terminal, channel, handle
<1>4. CASE Break
  <2>1. wire' \in Seq(Events)
    BY <1>4, Cuts DEF Break, TypeOK
  <2> QED BY <1>4, <2>1 DEF Break, TypeOK, terminal, channel, handle
<1> QED BY <1>1, <1>2, <1>3, <1>4

LEMMA ConsumeTypes ==
  ASSUME TypeOK, Consume
  PROVE  TypeOK'
<1> USE DEF terminal, link, channel, handle
<1>0. wire # <<>> => Tail(wire) \in Seq(Events) /\ Head(wire) \in Events
  BY HeadTailProperties DEF TypeOK
<1>1. CASE RecvStart \/ RecvEnd \/ RecvKeepalive
  BY <1>0, <1>1 DEF RecvStart, RecvEnd, RecvKeepalive, Receives, TypeOK
<1>2. CASE RecvData
  <2>1. Head(wire).chunk \in Chunks
    BY <1>0, <1>2 DEF RecvData, Receives, Events
  <2>2. hand' \in Seq(Chunks)
    BY <1>2, <2>1, Single DEF RecvData
  <2> QED BY <1>0, <1>2, <2>2 DEF RecvData, Receives, TypeOK
<1>3. CASE PushOutput
  <2>1. output' \in Seq(Chunks) /\ hand' \in Seq(Chunks)
    BY <1>3, ConcatProperties DEF PushOutput, TypeOK
  <2> QED BY <1>3, <2>1 DEF PushOutput, TypeOK
<1>4. CASE StreamOver
  BY <1>4 DEF StreamOver, TypeOK
<1>5. CASE CloseOutput
  BY <1>5 DEF CloseOutput, TypeOK
<1>6. CASE CloseDone
  BY <1>6 DEF CloseDone, TypeOK
<1> QED BY <1>1, <1>2, <1>3, <1>4, <1>5, <1>6 DEF Consume

LEMMA ClientTypes ==
  ASSUME TypeOK, Client \/ Signal
  PROVE  TypeOK'
<1> USE DEF terminal, link, channel, handle
<1>1. CASE Read
  <2>1. Head(output) \in Chunks /\ output' \in Seq(Chunks)
    BY <1>1, HeadTailProperties DEF Read, TypeOK
  <2>2. read' \in Seq(Chunks)
    BY <1>1, <2>1, AppendProperties DEF Read, TypeOK
  <2> QED BY <1>1, <2>1, <2>2 DEF Read, TypeOK
<1>2. CASE Kill \/ KillReturns \/ KillFails \/ Signal
  <2> DEFINE A == {"idle", "sent", "killed", "missing", "true", "false", "error"}
             P == {0, Pid}
  <2>1. kill \in [at : A, pid : P] /\ pid \in P
    BY DEF TypeOK
  <2>2. {"sent", "killed", "missing", "true", "false", "error"} \subseteq A
    OBVIOUS
  <2>3. /\ shell' \in {"running", "exited"}
        /\ UNCHANGED <<printed, link, pc, channel, read, handle, waits>>
    BY <1>2 DEF Kill, KillReturns, KillFails, Signal, TypeOK
  <2> HIDE DEF A, P
  <2>4. kill' \in [at : A, pid : P]
    BY <1>2, <2>1, <2>2 DEF Kill, KillReturns, KillFails, Signal
  <2> QED BY <2>3, <2>4 DEF TypeOK, A, P
<1>3. ASSUME NEW w \in Waiters, Wait(w) \/ WaitDone(w) \/ WaitExpired(w)
      PROVE  TypeOK'
  BY <1>3 DEF Wait, WaitDone, WaitExpired, TypeOK
<1> QED BY <1>1, <1>2, <1>3 DEF Client

LEMMA StepTypes == TypeOK /\ [Next]_vars => TypeOK'
<1> SUFFICES ASSUME TypeOK, [Next]_vars PROVE TypeOK'
  OBVIOUS
<1>1. CASE UNCHANGED vars
  BY <1>1 DEF TypeOK, vars
<1> QED BY <1>1, EnvdTypes, ConsumeTypes, ClientTypes DEF Next, Envd

\* Every variable keeps its type, for any constants.
THEOREM TypeCorrect == Spec => []TypeOK
<1> QED BY InitTypes, StepTypes, PTL DEF Spec

-----------------------------------------------------------------------------
(* What a reader of Output gets.                                            *)

\* OutputFaithful of the chunks t that were taken, the wire w, p chunks
\* printed, and a connection that is intact or not.
Faithful(t, w, p, intact) ==
  /\ \A i \in 1 .. Len(t) : t[i] = i
  /\ \A i, j \in 1 .. Len(w) :
       i < j /\ w[i].kind = "data" /\ w[j].kind = "data" => w[i].chunk < w[j].chunk
  /\ \A j \in 1 .. Len(w) : w[j].kind = "data" =>
       /\ Len(t) + 1 <= w[j].chunk /\ w[j].chunk <= p
       /\ \A n \in Len(t) + 1 .. w[j].chunk - 1 :
            \E i \in 1 .. j : w[i] = Event("data", n)
  /\ Len(t) <= p
  /\ intact => \A n \in Len(t) + 1 .. p : \E i \in 1 .. Len(w) : w[i] = Event("data", n)

\* The wires of the lemmas below: any events, any chunks.
AnyEvent == [kind : Kinds, chunk : Nat]

\* The next chunk, or an event that carries none, is put on an intact wire.
LEMMA Sent ==
  ASSUME NEW t \in Seq(Nat), NEW w \in Seq(AnyEvent), NEW p \in Nat,
         NEW e \in AnyEvent, NEW q \in Nat,
         Faithful(t, w, p, TRUE),
         \/ e = Event("data", p + 1) /\ q = p + 1
         \/ e.kind # "data" /\ q = p
  PROVE  Faithful(t, Append(w, e), q, TRUE)
<1> DEFINE v == Append(w, e)
           k == Len(w) + 1
           next == Len(t) + 1
<1>1. /\ Len(w) \in Nat /\ Len(t) \in Nat /\ Len(v) = k /\ v[k] = e
      /\ \A i \in 1 .. Len(w) : v[i] = w[i] /\ w[i].chunk \in Nat
  <2> DEFINE E == AnyEvent
  <2>1. w \in Seq(E) /\ e \in E /\ \A x \in E : x.chunk \in Nat
    BY DEF AnyEvent
  <2>2. Len(w) \in Nat /\ Len(t) \in Nat
    BY LenProperties
  <2> HIDE DEF E
  <2> QED BY <2>1, <2>2, AppendProperties, ElementOfSeq
<1> HIDE DEF v
<1>2. \A j \in 1 .. Len(v) : j \in 1 .. Len(w) \/ j = k
  BY <1>1
<1>3. e.kind = "data" => e.chunk = p + 1 /\ q = p + 1
  BY DEF Event
<1>4. q >= p /\ Len(t) <= q /\ next \in Nat /\ k \in Nat
  BY <1>1 DEF Faithful
<1>5. \A i, j \in 1 .. Len(v) :
        i < j /\ v[i].kind = "data" /\ v[j].kind = "data" => v[i].chunk < v[j].chunk
  <2> SUFFICES ASSUME NEW i \in 1 .. Len(v), NEW j \in 1 .. Len(v), i < j,
                      v[i].kind = "data", v[j].kind = "data"
               PROVE  v[i].chunk < v[j].chunk
    OBVIOUS
  <2>1. i \in 1 .. Len(w)
    BY <1>1
  <2>2. CASE j = k
    <3>1. w[i].chunk <= p /\ v[i] = w[i]
      BY <1>1, <2>1 DEF Faithful
    <3> QED BY <1>1, <1>3, <2>1, <2>2, <3>1
  <2>3. CASE j \in 1 .. Len(w)
    BY <1>1, <2>1, <2>3 DEF Faithful
  <2> QED BY <1>2, <2>2, <2>3
<1>6. \A n \in next .. q : \E i \in 1 .. Len(v) : v[i] = Event("data", n)
  <2> SUFFICES ASSUME NEW n \in next .. q
               PROVE  \E i \in 1 .. Len(v) : v[i] = Event("data", n)
    OBVIOUS
  <2>1. CASE n \in next .. p
    <3>1. PICK i \in 1 .. Len(w) : w[i] = Event("data", n)
      BY <2>1 DEF Faithful
    <3>2. i \in 1 .. Len(v)
      BY <1>1
    <3> QED BY <1>1, <3>1, <3>2
  <2>2. CASE n \notin next .. p
    <3>1. n = p + 1 /\ e = Event("data", p + 1)
      BY <1>4, <2>2
    <3> QED BY <1>1, <3>1
  <2> QED BY <2>1, <2>2
<1>7. \A j \in 1 .. Len(v) : v[j].kind = "data" =>
        /\ next <= v[j].chunk /\ v[j].chunk <= q
        /\ \A n \in next .. v[j].chunk - 1 : \E i \in 1 .. j : v[i] = Event("data", n)
  <2> SUFFICES ASSUME NEW j \in 1 .. Len(v), v[j].kind = "data"
               PROVE  /\ next <= v[j].chunk /\ v[j].chunk <= q
                      /\ \A n \in next .. v[j].chunk - 1 :
                           \E i \in 1 .. j : v[i] = Event("data", n)
    OBVIOUS
  <2>1. CASE j \in 1 .. Len(w)
    <3>1. v[j] = w[j] /\ \A i \in 1 .. j : v[i] = w[i]
      BY <1>1, <2>1
    <3>2. /\ next <= w[j].chunk /\ w[j].chunk <= p
          /\ \A n \in next .. w[j].chunk - 1 : \E i \in 1 .. j : w[i] = Event("data", n)
      BY <2>1, <3>1 DEF Faithful
    <3> QED BY <1>1, <1>4, <2>1, <3>1, <3>2
  <2>2. CASE j = k
    <3>1. v[j].chunk = p + 1 /\ q = p + 1
      BY <1>1, <1>3, <2>2
    <3>2. next <= p + 1
      BY <1>1 DEF Faithful
    <3>3. \A n \in next .. p : \E i \in 1 .. Len(v) : v[i] = Event("data", n)
      BY <1>4, <1>6
    <3> QED BY <1>1, <2>2, <3>1, <3>2, <3>3
  <2> QED BY <1>2, <2>1, <2>2
<1>8. \A i \in 1 .. Len(t) : t[i] = i
  BY DEF Faithful
<1> QED BY <1>4, <1>5, <1>6, <1>7, <1>8 DEF Faithful, v

\* What is left of the wire is its beginning.
LEMMA Shortened ==
  ASSUME NEW t \in Seq(Nat), NEW w \in Seq(AnyEvent), NEW p \in Nat,
         NEW intact \in BOOLEAN, NEW k \in 0 .. Len(w),
         Faithful(t, w, p, intact)
  PROVE  Faithful(t, SubSeq(w, 1, k), p, FALSE)
<1> DEFINE v == SubSeq(w, 1, k)
<1>1. Len(v) = k /\ \A i \in 1 .. k : v[i] = w[i]
  BY Cuts
<1>2. Len(w) \in Nat
  BY LenProperties
<1>3. /\ \A j \in 1 .. k : j \in 1 .. Len(w)
      /\ \A j \in 1 .. k : \A i \in 1 .. j : i \in 1 .. k
  BY <1>2
<1> HIDE DEF v
<1> QED BY <1>1, <1>3 DEF Faithful, v

\* The first event of the wire is received: if it carries a chunk, it is the
\* one that comes next.
LEMMA Received ==
  ASSUME NEW t \in Seq(Nat), NEW w \in Seq(AnyEvent), w # <<>>, NEW p \in Nat,
         NEW intact \in BOOLEAN, NEW u \in Seq(Nat),
         Faithful(t, w, p, intact),
         \/ w[1].kind = "data" /\ u = Append(t, w[1].chunk)
         \/ w[1].kind # "data" /\ u = t
  PROVE  Faithful(u, Tail(w), p, intact)
<1> DEFINE v == Tail(w)
           next == Len(t) + 1
           after == Len(u) + 1
<1>1. /\ Len(w) \in Nat /\ Len(w) >= 1 /\ Len(t) \in Nat /\ Len(u) \in Nat
      /\ Len(v) = Len(w) - 1
      /\ \A i \in 1 .. Len(w) : w[i].chunk \in Nat
      /\ \A i \in 1 .. Len(v) : v[i] = w[i + 1]
  <2> DEFINE E == AnyEvent
  <2>1. w \in Seq(E) /\ \A x \in E : x.chunk \in Nat
    BY DEF AnyEvent
  <2>2. Len(w) \in Nat /\ Len(t) \in Nat /\ Len(u) \in Nat /\ Len(w) >= 1
    BY LenProperties, EmptySeq
  <2> HIDE DEF E
  <2>3. \A i \in 1 .. Len(w) : w[i] \in E
    BY <2>1, ElementOfSeq
  <2> QED BY <2>1, <2>2, <2>3, HeadTailProperties
<1> HIDE DEF v
<1>2. /\ \A j \in 1 .. Len(v) : j + 1 \in 1 .. Len(w)
      /\ \A i \in 1 .. Len(w) : i # 1 => i - 1 \in 1 .. Len(v) /\ (i - 1) + 1 = i
      /\ 1 \in 1 .. Len(w) /\ next \in Nat /\ next >= 1
  BY <1>1
<1>3. w[1].kind = "data" => w[1].chunk = next
  <2> SUFFICES ASSUME w[1].kind = "data" PROVE w[1].chunk = next
    OBVIOUS
  <2>1. next <= w[1].chunk /\ w[1].chunk \in Nat
    BY <1>1, <1>2 DEF Faithful
  <2>2. next # w[1].chunk => \E i \in 1 .. 1 : w[i] = Event("data", next)
    <3>1. next # w[1].chunk => next \in next .. w[1].chunk - 1
      BY <1>2, <2>1
    <3> QED BY <1>2, <3>1 DEF Faithful
  <2> QED BY <2>2 DEF Event
<1>4. /\ after \in Nat /\ after >= next
      /\ w[1].kind = "data" => after = next + 1
      /\ w[1].kind # "data" => after = next
      /\ \A i \in 1 .. Len(u) : u[i] = i
  <2>1. CASE w[1].kind # "data"
    BY <1>1, <2>1 DEF Faithful
  <2>2. CASE w[1].kind = "data"
    <3>1. u = Append(t, next) /\ next \in Nat
      BY <1>2, <1>3, <2>2
    <3>2. /\ Len(u) = next /\ u[next] = next
          /\ \A i \in 1 .. Len(t) : u[i] = t[i] /\ t[i] = i
      BY <3>1, AppendProperties DEF Faithful
    <3>3. \A i \in 1 .. Len(u) : i \in 1 .. Len(t) \/ i = next
      BY <1>1, <3>2
    <3>4. \A i \in 1 .. Len(u) : u[i] = i
      BY <3>2, <3>3
    <3>5. after = next + 1
      BY <3>2
    <3> HIDE DEF after, next
    <3> QED BY <1>2, <2>2, <3>4, <3>5
  <2> QED BY <2>1, <2>2
<1> HIDE DEF after
<1>5. ASSUME NEW m \in 1 .. Len(w), NEW n \in Nat, n >= after, w[m] = Event("data", n)
      PROVE  m - 1 \in 1 .. Len(v) /\ v[m - 1] = Event("data", n)
  <2>1. m # 1
    <3> SUFFICES ASSUME m = 1 PROVE FALSE
      OBVIOUS
    <3>1. w[1].kind = "data" /\ w[1].chunk = n
      BY <1>5 DEF Event
    <3> QED BY <1>2, <1>3, <1>4, <1>5, <3>1
  <2> QED BY <1>1, <1>2, <1>5, <2>1
<1>6. \A i, j \in 1 .. Len(v) :
        i < j /\ v[i].kind = "data" /\ v[j].kind = "data" => v[i].chunk < v[j].chunk
  <2> SUFFICES ASSUME NEW i \in 1 .. Len(v), NEW j \in 1 .. Len(v), i < j,
                      v[i].kind = "data", v[j].kind = "data"
               PROVE  v[i].chunk < v[j].chunk
    OBVIOUS
  <2>1. i + 1 < j + 1 /\ i + 1 \in 1 .. Len(w) /\ j + 1 \in 1 .. Len(w)
    BY <1>2
  <2> QED BY <1>1, <2>1 DEF Faithful
<1>7. ASSUME NEW j \in 1 .. Len(v), v[j].kind = "data"
      PROVE  /\ after <= v[j].chunk /\ v[j].chunk <= p
             /\ \A n \in after .. v[j].chunk - 1 :
                  \E i \in 1 .. j : v[i] = Event("data", n)
  <2>1. /\ v[j] = w[j + 1] /\ j + 1 \in 1 .. Len(w) /\ 1 < j + 1
        /\ v[j].chunk \in Nat
    BY <1>1, <1>2
  <2>2. /\ next <= v[j].chunk /\ v[j].chunk <= p
        /\ \A n \in next .. v[j].chunk - 1 :
             \E i \in 1 .. j + 1 : w[i] = Event("data", n)
    BY <1>7, <2>1 DEF Faithful
  <2>3. after <= v[j].chunk
    <3>1. w[1].kind = "data" => w[1].chunk < v[j].chunk
      BY <1>2, <1>7, <2>1 DEF Faithful
    <3> QED BY <1>2, <1>3, <1>4, <2>1, <2>2, <3>1
  <2>4. ASSUME NEW n \in after .. v[j].chunk - 1
        PROVE  \E i \in 1 .. j : v[i] = Event("data", n)
    <3>1. n \in next .. v[j].chunk - 1 /\ n \in Nat /\ n >= after
      BY <1>2, <1>4, <2>1
    <3>2. PICK m \in 1 .. j + 1 : w[m] = Event("data", n)
      BY <2>2, <3>1
    <3>3. m \in 1 .. Len(w)
      BY <1>1, <2>1
    <3>4. m - 1 \in 1 .. Len(v) /\ v[m - 1] = Event("data", n)
      BY <1>5, <3>1, <3>2, <3>3
    <3> QED BY <3>2, <3>4
  <2> QED BY <2>2, <2>3, <2>4
<1>8. after <= p + 1
  <2>1. CASE w[1].kind = "data"
    <3>1. w[1].chunk <= p
      BY <1>2, <2>1 DEF Faithful
    <3> QED BY <1>2, <1>3, <1>4, <2>1, <3>1
  <2>2. CASE w[1].kind # "data"
    BY <1>1, <1>4, <2>2 DEF Faithful
  <2> QED BY <2>1, <2>2
<1>9. ASSUME intact, NEW n \in after .. p
      PROVE  \E i \in 1 .. Len(v) : v[i] = Event("data", n)
  <2>1. n \in next .. p /\ n \in Nat /\ n >= after
    BY <1>2, <1>4
  <2>2. PICK m \in 1 .. Len(w) : w[m] = Event("data", n)
    BY <1>9, <2>1 DEF Faithful
  <2> QED BY <1>5, <2>1, <2>2
<1>10. Len(u) <= p
  BY <1>1, <1>8 DEF after
<1> QED BY <1>4, <1>6, <1>7, <1>9, <1>10 DEF Faithful, v, after

\* The state's own sequences have the types these lemmas want.
LEMMA Wires ==
  ASSUME TypeOK
  PROVE  /\ Taken \in Seq(Nat) /\ wire \in Seq(AnyEvent) /\ printed \in Nat
         /\ Len(Taken) \in Nat
         /\ \A i \in 1 .. Len(wire) : wire[i].chunk \in Nat
<1>1. Chunks \subseteq Nat /\ Events \subseteq AnyEvent
  BY MaxChunksAssumption DEF MaxChunksAssumption, Chunks, Events, AnyEvent
<1>2. read \in Seq(Nat) /\ output \in Seq(Nat) /\ hand \in Seq(Nat)
  BY <1>1, SeqMonotonic DEF TypeOK
<1>3. Taken \in Seq(Nat)
  <2>1. read \o output \in Seq(Nat)
    BY <1>2, ConcatProperties
  <2> QED BY <1>2, <2>1, ConcatProperties DEF Taken
<1>4. wire \in Seq(AnyEvent)
  BY <1>1, SeqMonotonic DEF TypeOK
<1>5. \A i \in 1 .. Len(wire) : wire[i] \in AnyEvent
  BY <1>4, ElementOfSeq
<1> QED BY <1>1, <1>3, <1>4, <1>5, LenProperties DEF TypeOK, AnyEvent

\* OutputFaithful, as the lemmas see it.
Deliveries == Faithful(Taken, wire, printed, stream # "broken")

LEMMA FaithfulOutput ==
  TypeOK => Taken \in Seq(Nat) /\ (OutputFaithful <=> Deliveries)
<1> SUFFICES ASSUME TypeOK PROVE OutputFaithful <=> Deliveries
  BY Wires
<1>1. /\ Len(Taken) \in Nat /\ printed \in Nat
      /\ \A j \in 1 .. Len(wire) : wire[j].chunk \in Nat
  BY Wires
<1> DEFINE m == Len(Taken)
<1>2. m \in Nat
  BY <1>1
<1>3. OutputFaithful <=>
        /\ \A i \in 1 .. m : Taken[i] = i
        /\ \A i, j \in 1 .. Len(wire) :
             i < j /\ wire[i].kind = "data" /\ wire[j].kind = "data" =>
               wire[i].chunk < wire[j].chunk
        /\ \A j \in 1 .. Len(wire) : wire[j].kind = "data" =>
             /\ wire[j].chunk \in m + 1 .. printed
             /\ \A n \in m + 1 .. wire[j].chunk - 1 :
                  \E i \in 1 .. j : wire[i] = Event("data", n)
        /\ m <= printed
        /\ stream # "broken" =>
             \A n \in m + 1 .. printed :
               \E i \in 1 .. Len(wire) : wire[i] = Event("data", n)
  BY DEF OutputFaithful, Carries
<1>4. Deliveries <=>
        /\ \A i \in 1 .. m : Taken[i] = i
        /\ \A i, j \in 1 .. Len(wire) :
             i < j /\ wire[i].kind = "data" /\ wire[j].kind = "data" =>
               wire[i].chunk < wire[j].chunk
        /\ \A j \in 1 .. Len(wire) : wire[j].kind = "data" =>
             /\ m + 1 <= wire[j].chunk /\ wire[j].chunk <= printed
             /\ \A n \in m + 1 .. wire[j].chunk - 1 :
                  \E i \in 1 .. j : wire[i] = Event("data", n)
        /\ m <= printed
        /\ stream # "broken" =>
             \A n \in m + 1 .. printed :
               \E i \in 1 .. Len(wire) : wire[i] = Event("data", n)
  BY DEF Faithful, Deliveries
<1> HIDE DEF m
<1>5. \A j \in 1 .. Len(wire) :
        wire[j].chunk \in m + 1 .. printed
          <=> m + 1 <= wire[j].chunk /\ wire[j].chunk <= printed
  BY <1>1, <1>2
<1> QED BY <1>3, <1>4, <1>5

LEMMA FaithfulNext ==
  TypeOK' => (Taken \in Seq(Nat))' /\ (OutputFaithful' <=> Deliveries')
BY FaithfulOutput, PTL

LEMMA InitOutput == Init => OutputFaithful
<1> SUFFICES ASSUME Init PROVE OutputFaithful
  OBVIOUS
<1>1. /\ read = <<>> /\ output = <<>> /\ hand = <<>> /\ printed = 0
      /\ wire = <<Event("start", 0)>>
  BY DEF Init
<1>2. Taken = <<>> /\ Len(Taken) = 0
  BY <1>1, ConcatEmptySeq, EmptySeq DEF Taken
<1>3. Len(wire) = 1 /\ wire[1].kind = "start"
  BY <1>1 DEF Event
<1>4. \A j \in 1 .. Len(wire) : wire[j].kind # "data"
  BY <1>3
<1> QED BY <1>1, <1>2, <1>4 DEF OutputFaithful

LEMMA StepOutput ==
  ASSUME TypeOK, OutputFaithful, pc # "send" => hand = <<>>, [Next]_vars
  PROVE  OutputFaithful'
<1> USE DEF terminal, link, channel, handle
<1>0. /\ Taken \in Seq(Nat) /\ wire \in Seq(AnyEvent) /\ printed \in Nat
      /\ Faithful(Taken, wire, printed, stream # "broken")
  BY Wires, FaithfulOutput DEF Deliveries
<1>t. Taken' \in Seq(Nat) /\ (OutputFaithful' <=> Deliveries')
  BY StepTypes, FaithfulNext
<1> SUFFICES Faithful(Taken', wire', printed', stream' # "broken")
  BY <1>t DEF Deliveries
<1>1. CASE Emit \/ Keepalive \/ SendEnd
  <2>1. Taken' = Taken /\ stream # "broken" /\ stream' # "broken"
    BY <1>1 DEF Emit, Keepalive, SendEnd, Sendable, Taken
  <2>2. PICK e \in AnyEvent : /\ wire' = Append(wire, e)
                             /\ \/ e = Event("data", printed + 1) /\ printed' = printed + 1
                                \/ e.kind # "data" /\ printed' = printed
    <3>1. CASE Emit
      <4>1. Event("data", printed + 1) \in AnyEvent
        BY <1>0 DEF Event, AnyEvent, Kinds
      <4> QED BY <3>1, <4>1 DEF Emit
    <3>2. CASE Keepalive
      <4>1. Event("keepalive", 0) \in AnyEvent /\ Event("keepalive", 0).kind # "data"
        BY DEF Event, AnyEvent, Kinds
      <4> QED BY <3>2, <4>1 DEF Keepalive
    <3>3. CASE SendEnd
      <4>1. Event("end", 0) \in AnyEvent /\ Event("end", 0).kind # "data"
        BY DEF Event, AnyEvent, Kinds
      <4> QED BY <3>3, <4>1 DEF SendEnd
    <3> QED BY <1>1, <3>1, <3>2, <3>3
  <2>3. printed' \in Nat /\ Faithful(Taken, wire, printed, TRUE)
    <3>1. printed' \in Nat
      BY <1>0, <2>2
    <3>2. (stream # "broken") = TRUE
      BY <2>1
    <3>3. Faithful(Taken, wire, printed, stream # "broken")
      BY <1>0
    <3> QED BY <3>1, <3>2, <3>3
  <2>4. Faithful(Taken, Append(wire, e), printed', TRUE)
    BY <1>0, <2>2, <2>3, Sent
  <2> QED BY <2>1, <2>2, <2>4
<1>2. CASE Break
  <2>1. PICK k \in 0 .. Len(wire) : wire' = SubSeq(wire, 1, k)
    BY <1>2 DEF Break
  <2>2. Taken' = Taken /\ printed' = printed /\ stream' = "broken"
    BY <1>2 DEF Break, Taken
  <2>3. Faithful(Taken, SubSeq(wire, 1, k), printed, FALSE)
    BY <1>0, Shortened
  <2> QED BY <2>1, <2>2, <2>3
<1>3. CASE RecvStart \/ RecvData \/ RecvEnd \/ RecvKeepalive
  <2>1. /\ pc = "receive" /\ wire # <<>> /\ wire' = Tail(wire) /\ Head(wire) = wire[1]
        /\ printed' = printed /\ stream' = stream /\ hand = <<>>
    BY <1>3 DEF RecvStart, RecvData, RecvEnd, RecvKeepalive, Receives
  <2>2. \/ wire[1].kind = "data" /\ Taken' = Append(Taken, wire[1].chunk)
        \/ wire[1].kind # "data" /\ Taken' = Taken
    <3>1. CASE RecvData
      <4> DEFINE c == wire[1].chunk
                 s == read \o output
      <4>1. /\ hand' = <<c>> /\ read' = read /\ output' = output
            /\ wire[1].kind = "data"
        BY <2>1, <3>1 DEF RecvData, Receives
      <4>2. s \in Seq(Chunks) /\ c \in Chunks
        <5>1. wire[1] \in Events
          BY <2>1, HeadTailProperties DEF TypeOK
        <5> QED BY <5>1, ConcatProperties DEF TypeOK, Events
      <4>3. Taken = s \o <<>> /\ Taken' = s \o <<c>>
        BY <2>1, <4>1 DEF Taken
      <4> HIDE DEF c, s
      <4>4. Taken = s /\ Taken' = Append(s, c)
        BY <4>2, <4>3, ConcatEmptySeq, AppendIsConcat
      <4> QED BY <4>1, <4>4 DEF c
    <3>2. CASE RecvStart \/ RecvEnd \/ RecvKeepalive
      BY <2>1, <3>2 DEF RecvStart, RecvEnd, RecvKeepalive, Receives, Taken
    <3> QED BY <1>3, <3>1, <3>2
  <2>3. (stream # "broken") \in BOOLEAN
    OBVIOUS
  <2>4. Faithful(Taken', Tail(wire), printed, stream # "broken")
    BY <1>0, <1>t, <2>1, <2>2, <2>3, Received
  <2> QED BY <2>1, <2>4
<1>4. CASE /\ UNCHANGED <<wire, printed>> /\ Taken' = Taken
           /\ stream' # "broken" => stream # "broken"
  BY <1>0, <1>4 DEF Faithful
<1>5. CASE PushOutput
  <2>1. /\ output' = output \o hand /\ hand' = <<>> /\ UNCHANGED <<read, wire, printed, stream>>
    BY <1>5 DEF PushOutput
  <2>2. Taken' = Taken
    BY <2>1, Pushed DEF TypeOK, Taken
  <2> QED BY <1>4, <2>1, <2>2
<1>6. CASE Read
  <2>1. /\ read' = Append(read, Head(output)) /\ output' = Tail(output) /\ output # <<>>
        /\ UNCHANGED <<hand, wire, printed, stream>>
    BY <1>6 DEF Read
  <2>2. read' \o output' = read \o output
    BY <2>1, Handover DEF TypeOK
  <2> QED BY <1>4, <2>1, <2>2 DEF Taken
<1>7. CASE \/ Exit \/ CutShort \/ Signal \/ StreamOver \/ CloseOutput \/ CloseDone
           \/ Kill \/ KillReturns \/ KillFails \/ UNCHANGED vars
           \/ \E w \in Waiters : Wait(w) \/ WaitDone(w) \/ WaitExpired(w)
  <2>1. /\ UNCHANGED <<wire, printed, read, output, hand>>
        /\ stream' # "broken" => stream # "broken"
    BY <1>7 DEF Exit, CutShort, Signal, StreamOver, CloseOutput, CloseDone, Kill, KillReturns,
                KillFails, Wait, WaitDone, WaitExpired, vars
  <2> QED BY <1>4, <2>1 DEF Taken
<1> QED BY <1>1, <1>2, <1>3, <1>5, <1>6, <1>7 DEF Next, Envd, Consume, Client

-----------------------------------------------------------------------------
(* What Wait and Kill tell.                                                 *)

Over == {"closeOutput", "closeDone", "gone"}

\* What consume holds and has decided at each line, what an End event or a
\* result says of the terminal, and what the calls were told.
CourseInv ==
  /\ pc # "send" => hand = <<>>
  /\ done <=> pc = "gone"
  /\ pc \in {"closeDone", "gone"} => closed
  /\ pc \notin Over => err = "none"
  /\ \A i \in 1 .. Len(wire) : wire[i].kind = "end" => shell = "exited"
  /\ result => shell = "exited"
  /\ pc \in Over => stream # "open" /\ wire = <<>>
  /\ pc \in Over /\ err = "none" => result /\ Len(read) + Len(output) = printed
  /\ \A w \in Waiters :
       /\ waits[w] = "result" => done /\ err = "none"
       /\ waits[w] = "error" => done /\ err # "none"
       /\ waits[w] # "nothing"
  /\ kill.at \in {"killed", "true"} => shell = "exited"
  /\ kill.at \in {"missing", "false"} /\ kill.pid = Pid => shell = "exited"

LEMMA InitCourse == Init => CourseInv
<1> SUFFICES ASSUME Init PROVE CourseInv
  OBVIOUS
<1>1. Len(wire) = 1 /\ wire[1].kind = "start"
  BY DEF Init, Event
<1>2. \A i \in 1 .. Len(wire) : wire[i].kind # "end"
  BY <1>1
<1> QED BY <1>2 DEF Init, CourseInv, Over

LEMMA EnvdCourse ==
  ASSUME TypeOK, CourseInv, Emit \/ Keepalive \/ Exit \/ SendEnd \/ CutShort \/ Break
  PROVE  CourseInv'
<1> USE DEF terminal, link, channel, handle, Over
<1>0. Len(wire) \in Nat
  BY LenProperties DEF TypeOK
<1>1. CASE Emit \/ Keepalive \/ SendEnd
  <2>1. /\ stream = "open"
        /\ UNCHANGED <<shell, pc, hand, output, closed, read, pid, err, result, done, waits, kill>>
    BY <1>1 DEF Emit, Keepalive, SendEnd, Sendable
  <2>2. pc \notin Over
    BY <2>1 DEF CourseInv
  <2>3. PICK e \in Events : wire' = Append(wire, e) /\ (e.kind = "end" => shell = "exited")
    <3>1. /\ Event("keepalive", 0) \in Events /\ Event("end", 0) \in Events
          /\ Event("keepalive", 0).kind # "end"
          /\ printed < MaxChunks => /\ Event("data", printed + 1) \in Events
                                    /\ Event("data", printed + 1).kind # "end"
      BY MaxChunksAssumption
      DEF MaxChunksAssumption, TypeOK, Event, Events, Kinds, Chunks
    <3> QED BY <1>1, <3>1 DEF Emit, Keepalive, SendEnd
  <2>4. \A i \in 1 .. Len(wire') : wire'[i].kind = "end" => shell = "exited"
    <3>1. /\ Len(wire') = Len(wire) + 1 /\ wire'[Len(wire) + 1] = e
          /\ \A i \in 1 .. Len(wire) : wire'[i] = wire[i]
      BY <2>3, AppendProperties DEF TypeOK
    <3>2. \A i \in 1 .. Len(wire') : i \in 1 .. Len(wire) \/ i = Len(wire) + 1
      BY <1>0, <3>1
    <3>3. \A i \in 1 .. Len(wire) : wire[i].kind = "end" => shell = "exited"
      BY DEF CourseInv
    <3> QED BY <2>3, <3>1, <3>2, <3>3
  <2> QED BY <2>1, <2>2, <2>4 DEF CourseInv
<1>2. CASE Exit
  BY <1>2 DEF Exit, CourseInv
<1>3. CASE CutShort
  BY <1>3 DEF CutShort, CourseInv
<1>4. CASE Break
  <2>1. PICK k \in 0 .. Len(wire) : wire' = SubSeq(wire, 1, k)
    BY <1>4 DEF Break
  <2>2. Len(wire') = k /\ \A i \in 1 .. k : wire'[i] = wire[i]
    BY <2>1, Cuts DEF TypeOK
  <2>3. \A i \in 1 .. Len(wire') : wire'[i].kind = "end" => shell = "exited"
    BY <1>0, <2>2 DEF CourseInv
  <2>4. wire = <<>> => wire' = <<>>
    <3> SUFFICES ASSUME wire = <<>> PROVE wire' = <<>>
      OBVIOUS
    <3>1. k = 0 /\ SubSeq(wire, 1, 0) = <<>>
      BY SubSeqEmpty
    <3> QED BY <2>1, <3>1
  <2> QED BY <1>4, <2>3, <2>4 DEF Break, CourseInv
<1> QED BY <1>1, <1>2, <1>3, <1>4

LEMMA ConsumeCourse ==
  ASSUME TypeOK, OutputFaithful, CourseInv, Consume
  PROVE  CourseInv'
<1> USE DEF terminal, link, channel, handle, Over
<1>1. CASE RecvStart \/ RecvData \/ RecvEnd \/ RecvKeepalive
  <2>1. /\ pc = "receive" /\ wire # <<>> /\ wire' = Tail(wire)
        /\ UNCHANGED <<shell, printed, output, closed, read, err, done, waits, kill>>
    BY <1>1 DEF RecvStart, RecvData, RecvEnd, RecvKeepalive, Receives
  <2>2. /\ Len(wire) \in Nat /\ Len(wire) >= 1 /\ Len(wire') = Len(wire) - 1
        /\ Head(wire) = wire[1] /\ \A i \in 1 .. Len(wire') : wire'[i] = wire[i + 1]
    BY <2>1, HeadTailProperties, EmptySeq, LenProperties DEF TypeOK
  <2>3. \A i \in 1 .. Len(wire') : wire'[i].kind = "end" => shell = "exited"
    <3>1. \A i \in 1 .. Len(wire') : i + 1 \in 1 .. Len(wire)
      BY <2>2
    <3> QED BY <2>2, <3>1 DEF CourseInv
  <2>4. result' => shell = "exited"
    <3>1. Head(wire).kind = "end" => shell = "exited"
      BY <2>2 DEF CourseInv
    <3> QED BY <1>1, <3>1 DEF RecvStart, RecvData, RecvEnd, RecvKeepalive, Receives, CourseInv
  <2>5. pc' \in {"receive", "send"} /\ (pc' = "receive" => hand' = hand)
    BY <1>1, <2>1 DEF RecvStart, RecvData, RecvEnd, RecvKeepalive
  <2> QED BY <2>1, <2>3, <2>4, <2>5 DEF CourseInv
<1>2. CASE PushOutput
  BY <1>2 DEF PushOutput, CourseInv
<1>3. CASE StreamOver
  <2>1. /\ pc = "receive" /\ wire = <<>> /\ stream # "open" /\ hand = <<>>
        /\ err' = IF stream = "broken" THEN "stream" ELSE IF ~result THEN "early" ELSE "none"
        /\ pc' = "closeOutput"
        /\ UNCHANGED <<terminal, link, channel, read, pid, result, done, waits, kill>>
    BY <1>3 DEF StreamOver, CourseInv
  <2>2. err' = "none" => result /\ stream # "broken"
    BY <2>1
  <2>3. ASSUME stream # "broken" PROVE Len(read) + Len(output) = printed
    <3>1. /\ Len(Taken) \in Nat /\ printed \in Nat /\ Len(Taken) <= printed
      BY Wires DEF OutputFaithful
    <3>2. Len(wire) = 0
      BY <2>1, EmptySeq
    <3>3. \A n \in Len(Taken) + 1 .. printed : \E i \in 1 .. 0 : Carries(i, n)
      BY <2>3, <3>2 DEF OutputFaithful
    <3>4. Len(Taken) = printed
      BY <3>1, <3>3
    <3>5. Taken = read \o output /\ Len(read \o output) = Len(read) + Len(output)
      <4>1. read \o output \in Seq(Chunks) /\ Len(read \o output) = Len(read) + Len(output)
        BY ConcatProperties DEF TypeOK
      <4>2. (read \o output) \o <<>> = read \o output
        BY <4>1, ConcatEmptySeq
      <4> QED BY <2>1, <4>1, <4>2 DEF Taken
    <3> QED BY <3>4, <3>5
  <2>4. \A w \in Waiters : waits[w] \notin {"result", "error", "nothing"}
    BY <2>1 DEF CourseInv
  <2> QED BY <2>1, <2>2, <2>3, <2>4 DEF CourseInv
<1>4. CASE CloseOutput
  BY <1>4 DEF CloseOutput, CourseInv
<1>5. CASE CloseDone
  BY <1>5 DEF CloseDone, CourseInv
<1> QED BY <1>1, <1>2, <1>3, <1>4, <1>5 DEF Consume

LEMMA ClientCourse ==
  ASSUME TypeOK, CourseInv, Client \/ Signal
  PROVE  CourseInv'
<1> USE DEF terminal, link, channel, handle, Over
<1>1. CASE Read
  <2>1. /\ output # <<>> /\ read' = Append(read, Head(output)) /\ output' = Tail(output)
        /\ UNCHANGED <<terminal, link, pc, hand, closed, handle, waits, kill>>
    BY <1>1 DEF Read
  <2>2. Len(read') + Len(output') = Len(read) + Len(output)
    <3>1. Head(output) \in Chunks /\ Len(output') = Len(output) - 1 /\ Len(output) \in Nat
      BY <2>1, HeadTailProperties, LenProperties DEF TypeOK
    <3>2. Len(read') = Len(read) + 1 /\ Len(read) \in Nat
      BY <2>1, <3>1, AppendProperties, LenProperties DEF TypeOK
    <3> QED BY <3>1, <3>2
  <2> QED BY <2>1, <2>2 DEF CourseInv
<1>2. CASE Kill \/ KillReturns \/ KillFails \/ Signal
  <2>1. /\ UNCHANGED <<printed, link, pc, channel, read, handle, waits>>
        /\ shell = "exited" => shell' = "exited"
        /\ shell \in {"running", "exited"}
    BY <1>2 DEF Kill, KillReturns, KillFails, Signal, TypeOK
  <2> DEFINE A == {"idle", "sent", "killed", "missing", "true", "false", "error"}
             P == {0, Pid}
  <2>2. kill \in [at : A, pid : P] /\ pid \in P
    BY DEF TypeOK
  <2> HIDE DEF A, P
  <2>3. /\ kill'.at \in {"killed", "true"} => shell' = "exited"
        /\ kill'.at \in {"missing", "false"} /\ kill'.pid = Pid => shell' = "exited"
    <3>1. CASE Kill
      BY <3>1 DEF Kill
    <3>2. CASE KillReturns
      <4>1. /\ kill'.at = IF kill.at = "killed" THEN "true" ELSE "false"
            /\ kill'.pid = kill.pid /\ shell' = shell
            /\ kill.at \in {"killed", "missing"}
        BY <2>2, <3>2 DEF KillReturns
      <4> QED BY <4>1 DEF CourseInv
    <3>3. CASE KillFails
      BY <2>2, <3>3 DEF KillFails
    <3>4. CASE Signal
      <4>1. /\ kill'.at = IF Found THEN "killed" ELSE "missing"
            /\ kill'.pid = kill.pid
            /\ shell' = IF Found THEN "exited" ELSE shell
        BY <2>2, <3>4 DEF Signal
      <4> QED BY <2>1, <4>1 DEF Found
    <3> QED BY <1>2, <3>1, <3>2, <3>3, <3>4
  <2> QED BY <2>1, <2>3 DEF CourseInv
<1>3. ASSUME NEW w \in Waiters, Wait(w) \/ WaitDone(w) \/ WaitExpired(w)
      PROVE  CourseInv'
  <2>1. UNCHANGED <<terminal, link, pc, channel, read, handle, kill>>
    BY <1>3 DEF Wait, WaitDone, WaitExpired
  <2>2. waits \in [Waiters ->
                    {"idle", "waiting", "result", "error", "nothing", "cancelled"}]
    BY DEF TypeOK
  <2>3. \A v \in Waiters : v # w => waits'[v] = waits[v]
    BY <1>3, <2>2 DEF Wait, WaitDone, WaitExpired
  <2>4. /\ waits'[w] = "result" => done /\ err = "none"
        /\ waits'[w] = "error" => done /\ err # "none"
        /\ waits'[w] # "nothing"
    <3>1. CASE Wait(w) \/ WaitExpired(w)
      BY <2>2, <3>1 DEF Wait, WaitExpired
    <3>2. CASE WaitDone(w)
      <4>1. done /\ waits'[w] = IF err # "none" THEN "error"
                                ELSE IF result THEN "result" ELSE "nothing"
        BY <2>2, <3>2 DEF WaitDone
      <4>2. err = "none" => result
        BY <4>1 DEF CourseInv
      <4> QED BY <4>1, <4>2
    <3> QED BY <1>3, <3>1, <3>2
  <2> QED BY <2>1, <2>3, <2>4 DEF CourseInv
<1> QED BY <1>1, <1>2, <1>3 DEF Client

LEMMA StepCourse == TypeOK /\ OutputFaithful /\ CourseInv /\ [Next]_vars => CourseInv'
<1> SUFFICES ASSUME TypeOK, OutputFaithful, CourseInv, [Next]_vars PROVE CourseInv'
  OBVIOUS
<1>1. CASE UNCHANGED vars
  BY <1>1 DEF vars, CourseInv, Over
<1> QED BY <1>1, EnvdCourse, ConsumeCourse, ClientCourse DEF Next, Envd

LEMMA Invariance == Spec => [](TypeOK /\ OutputFaithful /\ CourseInv)
<1>1. TypeOK /\ OutputFaithful /\ CourseInv /\ [Next]_vars => OutputFaithful'
  BY StepOutput DEF CourseInv
<1> QED
  BY <1>1, InitTypes, InitOutput, InitCourse, StepTypes, StepCourse, PTL DEF Spec

\* A reader of Output gets what the terminal prints, each chunk once and in
\* order, whatever the capacity of the channel and the pace of the reader.
THEOREM OutputIsFaithful == Spec => []OutputFaithful
<1> QED BY Invariance, PTL

\* Wait reports an exit only of a terminal that exited and whose output is all
\* there, and Kill success only of a terminal that is gone.
THEOREM ExitIsTruthful == Spec => []ExitTruthful
<1>1. CourseInv => ExitTruthful
  BY DEF CourseInv, ExitTruthful, Over
<1> QED BY <1>1, Invariance, PTL

-----------------------------------------------------------------------------
(* The handle implements StreamContract.                                    *)

LEMMA InitPromise == Init => Promise!Init
<1> SUFFICES ASSUME Init PROVE Promise!Init
  OBVIOUS
<1>1. Taken = <<>> /\ printed = 0
  BY DEF Init, Taken
<1>2. ~Lost /\ Verdict = "pending" /\ shell # "exited"
  BY DEF Init, Lost, Verdict, Concluded
<1>3. Answers = [w \in Waiters |-> "idle"]
  BY DEF Init, Answers, Named
<1> QED BY <1>1, <1>2, <1>3 DEF Promise!Init

\* An End event is under way or has been received: receiving changes nothing
\* in that.
LEMMA EndingKept ==
  ASSUME TypeOK, wire # <<>>, wire' = Tail(wire),
         result' = (result \/ Head(wire).kind = "end")
  PROVE  Ending' <=> Ending
<1>1. /\ Len(wire) \in Nat /\ Len(wire) >= 1 /\ Len(wire') = Len(wire) - 1
      /\ Head(wire) = wire[1] /\ \A i \in 1 .. Len(wire') : wire'[i] = wire[i + 1]
  BY HeadTailProperties, EmptySeq, LenProperties DEF TypeOK
<1>2. ASSUME Ending' PROVE Ending
  <2>1. CASE result'
    <3>1. Head(wire).kind = "end" => 1 \in 1 .. Len(wire) /\ wire[1].kind = "end"
      BY <1>1
    <3> QED BY <2>1, <3>1 DEF Ending
  <2>2. ASSUME NEW i \in 1 .. Len(wire'), wire'[i].kind = "end" PROVE Ending
    <3>1. i + 1 \in 1 .. Len(wire) /\ wire[i + 1].kind = "end"
      BY <1>1, <2>2
    <3> QED BY <3>1 DEF Ending
  <2> QED BY <1>2, <2>1, <2>2 DEF Ending
<1>3. ASSUME Ending PROVE Ending'
  <2>1. CASE result
    BY <2>1 DEF Ending
  <2>2. ASSUME NEW i \in 1 .. Len(wire), wire[i].kind = "end" PROVE Ending'
    <3>1. CASE i = 1
      BY <1>1, <2>2, <3>1 DEF Ending
    <3>2. CASE i # 1
      <4>1. i - 1 \in 1 .. Len(wire') /\ wire'[i - 1].kind = "end"
        <5>1. i - 1 \in 1 .. Len(wire') /\ (i - 1) + 1 = i
          BY <1>1, <3>2
        <5> QED BY <1>1, <2>2, <5>1
      <4> QED BY <4>1 DEF Ending
    <3> QED BY <3>1, <3>2
  <2> QED BY <1>3, <2>1, <2>2 DEF Ending
<1> QED BY <1>2, <1>3

\* A formula that holds as before has the value it had.
LEMMA SameLost == (Lost' <=> Lost) => Lost' = Lost
BY DEF Lost

LEMMA EnvdPromise ==
  ASSUME TypeOK, CourseInv,
         Emit \/ Keepalive \/ Exit \/ SendEnd \/ CutShort \/ Break \/ Signal
  PROVE  [Promise!Next]_(Promise!vars)
<1>1. UNCHANGED <<Taken, Verdict, Answers>>
  <2>1. UNCHANGED <<pc, hand, output, read, err, waits>>
    BY DEF Emit, Keepalive, Exit, SendEnd, CutShort, Break, Signal, channel, handle
  <2> QED BY <2>1 DEF Taken, Verdict, Concluded, Answers
<1>2. CASE Emit
  <2>1. ~Lost /\ ~Lost' /\ shell = "running" /\ shell' = shell
    BY <1>2 DEF Emit, Sendable, Lost
  <2>2. printed' = printed + 1
    BY <1>2 DEF Emit
  <2>3. Lost' = Lost /\ (shell' = "exited") = (shell = "exited")
    BY <2>1, SameLost
  <2>4. Promise!Make
    BY <1>1, <2>1, <2>2, <2>3 DEF Promise!Make
  <2> QED BY <2>4 DEF Promise!Next
<1>3. CASE Keepalive \/ SendEnd
  <2>1. ~Lost /\ UNCHANGED <<shell, printed>>
    BY <1>3 DEF Keepalive, SendEnd, Sendable, Lost, terminal
  <2>2. ~Lost'
    <3>1. CASE Keepalive
      BY <3>1 DEF Keepalive, Sendable, Lost
    <3>2. CASE SendEnd
      <4> DEFINE e == Event("end", 0)
      <4>1. wire' = Append(wire, e) /\ stream' = "finished" /\ e \in Events
        BY <3>2, MaxChunksAssumption
        DEF SendEnd, MaxChunksAssumption, Event, Events, Kinds, Chunks
      <4>2. e.kind = "end" /\ Len(wire) \in Nat
        BY LenProperties DEF Event, TypeOK
      <4> HIDE DEF e
      <4>3. Len(wire') = Len(wire) + 1 /\ wire'[Len(wire) + 1] = e
        BY <4>1, AppendProperties DEF TypeOK
      <4>4. Len(wire) + 1 \in 1 .. Len(wire') /\ wire'[Len(wire) + 1].kind = "end"
        BY <4>2, <4>3
      <4>5. Ending'
        BY <4>4 DEF Ending
      <4> QED BY <4>1, <4>5 DEF Lost
    <3> QED BY <1>3, <3>1, <3>2
  <2>3. Lost' = Lost
    BY <2>1, <2>2, SameLost
  <2>4. UNCHANGED Promise!vars
    BY <1>1, <2>1, <2>3 DEF Promise!vars
  <2> QED BY <2>4
<1>4. CASE Exit \/ Signal
  <2>1. UNCHANGED <<printed, wire, stream, result>>
    BY <1>4 DEF Exit, Signal, link, handle
  <2>2. Lost' = Lost
    BY <2>1 DEF Lost, Ending
  <2>3. shell' = "exited" \/ shell' = shell
    BY <1>4 DEF Exit, Signal
  <2>4. CASE shell' = "exited"
    <3>1. Promise!End
      BY <1>1, <2>1, <2>2, <2>4 DEF Promise!End
    <3> QED BY <3>1 DEF Promise!Next
  <2>5. CASE shell' = shell
    <3>1. UNCHANGED Promise!vars
      BY <1>1, <2>1, <2>2, <2>5 DEF Promise!vars
    <3> QED BY <3>1
  <2> QED BY <2>3, <2>4, <2>5
<1>5. CASE CutShort \/ Break
  <2>1. UNCHANGED <<shell, printed>>
    BY <1>5 DEF CutShort, Break, terminal
  <2>2. CASE Lost'
    <3>1. Promise!Fail
      BY <1>1, <2>1, <2>2 DEF Promise!Fail
    <3> QED BY <3>1 DEF Promise!Next
  <2>3. CASE ~Lost'
    <3>1. CutShort /\ ~Lost
      BY <1>5, <2>3 DEF CutShort, Break, Lost
    <3>2. Lost' = Lost
      BY <2>3, <3>1, SameLost
    <3>3. UNCHANGED Promise!vars
      BY <1>1, <2>1, <3>2 DEF Promise!vars
    <3> QED BY <3>3
  <2> QED BY <2>2, <2>3
<1> QED BY <1>2, <1>3, <1>4, <1>5

\* A chunk received is the next one, and delivered; a loop left is a verdict.
LEMMA ConsumePromise ==
  ASSUME TypeOK, OutputFaithful, OutputFaithful', CourseInv, CourseInv', Consume
  PROVE  [Promise!Next]_(Promise!vars)
<1>1. UNCHANGED <<shell, printed, waits>>
  BY DEF Consume, RecvStart, RecvData, PushOutput, RecvEnd, RecvKeepalive,
         StreamOver, CloseOutput, CloseDone, terminal
<1>2. Answers' = Answers
  BY <1>1 DEF Answers
<1>3. CASE RecvStart \/ RecvEnd \/ RecvKeepalive \/ RecvData
  <2>1. /\ pc = "receive" /\ wire # <<>> /\ wire' = Tail(wire)
        /\ pc' \in {"receive", "send"} /\ stream' = stream
        /\ result' = (result \/ Head(wire).kind = "end")
    <3>1. result \in BOOLEAN
      BY DEF TypeOK
    <3> QED BY <1>3, <3>1 DEF RecvStart, RecvEnd, RecvKeepalive, RecvData, Receives, handle
  <2>2. Lost' = Lost
    <3>1. Ending' <=> Ending
      BY <2>1, EndingKept
    <3> QED BY <2>1, <3>1, SameLost DEF Lost
  <2>3. Verdict = "pending" /\ Verdict' = "pending"
    BY <2>1 DEF Verdict, Concluded
  <2>4. CASE RecvData
    <3> DEFINE c == Head(wire).chunk
    <3>1. hand = <<>> /\ hand' = <<c>> /\ UNCHANGED <<read, output>>
      BY <2>1, <2>4 DEF RecvData, CourseInv
    <3>2. /\ Taken \in Seq(Nat) /\ Len(Taken) \in Nat /\ Taken' = Append(Taken, c)
          /\ c \in Nat
      <4> DEFINE s == read \o output
      <4>1. s \in Seq(Chunks) /\ c \in Chunks
        <5>1. Head(wire) \in Events
          BY <2>1, HeadTailProperties DEF TypeOK
        <5> QED BY <5>1, ConcatProperties DEF TypeOK, Events
      <4>2. Taken = s \o <<>> /\ Taken' = s \o <<c>>
        BY <3>1 DEF Taken
      <4>3. Chunks \subseteq Nat
        BY DEF Chunks
      <4> HIDE DEF s, c
      <4>4. Taken = s /\ Taken' = Append(s, c)
        BY <4>1, <4>2, ConcatEmptySeq, AppendIsConcat
      <4> QED BY <4>1, <4>3, <4>4, Wires
    <3> HIDE DEF c
    <3>3. Len(Taken') = Len(Taken) + 1 /\ Taken'[Len(Taken) + 1] = c
      BY <3>2, AppendProperties
    <3>4. c = 0 + Len(Taken) + 1 /\ 0 + Len(Taken) < printed
      <4>1. Len(Taken) + 1 \in 1 .. Len(Taken')
        BY <3>2, <3>3
      <4>2. Taken'[Len(Taken) + 1] = Len(Taken) + 1 /\ Len(Taken') <= printed
        BY <1>1, <4>1 DEF OutputFaithful
      <4>3. printed \in Nat
        BY Wires
      <4> QED BY <3>2, <3>3, <4>2, <4>3
    <3>5. (shell' = "exited") = (shell = "exited")
      BY <1>1
    <3>6. Promise!Deliver
      BY <1>1, <1>2, <2>2, <2>3, <3>2, <3>4, <3>5 DEF Promise!Deliver
    <3> QED BY <3>6 DEF Promise!Next
  <2>5. CASE ~RecvData
    <3>1. Taken' = Taken
      BY <1>3, <2>5 DEF RecvStart, RecvEnd, RecvKeepalive, channel, Taken
    <3>2. UNCHANGED Promise!vars
      BY <1>1, <1>2, <2>2, <2>3, <3>1 DEF Promise!vars
    <3> QED BY <3>2
  <2> QED BY <2>4, <2>5
<1>4. CASE PushOutput \/ CloseOutput \/ CloseDone
  <2>1. UNCHANGED <<wire, stream, result, err>>
    BY <1>4 DEF PushOutput, CloseOutput, CloseDone, link, handle
  <2>2. Lost' = Lost
    BY <2>1 DEF Lost, Ending
  <2>3. Taken' = Taken
    <3>1. CASE PushOutput
      <4>1. output' = output \o hand /\ hand' = <<>> /\ read' = read
        BY <3>1 DEF PushOutput
      <4> QED BY <4>1, Pushed DEF TypeOK, Taken
    <3>2. CASE CloseOutput \/ CloseDone
      BY <3>2 DEF CloseOutput, CloseDone, channel, Taken
    <3> QED BY <1>4, <3>1, <3>2
  <2>4. Verdict' = Verdict
    BY <1>4, <2>1 DEF PushOutput, CloseOutput, CloseDone, Verdict, Concluded
  <2>5. UNCHANGED Promise!vars
    BY <1>1, <1>2, <2>2, <2>3, <2>4 DEF Promise!vars
  <2> QED BY <2>5
<1>5. CASE StreamOver
  <2>1. /\ pc = "receive" /\ wire = <<>> /\ stream \in {"finished", "broken"}
        /\ err' = IF stream = "broken" THEN "stream"
                  ELSE IF ~result THEN "early" ELSE "none"
        /\ pc' = "closeOutput"
        /\ UNCHANGED <<wire, stream, result, hand, output, read>>
    BY <1>5 DEF StreamOver, TypeOK, link, channel
  <2>2. Lost' = Lost /\ Taken' = Taken
    BY <2>1 DEF Lost, Ending, Taken
  <2>3. Verdict = "pending"
    BY <2>1 DEF Verdict, Concluded
  <2>4. Lost <=> err' # "none"
    <3>1. Len(wire) = 0
      BY <2>1, EmptySeq
    <3>2. ~ \E i \in 1 .. Len(wire) : wire[i].kind = "end"
      BY <3>1
    <3> QED BY <2>1, <3>2 DEF Lost, Ending
  <2>5. (shell' = "exited") = (shell = "exited")
    BY <1>1
  <2>6. CASE err' = "none"
    <3>1. Verdict' = "well"
      BY <2>1, <2>6 DEF Verdict, Concluded
    <3>2. shell = "exited" /\ Len(read) + Len(output) = printed /\ hand = <<>>
      BY <1>1, <2>1, <2>6 DEF CourseInv, Over
    <3>3. 0 + Len(Taken) = printed
      <4>1. /\ read \o output \in Seq(Chunks)
            /\ Len(read \o output) = Len(read) + Len(output)
        BY ConcatProperties DEF TypeOK
      <4>2. (read \o output) \o <<>> = read \o output
        BY <4>1, ConcatEmptySeq
      <4>3. Len(Taken) = printed /\ printed \in Nat
        BY <3>2, <4>1, <4>2, Wires DEF Taken
      <4> QED BY <4>3
    <3>4. Promise!HeardToTheEnd
      BY <2>4, <2>6, <3>2, <3>3 DEF Promise!HeardToTheEnd
    <3>5. Promise!Conclude
      BY <1>1, <1>2, <2>2, <2>3, <2>5, <3>1, <3>4 DEF Promise!Conclude
    <3> QED BY <3>5 DEF Promise!Next
  <2>7. CASE err' # "none"
    <3>1. Verdict' = "lost"
      BY <2>1, <2>7 DEF Verdict, Concluded
    <3>2. Promise!Conclude
      BY <1>1, <1>2, <2>2, <2>3, <2>4, <2>5, <2>7, <3>1 DEF Promise!Conclude
    <3> QED BY <3>2 DEF Promise!Next
  <2> QED BY <2>6, <2>7
<1> QED BY <1>3, <1>4, <1>5 DEF Consume

LEMMA ClientPromise ==
  ASSUME TypeOK, CourseInv, CourseInv', Client
  PROVE  [Promise!Next]_(Promise!vars)
<1>1. UNCHANGED <<shell, printed, wire, stream, pc, hand, err, result>>
  BY DEF Client, Read, Kill, KillReturns, KillFails, Wait, WaitDone, WaitExpired,
         terminal, link, channel, handle
<1>2. Lost' = Lost /\ Verdict' = Verdict
  BY <1>1 DEF Lost, Ending, Verdict, Concluded
<1>3. (shell' = "exited") = (shell = "exited")
  BY <1>1
<1>4. CASE Read \/ Kill \/ KillReturns \/ KillFails
  <2>1. Taken' = Taken
    <3>1. CASE Read
      <4>1. output # <<>> /\ read' = Append(read, Head(output)) /\ output' = Tail(output)
        BY <3>1 DEF Read
      <4>2. read' \o output' = read \o output
        BY <4>1, Handover DEF TypeOK
      <4> QED BY <1>1, <4>2 DEF Taken
    <3>2. CASE Kill \/ KillReturns \/ KillFails
      BY <3>2 DEF Kill, KillReturns, KillFails, channel, Taken
    <3> QED BY <1>4, <3>1, <3>2
  <2>2. Answers' = Answers
    BY <1>4 DEF Read, Kill, KillReturns, KillFails, Answers
  <2>3. UNCHANGED Promise!vars
    BY <1>1, <1>2, <2>1, <2>2 DEF Promise!vars
  <2> QED BY <2>3
<1>5. ASSUME NEW w \in Waiters, Wait(w) \/ WaitDone(w) \/ WaitExpired(w)
      PROVE  [Promise!Next]_(Promise!vars)
  <2>1. Taken' = Taken
    BY <1>5 DEF Wait, WaitDone, WaitExpired, channel, Taken
  <2>2. waits \in [Waiters ->
                    {"idle", "waiting", "result", "error", "nothing", "cancelled"}]
    BY DEF TypeOK
  <2>3. \A from, to : waits[w] = from /\ waits' = [waits EXCEPT ![w] = to] =>
          /\ Answers[w] = Named(from)
          /\ Answers' = [Answers EXCEPT ![w] = Named(to)]
    BY <2>2 DEF Answers
  <2>4. \A from, to : Answers[w] = from /\ Answers' = [Answers EXCEPT ![w] = to] =>
          Promise!Becomes(w, from, to)
    BY <1>1, <1>2, <1>3, <2>1 DEF Promise!Becomes
  <2>5. CASE Wait(w)
    <3>1. Answers[w] = "idle" /\ Answers' = [Answers EXCEPT ![w] = "waiting"]
      BY <2>3, <2>5 DEF Wait, Named
    <3>2. Promise!Wait(w)
      BY <2>4, <3>1 DEF Promise!Wait
    <3> QED BY <3>2 DEF Promise!Next
  <2>6. CASE WaitDone(w)
    <3>1. /\ done /\ waits[w] = "waiting"
          /\ waits' = [waits EXCEPT ![w] = IF err # "none" THEN "error"
                                          ELSE IF result THEN "result" ELSE "nothing"]
      BY <2>6 DEF WaitDone
    <3>2. Concluded /\ (err = "none" => result)
      BY <3>1 DEF CourseInv, Concluded, Over
    <3>3. Answers[w] = "waiting" /\ Answers' = [Answers EXCEPT ![w] = Verdict]
      BY <2>3, <3>1, <3>2 DEF Verdict, Named
    <3>4. Verdict # "pending"
      BY <3>2 DEF Verdict
    <3>5. Promise!Answer(w)
      BY <2>4, <3>3, <3>4 DEF Promise!Answer
    <3> QED BY <3>5 DEF Promise!Next
  <2>7. CASE WaitExpired(w)
    <3>1. Answers[w] = "waiting" /\ Answers' = [Answers EXCEPT ![w] = "gaveUp"]
      BY <2>3, <2>7 DEF WaitExpired, Named
    <3>2. Promise!GiveUp(w)
      BY <2>4, <3>1 DEF Promise!GiveUp
    <3> QED BY <3>2 DEF Promise!Next
  <2> QED BY <1>5, <2>5, <2>6, <2>7
<1> QED BY <1>4, <1>5 DEF Client

\* Whatever the capacity of the channel and the pace of its reader, the handle of
\* a terminal delivers the output in order, reaches one verdict after which it
\* takes nothing, and answers every Wait with it.
THEOREM HandleImplementsStream == Spec => ImplementsStream
<1> DEFINE I == TypeOK /\ OutputFaithful /\ CourseInv
<1>1. I /\ I' /\ [Next]_vars => [Promise!Next]_(Promise!vars)
  <2> SUFFICES ASSUME I, I', [Next]_vars PROVE [Promise!Next]_(Promise!vars)
    OBVIOUS
  <2>1. CASE UNCHANGED vars
    <3>1. UNCHANGED <<printed, Taken, Lost, Verdict, Answers>>
      BY <2>1 DEF vars, Taken, Lost, Ending, Verdict, Concluded, Answers
    <3>2. (shell' = "exited") = (shell = "exited")
      BY <2>1 DEF vars
    <3> QED BY <3>1, <3>2 DEF Promise!vars
  <2> QED
    BY <2>1, EnvdPromise, ConsumePromise, ClientPromise DEF Next, Envd
<1>2. Spec => []I
  BY Invariance
<1> QED BY <1>1, <1>2, InitPromise, PTL DEF Spec, ImplementsStream, Promise!Spec

=============================================================================
