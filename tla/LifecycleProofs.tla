--------------------------- MODULE LifecycleProofs ---------------------------
(***************************************************************************)
(* Proofs about Lifecycle, for any clients and any number of sandboxes:    *)
(* what calls answer is true of the sandbox, one Kill is believed, no      *)
(* sandbox is left behind in silence, and a walk over their list is        *)
(* faithful.                                                               *)
(*                                                                         *)
(* The argument follows one client through a step.  Fits says what its     *)
(* call means at each point of it: what the status of an answer on its way *)
(* implies about the sandbox, and what the returned error did.  Sandboxes  *)
(* only ever go onward (gone stays gone), so a step of one client leaves   *)
(* the others as they fit.                                                 *)
(*                                                                         *)
(* The walk has an invariant of its own, WalkInv: what it has gathered,    *)
(* and the page on its way, cover all who stay up to the cursor they carry.*)
(***************************************************************************)
EXTENDS Lifecycle, TLAPS

-----------------------------------------------------------------------------
(* The inductive invariant.                                                 *)

Bound(c) == call[c].at \in {"sent", "answered"} /\ call[c].id # 0

\* The sandbox of a call under way exists, in a state the call has met.
Shape(c) ==
  LET l == call[c] IN
  /\ l.at # "answered" => l.made = {}
  /\ l.at \in {"over", "walking"} => ~l.tooOld
  /\ l.tooOld => l.method = "Kill"
  /\ l.at \in {"sent", "answered"} /\ l.method # "Create" => l.id # 0
  /\ Bound(c) => state[l.id] # "none" /\ state[l.id] \in met[c]

\* What an answer on its way means.
Meaning(c) ==
  LET l == call[c] IN
  \/ l.status = 500 /\ l.made = {}
  \/ l.status = 404 /\ l.made = {} /\ l.id # 0 /\ state[l.id] = "gone"
  \/ /\ l.status = 409 /\ l.made = {} /\ l.method \in {"Pause", "Resume", "Fork"}
     /\ l.method = "Pause" => "paused" \in met[c]
  \/ /\ l.status \in {200, 201} /\ l.method \in {"Connect", "Resume"}
     /\ "running" \in met[c]
  \/ /\ l.status = 201 /\ l.method = "Create" /\ l.id # 0 /\ l.made = {l.id}
     /\ "running" \in met[c]
  \/ l.status = 201 /\ l.method = "Fork"
  \/ l.status = 204 /\ l.made = {} /\ l.method = "Pause" /\ "paused" \in met[c]
  \/ /\ l.status = 204 /\ l.made = {} /\ l.method = "Kill"
     /\ l.id # 0 /\ state[l.id] = "gone"

\* What a call that is over answered was true.
Truthful(c) ==
  LET l == call[c] IN
  /\ l.err = "none" =>
       /\ l.method = "Pause" => "paused" \in met[c]
       /\ l.method \in {"Connect", "Resume"} => "running" \in met[c]
       /\ l.method = "Kill" => "gone" \in met[c]
       /\ l.method = "Create" =>
            /\ "running" \in met[c] /\ l.id \notin old
            /\ l.id # 0 /\ state[l.id] # "none"
  /\ l.err = "NotFound" => "gone" \in met[c]
  /\ l.err = "Template" =>
       l.id # 0 /\ (state[l.id] = "gone" \/ l.id \in dropped)

Fits(c) == /\ Shape(c)
           /\ call[c].at = "answered" => Meaning(c)
           /\ call[c].at = "over" => Truthful(c)

\* A Kill that will be reported to have been done.
Toll(c) == /\ call[c].at = "answered" /\ call[c].method = "Kill"
           /\ call[c].status = 204 /\ ~call[c].tooOld

TollInv ==
  /\ \A c \in Clients : Toll(c) => killed[call[c].id] = 0
  /\ \A c, d \in Clients : Toll(c) /\ Toll(d) /\ call[c].id = call[d].id => c = d
  /\ KilledOnce

IInv == /\ TypeOK
        /\ \A c \in Clients : Fits(c)
        /\ TollInv
        /\ NoSilentLeak

-----------------------------------------------------------------------------
(* What a method returns.                                                   *)

\* No status of an answer turns into "no error" or "template error" by itself,
\* and only 404 into "not found".
LEMMA Mapped ==
  \A s \in {0, 200, 201, 204, 404, 409, 500} :
    /\ FromHTTP(s) \in Results \ {"none", "Template"}
    /\ FromHTTP(s) = "NotFound" => s = 404
BY DEF FromHTTP, Results

\* Which failures the methods forgive.
LEMMA Forgiven ==
  /\ Rest["Kill"].forgives = {404}
  /\ Rest["Pause"].forgives = {409}
  /\ \A m \in {"Create", "Connect", "Resume", "Fork"} : Rest[m].forgives = {}
BY DEF Rest, Create, Connect, Resume, Fork, Pause, Kill, Gets, Deletes, Method

LEMMA RestMethods ==
  DOMAIN Rest = {"Create", "Connect", "Resume", "Fork", "Pause", "Kill"}
BY DEF Rest

\* Whatever the call hears, it returns without an error only for a success or a
\* forgiven failure that arrived.
LEMMA Verdict ==
  ASSUME TypeOK, NEW c \in Clients, NEW arrives \in BOOLEAN
  PROVE  LET r == Returned(c, arrives) IN
         /\ r.err \in Results \ {"Template"}
         /\ r.err = "none" =>
              /\ arrives
              /\ \/ call[c].status \in 200 .. 299
                 \/ call[c].status \in Rest[call[c].method].forgives
         /\ r.err = "NotFound" => call[c].status = 404
         /\ r.value = "done" => arrives /\ call[c].status \in 200 .. 299
<1> DEFINE s == call[c].status
<1> DEFINE m == Rest[call[c].method]
<1>1. s \in {0,200,201,204,404,409,500}
  BY DEF TypeOK, CallRecord
<1>2. CASE arrives
  <2> DEFINE d == Decode(Operations[m.op].parse, Answer(c, arrives))
  <2>1. /\ d.err \in {"Transport", "none"}
        /\ d.status = s
        /\ d.field \in {0, s}
    BY <1>2, <1>1 DEF Decode, Answer
  <2> HIDE DEF d, s, m
  <2>2. Check(d) = IF s \in 200 .. 299 THEN "none" ELSE FromHTTP(s)
    BY <2>1 DEF Check
  <2>3. /\ Parsed(d, m.reads).err \in Results \ {"Template"}
        /\ Parsed(d, m.reads).err = "none" => s \in 200 .. 299
        /\ Parsed(d, m.reads).err = "NotFound" => s = 404
        /\ Parsed(d, m.reads).value # "done"
    BY <2>2, <1>1, Mapped DEF Parsed, Ok, Fail, Results
  <2>4. Returned(c, arrives) =
          IF d.err # "none" THEN Fail(d.err)
          ELSE IF d.status \in m.forgives THEN Ok("forgiven")
          ELSE IF m.reads = {} /\ Check(d) = "none" THEN Ok("done")
          ELSE IF ~m.checked /\ Check(d) = "none" /\ d.field \notin m.reads
            THEN Ok("nil")
          ELSE Parsed(d, m.reads)
    BY DEF Returned, Return, d, m
  <2>5. LET r == Returned(c, arrives) IN
         /\ r.err \in Results \ {"Template"}
         /\ r.err = "none" => (s \in 200 .. 299 \/ s \in m.forgives)
         /\ r.err = "NotFound" => s = 404
         /\ r.value = "done" => s \in 200 .. 299
    <3>1. CASE d.err # "none"
      BY <3>1, <2>1, <2>4 DEF Fail, Results
    <3>2. CASE d.err = "none" /\ d.status \in m.forgives
      BY <3>2, <2>1, <2>4 DEF Ok, Results
    <3>3. CASE d.err = "none" /\ d.status \notin m.forgives /\ Check(d) = "none"
      BY <3>3, <2>1, <2>2, <2>3, <2>4, <1>1, Mapped DEF Ok, Results
    <3>4. CASE d.err = "none" /\ d.status \notin m.forgives /\ Check(d) # "none"
      BY <3>4, <2>1, <2>2, <2>3, <2>4, <1>1, Mapped DEF Ok, Results
    <3> QED BY <3>1, <3>2, <3>3, <3>4
  <2> QED BY <2>5, <1>2 DEF s, m
<1>3. CASE ~arrives
  <2>1. Returned(c, arrives) = Fail("Transport")
    BY <1>3 DEF Returned, Answer, Return, Decode, Lost
  <2> QED BY <2>1, <1>3 DEF Fail, Results
<1> QED BY <1>2, <1>3

-----------------------------------------------------------------------------
(* A step of one client, seen by the others.                                *)

\* Sandboxes go onward, old ones are new ones, and what was handed out or
\* dropped stays so.
Onward ==
  /\ \A s \in Sandboxes : /\ state[s] = "gone" => state'[s] = "gone"
                          /\ state[s] # "none" => state'[s] # "none"
  /\ \A s \in old' \ old : state[s] = "none"
  /\ handles \subseteq handles' /\ dropped \subseteq dropped'

Undisturbed(d) ==
  /\ call'[d] = call[d]
  /\ met[d] \subseteq met'[d]
  /\ Bound(d) => state'[call[d].id] \in met'[d]

\* The sandboxes a step brings up are in the client's hands, and those that were
\* in its hands are still accounted for.
Kept(c) ==
  /\ \A s \in Sandboxes : Live(s)' => Live(s) \/ s \in call'[c].made
  /\ \A s \in Sandboxes :
       s \in call[c].made \/ (call[c].tooOld /\ call[c].id = s) =>
         \/ s \in call'[c].made \cup handles' \cup dropped'
         \/ call'[c].tooOld /\ call'[c].id = s
         \/ ~Live(s)'

\* A step makes a Kill successful only for a sandbox not yet gone, or reports
\* one that was.
Charged(c) ==
  \/ killed' = killed /\ (Toll(c)' => state[call'[c].id] # "gone"
                                     /\ state'[call'[c].id] = "gone")
  \/ /\ Toll(c) /\ ~Toll(c)'
     /\ killed' = [killed EXCEPT ![call[c].id] = @ + 1]

Effect(c) == /\ TypeOK' /\ Onward
             /\ \A d \in Clients \ {c} : Undisturbed(d)
             /\ Fits(c)' /\ Kept(c) /\ Charged(c)

LEMMA Others ==
  ASSUME TypeOK, TypeOK', Onward, NEW d \in Clients, Fits(d), Undisturbed(d)
  PROVE  Fits(d)'
<1>1. call'[d] = call[d] /\ call[d] \in CallRecord
  BY DEF Undisturbed, TypeOK
<1>2. call[d].id \in Sandboxes \cup {0}
  BY <1>1 DEF CallRecord
<1>3. 0 \notin Sandboxes
  BY DEF Sandboxes
<1>4. Shape(d)'
  BY <1>1, <1>2, <1>3 DEF Fits, Shape, Bound, Undisturbed, Onward
<1>5. ASSUME call[d].at = "answered" PROVE Meaning(d)'
  <2>1. Meaning(d)
    BY <1>5 DEF Fits
  <2>2. ASSUME call[d].id # 0, state[call[d].id] = "gone"
        PROVE  state'[call[d].id] = "gone"
    BY <2>2, <1>2 DEF Onward
  <2> QED BY <2>1, <2>2, <1>1 DEF Meaning, Undisturbed
<1>6. ASSUME call[d].at = "over" PROVE Truthful(d)'
  <2>1. Truthful(d)
    BY <1>6 DEF Fits
  <2>2. ASSUME call[d].id # 0
        PROVE  /\ state[call[d].id] = "gone" => state'[call[d].id] = "gone"
               /\ state[call[d].id] # "none" =>
                    /\ state'[call[d].id] # "none"
                    /\ call[d].id \notin old => call[d].id \notin old'
    BY <2>2, <1>2 DEF Onward
  <2> QED BY <2>1, <2>2, <1>1 DEF Truthful, Undisturbed, Onward
<1> QED BY <1>1, <1>4, <1>5, <1>6 DEF Fits

LEMMA Apart ==
  ASSUME IInv, TypeOK', NEW c \in Clients, Onward, Kept(c),
         \A d \in Clients \ {c} : Undisturbed(d)
  PROVE  NoSilentLeak'
<1> SUFFICES ASSUME NEW s \in Sandboxes, Live(s)'
             PROVE  \/ s \in handles' \cup dropped'
                    \/ \E d \in Clients : \/ s \in call'[d].made
                                          \/ call'[d].tooOld /\ call'[d].id = s
  BY DEF NoSilentLeak
<1>1. CASE s \in call'[c].made
  BY <1>1
<1>2. CASE Live(s)
  <2>1. \/ s \in handles \cup dropped
        \/ \E d \in Clients : \/ s \in call[d].made
                              \/ call[d].tooOld /\ call[d].id = s
    BY <1>2 DEF IInv, NoSilentLeak
  <2>2. CASE s \in handles \cup dropped
    BY <2>2 DEF Onward
  <2>3. ASSUME NEW d \in Clients,
               s \in call[d].made \/ (call[d].tooOld /\ call[d].id = s)
        PROVE  \/ s \in handles' \cup dropped'
               \/ \E e \in Clients : \/ s \in call'[e].made
                                     \/ call'[e].tooOld /\ call'[e].id = s
    <3>1. CASE d = c
      BY <2>3, <3>1 DEF Kept
    <3>2. CASE d # c
      BY <2>3, <3>2 DEF Undisturbed
    <3> QED BY <3>1, <3>2
  <2> QED BY <2>1, <2>2, <2>3
<1> QED BY <1>1, <1>2 DEF Kept

LEMMA Tolled ==
  ASSUME IInv, TypeOK', NEW c \in Clients, Onward, Charged(c), Fits(c)',
         \A d \in Clients \ {c} : Undisturbed(d)
  PROVE  TollInv'
<1> USE DEF IInv
<1>1. \A d \in Clients \ {c} : Toll(d)' <=> Toll(d)
  BY DEF Undisturbed, Toll
<1>2. \A d \in Clients : /\ Toll(d) => call[d].id \in Sandboxes
                                       /\ state[call[d].id] = "gone"
  <2> TAKE d \in Clients
  <2> QED BY DEF Toll, Fits, Meaning, TypeOK, CallRecord
<1>3. Toll(c)' => call'[c].id \in Sandboxes
  BY DEF Toll, Fits, Meaning, TypeOK, CallRecord
<1>4. CASE killed' = killed /\ (Toll(c)' => state[call'[c].id] # "gone"
                                          /\ state'[call'[c].id] = "gone")
  <2>1. \A d \in Clients : Toll(d)' => killed'[call'[d].id] = 0
    <3> SUFFICES ASSUME NEW d \in Clients, Toll(d)' PROVE killed'[call'[d].id] = 0
      OBVIOUS
    <3>1. CASE d = c
      BY <3>1, <1>3, <1>4 DEF TollInv, KilledOnce, TypeOK
    <3>2. CASE d # c
      BY <3>2, <1>1, <1>4 DEF TollInv, Undisturbed
    <3> QED BY <3>1, <3>2
  <2>2. ASSUME NEW d \in Clients, NEW e \in Clients, Toll(d)', Toll(e)',
               call'[d].id = call'[e].id, d # e
        PROVE  FALSE
    <3>1. CASE d # c /\ e # c
      BY <2>2, <3>1, <1>1 DEF TollInv, Undisturbed
    <3>2. CASE d = c
      BY <2>2, <3>2, <1>1, <1>2, <1>4 DEF Undisturbed
    <3>3. CASE e = c
      BY <2>2, <3>3, <1>1, <1>2, <1>4 DEF Undisturbed
    <3> QED BY <3>1, <3>2, <3>3
  <2>3. KilledOnce'
    BY <1>4 DEF TollInv, KilledOnce, Onward
  <2> QED BY <2>1, <2>2, <2>3 DEF TollInv
<1>5. CASE /\ Toll(c) /\ ~Toll(c)'
           /\ killed' = [killed EXCEPT ![call[c].id] = @ + 1]
  <2>1. call[c].id \in Sandboxes /\ state[call[c].id] = "gone" /\ killed[call[c].id] = 0
    BY <1>5, <1>2 DEF TollInv
  <2>2. \A s \in Sandboxes : killed'[s] = IF s = call[c].id THEN 1 ELSE killed[s]
    BY <1>5, <2>1 DEF TypeOK
  <2>3. \A d \in Clients : Toll(d)' => Toll(d) /\ d # c /\ call'[d].id = call[d].id
    BY <1>1, <1>5 DEF Undisturbed
  <2>4. \A d \in Clients : Toll(d)' => killed'[call'[d].id] = 0
    BY <1>2, <1>5, <2>2, <2>3 DEF TollInv
  <2>5. \A d, e \in Clients :
          Toll(d)' /\ Toll(e)' /\ call'[d].id = call'[e].id => d = e
    BY <2>3 DEF TollInv
  <2>6. KilledOnce'
    BY <2>1, <2>2 DEF TollInv, KilledOnce, Onward
  <2> QED BY <2>4, <2>5, <2>6 DEF TollInv
<1> QED BY <1>4, <1>5 DEF Charged

LEMMA OneClient ==
  ASSUME IInv, NEW c \in Clients, Effect(c)
  PROVE  IInv'
<1>1. \A d \in Clients : Fits(d)'
  <2> TAKE d \in Clients
  <2>1. CASE d = c
    BY <2>1 DEF Effect
  <2>2. CASE d # c
    BY <2>2, Others DEF Effect, IInv
  <2> QED BY <2>1, <2>2
<1>2. NoSilentLeak'
  BY Apart DEF Effect
<1>3. TollInv'
  BY Tolled DEF Effect
<1> QED BY <1>1, <1>2, <1>3 DEF IInv, Effect

-----------------------------------------------------------------------------
(* The platform's steps.                                                    *)

Statuses == {200, 201, 204, 404, 409, 500}

\* Records of calls, and what replacing some of their fields gives. (The provers
\* compare records field by field only when the fields' sets are names.)
LEMMA Recorded ==
  ASSUME NEW method \in DOMAIN Rest, NEW s \in Sandboxes \cup {0}, NEW err \in Results,
         NEW at \in {"sent", "over", "walking"}
  PROVE  Call(at, method, s, err) \in CallRecord
<1> DEFINE A == {"sent", "answered", "over", "walking"}
<1> DEFINE S == {0, 200, 201, 204, 404, 409, 500}
<1>1. at \in A /\ 0 \in S
  OBVIOUS
<1> HIDE DEF A, S
<1> DEFINE R == [at : A, method : DOMAIN Rest, id : Sandboxes \cup {0}, status : S,
                 made : SUBSET Sandboxes, tooOld : BOOLEAN, err : Results]
<1>2. CallRecord = R
  BY DEF CallRecord, A, S
<1> QED BY <1>1, <1>2 DEF Call

LEMMA Flagged ==
  ASSUME NEW l \in CallRecord
  PROVE  LET k == [l EXCEPT !.tooOld = TRUE]
         IN /\ k.at = l.at /\ k.made = l.made /\ k.id = l.id /\ k.method = l.method
            /\ k.tooOld = TRUE /\ k \in CallRecord
<1> DEFINE A == {"sent", "answered", "over", "walking"}
<1> DEFINE S == {0, 200, 201, 204, 404, 409, 500}
<1> HIDE DEF A, S
<1> DEFINE R == [at : A, method : DOMAIN Rest, id : Sandboxes \cup {0}, status : S,
                 made : SUBSET Sandboxes, tooOld : BOOLEAN, err : Results]
<1>1. CallRecord = R
  BY DEF CallRecord, A, S
<1> QED BY <1>1

LEMMA Answering ==
  ASSUME NEW l \in CallRecord, NEW status \in Statuses, NEW made \in SUBSET Sandboxes
  PROVE  LET k == [l EXCEPT !.at = "answered", !.status = status, !.made = made]
         IN /\ k.at = "answered" /\ k.status = status /\ k.made = made
            /\ k.id = l.id /\ k.method = l.method /\ k.tooOld = l.tooOld
            /\ k \in CallRecord
<1> DEFINE A == {"sent", "answered", "over", "walking"}
<1> DEFINE S == {0, 200, 201, 204, 404, 409, 500}
<1>1. "answered" \in A /\ status \in S
  BY DEF Statuses
<1> HIDE DEF A, S
<1> DEFINE R == [at : A, method : DOMAIN Rest, id : Sandboxes \cup {0}, status : S,
                 made : SUBSET Sandboxes, tooOld : BOOLEAN, err : Results]
<1>2. CallRecord = R
  BY DEF CallRecord, A, S
<1> QED BY <1>1, <1>2

LEMMA Replied ==
  ASSUME TypeOK, NEW c \in Clients, NEW status \in Statuses,
         NEW made \in SUBSET Sandboxes, Reply(c, status, made)
  PROVE  /\ call' \in [Clients -> CallRecord]
         /\ \A d \in Clients \ {c} : call'[d] = call[d]
         /\ call'[c].at = "answered" /\ call'[c].status = status
         /\ call'[c].made = made
         /\ call'[c].id = call[c].id /\ call'[c].method = call[c].method
         /\ call'[c].tooOld = call[c].tooOld
<1>1. /\ call[c] \in CallRecord
      /\ call'[c] = [call[c] EXCEPT !.at = "answered", !.status = status, !.made = made]
      /\ \A d \in Clients \ {c} : call'[d] = call[d]
      /\ DOMAIN call' = Clients /\ call' = [d \in Clients |-> call'[d]]
  BY DEF TypeOK, Reply
<1>2. /\ call'[c].at = "answered" /\ call'[c].status = status
      /\ call'[c].made = made
      /\ call'[c].id = call[c].id /\ call'[c].method = call[c].method
      /\ call'[c].tooOld = call[c].tooOld /\ call'[c] \in CallRecord
  <2> DEFINE k == [call[c] EXCEPT !.at = "answered", !.status = status, !.made = made]
  <2>1. /\ k.at = "answered" /\ k.status = status /\ k.made = made
        /\ k.id = call[c].id /\ k.method = call[c].method /\ k.tooOld = call[c].tooOld
        /\ k \in CallRecord
    BY <1>1, Answering, Zenon
  <2>2. call'[c] = k
    BY <1>1
  <2> HIDE DEF k
  <2> QED BY <2>1, <2>2
<1>3. \A d \in Clients : call'[d] \in CallRecord
  BY <1>1, <1>2 DEF TypeOK
<1> QED BY <1>1, <1>2, <1>3

LEMMA Became ==
  ASSUME TypeOK, NEW which \in SUBSET Sandboxes,
         NEW new \in {"running", "paused", "gone"}, Become(which, new),
         \A s \in which : state[s] # "gone"
  PROVE  /\ state' \in [Sandboxes -> States]
         /\ met' \in [Clients -> SUBSET States]
         /\ stayed' \subseteq Sandboxes
         /\ \A s \in Sandboxes : state'[s] = IF s \in which THEN new ELSE state[s]
         /\ \A s \in Sandboxes : /\ state[s] = "gone" => state'[s] = "gone"
                                 /\ state[s] # "none" => state'[s] # "none"
         /\ \A d \in Clients : met[d] \subseteq met'[d]
         /\ \A d \in Clients : /\ Bound(d) /\ call[d].id \in which => new \in met'[d]
                               /\ Bound(d) /\ Fits(d) => state'[call[d].id] \in met'[d]
<1>1. /\ state' \in [Sandboxes -> States] /\ stayed' \subseteq Sandboxes
      /\ \A s \in Sandboxes : state'[s] = IF s \in which THEN new ELSE state[s]
  BY DEF TypeOK, Become, States
<1>2. /\ met' \in [Clients -> SUBSET States]
      /\ \A d \in Clients : met'[d] = IF ~Idle(d) /\ call[d].id \in which
                                      THEN met[d] \cup {new} ELSE met[d]
  BY DEF TypeOK, Become, States
<1>3. ASSUME NEW d \in Clients, Bound(d)
      PROVE  /\ call[d].id \in which => new \in met'[d]
             /\ Fits(d) => state'[call[d].id] \in met'[d]
  <2>1. ~Idle(d) /\ call[d].id \in Sandboxes
    BY <1>3 DEF Bound, Idle, TypeOK, CallRecord
  <2> QED BY <2>1, <1>1, <1>2, <1>3 DEF Fits, Shape
<1> QED BY <1>1, <1>2, <1>3

\* The platform serves a call: sandboxes change, and it answers.
LEMMA Served ==
  ASSUME IInv, NEW c \in Clients, call[c].at = "sent", call[c].method # "Create",
         NEW status \in Statuses, NEW made \in SUBSET Sandboxes,
         NEW which \in SUBSET Sandboxes, NEW new \in {"running", "paused", "gone"},
         Reply(c, status, made), Become(which, new),
         \A s \in which : state[s] # "gone",
         \A s \in which : new = "gone" \/ Live(s) \/ s \in made,
         UNCHANGED <<old, asked, history>>,
         Meaning(c)',
         call[c].method = "Kill" /\ status = 204 => which = {call[c].id} /\ new = "gone"
  PROVE  Effect(c)
<1> USE DEF IInv, history
<1>1. call[c].id \in Sandboxes /\ call[c].id # 0 /\ call[c].made = {}
  BY DEF Fits, Shape, TypeOK, CallRecord
<1>2. Bound(c)
  BY <1>1 DEF Bound
<1>3. TypeOK'
  BY Replied, Became DEF TypeOK
<1>4. Onward
  BY Became DEF Onward
<1>5. \A d \in Clients \ {c} : Undisturbed(d)
  BY Replied, Became DEF Undisturbed
<1>6. Fits(c)'
  <2>1. state'[call[c].id] \in met'[c] /\ state'[call[c].id] # "none"
    BY <1>1, <1>2, Became DEF Fits, Shape
  <2>2. Shape(c)'
    BY <2>1, <1>1, Replied DEF Shape, Bound, Fits
  <2> QED BY <2>2, Replied DEF Fits
<1>7. Kept(c)
  <2>1. \A s \in Sandboxes : Live(s)' => Live(s) \/ s \in made
    BY Became DEF Live
  <2> QED BY <2>1, <1>1, Replied DEF Kept
<1>8. Charged(c)
  <2>1. ASSUME Toll(c)' PROVE state[call'[c].id] # "gone" /\ state'[call'[c].id] = "gone"
    <3>1. which = {call[c].id} /\ new = "gone"
      BY <2>1, Replied DEF Toll
    <3> QED BY <3>1, <1>1, Replied, Became
  <2> QED BY <2>1 DEF Charged
<1> QED BY <1>3, <1>4, <1>5, <1>6, <1>7, <1>8 DEF Effect

\* Connect, Resume, Pause, Kill and Fork.
LEMMA ServesSandbox ==
  ASSUME IInv, NEW c \in Clients,
         \/ ServeConnect(c) \/ ServeResume(c) \/ ServePause(c) \/ ServeKill(c)
         \/ ServeFork(c)
  PROVE  Effect(c)
<1>1. ASSUME call[c].at = "sent", call[c].method # "Create"
      PROVE  /\ Bound(c) /\ Fits(c) /\ {call[c].id} \in SUBSET Sandboxes
             /\ call[c].id \in Sandboxes /\ state[call[c].id] \in States \ {"none"}
  BY <1>1 DEF IInv, Fits, Shape, Bound, TypeOK, CallRecord
<1>2. {} \in SUBSET Sandboxes
  OBVIOUS
<1>3. CASE ServeConnect(c)
  <2>1. call[c].at = "sent" /\ call[c].method = "Connect" /\ state[call[c].id] # "gone"
    BY <1>3 DEF ServeConnect, Serving, In
  <2>2. PICK status \in {200, 201} : Reply(c, status, {call[c].id})
    BY <1>3 DEF ServeConnect
  <2>3. "running" \in met'[c]
    BY <1>1, <1>3, <2>1, Became DEF ServeConnect, IInv
  <2>4. Meaning(c)'
    BY <2>1, <2>2, <2>3, <1>1, Replied DEF Meaning, IInv, Statuses
  <2> QED BY <1>1, <1>3, <2>1, <2>2, <2>4, Served DEF ServeConnect, Statuses
<1>4. CASE ServeResume(c)
  <2>1. call[c].at = "sent" /\ call[c].method = "Resume" /\ state[call[c].id] = "paused"
    BY <1>4 DEF ServeResume, Serving, In
  <2>2. "running" \in met'[c]
    BY <1>1, <1>4, <2>1, Became DEF ServeResume, IInv
  <2>3. Meaning(c)'
    BY <2>1, <2>2, <1>1, <1>4, Replied DEF ServeResume, Meaning, IInv, Statuses
  <2> QED BY <1>1, <1>4, <2>1, <2>3, Served DEF ServeResume, Statuses
<1>5. CASE ServePause(c)
  <2>1. call[c].at = "sent" /\ call[c].method = "Pause" /\ state[call[c].id] = "running"
    BY <1>5 DEF ServePause, Serving, In
  <2>2. "paused" \in met'[c]
    BY <1>1, <1>5, <2>1, Became DEF ServePause, IInv
  <2>3. Meaning(c)'
    BY <2>1, <2>2, <1>2, <1>5, Replied DEF ServePause, Meaning, IInv, Statuses
  <2> QED BY <1>1, <1>2, <1>5, <2>1, <2>3, Served DEF ServePause, Statuses, Live
<1>6. CASE ServeKill(c)
  <2>1. call[c].at = "sent" /\ call[c].method = "Kill" /\ state[call[c].id] # "gone"
    BY <1>6 DEF ServeKill, Serving, In
  <2>2. state'[call[c].id] = "gone"
    BY <1>1, <1>6, <2>1, Became DEF ServeKill, IInv
  <2>3. Meaning(c)'
    BY <2>1, <2>2, <1>1, <1>2, <1>6, Replied DEF ServeKill, Meaning, IInv, Statuses, Bound
  <2> QED BY <1>1, <1>2, <1>6, <2>1, <2>3, Served DEF ServeKill, Statuses
<1>7. CASE ServeFork(c)
  <2>1. call[c].at = "sent" /\ call[c].method = "Fork"
    BY <1>7 DEF ServeFork, Serving
  <2>2. PICK made \in SUBSET (Sandboxes \ Known) :
          Reply(c, 201, made) /\ Become(made, "running")
    BY <1>7 DEF ServeFork
  <2>3. \A s \in made : s \in Sandboxes /\ state[s] = "none"
    BY <2>2 DEF Known
  <2>4. Meaning(c)'
    BY <2>1, <2>2, <2>3, Replied DEF Meaning, IInv, Statuses
  <2> QED BY <1>7, <2>1, <2>2, <2>3, <2>4, Served DEF ServeFork, Statuses
<1> QED BY <1>3, <1>4, <1>5, <1>6, <1>7

\* The answers that change no sandbox.
LEMMA Declined ==
  ASSUME IInv, NEW c \in Clients, Refuse(c) \/ ServeConflict(c) \/ ServeMissing(c)
  PROVE  Effect(c)
<1> USE DEF IInv, history
<1>1. {} \in SUBSET Sandboxes
  OBVIOUS
<1>2. PICK status \in {404, 409, 500} :
        /\ Same(c, status) /\ call[c].at = "sent"
        /\ status = 404 => /\ call[c].method # "Create" /\ state[call[c].id] = "gone"
        /\ status = 409 => /\ call[c].method \in {"Pause", "Resume", "Fork"}
                           /\ call[c].method = "Pause" => state[call[c].id] = "paused"
  BY DEF Refuse, ServeConflict, ServeMissing, Serving, In
<1>3. Reply(c, status, {}) /\ UNCHANGED <<state, old, asked, met, history, stayed>>
  BY <1>2 DEF Same
<1>4. Fits(c) /\ Shape(c) /\ call[c].made = {}
  BY <1>2 DEF Fits, Shape
<1>5. TypeOK'
  BY <1>1, <1>3, Replied DEF TypeOK, Statuses
<1>6. Shape(c)'
  BY <1>1, <1>2, <1>3, <1>4, Replied DEF Shape, Bound, Statuses
<1>7. Meaning(c)'
  <2>1. call[c].method # "Create" => call[c].id # 0 /\ state[call[c].id] \in met[c]
    BY <1>2, <1>4 DEF Shape, Bound
  <2> QED BY <2>1, <1>1, <1>2, <1>3, Replied DEF Meaning, Statuses
<1>8. ~Toll(c)'
  BY <1>1, <1>2, <1>3, Replied DEF Toll, Statuses
<1>9. Fits(c)'
  BY <1>1, <1>3, <1>6, <1>7, Replied DEF Fits, Statuses
<1>10. Onward /\ Charged(c)
  BY <1>3, <1>8 DEF Onward, Charged
<1>11. \A d \in Clients \ {c} : Undisturbed(d)
  BY <1>1, <1>3, Replied DEF Undisturbed, Fits, Shape, Statuses
<1>12. Kept(c)
  BY <1>1, <1>3, <1>4, Replied DEF Kept, Live, Statuses
<1> QED BY <1>5, <1>9, <1>10, <1>11, <1>12 DEF Effect

\* A new sandbox starts a history of its own.
LEMMA ServingCreate ==
  ASSUME IInv, NEW c \in Clients, ServeCreate(c)
  PROVE  Effect(c)
<1> USE DEF IInv, history
<1>1. PICK s \in Sandboxes \ Known :
        /\ call[c].at = "sent" /\ call[c].method = "Create"
        /\ state' = [state EXCEPT ![s] = "running"]
        /\ met' = [met EXCEPT ![c] = {"running"}]
        /\ old' \in {old, old \cup {s}}
        /\ call' = [call EXCEPT ![c].at = "answered", ![c].status = 201,
                                ![c].made = {s}, ![c].id = s]
        /\ UNCHANGED <<asked, history, stayed>>
  BY DEF ServeCreate, Serving
<1>2. s \in Sandboxes /\ s # 0 /\ state[s] = "none"
  BY <1>1 DEF Known, Sandboxes
<1>3. /\ call'[c].at = "answered" /\ call'[c].status = 201 /\ call'[c].made = {s}
      /\ call'[c].id = s /\ call'[c].method = "Create"
      /\ call'[c].tooOld = call[c].tooOld /\ call'[c].err = call[c].err
      /\ \A d \in Clients \ {c} : call'[d] = call[d]
      /\ call' \in [Clients -> CallRecord]
  <2> DEFINE k == [call[c] EXCEPT !.at = "answered", !.status = 201,
                                  !.made = {s}, !.id = s]
  <2>1. call[c] \in CallRecord /\ {s} \in SUBSET Sandboxes /\ s \in Sandboxes \cup {0}
    BY <1>2 DEF TypeOK
  <2>2. /\ k.at = "answered" /\ k.status = 201 /\ k.made = {s}
        /\ k.id = s /\ k.method = call[c].method
        /\ k.tooOld = call[c].tooOld /\ k.err = call[c].err
        /\ k \in CallRecord
    <3> DEFINE A == {"sent", "answered", "over", "walking"}
    <3> DEFINE S == {0, 200, 201, 204, 404, 409, 500}
    <3>1. "answered" \in A /\ 201 \in S /\ {s} \in SUBSET Sandboxes
      BY <2>1
    <3> HIDE DEF A, S
    <3> DEFINE R == [at : A, method : DOMAIN Rest, id : Sandboxes \cup {0}, status : S,
                     made : SUBSET Sandboxes, tooOld : BOOLEAN, err : Results]
    <3>2. CallRecord = R
      BY DEF CallRecord, A, S
    <3> QED BY <2>1, <3>1, <3>2
  <2>3. call'[c] = k /\ \A d \in Clients \ {c} : call'[d] = call[d]
    BY <1>1 DEF TypeOK
  <2>4. call' \in [Clients -> CallRecord]
    BY <1>1, <2>2, <2>3 DEF TypeOK
  <2> HIDE DEF k
  <2> QED BY <2>2, <2>3, <2>4, <1>1
<1>4. /\ state' \in [Sandboxes -> States] /\ state'[s] = "running"
      /\ \A t \in Sandboxes : t # s => state'[t] = state[t]
      /\ met' \in [Clients -> SUBSET States] /\ met'[c] = {"running"}
      /\ \A d \in Clients \ {c} : met'[d] = met[d]
  BY <1>1, <1>2 DEF TypeOK, States
<1>5. TypeOK'
  BY <1>1, <1>2, <1>3, <1>4 DEF TypeOK
<1>6. Onward
  BY <1>1, <1>2, <1>4 DEF Onward
<1>7. ASSUME NEW d \in Clients \ {c} PROVE Undisturbed(d)
  <2>1. Bound(d) => call[d].id \in Sandboxes /\ state[call[d].id] # "none"
                    /\ state[call[d].id] \in met[d]
    BY DEF Bound, Fits, Shape, TypeOK, CallRecord
  <2> QED BY <2>1, <1>2, <1>3, <1>4 DEF Undisturbed
<1>8. ~call[c].tooOld
  BY <1>1 DEF Fits, Shape
<1>9. Fits(c)'
  BY <1>2, <1>3, <1>4, <1>8 DEF Fits, Shape, Bound, Meaning
<1>10. Kept(c)
  <2>1. call[c].made = {}
    BY <1>1 DEF Fits, Shape
  <2> QED BY <2>1, <1>3, <1>4, <1>8 DEF Kept, Live
<1>11. Charged(c)
  BY <1>1, <1>3 DEF Charged, Toll
<1> QED BY <1>5, <1>6, <1>7, <1>9, <1>10, <1>11 DEF Effect

-----------------------------------------------------------------------------
(* The client's steps.                                                      *)

\* A client replaces its call and leaves the sandboxes alone.
LEMMA Replaced ==
  ASSUME IInv, NEW c \in Clients, NEW l \in CallRecord,
         call' = [call EXCEPT ![c] = l],
         NEW m \in SUBSET States, met' = [met EXCEPT ![c] = m],
         UNCHANGED <<state, old>>
  PROVE  /\ call'[c] = l /\ met'[c] = m
         /\ call' \in [Clients -> CallRecord] /\ met' \in [Clients -> SUBSET States]
         /\ \A d \in Clients \ {c} : Undisturbed(d)
<1>1. /\ call'[c] = l /\ met'[c] = m
      /\ call' \in [Clients -> CallRecord] /\ met' \in [Clients -> SUBSET States]
      /\ \A d \in Clients \ {c} : call'[d] = call[d] /\ met'[d] = met[d]
  BY DEF IInv, TypeOK
<1> QED BY <1>1 DEF Undisturbed, IInv, Fits, Shape

LEMMA MakesCall ==
  ASSUME IInv, NEW c \in Clients, Ask(c)
  PROVE  Effect(c)
<1> USE DEF IInv, history
<1>1. /\ call[c].at = "over" /\ asked' \in 0 .. MaxCalls
      /\ UNCHANGED <<state, old, handles, killed, dropped, stayed>>
  BY MaxCallsAssumption DEF Ask, Idle, TypeOK, MaxCallsAssumption
<1>2. PICK s \in Sandboxes \cup {0}, method \in DOMAIN Rest, m \in SUBSET States :
        /\ call' = [call EXCEPT ![c] = Asking(method, s)]
        /\ met' = [met EXCEPT ![c] = m]
        /\ \/ method = "Create" /\ s = 0
           \/ s \in Known /\ s # 0 /\ m = {state[s]}
  <2>1. CASE /\ call' = [call EXCEPT ![c] = Asking("Create", 0)]
             /\ met' = [met EXCEPT ![c] = {}]
    <3>1. {} \in SUBSET States /\ 0 \in Sandboxes \cup {0} /\ "Create" \in DOMAIN Rest
      BY RestMethods
    <3> QED BY <2>1, <3>1
  <2>2. CASE \E s \in Known, method \in DOMAIN Rest \ {"Create"} :
               /\ call' = [call EXCEPT ![c] = Asking(method, s)]
               /\ met' = [met EXCEPT ![c] = {state[s]}]
    <3>1. PICK s \in Known, method \in DOMAIN Rest \ {"Create"} :
               /\ call' = [call EXCEPT ![c] = Asking(method, s)]
               /\ met' = [met EXCEPT ![c] = {state[s]}]
      BY <2>2
    <3>2. s \in Sandboxes \cup {0} /\ s # 0 /\ {state[s]} \in SUBSET States
      BY DEF Known, Sandboxes, TypeOK
    <3> QED BY <3>1, <3>2
  <2> QED BY <2>1, <2>2 DEF Ask
<1>3. Asking(method, s) \in CallRecord
  BY Recorded DEF Asking, Results
<1>4. /\ call'[c] = Asking(method, s) /\ met'[c] = m
      /\ call' \in [Clients -> CallRecord] /\ met' \in [Clients -> SUBSET States]
      /\ \A d \in Clients \ {c} : Undisturbed(d)
  BY <1>1, <1>2, <1>3, Replaced
<1>5. /\ call'[c].at = "sent" /\ call'[c].made = {} /\ call'[c].tooOld = FALSE
      /\ call'[c].method = method /\ call'[c].id = s
  BY <1>4 DEF Asking, Call
<1>6. TypeOK'
  BY <1>1, <1>4 DEF TypeOK
<1>7. Fits(c)'
  BY <1>1, <1>2, <1>4, <1>5 DEF Fits, Shape, Bound, Known
<1>8. call[c].made = {} /\ ~call[c].tooOld
  BY <1>1 DEF Fits, Shape
<1>9. Onward /\ Kept(c) /\ Charged(c)
  BY <1>1, <1>5, <1>8 DEF Onward, Kept, Live, Charged, Toll
<1> QED BY <1>4, <1>6, <1>7, <1>9 DEF Effect

LEMMA BeginsWalk ==
  ASSUME IInv, NEW c \in Clients, WalkBegins(c)
  PROVE  Effect(c)
<1> USE DEF IInv, history
<1>1. /\ call[c].at = "over" /\ stayed' \subseteq Sandboxes
      /\ call' = [call EXCEPT ![c] = Call("walking", "Kill", 0, "none")]
      /\ met' = [met EXCEPT ![c] = {}]
      /\ UNCHANGED <<state, old, asked, handles, killed, dropped>>
  BY DEF WalkBegins, Idle
<1>2. Call("walking", "Kill", 0, "none") \in CallRecord /\ {} \in SUBSET States
  BY Recorded, RestMethods DEF Results
<1>3. /\ call'[c] = Call("walking", "Kill", 0, "none")
      /\ call' \in [Clients -> CallRecord] /\ met' \in [Clients -> SUBSET States]
      /\ \A d \in Clients \ {c} : Undisturbed(d)
  BY <1>1, <1>2, Replaced
<1>4. /\ call'[c].at = "walking" /\ call'[c].made = {} /\ call'[c].tooOld = FALSE
  BY <1>3 DEF Call
<1>5. TypeOK'
  BY <1>1, <1>3 DEF TypeOK
<1>6. Fits(c)'
  BY <1>4 DEF Fits, Shape, Bound
<1>7. call[c].made = {} /\ ~call[c].tooOld
  BY <1>1 DEF Fits, Shape
<1>8. Onward /\ Kept(c) /\ Charged(c)
  BY <1>1, <1>4, <1>7 DEF Onward, Kept, Live, Charged, Toll
<1> QED BY <1>3, <1>5, <1>6, <1>8 DEF Effect

LEMMA ShutsDown ==
  ASSUME IInv, NEW c \in Clients, ShutDown(c)
  PROVE  Effect(c)
<1> USE DEF IInv, history
<1> DEFINE s == call[c].id
<1> DEFINE l == [Asking("Kill", s) EXCEPT !.tooOld = TRUE]
<1>1. PICK arrives \in BOOLEAN :
        /\ call[c].at = "answered" /\ call[c].method = "Create"
        /\ Returned(c, arrives).err = "none"
        /\ call' = [call EXCEPT ![c] = l]
        /\ UNCHANGED <<state, old, asked, met, handles, killed, dropped, stayed>>
  BY DEF ShutDown
<1>2. call[c].status \in 200 .. 299
  BY <1>1, Verdict, Forgiven
<1>3. s \in Sandboxes /\ s # 0 /\ call[c].made = {s} /\ ~call[c].tooOld
  BY <1>1, <1>2 DEF Fits, Meaning, Shape, TypeOK, CallRecord
<1>4. l \in CallRecord /\ met[c] \in SUBSET States /\ met' = [met EXCEPT ![c] = met[c]]
  <2>1. Asking("Kill", s) \in CallRecord
    BY <1>3, Recorded, RestMethods DEF Asking, Results
  <2>2. l \in CallRecord
    BY <2>1, Flagged, Zenon
  <2> QED BY <2>2, <1>1 DEF TypeOK
<1> HIDE DEF l
<1>5. /\ call'[c] = l /\ met'[c] = met[c]
      /\ call' \in [Clients -> CallRecord] /\ met' \in [Clients -> SUBSET States]
      /\ \A d \in Clients \ {c} : Undisturbed(d)
  BY <1>1, <1>4, Replaced
<1>6. /\ call'[c].at = "sent" /\ call'[c].made = {} /\ call'[c].tooOld = TRUE
      /\ call'[c].method = "Kill" /\ call'[c].id = s
  BY <1>5 DEF l, Asking, Call
<1>7. TypeOK'
  BY <1>1, <1>5 DEF TypeOK
<1>8. Fits(c)'
  <2>1. state[s] # "none" /\ state[s] \in met[c]
    BY <1>1, <1>3 DEF Fits, Shape, Bound
  <2> QED BY <2>1, <1>1, <1>3, <1>5, <1>6 DEF Fits, Shape, Bound
<1>9. Onward /\ Kept(c) /\ Charged(c)
  BY <1>1, <1>3, <1>6 DEF Onward, Kept, Live, Charged, Toll
<1> QED BY <1>5, <1>7, <1>8, <1>9 DEF Effect

LEMMA TellsTooOld ==
  ASSUME IInv, NEW c \in Clients, TooOld(c)
  PROVE  Effect(c)
<1> USE DEF IInv, history
<1> DEFINE s == call[c].id
<1> DEFINE l == Over("Create", s, "Template")
<1>1. PICK arrives \in BOOLEAN :
        /\ call[c].at = "answered" /\ call[c].tooOld
        /\ dropped' = IF Returned(c, arrives).err = "none" THEN dropped
                      ELSE dropped \cup {s}
        /\ call' = [call EXCEPT ![c] = l]
        /\ UNCHANGED <<state, old, asked, met, handles, killed, stayed>>
  BY DEF TooOld
<1>2. /\ s \in Sandboxes /\ s # 0 /\ call[c].method = "Kill"
      /\ call[c].made = {}
      /\ call[c].status \in {204, 404} => state[s] = "gone"
      /\ call[c].status \in {204, 404, 500}
  BY <1>1 DEF Fits, Meaning, Shape, TypeOK, CallRecord
<1>3. Returned(c, arrives).err = "none" => state[s] = "gone"
  BY <1>2, Verdict, Forgiven
<1>4. l \in CallRecord /\ met[c] \in SUBSET States /\ met' = [met EXCEPT ![c] = met[c]]
  <2>1. "Create" \in DOMAIN Rest /\ "Template" \in Results
        /\ "over" \in {"sent", "over", "walking"}
    BY RestMethods DEF Results
  <2>2. l \in CallRecord
    BY <2>1, <1>2, Recorded DEF Over
  <2> QED BY <2>2, <1>1 DEF TypeOK
<1> HIDE DEF l
<1>5. /\ call'[c] = l /\ met'[c] = met[c]
      /\ call' \in [Clients -> CallRecord] /\ met' \in [Clients -> SUBSET States]
      /\ \A d \in Clients \ {c} : Undisturbed(d)
  BY <1>1, <1>4, Replaced
<1>6. /\ call'[c].at = "over" /\ call'[c].made = {} /\ call'[c].tooOld = FALSE
      /\ call'[c].method = "Create" /\ call'[c].id = s /\ call'[c].err = "Template"
  BY <1>5 DEF l, Over, Call
<1>7. TypeOK'
  BY <1>1, <1>2, <1>5 DEF TypeOK
<1>8. Fits(c)'
  BY <1>1, <1>2, <1>3, <1>6 DEF Fits, Shape, Bound, Truthful
<1>9. Onward /\ Kept(c) /\ Charged(c)
  BY <1>1, <1>2, <1>3, <1>6 DEF Onward, Kept, Live, Charged, Toll
<1> QED BY <1>5, <1>7, <1>8, <1>9 DEF Effect

LEMMA HearsAnswer ==
  ASSUME IInv, NEW c \in Clients, Arrive(c)
  PROVE  Effect(c)
<1> USE DEF IInv, history
<1> DEFINE s == call[c].id
<1> DEFINE method == call[c].method
<1>1. PICK arrives \in BOOLEAN :
        LET r == Returned(c, arrives) IN
        /\ call[c].at = "answered" /\ ~call[c].tooOld
        /\ ~(method = "Create" /\ r.err = "none" /\ s \in old)
        /\ handles' = handles \cup Given(c, r)
        /\ killed' = IF method = "Kill" /\ r.value = "done"
                     THEN [killed EXCEPT ![s] = @ + 1] ELSE killed
        /\ dropped' = IF r.err = "none" THEN dropped ELSE dropped \cup call[c].made
        /\ call' = [call EXCEPT ![c] = Over(method, s, r.err)]
        /\ UNCHANGED <<state, old, asked, met, stayed>>
  BY DEF Arrive
<1> DEFINE r == Returned(c, arrives)
<1> DEFINE l == Over(method, s, r.err)
<1>2. /\ r.err \in Results \ {"Template"}
      /\ r.err = "none" => \/ call[c].status \in 200 .. 299
                           \/ call[c].status \in Rest[method].forgives
      /\ r.err = "NotFound" => call[c].status = 404
      /\ r.value = "done" => call[c].status \in 200 .. 299
  BY Verdict
<1>3. /\ s \in Sandboxes \cup {0} /\ method \in DOMAIN Rest
      /\ call[c].made \subseteq Sandboxes /\ met[c] \in SUBSET States
      /\ 0 \notin Sandboxes
  BY DEF TypeOK, CallRecord, Sandboxes
<1>4. Meaning(c) /\ Shape(c)
  BY <1>1 DEF Fits
<1>5. l \in CallRecord /\ met' = [met EXCEPT ![c] = met[c]]
  <2>1. r.err \in Results /\ "over" \in {"sent", "over", "walking"}
    BY <1>2
  <2>2. l \in CallRecord
    BY <2>1, <1>3, Recorded DEF Over
  <2> QED BY <2>2, <1>1 DEF TypeOK
<1> HIDE DEF r
<1>6. /\ l.at = "over" /\ l.made = {} /\ l.tooOld = FALSE
      /\ l.method = method /\ l.id = s /\ l.err = r.err
  BY DEF Over, Call
<1> HIDE DEF l
<1>7. /\ call'[c] = l /\ met'[c] = met[c]
      /\ call' \in [Clients -> CallRecord] /\ met' \in [Clients -> SUBSET States]
      /\ \A d \in Clients \ {c} : Undisturbed(d)
  BY <1>1, <1>3, <1>5, Replaced DEF l, r
<1>8. Given(c, r) = IF r.err = "none" THEN call[c].made ELSE {}
  BY DEF Given
<1>9. TypeOK'
  <2>1. killed' \in [Sandboxes -> Nat]
    <3>1. CASE killed' = killed
      BY <3>1 DEF TypeOK
    <3>2. CASE s \in Sandboxes /\ killed' = [killed EXCEPT ![s] = @ + 1]
      BY <3>2 DEF TypeOK
    <3>3. method = "Kill" => s \in Sandboxes
      BY <1>1, <1>3, <1>4 DEF Shape
    <3> QED BY <3>1, <3>2, <3>3, <1>1
  <2>2. handles' \subseteq Sandboxes /\ dropped' \subseteq Sandboxes
    BY <1>1, <1>3, <1>8 DEF TypeOK, r
  <2> QED BY <1>1, <1>7, <2>1, <2>2 DEF TypeOK
<1>10. Fits(c)'
  <2>1. Shape(c)'
    BY <1>6, <1>7 DEF Shape, Bound
  <2>2. s # 0 => state[s] # "none" /\ state[s] \in met[c]
    BY <1>1, <1>4 DEF Shape, Bound
  <2>3. Truthful(c)'
    <3>1. ASSUME r.err = "none"
          PROVE  /\ method = "Pause" => "paused" \in met[c]
                 /\ method \in {"Connect", "Resume"} => "running" \in met[c]
                 /\ method = "Kill" => "gone" \in met[c]
                 /\ method = "Create" => /\ "running" \in met[c] /\ s \notin old
                                         /\ s # 0 /\ state[s] # "none"
      <4>1. /\ method \in {"Create", "Connect", "Resume"} => call[c].status \in 200 .. 299
            /\ method = "Pause" => call[c].status \in 200 .. 299 \cup {409}
            /\ method = "Kill" => call[c].status \in 200 .. 299 \cup {404}
        BY <3>1, <1>2, Forgiven
      <4> QED BY <4>1, <3>1, <1>1, <1>4, <2>2 DEF Meaning, r
    <3>2. ASSUME r.err = "NotFound" PROVE "gone" \in met[c]
      BY <3>2, <1>2, <1>4, <2>2 DEF Meaning
    <3>3. r.err # "Template"
      BY <1>2
    <3> QED BY <3>1, <3>2, <3>3, <1>1, <1>6, <1>7 DEF Truthful
  <2> QED BY <2>1, <2>3, <1>6, <1>7 DEF Fits
<1>11. Onward
  BY <1>1 DEF Onward
<1>12. Kept(c)
  BY <1>1, <1>8, <1>6, <1>7 DEF Kept, Live, r
<1>13. Charged(c)
  <2>1. ~Toll(c)'
    BY <1>6, <1>7 DEF Toll
  <2>2. method = "Kill" /\ r.value = "done" => Toll(c)
    BY <1>1, <1>2, <1>4 DEF Meaning, Toll
  <2> QED BY <2>1, <2>2, <1>1 DEF Charged, r
<1> QED BY <1>7, <1>9, <1>10, <1>11, <1>12, <1>13 DEF Effect

-----------------------------------------------------------------------------
(* The invariant holds.                                                     *)

LEMMA Initially == Init => IInv
<1> SUFFICES ASSUME Init PROVE IInv
  OBVIOUS
<1>1. PICK n \in 0 .. MaxSandboxes :
        /\ state = [s \in Sandboxes |-> IF s <= n THEN "running" ELSE "none"]
        /\ handles = 1 .. n
  BY DEF Init
<1>2. Over("Kill", 0, "Sandbox") \in CallRecord
  <2>1. "Kill" \in DOMAIN Rest /\ "Sandbox" \in Results
    BY RestMethods DEF Results
  <2> QED BY <2>1, Recorded DEF Over
<1>3. handles \subseteq Sandboxes
  BY <1>1, MaxSandboxesAssumption DEF Sandboxes, MaxSandboxesAssumption
<1>4. TypeOK
  <2>1. state \in [Sandboxes -> States] /\ killed \in [Sandboxes -> Nat]
    BY <1>1 DEF Init, States
  <2>2. call \in [Clients -> CallRecord] /\ met \in [Clients -> SUBSET States]
    BY <1>2 DEF Init
  <2>3. asked \in 0 .. MaxCalls
    BY MaxCallsAssumption DEF Init, MaxCallsAssumption
  <2> QED BY <2>1, <2>2, <2>3, <1>3 DEF TypeOK, Init
<1>5. \A c \in Clients : /\ call[c].at = "over" /\ call[c].made = {} /\ ~call[c].tooOld
                         /\ call[c].err = "Sandbox"
  BY DEF Init, Over, Call
<1>6. \A c \in Clients : Fits(c)
  BY <1>5 DEF Fits, Shape, Bound, Truthful
<1>7. TollInv
  BY <1>5 DEF TollInv, Toll, KilledOnce, Init
<1>8. NoSilentLeak
  BY <1>1 DEF NoSilentLeak, Live, Sandboxes
<1> QED BY <1>4, <1>6, <1>7, <1>8 DEF IInv

\* The steps of the walk, and no step at all, leave sandboxes and calls alone.
LEMMA Quiet ==
  ASSUME IInv, UNCHANGED <<state, old, calls, history, stayed>>
  PROVE  IInv'
<1> USE DEF IInv, calls, history
<1>1. TypeOK'
  BY DEF TypeOK
<1>2. ASSUME NEW c \in Clients PROVE Fits(c)'
  BY DEF Fits, Shape, Bound, Meaning, Truthful
<1>3. TollInv'
  BY DEF TollInv, Toll, KilledOnce
<1>4. NoSilentLeak'
  BY DEF NoSilentLeak, Live
<1> QED BY <1>1, <1>2, <1>3, <1>4

LEMMA Expires ==
  ASSUME IInv, Expire
  PROVE  IInv'
<1> USE DEF IInv, history
<1>1. PICK s \in Sandboxes, new \in {"gone", "paused"} :
        state[s] = "running" /\ Become({s}, new) /\ UNCHANGED <<old, call, asked, history>>
  BY DEF Expire
<1>2. /\ {s} \in SUBSET Sandboxes /\ new \in {"running", "paused", "gone"}
      /\ \A t \in {s} : state[t] # "gone"
  BY <1>1
<1>3. /\ state' \in [Sandboxes -> States] /\ met' \in [Clients -> SUBSET States]
      /\ stayed' \subseteq Sandboxes
      /\ \A t \in Sandboxes : state'[t] = IF t \in {s} THEN new ELSE state[t]
      /\ \A t \in Sandboxes : /\ state[t] = "gone" => state'[t] = "gone"
                              /\ state[t] # "none" => state'[t] # "none"
      /\ \A d \in Clients : met[d] \subseteq met'[d]
      /\ \A d \in Clients : Bound(d) /\ Fits(d) => state'[call[d].id] \in met'[d]
  BY <1>1, <1>2, Became
<1>4. TypeOK'
  BY <1>1, <1>3 DEF TypeOK
<1>5. Onward
  BY <1>1, <1>3 DEF Onward
<1>6. \A d \in Clients : Undisturbed(d)
  BY <1>1, <1>3 DEF Undisturbed
<1>7. \A d \in Clients : Fits(d)'
  BY <1>4, <1>5, <1>6, Others
<1>8. TollInv'
  BY <1>1, <1>5 DEF TollInv, Toll, KilledOnce, Onward
<1>9. NoSilentLeak'
  BY <1>1, <1>3 DEF NoSilentLeak, Live
<1> QED BY <1>4, <1>7, <1>8, <1>9

LEMMA Inductive == IInv /\ [Next]_vars => IInv'
<1> SUFFICES ASSUME IInv, [Next]_vars PROVE IInv'
  OBVIOUS
<1>1. CASE UNCHANGED vars
  BY <1>1, Quiet DEF vars
<1>2. CASE Expire
  BY <1>2, Expires
<1>3. ASSUME NEW c \in Clients,
             \/ Ask(c) \/ ShutDown(c) \/ TooOld(c) \/ Arrive(c)
             \/ Refuse(c) \/ ServeCreate(c) \/ ServeConnect(c) \/ ServeResume(c)
             \/ ServePause(c) \/ ServeKill(c) \/ ServeFork(c) \/ ServeConflict(c)
             \/ ServeMissing(c) \/ WalkBegins(c)
      PROVE  IInv'
  <2>1. Effect(c)
    BY <1>3, MakesCall, ShutsDown, TellsTooOld, HearsAnswer, Declined, ServingCreate,
       ServesSandbox, BeginsWalk
  <2> QED BY <2>1, OneClient
<1>4. ASSUME NEW c \in Clients, WalkServed(c) \/ WalkArrives(c)
      PROVE  IInv'
  BY <1>4, Quiet DEF WalkServed, WalkArrives
<1> QED BY <1>1, <1>2, <1>3, <1>4 DEF Next

LEMMA Invariance == Spec => []IInv
BY Initially, Inductive, PTL DEF Spec

-----------------------------------------------------------------------------
(* The walk.                                                                *)

Increasing(l) == \A i, j \in DOMAIN l : i < j => l[i] < l[j]

\* "l" has the sandboxes in stayed up to a cursor, and nothing after it.
Covers(l, token) ==
  /\ \A i \in DOMAIN l : l[i] <= token
  /\ \A s \in stayed : s <= token => s \in ToSet(l)

\* A page on its way goes on where the walk is, and leaves out nobody who stays
\* up to the cursor it carries, or at all if it carries none.
PageInv ==
  LET p == page[1] IN
  /\ HasNext(pages)
  /\ page = <<p>> /\ p.err = "none"
  /\ p.items \in Seq(Sandboxes) /\ Increasing(p.items)
  /\ p.token \in Nat
  /\ \A i \in DOMAIN p.items : pages.nextToken < p.items[i]
  /\ p.token = NoToken =>
       \A s \in stayed : pages.nextToken < s => s \in ToSet(p.items)
  /\ p.token # NoToken =>
       /\ pages.nextToken < p.token
       /\ \A i \in DOMAIN p.items : p.items[i] <= p.token
       /\ \A s \in stayed :
            pages.nextToken < s /\ s <= p.token => s \in ToSet(p.items)

WalkInv ==
  /\ \A s \in stayed : Live(s)
  /\ pages \in [nextToken : Nat, hasNext : BOOLEAN]
  /\ got \in Seq(Sandboxes) /\ Increasing(got)
  /\ HasNext(pages) => Covers(got, pages.nextToken)
  /\ ~HasNext(pages) => stayed \subseteq ToSet(got)
  /\ page # <<>> => PageInv
  /\ (\A c \in Clients : ~Walking(c)) =>
       page = <<>> /\ got = <<>> /\ pages = NewPaginator

LEMMA Numbered == Sandboxes \subseteq Nat \ {0}
BY MaxSandboxesAssumption DEF Sandboxes, MaxSandboxesAssumption

\* A cursor is sent with the request for the next page.
LEMMA AsksOn ==
  ASSUME pages.nextToken \in Nat
  PROVE  Asked = pages.nextToken
<1>1. ListV2.op = "GetV2Sandboxes" /\ "nextToken" \in ListV2.asks /\ ListV2.follows
  BY DEF ListV2, Pages, Method
<1>2. "nextToken" \in Operations["GetV2Sandboxes"].request.optional
  BY DEF Operations, Op, NewGetV2SandboxesRequest, Query, WithQuery
<1> QED BY <1>1, <1>2 DEF Asked, Sent, Encoded, NoToken

\* What the walk's fetch returns: the page whole, or an error.
LEMMA Fetches ==
  ASSUME NEW arrives \in BOOLEAN
  PROVE  LET fetched == FetchReturns(arrives) IN
         /\ arrives => /\ fetched.err = "none" /\ fetched.items = page[1].items
                       /\ fetched.token = page[1].token
         /\ ~arrives => fetched.err # "none"
<1>1. /\ ListV2.op = "GetV2Sandboxes" /\ ListV2.follows /\ ListV2.checked
      /\ ListV2.forgives = {} /\ ListV2.reads = {200}
  BY DEF ListV2, Pages, Method
<1>2. 200 \in Operations["GetV2Sandboxes"].parse.json
  BY DEF Operations, Op, ParseGetV2SandboxesResponse, Decodes
<1>3. CASE arrives
  <2> DEFINE answer == [status |-> 200, json |-> TRUE, good |-> TRUE,
                        cursor |-> page[1].token # NoToken]
  <2>1. Cursor(ListV2, answer) <=> page[1].token # NoToken
    BY <1>1 DEF Cursor
  <2> DEFINE r == Decode(Operations["GetV2Sandboxes"].parse, answer)
  <2>2. r.err = "none" /\ r.field = 200 /\ r.status = 200
    BY <1>2 DEF Decode
  <2>3. Check(r) = "none" /\ r.field \in {200} /\ r.status \notin {}
    BY <2>2 DEF Check
  <2> HIDE DEF answer
  <2>4. Return(ListV2, answer) =
          IF r.err # "none" THEN Fail(r.err)
          ELSE IF r.status \in {} THEN Ok("forgiven")
          ELSE IF {200} = {} /\ Check(r) = "none" THEN Ok("done")
          ELSE IF FALSE /\ Check(r) = "none" /\ r.field \notin {200}
            THEN Ok("nil")
          ELSE Parsed(r, {200})
    BY <1>1 DEF Return
  <2> HIDE DEF r
  <2>5. Return(ListV2, answer).err = "none"
    BY <2>2, <2>3, <2>4 DEF Parsed, Ok
  <2> QED BY <1>3, <2>1, <2>5 DEF FetchReturns, answer, NoToken
<1>4. CASE ~arrives
  <2>1. Return(ListV2, Lost).err = "Transport"
    BY DEF Return, Decode, Lost, Fail
  <2> QED BY <1>4, <2>1 DEF FetchReturns
<1> QED BY <1>3, <1>4

LEMMA WalkInitially == Init => WalkInv
BY DEF Init, WalkInv, NewPaginator, NoToken, HasNext, Covers, Increasing

\* Those who stay are up, and whatever happens to sandboxes and calls, the walk
\* misses no more of them.
LEMMA Elsewhere ==
  ASSUME WalkInv, UNCHANGED walk, stayed' \subseteq stayed,
         \A s \in stayed' : Live(s)',
         (\A c \in Clients : ~Walking(c)') => \A c \in Clients : ~Walking(c)
  PROVE  WalkInv'
<1>1. PageInv => PageInv'
  BY DEF PageInv, walk, Increasing, ToSet
<1>2. Covers(got, pages.nextToken) => Covers(got, pages.nextToken)'
  BY DEF Covers, walk, ToSet
<1> QED BY <1>1, <1>2 DEF WalkInv, walk, Increasing, ToSet

\* Steps of calls, and of the platform serving them.
LEMMA CallsElsewhere ==
  ASSUME TypeOK, WalkInv, NEW c \in Clients,
         \/ Ask(c) \/ ShutDown(c) \/ TooOld(c) \/ Arrive(c)
         \/ Refuse(c) \/ ServeCreate(c) \/ ServeConnect(c) \/ ServeResume(c)
         \/ ServePause(c) \/ ServeKill(c) \/ ServeFork(c) \/ ServeConflict(c)
         \/ ServeMissing(c)
  PROVE  WalkInv'
<1>1. /\ UNCHANGED walk /\ stayed' \subseteq stayed
      /\ \A s \in stayed' : Live(s)'
  <2>1. ASSUME UNCHANGED <<state, walk, stayed>>
        PROVE  /\ UNCHANGED walk /\ stayed' \subseteq stayed
               /\ \A s \in stayed' : Live(s)'
    BY <2>1 DEF WalkInv, Live
  <2>2. ASSUME NEW which \in SUBSET Sandboxes, NEW new \in States \ {"none"},
               Become(which, new), UNCHANGED walk
        PROVE  /\ UNCHANGED walk /\ stayed' \subseteq stayed
               /\ \A s \in stayed' : Live(s)'
    BY <2>2 DEF WalkInv, Live, Become, TypeOK, States
  <2>3. CASE \/ Ask(c) \/ ShutDown(c) \/ TooOld(c) \/ Arrive(c)
             \/ Refuse(c) \/ ServeConflict(c) \/ ServeMissing(c)
    BY <2>1, <2>3 DEF Ask, ShutDown, TooOld, Arrive, Refuse, ServeConflict,
                      ServeMissing, Same
  <2>4. CASE ServeCreate(c)
    BY <2>4 DEF ServeCreate, WalkInv, Live, TypeOK
  <2>5. CASE ServeFork(c)
    <3>1. PICK made \in SUBSET Sandboxes : Become(made, "running")
      BY <2>5 DEF ServeFork
    <3> QED BY <2>2, <2>5, <3>1 DEF ServeFork, States
  <2>6. CASE \/ ServeConnect(c) \/ ServeResume(c) \/ ServePause(c) \/ ServeKill(c)
    <3>1. /\ \E new \in States \ {"none"} : Become({call[c].id}, new)
          /\ UNCHANGED walk
      BY <2>6 DEF ServeConnect, ServeResume, ServePause, ServeKill, States
    <3>2. PICK new \in States \ {"none"} : Become({call[c].id}, new)
      BY <3>1
    <3> QED BY <3>1, <3>2 DEF Become, WalkInv, Live, TypeOK, States
  <2> QED BY <2>3, <2>4, <2>5, <2>6
<1>2. ~Walking(c)
  BY DEF Walking, Ask, ShutDown, TooOld, Arrive, Idle, Refuse, ServeCreate,
     ServeConnect, ServeResume, ServePause, ServeKill, ServeFork, ServeConflict,
     ServeMissing, Serving
<1>3. \A d \in Clients \ {c} : call'[d] = call[d]
  BY DEF Ask, ShutDown, TooOld, Arrive, Refuse, ServeCreate, Same, Reply,
     ServeConnect, ServeResume, ServePause, ServeKill, ServeFork, ServeConflict,
     ServeMissing, TypeOK
<1> QED BY <1>1, <1>2, <1>3, Elsewhere DEF Walking

LEMMA ExpiresElsewhere ==
  ASSUME TypeOK, WalkInv, Expire
  PROVE  WalkInv'
<1>1. PICK s \in Sandboxes, new \in {"gone", "paused"} :
        Become({s}, new) /\ UNCHANGED <<call, walk>>
  BY DEF Expire
<1>2. stayed' \subseteq stayed /\ \A t \in stayed' : Live(t)'
  BY <1>1 DEF WalkInv, Live, Become, TypeOK, States
<1> QED BY <1>1, <1>2, Elsewhere DEF Walking

LEMMA WalkStarts ==
  ASSUME TypeOK, WalkInv, NEW c \in Clients, WalkBegins(c)
  PROVE  WalkInv'
<1>1. page = <<>> /\ got = <<>> /\ pages = NewPaginator
  BY DEF WalkInv, WalkBegins
<1>2. /\ UNCHANGED <<state, walk>> /\ stayed' = {s \in Sandboxes : Live(s)}
      /\ \E d \in Clients : call'[d].at = "walking"
  BY DEF WalkBegins, TypeOK, Call
<1>3. Covers(got, pages.nextToken)'
  BY <1>1, <1>2 DEF Covers, walk, NewPaginator, NoToken, Sandboxes
<1>4. Increasing(got)' /\ got' \in Seq(Sandboxes)
  BY <1>1, <1>2 DEF walk, Increasing
<1>5. \A s \in stayed' : Live(s)'
  BY <1>2 DEF Live
<1> QED BY <1>1, <1>2, <1>3, <1>4, <1>5
        DEF WalkInv, walk, NewPaginator, HasNext, NoToken, Walking

\* The platform lists what comes after the cursor.
LEMMA ServesPage ==
  ASSUME TypeOK, WalkInv, NEW c \in Clients, WalkServed(c)
  PROVE  WalkInv'
<1> DEFINE from == pages.nextToken
<1>1. PICK items \in SeqOf(Sandboxes, Limit) :
        Lists(items, Asked) /\ page' = <<Listing(items, Asked)>>
  BY DEF WalkServed
<1>2. from \in Nat /\ Asked = from
  BY AsksOn DEF WalkInv
<1>3. items \in Seq(Sandboxes)
  BY DEF SeqOf
<1>4. /\ HasNext(pages) /\ Walking(c)
      /\ UNCHANGED <<state, call, pages, got, stayed>>
  BY DEF WalkServed, calls
<1> DEFINE p == Listing(items, from)
<1>5. /\ p.err = "none" /\ p.items = items
      /\ p.token = IF After(from) \subseteq ToSet(items) THEN NoToken ELSE Last(items)
      /\ page' = <<p>> /\ page'[1] = p /\ page' # <<>>
  BY <1>1, <1>2 DEF Listing
<1> HIDE DEF p
<1>6. Increasing(items) /\ \A i \in DOMAIN items : from < items[i]
  BY <1>1, <1>2 DEF Lists, Increasing, ToSet, After
<1>7. \A s \in stayed : from < s => s \in After(from)
  BY <1>2 DEF WalkInv, After, TypeOK
<1>8. PageInv'
  <2>1. CASE After(from) \subseteq ToSet(items)
    BY <1>2, <1>3, <1>4, <1>5, <1>6, <1>7, <2>1 DEF PageInv, NoToken, HasNext, Increasing, ToSet
  <2>2. CASE ~(After(from) \subseteq ToSet(items))
    <3>1. /\ Len(items) = Limit
          /\ \A s \in After(from) \ ToSet(items) : Last(items) < s
      BY <1>1, <1>2, <2>2 DEF Lists
    <3>2. /\ Last(items) \in Sandboxes /\ Last(items) \in Nat \ {0}
          /\ from < Last(items)
          /\ \A i \in DOMAIN items : items[i] <= Last(items)
      <4>1. Limit \in DOMAIN items /\ Last(items) = items[Limit]
        BY <1>3, <3>1, LimitAssumption DEF Last, LimitAssumption
      <4>2. \A i \in DOMAIN items : items[i] \in Sandboxes /\ i \in Nat /\ i <= Limit
        BY <1>3, <3>1
      <4>3. \A i \in DOMAIN items : items[i] \in Nat \ {0}
        BY <4>2, Numbered
      <4> QED BY <1>2, <1>6, <4>1, <4>2, <4>3, LimitAssumption DEF Increasing, LimitAssumption
    <3>3. \A s \in stayed : from < s /\ s <= Last(items) => s \in ToSet(items)
      BY <1>7, <3>1, <3>2 DEF TypeOK, Sandboxes
    <3> QED BY <1>2, <1>3, <1>4, <1>5, <1>6, <2>2, <3>2, <3>3
            DEF PageInv, NoToken, HasNext, Increasing, ToSet
  <2> QED BY <2>1, <2>2
<1>9. Covers(got, from) => Covers(got, pages.nextToken)'
  BY <1>4 DEF Covers, ToSet
<1> QED BY <1>4, <1>8, <1>9 DEF WalkInv, Walking, Live, HasNext, Increasing, ToSet

\* What it listed is added to what the walk has, and the walk goes on from there;
\* a page that was lost is asked for again.
LEMMA PageArrives ==
  ASSUME TypeOK, WalkInv, NEW c \in Clients, WalkArrives(c)
  PROVE  WalkInv'
<1>1. PICK arrives \in BOOLEAN :
        /\ pages' = NextItems(pages, FetchReturns(arrives))
        /\ got' = got \o Items(pages, FetchReturns(arrives))
  BY DEF WalkArrives
<1>2. /\ page # <<>> /\ page' = <<>> /\ Walking(c)
      /\ UNCHANGED <<state, call, stayed>>
  BY DEF WalkArrives, calls
<1>3. /\ PageInv /\ HasNext(pages) /\ Covers(got, pages.nextToken)
      /\ pages.nextToken \in Nat /\ got \in Seq(Sandboxes) /\ Increasing(got)
  BY <1>2 DEF WalkInv, PageInv
<1>4. CASE ~arrives
  <2>1. pages' = pages /\ got' = got
    BY <1>1, <1>3, <1>4, Fetches DEF NextItems, Items, Fetched
  <2> QED BY <1>2, <2>1 DEF WalkInv, Walking, Live, HasNext, Covers, Increasing, ToSet
<1>5. CASE arrives
  <2> DEFINE items == page[1].items
  <2> DEFINE token == page[1].token
  <2> DEFINE from == pages.nextToken
  <2>1. /\ pages' = [nextToken |-> token, hasNext |-> token # NoToken]
        /\ got' = got \o items
    BY <1>1, <1>3, <1>5, Fetches DEF NextItems, Items, Fetched
  <2>2. /\ items \in Seq(Sandboxes) /\ Increasing(items) /\ token \in Nat
        /\ \A i \in DOMAIN items : from < items[i]
        /\ token = NoToken => \A s \in stayed : from < s => s \in ToSet(items)
        /\ token # NoToken =>
             /\ from < token
             /\ \A i \in DOMAIN items : items[i] <= token
             /\ \A s \in stayed : from < s /\ s <= token => s \in ToSet(items)
    BY <1>3 DEF PageInv
  <2> HIDE DEF items, token
  <2>3. got' \in Seq(Sandboxes)
    BY <1>3, <2>1, <2>2
  <2>4. /\ DOMAIN got' = 1 .. Len(got) + Len(items)
        /\ DOMAIN got = 1 .. Len(got) /\ DOMAIN items = 1 .. Len(items)
        /\ Len(got) \in Nat /\ Len(items) \in Nat
        /\ \A i \in DOMAIN got : got'[i] = got[i] /\ got[i] \in Nat
        /\ \A i \in DOMAIN got' :
             i \notin DOMAIN got => /\ i - Len(got) \in DOMAIN items
                                    /\ got'[i] = items[i - Len(got)]
        /\ \A i \in DOMAIN items : /\ i + Len(got) \in DOMAIN got'
                                    /\ got'[i + Len(got)] = items[i]
                                    /\ items[i] \in Nat
    <3> HIDE DEF from
    <3>1. /\ DOMAIN got' = 1 .. Len(got) + Len(items)
          /\ DOMAIN got = 1 .. Len(got) /\ DOMAIN items = 1 .. Len(items)
          /\ Len(got) \in Nat /\ Len(items) \in Nat
      BY <1>3, <2>1, <2>2
    <3>2. /\ \A i \in DOMAIN got : got'[i] = got[i] /\ got[i] \in Sandboxes
          /\ \A i \in DOMAIN got' : i \notin DOMAIN got => got'[i] = items[i - Len(got)]
          /\ \A i \in DOMAIN items : /\ got'[i + Len(got)] = items[i]
                                      /\ items[i] \in Sandboxes
      BY <1>3, <2>1, <2>2
    <3>3. Sandboxes \subseteq Nat
      BY Numbered
    <3>4. /\ \A i \in DOMAIN got' : i \notin DOMAIN got => i - Len(got) \in DOMAIN items
          /\ \A i \in DOMAIN items : i + Len(got) \in DOMAIN got'
      BY <3>1
    <3>5. /\ \A i \in DOMAIN got : got[i] \in Nat
          /\ \A i \in DOMAIN items : items[i] \in Nat
      BY <3>2, <3>3
    <3> QED BY <3>1, <3>2, <3>4, <3>5, Zenon
  <2>5. ToSet(got) \cup ToSet(items) \subseteq ToSet(got')
    BY <2>4 DEF ToSet
  <2>6. \A i \in DOMAIN got : got[i] <= from
    BY <1>3 DEF Covers
  <2>7. Increasing(got')
    <3> SUFFICES ASSUME NEW i \in DOMAIN got', NEW j \in DOMAIN got', i < j
                 PROVE  got'[i] < got'[j]
      BY DEF Increasing
    <3>1. CASE j \in DOMAIN got
      <4>1. i \in DOMAIN got
        BY <2>4, <3>1
      <4> QED BY <4>1, <3>1, <1>3, <2>4 DEF Increasing
    <3>2. CASE i \in DOMAIN got /\ j \notin DOMAIN got
      BY <3>2, <1>3, <2>2, <2>4, <2>6
    <3>3. CASE i \notin DOMAIN got
      <4>1. j \notin DOMAIN got /\ i - Len(got) < j - Len(got)
        BY <2>4, <3>3
      <4> QED BY <4>1, <3>3, <2>2, <2>4 DEF Increasing
    <3> QED BY <3>1, <3>2, <3>3
  <2>8. \A s \in stayed : s \in Nat /\ (s <= from => s \in ToSet(got))
    BY <1>3 DEF Covers, TypeOK, Sandboxes
  <2>9. token # NoToken => Covers(got, pages.nextToken)'
    <3> SUFFICES ASSUME token # NoToken PROVE Covers(got, pages.nextToken)'
      OBVIOUS
    <3>1. \A i \in DOMAIN got' : got'[i] <= token
      BY <1>3, <2>2, <2>4, <2>6
    <3>2. \A s \in stayed : s <= token => s \in ToSet(got')
      BY <1>3, <2>2, <2>5, <2>8
    <3>3. pages'.nextToken = token
      BY <2>1
    <3> QED BY <3>1, <3>2, <3>3, <1>2 DEF Covers, ToSet
  <2>10. token = NoToken => stayed \subseteq ToSet(got')
    BY <1>3, <2>2, <2>5, <2>8
  <2>11. /\ pages' \in [nextToken : Nat, hasNext : BOOLEAN]
         /\ HasNext(pages)' <=> token # NoToken
    BY <2>1, <2>2 DEF HasNext
  <2>12. Increasing(got)' /\ (stayed \subseteq ToSet(got')) = (stayed \subseteq ToSet(got))'
    BY <1>2, <2>7 DEF Increasing, ToSet
  <2>13. (\E d \in Clients : Walking(d))' /\ \A s \in stayed' : Live(s)'
    BY <1>2 DEF Walking, WalkInv, Live
  <2> QED BY <1>2, <2>3, <2>9, <2>10, <2>11, <2>12, <2>13 DEF WalkInv
<1> QED BY <1>4, <1>5

LEMMA WalkInductive == TypeOK /\ WalkInv /\ [Next]_vars => WalkInv'
<1> SUFFICES ASSUME TypeOK, WalkInv, [Next]_vars PROVE WalkInv'
  OBVIOUS
<1>1. CASE UNCHANGED vars
  <2>1. UNCHANGED <<state, call, stayed, walk>>
    BY <1>1 DEF vars, calls
  <2> QED BY <2>1, Elsewhere DEF WalkInv, Live, Walking
<1>2. CASE Next
  BY <1>2, CallsElsewhere, ExpiresElsewhere, WalkStarts, ServesPage, PageArrives DEF Next
<1> QED BY <1>1, <1>2

-----------------------------------------------------------------------------
(* Theorems.                                                                *)

\* Every variable of sandboxes and calls keeps its type, for any clients and any
\* number of sandboxes.
THEOREM TypeCorrect == Spec => []TypeOK
<1>1. IInv => TypeOK
  BY DEF IInv
<1> QED BY <1>1, Invariance, PTL

\* Of any number of clients that kill one sandbox at most one is told that it
\* did, and then the sandbox is gone for good.
THEOREM KillsOnce == Spec => []KilledOnce
<1>1. IInv => KilledOnce
  BY DEF IInv, TollInv
<1> QED BY <1>1, Invariance, PTL

\* Whatever Create, Connect, Resume, Pause and Kill return was true of the
\* sandbox while they were called, whoever else did what to it.
THEOREM TruthfulAnswers == Spec => []AnswersTruthful
<1>1. IInv => AnswersTruthful
  BY DEF IInv, Fits, Truthful, AnswersTruthful, Idle
<1> QED BY <1>1, Invariance, PTL

\* A sandbox that is up is held by somebody, is about to be, or is one whose
\* answer was lost and whose caller was told of an error.
THEOREM NothingLeaks == Spec => []NoSilentLeak
<1>1. IInv => NoSilentLeak
  BY DEF IInv
<1> QED BY <1>1, Invariance, PTL

\* A walk over the pages of a listing, whatever pages are lost and whatever others
\* create, pause and kill meanwhile, has seen nothing twice, and when it is over
\* everything that was listed all along.
THEOREM FaithfulWalks == Spec => []WalkFaithful
<1>1. WalkInv => WalkFaithful
  <2> SUFFICES ASSUME WalkInv PROVE IsInjective(got)
    BY DEF WalkInv, WalkFaithful
  <2>1. got \in Seq(Sandboxes) /\ Increasing(got)
    BY DEF WalkInv
  <2>2. \A i \in DOMAIN got : i \in Nat /\ got[i] \in Sandboxes
    BY <2>1
  <2>3. \A i \in DOMAIN got : got[i] \in Nat
    BY <2>2, Numbered
  <2> QED BY <2>1, <2>2, <2>3 DEF IsInjective, Increasing
<1>2. IInv => TypeOK
  BY DEF IInv
<1> QED BY <1>1, <1>2, WalkInitially, WalkInductive, Invariance, PTL DEF Spec
=============================================================================
