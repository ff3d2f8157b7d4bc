------------------------------ MODULE Lifecycle ------------------------------
(***************************************************************************)
(* pkg/sandbox: create.go, connect.go, resume.go, fork.go, pause.go,       *)
(* kill.go and list_v2.go over the life of the sandboxes themselves.       *)
(*                                                                         *)
(* Several clients make calls, one at a time each; the platform (external) *)
(* serves each at some moment of the call, and its answer may be lost on   *)
(* the way.  What a method makes of the answer is ControlPlane!Return.     *)
(* Or a client walks the list of sandboxes page by page, and does nothing  *)
(* else.                                                                   *)
(*                                                                         *)
(* Sandboxes are numbered in the order they are created, which is also the *)
(* order they are listed in.                                               *)
(***************************************************************************)
EXTENDS ControlPlane, Paginator, SequencesExt

CONSTANTS Clients,
          MaxSandboxes,   \* bound: sandboxes ever created
          MaxCalls,       \* bound: calls made
          Limit           \* sandboxes to a page

ASSUME MaxSandboxesAssumption == MaxSandboxes \in Nat
ASSUME MaxCallsAssumption == MaxCalls \in Nat
ASSUME LimitAssumption == Limit \in Nat \ {0}

VARIABLES
  state,    \* the sandboxes, at the platform
  old,      \* those whose envd is older than envdVersionMinimum
  call,     \* Clients -> its call in progress, or what its last returned
  asked,    \* how many calls have been made
  met,      \* Clients -> history: the states the call's sandbox was in
            \* while it lasted
  handles,  \* the sandboxes somebody has been given a handle to
  killed,   \* history: how often Kill reported true
  dropped,  \* history: sandboxes the answer about which was lost
  pages,    \* the walk: its Paginator
  page,     \* the page on its way to it, if any
  got,      \* what it has gathered
  stayed    \* history: the sandboxes listed since it began

calls == <<call, asked, met>>
history == <<handles, killed, dropped>>
walk  == <<pages, page, got>>
vars == <<state, old, calls, history, walk, stayed>>

Sandboxes == 1 .. MaxSandboxes
States == {"none", "running", "paused", "gone"}
Live(s) == state[s] \in {"running", "paused"}
Known == {s \in Sandboxes : state[s] # "none"}

Rest == [Create |-> Create, Connect |-> Connect, Resume |-> Resume,
         Fork |-> Fork, Pause |-> Pause, Kill |-> Kill]

\* A call: "made" are the sandboxes the platform started for it, "tooOld" that
\* it is the Kill of a Create that was given an old envd, "err" what it
\* returned.
Call(at, method, s, err) ==
  [at |-> at, method |-> method, id |-> s, status |-> 0, made |-> {},
   tooOld |-> FALSE, err |-> err]
Asking(method, s) == Call("sent", method, s, "none")
Over(method, s, err) == Call("over", method, s, err)
Idle(c) == call[c].at = "over"

Init ==
  /\ \E n \in 0 .. MaxSandboxes :
       /\ state = [s \in Sandboxes |-> IF s <= n THEN "running" ELSE "none"]
       /\ handles = 1 .. n
  /\ old = {} /\ asked = 0
  /\ call = [c \in Clients |-> Over("Kill", 0, "Sandbox")]
  /\ met = [c \in Clients |-> {}]
  /\ killed = [s \in Sandboxes |-> 0] /\ dropped = {}
  /\ pages = NewPaginator /\ page = <<>> /\ got = <<>>
  /\ stayed = {}

-----------------------------------------------------------------------------
(* The calls.                                                               *)

Ask(c) ==
  /\ Idle(c)
  /\ asked < MaxCalls /\ asked' = asked + 1
  /\ \/ call' = [call EXCEPT ![c] = Asking("Create", 0)]
        /\ met' = [met EXCEPT ![c] = {}]
     \/ \E s \in Known, method \in DOMAIN Rest \ {"Create"} :
          /\ call' = [call EXCEPT ![c] = Asking(method, s)]
          /\ met' = [met EXCEPT ![c] = {state[s]}]
  /\ UNCHANGED <<state, old, history, walk, stayed>>

\* What the call hears: its answer, or nothing.
Answer(c, arrives) ==
  LET parse == Operations[Rest[call[c].method].op].parse
      status == call[c].status
  IN IF arrives
     THEN [status |-> status, json |-> status \in parse.json, good |-> TRUE,
           cursor |-> FALSE]
     ELSE Lost

Returned(c, arrives) == Return(Rest[call[c].method], Answer(c, arrives))

\* Create shuts down a sandbox whose envd is too old to talk to ...
ShutDown(c) ==
  \E arrives \in BOOLEAN :
    LET s == call[c].id IN
    /\ call[c].at = "answered" /\ call[c].method = "Create"
    /\ Returned(c, arrives).err = "none" /\ s \in old
    /\ call' = [call EXCEPT ![c] = [Asking("Kill", s) EXCEPT !.tooOld = TRUE]]
    /\ UNCHANGED <<state, old, asked, met, history, walk, stayed>>

\* ... and reports that, whatever became of the Kill.
TooOld(c) ==
  \E arrives \in BOOLEAN :
    LET s == call[c].id IN
    /\ call[c].at = "answered" /\ call[c].tooOld
    /\ dropped' = IF Returned(c, arrives).err = "none" THEN dropped
                  ELSE dropped \cup {s}
    /\ call' = [call EXCEPT ![c] = Over("Create", s, "Template")]
    /\ UNCHANGED <<state, old, asked, met, handles, killed, walk, stayed>>

\* As Given, a fork that failed hiding the others (a mutant).
GivenAllOrNothing(c, r) ==
  IF r.err # "none" THEN {}
  ELSE IF call[c].method = "Fork" /\ Cardinality(call[c].made) = 1 THEN {}
  ELSE call[c].made

\* The sandboxes the call returns handles to: newSandbox, or forkResult for
\* each fork that succeeded.
Given(c, r) == IF r.err = "none" THEN call[c].made ELSE {}

\* Any other call returns.
Arrive(c) ==
  \E arrives \in BOOLEAN :
    LET r == Returned(c, arrives)
        s == call[c].id
        method == call[c].method
    IN
    /\ call[c].at = "answered" /\ ~call[c].tooOld
    /\ ~(method = "Create" /\ r.err = "none" /\ s \in old)
    /\ handles' = handles \cup Given(c, r)
    /\ killed' = IF method = "Kill" /\ r.value = "done"
                 THEN [killed EXCEPT ![s] = @ + 1] ELSE killed
    /\ dropped' = IF r.err = "none" THEN dropped ELSE dropped \cup call[c].made
    /\ call' = [call EXCEPT ![c] = Over(method, s, r.err)]
    /\ UNCHANGED <<state, old, asked, met, walk, stayed>>

-----------------------------------------------------------------------------
(* The platform.                                                            *)

\* The sandboxes "which" come to be in "new": the calls under way meet it.
Become(which, new) ==
  /\ state' = [s \in Sandboxes |-> IF s \in which THEN new ELSE state[s]]
  /\ met' = [c \in Clients |->
               IF ~Idle(c) /\ call[c].id \in which THEN met[c] \cup {new}
               ELSE met[c]]
  /\ stayed' = IF new = "gone" THEN stayed \ which ELSE stayed

Serving(c, method) == call[c].at = "sent" /\ call[c].method = method
In(c, states) == state[call[c].id] \in states

\* The platform answers call c with a status, having made "made" for it.
Reply(c, status, made) ==
  call' = [call EXCEPT ![c].at = "answered", ![c].status = status,
                       ![c].made = made]

Same(c, status) ==
  /\ Reply(c, status, {})
  /\ UNCHANGED <<state, old, asked, met, history, walk, stayed>>

\* It is refused, or never arrives (see "arrives").
Refuse(c) ==
  /\ call[c].at = "sent"
  /\ Same(c, 500)

\* A new sandbox, the next one: "met" starts with it.
ServeCreate(c) ==
  \E s \in Sandboxes \ Known :
    /\ Serving(c, "Create")
    /\ \A t \in Sandboxes \ Known : s <= t
    /\ state' = [state EXCEPT ![s] = "running"]
    /\ met' = [met EXCEPT ![c] = {"running"}]
    /\ old' \in {old, old \cup {s}}
    /\ call' = [call EXCEPT ![c].at = "answered", ![c].status = 201,
                            ![c].made = {s}, ![c].id = s]
    /\ UNCHANGED <<asked, history, walk, stayed>>

\* 200 for a running sandbox, 201 for one it had to resume.
ServeConnect(c) ==
  /\ Serving(c, "Connect") /\ ~In(c, {"gone"})
  /\ Reply(c, IF In(c, {"paused"}) THEN 201 ELSE 200, {call[c].id})
  /\ Become({call[c].id}, "running")
  /\ UNCHANGED <<old, asked, history, walk>>

ServeResume(c) ==
  /\ Serving(c, "Resume") /\ In(c, {"paused"})
  /\ Reply(c, 201, {call[c].id})
  /\ Become({call[c].id}, "running")
  /\ UNCHANGED <<old, asked, history, walk>>

ServePause(c) ==
  /\ Serving(c, "Pause") /\ In(c, {"running"})
  /\ Reply(c, 204, {})
  /\ Become({call[c].id}, "paused")
  /\ UNCHANGED <<old, asked, history, walk>>

ServeKill(c) ==
  /\ Serving(c, "Kill") /\ ~In(c, {"gone"})
  /\ Reply(c, 204, {})
  /\ Become({call[c].id}, "gone")
  /\ UNCHANGED <<old, asked, history, walk>>

\* Two forks are asked for; each succeeds or fails on its own.
ServeFork(c) ==
  /\ Serving(c, "Fork") /\ In(c, {"running"})
  /\ \E n \in 0 .. 2 :
       LET made == {s \in Sandboxes \ Known :
                      Cardinality({t \in Sandboxes \ Known : t <= s}) <= n}
       IN Reply(c, 201, made) /\ Become(made, "running")
  /\ UNCHANGED <<old, asked, history, walk>>

\* The sandbox is not in a state the call applies to.
ServeConflict(c) ==
  /\ \/ Serving(c, "Pause") /\ In(c, {"paused"})
     \/ Serving(c, "Resume") /\ In(c, {"running"})
     \/ Serving(c, "Fork") /\ In(c, {"paused"})
  /\ Same(c, 409)

ServeMissing(c) ==
  /\ call[c].at = "sent" /\ call[c].method # "Create" /\ In(c, {"gone"})
  /\ Same(c, 404)

\* A sandbox's time is over: it is shut down, or paused (AutoPause).
Expire ==
  \E s \in Sandboxes, new \in {"gone", "paused"} :
    /\ state[s] = "running"
    /\ Become({s}, new)
    /\ UNCHANGED <<old, call, asked, history, walk>>

-----------------------------------------------------------------------------
(* The walk: ListV2, then NextItems until HasNext is false, as All does.    *)

Walking(c) == call[c].at = "walking"

WalkBegins(c) ==
  /\ Idle(c) /\ \A d \in Clients : ~Walking(d)
  /\ call' = [call EXCEPT ![c] = Call("walking", "Kill", 0, "none")]
  /\ met' = [met EXCEPT ![c] = {}]
  /\ stayed' = {s \in Sandboxes : Live(s)}
  /\ UNCHANGED <<state, old, asked, history, walk>>

After(token) == {s \in Sandboxes : Live(s) /\ s > token}

\* "items" are the first of the sandboxes after the cursor, in their order.
Lists(items, token) ==
  /\ \A i, j \in DOMAIN items : i < j => items[i] < items[j]
  /\ ToSet(items) \subseteq After(token)
  /\ \A s \in After(token) \ ToSet(items) :
       Len(items) = Limit /\ Last(items) < s

\* The page the platform lists from a cursor, itself with one if more are left.
Listing(items, token) ==
  [err |-> "none", items |-> items,
   token |-> IF After(token) \subseteq ToSet(items) THEN NoToken
             ELSE Last(items)]

\* The page a fetch asks for: its cursor, when it is set, is a parameter of
\* the request.
Asked ==
  IF "nextToken" \in Sent(ListV2, IF pages.nextToken # NoToken
                                  THEN {"nextToken"} ELSE {})
  THEN pages.nextToken ELSE NoToken

WalkServed(c) ==
  /\ Walking(c)
  /\ HasNext(pages) /\ page = <<>>
  /\ \E items \in SeqOf(Sandboxes, Limit) :
       Lists(items, Asked) /\ page' = <<Listing(items, Asked)>>
  /\ UNCHANGED <<state, old, calls, history, pages, got, stayed>>

\* What the fetch returns for the page, its status 200, or for no answer.
FetchReturns(arrives) ==
  LET answer == IF arrives
                THEN [status |-> 200, json |-> TRUE, good |-> TRUE,
                      cursor |-> page[1].token # NoToken]
                ELSE Lost
  IN [err |-> Return(ListV2, answer).err,
      items |-> IF arrives THEN page[1].items ELSE <<>>,
      token |-> IF Cursor(ListV2, answer) THEN page[1].token ELSE NoToken]

WalkArrives(c) ==
  \E arrives \in BOOLEAN :
    LET fetched == FetchReturns(arrives) IN
    /\ Walking(c) /\ page # <<>>
    /\ pages' = NextItems(pages, fetched)
    /\ got' = got \o Items(pages, fetched)
    /\ page' = <<>>
    /\ UNCHANGED <<state, old, calls, history, stayed>>

-----------------------------------------------------------------------------

Next ==
  \/ \E c \in Clients :
       \/ Ask(c) \/ ShutDown(c) \/ TooOld(c) \/ Arrive(c)
       \/ Refuse(c) \/ ServeCreate(c) \/ ServeConnect(c) \/ ServeResume(c)
       \/ ServePause(c) \/ ServeKill(c) \/ ServeFork(c) \/ ServeConflict(c)
       \/ ServeMissing(c)
       \/ WalkBegins(c) \/ WalkServed(c) \/ WalkArrives(c)
  \/ Expire

Spec == Init /\ [][Next]_vars

-----------------------------------------------------------------------------

Results == {"none", "Sandbox", "Transport", "Conflict", "NotFound", "Template"}
CallRecord ==
  [at : {"sent", "answered", "over", "walking"}, method : DOMAIN Rest,
   id : Sandboxes \cup {0}, status : {0, 200, 201, 204, 404, 409, 500},
   made : SUBSET Sandboxes, tooOld : BOOLEAN, err : Results]

\* The type invariant, of everything but the pages of the walk.
TypeOK ==
  /\ state \in [Sandboxes -> States] /\ old \subseteq Sandboxes
  /\ call \in [Clients -> CallRecord] /\ asked \in 0 .. MaxCalls
  /\ met \in [Clients -> SUBSET States]
  /\ handles \subseteq Sandboxes /\ dropped \subseteq Sandboxes
  /\ killed \in [Sandboxes -> Nat] /\ stayed \subseteq Sandboxes

\* What a call answers was true of the sandbox at some moment while the call
\* lasted, whatever other clients did to it meanwhile: after a Pause without
\* error it was paused (a 409 taken for success included), after Connect and
\* Resume it was running, after Kill, true or false, it was gone; "not found"
\* means gone. Create answers a sandbox that ran and whose envd is not too
\* old, or, with a TemplateError, one that is shut down or whose Kill failed.
AnswersTruthful ==
  \A c \in Clients : Idle(c) =>
    LET l == call[c] IN
    /\ l.err = "none" =>
         CASE l.method = "Pause" -> "paused" \in met[c]
           [] l.method \in {"Connect", "Resume"} -> "running" \in met[c]
           [] l.method = "Kill" -> "gone" \in met[c]
           [] l.method = "Create" -> "running" \in met[c] /\ l.id \notin old
           [] OTHER -> TRUE
    /\ l.err = "NotFound" => "gone" \in met[c]
    /\ l.err = "Template" => state[l.id] = "gone" \/ l.id \in dropped

\* Two clients that kill one sandbox are not both told that they did, and
\* one that is told so never meets it again.
KilledOnce ==
  \A s \in Sandboxes : killed[s] <= 1 /\ (killed[s] = 1 => state[s] = "gone")

\* A sandbox that is up is one somebody holds, or is about to be given, or
\* about which the platform's answer was lost and its caller told of an error:
\* neither a fork that fails beside others nor the Kill of a too old sandbox
\* leaves one behind in silence.
NoSilentLeak ==
  \A s \in Sandboxes : Live(s) =>
    \/ s \in handles \cup dropped
    \/ \E c \in Clients : \/ s \in call[c].made
                          \/ call[c].tooOld /\ call[c].id = s

\* A walk that is over has seen each sandbox that was there all along, and
\* no sandbox twice: not when pages failed to arrive and were asked for again,
\* and not while others were created, paused and killed.
WalkFaithful ==
  /\ IsInjective(got)
  /\ ~HasNext(pages) => stayed \subseteq ToSet(got)
=============================================================================
