-------------------------------- MODULE Calls --------------------------------
(***************************************************************************)
(* A client from its configuration to its calls: pkg/transport makes it,   *)
(* the methods of ControlPlane ask the control plane, and a handle on a    *)
(* sandbox asks envd with the methods of EnvdConnection.                   *)
(*                                                                         *)
(* The client makes one call after another; what a sandbox does meanwhile  *)
(* is in Lifecycle, and how calls are repeated in Retry. A server answers  *)
(* as its specification says, or not at all as it says: any status, with a *)
(* body that is described, garbled, or not JSON.                           *)
(***************************************************************************)
EXTENDS ControlPlane, EnvdConnection

CONSTANTS None,       \* no client, no handle, no call
          Configs,    \* pairs of a Config and an environment
          Created,    \* what the control plane may say of a sandbox
          Users,      \* acting users a caller may name, "" for none
          Statuses    \* the statuses an answer may have

\* envd's versions have no signs: what is not a number is -1.
ASSUME CreatedAssumption ==
  \A answer \in Created : answer.version \in Seq(Nat \cup {-1})

VARIABLES config,     \* what the client was made of, until its first call
          client,     \* the resolved configuration
          handle,     \* a *Sandbox
          told,       \* history: what the control plane said of it
          call,       \* the call being made: its method and its request
          reply,      \* the answer to it
          result      \* and what the method returned

vars == <<config, client, handle, told, call, reply, result>>

Init == /\ config = None /\ client = None /\ handle = None
        /\ told = None /\ call = None /\ reply = None /\ result = None

-----------------------------------------------------------------------------

\* transport.New
New ==
  /\ client = None
  /\ \E pair \in Configs :
       LET made == Resolve(pair[1], pair[2]) IN
       /\ config' = pair
       /\ client' = IF made.err = "none" THEN made.value ELSE None
       /\ result' = IF made.err = "none" THEN None ELSE made
  /\ UNCHANGED <<handle, told, call, reply>>

\* A sandbox is created, connected to, resumed or forked.
Open ==
  /\ client # None /\ handle = None /\ call = None
  /\ told' \in Created
  /\ handle' = NewSandbox(client, told')
  /\ config' = None /\ result' = None
  /\ UNCHANGED <<client, call, reply>>

\* A call on the control plane. It does not look at the handle, and is made
\* here before there is one.
AskControlPlane ==
  /\ client # None /\ handle = None /\ call = None
  /\ \E m \in Methods \cup Raw :
     \E given \in {{}, Operations[m.op].request.optional} :
       call' = [server |-> "control plane", method |-> m,
                request |-> [url |-> client.apiURL,
                             headers |-> Authorize(client),
                             params |-> Sent(m, given)]]
  /\ config' = None
  /\ UNCHANGED <<client, handle, told, reply, result>>

\* A call on envd, refused here when envd is too old for it.
AskEnvd ==
  /\ handle # None /\ call = None
  /\ \E m \in EnvdMethods, user \in Users :
       /\ call' = [server |-> "envd", method |-> m, mcp |-> FALSE,
                   request |-> EnvdRequest(handle, m, user)]
       /\ result' = IF TooOldFor(handle, m) THEN Fail("Sandbox") ELSE None
  /\ UNCHANGED <<config, client, handle, told, reply>>

\* MCPToken: the first call reads a file as root, the others have its answer.
MCPToken ==
  /\ handle # None /\ call = None
  /\ call' = [server |-> "envd", method |-> ReadFile, mcp |-> TRUE,
              request |-> EnvdRequest(handle, ReadFile, "root")]
  /\ result' = IF handle.mcp = <<>> THEN None ELSE handle.mcp[1]
  /\ UNCHANGED <<config, client, handle, told, reply>>

\* What a call of MCPToken got is kept, a failure as well.
KeepMcpToken(r) ==
  IF call.mcp THEN [handle EXCEPT !.mcp = <<r>>] ELSE handle

\* The failures a server can mean, as a status and as a connect code.
Causes ==
  [ missing     |-> [status |-> 404, code |-> "not_found"],
    exists      |-> [status |-> 409, code |-> "already_exists"],
    invalid     |-> [status |-> 400, code |-> "invalid_argument"],
    anonymous   |-> [status |-> 401, code |-> "unauthenticated"],
    denied      |-> [status |-> 403, code |-> "permission_denied"],
    tooMany     |-> [status |-> 429, code |-> "resource_exhausted"],
    unreachable |-> [status |-> 502, code |-> "unavailable"],
    internal    |-> [status |-> 500, code |-> "internal"] ]

Pending == call # None /\ result = None

WithCursor(r, cursor) == [err |-> r.err, value |-> r.value, cursor |-> cursor]

\* The control plane's answer, or none.
ControlPlaneAnswers ==
  /\ Pending /\ call.server = "control plane"
  /\ \E answer \in Answers(Statuses) \cup {Lost} :
       /\ answer.good => answer.json
       /\ answer.cursor => answer.status = 200 /\ answer.good
       /\ reply' = answer
       /\ result' = WithCursor(Return(call.method, answer),
                               Cursor(call.method, answer))
  /\ UNCHANGED <<config, client, handle, told, call>>

\* envd's answer to a request for a file, or none.
FilesAnswer ==
  /\ Pending /\ call.server = "envd" /\ call.method.kind = "http"
  /\ \E answer \in Answers(Statuses) \cup {Lost}, late \in BOOLEAN :
       LET r == ReturnHttp(call.method, answer, late) IN
       /\ answer.good => answer.json
       /\ late => answer.status = 0
       /\ ~answer.cursor
       /\ reply' = answer
       /\ result' = r
       /\ handle' = KeepMcpToken(r)
  /\ UNCHANGED <<config, client, told, call>>

\* envd's answer to a connect call, or the first of a stream, or none.
RpcAnswers ==
  /\ Pending /\ call.server = "envd" /\ call.method.kind # "http"
  /\ \E code \in {"ok", "plain", "canceled"} \cup {Causes[c].code : c \in DOMAIN Causes} :
       /\ reply' = [code |-> code]
       /\ result' = ReturnConnect(call.method, code)
  /\ UNCHANGED <<config, client, handle, told, call>>

\* The caller takes the result and goes on.
GoOn ==
  /\ call # None /\ result # None
  /\ call' = None /\ reply' = None /\ result' = None
  /\ UNCHANGED <<config, client, handle, told>>

Next == \/ New \/ Open \/ AskControlPlane \/ AskEnvd \/ MCPToken
        \/ ControlPlaneAnswers \/ FilesAnswer \/ RpcAnswers \/ GoOn

Spec == Init /\ [][Next]_vars

-----------------------------------------------------------------------------

\* The domain is the first that is set of those the documentation of Config
\* lists, and region and domain, settled in two passes, never disagree: a
\* sandbox domain of a region comes with that region, whatever else is set, and
\* in mainland China with the image that is served there.
DomainAsDocumented ==
  config # None /\ client # None =>
    LET c == config[1]
        e == config[2]
        listed == <<c.domain,
                    IF c.region = "" THEN NoDomain ELSE DomainForRegion(c.region),
                    IF e.region = "" THEN NoDomain ELSE DomainForRegion(e.region),
                    e.domain, DomainForRegion(DefaultRegion)>>
        first == CHOOSE i \in DOMAIN listed :
                   /\ listed[i] # NoDomain
                   /\ \A j \in 1 .. i - 1 : listed[j] = NoDomain
    IN /\ client.domain = listed[first]
       /\ RegionFromDomain(client.domain) \in {"", client.region}
       /\ RegionFromDomain(client.domain) \in China =>
            BaseImageForRegion(client.region) = "base_cn"

\* A request carries one credential, and the right one. To the control plane
\* it is the client's key, whatever headers the caller added; to envd it is
\* the sandbox's own token where there is one, and the account's key never
\* goes to a sandbox that has a token. Streams, which carry no header of the
\* connection, are left out.
Keys(request) == {h \in request.headers : h[1] = "X-API-Key"}
Tokens(request) == {h \in request.headers : h[1] = "X-Access-Token"}
OneCredential ==
  call # None =>
    /\ call.server = "control plane" =>
         Keys(call.request) = {<<"X-API-Key", client.apiKey>>}
    /\ call.server = "envd" /\ call.method.kind # "stream" =>
         /\ Keys(call.request) \cup Tokens(call.request) =
              {IF told.access # "" THEN <<"X-Access-Token", told.access>>
               ELSE <<"X-API-Key", client.apiKey>>}
         /\ <<"E2b-Sandbox-Id", handle.id>> \in call.request.headers

\* An envd that has no default user, which then is root, is always told whom
\* to act as: one whose version, as the control plane reports it, is a version
\* before 0.4.0, or is missing or has no number in it. The exception are
\* versions with some parts that are numbers and some that are not: such a
\* part counts as 0, and "0.4.x" as an envd that has a default user.
Malformed(version) == \E i \in DOMAIN version : version[i] = -1
Part(version, i) == IF i <= Len(version) THEN version[i] ELSE 0
BeforeDefaultUser(version) ==
  /\ ~Malformed(version)
  /\ Part(version, 1) = 0 /\ Part(version, 2) < 4
Unreadable(version) == \A i \in DOMAIN version : version[i] = -1
NamesUser == call.request.user # ""
RootNeverByDefault ==
  call # None /\ call.server = "envd" /\ call.method.op # "GetHealth" =>
    (BeforeDefaultUser(told.version) \/ Unreadable(told.version) => NamesUser)

\* No method reports success for a request that failed, unless the failure
\* says that what it asked for is so: a deletion finds nothing, a pause or a
\* new directory finds it done, a question is answered. (IsRunning takes any
\* answer for a sign of life.)
MayForgive(m) ==
  IF call.server = "control plane"
  THEN IF Operations[m.op].request.method = "DELETE" THEN {404}
       ELSE IF m = Pause THEN {409}
       ELSE IF m = SecretExists THEN {404} ELSE {}
  ELSE IF m = MakeDir THEN {"already_exists"}
       ELSE IF m \in {Exists, KillProcess} THEN {"not_found"} ELSE {}
FailuresAreErrors ==
  reply # None /\ result.err = "none" /\ call.method # IsRunning =>
    IF "code" \in DOMAIN reply
    THEN reply.code \in {"ok"} \cup MayForgive(call.method)
    ELSE reply.status \in (200 .. 299) \cup MayForgive(call.method)

\* A success described by the API's specification is a success of the method,
\* and one that is not described never comes out as a result without a value.
\* (Connect's can.)
SuccessesAreResults ==
  reply # None /\ call.server = "control plane" =>
    LET m == call.method IN
    /\ reply.status \in Successes(Operations[m.op].parse) /\ reply.good =>
         result.err = "none" /\ result.value \in {"body", "done"}
    /\ m # Connect => (result.err = "none" => result.value # "nil")

\* A failure has the type that says what failed, the same over HTTP and over
\* connect: a caller does not have to know which protocol a method used.
Class == [missing |-> "NotFound", exists |-> "Conflict",
          invalid |-> "InvalidArgument", anonymous |-> "Authentication",
          denied |-> "Forbidden", tooMany |-> "RateLimit",
          unreachable |-> "Timeout", internal |-> "Sandbox"]
FailureKeepsItsClass ==
  reply # None /\ result.err # "none" =>
    \A c \in DOMAIN Causes :
      \/ "code" \in DOMAIN reply /\ reply.code = Causes[c].code
      \/ "code" \notin DOMAIN reply /\ reply.good
         /\ reply.status = Causes[c].status
      => result.err = Class[c]

=============================================================================
