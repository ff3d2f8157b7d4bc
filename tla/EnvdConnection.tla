--------------------------- MODULE EnvdConnection ---------------------------
(***************************************************************************)
(* pkg/sandbox/envd_conn.go and the methods that reach the agent inside a  *)
(* sandbox, envd: by connect calls, with one answer ("unary") or a stream  *)
(* of them ("stream"), and by HTTP requests for files ("http").            *)
(*                                                                         *)
(* A method is the record of its kind, its procedure or operation, whether *)
(* it takes an acting user, and the failures it reports as false. Messages *)
(* are left out; streams are followed in CommandStream, PtyStream and      *)
(* DirectoryWatch, here only to their first answer.                        *)
(***************************************************************************)
EXTENDS Configuration

Files == INSTANCE EnvdWire

-----------------------------------------------------------------------------
(* version_gate.go. A version is its parts between dots, -1 for one that is *)
(* not a number.                                                            *)

ParseEnvdVersion(version) ==
  [i \in 1 .. 3 |->
     IF i <= Len(version) /\ version[i] # -1 THEN version[i] ELSE 0]

\* As LessThan, a part that is equal deciding (a mutant).
LessThanEverywhere(v, other) == \A i \in 1 .. 3 : v[i] < other[i]

LessThan(v, other) ==
  \E i \in 1 .. 3 : /\ v[i] < other[i]
                    /\ \A j \in 1 .. i - 1 : v[j] = other[j]
Supports(v, gate) == ~LessThan(v, gate)

EnvdVersionRecursiveWatch == <<0, 1, 4>>
EnvdVersionDefaultUser == <<0, 4, 0>>

-----------------------------------------------------------------------------
(* A handle on a sandbox, from what the control plane says of it.           *)

\* As NewEnvdConn, the API key sent as well as the token (a mutant).
NewEnvdConnBoth(client, created) ==
  {<<"E2b-Sandbox-Id", created.id>>, <<"E2b-Sandbox-Port", EnvdPort>>,
   <<"X-API-Key", client.apiKey>>}
  \cup (IF created.access = "" THEN {}
        ELSE {<<"X-Access-Token", created.access>>})
  \cup (IF created.traffic = "" THEN {}
        ELSE {<<"E2B-Traffic-Access-Token", created.traffic>>})

\* The headers of a connection; Keepalive-Ping-Interval is left out.
NewEnvdConn(client, created) ==
  {<<"E2b-Sandbox-Id", created.id>>, <<"E2b-Sandbox-Port", EnvdPort>>}
  \cup (IF created.access = "" THEN {<<"X-API-Key", client.apiKey>>}
        ELSE {<<"X-Access-Token", created.access>>})
  \cup (IF created.traffic = "" THEN {}
        ELSE {<<"E2B-Traffic-Access-Token", created.traffic>>})

NewSandbox(client, created) ==
  LET domain == SandboxDomain(client, created.domain) IN
  [id |-> created.id, domain |-> domain,
   version |-> ParseEnvdVersion(created.version),
   baseURL |-> SandboxURL(client, created.id, domain),
   headers |-> NewEnvdConn(client, created),
   mcp |-> <<>>]

ResolveUser(handle, user) ==
  IF user # "" THEN user
  ELSE IF Supports(handle.version, EnvdVersionDefaultUser) THEN ""
  ELSE "user"

-----------------------------------------------------------------------------
(* Methods.                                                                 *)

EnvdMethod(kind, op, asUser, falseFor) ==
  [kind |-> kind, op |-> op, asUser |-> asUser, falseFor |-> falseFor,
   recursive |-> FALSE]
Unary(op) == EnvdMethod("unary", op, FALSE, {})
UnaryAs(op) == EnvdMethod("unary", op, TRUE, {})
StreamAs(op) == EnvdMethod("stream", op, TRUE, {})
Http(op) == EnvdMethod("http", op, TRUE, {})

ListProcesses == Unary("List")
SendStdin == Unary("SendInput")
CloseStdin == Unary("CloseStdin")
KillProcess == EnvdMethod("unary", "SendSignal", FALSE, {"NotFound"})
Resize == Unary("Update")
StartProcess == StreamAs("Start")
ConnectProcess == StreamAs("Connect")

ListDir == UnaryAs("ListDir")
MakeDir == EnvdMethod("unary", "MakeDir", TRUE, {"Conflict"})
RemovePath == UnaryAs("Remove")
Rename == UnaryAs("Move")
GetInfo == UnaryAs("Stat")
Exists == EnvdMethod("unary", "Stat", TRUE, {"NotFound"})
Watch(recursive) ==
  [StreamAs("WatchDir") EXCEPT !.recursive = recursive]
CreateWatcher(recursive) ==
  [UnaryAs("CreateWatcher") EXCEPT !.recursive = recursive]
GetWatcherEvents == UnaryAs("GetWatcherEvents")
RemoveWatcher == UnaryAs("RemoveWatcher")

ReadFile == Http("GetFiles")
WriteFile == Http("PostFiles")
Compose == Http("PostFilesCompose")
IsRunning == EnvdMethod("http", "GetHealth", FALSE, {"Timeout"})

EnvdMethods ==
  { ListProcesses, SendStdin, CloseStdin, KillProcess, Resize, StartProcess,
    ConnectProcess, ListDir, MakeDir, RemovePath, Rename, GetInfo, Exists,
    GetWatcherEvents, RemoveWatcher, ReadFile, WriteFile, Compose,
    IsRunning }
  \cup {Watch(r) : r \in BOOLEAN} \cup {CreateWatcher(r) : r \in BOOLEAN}

\* Recursive watching is refused without a request when envd is too old.
TooOldFor(handle, m) ==
  m.recursive /\ ~Supports(handle.version, EnvdVersionRecursiveWatch)

\* The request: where it goes, its headers, and who it acts as, which is a
\* header of a connect call and a parameter of a file's. The interceptor that
\* adds the connection's headers is for unary calls: a stream has none of them.
EnvdRequest(handle, m, user) ==
  LET acting == IF m.op = "GetHealth" THEN ""
                ELSE ResolveUser(handle, IF m.asUser THEN user ELSE "")
  IN [url     |-> handle.baseURL,
      headers |-> IF m.kind = "stream" THEN {} ELSE handle.headers,
      user    |-> acting]

\* checkEnvdResponse
CheckEnvd(status) == IF status \in 200 .. 299 THEN "none" ELSE FromHTTP(status)

\* What a connect call returns for the code of its answer.
ReturnConnect(m, code) ==
  LET err == FromConnect(code) IN
  IF err = "none" THEN Ok("done")
  ELSE IF err \in m.falseFor THEN Ok("false")
  ELSE Fail(err)

\* What a request for files returns: a read passes the body on as it is, a
\* write decodes its body itself, Compose has it decoded by the generated
\* client, and IsRunning takes any answer but 502 for a sign of life. "late"
\* says that an answer which never arrived was given up on for its lateness.
ReturnHttp(m, answer, late) ==
  LET r == Files!Decode(Files!Operations[m.op].parse, answer)
      err == CheckEnvd(answer.status)
  IN IF answer.status = 0
       THEN Fail(IF m = IsRunning /\ IsTimeout("Transport", late, FALSE)
                 THEN "Timeout" ELSE "Transport")
     ELSE IF m = IsRunning
       THEN Ok(IF answer.status = 502 THEN "false" ELSE "done")
     ELSE IF m = Compose /\ r.err # "none" THEN Fail(r.err)
     ELSE IF err # "none" THEN Fail(err)
     ELSE IF m = WriteFile /\ ~answer.good THEN Fail("Undecodable")
     ELSE IF m = Compose /\ r.field # 200 THEN Fail("Sandbox")
     ELSE Ok(IF m = ReadFile THEN "body" ELSE "done")
=============================================================================
