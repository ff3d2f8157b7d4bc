# TLA+ models of the sandbox SDK

A formal model of `ucloud-sandbox-sdk-go`: TLA+ modules for the parts of the
SDK that keep state or run concurrently, TLC configurations that check them on
small instances, and theorems with proofs TLAPS checks for every instance.
Paths below are relative to the repository (`pkg/...`); `PROJECT.json` maps
every definition of a module to the lines it models.

- [The system](#the-system)
- [Modules, and how they correspond to the code](#modules-and-how-they-correspond-to-the-code)
- [Runs and bounds](#runs-and-bounds)
- [Fairness](#fairness)
- [What is proved](#what-is-proved)
- [What the code does not do as written](#what-the-code-does-not-do-as-written)
- [What is not modelled](#what-is-not-modelled)
- [Plan](#plan)

## The system

The SDK is a client library. It talks to two services: the **control plane**
(REST: sandboxes, templates, secrets, volumes) and, in each sandbox, **envd**
(Connect RPC: processes, files; and plain HTTP for file contents). Neither
service is in this repository. The state the SDK keeps lives in handles
(`CommandHandle`, `PtyHandle`, `WatchHandle`, `Watcher`, `Paginator`,
`Builder`), each filled by a goroutine or advanced by calls, and in one
`retryTransport` every request goes through.

| Component | State it keeps | Operations | What makes it hard | What makes it correct |
| --- | --- | --- | --- | --- |
| Commands (`pkg/sandbox/commands*.go`) | per handle: PID, two buffers under `mu`, result, error, `done`; a goroutine on a server stream | Start, Connect, Run, Wait, Kill, SendStdin, CloseStdin, List, Stdout/Stderr, callbacks | the handle exists before the process; streams end early, break or are cancelled; callbacks run user code; Kill and Wait race the goroutine | results are exactly what the process did; one verdict per handle, never changed; Wait always returns; Kill answers truthfully |
| Pseudo-terminals (`pty*.go`) | PID, a bounded channel of output, result, error, `done` | Create, Connect, Output, Wait, Kill, SendStdin, Resize | back-pressure: a full channel stops the goroutine that would see the end | no output lost or reordered; closed channel and verdict in that order; Wait returns when the output is read |
| Filesystem watching (`files_watch.go`, `files_watcher.go`) | stream, callbacks, `done`; or a watcher ID polled for events | Watch, Stop, Wait; CreateWatcher, Events, Remove | Stop races the stream's end; an error may look like a stop; a lost reply loses events | each event delivered once; onExit before Wait returns; errors reported |
| Filesystem operations (`files*.go`, `signature.go`) | none | read, write, list, stat, move, remove, compose | several files in one request; version gates | each operation is one request; a missing file is told from other failures |
| envd connection (`envd_conn.go`, `version_gate.go`) | base URL, access token, version | headers on unary calls, users, version comparisons | streaming calls bypass the interceptor | the right headers and gates on each call |
| Sandbox lifecycle (`create.go`, `connect.go`, `resume.go`, `fork.go`, `pause.go`, `kill.go`, `mcp.go`, ...) | the sandbox handle; the MCP token read once | create, connect, resume, fork, pause, kill, timeouts, snapshots | two clients on one sandbox; statuses taken for success; a creation half done | answers agree with the state of the sandbox; nothing leaks |
| Retrying transport (`pkg/transport/retry.go`) | per request: the attempt, the body, the response | RoundTrip | bodies consumed by the first attempt, contexts ending while it sleeps, `Retry-After` of any size | bodies re-sent whole, waits honoured and capped, every response closed |
| Configuration, client, paging (`pkg/transport`, `pkg/client`) | resolved configuration; a paginator's token | Resolve, New, NextItems, All | precedence of options and environment; lists that change between pages | deterministic resolution; every item that stays is returned |
| Template builds (`pkg/template/build*.go`, `upload_files.go`, ...) | a log offset and an interval; hashes of the files of each COPY; what is uploaded | Build, WaitForBuild, CreateV3, StartBuildV2, Publish | polls see a moving log; files change under a build; any of six requests fails | logs in order once each; the build is made of the caller's files; returned status is the build's |
| Template builder (`builder*.go`) | instructions, `force`, `forceNextLayer` | From*, Run, Copy, Env, SkipCache, FromDockerfile, ToDockerfile, ToJSON | sticky flags; a Dockerfile parsed and printed | steps and cache flags are those asked for |
| Template management, sandbox queries, secrets, volumes | none | CRUD, listing | 404 taken for absence | errors told from absence |
| Errors (`pkg/errdefs`) | none | FromHTTP, FromConnect, predicates | two mappings that must agree | one class per failure |

How they interact: every REST and RPC request passes the retrying transport;
`Build` calls `CreateV3`, the uploads, `StartBuildV2`, `WaitForBuild` and
`Publish` in that order; `Run` is `Start` and `Wait` with a deadline of its
own; a handle's goroutine and its callers share the handle's fields (the
buffers through `mu`, the verdict through the closing of `done`); callbacks
run on the handle's goroutine.

The hazards this gives rise to are listed one by one, each at its line and with
the properties that cover it, in `PROJECT.json` under `hazards`.

## Modules, and how they correspond to the code

### State that goroutines share

**CommandContract** is the specification of a command handle: processes write
chunks and exit; a handle is attached to at most one process and reaches one
verdict, either the exit status and exactly the output since it was attached,
or *lost*. No stream, lock or goroutine.

**CommandStream** is the code. One variable per field of `CommandHandle`
(`pid`, `buf`, `mu`, `result`, `err`, `done`), `pc` for where `consume` is
(`recv` in `stream.Receive`; `unlock`, `call`, `callback` in `appendOutput`;
`close` and `signal` in its deferred calls), `ctx` for the stream's context,
`call` for each API call in progress. `Start`, `Connect`, `Run`, `Wait`,
`Kill`, `Read` (Stdout/Stderr) are actions of the callers; `RecvStart`,
`RecvData`, `RecvEnd`, `RecvKeepalive` and `StreamOver` are the cases of
`consume`'s loop. envd and the network are external: `wire[h]` is what is in
flight, `tail[h]` what follows it (end of stream, error, still open); a request
may reach envd after its caller has given up, a reply may be lost (`KillFails`),
a process may be gone before `Connect` names it. A chunk is the number of the
write that made it; an exit code is one of three. `Verdict` is the refinement
mapping to CommandContract, whose specification is the property
`ImplementsContract`.

**PtyStream** is `PtyHandle` with its goroutine: `RecvData` takes a chunk in
hand, `PushOutput` sends it on the channel and waits while it is full,
`StreamOver`, `CloseOutput` and `CloseDone` are the end of the loop and the
deferred calls in the order they run.

**DirectoryWatch** is both ways of watching a directory. `Watch` opens a
stream; `RecvNothing`, `RecvEvent`, `EventReturns` are the loop of its
goroutine, `StreamOver` (what `stream.Err()` said), `Judge` (the context read
later than that), `TellExit`, `CancelContext`, `CloseDone` the lines after it in
the order they run. `Stop` stands for everything that ends the watch's context:
`Stop`, the timeout, the caller. `RequestTimeout` is the timeout of the HTTP
client the stream goes through. The polled `Watcher` is `CreateWatcher`,
`RemoveWatcher` and, for each call of `Events`, `Poll` (envd gives away what it
gathered), then `PollReturns` or `PollFails`; `PollRefused` never got there. A
change is its number, so that what is told can be compared with what happened.

**StreamContract** is the specification both handles implement, as
`ImplementsStream`: news is made while a source lasts and delivered in order; the
handle reaches one verdict, *well* if the source was heard to its end or the
handle was asked to stop, *lost* if the way to it failed; nothing is delivered
after the verdict, and it is what every answered Wait is answered with. For a
terminal the news is its output, delivered when consume takes it, and the verdict
is reached when consume leaves its loop (`StreamOver`), before any of the closes;
for a watch they are what onEvent is told, and `Judge`.

### Protocols of several requests

**Retry** is `RoundTrip`: `Send` the base transport, `Return`, `Retry`, `Wake`
and `Cancelled` the ways round its loop, `Waits` the parsing and cap of
`retryAfter`, with durations as wrapping signed integers. `source` says what
`GetBody` does, `open` which responses nobody has closed.

**BuildPoll** is `WaitForBuild`: `Check`, `Answer` (the control plane answers
with the state of that moment), `Act` (forward the entries, advance the offset,
judge the status), `Wake`. `slept` and `late` are history: the time slept
before and after the build was over. **WaitContract** is what it promises: the
caller hears the log from its first entry on and gets one answer, what the build
ended with or that the wait was given up, and nothing after it. Its specification
is the property `ImplementsWait`; the polls, the offset and the interval are
stuttering.

**TemplateBuild** is `Build` around it: `HashStep` is `prepareSteps` for one
step; `Skip`, `AskLink`, `Pack`, `Put` are `uploadFiles` for one step; `Create`,
`Start`, `Wait`, `Publish` are the requests. Each may fail before or after it
took effect. `Edit` is the caller changing a file at any moment. A hash is the
record of what it covers, `store` what the platform keeps under each hash,
`inputs` what the started build copies. `Wait` stands for all of BuildPoll, as
WaitContract's answer does.

**Lifecycle** follows sandboxes (running, paused, gone) through `Create`,
`Connect`, `Resume`, `Fork`, `Pause` and `Kill` of several clients. A call is
made, served by the platform at some moment (`Serve...`, `Refuse`), and
answered, or its answer is lost; what the method makes of the status is
`ControlPlane!Return`, the same operator the module Calls checks for every
method. `met` is history: the states the sandbox was in while the call lasted,
which is what an answer may truthfully speak of. A Create answered with a
sandbox whose envd is too old goes on to kill it and reports `Template`. A
client may instead walk the paged list (`Paginator`) while the others go on.

### The surface: every method, request and answer

**WireFormat**, **ApiWire** and **EnvdWire** are the two generated HTTP clients
as tables: for each operation the request its `New...Request` constructs (method,
body, query parameters always sent and sent when set) and the responses its
`Parse...Response` decodes (which statuses have a body with a field of its own).
They are tables because the code is: what matters above it is which status puts
a result in which field.

**Errdefs** maps statuses and connect codes to error types; an error is the name
of its type. **ControlPlane** has one record per method of the services
(sandbox, template, secret, volume): the operation it calls, the parameters it
can set, the fields it reads, the statuses it forgives, whether an empty field is
reported, whether it pages. `Return` is what all of them do with an answer.
**EnvdConnection** does the same for the methods that reach envd, and holds the
version gates, the headers and credentials of each kind of request and the
acting user. **Configuration** resolves a `Config` against the environment into
what the transport is made of. **Paginator** is its two fields.

**Calls** composes them: a client is made of a configuration (`Open`), gets a
handle on a sandbox the control plane describes in any of its forms, and makes
one call after another, each answered with any status and a body that is as
described, garbled or not JSON. Its state is small and its transitions many: it
evaluates every method against every answer.

**Builder** is the template builder: its state is the `Builder`, its actions the
chained calls, `FromDockerfile` included, and `ToDockerfile` and `ToJSON` are
operators. What the calls mean is defined a second time from the history of the
calls alone, and what a Dockerfile means by executing its lines; the properties
compare the two. Loops are recursive functions of the position. A Dockerfile is
the sequence of lines that buildkit's parser makes of it. Strings are opaque, but
for how they are read back where `ToDockerfile` has printed them, without quotes:
`Broken` says, of each string that does not read back as itself, what its line
becomes, its words, the variables it sets and the lines that its line breaks
start. `BaseOption` is the image of `BuilderOptions`, which a builder made without
options, as the one a Dockerfile is read into, does not have.

`MCRetry`, `MCTemplateBuild`, `MCLifecycle`, `MCBuilder` and `MCCalls` give
constants and symmetry to the runs. The `*Proofs` modules hold the theorems; each
extends the module it is about, TemplateBuildProofs both TemplateBuild and
BuildPoll, whose `PollInit`, `PollNext` and `PollSpec` have names of their own for
that reason.

## Runs and bounds

| Run | Question | Instance | Distinct states |
| --- | --- | --- | --- |
| `command_contract` | Are results and callbacks what the process did, and does the code implement CommandContract? | 2 handles (one starts, one connects), 1 process, 2 writes, callbacks | 1,117,131 |
| `command_calls` | Are answers truthful, is a verdict final, does Wait return, is a reader ever blocked? | 1 handle with callbacks and a cancellable context, 1 call, 2 writes, fair | 115,542 |
| `command_kill_before_pid` | expected violation | 1 handle, 1 call | |
| `retry` | Are bodies whole, responses closed, waits honoured? | 3 retries, a 16-value word, 3 units to a second, cap 4, every number of seconds | 73,232 |
| `pty` | Is output complete and in order, are Wait and Kill truthful, does the handle implement StreamContract, does Wait return? | channel of 2, window of 3, 4 chunks, 2 waits | 149,610 |
| `build_poll` | Do the polls implement WaitContract, is the backing off right, does the wait end? | 5 entries, 2 to a reply, intervals 2 to 13 | 46,302 |
| `template_build` | Is what is built, returned and published what was asked? | 2 sources of 2 contents, 3 builders, 2 calls, 2 edits | 289,832 |
| `watch` | Are events complete and in order, does the handle implement StreamContract, does onExit come first, are polls disjoint, does a stopped watch end? | 3 changes, window of 2, 2 waits, 2 polls | 79,886 |
| `watch_until_asked` | expected violation | the same | |
| `lifecycle` | Do answers agree with the sandbox, does anything leak, does a walk miss or repeat a sandbox? | 2 clients, 2 sandboxes, 3 calls, pages of 1 | 2,034,263 |
| `builder` | Are layers forced, bases taken and Dockerfiles read and written as asked? | every chain of up to 3 calls, 46 Dockerfiles | 333,340 |
| `calls` | Does every method handle every answer, with the right credentials, user and error? | every method, 26 configurations, 42 sandboxes, 12 statuses | 3,944,578 |

What the properties say is written above each of them. Type invariants are not
among them where they are proved. The bounds, and why they are enough for the
cases that matter:

- *CommandStream.* `MaxWrites = 2`: the smallest number for which order across
  stdout and stderr, a chunk in flight behind another, and a handle that
  connects between two writes all happen. Calls meet only in the process and in
  the context, so that one in the fair run shows what each does; what they
  answer is proved for any number. At most one keepalive is in flight (it
  changes nothing but the order of receives). PIDs are not reused.
- *Retry.* `Word = 16`, `Second = 3`, `MaxAfter = 4`, and as Retry-After every
  number of seconds a word holds, -8 to 7. Of these 0 and 1 are honoured, 2 is
  above the cap, and from 3 on the duration wraps: 3 to 5 to a negative one, which
  passes for no wait at all, 6 to one below the cap and 7 to one above it. `Retries = 3` is the
  default.
- *PtyStream.* More chunks (4) than the channel holds (2), and than the window
  (3); two waits, so that one can be early and one late.
- *BuildPoll.* Five entries with two to a reply make three replies necessary;
  intervals from 2 to 13 double twice and then meet the cap off a power of two.
  `slept` and `late` are counted up to the first value that no longer makes a
  difference.
- *TemplateBuild.* Two calls, so that the second meets the first one's bundles;
  two edits, so that contents can change and change back; a builder that copies
  one source twice to one place (one hash, one upload) and once to another, one
  with a RUN between two COPYs, and one with nothing to upload.
- *DirectoryWatch.* Three changes and a window of two leave one told, some under
  way and one not sent; two waits and two polls for one to overtake the other.
- *Lifecycle.* Two clients, since all that a call meets is one other at a time;
  three calls let one create and both act on what was created; two sandboxes and
  pages of one make a walk of three pages that a creation and a kill can
  disturb.
- *Builder.* Three calls reach a flag, an instruction that uses it and one that
  must not; two lines after a FROM reach a line that depends on another; an image,
  a path and a key are empty in one call each; a path, a command and a variable
  have a blank in one call each, a variable an assignment and a command a line
  break.
- *Calls.* Statuses are those a method treats in a way of its own, and one of
  each class; configurations set up to two of the four places a region and
  domain come from, and each other field once; versions below a gate by each part, one with a part
  above 999, and versions that are malformed altogether and in one part.

Deadlock is not checked except in `calls`: handles that are done, and callers
with nothing left to ask, stop for good.

## Fairness

Fairness is stated only of what the code, the runtime or a documented promise
schedules, and each liveness property says which it uses.

- Goroutines of the SDK run (weak fairness of `Consume`, `WaitDone`, `Client`
  and so on): the Go scheduler. A reader waiting for `mu` gets it eventually
  (strong fairness of `ReadReturns`): a `sync.Mutex` that starves a waiter is
  handed to it.
- envd ends the stream of a process that has exited, and a stream whose
  context is cancelled fails: what `consume` relies on. Nothing makes a
  process exit, a connection fail, a context end or a build finish.
- Callbacks belong to the user. `ReaderNeverBlocked` needs nothing of them;
  `WaitReturns` of CommandStream has their returning as its hypothesis, and
  `StopEnds` of DirectoryWatch assumes that onEvent returns (`FairSpec`).
- The caller of a terminal reads its output (`DrainedSpec`), as
  `pty_create.go:11-12` asks; without it Wait need not return.
- A poll that does not fail is answered (`FairSpec` of BuildPoll), and the
  callback of the logs returns.

## What is proved

TLAPS checks 47 theorems a reader should know of, for all values of the
constants: every invariant of a passing run, the action property of
CommandStream, and the four refinements, of CommandContract, WaitContract and,
twice, StreamContract. For each component an inductive invariant strengthens the
property; a refinement is proved from it step by step, every action being a step
of the contract or a stutter.

- **CommandStreamProofs**. *A verdict is final*
  (`OutcomeSettled`) and *Kill answers truthfully* (`KillTellsTheTruth`) follow
  from where `consume` is: the outcome is decided before `done` is closed, and
  nothing after it writes. *Results are the truth* (`ResultIsTruthful`) needs to
  speak of the wire: `StreamInv` says that the buffers followed by what is in
  flight continue what the process had written when the handle was attached,
  each source in order; it is kept by a write, a receive and a cut of the wire
  (lemmas over plain values). Joined with the first part it gives the step
  simulation of `StreamImplementsContract`, and `ReportsAgree` for what Run and
  Wait returned. *Callbacks* (`CallbacksAreFaithful`) need the order across the
  two sources, which buffers do not keep: `HearInv` says that the chunks heard,
  with the one in consume's hand, come before all that is in flight, in order
  and as many as are buffered.
- **PtyStreamProofs**. A chunk is in the wire, in consume's hand, in the channel
  or with the reader; `OutputFaithful` is inductive once each passing on is seen
  to leave the order alone, for any capacity. `CourseInv` follows consume, Wait
  and Kill from line to line for `ExitIsTruthful`. Both are needed for
  `HandleImplementsStream`: the chunk received is the next one because what is
  taken is the beginning of what was printed before and after the step, and the
  loop is left with no error only when nothing is missing.
- **DirectoryWatchProofs**. `OrderInv` follows the lines after the loop (what is
  decided, told, cancelled and closed at each), `StreamInv` bounds what was told
  and is under way by what was sent, `PollInv` keeps changes at envd, under way
  and handed out apart. Their theorems are about events, the order of onExit and
  Wait, and polls; of the first two, `HandleImplementsStream`. `VerdictTruthful`
  is what the contract says of a verdict, as an invariant of the code's own
  variables; no run checks it, since `ImplementsStream` says it.
- **RetryProofs**. `IInv` ties the trace to the attempt, the body to its source
  and the responses to who closed them; bodies, responses and waits follow from
  it for any number of retries, cap and width of a duration. Nothing is assumed of
  the numbers of seconds but that the word holds them: that a wait is the one
  asked for is stated of those whose duration does not wrap, that it is at most
  the cap of all.
- **TemplateBuildProofs**. Of the sequence: `HashesInv` (a hash for each step
  handled), `HeldInv` (once past the upload, the platform holds every hash),
  `SteadyInv` (unless an edit met a Build, what is stored under a hash has that
  hash) and `ReturnInv`. Of the wait it ends with, BuildPoll: `ClockInv` (the
  interval is at most the time slept plus the first interval), `LogsInv` (the
  offset is the length of what was forwarded) and `VerdictInv`. From these,
  `PollsImplementWait`: a reply says no more than the build had done when it was
  made, and a build that has ended says nothing else later. `LogsFaithful` and
  `VerdictTruthful` are what follows for the code's own variables; they are
  theorems, and no run checks them beside `ImplementsWait`.
- **LifecycleProofs**. `Fits` says what a call means at each point of it: what
  a status on its way implies about the states met, what the error returned
  did. Sandboxes only go onward, so that a step of one client leaves the others
  as they fit (`Undisturbed`); `TollInv` counts the kills that were believed.
  `FaithfulWalks` is about the paginator, for pages of any size: `WalkInv` says
  that what a walk has got is in order and covers, up to the cursor, every
  sandbox that was there all along, `PageInv` that a page on its way goes on
  from that cursor; what is created or killed behind it changes neither.
- **CallsProofs**. `CallsInv` says where each thing comes from: the client from
  the configuration and environment it was resolved from, the handle from what
  the control plane told, a call from what client and handle make of a method,
  a result from what the method makes of the answer. The six theorems follow
  from it by cases over the operations: what a generated client decodes of an
  answer (`Sound`), what a method returns of it, for any sets of
  configurations, sandboxes, users and statuses. `NeverRoot` is about the version
  the control plane told, compared part by part, not about what the SDK made of it;
  that a version taken for 0.4.0 or later is not one below it, and has a number in
  it, is a lemma (`DefaultUser`).
- **BuilderProofs**. `BaseInv` ties the base and its credentials to the last
  call that set a base and the calls since; `ForcedInv` ties the sticky flag and
  the flag of each step to the SkipCache calls before the call that made it,
  found by its rank among the calls that make steps; `ForceInv` ties the flag of
  the whole build to the From calls that found a SkipCache pending. `FileMeans` carries
  `ReadingInv` and `Follows` line by line through a Dockerfile of any length,
  read once as the code reads it and once by executing it. The loops are
  recursive functions; what they compute is settled by `SetInduction`, an
  induction over sets of numbers from the well-foundedness of `<`, because the
  induction theorems of the library take an operator the provers cannot
  instantiate. `FileWritten` is the way back, from a builder to a Dockerfile to
  what that does. `AllGood` says what every instruction of a builder is formed
  like, whichever call or line made it; from it follows what each is rendered as
  (one line, if its values read back and unless a RUN has a user of its own), how the code reads that line back
  (`FileReads`: refused exactly where something is blank) and what executing it
  does (`FileDoes`: what the instruction does).

The assumptions are those named in the modules (`...Assumption`), which TLC
evaluates on every run: constants that are numbers are natural, the null values
lie outside the sets they are null for, `Programs` holds sequences of steps,
`Chains` holds calls with methods of the builder, a Dockerfile being a sequence
of lines of strings in which a FROM names an image, as buildkit's parser leaves
no empty word, and variables being a finite map (`ChainsAssumption`), the
platform's base image has a name (`BaseImageAssumption`), the lines that the line
breaks of a value start are no instructions (`BrokenAssumption`), a version of envd is a sequence
of parts, -1 for one that is not a number (`CreatedAssumption`), and no region is
both unnamed and in China (`ChinaAssumption`).

What is only model-checked is liveness, which is beyond this prover, as ENABLED
is: `WaitReturns` of commands and of terminals, `ReaderNeverBlocked`,
`BuildEndsWait`, `StopEnds`.

## What the code does not do as written

Two are runs that are expected to fail, listed under `findings` with the line
they are about:

1. Kill right after Start sends PID 0 and answers *false*, which is documented
   as "already gone", while the process runs (`commands_run.go:70`).
2. A stream is cut by the timeout of the HTTP client it shares with every other
   request, five minutes by default (`transport/client.go:100`), though a watch
   without a timeout is documented to last until it is stopped.

Others met while modelling. Where a property would be violated by them, its
comment names the case it leaves out.

- A stream that fails after the End event loses the exit status received
  (`commands_stream.go:60`). A callback that calls Wait on its own handle blocks
  forever (`commands.go:86`). Kill and SendStdin of commands and terminals act
  as the default user whatever user started them.
- A `Retry-After` above 2^63 ns wraps, and where it wraps to no more than the cap
  that is what is slept before the request is sent again, nothing if it is
  negative (`retry.go:73`), though `retry.go:12-14` says that a server asking for
  longer than the cap has its 429 returned. The body made for the next attempt is
  not closed when the sleep before it is cancelled (`retry.go:46`).
- A version of envd with one part that is not a number, `0.4.x` or `1.x.0`, is
  compared by its other parts and may pass a gate (`version_gate.go:29`), though
  `version_gate.go:23-25` says that a malformed version sorts below every gate: a
  call is then made without a user, of an envd that may have no default one.
- `ToDockerfile` prints values as they are (`builder_dockerfile.go:44-83`): a
  variable or a path with a blank in it, or a command with a line break, becomes
  a line that is refused or read as something else. `SetEnvs` of `v w` for `k` is
  printed as `ENV k=v w`, which `FromDockerfile` refuses.
- The entries of a finished build beyond one reply's limit are never forwarded
  (`build.go:149`). A file edited between hashing and packing is stored under
  the hash of its former contents, and later builds of those contents copy it
  (`upload_files.go:79`); `MadeOfTheFiles` says that this is the only way for a
  build to get other files than the caller's.
- `Watch` with a timeout drops the cancel function of its first context
  (`files_watch.go:48-51`). The reply of CreateWatcher lost, its watcher stays at
  envd, and nobody can remove it.
- `Connect` answers a success without a decoded body with neither a sandbox nor
  an error (`connect.go:34-36`). The answer of Create lost, its sandbox runs on
  unknown until it times out. `MCPToken` remembers a failed read for good
  (`mcp.go:20-25`). Health takes any status but 502 for running.
- The headers of the envd connection are attached by a unary interceptor, which
  streams do not pass: they carry neither the sandbox's ID nor its tokens nor the
  keepalive interval (`envd_conn.go:60-66`).
- A 404 with a body that is not JSON makes Kill, Delete and Exists return the
  decoding error instead of *false*. `IsTimeout` holds for any error whose text
  mentions a timeout. `FromConnect` wraps cancellations and failures to dial,
  which `connect.go:12-14` says it returns unchanged. The message of a failed
  Compose is lost (`files_write.go:121-127`).
- `UCLOUD_SANDBOX_DOMAIN` is used only when no region is set in the options or
  the environment. A template builder without a client reads only the region's
  environment variable (`region.go:15-20`).
- Rendered as a Dockerfile, a step with a user of its own becomes a USER line
  that stays in force, and the owner of a COPY is dropped
  (`builder_dockerfile.go:39-44`). A path, a user, a command or the key of a
  variable that is empty is rendered as nothing, and the Dockerfile is refused
  when it is read (`builder_dockerfile.go:45-82`). An image that is called `base` is read back
  as the platform's own base image (`builder_dockerfile.go:153-158`). Read from
  one, an ADD is a COPY, and of CMD and ENTRYPOINT the last wins. SkipCache
  before FromDockerfile does not force the file's first step, nor does the FROM of
  that file force the build; before a From call it forces the whole build and the
  step that follows. The flags of a line other than `--chown`, and heredocs, are
  dropped without an error (`builder_dockerfile.go:238-244`, `288-296`).

## What is not modelled

- Generated types, protocol buffers and the server handlers generated beside the
  clients, the wrappers between a generated request and its response, examples
  and tools: data and plumbing without behaviour of their own.
- Formats: JSON, tar, URLs, log lines, the signatures of download links (a
  hash), the syntax of a Dockerfile, the characters a name may have. Of a
  Dockerfile, the flags of a line other than `--chown` and heredocs; a rendered
  value that ends in a backslash, that is a JSON array or whose line breaks start
  an instruction, and a key of a variable that does not read back.
- The filling in of request bodies and the copying of fields into results:
  a result is "what the body said". `SnapshotExists`, a listing by name.
- Symbolic links, and the kinds of files a COPY passes over, are content in
  TemplateBuild; calls of Build follow one another, and a URL missing from an
  upload link is one of the failures of the request.
- Snapshots, network rules, secrets and volumes are calls without a state at the
  platform; that a snapshot may be what a sandbox is made from is not followed.

## Plan

What the plans listed is modelled, and every safety property of a run is proved.
What is left to add, in this order:

1. Snapshots in Lifecycle: created from a running sandbox, the origin of a new
   one, deleted meanwhile.
2. A composition of Retry with Lifecycle: a request that was served and is sent
   again after a 429, to find out which methods may be repeated.
