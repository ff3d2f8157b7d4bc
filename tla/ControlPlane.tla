---------------------------- MODULE ControlPlane ----------------------------
(***************************************************************************)
(* The methods of the services (pkg/sandbox, pkg/template, pkg/secret,     *)
(* pkg/volume) that make one request to the control plane, and what they   *)
(* return for its answer.                                                  *)
(*                                                                         *)
(* All of them have one form, and a method is the record of how it fills   *)
(* that form in:                                                           *)
(*   op      the generated operation it calls,                             *)
(*   asks    the query parameters it can set,                              *)
(*   reads   the JSONxxx fields it takes its result from,                  *)
(*   forgives the statuses it does not report as errors,                   *)
(*   checked whether an empty field is reported (transport.Parsed), and    *)
(*   follows whether it keeps the cursor of the next page.                 *)
(* The bodies of requests and the fields of results are left out.          *)
(***************************************************************************)
EXTENDS ApiWire, Errdefs

\* transport.Check and transport.Parsed over a decoded response.
Check(r) == IF r.status \in 200 .. 299 THEN "none" ELSE FromHTTP(r.status)
Parsed(r, reads) ==
  IF Check(r) # "none" THEN Fail(Check(r))
  ELSE IF r.field \in reads THEN Ok("body") ELSE Fail("Sandbox")

Method(op, asks, reads, forgives) ==
  [op |-> op, asks |-> asks, reads |-> reads, forgives |-> forgives,
   checked |-> TRUE, follows |-> FALSE]
Does(op) == Method(op, {}, {}, {})
Deletes(op) == Method(op, {}, {}, {404})
Gets(op, status) == Method(op, {}, {status}, {})
Asks(op, asks) == Method(op, asks, {200}, {})
Pages(op, asks) ==
  [Method(op, asks, {200}, {}) EXCEPT !.follows = TRUE]

\* The query parameters of a request for which the caller set "given", and
\* whether it can be sent again (see Retry).
Sent(m, given) == Encoded(Operations[m.op].request, given \cap m.asks)
Resendable(m) == Operations[m.op].request.body # "stream"

\* As Return, what is forgiven reported like any success (a mutant).
ReturnForgivenAsDone(m, answer) ==
  LET r == Decode(Operations[m.op].parse, answer) IN
  IF r.err # "none" THEN Fail(r.err)
  ELSE IF r.status \in m.forgives THEN Ok("done")
  ELSE IF m.reads = {} /\ Check(r) = "none" THEN Ok("done")
  ELSE Parsed(r, m.reads)

\* As Return, the status of an answer not looked at when there is nothing to
\* read from it (a mutant).
ReturnUnread(m, answer) ==
  LET r == Decode(Operations[m.op].parse, answer) IN
  IF r.err # "none" THEN Fail(r.err)
  ELSE IF r.status \in m.forgives THEN Ok("forgiven")
  ELSE IF m.reads = {} THEN Ok("done")
  ELSE Parsed(r, m.reads)

\* What the method returns for an answer.
Return(m, answer) ==
  LET r == Decode(Operations[m.op].parse, answer) IN
  IF r.err # "none" THEN Fail(r.err)
  ELSE IF r.status \in m.forgives THEN Ok("forgiven")
  ELSE IF m.reads = {} /\ Check(r) = "none" THEN Ok("done")
  ELSE IF ~m.checked /\ Check(r) = "none" /\ r.field \notin m.reads
    THEN Ok("nil")
  ELSE Parsed(r, m.reads)

\* The cursor the caller can go on from.
Cursor(m, answer) == m.follows /\ answer.cursor

-----------------------------------------------------------------------------
\* pkg/sandbox

Create == Gets("PostSandboxes", 201)
\* Connect reads two fields, and does not go through Parsed.
Connect == [Method("PostSandboxesSandboxIDConnect", {}, {200, 201}, {})
            EXCEPT !.checked = FALSE]
Resume == Gets("PostSandboxesSandboxIDResume", 201)
Fork == Gets("PostSandboxesSandboxIDFork", 201)
\* As Pause, a missing sandbox taken for a paused one (a mutant).
PauseForgivesMissing ==
  Method("PostSandboxesSandboxIDPause", {}, {}, {404, 409})
Pause == Method("PostSandboxesSandboxIDPause", {}, {}, {409})
Kill == Deletes("DeleteSandboxesSandboxID")
Get == Gets("GetSandboxesSandboxID", 200)
SetTimeout == Does("PostSandboxesSandboxIDTimeout")
Refresh == Does("PostSandboxesSandboxIDRefreshes")
UpdateNetwork == Does("PutSandboxesSandboxIDNetwork")
Health == Does("GetHealth")
CreateSnapshotReads200 == Gets("PostSandboxesSandboxIDSnapshots", 200)
CreateSnapshot == Gets("PostSandboxesSandboxIDSnapshots", 201)
DeleteSnapshot == Deletes("DeleteTemplatesTemplateID")
ListSnapshots ==
  Pages("GetSnapshots", {"nextToken", "limit", "sandboxID", "name"})
ListV2 == Pages("GetV2Sandboxes",
  {"nextToken", "limit", "metadata", "state", "template", "startedAfter",
   "order"})
Metrics == Asks("GetSandboxesSandboxIDMetrics", {"start", "end"})
BatchMetrics == Asks("GetSandboxesMetrics", {"sandbox_ids"})
LogsV2 == Asks("GetV2SandboxesSandboxIDLogs",
  {"cursor", "limit", "direction", "level", "search"})

-----------------------------------------------------------------------------
\* pkg/template

TemplateGet == Pages("GetTemplatesTemplateID", {"nextToken", "limit"})
\* The endpoint pages, and takes nextToken and limit; ListV2 does neither.
TemplateListV2 == Asks("GetV2Templates", {"teamID"})
TemplateDelete == Deletes("DeleteTemplatesTemplateID")
GetByAlias == Gets("GetTemplatesAliasesAlias", 200)
ListTags == Gets("GetTemplatesTemplateIDTags", 200)
AssignTags == Gets("PostTemplatesTags", 201)
DeleteTags == Does("DeleteTemplatesTags")
UpdateV2 == Gets("PatchV2TemplatesTemplateID", 200)
CreateV3 == Gets("PostV3Templates", 202)
FileUploadLink == Gets("GetTemplatesTemplateIDFilesHash", 201)
StartBuildV2 == Does("PostV2TemplatesTemplateIDBuildsBuildID")
BuildStatus == Asks("GetTemplatesTemplateIDBuildsBuildIDStatus",
  {"logsOffset", "limit", "level"})
BuildLogs == Asks("GetTemplatesTemplateIDBuildsBuildIDLogs",
  {"cursor", "limit", "direction", "level", "source"})

-----------------------------------------------------------------------------
\* pkg/secret and pkg/volume

SecretCreate == Gets("PostSecrets", 201)
SecretGetInfo == Gets("GetSecretsSecretID", 200)
SecretExists == Method("GetSecretsSecretID", {}, {200}, {404})
SecretList == Pages("GetSecrets", {"nextToken", "limit"})
SecretUpdate == Gets("PostSecretsSecretID", 200)
SecretDelete == Deletes("DeleteSecretsSecretID")
VolumeCreate == Gets("PostVolumes", 201)
VolumeGet == Gets("GetVolumesVolumeID", 200)
VolumeList == Gets("GetVolumes", 200)
VolumeDelete == Deletes("DeleteVolumesVolumeID")

-----------------------------------------------------------------------------

Checked == { Create, Resume, Fork, Pause, Kill, Get, SetTimeout, Refresh,
             UpdateNetwork, Health, CreateSnapshot, DeleteSnapshot,
             ListSnapshots, ListV2, Metrics, BatchMetrics, LogsV2,
             TemplateGet, TemplateDelete, GetByAlias, ListTags, AssignTags,
             DeleteTags, UpdateV2, CreateV3, FileUploadLink, StartBuildV2,
             BuildStatus, BuildLogs, SecretCreate, SecretGetInfo,
             SecretExists, SecretList, SecretUpdate, SecretDelete,
             VolumeCreate, VolumeGet, VolumeList, VolumeDelete }
Methods == Checked \cup { Connect, TemplateListV2 }

\* The endpoints the SDK does not wrap, reached through API().
Raw == { Method(op, Operations[op].request.optional,
                {s \in Operations[op].parse.json : s \in 200 .. 299}, {}) :
         op \in DOMAIN Operations \ {m.op : m \in Methods} }
=============================================================================
