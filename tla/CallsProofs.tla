----------------------------- MODULE CallsProofs -----------------------------
(***************************************************************************)
(* Proofs about Calls, for any configurations, sandboxes, users and        *)
(* statuses.                                                               *)
(*                                                                         *)
(* The first two sections are about the answers of the control plane: what *)
(* the generated client decodes, operation by operation, and what a method *)
(* can then return (Sound, Returns). The third is about the methods that   *)
(* ask envd, the fourth about versions, regions and domains. The fifth is  *)
(* the invariant that says where client, handle, call and result come      *)
(* from, and the last draws the properties from all of these.              *)
(***************************************************************************)
EXTENDS Calls, TLAPS

-----------------------------------------------------------------------------
(* The generated client, operation by operation.                            *)

\* The operations of the generated client.
LEMMA OperationNames ==
  DOMAIN Operations =
      { "GetAdminSandboxesRunningCounts", "PostAdminTeamsTeamIDApiKeys",
        "DeleteAdminTeamsTeamIDApiKeysApiKeyID",
        "PostAdminTeamsTeamIDBuildsCancel", "PostAdminTeamsTeamIDSandboxesKill",
        "GetApiKeys", "PostApiKeys", "DeleteApiKeysApiKeyID",
        "PatchApiKeysApiKeyID", "GetClustersClusterIDRigs",
        "DeleteClustersClusterIDRigsInstancesInstanceID",
        "PutClustersClusterIDRigsRigIDCapacity",
        "GetClustersClusterIDRigsRigIDErrors",
        "GetClustersClusterIDRigsRigIDInstances", "GetHealth", "GetNodes",
        "GetNodesNodeID", "PostNodesNodeID", "GetSandboxes", "PostSandboxes",
        "GetSandboxesMetrics", "DeleteSandboxesSandboxID",
        "GetSandboxesSandboxID", "PostSandboxesSandboxIDConnect",
        "PostSandboxesSandboxIDFork", "GetSandboxesSandboxIDLogs",
        "GetSandboxesSandboxIDMetrics", "PutSandboxesSandboxIDNetwork",
        "PostSandboxesSandboxIDPause", "PostSandboxesSandboxIDRefreshes",
        "PostSandboxesSandboxIDResume", "PostSandboxesSandboxIDSnapshots",
        "PostSandboxesSandboxIDTimeout", "GetSecrets", "PostSecrets",
        "DeleteSecretsSecretID", "GetSecretsSecretID", "PostSecretsSecretID",
        "GetSnapshots", "GetTeams", "GetTeamsTeamIDMetrics",
        "GetTeamsTeamIDMetricsMax", "GetTemplates", "PostTemplates",
        "GetTemplatesAliasesAlias", "DeleteTemplatesTags", "PostTemplatesTags",
        "DeleteTemplatesTemplateID", "GetTemplatesTemplateID",
        "PatchTemplatesTemplateID", "PostTemplatesTemplateID",
        "PostTemplatesTemplateIDBuildsBuildID",
        "GetTemplatesTemplateIDBuildsBuildIDLogs",
        "GetTemplatesTemplateIDBuildsBuildIDStatus",
        "GetTemplatesTemplateIDFilesHash", "GetTemplatesTemplateIDTags",
        "GetV2Sandboxes", "GetV2SandboxesSandboxIDLogs", "GetV2Templates",
        "PostV2Templates", "PatchV2TemplatesTemplateID",
        "PostV2TemplatesTemplateIDBuildsBuildID", "PostV3Templates",
        "GetVolumes", "PostVolumes", "DeleteVolumesVolumeID",
        "GetVolumesVolumeID" }
BY DEF Operations

\* Each with the decoder the client generates for it.
LEMMA Operates1 ==
  /\ Operations["GetAdminSandboxesRunningCounts"].parse
           = ParseGetAdminSandboxesRunningCountsResponse
  /\ Operations["PostAdminTeamsTeamIDApiKeys"].parse
           = ParsePostAdminTeamsTeamIDApiKeysResponse
  /\ Operations["DeleteAdminTeamsTeamIDApiKeysApiKeyID"].parse
           = ParseDeleteAdminTeamsTeamIDApiKeysApiKeyIDResponse
  /\ Operations["PostAdminTeamsTeamIDBuildsCancel"].parse
           = ParsePostAdminTeamsTeamIDBuildsCancelResponse
  /\ Operations["PostAdminTeamsTeamIDSandboxesKill"].parse
           = ParsePostAdminTeamsTeamIDSandboxesKillResponse
  /\ Operations["GetApiKeys"].parse = ParseGetApiKeysResponse
  /\ Operations["PostApiKeys"].parse = ParsePostApiKeysResponse
  /\ Operations["DeleteApiKeysApiKeyID"].parse
           = ParseDeleteApiKeysApiKeyIDResponse
  /\ Operations["PatchApiKeysApiKeyID"].parse
           = ParsePatchApiKeysApiKeyIDResponse
  /\ Operations["GetClustersClusterIDRigs"].parse
           = ParseGetClustersClusterIDRigsResponse
  /\ Operations["DeleteClustersClusterIDRigsInstancesInstanceID"].parse
           = ParseDeleteClustersClusterIDRigsInstancesInstanceIDResponse
BY DEF Operations, Op

LEMMA Operates2 ==
  /\ Operations["PutClustersClusterIDRigsRigIDCapacity"].parse
           = ParsePutClustersClusterIDRigsRigIDCapacityResponse
  /\ Operations["GetClustersClusterIDRigsRigIDErrors"].parse
           = ParseGetClustersClusterIDRigsRigIDErrorsResponse
  /\ Operations["GetClustersClusterIDRigsRigIDInstances"].parse
           = ParseGetClustersClusterIDRigsRigIDInstancesResponse
  /\ Operations["GetHealth"].parse = ParseGetHealthResponse
  /\ Operations["GetNodes"].parse = ParseGetNodesResponse
  /\ Operations["GetNodesNodeID"].parse = ParseGetNodesNodeIDResponse
  /\ Operations["PostNodesNodeID"].parse = ParsePostNodesNodeIDResponse
  /\ Operations["GetSandboxes"].parse = ParseGetSandboxesResponse
  /\ Operations["PostSandboxes"].parse = ParsePostSandboxesResponse
  /\ Operations["GetSandboxesMetrics"].parse
           = ParseGetSandboxesMetricsResponse
  /\ Operations["DeleteSandboxesSandboxID"].parse
           = ParseDeleteSandboxesSandboxIDResponse
BY DEF Operations, Op

LEMMA Operates3 ==
  /\ Operations["GetSandboxesSandboxID"].parse
           = ParseGetSandboxesSandboxIDResponse
  /\ Operations["PostSandboxesSandboxIDConnect"].parse
           = ParsePostSandboxesSandboxIDConnectResponse
  /\ Operations["PostSandboxesSandboxIDFork"].parse
           = ParsePostSandboxesSandboxIDForkResponse
  /\ Operations["GetSandboxesSandboxIDLogs"].parse
           = ParseGetSandboxesSandboxIDLogsResponse
  /\ Operations["GetSandboxesSandboxIDMetrics"].parse
           = ParseGetSandboxesSandboxIDMetricsResponse
  /\ Operations["PutSandboxesSandboxIDNetwork"].parse
           = ParsePutSandboxesSandboxIDNetworkResponse
  /\ Operations["PostSandboxesSandboxIDPause"].parse
           = ParsePostSandboxesSandboxIDPauseResponse
  /\ Operations["PostSandboxesSandboxIDRefreshes"].parse
           = ParsePostSandboxesSandboxIDRefreshesResponse
  /\ Operations["PostSandboxesSandboxIDResume"].parse
           = ParsePostSandboxesSandboxIDResumeResponse
  /\ Operations["PostSandboxesSandboxIDSnapshots"].parse
           = ParsePostSandboxesSandboxIDSnapshotsResponse
  /\ Operations["PostSandboxesSandboxIDTimeout"].parse
           = ParsePostSandboxesSandboxIDTimeoutResponse
BY DEF Operations, Op

LEMMA Operates4 ==
  /\ Operations["GetSecrets"].parse = ParseGetSecretsResponse
  /\ Operations["PostSecrets"].parse = ParsePostSecretsResponse
  /\ Operations["DeleteSecretsSecretID"].parse
           = ParseDeleteSecretsSecretIDResponse
  /\ Operations["GetSecretsSecretID"].parse
           = ParseGetSecretsSecretIDResponse
  /\ Operations["PostSecretsSecretID"].parse
           = ParsePostSecretsSecretIDResponse
  /\ Operations["GetSnapshots"].parse = ParseGetSnapshotsResponse
  /\ Operations["GetTeams"].parse = ParseGetTeamsResponse
  /\ Operations["GetTeamsTeamIDMetrics"].parse
           = ParseGetTeamsTeamIDMetricsResponse
  /\ Operations["GetTeamsTeamIDMetricsMax"].parse
           = ParseGetTeamsTeamIDMetricsMaxResponse
  /\ Operations["GetTemplates"].parse = ParseGetTemplatesResponse
  /\ Operations["PostTemplates"].parse = ParsePostTemplatesResponse
BY DEF Operations, Op

LEMMA Operates5 ==
  /\ Operations["GetTemplatesAliasesAlias"].parse
           = ParseGetTemplatesAliasesAliasResponse
  /\ Operations["DeleteTemplatesTags"].parse
           = ParseDeleteTemplatesTagsResponse
  /\ Operations["PostTemplatesTags"].parse = ParsePostTemplatesTagsResponse
  /\ Operations["DeleteTemplatesTemplateID"].parse
           = ParseDeleteTemplatesTemplateIDResponse
  /\ Operations["GetTemplatesTemplateID"].parse
           = ParseGetTemplatesTemplateIDResponse
  /\ Operations["PatchTemplatesTemplateID"].parse
           = ParsePatchTemplatesTemplateIDResponse
  /\ Operations["PostTemplatesTemplateID"].parse
           = ParsePostTemplatesTemplateIDResponse
  /\ Operations["PostTemplatesTemplateIDBuildsBuildID"].parse
           = ParsePostTemplatesTemplateIDBuildsBuildIDResponse
  /\ Operations["GetTemplatesTemplateIDBuildsBuildIDLogs"].parse
           = ParseGetTemplatesTemplateIDBuildsBuildIDLogsResponse
  /\ Operations["GetTemplatesTemplateIDBuildsBuildIDStatus"].parse
           = ParseGetTemplatesTemplateIDBuildsBuildIDStatusResponse
  /\ Operations["GetTemplatesTemplateIDFilesHash"].parse
           = ParseGetTemplatesTemplateIDFilesHashResponse
BY DEF Operations, Op

LEMMA Operates6 ==
  /\ Operations["GetTemplatesTemplateIDTags"].parse
           = ParseGetTemplatesTemplateIDTagsResponse
  /\ Operations["GetV2Sandboxes"].parse = ParseGetV2SandboxesResponse
  /\ Operations["GetV2SandboxesSandboxIDLogs"].parse
           = ParseGetV2SandboxesSandboxIDLogsResponse
  /\ Operations["GetV2Templates"].parse = ParseGetV2TemplatesResponse
  /\ Operations["PostV2Templates"].parse = ParsePostV2TemplatesResponse
  /\ Operations["PatchV2TemplatesTemplateID"].parse
           = ParsePatchV2TemplatesTemplateIDResponse
  /\ Operations["PostV2TemplatesTemplateIDBuildsBuildID"].parse
           = ParsePostV2TemplatesTemplateIDBuildsBuildIDResponse
  /\ Operations["PostV3Templates"].parse = ParsePostV3TemplatesResponse
  /\ Operations["GetVolumes"].parse = ParseGetVolumesResponse
  /\ Operations["PostVolumes"].parse = ParsePostVolumesResponse
  /\ Operations["DeleteVolumesVolumeID"].parse
           = ParseDeleteVolumesVolumeIDResponse
BY DEF Operations, Op

LEMMA Operates7 ==
  /\ Operations["GetVolumesVolumeID"].parse
           = ParseGetVolumesVolumeIDResponse
BY DEF Operations, Op

\* A decoder has a field for every success there is, or for none.
Clear(parse) == parse.bare = {} \/ \A s \in parse.json : s \notin 200 .. 299

\* No decoder of ApiWire mixes successes with and without a body.
LEMMA Decoders == \A op \in DOMAIN Operations : Clear(Operations[op].parse)
<1>1. /\ Clear(ParseGetAdminSandboxesRunningCountsResponse)
      /\ Clear(ParsePostAdminTeamsTeamIDApiKeysResponse)
      /\ Clear(ParseDeleteAdminTeamsTeamIDApiKeysApiKeyIDResponse)
      /\ Clear(ParsePostAdminTeamsTeamIDBuildsCancelResponse)
      /\ Clear(ParsePostAdminTeamsTeamIDSandboxesKillResponse)
      /\ Clear(ParseGetApiKeysResponse)
      /\ Clear(ParsePostApiKeysResponse)
      /\ Clear(ParseDeleteApiKeysApiKeyIDResponse)
      /\ Clear(ParsePatchApiKeysApiKeyIDResponse)
      /\ Clear(ParseGetClustersClusterIDRigsResponse)
      /\ Clear(ParseDeleteClustersClusterIDRigsInstancesInstanceIDResponse)
  BY DEF Clear, Decodes, ParseGetAdminSandboxesRunningCountsResponse,
         ParsePostAdminTeamsTeamIDApiKeysResponse,
         ParseDeleteAdminTeamsTeamIDApiKeysApiKeyIDResponse,
         ParsePostAdminTeamsTeamIDBuildsCancelResponse,
         ParsePostAdminTeamsTeamIDSandboxesKillResponse,
         ParseGetApiKeysResponse, ParsePostApiKeysResponse,
         ParseDeleteApiKeysApiKeyIDResponse, ParsePatchApiKeysApiKeyIDResponse,
         ParseGetClustersClusterIDRigsResponse,
         ParseDeleteClustersClusterIDRigsInstancesInstanceIDResponse
<1>2. /\ Clear(ParsePutClustersClusterIDRigsRigIDCapacityResponse)
      /\ Clear(ParseGetClustersClusterIDRigsRigIDErrorsResponse)
      /\ Clear(ParseGetClustersClusterIDRigsRigIDInstancesResponse)
      /\ Clear(ParseGetHealthResponse)
      /\ Clear(ParseGetNodesResponse)
      /\ Clear(ParseGetNodesNodeIDResponse)
      /\ Clear(ParsePostNodesNodeIDResponse)
      /\ Clear(ParseGetSandboxesResponse)
      /\ Clear(ParsePostSandboxesResponse)
      /\ Clear(ParseGetSandboxesMetricsResponse)
      /\ Clear(ParseDeleteSandboxesSandboxIDResponse)
  BY DEF Clear, Decodes, ParsePutClustersClusterIDRigsRigIDCapacityResponse,
         ParseGetClustersClusterIDRigsRigIDErrorsResponse,
         ParseGetClustersClusterIDRigsRigIDInstancesResponse,
         ParseGetHealthResponse, ParseGetNodesResponse,
         ParseGetNodesNodeIDResponse, ParsePostNodesNodeIDResponse,
         ParseGetSandboxesResponse, ParsePostSandboxesResponse,
         ParseGetSandboxesMetricsResponse, ParseDeleteSandboxesSandboxIDResponse
<1>3. /\ Clear(ParseGetSandboxesSandboxIDResponse)
      /\ Clear(ParsePostSandboxesSandboxIDConnectResponse)
      /\ Clear(ParsePostSandboxesSandboxIDForkResponse)
      /\ Clear(ParseGetSandboxesSandboxIDLogsResponse)
      /\ Clear(ParseGetSandboxesSandboxIDMetricsResponse)
      /\ Clear(ParsePutSandboxesSandboxIDNetworkResponse)
      /\ Clear(ParsePostSandboxesSandboxIDPauseResponse)
      /\ Clear(ParsePostSandboxesSandboxIDRefreshesResponse)
      /\ Clear(ParsePostSandboxesSandboxIDResumeResponse)
      /\ Clear(ParsePostSandboxesSandboxIDSnapshotsResponse)
      /\ Clear(ParsePostSandboxesSandboxIDTimeoutResponse)
  BY DEF Clear, Decodes, ParseGetSandboxesSandboxIDResponse,
         ParsePostSandboxesSandboxIDConnectResponse,
         ParsePostSandboxesSandboxIDForkResponse,
         ParseGetSandboxesSandboxIDLogsResponse,
         ParseGetSandboxesSandboxIDMetricsResponse,
         ParsePutSandboxesSandboxIDNetworkResponse,
         ParsePostSandboxesSandboxIDPauseResponse,
         ParsePostSandboxesSandboxIDRefreshesResponse,
         ParsePostSandboxesSandboxIDResumeResponse,
         ParsePostSandboxesSandboxIDSnapshotsResponse,
         ParsePostSandboxesSandboxIDTimeoutResponse
<1>4. /\ Clear(ParseGetSecretsResponse)
      /\ Clear(ParsePostSecretsResponse)
      /\ Clear(ParseDeleteSecretsSecretIDResponse)
      /\ Clear(ParseGetSecretsSecretIDResponse)
      /\ Clear(ParsePostSecretsSecretIDResponse)
      /\ Clear(ParseGetSnapshotsResponse)
      /\ Clear(ParseGetTeamsResponse)
      /\ Clear(ParseGetTeamsTeamIDMetricsResponse)
      /\ Clear(ParseGetTeamsTeamIDMetricsMaxResponse)
      /\ Clear(ParseGetTemplatesResponse)
      /\ Clear(ParsePostTemplatesResponse)
  BY DEF Clear, Decodes, ParseGetSecretsResponse, ParsePostSecretsResponse,
         ParseDeleteSecretsSecretIDResponse, ParseGetSecretsSecretIDResponse,
         ParsePostSecretsSecretIDResponse, ParseGetSnapshotsResponse,
         ParseGetTeamsResponse, ParseGetTeamsTeamIDMetricsResponse,
         ParseGetTeamsTeamIDMetricsMaxResponse, ParseGetTemplatesResponse,
         ParsePostTemplatesResponse
<1>5. /\ Clear(ParseGetTemplatesAliasesAliasResponse)
      /\ Clear(ParseDeleteTemplatesTagsResponse)
      /\ Clear(ParsePostTemplatesTagsResponse)
      /\ Clear(ParseDeleteTemplatesTemplateIDResponse)
      /\ Clear(ParseGetTemplatesTemplateIDResponse)
      /\ Clear(ParsePatchTemplatesTemplateIDResponse)
      /\ Clear(ParsePostTemplatesTemplateIDResponse)
      /\ Clear(ParsePostTemplatesTemplateIDBuildsBuildIDResponse)
      /\ Clear(ParseGetTemplatesTemplateIDBuildsBuildIDLogsResponse)
      /\ Clear(ParseGetTemplatesTemplateIDBuildsBuildIDStatusResponse)
      /\ Clear(ParseGetTemplatesTemplateIDFilesHashResponse)
  BY DEF Clear, Decodes, ParseGetTemplatesAliasesAliasResponse,
         ParseDeleteTemplatesTagsResponse, ParsePostTemplatesTagsResponse,
         ParseDeleteTemplatesTemplateIDResponse,
         ParseGetTemplatesTemplateIDResponse,
         ParsePatchTemplatesTemplateIDResponse,
         ParsePostTemplatesTemplateIDResponse,
         ParsePostTemplatesTemplateIDBuildsBuildIDResponse,
         ParseGetTemplatesTemplateIDBuildsBuildIDLogsResponse,
         ParseGetTemplatesTemplateIDBuildsBuildIDStatusResponse,
         ParseGetTemplatesTemplateIDFilesHashResponse
<1>6. /\ Clear(ParseGetTemplatesTemplateIDTagsResponse)
      /\ Clear(ParseGetV2SandboxesResponse)
      /\ Clear(ParseGetV2SandboxesSandboxIDLogsResponse)
      /\ Clear(ParseGetV2TemplatesResponse)
      /\ Clear(ParsePostV2TemplatesResponse)
      /\ Clear(ParsePatchV2TemplatesTemplateIDResponse)
      /\ Clear(ParsePostV2TemplatesTemplateIDBuildsBuildIDResponse)
      /\ Clear(ParsePostV3TemplatesResponse)
      /\ Clear(ParseGetVolumesResponse)
      /\ Clear(ParsePostVolumesResponse)
      /\ Clear(ParseDeleteVolumesVolumeIDResponse)
  BY DEF Clear, Decodes, ParseGetTemplatesTemplateIDTagsResponse,
         ParseGetV2SandboxesResponse, ParseGetV2SandboxesSandboxIDLogsResponse,
         ParseGetV2TemplatesResponse, ParsePostV2TemplatesResponse,
         ParsePatchV2TemplatesTemplateIDResponse,
         ParsePostV2TemplatesTemplateIDBuildsBuildIDResponse,
         ParsePostV3TemplatesResponse, ParseGetVolumesResponse,
         ParsePostVolumesResponse, ParseDeleteVolumesVolumeIDResponse
<1>7. /\ Clear(ParseGetVolumesVolumeIDResponse)
  BY DEF Clear, Decodes, ParseGetVolumesVolumeIDResponse
<1> QED BY <1>1, <1>2, <1>3, <1>4, <1>5, <1>6, <1>7, OperationNames, Operates1,
   Operates2, Operates3, Operates4, Operates5, Operates6, Operates7

\* The only success with a body.
Only(op, status) ==
  /\ status \in 200 .. 299 /\ status \in Operations[op].parse.json
  /\ \A s \in Operations[op].parse.json : s \in 200 .. 299 => s = status

\* What a method has to be for its results to be told apart.
Sound(m) ==
  /\ m.op \in DOMAIN Operations
  /\ m.forgives \subseteq
       IF Operations[m.op].request.method = "DELETE" THEN {404}
       ELSE IF m = Pause THEN {409} ELSE IF m = SecretExists THEN {404} ELSE {}
  /\ m.reads # {} =>
       /\ \A s \in Operations[m.op].parse.json :
            s \in 200 .. 299 => s \in m.reads
       /\ \E s \in Operations[m.op].parse.json : s \in 200 .. 299
  /\ m.checked \/ m = Connect

\* Sound, for each of the forms a method is written in.
LEMMA DoesSound ==
  ASSUME NEW op \in DOMAIN Operations PROVE Sound(Does(op))
BY DEF Does, Method, Sound

LEMMA DeletesSound ==
  ASSUME NEW op \in DOMAIN Operations, Operations[op].request.method = "DELETE"
  PROVE  Sound(Deletes(op))
BY DEF Deletes, Method, Sound

LEMMA GetsSound ==
  ASSUME NEW op \in DOMAIN Operations, NEW status, Only(op, status), NEW asks
  PROVE  /\ Sound(Gets(op, status))
         /\ status = 200 => Sound(Asks(op, asks)) /\ Sound(Pages(op, asks))
BY DEF Gets, Asks, Pages, Method, Sound, Only

\* Every method of the services has one of these forms, or is sound itself.
LEMMA Wrapped == \A m \in Methods : Sound(m)
<1>1. /\ Only("PostSandboxes", 201)
      /\ Only("GetSandboxesMetrics", 200)
  BY Operates2 DEF Only, Decodes, ParsePostSandboxesResponse,
         ParseGetSandboxesMetricsResponse
<1>2. /\ Only("GetSandboxesSandboxID", 200)
      /\ Only("PostSandboxesSandboxIDFork", 201)
      /\ Only("GetSandboxesSandboxIDMetrics", 200)
      /\ Only("PostSandboxesSandboxIDResume", 201)
      /\ Only("PostSandboxesSandboxIDSnapshots", 201)
  BY Operates3 DEF Only, Decodes, ParseGetSandboxesSandboxIDResponse,
         ParsePostSandboxesSandboxIDForkResponse,
         ParseGetSandboxesSandboxIDMetricsResponse,
         ParsePostSandboxesSandboxIDResumeResponse,
         ParsePostSandboxesSandboxIDSnapshotsResponse
<1>3. /\ Only("GetSecrets", 200)
      /\ Only("PostSecrets", 201)
      /\ Only("GetSecretsSecretID", 200)
      /\ Only("PostSecretsSecretID", 200)
      /\ Only("GetSnapshots", 200)
  BY Operates4 DEF Only, Decodes, ParseGetSecretsResponse,
     ParsePostSecretsResponse,
         ParseGetSecretsSecretIDResponse, ParsePostSecretsSecretIDResponse,
         ParseGetSnapshotsResponse
<1>4. /\ Only("GetTemplatesAliasesAlias", 200)
      /\ Only("PostTemplatesTags", 201)
      /\ Only("GetTemplatesTemplateID", 200)
      /\ Only("GetTemplatesTemplateIDBuildsBuildIDLogs", 200)
      /\ Only("GetTemplatesTemplateIDBuildsBuildIDStatus", 200)
      /\ Only("GetTemplatesTemplateIDFilesHash", 201)
  BY Operates5 DEF Only, Decodes, ParseGetTemplatesAliasesAliasResponse,
         ParsePostTemplatesTagsResponse, ParseGetTemplatesTemplateIDResponse,
         ParseGetTemplatesTemplateIDBuildsBuildIDLogsResponse,
         ParseGetTemplatesTemplateIDBuildsBuildIDStatusResponse,
         ParseGetTemplatesTemplateIDFilesHashResponse
<1>5. /\ Only("GetTemplatesTemplateIDTags", 200)
      /\ Only("GetV2Sandboxes", 200)
      /\ Only("GetV2SandboxesSandboxIDLogs", 200)
      /\ Only("GetV2Templates", 200)
      /\ Only("PatchV2TemplatesTemplateID", 200)
      /\ Only("PostV3Templates", 202)
      /\ Only("GetVolumes", 200)
      /\ Only("PostVolumes", 201)
  BY Operates6 DEF Only, Decodes, ParseGetTemplatesTemplateIDTagsResponse,
         ParseGetV2SandboxesResponse, ParseGetV2SandboxesSandboxIDLogsResponse,
         ParseGetV2TemplatesResponse, ParsePatchV2TemplatesTemplateIDResponse,
         ParsePostV3TemplatesResponse, ParseGetVolumesResponse,
         ParsePostVolumesResponse
<1>6. /\ Only("GetVolumesVolumeID", 200)
  BY Operates7 DEF Only, Decodes, ParseGetVolumesVolumeIDResponse
<1>7. /\ Operations["DeleteSandboxesSandboxID"].request.method = "DELETE"
      /\ Operations["DeleteSecretsSecretID"].request.method = "DELETE"
      /\ Operations["DeleteTemplatesTemplateID"].request.method = "DELETE"
      /\ Operations["DeleteVolumesVolumeID"].request.method = "DELETE"
      /\ Operations["PostSandboxesSandboxIDPause"].request.method = "POST"
      /\ Operations["GetSecretsSecretID"].request.method = "GET"
  BY DEF Operations, Op, Request, JsonRequest, WithQuery,
         NewPostSandboxesSandboxIDPauseRequest, NewGetSecretsSecretIDRequest,
         NewDeleteSandboxesSandboxIDRequest, NewDeleteSecretsSecretIDRequest,
         NewDeleteTemplatesTemplateIDRequest, NewDeleteVolumesVolumeIDRequest
<1>8. {"DeleteSandboxesSandboxID", "DeleteSecretsSecretID",
       "DeleteTemplatesTags", "DeleteTemplatesTemplateID",
       "DeleteVolumesVolumeID", "GetHealth", "GetSandboxesMetrics",
       "GetSandboxesSandboxID", "GetSandboxesSandboxIDMetrics", "GetSecrets",
       "GetSecretsSecretID", "GetSnapshots", "GetTemplatesAliasesAlias",
       "GetTemplatesTemplateID", "GetTemplatesTemplateIDBuildsBuildIDLogs",
       "GetTemplatesTemplateIDBuildsBuildIDStatus",
       "GetTemplatesTemplateIDFilesHash", "GetTemplatesTemplateIDTags",
       "GetV2Sandboxes", "GetV2SandboxesSandboxIDLogs", "GetV2Templates",
       "GetVolumes", "GetVolumesVolumeID", "PatchV2TemplatesTemplateID",
       "PostSandboxes", "PostSandboxesSandboxIDConnect",
       "PostSandboxesSandboxIDFork", "PostSandboxesSandboxIDPause",
       "PostSandboxesSandboxIDRefreshes", "PostSandboxesSandboxIDResume",
       "PostSandboxesSandboxIDSnapshots", "PostSandboxesSandboxIDTimeout",
       "PostSecrets", "PostSecretsSecretID", "PostTemplatesTags",
       "PostV2TemplatesTemplateIDBuildsBuildID", "PostV3Templates",
       "PostVolumes", "PutSandboxesSandboxIDNetwork"}
      \subseteq DOMAIN Operations
  BY OperationNames
<1>9. Sound(SetTimeout) /\ Sound(Refresh) /\ Sound(UpdateNetwork) /\
      Sound(Health) /\ Sound(DeleteTags) /\ Sound(StartBuildV2)
  BY <1>8, DoesSound DEF SetTimeout, Refresh, UpdateNetwork, Health, DeleteTags,
     StartBuildV2
<1>10. Sound(Kill) /\ Sound(DeleteSnapshot) /\ Sound(TemplateDelete) /\
      Sound(SecretDelete) /\ Sound(VolumeDelete)
  BY <1>8, <1>7, DeletesSound DEF Kill, DeleteSnapshot, TemplateDelete,
     SecretDelete, VolumeDelete
<1>11. Sound(Create) /\ Sound(Resume) /\ Sound(Fork) /\ Sound(Get) /\
      Sound(CreateSnapshot) /\ Sound(GetByAlias) /\ Sound(ListTags) /\
      Sound(AssignTags) /\ Sound(UpdateV2) /\ Sound(CreateV3)
  BY <1>8, <1>1, <1>2, <1>3, <1>4, <1>5, <1>6, GetsSound DEF Create, Resume,
     Fork, Get, CreateSnapshot, GetByAlias, ListTags,
         AssignTags, UpdateV2, CreateV3
<1>12. Sound(FileUploadLink) /\ Sound(SecretCreate) /\ Sound(SecretGetInfo) /\
      Sound(SecretUpdate) /\ Sound(VolumeCreate) /\ Sound(VolumeGet) /\
      Sound(VolumeList)
  BY <1>8, <1>1, <1>2, <1>3, <1>4, <1>5, <1>6, GetsSound DEF FileUploadLink,
     SecretCreate, SecretGetInfo, SecretUpdate,
         VolumeCreate, VolumeGet, VolumeList
<1>13. Sound(ListSnapshots) /\ Sound(ListV2) /\ Sound(Metrics) /\
      Sound(BatchMetrics) /\ Sound(LogsV2) /\ Sound(TemplateGet) /\
      Sound(TemplateListV2) /\ Sound(BuildStatus) /\ Sound(BuildLogs) /\
      Sound(SecretList)
  BY <1>8, <1>1, <1>2, <1>3, <1>4, <1>5, <1>6, GetsSound DEF ListSnapshots,
     ListV2, Metrics, BatchMetrics, LogsV2, TemplateGet,
         TemplateListV2, BuildStatus, BuildLogs, SecretList
<1>14. Sound(Pause)
  BY <1>8, <1>7 DEF Sound, Pause, Method
<1>15. Sound(SecretExists)
  <2>1. Only("GetSecretsSecretID", 200)
    BY <1>3
  <2>2. /\ SecretExists.op = "GetSecretsSecretID"
        /\ SecretExists.forgives = {404} /\ SecretExists.reads = {200}
        /\ SecretExists.checked
    BY DEF SecretExists, Method
  <2>3. Pause.op = "PostSandboxesSandboxIDPause"
    BY DEF Pause, Method
  <2> QED BY <1>8, <1>7, <2>1, <2>2, <2>3 DEF Sound, Only
<1>16. Sound(Connect)
  <2>1. /\ \A s \in Operations["PostSandboxesSandboxIDConnect"].parse.json :
             s \in 200 .. 299 => s \in {200, 201}
        /\ 200 \in Operations["PostSandboxesSandboxIDConnect"].parse.json
    BY Operates3 DEF ParsePostSandboxesSandboxIDConnectResponse, Decodes
  <2>2. /\ Connect.op = "PostSandboxesSandboxIDConnect"
        /\ Connect.forgives = {} /\ Connect.reads = {200, 201}
    BY DEF Connect, Method
  <2> QED BY <1>8, <2>1, <2>2 DEF Sound
<1> QED BY <1>9, <1>10, <1>11, <1>12, <1>13, <1>14, <1>15, <1>16
  DEF Methods, Checked

-----------------------------------------------------------------------------
(* What a method returns.                                                   *)

\* The endpoints that are not wrapped read what they have a field for.
LEMMA RawSound ==
  \A m \in Raw :
     /\ m.op \in DOMAIN Operations /\ m.forgives = {} /\ m.checked
     /\ m.reads = {s \in Operations[m.op].parse.json : s \in 200 .. 299}
BY DEF Raw, Method

\* Whatever is asked of the control plane is sound.
LEMMA AllSound == \A m \in Methods \cup Raw : Sound(m)
<1>1. \A m \in Raw : Sound(m)
  BY RawSound DEF Sound
<1> QED BY <1>1, Wrapped

\* Every status stands for an error.
LEMMA HttpErrors == \A s : FromHTTP(s) # "none"
BY DEF FromHTTP

\* What a sound method returns for an answer.
LEMMA Returns ==
  ASSUME NEW m, NEW a, Sound(m), a.good => a.json
  PROVE  LET r == Return(m, a) IN
         /\ r.err = "none" => a.status \in 200 .. 299 \cup m.forgives
         /\ r.value = "nil" => r.err # "none" \/ ~m.checked
         /\ a.status \in Successes(Operations[m.op].parse) /\ a.good =>
              r.err = "none" /\ r.value \in {"body", "done"}
         /\ /\ r.err # "none" /\ a.good
            /\ a.status # 0 /\ a.status \notin 200 .. 299
            => r.err = FromHTTP(a.status)
<1> DEFINE parse == Operations[m.op].parse
<1> DEFINE d == Decode(parse, a)
<1> DEFINE r == Return(m, a)
<1>1. /\ d.status = a.status
      /\ d.err = IF a.status = 0 THEN "Transport"
                 ELSE IF a.json /\ a.status \in parse.json /\ ~a.good
                   THEN "Undecodable"
                 ELSE "none"
      /\ d.field = IF a.json /\ a.status \in parse.json /\ a.good
                   THEN a.status ELSE 0
  BY DEF Decode
<1>2. r =
        IF d.err # "none" THEN Fail(d.err)
        ELSE IF d.status \in m.forgives THEN Ok("forgiven")
        ELSE IF m.reads = {} /\ Check(d) = "none" THEN Ok("done")
        ELSE IF ~m.checked /\ Check(d) = "none" /\ d.field \notin m.reads
          THEN Ok("nil")
        ELSE Parsed(d, m.reads)
  BY DEF Return
<1>3. Parsed(d, m.reads) =
        IF Check(d) # "none" THEN Fail(Check(d))
        ELSE IF d.field \in m.reads THEN Ok("body") ELSE Fail("Sandbox")
  BY DEF Parsed
<1>4. Check(d) = IF a.status \in 200 .. 299 THEN "none" ELSE FromHTTP(a.status)
  BY <1>1 DEF Check
<1>5. FromHTTP(a.status) # "none"
  BY HttpErrors
<1>6. /\ \A e : Fail(e).err = e /\ Fail(e).value = "nil"
      /\ \A v : Ok(v).err = "none" /\ Ok(v).value = v
  BY DEF Ok, Fail
<1>7. a.status \in Successes(parse) /\ a.good =>
        /\ a.status \in 200 .. 299 /\ a.status # 0
        /\ a.status \notin m.forgives
        /\ m.reads # {} => a.status \in parse.json /\ a.status \in m.reads
  <2> SUFFICES ASSUME a.status \in Successes(parse), a.good
               PROVE  /\ a.status \in 200 .. 299 /\ a.status # 0
                      /\ a.status \notin m.forgives
                      /\ m.reads # {} =>
                           a.status \in parse.json /\ a.status \in m.reads
    OBVIOUS
  <2>1. a.status \in 200 .. 299 /\ a.status \in parse.json \cup parse.bare
    BY DEF Successes
  <2>2. m.forgives \subseteq {404, 409}
    BY DEF Sound
  <2>3. Clear(parse)
    BY Decoders DEF Sound
  <2>4. m.reads # {} => a.status \in parse.json /\ a.status \in m.reads
    BY <2>1, <2>3 DEF Sound, Clear
  <2> HIDE DEF parse
  <2> QED BY <2>1, <2>2, <2>4
<1> HIDE DEF d, r, parse
<1>8. d.err # "none" => r.err = d.err /\ r.value = "nil"
  BY <1>2, <1>6
<1>9. d.err = "none" /\ a.status \in m.forgives =>
        r.err = "none" /\ r.value = "forgiven"
  BY <1>1, <1>2, <1>6
<1>10. d.err = "none" /\ a.status \notin m.forgives \cup 200 .. 299 =>
         r.err = FromHTTP(a.status) /\ r.value = "nil"
  BY <1>1, <1>2, <1>3, <1>4, <1>5, <1>6
<1>11. /\ d.err = "none"
       /\ a.status \notin m.forgives /\ a.status \in 200 .. 299
       => \/ m.reads = {} /\ r.err = "none" /\ r.value = "done"
          \/ d.field \in m.reads /\ r.err = "none" /\ r.value = "body"
          \/ m.reads # {} /\ d.field \notin m.reads /\ ~m.checked
          \/ /\ m.reads # {} /\ d.field \notin m.reads
             /\ r.err = "Sandbox" /\ r.value = "nil"
  BY <1>1, <1>2, <1>3, <1>4, <1>6
<1>12. r.err = "none" => a.status \in 200 .. 299 \cup m.forgives
  BY <1>5, <1>8, <1>10
<1>13. r.value = "nil" => r.err # "none" \/ ~m.checked
  BY <1>5, <1>8, <1>9, <1>10, <1>11
<1>14. a.status \in Successes(parse) /\ a.good =>
         r.err = "none" /\ r.value \in {"body", "done"}
  BY <1>1, <1>7, <1>11
<1>15. /\ r.err # "none" /\ a.good
       /\ a.status # 0 /\ a.status \notin 200 .. 299
       => r.err = FromHTTP(a.status)
  BY <1>1, <1>9, <1>10
<1> QED BY <1>12, <1>13, <1>14, <1>15 DEF r, parse

-----------------------------------------------------------------------------
(* What the methods that ask envd return.                                   *)

\* What a method reports as false.
LEMMA MethodsOfEnvd ==
  \A m \in EnvdMethods :
     m.falseFor \subseteq IF m = MakeDir THEN {"Conflict"}
                          ELSE IF m \in {Exists, KillProcess} THEN {"NotFound"}
                          ELSE IF m.kind = "http" THEN {"Timeout"} ELSE {}
<1>1. \A op : Unary(op).falseFor = {} /\ UnaryAs(op).falseFor = {} /\
              StreamAs(op).falseFor = {} /\
              Http(op).falseFor = {}
  BY DEF Unary, UnaryAs, StreamAs, Http, EnvdMethod
<1>2. \A r : Watch(r).falseFor = {} /\ CreateWatcher(r).falseFor = {}
  BY DEF Watch, CreateWatcher, UnaryAs, StreamAs, EnvdMethod
<1>3. /\ ListProcesses.falseFor = {} /\ SendStdin.falseFor = {}
      /\ CloseStdin.falseFor = {} /\ Resize.falseFor = {}
      /\ StartProcess.falseFor = {} /\ ConnectProcess.falseFor = {}
      /\ ListDir.falseFor = {} /\ RemovePath.falseFor = {}
      /\ Rename.falseFor = {} /\ GetInfo.falseFor = {}
      /\ GetWatcherEvents.falseFor = {} /\ RemoveWatcher.falseFor = {}
      /\ ReadFile.falseFor = {} /\ WriteFile.falseFor = {}
      /\ Compose.falseFor = {}
  BY <1>1 DEF ListProcesses, SendStdin, CloseStdin, Resize, StartProcess,
     ConnectProcess, ListDir, RemovePath, Rename, GetInfo, GetWatcherEvents,
     RemoveWatcher, ReadFile, WriteFile, Compose
<1>4. /\ KillProcess.falseFor = {"NotFound"} /\ KillProcess.op = "SendSignal"
      /\ MakeDir.falseFor = {"Conflict"} /\ MakeDir.op = "MakeDir"
      /\ Exists.falseFor = {"NotFound"} /\ Exists.op = "Stat"
      /\ IsRunning.falseFor = {"Timeout"} /\ IsRunning.op = "GetHealth"
      /\ IsRunning.kind = "http"
  BY DEF KillProcess, MakeDir, Exists, IsRunning, EnvdMethod
<1> QED BY <1>2, <1>3, <1>4 DEF EnvdMethods

\* The codes of connect's errors.
LEMMA Codes ==
  /\ \A code : /\ FromConnect(code) = "none" => code = "ok"
               /\ FromConnect(code) = "NotFound" => code = "not_found"
               /\ FromConnect(code) = "Conflict" => code = "already_exists"
  /\ \A c \in DOMAIN Causes : FromConnect(Causes[c].code) = Class[c]
<1>1. DOMAIN ConnectErrors =
        {"not_found", "already_exists", "invalid_argument", "unauthenticated",
         "permission_denied", "resource_exhausted", "deadline_exceeded",
         "unavailable"}
  BY DEF ConnectErrors
<1>2. /\ ConnectErrors["not_found"] = "NotFound"
      /\ ConnectErrors["already_exists"] = "Conflict"
      /\ ConnectErrors["invalid_argument"] = "InvalidArgument"
      /\ ConnectErrors["unauthenticated"] = "Authentication"
      /\ ConnectErrors["permission_denied"] = "Forbidden"
      /\ ConnectErrors["resource_exhausted"] = "RateLimit"
      /\ ConnectErrors["deadline_exceeded"] = "Timeout"
      /\ ConnectErrors["unavailable"] = "Timeout"
  BY DEF ConnectErrors
<1>3. \A code : /\ FromConnect(code) = "none" => code = "ok"
                /\ FromConnect(code) = "NotFound" => code = "not_found"
                /\ FromConnect(code) = "Conflict" => code = "already_exists"
  BY <1>1, <1>2 DEF FromConnect
<1>4. \A c \in DOMAIN Causes : FromConnect(Causes[c].code) = Class[c]
  BY <1>1, <1>2 DEF Causes, Class, FromConnect
<1> QED BY <1>3, <1>4

\* The statuses of the failures a server can mean.
LEMMA CauseStatuses ==
  \A c \in DOMAIN Causes :
     /\ FromHTTP(Causes[c].status) = Class[c]
     /\ Causes[c].status # 0 /\ Causes[c].status \notin 200 .. 299
BY DEF Causes, Class, FromHTTP

\* A connect call ends well, is forgiven, or fails as its code says.
LEMMA ReturnsConnect ==
  ASSUME NEW m \in EnvdMethods, m.kind # "http", NEW code
  PROVE  LET r == ReturnConnect(m, code) IN
         /\ r.err = "none" =>
              \/ code = "ok"
              \/ m = MakeDir /\ code = "already_exists"
              \/ /\ m \in {Exists, KillProcess} /\ m # MakeDir
                 /\ code = "not_found"
         /\ r.err # "none" => r.err = FromConnect(code)
BY Codes, MethodsOfEnvd DEF ReturnConnect, Ok, Fail

\* A request for files fails as the status of its answer says.
LEMMA ReturnsHttp ==
  ASSUME NEW m, NEW a, NEW late, a.good => a.json
  PROVE  LET r == ReturnHttp(m, a, late) IN
         /\ r.err = "none" /\ m # IsRunning => a.status \in 200 .. 299
         /\ /\ r.err # "none" /\ a.good
            /\ a.status # 0 /\ a.status \notin 200 .. 299
            => r.err = FromHTTP(a.status)
<1> DEFINE r == ReturnHttp(m, a, late)
<1> DEFINE d == Files!Decode(Files!Operations[m.op].parse, a)
<1>1. a.good /\ a.status # 0 => d.err = "none"
  BY DEF Files!Decode
<1>2. r = IF a.status = 0
            THEN Fail(IF m = IsRunning /\ IsTimeout("Transport", late, FALSE)
                      THEN "Timeout" ELSE "Transport")
          ELSE IF m = IsRunning
            THEN Ok(IF a.status = 502 THEN "false" ELSE "done")
          ELSE IF m = Compose /\ d.err # "none" THEN Fail(d.err)
          ELSE IF CheckEnvd(a.status) # "none" THEN Fail(CheckEnvd(a.status))
          ELSE IF m = WriteFile /\ ~a.good THEN Fail("Undecodable")
          ELSE IF m = Compose /\ d.field # 200 THEN Fail("Sandbox")
          ELSE Ok(IF m = ReadFile THEN "body" ELSE "done")
  BY DEF ReturnHttp
<1>3. CheckEnvd(a.status) =
        IF a.status \in 200 .. 299 THEN "none" ELSE FromHTTP(a.status)
  BY DEF CheckEnvd
<1>4. FromHTTP(a.status) # "none"
  BY HttpErrors
<1>5. /\ \A e : Fail(e).err = e
      /\ \A v : Ok(v).err = "none"
  BY DEF Ok, Fail
<1> HIDE DEF d, r
<1>6. CASE a.status = 0
  <2>1. r.err \in {"Timeout", "Transport"}
    BY <1>2, <1>5, <1>6 DEF IsTimeout
  <2> QED BY <1>6, <2>1 DEF r
<1>7. CASE a.status # 0 /\ m = IsRunning
  BY <1>2, <1>5, <1>7 DEF r
<1>8. CASE a.status # 0 /\ m # IsRunning
  <2>1. r.err = "none" => a.status \in 200 .. 299
    BY <1>2, <1>3, <1>4, <1>5, <1>8
  <2>2. r.err # "none" /\ a.good /\ a.status \notin 200 .. 299 =>
          r.err = FromHTTP(a.status)
    BY <1>1, <1>2, <1>3, <1>4, <1>5, <1>8
  <2> QED BY <1>8, <2>1, <2>2 DEF r
<1> QED BY <1>6, <1>7, <1>8 DEF r

-----------------------------------------------------------------------------
(* Versions, regions and domains.                                           *)

\* Whatever the control plane says is a version.
LEMMA Versions ==
  ASSUME NEW version \in Seq(Nat \cup {-1})
  PROVE  ParseEnvdVersion(version) \in [1 .. 3 -> Nat]
<1>1. \A i \in 1 .. Len(version) : version[i] \in Nat \cup {-1}
  OBVIOUS
<1>2. Len(version) \in Nat
  OBVIOUS
<1>3. \A i \in 1 .. 3 :
        (IF i <= Len(version) /\ version[i] # -1 THEN version[i] ELSE 0) \in Nat
  BY <1>1, <1>2
<1> QED BY <1>3 DEF ParseEnvdVersion

\* A version that is taken for one with a default user has a number in it, and
\* if it has nothing else it is such a version.
LEMMA DefaultUser ==
  ASSUME NEW version \in Seq(Nat \cup {-1}),
         Supports(ParseEnvdVersion(version), EnvdVersionDefaultUser)
  PROVE  ~BeforeDefaultUser(version) /\ ~Unreadable(version)
<1> DEFINE v == ParseEnvdVersion(version)
<1>1. /\ EnvdVersionDefaultUser[1] = 0 /\ EnvdVersionDefaultUser[2] = 4
      /\ EnvdVersionDefaultUser[3] = 0
  BY DEF EnvdVersionDefaultUser
<1>2. v[1] \in Nat /\ v[2] \in Nat /\ v[3] \in Nat
  BY Versions
<1>3. v[1] > 0 \/ v[2] >= 4
  <2> SUFFICES ASSUME v[1] = 0, v[2] < 4 PROVE FALSE
    BY <1>2
  <2>1. \A j \in 1 .. 2 - 1 : v[j] = EnvdVersionDefaultUser[j]
    BY <1>1
  <2> QED BY <1>1, <2>1 DEF Supports, LessThan
<1>4. \A i \in 1 .. 3 :
        v[i] = IF i <= Len(version) /\ version[i] # -1 THEN version[i] ELSE 0
  BY DEF ParseEnvdVersion
<1>5. /\ DOMAIN version = 1 .. Len(version)
      /\ Len(version) \in Nat
  OBVIOUS
<1> HIDE DEF v
<1>6. ASSUME BeforeDefaultUser(version) PROVE FALSE
  <2>1. v[1] = Part(version, 1) /\ v[2] = Part(version, 2)
    BY <1>4, <1>5, <1>6 DEF BeforeDefaultUser, Malformed, Part
  <2> QED BY <1>2, <1>3, <1>6, <2>1 DEF BeforeDefaultUser
<1>7. ASSUME Unreadable(version) PROVE FALSE
  <2>1. v[1] = 0 /\ v[2] = 0
    BY <1>4, <1>5, <1>7 DEF Unreadable
  <2> QED BY <1>3, <2>1
<1> QED BY <1>6, <1>7

\* The first of two that is set.
LEMMA FirstOfTwo ==
  \A a, b : FirstNonEmpty(<<a, b>>) = IF a # "" THEN a ELSE b
<1> TAKE a, b
<1> DEFINE s == <<a, b>>
<1> DEFINE found == {i \in {1, 2} : s[i] # ""}
<1> DEFINE first == CHOOSE i \in found : \A j \in found : i <= j
<1>1. s[1] = a /\ s[2] = b /\ DOMAIN s = {1, 2}
  OBVIOUS
<1>2. FirstNonEmpty(s) = IF found = {} THEN "" ELSE s[first]
  BY <1>1 DEF FirstNonEmpty
<1> HIDE DEF s
<1>3. CASE a # ""
  <2>1. 1 \in found
    BY <1>1, <1>3
  <2>2. \A j \in found : j = 1 \/ j = 2
    OBVIOUS
  <2> HIDE DEF found
  <2>3. \A j \in found : 1 <= j
    BY <2>2
  <2>4. \A i \in found : (\A j \in found : i <= j) => i = 1
    BY <2>1, <2>2
  <2>5. first = 1
    BY <2>1, <2>3, <2>4
  <2> HIDE DEF first
  <2> QED BY <1>1, <1>2, <1>3, <2>1, <2>5 DEF s
<1>4. CASE a = "" /\ b # ""
  <2>1. found = {2}
    BY <1>1, <1>4
  <2> HIDE DEF found
  <2>2. first = 2
    BY <2>1
  <2> HIDE DEF first
  <2> QED BY <1>1, <1>2, <1>4, <2>1, <2>2 DEF s
<1>5. CASE a = "" /\ b = ""
  <2>1. found = {}
    BY <1>1, <1>5
  <2> QED BY <1>1, <1>2, <1>5, <2>1 DEF s
<1> QED BY <1>3, <1>4, <1>5

\* The domain is the first of a list that is set, and its region goes with it.
Listed(c, e) ==
  <<c.domain,
    IF c.region = "" THEN NoDomain ELSE DomainForRegion(c.region),
    IF e.region = "" THEN NoDomain ELSE DomainForRegion(e.region),
    e.domain, DomainForRegion(DefaultRegion)>>

\* A client has the region and the domain that were settled together.
LEMMA Resolves ==
  ASSUME NEW c, NEW e, Resolve(c, e).err = "none"
  PROVE  LET made == Resolve(c, e).value
             pair == ResolveRegionDomain(c.region, c.domain, e)
         IN made.region = pair[1] /\ made.domain = pair[2]
<1> DEFINE pair == ResolveRegionDomain(c.region, c.domain, e)
<1> HIDE DEF pair
<1> QED BY DEF Resolve, Ok, Fail, pair

\* The domain of a region tells its region.
LEMMA StandardDomains ==
  /\ \A r : /\ DomainForRegion(r) # NoDomain
            /\ RegionFromDomain(DomainForRegion(r)) = r
  /\ DefaultRegion # "" /\ RegionFromDomain(NoDomain) = ""
BY DEF DomainForRegion, NoDomain, Domain, RegionFromDomain, DefaultRegion

\* The two passes of ResolveRegionDomain are one choice.
LEMMA Settled ==
  ASSUME NEW c, NEW e
  PROVE  LET pair == ResolveRegionDomain(c.region, c.domain, e)
             domain == IF c.domain # NoDomain THEN c.domain
                       ELSE IF c.region # "" THEN DomainForRegion(c.region)
                       ELSE IF e.region # "" THEN DomainForRegion(e.region)
                       ELSE IF e.domain # NoDomain THEN e.domain
                       ELSE DomainForRegion(DefaultRegion)
         IN pair[2] = domain /\ RegionFromDomain(pair[2]) \in {"", pair[1]}
<1>1. \A d, fallback :
        FirstNonEmpty(<<RegionFromDomain(d), fallback>>) =
          IF RegionFromDomain(d) # "" THEN RegionFromDomain(d) ELSE fallback
  BY FirstOfTwo
<1>2. \A a, b : <<a, b>>[1] = a /\ <<a, b>>[2] = b
  OBVIOUS
<1> DEFINE pair == ResolveRegionDomain(c.region, c.domain, e)
<1> DEFINE Of(d, fallback) ==
             <<FirstNonEmpty(<<RegionFromDomain(d), fallback>>), d>>
<1> DEFINE Goes(p, d) == p[2] = d /\ RegionFromDomain(p[2]) \in {"", p[1]}
<1>3. \A d, fallback : Goes(Of(d, fallback), d)
  <2> TAKE d, fallback
  <2>1. Of(d, fallback)[1] = FirstNonEmpty(<<RegionFromDomain(d), fallback>>)
    BY <1>2
  <2>2. Of(d, fallback)[2] = d
    BY <1>2
  <2> HIDE DEF Of
  <2> QED BY <1>1, <2>1, <2>2
<1>4. \A r : Goes(<<r, DomainForRegion(r)>>, DomainForRegion(r))
  <2> TAKE r
  <2> DEFINE p == <<r, DomainForRegion(r)>>
  <2>1. p[1] = r /\ p[2] = DomainForRegion(r)
    BY <1>2
  <2> HIDE DEF p
  <2>2. Goes(p, DomainForRegion(r))
    BY <2>1, StandardDomains
  <2> QED BY <2>2 DEF p
<1> DEFINE domain == IF c.domain # NoDomain THEN c.domain
                     ELSE IF c.region # "" THEN DomainForRegion(c.region)
                     ELSE IF e.region # "" THEN DomainForRegion(e.region)
                     ELSE IF e.domain # NoDomain THEN e.domain
                     ELSE DomainForRegion(DefaultRegion)
<1> DEFINE Standard(r) ==
             pair = <<r, DomainForRegion(r)>> /\ domain = DomainForRegion(r)
<1>5. \/ /\ pair = Of(c.domain, FallbackRegion(c.region, e))
         /\ domain = c.domain
      \/ Standard(c.region) \/ Standard(e.region)
      \/ pair = Of(e.domain, DefaultRegion) /\ domain = e.domain
      \/ Standard(DefaultRegion)
  BY DEF ResolveRegionDomain
<1> HIDE DEF pair, Of, domain
<1>6. Goes(pair, domain)
  <2> HIDE DEF Goes
  <2> QED BY <1>3, <1>4, <1>5
<1> QED BY <1>6 DEF pair, domain

\* The first that is set, as the documentation of Config says it.
First(listed) ==
  CHOOSE i \in DOMAIN listed :
    /\ listed[i] # NoDomain
    /\ \A j \in 1 .. i - 1 : listed[j] = NoDomain

LEMMA FirstListed ==
  ASSUME NEW listed, DOMAIN listed = 1 .. 5, listed[5] # NoDomain
  PROVE  listed[First(listed)] =
           IF listed[1] # NoDomain THEN listed[1]
           ELSE IF listed[2] # NoDomain THEN listed[2]
           ELSE IF listed[3] # NoDomain THEN listed[3]
           ELSE IF listed[4] # NoDomain THEN listed[4] ELSE listed[5]
<1> DEFINE Least(i) == /\ listed[i] # NoDomain
                       /\ \A j \in 1 .. i - 1 : listed[j] = NoDomain
<1>1. \E i \in 1 .. 5 : Least(i)
  <2>1. CASE listed[1] # NoDomain
    <3>1. Least(1)
      BY <2>1
    <3> QED BY <3>1
  <2>2. CASE listed[1] = NoDomain /\ listed[2] # NoDomain
    <3>1. Least(2)
      BY <2>2
    <3> QED BY <3>1
  <2>3. CASE /\ listed[1] = NoDomain /\ listed[2] = NoDomain
             /\ listed[3] # NoDomain
    <3>1. Least(3)
      BY <2>3
    <3> QED BY <3>1
  <2>4. CASE /\ listed[1] = NoDomain /\ listed[2] = NoDomain
             /\ listed[3] = NoDomain /\ listed[4] # NoDomain
    <3>1. Least(4)
      BY <2>4
    <3> QED BY <3>1
  <2>5. CASE /\ listed[1] = NoDomain /\ listed[2] = NoDomain
             /\ listed[3] = NoDomain /\ listed[4] = NoDomain
    <3>1. Least(5)
      BY <2>5
    <3> QED BY <3>1
  <2> QED BY <2>1, <2>2, <2>3, <2>4, <2>5
<1>2. First(listed) \in 1 .. 5 /\ Least(First(listed))
  BY <1>1 DEF First
<1> QED BY <1>2

\* Which is the choice the documentation lists.
LEMMA AsDocumented ==
  ASSUME NEW c, NEW e
  PROVE  LET pair == ResolveRegionDomain(c.region, c.domain, e) IN
         /\ pair[2] = Listed(c, e)[First(Listed(c, e))]
         /\ RegionFromDomain(pair[2]) \in {"", pair[1]}
<1> DEFINE listed == Listed(c, e)
<1>1. /\ DOMAIN listed = 1 .. 5
      /\ listed[1] = c.domain
      /\ listed[2] =
           IF c.region = "" THEN NoDomain ELSE DomainForRegion(c.region)
      /\ listed[3] =
           IF e.region = "" THEN NoDomain ELSE DomainForRegion(e.region)
      /\ listed[4] = e.domain
      /\ listed[5] = DomainForRegion(DefaultRegion)
  BY DEF Listed
<1> HIDE DEF listed
<1>2. listed[First(listed)] =
           IF listed[1] # NoDomain THEN listed[1]
           ELSE IF listed[2] # NoDomain THEN listed[2]
           ELSE IF listed[3] # NoDomain THEN listed[3]
           ELSE IF listed[4] # NoDomain THEN listed[4] ELSE listed[5]
  BY <1>1, FirstListed, StandardDomains
<1>3. \A r : DomainForRegion(r) # NoDomain
  BY StandardDomains
<1>4. listed[First(listed)] =
                       IF c.domain # NoDomain THEN c.domain
                       ELSE IF c.region # "" THEN DomainForRegion(c.region)
                       ELSE IF e.region # "" THEN DomainForRegion(e.region)
                       ELSE IF e.domain # NoDomain THEN e.domain
                       ELSE DomainForRegion(DefaultRegion)
  BY <1>1, <1>2, <1>3
<1> QED BY <1>4, Settled DEF listed

-----------------------------------------------------------------------------
\* The invariant. Until its first call a client is what its configuration and
\* its environment resolve to, and nothing is open or asked without a client.
ClientInv ==
  /\ config # None /\ client # None =>
       /\ Resolve(config[1], config[2]).err = "none"
       /\ Resolve(config[1], config[2]).value = client
  /\ client = None => call = None /\ handle = None
  /\ call = None => reply = None

\* A handle is what the control plane said of its sandbox.
HandleFits ==
  /\ told \in Created
  /\ handle = [id |-> told.id, domain |-> handle.domain,
               version |-> ParseEnvdVersion(told.version),
               baseURL |-> handle.baseURL,
               headers |-> NewEnvdConn(client, told), mcp |-> handle.mcp]
HandleInv == handle # None => HandleFits

\* A call is what the client and the handle make of a method.
AsksControlPlane ==
  /\ call.server = "control plane"
  /\ call.method \in Methods \cup Raw
  /\ call.request.headers = Authorize(client)
AsksEnvd ==
  /\ call.server = "envd"
  /\ call.method \in EnvdMethods
  /\ HandleFits
  /\ call.method.kind # "stream" =>
       call.request.headers = NewEnvdConn(client, told)
  /\ call.method.op # "GetHealth" /\ call.request.user = "" =>
       Supports(ParseEnvdVersion(told.version), EnvdVersionDefaultUser)
CallInv == call # None => AsksControlPlane \/ AsksEnvd

\* A result is what the method makes of the answer.
ReplyFits ==
  /\ "code" \in DOMAIN reply =>
       /\ call.server = "envd" /\ call.method.kind # "http"
       /\ result = ReturnConnect(call.method, reply.code)
  /\ "code" \notin DOMAIN reply =>
       /\ reply.good => reply.json
       /\ call.server = "control plane" =>
            /\ result.err = Return(call.method, reply).err
            /\ result.value = Return(call.method, reply).value
       /\ call.server = "envd" =>
            \E late \in BOOLEAN : result = ReturnHttp(call.method, reply, late)
ReplyInv == reply # None => ReplyFits

CallsInv == ClientInv /\ HandleInv /\ CallInv /\ ReplyInv

\* The invariant holds before there is a client,
LEMMA InvInit == Init => CallsInv
BY DEF Init, CallsInv, ClientInv, HandleInv, CallInv, ReplyInv

\* What an answer over HTTP is.
LEMMA AnswerShape ==
  \A a \in Answers(Statuses) \cup {Lost} :
     DOMAIN a = {"status", "json", "good", "cursor"}
BY DEF Answers, Lost

\* when a client is made,
LEMMA NewKeeps == CallsInv /\ New => CallsInv'
<1> SUFFICES ASSUME CallsInv, New PROVE CallsInv'
  OBVIOUS
<1>1. client = None /\ call = None /\ handle = None
  BY DEF New, CallsInv, ClientInv
<1>2. UNCHANGED <<handle, told, call, reply>>
  BY DEF New
<1>3. PICK pair \in Configs :
        LET made == Resolve(pair[1], pair[2]) IN
        /\ config' = pair
        /\ client' = IF made.err = "none" THEN made.value ELSE None
  BY DEF New
<1>4. ClientInv'
  BY <1>1, <1>2, <1>3 DEF CallsInv, ClientInv
<1>5. HandleInv' /\ CallInv' /\ ReplyInv'
  BY <1>1, <1>2 DEF CallsInv, ClientInv, HandleInv, CallInv, ReplyInv
<1> QED BY <1>4, <1>5 DEF CallsInv

\* when a sandbox is opened,
LEMMA OpenKeeps == CallsInv /\ Open => CallsInv'
<1> SUFFICES ASSUME CallsInv, Open PROVE CallsInv'
  OBVIOUS
<1>1. HandleInv'
  BY DEF Open, HandleInv, HandleFits, NewSandbox
<1>2. ClientInv' /\ CallInv' /\ ReplyInv'
  BY DEF Open, CallsInv, ClientInv, CallInv, ReplyInv
<1> QED BY <1>1, <1>2 DEF CallsInv

\* when the control plane is asked,
LEMMA AskControlPlaneKeeps == CallsInv /\ AskControlPlane => CallsInv'
<1> SUFFICES ASSUME CallsInv, AskControlPlane PROVE CallsInv'
  OBVIOUS
<1>1. client # None /\ handle = None /\ call = None /\ reply = None
  BY DEF AskControlPlane, CallsInv, ClientInv
<1>2. UNCHANGED <<client, handle, told, reply, result>> /\ config' = None
  BY DEF AskControlPlane
<1>3. PICK m \in Methods \cup Raw :
        \E params : call' = [server |-> "control plane", method |-> m,
                            request |-> [url |-> client.apiURL,
                                         headers |-> Authorize(client),
                                         params |-> params]]
  BY DEF AskControlPlane
<1>5. /\ call'.server = "control plane" /\ call'.method = m
      /\ call'.request.headers = Authorize(client)
  <2>1. PICK params :
          call' = [server |-> "control plane", method |-> m,
                   request |-> [url |-> client.apiURL,
                                headers |-> Authorize(client),
                                params |-> params]]
    BY <1>3
  <2> DEFINE headers == Authorize(client)
  <2>2. call'.request.headers = headers
    <3> HIDE DEF headers
    <3> QED BY <2>1 DEF headers
  <2> QED BY <2>1, <2>2
<1>6. AsksControlPlane'
  BY <1>2, <1>5 DEF AsksControlPlane, Authorize
<1>4. ClientInv' /\ HandleInv' /\ CallInv' /\ ReplyInv'
  BY <1>1, <1>2, <1>6 DEF ClientInv, HandleInv, CallInv, ReplyInv
<1> QED BY <1>4 DEF CallsInv

\* A request that names no user goes to an envd that has a default one.
LEMMA Acting ==
  ASSUME NEW m, NEW user, m.op # "GetHealth",
         EnvdRequest(handle, m, user).user = ""
  PROVE  Supports(handle.version, EnvdVersionDefaultUser)
BY DEF EnvdRequest, ResolveUser

\* A handle goes on fitting, and what it is made of.
LEMMA HandleKeeps ==
  HandleFits /\ UNCHANGED <<client, handle, told>> => HandleFits'
BY DEF HandleFits

LEMMA HandleIs ==
  HandleFits => /\ handle.version = ParseEnvdVersion(told.version)
                /\ handle.headers = NewEnvdConn(client, told)
                /\ handle.id = told.id
BY DEF HandleFits

\* when envd is asked, by a method or for the MCP token,
LEMMA AskEnvdKeeps ==
  ASSUME CallsInv, handle # None, call = None,
         UNCHANGED <<config, client, handle, told, reply>>,
         NEW m \in EnvdMethods, NEW user, NEW mcp,
         call' = [server |-> "envd", method |-> m, mcp |-> mcp,
                  request |-> EnvdRequest(handle, m, user)]
  PROVE  CallsInv'
<1>1. HandleFits /\ HandleFits' /\ client # None /\ reply = None
  BY HandleKeeps DEF CallsInv, HandleInv, ClientInv
<1>2. /\ handle.version = ParseEnvdVersion(told.version)
      /\ handle.headers = NewEnvdConn(client, told)
  BY <1>1, HandleIs
<1>3. m.kind # "stream" => EnvdRequest(handle, m, user).headers = handle.headers
  BY DEF EnvdRequest
<1>4. /\ call'.server = "envd" /\ call'.method = m
      /\ call'.request = EnvdRequest(handle, m, user)
  OBVIOUS
<1>5. m.op # "GetHealth" /\ EnvdRequest(handle, m, user).user = "" =>
        Supports(ParseEnvdVersion(told.version), EnvdVersionDefaultUser)
  BY <1>2, Acting
<1>6. AsksEnvd'
  BY <1>1, <1>2, <1>3, <1>4, <1>5 DEF AsksEnvd
<1>7. ClientInv' /\ HandleInv' /\ CallInv' /\ ReplyInv'
  BY <1>1, <1>6 DEF CallsInv, ClientInv, HandleInv, CallInv, ReplyInv
<1> QED BY <1>7 DEF CallsInv

\* While a call is made, all that changes is its answer and the handle's
\* memory of the MCP token.
LEMMA CallStays ==
  ASSUME CallsInv, call # None, UNCHANGED <<config, client, told, call>>,
         call.server = "envd" => HandleFits', handle' = handle \/ HandleFits',
         ReplyFits'
  PROVE  CallsInv'
<1>1. client # None
  BY DEF CallsInv, ClientInv
<1>2. ClientInv'
  BY <1>1 DEF CallsInv, ClientInv
<1>3. HandleInv'
  <2>1. CASE handle' = handle
    BY <2>1, HandleKeeps DEF CallsInv, HandleInv
  <2>2. CASE HandleFits'
    BY <2>2 DEF HandleInv
  <2> QED BY <2>1, <2>2
<1>4. CallInv'
  <2>1. CASE AsksControlPlane
    BY <2>1 DEF CallInv, AsksControlPlane
  <2>2. CASE AsksEnvd
    BY <2>2 DEF CallInv, AsksEnvd
  <2> QED BY <2>1, <2>2 DEF CallsInv, CallInv
<1>5. ReplyInv'
  BY DEF ReplyInv
<1> QED BY <1>2, <1>3, <1>4, <1>5 DEF CallsInv

\* when an answer comes, or none,
LEMMA AnswersKeep ==
  CallsInv /\ (ControlPlaneAnswers \/ FilesAnswer \/ RpcAnswers) => CallsInv'
<1> SUFFICES ASSUME CallsInv, ControlPlaneAnswers \/ FilesAnswer \/ RpcAnswers
             PROVE  CallsInv'
  OBVIOUS
<1>1. call # None /\ UNCHANGED <<config, client, told, call>>
  BY DEF ControlPlaneAnswers, FilesAnswer, RpcAnswers, Pending
<1>2. call.server = "envd" => HandleFits
  BY <1>1 DEF CallsInv, CallInv, AsksControlPlane, AsksEnvd
<1>3. CASE ControlPlaneAnswers
  <2>1. handle' = handle /\ call.server = "control plane"
    BY <1>3 DEF ControlPlaneAnswers
  <2>2. PICK a \in Answers(Statuses) \cup {Lost} :
          /\ a.good => a.json
          /\ reply' = a
          /\ result' = WithCursor(Return(call.method, a),
                                  Cursor(call.method, a))
    BY <1>3 DEF ControlPlaneAnswers
  <2>3. DOMAIN a = {"status", "json", "good", "cursor"}
    BY AnswerShape
  <2>4. /\ result'.err = Return(call.method, a).err
        /\ result'.value = Return(call.method, a).value
    BY <2>2 DEF WithCursor
  <2>5. ReplyFits'
    BY <1>1, <2>1, <2>2, <2>3, <2>4 DEF ReplyFits
  <2> QED BY <1>1, <2>1, <2>5, CallStays
<1>4. CASE FilesAnswer
  <2>1. call.server = "envd"
    BY <1>4 DEF FilesAnswer
  <2>2. PICK a \in Answers(Statuses) \cup {Lost}, late \in BOOLEAN :
          /\ a.good => a.json
          /\ reply' = a
          /\ result' = ReturnHttp(call.method, a, late)
          /\ handle' = KeepMcpToken(ReturnHttp(call.method, a, late))
    BY <1>4 DEF FilesAnswer
  <2>3. DOMAIN a = {"status", "json", "good", "cursor"}
    BY AnswerShape
  <2>4. ReplyFits'
    BY <1>1, <2>1, <2>2, <2>3 DEF ReplyFits
  <2>5. HandleFits'
    <3> DEFINE r == ReturnHttp(call.method, a, late)
    <3> HIDE DEF r
    <3>1. handle' = handle \/ handle' = [handle EXCEPT !.mcp = <<r>>]
      BY <2>2 DEF KeepMcpToken, r
    <3>2. CASE handle' = handle
      BY <1>1, <1>2, <2>1, <3>2, HandleKeeps
    <3>3. CASE handle' = [handle EXCEPT !.mcp = <<r>>]
      BY <1>1, <1>2, <2>1, <3>3 DEF HandleFits
    <3> QED BY <3>1, <3>2, <3>3
  <2> QED BY <1>1, <2>1, <2>4, <2>5, CallStays
<1>5. CASE RpcAnswers
  <2>1. call.server = "envd" /\ call.method.kind # "http" /\ handle' = handle
    BY <1>5 DEF RpcAnswers
  <2>2. PICK code : /\ reply' = [code |-> code]
                    /\ result' = ReturnConnect(call.method, code)
    BY <1>5 DEF RpcAnswers
  <2>3. "code" \in DOMAIN reply' /\ reply'.code = code
    BY <2>2
  <2>4. ReplyFits'
    BY <1>1, <2>1, <2>2, <2>3 DEF ReplyFits
  <2>5. HandleFits'
    BY <1>1, <1>2, <2>1, HandleKeeps
  <2> QED BY <1>1, <2>1, <2>4, <2>5, CallStays
<1> QED BY <1>3, <1>4, <1>5

\* and in every step.
LEMMA InvNext == CallsInv /\ [Next]_vars => CallsInv'
<1> SUFFICES ASSUME CallsInv, [Next]_vars PROVE CallsInv'
  OBVIOUS
<1>1. CASE New
  BY <1>1, NewKeeps
<1>2. CASE Open
  BY <1>2, OpenKeeps
<1>3. CASE AskControlPlane
  BY <1>3, AskControlPlaneKeeps
<1>4. CASE AskEnvd
  <2>1. PICK m \in EnvdMethods, user \in Users :
          call' = [server |-> "envd", method |-> m, mcp |-> FALSE,
                   request |-> EnvdRequest(handle, m, user)]
    BY <1>4 DEF AskEnvd
  <2>2. handle # None /\ call = None /\
        UNCHANGED <<config, client, handle, told, reply>>
    BY <1>4 DEF AskEnvd
  <2> QED BY <2>1, <2>2, AskEnvdKeeps
<1>5. CASE MCPToken
  <2>1. /\ ReadFile \in EnvdMethods
        /\ call' = [server |-> "envd", method |-> ReadFile, mcp |-> TRUE,
                    request |-> EnvdRequest(handle, ReadFile, "root")]
    BY <1>5 DEF MCPToken, EnvdMethods
  <2>2. handle # None /\ call = None /\
        UNCHANGED <<config, client, handle, told, reply>>
    BY <1>5 DEF MCPToken
  <2> QED BY <2>1, <2>2, AskEnvdKeeps
<1>6. CASE ControlPlaneAnswers \/ FilesAnswer \/ RpcAnswers
  BY <1>6, AnswersKeep
<1>7. CASE GoOn
  <2>1. /\ UNCHANGED <<config, client, handle, told>>
        /\ call # None /\ call' = None /\ reply' = None
    BY <1>7 DEF GoOn
  <2>2. ClientInv' /\ CallInv' /\ ReplyInv'
    BY <2>1 DEF CallsInv, ClientInv, CallInv, ReplyInv
  <2>3. HandleInv'
    BY <2>1, HandleKeeps DEF CallsInv, HandleInv
  <2> QED BY <2>2, <2>3 DEF CallsInv
<1>8. CASE UNCHANGED vars
  BY <1>8 DEF vars, CallsInv, ClientInv, HandleInv, HandleFits, CallInv,
     AsksEnvd, AsksControlPlane, ReplyInv, ReplyFits
<1> QED BY <1>1, <1>2, <1>3, <1>4, <1>5, <1>6, <1>7, <1>8 DEF Next

\* What the client, the handle, the call and the result come from, of Calls as
\* a whole.
THEOREM InvHolds == Spec => []CallsInv
<1> QED BY InvInit, InvNext, PTL DEF Spec

-----------------------------------------------------------------------------
(* The properties.                                                          *)

\* The domain is the first of those the documentation of Config lists, and its
\* region goes with it, whatever a caller and an environment set.
THEOREM DomainDocumented == Spec => []DomainAsDocumented
<1>1. ClientInv => DomainAsDocumented
  <2> SUFFICES ASSUME ClientInv, config # None, client # None
               PROVE  DomainAsDocumented
    BY DEF DomainAsDocumented
  <2> DEFINE c == config[1]
  <2> DEFINE e == config[2]
  <2> DEFINE pair == ResolveRegionDomain(c.region, c.domain, e)
  <2>1. Resolve(c, e).err = "none" /\ Resolve(c, e).value = client
    BY DEF ClientInv
  <2> HIDE DEF c, e
  <2>2. client.region = pair[1] /\ client.domain = pair[2]
    BY <2>1, Resolves
  <2>3. /\ client.domain = Listed(c, e)[First(Listed(c, e))]
        /\ RegionFromDomain(client.domain) \in {"", client.region}
    BY <2>2, AsDocumented
  <2>4. RegionFromDomain(client.domain) \in China =>
          BaseImageForRegion(client.region) = "base_cn"
    BY <2>3, ChinaAssumption DEF BaseImageForRegion, IsRegionCN
  <2> QED BY <2>3, <2>4 DEF DomainAsDocumented, Listed, First, c, e
<1> QED BY <1>1, InvHolds, PTL DEF CallsInv

\* The credentials among the headers of a request.
LEMMA KeyOfClient ==
  ASSUME NEW request, request.headers = Authorize(client)
  PROVE  Keys(request) = {<<"X-API-Key", client.apiKey>>}
<1> DEFINE key == <<"X-API-Key", client.apiKey>>
<1>1. key[1] = "X-API-Key"
  OBVIOUS
<1>2. Authorize(client) = {h \in client.headers : h[1] # "X-API-Key"} \cup {key}
  BY DEF Authorize
<1> HIDE DEF key
<1>3. Keys(request) = {key}
  BY <1>1, <1>2 DEF Keys
<1> QED BY <1>3 DEF key

LEMMA CredentialOfSandbox ==
  ASSUME NEW request, request.headers = NewEnvdConn(client, told)
  PROVE  /\ Keys(request) \cup Tokens(request) =
              {IF told.access # "" THEN <<"X-Access-Token", told.access>>
               ELSE <<"X-API-Key", client.apiKey>>}
         /\ <<"E2b-Sandbox-Id", told.id>> \in request.headers
<1> DEFINE id == <<"E2b-Sandbox-Id", told.id>>
<1> DEFINE port == <<"E2b-Sandbox-Port", EnvdPort>>
<1> DEFINE key == <<"X-API-Key", client.apiKey>>
<1> DEFINE token == <<"X-Access-Token", told.access>>
<1> DEFINE traffic == <<"E2B-Traffic-Access-Token", told.traffic>>
<1>1. /\ id[1] = "E2b-Sandbox-Id" /\ port[1] = "E2b-Sandbox-Port"
      /\ key[1] = "X-API-Key" /\ token[1] = "X-Access-Token"
      /\ traffic[1] = "E2B-Traffic-Access-Token"
  OBVIOUS
<1>2. NewEnvdConn(client, told) =
        {id, port} \cup (IF told.access = "" THEN {key} ELSE {token})
                  \cup (IF told.traffic = "" THEN {} ELSE {traffic})
  BY DEF NewEnvdConn
<1> HIDE DEF id, port, key, token, traffic
<1> DEFINE own == IF told.access # "" THEN token ELSE key
<1>3. own[1] \in {"X-API-Key", "X-Access-Token"}
  BY <1>1
<1>4. /\ {id, port, own} \subseteq request.headers
      /\ request.headers \subseteq {id, port, own, traffic}
  BY <1>2
<1> HIDE DEF own
<1>5. Keys(request) \cup Tokens(request) = {own}
  BY <1>1, <1>3, <1>4 DEF Keys, Tokens
<1> QED BY <1>4, <1>5 DEF own, id, key, token

\* One credential a request, the client's to the control plane, and to a
\* sandbox its own where it has one (transport.Authorize, NewEnvdConn).
THEOREM OneKey == Spec => []OneCredential
<1>1. CallsInv => OneCredential
  <2> SUFFICES ASSUME CallsInv, call # None PROVE OneCredential
    BY DEF OneCredential
  <2>1. call.server = "control plane" =>
          Keys(call.request) = {<<"X-API-Key", client.apiKey>>}
    BY KeyOfClient DEF CallsInv, CallInv, AsksControlPlane, AsksEnvd
  <2>2. ASSUME call.server = "envd", call.method.kind # "stream"
        PROVE  /\ Keys(call.request) \cup Tokens(call.request) =
                    {IF told.access # "" THEN <<"X-Access-Token", told.access>>
                     ELSE <<"X-API-Key", client.apiKey>>}
               /\ <<"E2b-Sandbox-Id", handle.id>> \in call.request.headers
    <3>1. /\ call.request.headers = NewEnvdConn(client, told)
          /\ handle.id = told.id
      BY <2>2, HandleIs DEF CallsInv, CallInv, AsksControlPlane, AsksEnvd
    <3> QED BY <3>1, CredentialOfSandbox
  <2> QED BY <2>1, <2>2 DEF OneCredential
<1> QED BY <1>1, InvHolds, PTL

\* An envd that is reported with a version before 0.4.0, with none, or with one
\* that has no number in it, is told whom to act as (resolveUser).
THEOREM NeverRoot == Spec => []RootNeverByDefault
<1>1. CallsInv => RootNeverByDefault
  <2> SUFFICES ASSUME CallsInv, call # None, call.server = "envd",
                      call.method.op # "GetHealth", call.request.user = ""
               PROVE  ~BeforeDefaultUser(told.version) /\ ~Unreadable(told.version)
    BY DEF RootNeverByDefault, NamesUser
  <2>1. /\ told \in Created
        /\ Supports(ParseEnvdVersion(told.version), EnvdVersionDefaultUser)
    BY DEF CallsInv, CallInv, AsksControlPlane, AsksEnvd, HandleFits
  <2> QED BY <2>1, DefaultUser, CreatedAssumption
<1> QED BY <1>1, InvHolds, PTL

\* What is known of a reply, server by server.
LEMMA Replied ==
  ASSUME CallsInv, reply # None
  PROVE  \/ /\ "code" \in DOMAIN reply
            /\ call.server = "envd" /\ call.method \in EnvdMethods
            /\ call.method.kind # "http"
            /\ result = ReturnConnect(call.method, reply.code)
         \/ /\ "code" \notin DOMAIN reply
            /\ call.server = "envd" /\ call.method \in EnvdMethods
            /\ reply.good => reply.json
            /\ \E late \in BOOLEAN :
                 result = ReturnHttp(call.method, reply, late)
         \/ /\ "code" \notin DOMAIN reply
            /\ call.server = "control plane" /\ Sound(call.method)
            /\ reply.good => reply.json
            /\ result.err = Return(call.method, reply).err
            /\ result.value = Return(call.method, reply).value
<1>1. call # None
  BY DEF CallsInv, ClientInv
<1>2. ReplyFits /\ (AsksControlPlane \/ AsksEnvd)
  BY <1>1 DEF CallsInv, CallInv, ReplyInv
<1> QED BY <1>2, AllSound DEF ReplyFits, AsksControlPlane, AsksEnvd

\* No method turns a failure into a success, but for the failures it forgives:
\* for all methods, statuses and codes.
THEOREM ErrorsReported == Spec => []FailuresAreErrors
<1>1. CallsInv => FailuresAreErrors
  <2> SUFFICES ASSUME CallsInv, reply # None, result.err = "none",
                      call.method # IsRunning
               PROVE  IF "code" \in DOMAIN reply
                      THEN reply.code \in {"ok"} \cup MayForgive(call.method)
                      ELSE reply.status \in
                             (200 .. 299) \cup MayForgive(call.method)
    BY DEF FailuresAreErrors
  <2>1. CASE /\ "code" \in DOMAIN reply
             /\ call.server = "envd" /\ call.method \in EnvdMethods
             /\ call.method.kind # "http"
             /\ result = ReturnConnect(call.method, reply.code)
    BY <2>1, ReturnsConnect DEF MayForgive
  <2>2. CASE /\ "code" \notin DOMAIN reply
             /\ reply.good => reply.json
             /\ \E late \in BOOLEAN :
                  result = ReturnHttp(call.method, reply, late)
    BY <2>2, ReturnsHttp
  <2>3. CASE /\ "code" \notin DOMAIN reply
             /\ call.server = "control plane" /\ Sound(call.method)
             /\ reply.good => reply.json
             /\ result.err = Return(call.method, reply).err
    <3>1. reply.status \in 200 .. 299 \cup call.method.forgives
      <4> DEFINE r == Return(call.method, reply)
      <4>1. r.err = "none" =>
              reply.status \in 200 .. 299 \cup call.method.forgives
        BY <2>3, Returns
      <4> QED BY <2>3, <4>1
    <3>2. call.method.forgives \subseteq MayForgive(call.method)
      BY <2>3 DEF Sound, MayForgive
    <3> QED BY <2>3, <3>1, <3>2
  <2> QED BY <2>1, <2>2, <2>3, Replied
<1> QED BY <1>1, InvHolds, PTL

\* A success that was described is returned, and one that was not never comes
\* out as a result without a value, but from Connect (transport.Parsed).
THEOREM ResultsReturned == Spec => []SuccessesAreResults
<1>1. CallsInv => SuccessesAreResults
  <2> SUFFICES ASSUME CallsInv, reply # None, call.server = "control plane"
               PROVE  SuccessesAreResults
    BY DEF SuccessesAreResults
  <2>1. /\ Sound(call.method) /\ (reply.good => reply.json)
        /\ result.err = Return(call.method, reply).err
        /\ result.value = Return(call.method, reply).value
    BY Replied
  <2>2. call.method.checked \/ call.method = Connect
    BY <2>1 DEF Sound
  <2> DEFINE m == call.method
  <2> DEFINE r == Return(m, reply)
  <2>3. /\ r.value = "nil" => r.err # "none" \/ ~m.checked
        /\ reply.status \in Successes(Operations[m.op].parse) /\ reply.good =>
             r.err = "none" /\ r.value \in {"body", "done"}
    BY <2>1, Returns
  <2> QED BY <2>1, <2>2, <2>3 DEF SuccessesAreResults
<1> QED BY <1>1, InvHolds, PTL

\* A failure has the type that says what failed, over either protocol
\* (errdefs.FromHTTP, errdefs.FromConnect).
THEOREM ClassKept == Spec => []FailureKeepsItsClass
<1>1. CallsInv => FailureKeepsItsClass
  <2> SUFFICES ASSUME CallsInv, reply # None, result.err # "none",
                      NEW c \in DOMAIN Causes,
                      \/ "code" \in DOMAIN reply /\ reply.code = Causes[c].code
                      \/ "code" \notin DOMAIN reply /\ reply.good
                         /\ reply.status = Causes[c].status
               PROVE  result.err = Class[c]
    BY DEF FailureKeepsItsClass
  <2>1. /\ FromConnect(Causes[c].code) = Class[c]
        /\ FromHTTP(Causes[c].status) = Class[c]
        /\ Causes[c].status # 0 /\ Causes[c].status \notin 200 .. 299
    BY Codes, CauseStatuses
  <2>2. CASE /\ "code" \in DOMAIN reply
             /\ call.method \in EnvdMethods /\ call.method.kind # "http"
             /\ result = ReturnConnect(call.method, reply.code)
    BY <2>1, <2>2, ReturnsConnect
  <2>3. CASE /\ "code" \notin DOMAIN reply
             /\ reply.good => reply.json
             /\ \E late \in BOOLEAN :
                  result = ReturnHttp(call.method, reply, late)
    BY <2>1, <2>3, ReturnsHttp
  <2>4. CASE /\ "code" \notin DOMAIN reply
             /\ Sound(call.method) /\ (reply.good => reply.json)
             /\ result.err = Return(call.method, reply).err
    BY <2>1, <2>4, Returns
  <2> QED BY <2>2, <2>3, <2>4, Replied
<1> QED BY <1>1, InvHolds, PTL
==============================================================================
