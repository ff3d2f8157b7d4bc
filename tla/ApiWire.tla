------------------------------ MODULE ApiWire ------------------------------
(***************************************************************************)
(* The control plane's generated client, pkg/api/client.gen.go: for each   *)
(* operation the request its New...Request function constructs and the     *)
(* responses its Parse...Response function decodes.                        *)
(*                                                                         *)
(* Paths, styles and Go types are abstracted away; what is kept is what    *)
(* the code above the client depends on: the method, whether the request   *)
(* has a JSON body (made with bytes.NewReader, so that it can be sent      *)
(* again), which query parameters it encodes always and which only when    *)
(* they are set, and for which statuses a JSON body is decoded into a      *)
(* field of its own.                                                       *)
(***************************************************************************)
EXTENDS WireFormat

-----------------------------------------------------------------------------
\* Requests, in the order of the file.

NewGetAdminSandboxesRunningCountsRequest == Request("GET")
NewPostAdminTeamsTeamIDApiKeysRequest == JsonRequest("POST")
NewDeleteAdminTeamsTeamIDApiKeysApiKeyIDRequest == Request("DELETE")
NewPostAdminTeamsTeamIDBuildsCancelRequest == Request("POST")
NewPostAdminTeamsTeamIDSandboxesKillRequest == Request("POST")
NewGetApiKeysRequest == Request("GET")
NewPostApiKeysRequest == JsonRequest("POST")
NewDeleteApiKeysApiKeyIDRequest == Request("DELETE")
NewPatchApiKeysApiKeyIDRequest == JsonRequest("PATCH")
NewGetClustersClusterIDRigsRequest == Request("GET")
NewDeleteClustersClusterIDRigsInstancesInstanceIDRequest ==
  Query("DELETE", {"decrementDesired"}, {})
NewPutClustersClusterIDRigsRigIDCapacityRequest == JsonRequest("PUT")
NewGetClustersClusterIDRigsRigIDErrorsRequest == Query("GET", {}, {"limit"})
NewGetClustersClusterIDRigsRigIDInstancesRequest == Request("GET")
NewGetHealthRequest == Request("GET")
NewGetNodesRequest == Query("GET", {}, {"clusterID"})
NewGetNodesNodeIDRequest == Query("GET", {}, {"clusterID"})
NewPostNodesNodeIDRequest == JsonRequest("POST")
NewGetSandboxesRequest == Query("GET", {}, {"metadata"})
NewPostSandboxesRequest == JsonRequest("POST")
NewGetSandboxesMetricsRequest == Query("GET", {}, {"sandbox_ids"})
NewDeleteSandboxesSandboxIDRequest == Request("DELETE")
NewGetSandboxesSandboxIDRequest == Request("GET")
NewPostSandboxesSandboxIDConnectRequest == JsonRequest("POST")
NewPostSandboxesSandboxIDForkRequest == JsonRequest("POST")
NewGetSandboxesSandboxIDLogsRequest == Query("GET", {}, {"start", "limit"})
NewGetSandboxesSandboxIDMetricsRequest == Query("GET", {}, {"start", "end"})
NewPutSandboxesSandboxIDNetworkRequest == JsonRequest("PUT")
NewPostSandboxesSandboxIDPauseRequest == JsonRequest("POST")
NewPostSandboxesSandboxIDRefreshesRequest == JsonRequest("POST")
NewPostSandboxesSandboxIDResumeRequest == JsonRequest("POST")
NewPostSandboxesSandboxIDSnapshotsRequest == JsonRequest("POST")
NewPostSandboxesSandboxIDTimeoutRequest == JsonRequest("POST")
NewGetSecretsRequest == Query("GET", {}, {"nextToken", "limit"})
NewPostSecretsRequest == JsonRequest("POST")
NewDeleteSecretsSecretIDRequest == Request("DELETE")
NewGetSecretsSecretIDRequest == Request("GET")
NewPostSecretsSecretIDRequest == JsonRequest("POST")
NewGetSnapshotsRequest ==
  Query("GET", {}, {"sandboxID", "name", "limit", "nextToken"})
NewGetTeamsRequest == Request("GET")
NewGetTeamsTeamIDMetricsRequest == Query("GET", {}, {"start", "end"})
NewGetTeamsTeamIDMetricsMaxRequest ==
  Query("GET", {"metric"}, {"start", "end"})
NewGetTemplatesRequest == Query("GET", {}, {"teamID"})
NewPostTemplatesRequest == JsonRequest("POST")
NewGetTemplatesAliasesAliasRequest == Request("GET")
NewDeleteTemplatesTagsRequest == JsonRequest("DELETE")
NewPostTemplatesTagsRequest == JsonRequest("POST")
NewDeleteTemplatesTemplateIDRequest == Request("DELETE")
NewGetTemplatesTemplateIDRequest == Query("GET", {}, {"nextToken", "limit"})
NewPatchTemplatesTemplateIDRequest == JsonRequest("PATCH")
NewPostTemplatesTemplateIDRequest == JsonRequest("POST")
NewPostTemplatesTemplateIDBuildsBuildIDRequest == Request("POST")
NewGetTemplatesTemplateIDBuildsBuildIDLogsRequest ==
  Query("GET", {}, {"cursor", "limit", "direction", "level", "source"})
NewGetTemplatesTemplateIDBuildsBuildIDStatusRequest ==
  Query("GET", {}, {"logsOffset", "limit", "level"})
NewGetTemplatesTemplateIDFilesHashRequest == Request("GET")
NewGetTemplatesTemplateIDTagsRequest == Request("GET")
NewGetV2SandboxesRequest ==
  Query("GET", {},
        {"metadata", "state", "order", "startedAfter",
         "template", "nextToken", "limit"})
NewGetV2SandboxesSandboxIDLogsRequest ==
  Query("GET", {}, {"cursor", "limit", "direction", "level", "search"})
NewGetV2TemplatesRequest == Query("GET", {}, {"teamID", "nextToken", "limit"})
NewPostV2TemplatesRequest == JsonRequest("POST")
NewPatchV2TemplatesTemplateIDRequest == JsonRequest("PATCH")
NewPostV2TemplatesTemplateIDBuildsBuildIDRequest == JsonRequest("POST")
NewPostV3TemplatesRequest == JsonRequest("POST")
NewGetVolumesRequest == Request("GET")
NewPostVolumesRequest == JsonRequest("POST")
NewDeleteVolumesVolumeIDRequest == Request("DELETE")
NewGetVolumesVolumeIDRequest == Request("GET")

-----------------------------------------------------------------------------
\* Responses.

ParseGetAdminSandboxesRunningCountsResponse ==
  Decodes({200, 401, 500}, {}, {})
ParsePostAdminTeamsTeamIDApiKeysResponse ==
  Decodes({201, 400, 401, 403, 404, 500}, {}, {})
ParseDeleteAdminTeamsTeamIDApiKeysApiKeyIDResponse ==
  Decodes({400, 401, 404, 500}, {204}, {})
ParsePostAdminTeamsTeamIDBuildsCancelResponse ==
  Decodes({200, 401, 404, 500}, {}, {})
ParsePostAdminTeamsTeamIDSandboxesKillResponse ==
  Decodes({200, 401, 404, 500}, {}, {})
ParseGetApiKeysResponse == Decodes({200, 401, 500}, {}, {})
ParsePostApiKeysResponse == Decodes({201, 401, 500}, {}, {})
ParseDeleteApiKeysApiKeyIDResponse == Decodes({401, 404, 500}, {204}, {})
ParsePatchApiKeysApiKeyIDResponse == Decodes({401, 404, 500}, {200}, {})
ParseGetClustersClusterIDRigsResponse ==
  Decodes({200, 401, 404, 500, 501}, {}, {})
ParseDeleteClustersClusterIDRigsInstancesInstanceIDResponse ==
  Decodes({400, 401, 404, 409, 500, 501}, {202}, {})
ParsePutClustersClusterIDRigsRigIDCapacityResponse ==
  Decodes({400, 401, 404, 409, 500, 501}, {202}, {})
ParseGetClustersClusterIDRigsRigIDErrorsResponse ==
  Decodes({200, 400, 401, 404, 500, 501}, {}, {})
ParseGetClustersClusterIDRigsRigIDInstancesResponse ==
  Decodes({200, 400, 401, 404, 500, 501}, {}, {})
ParseGetHealthResponse == Decodes({401}, {204}, {})
ParseGetNodesResponse == Decodes({200, 401, 500}, {}, {})
ParseGetNodesNodeIDResponse == Decodes({200, 401, 404, 500}, {}, {})
ParsePostNodesNodeIDResponse == Decodes({401, 404, 409, 500}, {204}, {})
ParseGetSandboxesResponse == Decodes({200, 400, 401, 500}, {}, {})
ParsePostSandboxesResponse == Decodes({201, 400, 401, 500, 503, 504}, {}, {})
ParseGetSandboxesMetricsResponse == Decodes({200, 400, 401, 500}, {}, {})
ParseDeleteSandboxesSandboxIDResponse == Decodes({401, 404, 500}, {204}, {})
ParseGetSandboxesSandboxIDResponse == Decodes({200, 401, 404, 500}, {}, {})
ParsePostSandboxesSandboxIDConnectResponse ==
  Decodes({200, 201, 400, 401, 404, 409, 500, 503, 504}, {}, {})
ParsePostSandboxesSandboxIDForkResponse ==
  Decodes({201, 401, 404, 409, 500, 503}, {}, {})
ParseGetSandboxesSandboxIDLogsResponse ==
  Decodes({200, 401, 404, 500}, {}, {})
ParseGetSandboxesSandboxIDMetricsResponse ==
  Decodes({200, 400, 401, 404, 500}, {}, {})
ParsePutSandboxesSandboxIDNetworkResponse ==
  Decodes({401, 404, 409, 500}, {204}, {})
ParsePostSandboxesSandboxIDPauseResponse ==
  Decodes({401, 404, 409, 500, 503}, {204}, {})
ParsePostSandboxesSandboxIDRefreshesResponse == Decodes({401, 404}, {204}, {})
ParsePostSandboxesSandboxIDResumeResponse ==
  Decodes({201, 400, 401, 404, 409, 500, 503, 504}, {}, {})
ParsePostSandboxesSandboxIDSnapshotsResponse ==
  Decodes({201, 400, 401, 404, 500}, {}, {})
ParsePostSandboxesSandboxIDTimeoutResponse ==
  Decodes({401, 404, 500}, {204}, {})
ParseGetSecretsResponse ==
  Decodes({200, 400, 401, 403, 404, 409, 429, 500, 502, 504}, {}, {200})
ParsePostSecretsResponse ==
  Decodes({201, 400, 401, 403, 404, 409, 429, 500, 502, 504}, {}, {})
ParseDeleteSecretsSecretIDResponse ==
  Decodes({400, 401, 403, 404, 409, 429, 500, 502, 504}, {204}, {})
ParseGetSecretsSecretIDResponse ==
  Decodes({200, 400, 401, 403, 404, 409, 429, 500, 502, 504}, {}, {})
ParsePostSecretsSecretIDResponse ==
  Decodes({200, 400, 401, 403, 404, 409, 429, 500, 502, 504}, {}, {})
ParseGetSnapshotsResponse == Decodes({200, 401, 500}, {}, {200})
ParseGetTeamsResponse == Decodes({200, 401, 500}, {}, {})
ParseGetTeamsTeamIDMetricsResponse ==
  Decodes({200, 400, 401, 403, 500}, {}, {})
ParseGetTeamsTeamIDMetricsMaxResponse ==
  Decodes({200, 400, 401, 403, 500}, {}, {})
ParseGetTemplatesResponse == Decodes({200, 401, 500}, {}, {})
ParsePostTemplatesResponse == Decodes({202, 400, 401, 409, 500}, {}, {})
ParseGetTemplatesAliasesAliasResponse ==
  Decodes({200, 400, 403, 404, 500}, {}, {})
ParseDeleteTemplatesTagsResponse == Decodes({400, 401, 404, 500}, {204}, {})
ParsePostTemplatesTagsResponse == Decodes({201, 400, 401, 404, 500}, {}, {})
ParseDeleteTemplatesTemplateIDResponse == Decodes({401, 500}, {204}, {})
ParseGetTemplatesTemplateIDResponse == Decodes({200, 401, 500}, {}, {200})
ParsePatchTemplatesTemplateIDResponse == Decodes({400, 401, 500}, {200}, {})
ParsePostTemplatesTemplateIDResponse == Decodes({202, 401, 409, 500}, {}, {})
ParsePostTemplatesTemplateIDBuildsBuildIDResponse ==
  Decodes({401, 500}, {202}, {})
ParseGetTemplatesTemplateIDBuildsBuildIDLogsResponse ==
  Decodes({200, 401, 404, 500}, {}, {})
ParseGetTemplatesTemplateIDBuildsBuildIDStatusResponse ==
  Decodes({200, 401, 404, 500}, {}, {})
ParseGetTemplatesTemplateIDFilesHashResponse ==
  Decodes({201, 400, 401, 404, 500}, {}, {})
ParseGetTemplatesTemplateIDTagsResponse ==
  Decodes({200, 401, 403, 404, 500}, {}, {})
ParseGetV2SandboxesResponse == Decodes({200, 400, 401, 500}, {}, {200})
ParseGetV2SandboxesSandboxIDLogsResponse ==
  Decodes({200, 401, 404, 500}, {}, {})
ParseGetV2TemplatesResponse == Decodes({200, 400, 401, 403, 500}, {}, {200})
ParsePostV2TemplatesResponse == Decodes({202, 400, 401, 409, 500}, {}, {})
ParsePatchV2TemplatesTemplateIDResponse ==
  Decodes({200, 400, 401, 500}, {}, {})
ParsePostV2TemplatesTemplateIDBuildsBuildIDResponse ==
  Decodes({401, 500}, {202}, {})
ParsePostV3TemplatesResponse ==
  Decodes({202, 400, 401, 403, 409, 500}, {}, {})
ParseGetVolumesResponse == Decodes({200, 401, 500}, {}, {})
ParsePostVolumesResponse == Decodes({201, 400, 401, 500}, {}, {})
ParseDeleteVolumesVolumeIDResponse == Decodes({401, 404, 500}, {204}, {})
ParseGetVolumesVolumeIDResponse == Decodes({200, 401, 404, 500}, {}, {})

-----------------------------------------------------------------------------
\* Every operation by name.
Operations ==
  [ GetAdminSandboxesRunningCounts |->
      Op(NewGetAdminSandboxesRunningCountsRequest,
         ParseGetAdminSandboxesRunningCountsResponse),
    PostAdminTeamsTeamIDApiKeys |->
      Op(NewPostAdminTeamsTeamIDApiKeysRequest,
         ParsePostAdminTeamsTeamIDApiKeysResponse),
    DeleteAdminTeamsTeamIDApiKeysApiKeyID |->
      Op(NewDeleteAdminTeamsTeamIDApiKeysApiKeyIDRequest,
         ParseDeleteAdminTeamsTeamIDApiKeysApiKeyIDResponse),
    PostAdminTeamsTeamIDBuildsCancel |->
      Op(NewPostAdminTeamsTeamIDBuildsCancelRequest,
         ParsePostAdminTeamsTeamIDBuildsCancelResponse),
    PostAdminTeamsTeamIDSandboxesKill |->
      Op(NewPostAdminTeamsTeamIDSandboxesKillRequest,
         ParsePostAdminTeamsTeamIDSandboxesKillResponse),
    GetApiKeys |-> Op(NewGetApiKeysRequest, ParseGetApiKeysResponse),
    PostApiKeys |-> Op(NewPostApiKeysRequest, ParsePostApiKeysResponse),
    DeleteApiKeysApiKeyID |->
      Op(NewDeleteApiKeysApiKeyIDRequest,
         ParseDeleteApiKeysApiKeyIDResponse),
    PatchApiKeysApiKeyID |->
      Op(NewPatchApiKeysApiKeyIDRequest,
         ParsePatchApiKeysApiKeyIDResponse),
    GetClustersClusterIDRigs |->
      Op(NewGetClustersClusterIDRigsRequest,
         ParseGetClustersClusterIDRigsResponse),
    DeleteClustersClusterIDRigsInstancesInstanceID |->
      Op(NewDeleteClustersClusterIDRigsInstancesInstanceIDRequest,
         ParseDeleteClustersClusterIDRigsInstancesInstanceIDResponse),
    PutClustersClusterIDRigsRigIDCapacity |->
      Op(NewPutClustersClusterIDRigsRigIDCapacityRequest,
         ParsePutClustersClusterIDRigsRigIDCapacityResponse),
    GetClustersClusterIDRigsRigIDErrors |->
      Op(NewGetClustersClusterIDRigsRigIDErrorsRequest,
         ParseGetClustersClusterIDRigsRigIDErrorsResponse),
    GetClustersClusterIDRigsRigIDInstances |->
      Op(NewGetClustersClusterIDRigsRigIDInstancesRequest,
         ParseGetClustersClusterIDRigsRigIDInstancesResponse),
    GetHealth |-> Op(NewGetHealthRequest, ParseGetHealthResponse),
    GetNodes |-> Op(NewGetNodesRequest, ParseGetNodesResponse),
    GetNodesNodeID |->
      Op(NewGetNodesNodeIDRequest,
         ParseGetNodesNodeIDResponse),
    PostNodesNodeID |->
      Op(NewPostNodesNodeIDRequest,
         ParsePostNodesNodeIDResponse),
    GetSandboxes |-> Op(NewGetSandboxesRequest, ParseGetSandboxesResponse),
    PostSandboxes |-> Op(NewPostSandboxesRequest, ParsePostSandboxesResponse),
    GetSandboxesMetrics |->
      Op(NewGetSandboxesMetricsRequest,
         ParseGetSandboxesMetricsResponse),
    DeleteSandboxesSandboxID |->
      Op(NewDeleteSandboxesSandboxIDRequest,
         ParseDeleteSandboxesSandboxIDResponse),
    GetSandboxesSandboxID |->
      Op(NewGetSandboxesSandboxIDRequest,
         ParseGetSandboxesSandboxIDResponse),
    PostSandboxesSandboxIDConnect |->
      Op(NewPostSandboxesSandboxIDConnectRequest,
         ParsePostSandboxesSandboxIDConnectResponse),
    PostSandboxesSandboxIDFork |->
      Op(NewPostSandboxesSandboxIDForkRequest,
         ParsePostSandboxesSandboxIDForkResponse),
    GetSandboxesSandboxIDLogs |->
      Op(NewGetSandboxesSandboxIDLogsRequest,
         ParseGetSandboxesSandboxIDLogsResponse),
    GetSandboxesSandboxIDMetrics |->
      Op(NewGetSandboxesSandboxIDMetricsRequest,
         ParseGetSandboxesSandboxIDMetricsResponse),
    PutSandboxesSandboxIDNetwork |->
      Op(NewPutSandboxesSandboxIDNetworkRequest,
         ParsePutSandboxesSandboxIDNetworkResponse),
    PostSandboxesSandboxIDPause |->
      Op(NewPostSandboxesSandboxIDPauseRequest,
         ParsePostSandboxesSandboxIDPauseResponse),
    PostSandboxesSandboxIDRefreshes |->
      Op(NewPostSandboxesSandboxIDRefreshesRequest,
         ParsePostSandboxesSandboxIDRefreshesResponse),
    PostSandboxesSandboxIDResume |->
      Op(NewPostSandboxesSandboxIDResumeRequest,
         ParsePostSandboxesSandboxIDResumeResponse),
    PostSandboxesSandboxIDSnapshots |->
      Op(NewPostSandboxesSandboxIDSnapshotsRequest,
         ParsePostSandboxesSandboxIDSnapshotsResponse),
    PostSandboxesSandboxIDTimeout |->
      Op(NewPostSandboxesSandboxIDTimeoutRequest,
         ParsePostSandboxesSandboxIDTimeoutResponse),
    GetSecrets |-> Op(NewGetSecretsRequest, ParseGetSecretsResponse),
    PostSecrets |-> Op(NewPostSecretsRequest, ParsePostSecretsResponse),
    DeleteSecretsSecretID |->
      Op(NewDeleteSecretsSecretIDRequest,
         ParseDeleteSecretsSecretIDResponse),
    GetSecretsSecretID |->
      Op(NewGetSecretsSecretIDRequest,
         ParseGetSecretsSecretIDResponse),
    PostSecretsSecretID |->
      Op(NewPostSecretsSecretIDRequest,
         ParsePostSecretsSecretIDResponse),
    GetSnapshots |-> Op(NewGetSnapshotsRequest, ParseGetSnapshotsResponse),
    GetTeams |-> Op(NewGetTeamsRequest, ParseGetTeamsResponse),
    GetTeamsTeamIDMetrics |->
      Op(NewGetTeamsTeamIDMetricsRequest,
         ParseGetTeamsTeamIDMetricsResponse),
    GetTeamsTeamIDMetricsMax |->
      Op(NewGetTeamsTeamIDMetricsMaxRequest,
         ParseGetTeamsTeamIDMetricsMaxResponse),
    GetTemplates |-> Op(NewGetTemplatesRequest, ParseGetTemplatesResponse),
    PostTemplates |-> Op(NewPostTemplatesRequest, ParsePostTemplatesResponse),
    GetTemplatesAliasesAlias |->
      Op(NewGetTemplatesAliasesAliasRequest,
         ParseGetTemplatesAliasesAliasResponse),
    DeleteTemplatesTags |->
      Op(NewDeleteTemplatesTagsRequest,
         ParseDeleteTemplatesTagsResponse),
    PostTemplatesTags |->
      Op(NewPostTemplatesTagsRequest,
         ParsePostTemplatesTagsResponse),
    DeleteTemplatesTemplateID |->
      Op(NewDeleteTemplatesTemplateIDRequest,
         ParseDeleteTemplatesTemplateIDResponse),
    GetTemplatesTemplateID |->
      Op(NewGetTemplatesTemplateIDRequest,
         ParseGetTemplatesTemplateIDResponse),
    PatchTemplatesTemplateID |->
      Op(NewPatchTemplatesTemplateIDRequest,
         ParsePatchTemplatesTemplateIDResponse),
    PostTemplatesTemplateID |->
      Op(NewPostTemplatesTemplateIDRequest,
         ParsePostTemplatesTemplateIDResponse),
    PostTemplatesTemplateIDBuildsBuildID |->
      Op(NewPostTemplatesTemplateIDBuildsBuildIDRequest,
         ParsePostTemplatesTemplateIDBuildsBuildIDResponse),
    GetTemplatesTemplateIDBuildsBuildIDLogs |->
      Op(NewGetTemplatesTemplateIDBuildsBuildIDLogsRequest,
         ParseGetTemplatesTemplateIDBuildsBuildIDLogsResponse),
    GetTemplatesTemplateIDBuildsBuildIDStatus |->
      Op(NewGetTemplatesTemplateIDBuildsBuildIDStatusRequest,
         ParseGetTemplatesTemplateIDBuildsBuildIDStatusResponse),
    GetTemplatesTemplateIDFilesHash |->
      Op(NewGetTemplatesTemplateIDFilesHashRequest,
         ParseGetTemplatesTemplateIDFilesHashResponse),
    GetTemplatesTemplateIDTags |->
      Op(NewGetTemplatesTemplateIDTagsRequest,
         ParseGetTemplatesTemplateIDTagsResponse),
    GetV2Sandboxes |->
      Op(NewGetV2SandboxesRequest,
         ParseGetV2SandboxesResponse),
    GetV2SandboxesSandboxIDLogs |->
      Op(NewGetV2SandboxesSandboxIDLogsRequest,
         ParseGetV2SandboxesSandboxIDLogsResponse),
    GetV2Templates |->
      Op(NewGetV2TemplatesRequest,
         ParseGetV2TemplatesResponse),
    PostV2Templates |->
      Op(NewPostV2TemplatesRequest,
         ParsePostV2TemplatesResponse),
    PatchV2TemplatesTemplateID |->
      Op(NewPatchV2TemplatesTemplateIDRequest,
         ParsePatchV2TemplatesTemplateIDResponse),
    PostV2TemplatesTemplateIDBuildsBuildID |->
      Op(NewPostV2TemplatesTemplateIDBuildsBuildIDRequest,
         ParsePostV2TemplatesTemplateIDBuildsBuildIDResponse),
    PostV3Templates |->
      Op(NewPostV3TemplatesRequest,
         ParsePostV3TemplatesResponse),
    GetVolumes |-> Op(NewGetVolumesRequest, ParseGetVolumesResponse),
    PostVolumes |-> Op(NewPostVolumesRequest, ParsePostVolumesResponse),
    DeleteVolumesVolumeID |->
      Op(NewDeleteVolumesVolumeIDRequest,
         ParseDeleteVolumesVolumeIDResponse),
    GetVolumesVolumeID |->
      Op(NewGetVolumesVolumeIDRequest,
         ParseGetVolumesVolumeIDResponse) ]
=============================================================================
