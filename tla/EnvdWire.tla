------------------------------ MODULE EnvdWire ------------------------------
(***************************************************************************)
(* The generated client of envd's files API, pkg/envd/api/api.gen.go, in   *)
(* the form of ApiWire.                                                    *)
(***************************************************************************)
EXTENDS WireFormat

-----------------------------------------------------------------------------
\* Requests, in the order of the file.

NewPostCollapseRequest == Request("POST")
NewGetEnvsRequest == Request("GET")
NewGetFilesRequest ==
  Query("GET", {}, {"path", "username", "signature", "signature_expiration"})
NewPostFilesRequest ==
  StreamRequest("POST", {}, {"path", "username", "signature", "signature_expiration"})
NewPostFilesComposeRequest == JsonRequest("POST")
NewPostFreezeRequest == Query("POST", {}, {"mode", "maxCgroups", "maxWaitMs"})
NewPostFsfreezeRequest == Request("POST")
NewPostFsthawRequest == Request("POST")
NewGetHealthRequest == Request("GET")
NewPostInitRequest == JsonRequest("POST")
NewGetMetricsRequest == Request("GET")
NewPostUnfreezeRequest == Request("POST")

-----------------------------------------------------------------------------
\* Responses.

ParsePostCollapseResponse == Decodes({200, 500}, {}, {})
ParseGetEnvsResponse == Decodes({200}, {}, {})
ParseGetFilesResponse == Decodes({400, 401, 404, 406, 500}, {}, {})
ParsePostFilesResponse == Decodes({200, 400, 401, 500, 507}, {}, {})
ParsePostFilesComposeResponse ==
  Decodes({200, 400, 401, 404, 500, 507}, {}, {})
ParsePostFreezeResponse == Decodes({200, 500}, {204, 503}, {})
ParsePostFsfreezeResponse == Decodes({500}, {204, 503}, {})
ParsePostFsthawResponse == Decodes({500}, {204, 503}, {})
ParseGetHealthResponse == Decodes({}, {}, {})
ParsePostInitResponse == Decodes({}, {}, {})
ParseGetMetricsResponse == Decodes({200}, {}, {})
ParsePostUnfreezeResponse == Decodes({500}, {204, 503}, {})

-----------------------------------------------------------------------------
\* Every operation by name.
Operations ==
  [ PostCollapse |-> Op(NewPostCollapseRequest, ParsePostCollapseResponse),
    GetEnvs |-> Op(NewGetEnvsRequest, ParseGetEnvsResponse),
    GetFiles |-> Op(NewGetFilesRequest, ParseGetFilesResponse),
    PostFiles |-> Op(NewPostFilesRequest, ParsePostFilesResponse),
    PostFilesCompose |->
      Op(NewPostFilesComposeRequest,
         ParsePostFilesComposeResponse),
    PostFreeze |-> Op(NewPostFreezeRequest, ParsePostFreezeResponse),
    PostFsfreeze |-> Op(NewPostFsfreezeRequest, ParsePostFsfreezeResponse),
    PostFsthaw |-> Op(NewPostFsthawRequest, ParsePostFsthawResponse),
    GetHealth |-> Op(NewGetHealthRequest, ParseGetHealthResponse),
    PostInit |-> Op(NewPostInitRequest, ParsePostInitResponse),
    GetMetrics |-> Op(NewGetMetricsRequest, ParseGetMetricsResponse),
    PostUnfreeze |-> Op(NewPostUnfreezeRequest, ParsePostUnfreezeResponse) ]
=============================================================================
