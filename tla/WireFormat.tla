----------------------------- MODULE WireFormat -----------------------------
(***************************************************************************)
(* What the two generated HTTP clients (ApiWire, EnvdWire) have in common: *)
(* the shape of a request, of an answer, and of a decoded response.        *)
(***************************************************************************)
EXTENDS Integers, FiniteSets

\* A request: its method, its body ("none"; "json", held in memory; "stream",
\* a reader of the caller's), and the query parameters it always has and those
\* it has when they are set.
WithQuery(method, body, required, optional) ==
  [method |-> method, body |-> body,
   required |-> required, optional |-> optional]
Request(method) == WithQuery(method, "none", {}, {})
JsonRequest(method) == WithQuery(method, "json", {}, {})
Query(method, required, optional) ==
  WithQuery(method, "none", required, optional)
StreamRequest(method, required, optional) ==
  WithQuery(method, "stream", required, optional)

\* The query parameters of a request for which the caller set "given".
Encoded(request, given) ==
  request.required \cup (request.optional \cap given)

\* A response decoder: the statuses whose JSON body has a field of its own,
\* those known to have no body, and those whose cursor header is read.
Decodes(json, bare, cursor) ==
  [json |-> json, bare |-> bare, cursor |-> cursor]

Op(request, parse) == [request |-> request, parse |-> parse]

-----------------------------------------------------------------------------

\* The server's answer: a status, whether its content type says JSON, whether
\* its body is what the specification describes, and whether X-Next-Token
\* carries a cursor. Status 0 stands for an answer that never arrived.
Answers(statuses) ==
  [status : statuses, json : BOOLEAN, good : BOOLEAN, cursor : BOOLEAN]
Lost == [status |-> 0, json |-> FALSE, good |-> FALSE, cursor |-> FALSE]

\* What a ...WithResponse method returns: an error, or a response in which at
\* most one JSONxxx field is filled ("field", 0 when none is).
Decode(parse, answer) ==
  LET known == answer.json /\ answer.status \in parse.json
  IN [err    |-> IF answer.status = 0 THEN "Transport"
                 ELSE IF known /\ ~answer.good THEN "Undecodable"
                 ELSE "none",
      field  |-> IF known /\ answer.good THEN answer.status ELSE 0,
      status |-> answer.status,
      cursor |-> answer.cursor]

\* A success the operation's specification describes.
Successes(parse) ==
  {s \in parse.json \cup parse.bare : s \in 200 .. 299}
=============================================================================
