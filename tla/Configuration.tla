---------------------------- MODULE Configuration ----------------------------
(***************************************************************************)
(* pkg/transport/config.go, domain.go, client.go: what a client is made    *)
(* of, from the caller's Config and the environment, and the addresses it  *)
(* uses.                                                                   *)
(*                                                                         *)
(* Strings are opaque, except that a domain is what the code can see of    *)
(* it: a sandbox domain of a region ("standard"), another domain           *)
(* ("private"), a name without a dot ("word"), or "". Addresses are        *)
(* sequences of their parts; trimming of blanks and slashes is left out.   *)
(***************************************************************************)
EXTENDS Errdefs, Sequences

CONSTANT China   \* the regions whose name begins like one in mainland China

ASSUME ChinaAssumption == "" \notin China

IsRegionCN(region) == region \in China
BaseImageForRegion(region) ==
  IF IsRegionCN(region) THEN "base_cn" ELSE "base"

DefaultRegion == "cn-wlcb"
Domain(kind, name) == [kind |-> kind, name |-> name]
NoDomain == Domain("", "")
DomainForRegion(region) == Domain("standard", region)
RegionFromDomain(domain) ==
  IF domain.kind = "standard" THEN domain.name ELSE ""

FirstNonEmpty(values) ==
  LET found == {i \in DOMAIN values : values[i] # ""}
  IN IF found = {} THEN ""
     ELSE values[CHOOSE i \in found : \A j \in found : i <= j]

-----------------------------------------------------------------------------
(* Config and the environment variables read when a field of it is empty.   *)
(* "retries" is -1 for nil; "http" says that the caller has an http.Client  *)
(* of its own.                                                              *)

Config == [apiKey |-> "", region |-> "", domain |-> NoDomain, apiURL |-> "",
           sandboxURL |-> "", headers |-> {}, requestTimeout |-> 0,
           retries |-> -1, insecureHTTP |-> FALSE, debug |-> FALSE,
           http |-> FALSE]
Env == [apiKey |-> "", region |-> "", domain |-> NoDomain, apiURL |-> "",
        sandboxURL |-> "", insecureHTTP |-> FALSE, debug |-> FALSE]

FallbackRegion(region, env) ==
  FirstNonEmpty(<<region, env.region, DefaultRegion>>)

\* As ResolveRegionDomain, the caller's region kept when there is a domain
\* (a mutant).
ResolveRegionDomainApart(region, domain, env) ==
  IF domain # NoDomain THEN <<FallbackRegion(region, env), domain>>
  ELSE IF region # "" THEN <<region, DomainForRegion(region)>>
  ELSE <<DefaultRegion, DomainForRegion(DefaultRegion)>>

ResolveRegionDomain(region, domain, env) ==
  LET Of(d, fallback) ==
        <<FirstNonEmpty(<<RegionFromDomain(d), fallback>>), d>>
  IN CASE domain # NoDomain -> Of(domain, FallbackRegion(region, env))
       [] domain = NoDomain /\ region # "" ->
            <<region, DomainForRegion(region)>>
       [] domain = NoDomain /\ region = "" /\ env.region # "" ->
            <<env.region, DomainForRegion(env.region)>>
       [] domain = NoDomain /\ region = "" /\ env.region = ""
          /\ env.domain # NoDomain -> Of(env.domain, DefaultRegion)
       [] OTHER -> <<DefaultRegion, DomainForRegion(DefaultRegion)>>

Scheme(r) == IF r.debug \/ r.insecureHTTP THEN "http" ELSE "https"

DefaultRetries == 3
DefaultRequestTimeout == 300   \* seconds

\* The http.Client every request goes through.
NewHTTPClient(config) ==
  IF config.http THEN [own |-> TRUE, retries |-> 0, timeout |-> 0]
  ELSE [own |-> FALSE,
        retries |-> IF config.retries = -1 THEN DefaultRetries
                    ELSE config.retries,
        timeout |-> IF config.requestTimeout <= 0 THEN DefaultRequestTimeout
                    ELSE config.requestTimeout]

\* transport.New over Config.resolve; a negative number of retries other than
\* -1, which stands for nil, is refused.
Resolve(config, env) ==
  LET key == FirstNonEmpty(<<config.apiKey, env.apiKey>>)
      regionDomain == ResolveRegionDomain(config.region, config.domain, env)
      url == FirstNonEmpty(<<config.apiURL, env.apiURL>>)
      debug == config.debug \/ env.debug
      insecureHTTP == config.insecureHTTP \/ env.insecureHTTP
      scheme == Scheme([debug |-> debug, insecureHTTP |-> insecureHTTP])
      r == [apiKey |-> key,
            region |-> regionDomain[1],
            domain |-> regionDomain[2],
            apiURL |-> IF url # "" THEN <<url>>
                       ELSE <<scheme, "api", regionDomain[2]>>,
            sandboxURL |-> FirstNonEmpty(<<config.sandboxURL, env.sandboxURL>>),
            headers |-> config.headers,
            debug |-> debug,
            insecureHTTP |-> insecureHTTP,
            http |-> NewHTTPClient(config)]
  IN IF key = "" \/ config.retries < -1 THEN Fail("InvalidArgument") ELSE Ok(r)

\* A header is its name and its value. As Authorize, the caller's set last (a
\* mutant).
AuthorizeFirst(client) ==
  client.headers
  \cup (IF \E h \in client.headers : h[1] = "X-API-Key" THEN {}
        ELSE {<<"X-API-Key", client.apiKey>>})

\* The headers of a request to the control plane.
Authorize(client) ==
  {h \in client.headers : h[1] # "X-API-Key"}
  \cup {<<"X-API-Key", client.apiKey>>}

-----------------------------------------------------------------------------
(* Addresses of sandboxes.                                                  *)

SandboxDomain(client, reported) ==
  IF reported.kind \in {"", "word"} THEN client.domain ELSE reported

SandboxHost(client, id, domain, port) ==
  IF client.debug THEN <<"localhost", port>>
  ELSE <<port, id, SandboxDomain(client, domain)>>

EnvdPort == "49983"
SandboxURL(client, id, domain) ==
  IF client.sandboxURL # "" THEN <<client.sandboxURL>>
  ELSE <<Scheme(client)>> \o SandboxHost(client, id, domain, EnvdPort)
=============================================================================
