------------------------------- MODULE MCCalls -------------------------------
(* Configurations that set up to two things, sandboxes of every age that    *)
(* has or has not a token of its own, their versions malformed or not.      *)
EXTENDS Calls

MCChina == {"cn-wlcb", "gray-1"}

One(base) ==
  {base, [base EXCEPT !.region = "us-1"],
   [base EXCEPT !.domain = Domain("standard", "gray-1")],
   [base EXCEPT !.domain = Domain("private", "corp")]}
MCConfigs ==
  {<<[c EXCEPT !.apiKey = "k1"], e>> : c \in One(Config), e \in One(Env)}
  \cup { <<Config, Env>>, <<Config, [Env EXCEPT !.apiKey = "k2"]>> }
  \cup {<<[c EXCEPT !.apiKey = "k1"], Env>> :
          c \in { [Config EXCEPT !.apiURL = "u1"],
                  [Config EXCEPT !.sandboxURL = "s1"],
                  [Config EXCEPT !.debug = TRUE],
                  [Config EXCEPT !.insecureHTTP = TRUE],
                  [Config EXCEPT !.retries = -2],
                  [Config EXCEPT !.retries = 0, !.requestTimeout = -1],
                  [Config EXCEPT !.http = TRUE],
                  [Config EXCEPT !.headers = {<<"X-API-Key", "k3">>,
                                              <<"X-Trace", "1">>}] }}

MCCreated ==
  {[id |-> "s1", domain |-> d, version |-> v, access |-> a, traffic |-> a] :
     d \in {NoDomain, Domain("word", "e2b"), Domain("standard", "us-1")},
     v \in {<<>>, <<0, 1, 3>>, <<0, 3, 1000>>, <<0, 4, 0>>, <<1, 0, 2>>,
            <<-1>>, <<0, 4, -1>>},
     a \in {"", "t1"}}
=============================================================================
