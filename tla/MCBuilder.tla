------------------------------ MODULE MCBuilder ------------------------------
(* Every method with one or two arguments of its kind, and Dockerfiles of a *)
(* FROM and one more line out of every kind of line there is, alone and     *)
(* after a user and a variable.                                             *)
EXTENDS Builder

Made(op, args) == [op |-> op, args |-> args]
File(name, args, chown) == [name |-> name, args |-> args, chown |-> chown]

Lines ==
  { File("RUN", <<"c1">>, ""), File("RUN", <<>>, ""),
    File("COPY", <<"s1", "s2", "d">>, ""), File("COPY", <<"s1", "d">>, "u1"),
    File("COPY", <<"s1">>, ""), File("ADD", <<"s1", "d">>, ""),
    File("ENV", <<"k", "v", "=">>, ""), File("ENV", <<"k", "w", "">>, ""),
    File("ENV", <<"k", "v", "=", "l", "v", "=">>, ""),
    File("ENV", <<"k", "v", "=", "l">>, ""),
    File("ENV", <<"k", "v", "=", "k", "w", "=">>, ""),
    File("ENV", <<"k", "v w", "">>, ""),
    File("ARG", <<"", "1", "=">>, ""),
    File("ARG", <<"a", "", "", "b", "1", "=">>, ""),
    File("ARG", <<"a", "", "=">>, ""),
    File("WORKDIR", <<"w">>, ""),
    File("USER", <<"u1">>, ""), File("ENTRYPOINT", <<"e">>, ""),
    File("CMD", <<"c2">>, ""), File("EXPOSE", <<"80">>, ""),
    File("FROM", <<"i2">>, "") }
From(args) == File("FROM", args, "")
Dockerfiles ==
  { <<File("RUN", <<"c1">>, "")>>, <<From(<<"base">>)>>,
    <<From(<<"i1", "AS", "x">>)>>, <<From(<<"i1", "i2">>)>> }
  \cup {<<From(<<"i1">>), l>> : l \in Lines}
  \cup {<<From(<<"i1">>), File("USER", <<"u2">>, ""),
           File("ENV", <<"k", "w">>, ""), l>> : l \in Lines}

\* A value of two words, one with an assignment, and one of two lines.
MCBroken ==
  [value \in {"v w", "v l=w", "c\nmore"} |->
     CASE value = "v w" ->
            [line |-> value, words |-> <<"v", "w">>,
             env |-> <<"v", "=", "w", "", "">>, more |-> <<>>]
       [] value = "v l=w" ->
            [line |-> value, words |-> <<"v", "l=w">>,
             env |-> <<"v", "=", "l", "w", "=">>, more |-> <<>>]
       [] OTHER ->
            [line |-> "c", words |-> <<"c">>, env |-> <<"c", "=">>,
             more |-> <<File("MORE", <<>>, "")>>]]

MCChains ==
  { Made("FromImage", <<"base", "">>), Made("FromImage", <<"i2", "r1">>),
    Made("FromBaseImage", <<>>), Made("FromTemplate", <<"t1">>),
    Made("RunCmd", <<"c1">>), Made("RunCmdAsUser", <<"c2", "u1">>),
    Made("RunCmdAsUser", <<"c2", "">>), Made("Copy", <<"s1", "d">>),
    Made("SetEnvs", <<<<>>>>), Made("SetEnvs", <<("k" :> "v")>>),
    Made("SetWorkdir", <<"w">>), Made("SetUser", <<"u2">>),
    Made("SkipCache", <<>>), Made("SetStartCmd", <<"e", "ready">>),
    Made("Build", <<"r2">>),
    Made("FromImage", <<"", "">>), Made("SetEnvs", <<("" :> "v")>>),
    Made("Copy", <<"", "d">>), Made("Copy", <<"v w", "d">>),
    Made("RunCmd", <<"v w">>), Made("RunCmd", <<"c\nmore">>),
    Made("SetEnvs", <<("k" :> "v l=w")>>),
    Made("SetEnvs", <<("k" :> "v w")>>) }
  \cup {Made("FromDockerfile", f) : f \in Dockerfiles}
=============================================================================
