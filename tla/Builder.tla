------------------------------- MODULE Builder -------------------------------
(***************************************************************************)
(* pkg/template/builder.go, builder_serialize.go, builder_dockerfile.go:   *)
(* the description of a template, made by a chain of calls or read from a  *)
(* Dockerfile, and rendered as a build request or as a Dockerfile.         *)
(*                                                                         *)
(* The state is the builder and, as history, the calls made on it; what    *)
(* the calls mean is defined a second time, from the calls alone, to       *)
(* compare with.  Strings are opaque, except that some are printed as what  *)
(* is read back as something else (Broken).  A Dockerfile is what buildkit's*)
(* parser makes of it: a sequence of lines [name, args, chown]; the flags   *)
(* other than --chown and the heredocs of a line, which the code leaves out *)
(* without a word, are not there.  The keys of an ENV step, which the code  *)
(* sorts, are a function here.                                              *)
(***************************************************************************)
EXTENDS Integers, Sequences, SequencesExt, FiniteSets, TLC

CONSTANTS BaseImage,    \* BaseImageForRegion of the builder's region
          BaseOption,   \* BuilderOptions.BaseImage, "" for none
          Broken,       \* how buildkit reads the strings that do not read back
          Chains,       \* the calls a caller may make
          MaxCalls      \* bound: calls made

\* The methods, and what a Dockerfile may be. The words of a FROM line are what
\* is between blanks, so that none is empty.
Methods == {"FromImage", "FromBaseImage", "FromTemplate", "RunCmd",
            "RunCmdAsUser", "Copy", "SetEnvs", "SetWorkdir", "SetUser",
            "SkipCache", "SetStartCmd", "FromDockerfile", "Build"}
Dockerfile == Seq([name : STRING, args : Seq(STRING), chown : STRING])
FromNamesImage(lines) ==
  \A i \in DOMAIN lines : lines[i].name = "FROM" /\ lines[i].args # <<>> =>
                             lines[i].args[1] # ""

\* A map of variables.
IsEnvs(envs) == /\ envs = [k \in DOMAIN envs |-> envs[k]]
                /\ IsFiniteSet(DOMAIN envs)

ASSUME BaseImageAssumption == BaseImage # ""

\* A string with blanks or line breaks in it, printed as it is: the line it is
\* the rest of, its words where blanks part them, what an ENV line is read as
\* after the key it is the value of, and the lines its line breaks start, on
\* which whatever follows it is lost. These are not instructions (one that is,
\* a string that ends in a backslash and a JSON array are left out; so are
\* keys of variables that do not read back).
ASSUME BrokenAssumption ==
  \A value \in DOMAIN Broken :
    /\ DOMAIN Broken[value] = {"line", "words", "env", "more"}
    /\ \A i \in DOMAIN Broken[value].more :
         Broken[value].more[i].name \notin
           {"FROM", "RUN", "COPY", "ADD", "ENV", "ARG", "WORKDIR", "USER",
            "ENTRYPOINT", "CMD"}
ASSUME MaxCallsAssumption == MaxCalls \in Nat
ASSUME ChainsAssumption ==
  \A call \in Chains :
    /\ call.op \in Methods
    /\ call.op = "FromDockerfile" =>
         call.args \in Dockerfile /\ FromNamesImage(call.args)
    /\ call.op = "SetEnvs" => IsEnvs(call.args[1])

VARIABLES b,        \* the Builder
          script    \* history: the calls, in order

vars == <<b, script>>

Instruction(type, args) == [type |-> type, args |-> args, force |-> FALSE]

\* New, with the file context left out.
New(option) == [baseImage |-> IF option = "" THEN BaseImage ELSE option,
                baseTemplate |-> "", registry |-> "",
                startCmd |-> "", readyCmd |-> "", force |-> FALSE,
                forceNextLayer |-> FALSE, instructions |-> <<>>]

-----------------------------------------------------------------------------
(* The methods.                                                             *)

\* As FromImageWithAuth, a SkipCache before it forgotten (a mutant).
FromImageUnforced(builder, image, auth) ==
  [builder EXCEPT !.baseImage = image, !.baseTemplate = "",
                  !.registry = auth]

\* As FromImageWithAuth, keeping the credentials of the image before it when
\* it is given none (a mutant).
FromImageKeepingAuth(builder, image, auth) ==
  [builder EXCEPT !.baseImage = image, !.baseTemplate = "",
                  !.registry = IF auth = "" THEN @ ELSE auth,
                  !.force = @ \/ builder.forceNextLayer]

FromImageWithAuth(builder, image, auth) ==
  [builder EXCEPT !.baseImage = image, !.baseTemplate = "",
                  !.registry = auth,
                  !.force = @ \/ builder.forceNextLayer]
FromBaseImage(builder) == FromImageWithAuth(builder, BaseImage, "")

FromTemplate(builder, template) ==
  [builder EXCEPT !.baseTemplate = template, !.baseImage = "",
                  !.registry = "",
                  !.force = @ \/ builder.forceNextLayer]

\* As AddInstruction, the flag left set (a mutant).
AddInstructionSticky(builder, instruction) ==
  [builder EXCEPT
     !.instructions = Append(@, [instruction EXCEPT
                                   !.force = builder.forceNextLayer])]

AddInstruction(builder, instruction) ==
  [builder EXCEPT
     !.instructions = Append(@, [instruction EXCEPT
                                   !.force = builder.forceNextLayer]),
     !.forceNextLayer = FALSE]

RunCmd(builder, command) ==
  AddInstruction(builder, Instruction("RUN", <<command>>))
RunCmdAsUser(builder, command, user) ==
  AddInstruction(builder, Instruction("RUN",
    IF user = "" THEN <<command>> ELSE <<command, user>>))
Copy(builder, src, dest) ==
  AddInstruction(builder, Instruction("COPY", <<src, dest>>))
SetEnvs(builder, envs) ==
  IF DOMAIN envs = {} THEN builder
  ELSE AddInstruction(builder, Instruction("ENV", <<envs>>))
SetWorkdir(builder, dir) ==
  AddInstruction(builder, Instruction("WORKDIR", <<dir>>))
SetUser(builder, user) ==
  AddInstruction(builder, Instruction("USER", <<user>>))
SkipCache(builder) == [builder EXCEPT !.forceNextLayer = TRUE]
SetStartCmd(builder, start, ready) ==
  [builder EXCEPT !.startCmd = start, !.readyCmd = ready]

\* Build with BuildOptions.Registry: it stays in the builder.
UseRegistry(builder, auth) ==
  IF auth = "" THEN builder ELSE [builder EXCEPT !.registry = auth]

-----------------------------------------------------------------------------
(* A build request.                                                         *)

Buildable == {"COPY", "ADD", "RUN", "USER", "WORKDIR", "ENV", "ARG"}

\* The instructions kept of the first ones.
Kept(instructions) ==
  LET kept[i \in 0 .. Len(instructions)] ==
        IF i = 0 THEN <<>>
        ELSE IF instructions[i].type \in Buildable
             THEN Append(kept[i - 1], instructions[i])
             ELSE kept[i - 1]
  IN kept
Steps(builder) == Kept(builder.instructions)[Len(builder.instructions)]

Serialize(builder, steps, force) ==
  [fromImage |-> builder.baseImage, fromTemplate |-> builder.baseTemplate,
   startCmd |-> builder.startCmd, readyCmd |-> builder.readyCmd,
   force |-> force \/ builder.force, registry |-> builder.registry,
   steps |-> steps]

ToJSON(builder) == Serialize(builder, Steps(builder), FALSE)

-----------------------------------------------------------------------------
(* A Dockerfile.                                                            *)

Line(name, args) == [name |-> name, args |-> args, chown |-> ""]

\* A word between others on a line: an empty one is not there when it is read.
Word(word) == IF word = "" THEN <<>> ELSE <<word>>

\* What is read where a value has been printed.
Shown(value) ==
  IF value \in DOMAIN Broken THEN Broken[value]
  ELSE [line |-> value, words |-> Word(value), env |-> <<value, "=">>,
        more |-> <<>>]

\* A value as all of a line, and values as the words of one.
WholeLine(name, value) ==
  <<Line(name, Word(Shown(value).line))>> \o Shown(value).more
OneWord(name, value) ==
  <<Line(name, Shown(value).words)>> \o Shown(value).more
TwoWords(name, one, other) ==
  <<Line(name, Shown(one).words
                 \o IF Shown(one).more = <<>> THEN Shown(other).words
                    ELSE <<>>)>>
  \o Shown(one).more \o Shown(other).more

\* A map as the ENV line "k=v ...", which the parser reads as triples, after
\* each variable.
Printing(envs, keys) ==
  LET printed[i \in 0 .. Len(keys)] ==
        IF i = 0 THEN [args |-> <<>>, more |-> <<>>]
        ELSE IF printed[i - 1].more # <<>> THEN printed[i - 1]
        ELSE [args |-> printed[i - 1].args \o <<keys[i]>>
                         \o Shown(envs[keys[i]]).env,
              more |-> Shown(envs[keys[i]]).more]
  IN printed
EnvLine(envs) ==
  LET keys == SetToSeq(DOMAIN envs)
      printed == Printing(envs, keys)[Len(keys)]
  IN <<Line("ENV", printed.args)>> \o printed.more

\* The lines an instruction is rendered as. No instruction of a builder has
\* another type: ADD is read as COPY.
Rendered(inst) ==
  CASE inst.type = "RUN" ->
         (IF Len(inst.args) > 1 THEN WholeLine("USER", inst.args[2])
          ELSE <<>>) \o WholeLine("RUN", inst.args[1])
    [] inst.type = "COPY" -> TwoWords("COPY", inst.args[1], inst.args[2])
    [] inst.type = "ENV" -> EnvLine(inst.args[1])
    [] inst.type = "ARG" ->
         <<Line("ARG", IF Len(inst.args) > 1
                       THEN <<inst.args[1], inst.args[2], "=">>
                       ELSE <<inst.args[1], "", "">>)>>
    [] inst.type \in {"WORKDIR", "USER"} -> WholeLine(inst.type, inst.args[1])

\* The lines written after each instruction.
Writing(instructions) ==
  LET written[i \in 0 .. Len(instructions)] ==
        IF i = 0 THEN <<>> ELSE written[i - 1] \o Rendered(instructions[i])
  IN written
Written(builder) == Writing(builder.instructions)[Len(builder.instructions)]

\* As ToDockerfile, the start command left out (a mutant).
ToDockerfileWithoutStart(builder) ==
  IF builder.baseTemplate # "" \/ builder.baseImage = ""
  THEN [ok |-> FALSE, lines |-> <<>>]
  ELSE [ok |-> TRUE,
        lines |-> OneWord("FROM", builder.baseImage) \o Written(builder)]

ToDockerfile(builder) ==
  IF builder.baseTemplate # "" \/ builder.baseImage = ""
  THEN [ok |-> FALSE, lines |-> <<>>]
  ELSE [ok |-> TRUE,
        lines |-> OneWord("FROM", builder.baseImage) \o Written(builder)
                  \o (IF builder.startCmd = "" THEN <<>>
                      ELSE WholeLine("ENTRYPOINT", builder.startCmd))]

\* dockerfileEnvArgs: the map an ENV line sets, or no map.
EnvArgs(args) ==
  LET pair == [k \in {args[1]} |-> args[2]]
      n == Len(args) \div 3
      Key(i) == args[3 * i - 2]
      LastAt(k) == CHOOSE i \in 1 .. n :
                     Key(i) = k /\ \A j \in i + 1 .. n : Key(j) # k
  IN IF Len(args) = 2 \/ (Len(args) = 3 /\ args[3] = "") THEN {pair}
     ELSE IF Len(args) % 3 # 0
             \/ \E i \in 1 .. n : Key(i) = "" \/ args[3 * i] # "=" THEN {}
     ELSE {[k \in {Key(i) : i \in 1 .. n} |->
              args[3 * LastAt(k) - 1]]}

\* The parse so far: the builder, whether there has been a FROM, an error.
Reading == [builder |-> New(""), seenFrom |-> FALSE, ok |-> TRUE]
Read(s, builder) == [s EXCEPT !.builder = builder]
Refuse(s) == [s EXCEPT !.ok = FALSE]

ReadFrom(s, line) ==
  IF s.seenFrom \/ ~(\/ Len(line.args) = 1
                     \/ Len(line.args) = 3 /\ line.args[2] = "AS")
  THEN Refuse(s)
  ELSE [s EXCEPT !.seenFrom = TRUE,
                 !.builder = IF line.args[1] = "base" THEN FromBaseImage(@)
                             ELSE FromImageWithAuth(@, line.args[1], "")]

\* The builder after each instruction of a list, all of one type.
Added(builder, type, list) ==
  LET added[i \in 0 .. Len(list)] ==
        IF i = 0 THEN builder
        ELSE AddInstruction(added[i - 1], Instruction(type, list[i]))
  IN added
AddEach(builder, type, list) == Added(builder, type, list)[Len(list)]

\* The arguments of a copy from the source that is named at i.
CopyFrom(line, i) ==
  <<line.args[i], line.args[Len(line.args)]>>
  \o IF line.chown = "" THEN <<>> ELSE <<line.chown>>

\* As ReadCopy, the first source only (a mutant).
ReadCopyFirst(s, line) ==
  IF Len(line.args) < 2 THEN Refuse(s)
  ELSE Read(s, AddEach(s.builder, "COPY", <<CopyFrom(line, 1)>>))

\* COPY and ADD, one step for each source.
ReadCopy(s, line) ==
  IF Len(line.args) < 2 THEN Refuse(s)
  ELSE Read(s, AddEach(s.builder, "COPY",
                 [i \in 1 .. Len(line.args) - 1 |-> CopyFrom(line, i)]))

ReadEnv(s, line) ==
  IF Len(line.args) < 2 \/ EnvArgs(line.args) = {} THEN Refuse(s)
  ELSE Read(s, SetEnvs(s.builder, CHOOSE envs \in EnvArgs(line.args) : TRUE))

\* The arguments of an ARG are triples of a key, a value and "=", or "" for a
\* key alone.
Assignments(args) ==
  [i \in 1 .. Len(args) \div 3 |->
     <<args[3 * i - 2]>>
     \o IF args[3 * i] = "" THEN <<>> ELSE <<args[3 * i - 1]>>]
ReadArg(s, line) ==
  LET assigned == Assignments(line.args) IN
  IF assigned = <<>> \/ \E i \in DOMAIN assigned : assigned[i][1] = ""
  THEN Refuse(s)
  ELSE Read(s, AddEach(s.builder, "ARG", assigned))

\* The lines that take one argument, or a command joined into one.
Single == {"RUN", "WORKDIR", "USER", "ENTRYPOINT", "CMD"}
ReadOne(s, line) ==
  LET arg == line.args[1] IN
  IF line.args = <<>> THEN Refuse(s)
  ELSE Read(s, CASE line.name = "RUN" -> RunCmd(s.builder, arg)
                 [] line.name = "WORKDIR" -> SetWorkdir(s.builder, arg)
                 [] line.name = "USER" -> SetUser(s.builder, arg)
                 [] OTHER -> SetStartCmd(s.builder, arg, ""))

ReadLine(s, line) ==
  CASE ~s.ok -> s
    [] s.ok /\ line.name = "FROM" -> ReadFrom(s, line)
    [] s.ok /\ line.name \in Single -> ReadOne(s, line)
    [] s.ok /\ line.name \in {"COPY", "ADD"} -> ReadCopy(s, line)
    [] s.ok /\ line.name = "ENV" -> ReadEnv(s, line)
    [] s.ok /\ line.name = "ARG" -> ReadArg(s, line)
    [] OTHER -> s

\* The parse after each line.
Readings(lines) ==
  LET reading[i \in 0 .. Len(lines)] ==
        IF i = 0 THEN Reading ELSE ReadLine(reading[i - 1], lines[i])
  IN reading

\* parseDockerfile
Parse(lines) ==
  LET end == Readings(lines)[Len(lines)]
  IN [end EXCEPT !.ok = @ /\ end.seenFrom]

\* FromDockerfile: the builder's own flags survive, and all of it when the
\* Dockerfile is not accepted.
FromDockerfile(builder, lines) ==
  IF ~Parse(lines).ok THEN builder
  ELSE [Parse(lines).builder EXCEPT
          !.force = builder.force,
          !.forceNextLayer = builder.forceNextLayer]

-----------------------------------------------------------------------------

\* A call: its method and its arguments, those it does not take empty.
Apply(builder, call) ==
  CASE call.op = "FromImage" ->
         FromImageWithAuth(builder, call.args[1], call.args[2])
    [] call.op = "FromBaseImage" -> FromBaseImage(builder)
    [] call.op = "FromTemplate" -> FromTemplate(builder, call.args[1])
    [] call.op = "RunCmd" -> RunCmd(builder, call.args[1])
    [] call.op = "RunCmdAsUser" ->
         RunCmdAsUser(builder, call.args[1], call.args[2])
    [] call.op = "Copy" -> Copy(builder, call.args[1], call.args[2])
    [] call.op = "SetEnvs" -> SetEnvs(builder, call.args[1])
    [] call.op = "SetWorkdir" -> SetWorkdir(builder, call.args[1])
    [] call.op = "SetUser" -> SetUser(builder, call.args[1])
    [] call.op = "SkipCache" -> SkipCache(builder)
    [] call.op = "SetStartCmd" ->
         SetStartCmd(builder, call.args[1], call.args[2])
    [] call.op = "FromDockerfile" -> FromDockerfile(builder, call.args)
    [] call.op = "Build" -> UseRegistry(builder, call.args[1])

Init == b = New(BaseOption) /\ script = <<>>

Call(call) ==
  /\ Len(script) < MaxCalls
  /\ b' = Apply(b, call)
  /\ script' = Append(script, call)

Next == \E call \in Chains : Call(call)

Spec == Init /\ [][Next]_vars

-----------------------------------------------------------------------------

\* The positions in the script of the calls that add a step, and of the last
\* Dockerfile read, 0 for none.
AddsStep(call) ==
  \/ call.op \in {"RunCmd", "RunCmdAsUser", "Copy", "SetWorkdir", "SetUser"}
  \/ call.op = "SetEnvs" /\ DOMAIN call.args[1] # {}
Adding == {i \in DOMAIN script : AddsStep(script[i])}
ReadsFile(call) == call.op = "FromDockerfile" /\ Parse(call.args).ok
LatestOf(S) == IF S = {} THEN 0 ELSE CHOOSE i \in S : \A j \in S : j <= i
FileRead == LatestOf({i \in DOMAIN script : ReadsFile(script[i])})

\* SkipCache forces the step the next call adds and no other: in the request a
\* step is forced exactly when SkipCache was called after the call that added
\* the step before it. A From call in between does not use it up, and has the
\* whole build forced as well, which nothing takes back; nothing else does.
\* Steps read from a Dockerfile are never forced, nor is a build by the FROM of
\* one, and they do not use a SkipCache up.
Own == {i \in Adding : i > FileRead}
Rank(i) == Cardinality({j \in Own : j <= i})
Forces(i) == \E skip \in DOMAIN script :
               /\ script[skip].op = "SkipCache" /\ skip < i
               /\ \A j \in Adding : j < i => j < skip
CallsFrom(call) == call.op \in {"FromImage", "FromBaseImage", "FromTemplate"}
ForcedAsAsked ==
  LET body == ToJSON(b)
      read == Len(body.steps) - Cardinality(Own)
  IN /\ \A k \in 1 .. read : ~body.steps[k].force
     /\ \A i \in Own : body.steps[read + Rank(i)].force <=> Forces(i)
     /\ body.force <=> \E i \in DOMAIN script : CallsFrom(script[i]) /\ Forces(i)

\* A template starts from what the last call to say so said: the image it
\* named, or the template it named and no image; and with no such call from the
\* image in the options, else the platform's. (A Dockerfile is accepted with
\* one FROM line, and it is that which counts.) The credentials in the request
\* are ones given for that base, with it or to a Build since: credentials never
\* outlive their image.
Names(line) == IF line.args[1] = "base" THEN BaseImage ELSE line.args[1]
Says(call, image, template) ==
  CASE call.op = "FromImage" -> image = call.args[1] /\ template = ""
    [] call.op = "FromBaseImage" -> image = BaseImage /\ template = ""
    [] call.op = "FromTemplate" -> image = "" /\ template = call.args[1]
    [] call.op = "FromDockerfile" ->
         /\ \E i \in DOMAIN call.args :
              call.args[i].name = "FROM" /\ image = Names(call.args[i])
         /\ template = ""
SetsBase(call) == CallsFrom(call) \/ ReadsFile(call)
BaseCall == LatestOf({i \in DOMAIN script : SetsBase(script[i])})
BaseAsAsked ==
  LET body == ToJSON(b)
  IN /\ BaseCall = 0 =>
          /\ body.fromImage = IF BaseOption = "" THEN BaseImage ELSE BaseOption
          /\ body.fromTemplate = ""
     /\ BaseCall # 0 => Says(script[BaseCall], body.fromImage, body.fromTemplate)
     /\ body.registry # "" =>
          \E i \in DOMAIN script :
            /\ i >= BaseCall
            /\ \/ script[i].op = "Build" /\ script[i].args[1] = body.registry
               \/ script[i].op = "FromImage"
                  /\ script[i].args[2] = body.registry

\* What is executed: each command and copy with the user, directory and
\* variables in force at that point, and the command a sandbox starts with.
Stage == [done |-> <<>>, user |-> "", dir |-> "", envs |-> <<>>, start |-> ""]
Does(stage, what, user) ==
  [stage EXCEPT !.done = Append(@, <<what, user, stage.dir, stage.envs>>)]

Over(envs, others) == [k \in DOMAIN envs \cup DOMAIN others |->
                         IF k \in DOMAIN envs THEN envs[k] ELSE others[k]]

\* ... by the steps of a builder, as the platform runs them ...
StepDoes(stage, inst) ==
  CASE inst.type = "RUN" ->
         Does(stage, inst.args[1],
              IF Len(inst.args) > 1 THEN inst.args[2] ELSE stage.user)
    [] inst.type = "COPY" -> Does(stage, <<inst.args[1], inst.args[2]>>,
                                  IF Len(inst.args) > 2 THEN inst.args[3]
                                  ELSE "")
    [] inst.type = "ENV" -> [stage EXCEPT !.envs = Over(inst.args[1], @)]
    [] inst.type = "WORKDIR" -> [stage EXCEPT !.dir = inst.args[1]]
    [] inst.type = "USER" -> [stage EXCEPT !.user = inst.args[1]]
    [] OTHER -> Does(stage, <<inst.type, inst.args>>, "")  \* ARG
Doing(steps) ==
  LET stage[i \in 0 .. Len(steps)] ==
        IF i = 0 THEN Stage ELSE StepDoes(stage[i - 1], steps[i])
  IN stage
Effect(builder) ==
  [Doing(Steps(builder))[Len(Steps(builder))] EXCEPT
     !.start = builder.startCmd]

\* ... and by a Dockerfile, as docker build runs it. (ENTRYPOINT and CMD are
\* taken as what they are in a file that has one of the two.)
DoesEach(stage, whats, user) ==
  [stage EXCEPT !.done = @ \o [i \in 1 .. Len(whats) |->
                                 <<whats[i], user, stage.dir, stage.envs>>]]
Pairs(args) == IF Len(args) = 2 THEN 1 ELSE Len(args) \div 3
Setting(args, envs) ==
  LET set[i \in 0 .. Pairs(args)] ==
        IF i = 0 THEN envs
        ELSE Over([k \in {args[3 * i - 2]} |-> args[3 * i - 1]], set[i - 1])
  IN set
LineDoes(stage, line) ==
  LET n == Len(line.args) IN
  CASE line.name = "RUN" -> Does(stage, line.args[1], stage.user)
    [] line.name \in {"COPY", "ADD"} ->
         DoesEach(stage,
                  [i \in 1 .. n - 1 |-> <<line.args[i], line.args[n]>>],
                  line.chown)
    [] line.name = "ENV" ->
         [stage EXCEPT !.envs =
            Setting(line.args, @)[Pairs(line.args)]]
    [] line.name = "WORKDIR" -> [stage EXCEPT !.dir = line.args[1]]
    [] line.name = "USER" -> [stage EXCEPT !.user = line.args[1]]
    [] line.name = "ARG" ->
         DoesEach(stage, [i \in DOMAIN Assignments(line.args) |->
                            <<"ARG", Assignments(line.args)[i]>>], "")
    [] line.name \in {"ENTRYPOINT", "CMD"} ->
         [stage EXCEPT !.start = line.args[1]]
    [] OTHER -> stage
Saying(lines) ==
  LET stage[i \in 0 .. Len(lines)] ==
        IF i = 0 THEN Stage ELSE LineDoes(stage[i - 1], lines[i])
  IN stage
Meaning(lines) == Saying(lines)[Len(lines)]

\* A builder read from a Dockerfile does what the Dockerfile says.
DockerfileRead ==
  script # <<>> /\ ReadsFile(script[Len(script)]) =>
    Effect(b) = Meaning(script[Len(script)].args)

\* A builder can be rendered as a Dockerfile exactly if the last call to say what
\* it starts from named an image. If every value reads back where it is printed
\* (a command may have blanks, but no line breaks; a path or the value of a
\* variable has neither), the Dockerfile is one that is accepted exactly if
\* nothing that a line must have is empty, and then it does what the builder
\* does, unless a step has a user of its own: RunCmdAsUser is rendered as a USER
\* line that stays in force for the rest, and the owner of a COPY is not
\* rendered. It starts from the same image, but that "base" names the
\* platform's there.
IsOneLine(value) == Shown(value).line = value /\ Shown(value).more = <<>>
IsOneWord(value) == Shown(value).words = Word(value) /\ Shown(value).more = <<>>
IsOneValue(value) ==
  Shown(value).env = <<value, "=">> /\ Shown(value).more = <<>>
Verbatim(inst) ==
  /\ inst.type \in {"RUN", "WORKDIR", "USER"} => IsOneLine(inst.args[1])
  /\ inst.type = "COPY" => IsOneWord(inst.args[1]) /\ IsOneWord(inst.args[2])
  /\ inst.type = "ENV" =>
       \A key \in DOMAIN inst.args[1] : IsOneValue(inst.args[1][key])
IsVerbatim(builder) ==
  /\ IsOneWord(builder.baseImage)
  /\ IsOneLine(builder.startCmd)
  /\ \A i \in DOMAIN builder.instructions : Verbatim(builder.instructions[i])
HasOwnUser(builder) ==
  \E i \in DOMAIN builder.instructions :
    LET inst == builder.instructions[i] IN
    Len(inst.args) > (IF inst.type = "RUN" THEN 1 ELSE 2)
Blank(inst) ==
  \/ inst.type \in {"RUN", "COPY", "WORKDIR", "USER"} /\ inst.args[1] = ""
  \/ inst.type = "COPY" /\ inst.args[2] = ""
  \/ inst.type = "ENV" /\ "" \in DOMAIN inst.args[1]
HasBlank(builder) ==
  \E i \in DOMAIN builder.instructions : Blank(builder.instructions[i])
NamesImage(call) == \/ call.op \in {"FromBaseImage", "FromDockerfile"}
                    \/ call.op = "FromImage" /\ call.args[1] # ""
DockerfileWritten ==
  LET file == ToDockerfile(b)
      read == Parse(file.lines)
  IN /\ file.ok <=> BaseCall = 0 \/ NamesImage(script[BaseCall])
     /\ file.ok /\ ~HasOwnUser(b) /\ IsVerbatim(b) =>
          /\ read.ok <=> ~HasBlank(b)
          /\ read.ok =>
               /\ Meaning(file.lines) = Effect(b)
               /\ read.builder.baseImage =
                    IF b.baseImage = "base" THEN BaseImage ELSE b.baseImage
=============================================================================
