---------------------------- MODULE TemplateBuild ----------------------------
(***************************************************************************)
(* template/build.go, Build: hash the files of every COPY step, register   *)
(* the template, upload the bundles the platform lacks, start the build,   *)
(* wait for it and publish the template.  The calls of Build follow one    *)
(* another; the files belong to the caller, who may edit them at any       *)
(* moment, and every request may fail, before or after it took effect.     *)
(*                                                                         *)
(* A file is its content.  A hash is the record of what hashFileContext    *)
(* hashes.  BuildPoll is the detail of the waiting.                        *)
(***************************************************************************)
EXTENDS Naturals, Sequences

CONSTANTS Sources,   \* the COPY sources: paths in the file context
          Dests,     \* the destinations
          Contents,  \* what a source may contain
          Missing,   \* the content of a source that is not there
          Run,       \* a step that copies nothing
          Programs,  \* the steps a builder may hold: sequences of steps
          Builds,    \* bound: calls of Build
          Edits      \* bound: edits of the files

Copy   == [src : Sources, dest : Dests]
NoHash == [copy |-> Run, content |-> Missing]
Hash   == [copy : Copy, content : Contents]

ASSUME MissingAssumption  == Missing \notin Contents
ASSUME RunAssumption      == Run \notin Copy
ASSUME ProgramsAssumption == Programs \subseteq Seq(Copy \cup {Run})
ASSUME BoundsAssumption   == Builds \in Nat /\ Edits \in Nat

VARIABLES
  files,     \* Sources -> what each contains now
  edits,     \* bound: edits so far
  at,        \* where Build is
  steps,     \* the builder's steps
  hashes,    \* the FilesHash of the steps handled so far
  seen,      \* uploadFiles: the hashes dealt with
  index,     \* uploadFiles: the step it is at
  payload,   \* uploadFiles: the bundle in memory
  publish,   \* BuildOptions.Publish
  info, err, \* what Build returns: whether there is a BuildInfo, an error
  calls,     \* bound: calls of Build so far
  \* the platform
  store,     \* the bundles it holds: hash -> content
  build,     \* this call's: "none", "allocated", "building", "ready", "error"
  inputs,    \* what the steps of the build copy, once it is started
  public,    \* the template was published by this call
  \* history
  before,    \* the files as they were when Build was called
  steady     \* no file ever changed between a call and the end of its uploads

caller   == <<files, edits>>
args     == <<steps, publish, calls, before>>
upload   == <<seen, index, payload>>
outcome  == <<info, err>>
platform == <<store, build, inputs, public>>
vars == <<files, edits, at, steps, hashes, seen, index, payload, publish, info,
          err, calls, store, build, inputs, public, before, steady>>

Init == /\ files \in [Sources -> Contents \cup {Missing}]
        /\ edits = 0 /\ calls = 0
        /\ at = "idle"
        /\ steps = <<>> /\ hashes = <<>>
        /\ seen = {} /\ index = 1 /\ payload = Missing
        /\ publish = FALSE /\ info = FALSE /\ err = FALSE
        /\ store = <<>>
        /\ build = "none" /\ inputs = <<>> /\ public = FALSE
        /\ before = files /\ steady = TRUE

-----------------------------------------------------------------------------
(* The caller.                                                              *)

Preparing == {"hash", "create", "upload", "pack", "put"}

Edit ==
  /\ edits < Edits
  /\ edits' = edits + 1
  /\ \E s \in Sources, c \in Contents \cup {Missing} :
       c # files[s] /\ files' = [files EXCEPT ![s] = c]
  /\ steady' = (steady /\ at \notin Preparing)
  /\ UNCHANGED <<at, args, hashes, upload, outcome, platform>>

\* A builder that met an error (a Dockerfile it could not read) is refused.
Call ==
  /\ at \in {"idle", "returned"}
  /\ calls < Builds
  /\ calls' = calls + 1
  /\ steps' \in Programs
  /\ publish' \in BOOLEAN
  /\ \/ at' = "hash" /\ err' = FALSE
     \/ at' = "returned" /\ err' = TRUE
  /\ info' = FALSE
  /\ hashes' = <<>> /\ seen' = {} /\ index' = 1 /\ payload' = Missing
  /\ build' = "none" /\ inputs' = <<>> /\ public' = FALSE
  /\ before' = files
  /\ UNCHANGED <<caller, store, steady>>

-----------------------------------------------------------------------------
(* Build.                                                                   *)

Goto(place) == at' = place /\ UNCHANGED outcome
\* Fails forgetting what was registered (a mutant).
FailWithoutInfo == at' = "returned" /\ err' = TRUE /\ info' = FALSE
Fail == at' = "returned" /\ err' = TRUE /\ UNCHANGED info

\* A hash of the paths alone (a mutant).
HashOfPaths(copy) == [copy |-> copy, content |-> CHOOSE c \in Contents : TRUE]
HashOf(copy) == [copy |-> copy, content |-> files[copy.src]]

\* prepareSteps, one step.
HashStep ==
  /\ at = "hash"
  /\ Len(hashes) < Len(steps)
  /\ LET step == steps[Len(hashes) + 1] IN
       \/ /\ step = Run
          /\ hashes' = Append(hashes, NoHash) /\ Goto("hash")
       \/ /\ step # Run /\ files[step.src] # Missing
          /\ hashes' = Append(hashes, HashOf(step)) /\ Goto("hash")
       \/ /\ step # Run /\ files[step.src] = Missing
          /\ UNCHANGED hashes /\ Fail
  /\ UNCHANGED <<caller, args, upload, platform, steady>>

Hashed ==
  /\ at = "hash" /\ Len(hashes) = Len(steps)
  /\ Goto("create")
  /\ UNCHANGED <<caller, args, hashes, upload, platform, steady>>

\* CreateV3.
Create ==
  /\ at = "create"
  /\ \/ at' = "upload" /\ info' = TRUE /\ build' = "allocated" /\ UNCHANGED err
     \/ Fail /\ build' \in {"none", "allocated"}
  /\ UNCHANGED <<caller, args, hashes, upload, store, inputs, public, steady>>

\* uploadFiles, one step at a time.  A step without files, or with a bundle
\* dealt with already, is passed over.
PassOver(hash) == hash = NoHash \/ hash \in seen

Skip ==
  /\ at = "upload" /\ index <= Len(steps)
  /\ PassOver(hashes[index])
  /\ index' = index + 1
  /\ UNCHANGED <<caller, at, args, hashes, seen, payload, outcome, platform, steady>>

\* FileUploadLink.
AskLink ==
  /\ at = "upload" /\ index <= Len(steps)
  /\ ~PassOver(hashes[index])
  /\ seen' = seen \cup {hashes[index]}
  /\ \/ Fail /\ UNCHANGED index
     \/ hashes[index] \in DOMAIN store /\ index' = index + 1 /\ Goto("upload")
     \/ hashes[index] \notin DOMAIN store /\ Goto("pack") /\ UNCHANGED index
  /\ UNCHANGED <<caller, args, hashes, payload, platform, steady>>

\* tarGzFileContext reads the files a second time.
Pack ==
  /\ at = "pack"
  /\ LET content == files[hashes[index].copy.src] IN
       \/ content = Missing /\ Fail /\ UNCHANGED payload
       \/ content # Missing /\ payload' = content /\ Goto("put")
  /\ UNCHANGED <<caller, args, hashes, seen, index, platform, steady>>

Stored == [h \in DOMAIN store \cup {hashes[index]} |->
             IF h = hashes[index] THEN payload ELSE store[h]]

\* putBundle with the storage's verdict not looked at (a mutant).
PutUnchecked ==
  /\ at = "put"
  /\ store' \in {store, Stored}
  /\ index' = index + 1 /\ Goto("upload")
  /\ UNCHANGED <<caller, args, hashes, seen, payload, build, inputs, public, steady>>

\* putBundle.
Put ==
  /\ at = "put"
  /\ \/ store' = Stored /\ index' = index + 1 /\ Goto("upload")
     \/ store' \in {store, Stored} /\ Fail /\ UNCHANGED index
  /\ UNCHANGED <<caller, args, hashes, seen, payload, build, inputs, public, steady>>

Uploaded ==
  /\ at = "upload" /\ index > Len(steps)
  /\ Goto("start")
  /\ UNCHANGED <<caller, args, hashes, upload, platform, steady>>

\* The platform copies the bundle it holds under the step's hash.
Bundle(hash) == IF hash \in DOMAIN store THEN store[hash] ELSE Missing

Started == /\ build' = "building"
           /\ inputs' = [i \in 1..Len(hashes) |-> Bundle(hashes[i])]

\* StartBuildV2.
Start ==
  /\ at = "start"
  /\ \/ Started /\ Goto("wait")
     \/ (Started \/ UNCHANGED <<build, inputs>>) /\ Fail
  /\ UNCHANGED <<caller, args, hashes, upload, store, public, steady>>

\* The platform builds.
Finish ==
  /\ build = "building"
  /\ build' \in {"ready", "error"}
  /\ UNCHANGED <<caller, at, args, hashes, upload, outcome, store, inputs, public, steady>>

\* WaitForBuild: it may be cut short by the context or a failed poll.
Wait ==
  /\ at = "wait"
  /\ \/ build = "ready" /\ Goto(IF publish THEN "publish" ELSE "returned")
     \/ build = "error" /\ Fail
     \/ Fail
  /\ UNCHANGED <<caller, args, hashes, upload, platform, steady>>

\* Publish.
Publish ==
  /\ at = "publish"
  /\ \/ public' = TRUE /\ Goto("returned")
     \/ public' \in {public, TRUE} /\ Fail
  /\ UNCHANGED <<caller, args, hashes, upload, store, build, inputs, steady>>

Next == \/ Edit \/ Call
        \/ HashStep \/ Hashed \/ Create
        \/ Skip \/ AskLink \/ Pack \/ Put \/ Uploaded
        \/ Start \/ Finish \/ Wait \/ Publish

Spec == Init /\ [][Next]_vars

-----------------------------------------------------------------------------
(* Properties.                                                              *)

Content == Contents \cup {Missing}

CallerOK ==
  /\ files \in [Sources -> Content] /\ before \in [Sources -> Content]
  /\ edits \in 0..Edits /\ calls \in 0..Builds
  /\ steps \in Seq(Copy \cup {Run}) /\ publish \in BOOLEAN /\ steady \in BOOLEAN
ClientOK ==
  /\ at \in {"idle", "start", "wait", "publish", "returned"} \cup Preparing
  /\ hashes \in Seq(Hash \cup {NoHash}) /\ seen \subseteq Hash
  /\ index \in Nat \ {0} /\ payload \in Content
  /\ info \in BOOLEAN /\ err \in BOOLEAN
PlatformOK ==
  /\ DOMAIN store \subseteq Hash /\ \A h \in DOMAIN store : store[h] \in Contents
  /\ build \in {"none", "allocated", "building", "ready", "error"}
  /\ inputs \in Seq(Content) /\ public \in BOOLEAN

\* The type invariant.
TypeOK == CallerOK /\ ClientOK /\ PlatformOK

Begun == build \in {"building", "ready", "error"}

\* A build that was started has every bundle its steps name: whatever fails
\* while the files are hashed and uploaded, the build is not started after it
\* (build.go:95-97, "Any COPY bundles must already be uploaded",
\* start_build_v2.go:12).
StartedWithItsBundles ==
  Begun => \A i \in 1..Len(steps) :
             steps[i] # Run => hashes[i].copy = steps[i] /\ hashes[i] \in DOMAIN store

\* As long as nobody edits the files under a Build, a build copies the files as
\* they were when it was called: a bundle left by an earlier build, of other
\* contents, is never taken for theirs (upload_files.go:119-123).
BuiltFromTheFiles ==
  Begun /\ steady =>
    \A i \in 1..Len(steps) : steps[i] # Run => inputs[i] = before[steps[i].src]

\* What Build returns: no error only for a build that is ready and, if that was
\* asked, published; and, with or without an error, the build's identifiers
\* once it may be running (build.go:57-61).  A template is made public only if
\* that was asked and its build succeeded (build.go:41), whatever fails.
TruthfulReturn ==
  /\ at = "returned" =>
       /\ ~err => build = "ready" /\ public = publish
       /\ Begun => info
  /\ public => publish /\ build = "ready"

=============================================================================
