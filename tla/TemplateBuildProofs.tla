------------------------- MODULE TemplateBuildProofs -------------------------
(* The theorems about TemplateBuild, for any files, contents, builders, calls  *)
(* and edits, and about BuildPoll, the wait it ends with.                      *)
EXTENDS TemplateBuild, BuildPoll, SequenceTheorems, TLAPS

\* Where every step has been handled by prepareSteps, where uploadFiles is.
Prepared  == {"create", "upload", "pack", "put", "start", "wait", "publish"}
Uploading == {"upload", "pack", "put"}

\* hashes[i] is the hash of steps[i].
HashFits(i) == \/ steps[i] = Run /\ hashes[i] = NoHash
               \/ steps[i] # Run /\ hashes[i] \in Hash /\ hashes[i].copy = steps[i]

Held(i) == hashes[i] = NoHash \/ hashes[i] \in DOMAIN store

HashesInv ==
  /\ Len(hashes) <= Len(steps)
  /\ \A i \in 1..Len(hashes) : HashFits(i)
  /\ at \in Prepared \/ Begun => Len(hashes) = Len(steps)
  /\ at \in {"pack", "put"} => index <= Len(steps) /\ hashes[index] \in Hash
  /\ at = "put" => payload \in Contents

ShapeInv == TypeOK /\ HashesInv

\* The steps uploadFiles has passed are held; the others are not taken for seen.
HeldInv ==
  /\ at \in {"hash", "create"} => index = 1 /\ seen = {}
  /\ at \in Uploading =>
       /\ index <= Len(steps) + 1
       /\ \A i \in 1..(index - 1) : Held(i)
       /\ \A h \in seen : h \in DOMAIN store \/ (at # "upload" /\ h = hashes[index])
  /\ at = "start" \/ Begun => \A i \in 1..Len(steps) : Held(i)
  /\ Begun => at \in {"wait", "publish", "returned"}

\* What is hashed, in memory and stored while nobody interferes.
SteadyInv ==
  steady =>
    /\ at \in Preparing => files = before
    /\ \A i \in 1..Len(hashes) : steps[i] # Run => hashes[i].content = before[steps[i].src]
    /\ at = "put" => payload = hashes[index].content
    /\ \A h \in DOMAIN store : store[h] = h.content
    /\ Begun => inputs = [i \in 1..Len(hashes) |-> Bundle(hashes[i])]

ReturnInv ==
  /\ Begun => info
  /\ at \in Prepared \ {"create"} => info
  /\ at \in {"wait", "publish"} => Begun
  /\ at = "publish" => publish /\ build = "ready"
  /\ public => at = "returned"
  /\ TruthfulReturn

IInv == ShapeInv /\ HeldInv /\ SteadyInv /\ ReturnInv

-----------------------------------------------------------------------------
(* Hashes and steps.                                                        *)

LEMMA NoHashIsNoHash == NoHash \notin Hash
BY RunAssumption DEF RunAssumption, NoHash, Hash

LEMMA HashFields ==
  ASSUME NEW h \in Hash
  PROVE  /\ h.copy \in Copy /\ h.copy # Run /\ h.copy.src \in Sources
         /\ h.content \in Contents /\ h.content # Missing
BY RunAssumption, MissingAssumption DEF RunAssumption, MissingAssumption, Hash, Copy

LEMMA HashOfIsHash ==
  ASSUME NEW c \in Copy, files[c.src] \in Contents
  PROVE  HashOf(c) \in Hash /\ HashOf(c).copy = c /\ HashOf(c).content = files[c.src]
BY DEF HashOf, Hash

LEMMA StoredIsStored ==
  ASSUME NEW h, h = hashes[index]
  PROVE  /\ DOMAIN Stored = DOMAIN store \cup {h}
         /\ Stored[h] = payload
         /\ \A g \in DOMAIN store : g # h => Stored[g] = store[g]
BY DEF Stored

\* The sequence of hashes grows by one.
LEMMA Appended ==
  ASSUME NEW S, NEW s \in Seq(S), NEW e \in S
  PROVE  /\ Append(s, e) \in Seq(S) /\ Len(Append(s, e)) = Len(s) + 1
         /\ \A i \in 1..Len(s) : Append(s, e)[i] = s[i]
         /\ Append(s, e)[Len(s) + 1] = e
OBVIOUS

-----------------------------------------------------------------------------
(* Types and the shape of the hashes.                                       *)

LEMMA InitShape == Init => ShapeInv
<1> SUFFICES ASSUME Init PROVE ShapeInv
  OBVIOUS
<1>0. /\ <<>> \in Seq(Copy \cup {Run}) /\ <<>> \in Seq(Hash \cup {NoHash})
      /\ <<>> \in Seq(Content) /\ 0 \in 0..Edits /\ 0 \in 0..Builds
  BY EmptySeq, BoundsAssumption DEF BoundsAssumption
<1>1. CallerOK
  BY <1>0 DEF Init, CallerOK, Content
<1>2. ClientOK
  <2>1. seen \subseteq Hash /\ index \in Nat \ {0} /\ payload \in Content
    BY DEF Init, Content
  <2> QED BY <1>0, <2>1 DEF Init, ClientOK
<1>3. PlatformOK
  <2>1. DOMAIN store = {}
    BY DEF Init
  <2> QED BY <1>0, <2>1 DEF Init, PlatformOK
<1>4. HashesInv
  BY DEF Init, HashesInv, Begun
<1> QED BY <1>1, <1>2, <1>3, <1>4 DEF ShapeInv, TypeOK

LEMMA StepType ==
  ASSUME ShapeInv, [Next]_vars
  PROVE  TypeOK'
<1> USE DEF ShapeInv, TypeOK
<1>1. CASE Edit
  <2>1. CallerOK'
    BY <1>1, BoundsAssumption DEF BoundsAssumption, Edit, CallerOK, Content, args
  <2>2. ClientOK' /\ PlatformOK'
    BY <1>1 DEF Edit, ClientOK, PlatformOK, upload, outcome, platform
  <2> QED BY <2>1, <2>2
<1>2. CASE Call
  <2>1. CallerOK'
    BY <1>2, BoundsAssumption, ProgramsAssumption
    DEF BoundsAssumption, ProgramsAssumption, Call, CallerOK, caller
  <2>2. <<>> \in Seq(Hash \cup {NoHash}) /\ <<>> \in Seq(Content)
    BY EmptySeq
  <2>3. (seen \subseteq Hash /\ index \in Nat \ {0} /\ payload \in Content)'
    BY <1>2 DEF Call, Content
  <2>4. ClientOK'
    BY <1>2, <2>2, <2>3 DEF Call, ClientOK, Preparing
  <2>5. PlatformOK'
    BY <1>2, <2>2 DEF Call, PlatformOK
  <2> QED BY <2>1, <2>4, <2>5
<1>3. CASE HashStep
  <2> DEFINE step == steps[Len(hashes) + 1]
  <2> USE <1>3
  <2>1. CallerOK' /\ PlatformOK'
    BY DEF HashStep, CallerOK, PlatformOK, caller, args, platform
  <2>2. step \in Copy \cup {Run}
    BY DEF HashStep, CallerOK, ClientOK
  <2>3. step # Run /\ files[step.src] # Missing => HashOf(step) \in Hash
    <3> SUFFICES ASSUME step # Run, files[step.src] # Missing PROVE HashOf(step) \in Hash
      OBVIOUS
    <3>1. step \in Copy /\ files[step.src] \in Contents
      BY <2>2 DEF CallerOK, Content, Copy
    <3> HIDE DEF step
    <3> QED BY <3>1, HashOfIsHash
  <2>4. hashes' \in Seq(Hash \cup {NoHash})
    BY <2>3, Appended DEF HashStep, ClientOK
  <2>5. at' \in {"hash", "returned"} /\ info' = info /\ err' \in BOOLEAN
    BY DEF HashStep, ClientOK, Goto, Fail, outcome
  <2>6. ClientOK'
    BY <2>4, <2>5 DEF HashStep, ClientOK, upload, Preparing
  <2> QED BY <2>1, <2>6
<1>4. CASE Hashed
  <2>1. CallerOK' /\ PlatformOK'
    BY <1>4 DEF Hashed, CallerOK, PlatformOK, caller, args, platform
  <2>2. ClientOK'
    BY <1>4 DEF Hashed, ClientOK, Goto, upload, outcome, Preparing
  <2> QED BY <2>1, <2>2
<1>5. CASE Create
  <2>1. CallerOK' /\ PlatformOK'
    BY <1>5 DEF Create, CallerOK, PlatformOK, caller, args
  <2>2. ClientOK'
    BY <1>5 DEF Create, ClientOK, Fail, upload, Preparing
  <2> QED BY <2>1, <2>2
<1>6. CASE Skip
  <2>1. CallerOK' /\ PlatformOK'
    BY <1>6 DEF Skip, CallerOK, PlatformOK, caller, args, platform
  <2>2. ClientOK'
    BY <1>6 DEF Skip, ClientOK, outcome
  <2> QED BY <2>1, <2>2
<1>7. CASE AskLink
  <2>1. CallerOK' /\ PlatformOK'
    BY <1>7 DEF AskLink, CallerOK, PlatformOK, caller, args, platform
  <2>2. hashes[index] \in Hash
    BY <1>7 DEF AskLink, PassOver, HashesInv, HashFits, CallerOK, ClientOK, Prepared
  <2>3. index' \in Nat \ {0} /\ hashes' = hashes /\ payload' = payload
    BY <1>7 DEF AskLink, ClientOK
  <2>4. info' = info /\ err' \in BOOLEAN /\ at' \in {"upload", "pack", "returned"}
    BY <1>7 DEF AskLink, ClientOK, Fail, Goto, outcome
  <2>5. seen' \subseteq Hash
    BY <1>7, <2>2 DEF AskLink, ClientOK
  <2>6. ClientOK'
    BY <2>3, <2>4, <2>5 DEF ClientOK, Preparing
  <2> QED BY <2>1, <2>6
<1>8. CASE Pack
  <2>1. CallerOK' /\ PlatformOK'
    BY <1>8 DEF Pack, CallerOK, PlatformOK, caller, args, platform
  <2>2. files[hashes[index].copy.src] \in Content
    BY <1>8, HashFields DEF Pack, HashesInv, CallerOK
  <2>3. ClientOK'
    BY <1>8, <2>2 DEF Pack, ClientOK, Fail, Goto, outcome, Preparing
  <2> QED BY <2>1, <2>3
<1>9. CASE Put
  <2>1. hashes[index] \in Hash /\ payload \in Contents
    BY <1>9 DEF Put, HashesInv
  <2>2. DOMAIN Stored \subseteq Hash /\ \A h \in DOMAIN Stored : Stored[h] \in Contents
    BY <2>1 DEF Stored, PlatformOK
  <2>3. CallerOK' /\ PlatformOK'
    BY <1>9, <2>2 DEF Put, CallerOK, PlatformOK, caller, args
  <2>4. /\ index' \in Nat \ {0} /\ UNCHANGED <<hashes, seen, payload>>
    BY <1>9 DEF Put, ClientOK
  <2>5. info' = info /\ err' \in BOOLEAN /\ at' \in {"upload", "returned"}
    BY <1>9 DEF Put, ClientOK, Fail, Goto, outcome
  <2>6. ClientOK'
    BY <2>4, <2>5 DEF ClientOK, Preparing
  <2> QED BY <2>3, <2>6
<1>10. CASE Uploaded
  <2>1. CallerOK' /\ PlatformOK'
    BY <1>10 DEF Uploaded, CallerOK, PlatformOK, caller, args, platform
  <2>2. ClientOK'
    BY <1>10 DEF Uploaded, ClientOK, Goto, upload, outcome
  <2> QED BY <2>1, <2>2
<1>11. CASE Start
  <2>1. \A i \in 1..Len(hashes) : Bundle(hashes[i]) \in Content
    BY DEF Bundle, Content, PlatformOK
  <2>2. [i \in 1..Len(hashes) |-> Bundle(hashes[i])] \in Seq(Content)
    BY <2>1 DEF ClientOK
  <2>3. CallerOK' /\ PlatformOK'
    BY <1>11, <2>2 DEF Start, Started, CallerOK, PlatformOK, caller, args
  <2>4. ClientOK'
    BY <1>11 DEF Start, ClientOK, Fail, Goto, upload, outcome
  <2> QED BY <2>3, <2>4
<1>12. CASE Finish
  BY <1>12 DEF Finish, CallerOK, ClientOK, PlatformOK, caller, args, upload, outcome
<1>13. CASE Wait
  <2>1. CallerOK' /\ PlatformOK'
    BY <1>13 DEF Wait, CallerOK, PlatformOK, caller, args, platform
  <2>2. ClientOK'
    BY <1>13 DEF Wait, ClientOK, Fail, Goto, upload, outcome
  <2> QED BY <2>1, <2>2
<1>14. CASE Publish
  <2>1. CallerOK' /\ PlatformOK'
    BY <1>14 DEF Publish, CallerOK, PlatformOK, caller, args
  <2>2. ClientOK'
    BY <1>14 DEF Publish, ClientOK, Fail, Goto, upload, outcome
  <2> QED BY <2>1, <2>2
<1>15. CASE UNCHANGED vars
  BY <1>15 DEF vars, CallerOK, ClientOK, PlatformOK
<1> QED BY <1>1, <1>2, <1>3, <1>4, <1>5, <1>6, <1>7, <1>8, <1>9, <1>10, <1>11,
           <1>12, <1>13, <1>14, <1>15 DEF Next

LEMMA StepHashes ==
  ASSUME ShapeInv, [Next]_vars
  PROVE  HashesInv'
<1> USE DEF ShapeInv, TypeOK
<1>1. CASE Edit
  BY <1>1 DEF Edit, HashesInv, HashFits, Begun, args, upload, platform
<1>2. CASE Call
  <2>1. hashes' = <<>> /\ steps' \in Seq(Copy \cup {Run})
    BY <1>2, ProgramsAssumption DEF ProgramsAssumption, Call
  <2>2. Len(hashes') = 0 /\ Len(steps') \in Nat /\ ~Begun' /\ at' \in {"hash", "returned"}
    BY <1>2, <2>1 DEF Call, Begun
  <2> QED BY <2>2 DEF HashesInv, Prepared
<1>3. CASE HashStep
  <2> DEFINE n == Len(hashes)
  <2>1. n \in Nat /\ Len(steps) \in Nat /\ n < Len(steps) /\ steps[n + 1] \in Copy \cup {Run}
    BY <1>3 DEF HashStep, CallerOK, ClientOK
  <2>2. ~Begun' /\ at' \in {"hash", "returned"} /\ steps' = steps
    BY <1>3 DEF HashStep, HashesInv, Begun, Goto, Fail, args, platform
  <2>3. CASE hashes' = hashes
    BY <2>1, <2>2, <2>3 DEF HashesInv, HashFits, Prepared
  <2>4. ASSUME NEW e \in Hash \cup {NoHash}, hashes' = Append(hashes, e),
               \/ steps[n + 1] = Run /\ e = NoHash
               \/ steps[n + 1] # Run /\ e \in Hash /\ e.copy = steps[n + 1]
        PROVE  HashesInv'
    <3>1. /\ Len(hashes') = n + 1 /\ hashes'[n + 1] = e
          /\ \A i \in 1..n : hashes'[i] = hashes[i]
      BY <2>4, Appended DEF ClientOK
    <3>2. \A i \in 1..(n + 1) : HashFits(i)'
      BY <2>1, <2>2, <2>4, <3>1 DEF HashesInv, HashFits
    <3> QED BY <2>1, <2>2, <3>1, <3>2 DEF HashesInv, Prepared
  <2>5. steps[n + 1] # Run /\ files[steps[n + 1].src] # Missing =>
          HashOf(steps[n + 1]) \in Hash /\ HashOf(steps[n + 1]).copy = steps[n + 1]
    <3> SUFFICES ASSUME steps[n + 1] # Run, files[steps[n + 1].src] # Missing
                 PROVE  /\ HashOf(steps[n + 1]) \in Hash
                        /\ HashOf(steps[n + 1]).copy = steps[n + 1]
      OBVIOUS
    <3>1. steps[n + 1] \in Copy /\ files[steps[n + 1].src] \in Contents
      BY <2>1 DEF CallerOK, Content, Copy
    <3> QED BY <3>1, HashOfIsHash
  <2> QED BY <1>3, <2>3, <2>4, <2>5 DEF HashStep
<1>4. CASE Hashed
  BY <1>4 DEF Hashed, HashesInv, HashFits, Begun, Goto, args, upload, platform
<1>5. CASE Create
  BY <1>5 DEF Create, Fail, HashesInv, HashFits, Begun, Prepared, args, upload
<1>6. CASE Skip
  BY <1>6 DEF Skip, HashesInv, HashFits, Begun, args, platform
<1>7. CASE AskLink
  <2>1. index <= Len(steps) /\ hashes[index] \in Hash
    BY <1>7 DEF AskLink, PassOver, HashesInv, HashFits, CallerOK, ClientOK, Prepared
  <2> QED BY <1>7, <2>1
          DEF AskLink, Fail, Goto, HashesInv, HashFits, Begun, Prepared, args, platform
<1>8. CASE Pack
  <2>1. at' = "put" => payload' \in Contents
    <3>1. files[hashes[index].copy.src] \in Content
      BY <1>8, HashFields DEF Pack, HashesInv, CallerOK
    <3> QED BY <1>8, <3>1 DEF Pack, Fail, Goto, Content
  <2> QED BY <1>8, <2>1
          DEF Pack, Fail, Goto, HashesInv, HashFits, Begun, Prepared, args, platform
<1>9. CASE Put
  BY <1>9 DEF Put, Fail, Goto, HashesInv, HashFits, Begun, Prepared, args
<1>10. CASE Uploaded
  BY <1>10 DEF Uploaded, Goto, HashesInv, HashFits, Begun, Prepared, args, upload, platform
<1>11. CASE Start
  BY <1>11 DEF Start, Fail, Goto, HashesInv, HashFits, Prepared, args, upload
<1>12. CASE Finish
  BY <1>12 DEF Finish, HashesInv, HashFits, Begun, args, upload
<1>13. CASE Wait
  BY <1>13 DEF Wait, Fail, Goto, HashesInv, HashFits, Begun, Prepared, args, upload, platform
<1>14. CASE Publish
  BY <1>14 DEF Publish, Fail, Goto, HashesInv, HashFits, Begun, Prepared, args, upload
<1>15. CASE UNCHANGED vars
  BY <1>15 DEF vars, HashesInv, HashFits, Begun
<1> QED BY <1>1, <1>2, <1>3, <1>4, <1>5, <1>6, <1>7, <1>8, <1>9, <1>10, <1>11,
           <1>12, <1>13, <1>14, <1>15 DEF Next

LEMMA StepShape == ShapeInv /\ [Next]_vars => ShapeInv'
BY StepType, StepHashes DEF ShapeInv

-----------------------------------------------------------------------------
(* The bundles of the steps passed by uploadFiles are held.                 *)

LEMMA InitHeld == Init => HeldInv
BY DEF Init, HeldInv, Uploading, Begun

LEMMA StepHeld ==
  ASSUME ShapeInv, HeldInv, [Next]_vars
  PROVE  HeldInv'
<1> USE DEF ShapeInv, TypeOK, Uploading, Prepared
<1>1. CASE Edit
  BY <1>1 DEF Edit, HeldInv, Held, Begun, args, upload, platform
<1>2. CASE Call
  BY <1>2 DEF Call, HeldInv, Begun
<1>3. CASE HashStep
  <2>1. ~Begun' /\ at' \in {"hash", "returned"} /\ UNCHANGED <<index, seen>>
    BY <1>3 DEF HashStep, HeldInv, Begun, Goto, Fail, platform, upload
  <2> QED BY <1>3, <2>1 DEF HashStep, HeldInv
<1>4. CASE Hashed
  BY <1>4 DEF Hashed, HeldInv, Begun, Goto, upload, platform
<1>5. CASE Create
  <2>1. ~Begun'
    BY <1>5 DEF Create, Begun
  <2>2. at' = "upload" \/ at' = "returned"
    BY <1>5 DEF Create, Fail
  <2>3. index' = 1 /\ seen' = {} /\ Len(steps') \in Nat
    BY <1>5 DEF Create, HeldInv, CallerOK, args, upload
  <2> QED BY <2>1, <2>2, <2>3 DEF HeldInv
<1>6. CASE Skip
  <2>1. Held(index)
    BY <1>6 DEF Skip, PassOver, HeldInv, Held
  <2>2. index' <= Len(steps) + 1 /\ \A i \in 1..(index' - 1) : Held(i)
    BY <1>6, <2>1 DEF Skip, HeldInv, CallerOK, ClientOK
  <2> QED BY <1>6, <2>2 DEF Skip, HeldInv, Held, Begun, args, platform
<1>7. CASE AskLink
  <2>1. hashes[index] \in DOMAIN store => Held(index)
    BY DEF Held
  <2>2. at' \in Uploading =>
          index' <= Len(steps) + 1 /\ \A i \in 1..(index' - 1) : Held(i)
    BY <1>7, <2>1 DEF AskLink, Fail, Goto, HeldInv, CallerOK, ClientOK
  <2>3. at' \in Uploading =>
          \A h \in seen' : h \in DOMAIN store \/ (at' # "upload" /\ h = hashes[index'])
    BY <1>7 DEF AskLink, Fail, Goto, HeldInv
  <2>4. ~Begun' /\ at' \in {"upload", "pack", "returned"}
    BY <1>7 DEF AskLink, Fail, Goto, HeldInv, Begun, platform
  <2> QED BY <1>7, <2>2, <2>3, <2>4 DEF AskLink, HeldInv, Held, args, platform
<1>8. CASE Pack
  BY <1>8 DEF Pack, Fail, Goto, HeldInv, Held, Begun, args, platform
<1>9. CASE Put
  <2>1. DOMAIN Stored = DOMAIN store \cup {hashes[index]}
    BY DEF Stored
  <2>2. CASE store' = Stored /\ index' = index + 1 /\ Goto("upload")
    <3>1. \A i \in 1..(index - 1) : hashes[i] = NoHash \/ hashes[i] \in DOMAIN store'
      BY <1>9, <2>1, <2>2 DEF Put, HeldInv, Held
    <3>2. \A i \in 1..index : hashes[i] = NoHash \/ hashes[i] \in DOMAIN store'
      BY <2>1, <2>2, <3>1 DEF ClientOK
    <3>3. index' <= Len(steps') + 1 /\ \A i \in 1..(index' - 1) : Held(i)'
      BY <1>9, <2>2, <3>2 DEF Put, HashesInv, Held, ClientOK, CallerOK, args
    <3>4. \A h \in seen' : h \in DOMAIN store'
      BY <1>9, <2>1, <2>2 DEF Put, HeldInv
    <3>5. at' = "upload" /\ ~Begun'
      BY <1>9, <2>2 DEF Put, Goto, HeldInv, Begun
    <3> QED BY <3>3, <3>4, <3>5 DEF HeldInv
  <2>3. CASE Fail
    BY <1>9, <2>3 DEF Put, Fail, HeldInv, Begun
  <2> QED BY <1>9, <2>2, <2>3 DEF Put
<1>10. CASE Uploaded
  <2>1. \A i \in 1..Len(steps) : Held(i)
    BY <1>10 DEF Uploaded, HeldInv, CallerOK, ClientOK
  <2> QED BY <1>10, <2>1 DEF Uploaded, Goto, HeldInv, Held, Begun, args, upload, platform
<1>11. CASE Start
  <2>1. \A i \in 1..Len(steps) : Held(i)
    BY <1>11 DEF Start, HeldInv
  <2> QED BY <1>11, <2>1 DEF Start, Fail, Goto, HeldInv, Held, args
<1>12. CASE Finish
  BY <1>12 DEF Finish, HeldInv, Held, Begun, args, upload
<1>13. CASE Wait
  BY <1>13 DEF Wait, Fail, Goto, HeldInv, Held, Begun, args, platform
<1>14. CASE Publish
  BY <1>14 DEF Publish, Fail, Goto, HeldInv, Held, Begun, args
<1>15. CASE UNCHANGED vars
  BY <1>15 DEF vars, HeldInv, Held, Begun
<1> QED BY <1>1, <1>2, <1>3, <1>4, <1>5, <1>6, <1>7, <1>8, <1>9, <1>10, <1>11,
           <1>12, <1>13, <1>14, <1>15 DEF Next

-----------------------------------------------------------------------------
(* Contents, while nobody edits the files under a Build.                    *)

LEMMA InitSteady == Init => SteadyInv
<1> SUFFICES ASSUME Init PROVE SteadyInv
  OBVIOUS
<1>1. DOMAIN store = {} /\ Len(hashes) = 0 /\ at = "idle" /\ ~Begun
  BY DEF Init, Begun
<1> QED BY <1>1 DEF SteadyInv, Preparing

LEMMA StepSteady ==
  ASSUME ShapeInv, HeldInv, SteadyInv, [Next]_vars
  PROVE  SteadyInv'
<1> USE DEF ShapeInv, TypeOK
<1>1. CASE Edit
  <2>1. steady' => steady /\ at \notin Preparing
    BY <1>1 DEF Edit, CallerOK
  <2> QED BY <1>1, <2>1
          DEF Edit, SteadyInv, Bundle, Begun, Preparing, args, upload, platform
<1>2. CASE Call
  <2>1. Len(hashes') = 0 /\ ~Begun' /\ at' \in {"hash", "returned"}
    BY <1>2 DEF Call, Begun
  <2> QED BY <1>2, <2>1 DEF Call, SteadyInv, caller
<1>3. CASE HashStep
  <2> DEFINE n == Len(hashes)
  <2>1. n \in Nat /\ steps[n + 1] \in Copy \cup {Run}
    BY <1>3 DEF HashStep, CallerOK, ClientOK
  <2>2. /\ ~Begun' /\ at' \in {"hash", "returned"}
        /\ UNCHANGED <<steps, files, before, store, steady>>
    BY <1>3 DEF HashStep, HeldInv, Begun, Goto, Fail, platform, args, caller
  <2>3. CASE hashes' = hashes
    BY <1>3, <2>2, <2>3 DEF HashStep, SteadyInv, Preparing
  <2>4. ASSUME NEW e \in Hash \cup {NoHash}, hashes' = Append(hashes, e),
               steps[n + 1] # Run => e.content = files[steps[n + 1].src]
        PROVE  SteadyInv'
    <3>1. /\ Len(hashes') = n + 1 /\ hashes'[n + 1] = e
          /\ \A i \in 1..n : hashes'[i] = hashes[i]
      BY <2>4, Appended DEF ClientOK
    <3>2. steady => files = before
      BY <1>3 DEF HashStep, SteadyInv, Preparing
    <3>3. steady => \A i \in 1..(n + 1) :
                      steps[i] # Run => hashes'[i].content = before[steps[i].src]
      BY <2>1, <2>4, <3>1, <3>2 DEF SteadyInv
    <3> QED BY <2>2, <3>1, <3>2, <3>3 DEF SteadyInv
  <2>5. steps[n + 1] # Run /\ files[steps[n + 1].src] # Missing =>
          /\ HashOf(steps[n + 1]) \in Hash
          /\ HashOf(steps[n + 1]).content = files[steps[n + 1].src]
    <3> SUFFICES ASSUME steps[n + 1] # Run, files[steps[n + 1].src] # Missing
                 PROVE  /\ HashOf(steps[n + 1]) \in Hash
                        /\ HashOf(steps[n + 1]).content = files[steps[n + 1].src]
      OBVIOUS
    <3>1. steps[n + 1] \in Copy /\ files[steps[n + 1].src] \in Contents
      BY <2>1 DEF CallerOK, Content, Copy
    <3> QED BY <3>1, HashOfIsHash
  <2> QED BY <1>3, <2>3, <2>4, <2>5 DEF HashStep
<1>4. CASE Hashed
  BY <1>4 DEF Hashed, SteadyInv, Begun, Goto, HeldInv, Preparing, caller, args, upload, platform
<1>5. CASE Create
  <2>1. ~Begun' /\ at' \in {"upload", "returned"}
    BY <1>5 DEF Create, Fail, Begun
  <2> QED BY <1>5, <2>1 DEF Create, SteadyInv, Preparing, caller, args, upload
<1>6. CASE Skip
  <2>1. ~Begun'
    BY <1>6 DEF Skip, HeldInv, Begun, platform
  <2> QED BY <1>6, <2>1 DEF Skip, SteadyInv, Preparing, caller, args, platform
<1>7. CASE AskLink
  <2>1. ~Begun' /\ at' \in {"upload", "pack", "returned"}
    BY <1>7 DEF AskLink, Fail, Goto, HeldInv, Begun, platform
  <2> QED BY <1>7, <2>1 DEF AskLink, SteadyInv, Preparing, caller, args, platform
<1>8. CASE Pack
  <2>1. ~Begun' /\ at' \in {"put", "returned"}
    BY <1>8 DEF Pack, Fail, Goto, HeldInv, Begun, platform
  <2>2. UNCHANGED <<files, before, steps, hashes, index, store, steady>> /\ at \in Preparing
    BY <1>8 DEF Pack, caller, args, platform, Preparing
  <2>3. steady /\ at' = "put" => payload' = hashes[index].content
    <3>1. steps[index] # Run /\ index \in 1..Len(hashes)
          /\ hashes[index].copy = steps[index]
      BY <1>8, NoHashIsNoHash
      DEF Pack, HashesInv, HashFits, CallerOK, ClientOK, Prepared
    <3>2. at' = "put" => payload' = files[steps[index].src]
      BY <1>8, <3>1 DEF Pack, Fail
    <3> QED BY <2>2, <3>1, <3>2 DEF SteadyInv
  <2> QED BY <2>1, <2>2, <2>3 DEF SteadyInv
<1>9. CASE Put
  <2>1. ~Begun' /\ at' \in {"upload", "returned"}
    BY <1>9 DEF Put, Fail, Goto, HeldInv, Begun
  <2>2. UNCHANGED <<files, before, steps, hashes, steady>> /\ at \in Preparing
    BY <1>9 DEF Put, caller, args, Preparing
  <2>3. steady => \A h \in DOMAIN Stored : Stored[h] = h.content
    BY <1>9 DEF Put, Stored, SteadyInv
  <2>4. steady => \A h \in DOMAIN store' : store'[h] = h.content
    BY <1>9, <2>3 DEF Put, SteadyInv
  <2> QED BY <2>1, <2>2, <2>4 DEF SteadyInv
<1>10. CASE Uploaded
  <2>1. ~Begun' /\ at' = "start"
    BY <1>10 DEF Uploaded, Goto, HeldInv, Begun, platform
  <2> QED BY <1>10, <2>1
          DEF Uploaded, SteadyInv, Preparing, caller, args, upload, platform
<1>11. CASE Start
  <2>1. at' \in {"wait", "returned"} /\ ~Begun
    BY <1>11 DEF Start, Fail, Goto, HeldInv
  <2>2. UNCHANGED <<files, before, steps, hashes, store, steady>>
    BY <1>11 DEF Start, caller, args
  <2>3. Begun' => Started
    BY <1>11, <2>1 DEF Start, Begun
  <2>4. Begun' => inputs' = [i \in 1..Len(hashes) |-> IF hashes[i] \in DOMAIN store
                                                     THEN store[hashes[i]] ELSE Missing]
    BY <2>3 DEF Started, Bundle
  <2> QED BY <2>1, <2>2, <2>4 DEF SteadyInv, Bundle, Preparing
<1>12. CASE Finish
  <2>1. Begun /\ Begun'
    BY <1>12 DEF Finish, Begun
  <2> QED BY <1>12, <2>1 DEF Finish, SteadyInv, Bundle, caller, args, upload
<1>13. CASE Wait
  <2>1. at' \in {"publish", "returned"}
    BY <1>13 DEF Wait, Fail, Goto
  <2> QED BY <1>13, <2>1
          DEF Wait, SteadyInv, Bundle, Begun, Preparing, caller, args, upload, platform
<1>14. CASE Publish
  <2>1. at' = "returned"
    BY <1>14 DEF Publish, Fail, Goto
  <2> QED BY <1>14, <2>1
          DEF Publish, SteadyInv, Bundle, Begun, Preparing, caller, args, upload
<1>15. CASE UNCHANGED vars
  BY <1>15 DEF vars, SteadyInv, Bundle, Begun
<1> QED BY <1>1, <1>2, <1>3, <1>4, <1>5, <1>6, <1>7, <1>8, <1>9, <1>10, <1>11,
           <1>12, <1>13, <1>14, <1>15 DEF Next

-----------------------------------------------------------------------------
(* What is returned.                                                        *)

LEMMA InitReturn == Init => ReturnInv
BY DEF Init, ReturnInv, Begun, Prepared, TruthfulReturn

LEMMA StepReturn ==
  ASSUME ShapeInv, HeldInv, ReturnInv, [Next]_vars
  PROVE  ReturnInv'
<1> USE DEF ShapeInv, TypeOK, ReturnInv, Begun, Prepared, TruthfulReturn
<1>1. CASE Edit
  BY <1>1 DEF Edit, args, outcome, platform
<1>2. CASE Call
  BY <1>2 DEF Call
<1>3. CASE HashStep
  BY <1>3 DEF HashStep, Goto, Fail, HeldInv, args, outcome, platform
<1>4. CASE Hashed
  BY <1>4 DEF Hashed, Goto, HeldInv, args, outcome, platform
<1>5. CASE Create
  BY <1>5 DEF Create, Fail, args
<1>6. CASE Skip
  BY <1>6 DEF Skip, args, outcome, platform
<1>7. CASE AskLink
  <2>1. UNCHANGED <<build, public, publish, info>> /\ at = "upload"
    BY <1>7 DEF AskLink, Goto, Fail, args, outcome, platform
  <2>2. \/ at' = "returned" /\ err' = TRUE
        \/ at' \in {"upload", "pack"}
    BY <1>7 DEF AskLink, Goto, Fail
  <2> QED BY <2>1, <2>2
<1>8. CASE Pack
  BY <1>8 DEF Pack, Goto, Fail, args, outcome, platform
<1>9. CASE Put
  BY <1>9 DEF Put, Goto, Fail, args, outcome
<1>10. CASE Uploaded
  BY <1>10 DEF Uploaded, Goto, args, outcome, platform
<1>11. CASE Start
  BY <1>11 DEF Start, Started, Goto, Fail, HeldInv, args, outcome
<1>12. CASE Finish
  BY <1>12 DEF Finish, args, outcome
<1>13. CASE Wait
  <2>1. UNCHANGED <<build, public, publish, info>> /\ at = "wait" /\ public = FALSE
    BY <1>13 DEF Wait, Goto, Fail, args, outcome, platform, PlatformOK
  <2>2. \/ at' = "returned" /\ err' = TRUE
        \/ build = "ready" /\ publish = TRUE /\ at' = "publish"
        \/ build = "ready" /\ publish = FALSE /\ at' = "returned"
    BY <1>13 DEF Wait, Goto, Fail, CallerOK
  <2> QED BY <2>1, <2>2
<1>14. CASE Publish
  BY <1>14 DEF Publish, Goto, Fail, args, outcome
<1>15. CASE UNCHANGED vars
  BY <1>15 DEF vars
<1> QED BY <1>1, <1>2, <1>3, <1>4, <1>5, <1>6, <1>7, <1>8, <1>9, <1>10, <1>11,
           <1>12, <1>13, <1>14, <1>15 DEF Next

-----------------------------------------------------------------------------
(* The theorems.                                                            *)

LEMMA Invariance == Spec => []IInv
<1>1. Init => IInv
  BY InitShape, InitHeld, InitSteady, InitReturn DEF IInv
<1>2. IInv /\ [Next]_vars => IInv'
  BY StepShape, StepHeld, StepSteady, StepReturn DEF IInv
<1> QED BY <1>1, <1>2, PTL DEF Spec

\* Whatever the caller builds and edits, every variable keeps its type: in
\* particular no hash is ever made of a source that is not there.
THEOREM TypeCorrect == Spec => []TypeOK
<1>1. IInv => TypeOK
  BY DEF IInv, ShapeInv
<1> QED BY <1>1, Invariance, PTL

\* Whatever fails, no build is started that lacks a bundle of its steps
\* (uploadFiles before StartBuildV2).
THEOREM BundlesUploaded == Spec => []StartedWithItsBundles
<1>1. IInv => StartedWithItsBundles
  <2> SUFFICES ASSUME IInv, Begun, NEW i \in 1..Len(steps), steps[i] # Run
               PROVE  hashes[i].copy = steps[i] /\ hashes[i] \in DOMAIN store
    BY DEF StartedWithItsBundles
  <2>1. hashes[i] \in Hash /\ hashes[i].copy = steps[i]
    BY DEF IInv, ShapeInv, HashesInv, HashFits
  <2> QED BY <2>1, NoHashIsNoHash DEF IInv, HeldInv, Held
<1> QED BY <1>1, Invariance, PTL

\* While nobody edits the files under a Build, a build is made of the files as
\* they were when Build was called, however many builds before it left bundles.
THEOREM MadeOfTheFiles == Spec => []BuiltFromTheFiles
<1>1. IInv => BuiltFromTheFiles
  <2> SUFFICES ASSUME IInv, Begun, steady, NEW i \in 1..Len(steps), steps[i] # Run
               PROVE  inputs[i] = before[steps[i].src]
    BY DEF BuiltFromTheFiles
  <2>1. Len(hashes) = Len(steps) /\ hashes[i] \in Hash
    BY DEF IInv, ShapeInv, HashesInv, HashFits
  <2>2. hashes[i] \in DOMAIN store
    BY <2>1, NoHashIsNoHash DEF IInv, HeldInv, Held
  <2>3. inputs[i] = store[hashes[i]]
    BY <2>1, <2>2 DEF IInv, SteadyInv, Bundle
  <2> QED BY <2>1, <2>2, <2>3 DEF IInv, SteadyInv
<1> QED BY <1>1, Invariance, PTL

\* Build returns no error only for a build that is ready and, if that was asked,
\* published; and the identifiers of whatever it may have started.
THEOREM ReturnIsTruthful == Spec => []TruthfulReturn
<1>1. IInv => TruthfulReturn
  BY DEF IInv, ReturnInv
<1> QED BY <1>1, Invariance, PTL

-----------------------------------------------------------------------------
(* Waiting for a build: the theorems about BuildPoll, which is WaitForBuild, *)
(* the last thing Build does but for publishing.  They hold for any log, any *)
(* number of entries in a reply and any polling intervals.                   *)

USE LimitAssumption, MaxLogsAssumption, IntervalAssumption DEF Final

\* The part of the state the backing off is about.
Clock == /\ interval \in Nat /\ slept \in Nat /\ late \in Nat
         /\ Initial <= interval /\ interval <= Longest
         /\ pc = "sleep" => late = 0
         /\ late = 0 => interval <= slept + Initial
         /\ late <= Longest /\ late <= slept + Initial

\* A build that was slept through is noticed by the poll that follows.
Noticed ==
  /\ late # 0 => status \in Final
  /\ late # 0 /\ pc = "answered" => reply.status \in Final
  /\ pc = "answered" /\ reply.status \in Final => reply.status = status

ClockInv == Clock /\ Noticed

LEMMA InitClock ==
  PollInit => ClockInv
BY DEF PollInit, ClockInv, Clock, Noticed, NoReply

\* One sleep costs at most the interval, which never exceeds what was slept
\* before by more than the initial one.
LEMMA WakeClock ==
  ASSUME Clock, Wake
  PROVE  Clock'
<1>1. CASE status \in Final
  BY <1>1 DEF Wake, Elapse, Clock, Least
<1>2. CASE status \notin Final
  BY <1>2 DEF Wake, Elapse, Clock, Least
<1> QED BY <1>1, <1>2

LEMMA StepClock ==
  ClockInv /\ [PollNext]_pollVars => ClockInv'
<1> SUFFICES ASSUME ClockInv, [PollNext]_pollVars PROVE ClockInv'
  OBVIOUS
<1> USE DEF ClockInv
<1>1. CASE Progress
  BY <1>1 DEF Progress, Clock, Noticed, times
<1>2. CASE Log
  BY <1>2 DEF Log, Clock, Noticed, times
<1>3. CASE Answer
  BY <1>3 DEF Answer, Clock, Noticed, times, served
<1>4. CASE Check
  BY <1>4 DEF Check, Clock, Noticed, times, served, Returns
<1>5. CASE Act
  <2>1. late # 0 => pc' # "sleep"
    BY <1>5 DEF Act, Verdict, Returns, Noticed
  <2>2. pc' # "answered" /\ UNCHANGED <<status, interval, slept, late>>
    BY <1>5 DEF Act, Verdict, Returns, times, served
  <2> QED BY <2>1, <2>2 DEF Clock, Noticed
<1>6. CASE Wake
  <2>1. Noticed'
    BY <1>6 DEF Wake, Elapse, served, Noticed, Clock
  <2> QED BY <1>6, <2>1, WakeClock
<1>7. CASE ContextEnds
  BY <1>7 DEF ContextEnds, Clock, Noticed, times, served
<1>8. CASE PollFails
  BY <1>8 DEF PollFails, Clock, Noticed, times, served, Returns
<1>9. CASE Interrupted
  BY <1>9 DEF Interrupted, Clock, Noticed, times, served, Returns
<1>10. CASE UNCHANGED pollVars
  BY <1>10 DEF pollVars, Clock, Noticed
<1> QED
  BY <1>1, <1>2, <1>3, <1>4, <1>5, <1>6, <1>7, <1>8, <1>9, <1>10
  DEF PollNext, Server, Client

\* Whatever the intervals, backing off makes the end of a build be noticed
\* within the longest interval, and within the time the build had taken.
THEOREM EndNoticedPromptly == PollSpec => []NoticedPromptly
<1>1. ClockInv => NoticedPromptly
  BY DEF ClockInv, Clock, NoticedPromptly
<1> QED BY <1>1, InitClock, StepClock, PTL DEF PollSpec

-----------------------------------------------------------------------------
\* A wait that returns the status of the build returns the one the build
\* ended with, no error exactly if it is ready; and only a failing call or the
\* context make it return without one.
VerdictTruthful ==
  pc = "done" =>
    /\ result.status # "none" => result.status = status
    /\ result.err = "none" <=> result.status = "ready"
    /\ result.err = "build" <=> result.status \in {"error", "other"}
    /\ result.err = "context" => ended

\* What is returned is what the build ended with.
VerdictInv ==
  /\ status \in Final \cup {"waiting", "building"}
  /\ pc = "answered" /\ reply.status \in Final => reply.status = status
  /\ reply.status \in Final \cup {"waiting", "building"}
  /\ pc = "done" => result.status \in Final \cup {"none"}
  /\ VerdictTruthful

LEMMA InitVerdict ==
  PollInit => VerdictInv
BY DEF PollInit, VerdictInv, VerdictTruthful, NoReply

LEMMA ActVerdict ==
  ASSUME VerdictInv, Act
  PROVE  VerdictInv'
<1>1. /\ UNCHANGED <<reply, status, ended>> /\ pc' # "answered"
      /\ pc = "answered"
  BY DEF Act, Verdict, Returns, served
<1>2. CASE reply.status \in Final
  BY <1>1, <1>2 DEF VerdictInv, VerdictTruthful, Act, Verdict, Returns
<1>3. CASE reply.status \in {"waiting", "building"}
  BY <1>1, <1>3 DEF VerdictInv, VerdictTruthful, Act, Verdict, Returns
<1> QED BY <1>2, <1>3 DEF VerdictInv

LEMMA StepVerdict ==
  VerdictInv /\ [PollNext]_pollVars => VerdictInv'
<1> SUFFICES ASSUME VerdictInv, [PollNext]_pollVars PROVE VerdictInv'
  OBVIOUS
<1> USE DEF VerdictInv, VerdictTruthful
<1>1. CASE Progress
  BY <1>1 DEF Progress
<1>2. CASE Log
  BY <1>2 DEF Log
<1>3. CASE Answer
  BY <1>3 DEF Answer, served
<1>4. CASE Check
  BY <1>4 DEF Check, served, Returns
<1>5. CASE Act
  BY <1>5, ActVerdict
<1>6. CASE Wake
  BY <1>6 DEF Wake, served
<1>7. CASE ContextEnds
  BY <1>7 DEF ContextEnds, served
<1>8. CASE PollFails
  BY <1>8 DEF PollFails, served, Returns
<1>9. CASE Interrupted
  BY <1>9 DEF Interrupted, served, Returns
<1>10. CASE UNCHANGED pollVars
  BY <1>10 DEF pollVars
<1> QED
  BY <1>1, <1>2, <1>3, <1>4, <1>5, <1>6, <1>7, <1>8, <1>9, <1>10
  DEF PollNext, Server, Client

\* However the build and the polls interleave, WaitForBuild returns the status
\* the build ended with, and no error exactly for a build that is ready.
THEOREM VerdictIsTruthful == PollSpec => []VerdictTruthful
<1>1. VerdictInv => VerdictTruthful
  BY DEF VerdictInv
<1> QED BY <1>1, InitVerdict, StepVerdict, PTL DEF PollSpec

-----------------------------------------------------------------------------
\* The numbers up to n, and the k numbers after n.
Upto(n) == [i \in 1..n |-> i]
After(n, k) == [i \in 1..k |-> n + i]

\* The offset counts the entries forwarded, and a reply carries the next ones.
LogsInv ==
  /\ logs \in 0..MaxLogs /\ logsOffset \in 0..logs
  /\ reply.from \in 0..MaxLogs /\ reply.count \in 0..Limit
  /\ pc = "answered" => reply.from = logsOffset /\ logsOffset + reply.count <= logs
  /\ onLogs \in BOOLEAN
  /\ forwarded \in Seq(1..MaxLogs)
  /\ onLogs => Len(forwarded) = logsOffset
  /\ onLogs => forwarded = Upto(logsOffset)

\* Counting on from where a sequence stopped counting.
LEMMA CountOn ==
  ASSUME NEW n \in Nat, NEW k \in Nat, NEW m \in Nat, n + k <= m
  PROVE  /\ Upto(n) \o After(n, k) \in Seq(1..m)
         /\ Len(Upto(n) \o After(n, k)) = n + k
         /\ Upto(n) \o After(n, k) = Upto(n + k)
<1> DEFINE s == Upto(n)
           t == After(n, k)
<1>1. s \in Seq(1..m) /\ Len(s) = n /\ t \in Seq(1..m) /\ Len(t) = k
  BY DEF Upto, After
<1>2. /\ \A i \in 1..n : s[i] = i
      /\ \A i \in 1..k : t[i] = n + i
  BY DEF Upto, After
<1> HIDE DEF s, t
<1>3. /\ s \o t \in Seq(1..m) /\ Len(s \o t) = n + k
      /\ \A i \in 1..(n + k) :
           (s \o t)[i] = IF i <= n THEN s[i] ELSE t[i - n]
  BY <1>1, ConcatProperties
<1>4. ASSUME NEW i \in 1..(n + k) PROVE (s \o t)[i] = i
  <2>1. CASE i <= n
    BY <2>1, <1>2, <1>3
  <2>2. CASE i > n
    <3>1. i - n \in 1..k /\ n + (i - n) = i
      BY <2>2
    <3>2. (s \o t)[i] = t[i - n]
      BY <2>2, <1>3
    <3> QED BY <3>1, <3>2, <1>2
  <2>3. i <= n \/ i > n
    OBVIOUS
  <2> QED BY <2>1, <2>2, <2>3, Zenon
<1>5. s \o t = Upto(n + k)
  <2>1. ASSUME NEW u \in Seq(1..m), Len(u) = n + k,
               \A i \in 1..(n + k) : u[i] = i
        PROVE  u = Upto(n + k)
    BY <2>1 DEF Upto
  <2> QED BY <2>1, <1>3, <1>4, Zenon
<1> QED BY <1>3, <1>5 DEF s, t

LEMMA InitLogs ==
  PollInit => LogsInv
BY DEF PollInit, LogsInv, NoReply, Upto

LEMMA ActLogs ==
  ASSUME LogsInv, Act
  PROVE  LogsInv'
<1>1. /\ pc = "answered" /\ pc' # "answered"
      /\ UNCHANGED <<logs, reply, onLogs>>
      /\ logsOffset' = logsOffset + reply.count
  BY DEF Act, Verdict, Returns, served
<1>2. /\ logsOffset \in Nat /\ reply.count \in Nat
      /\ logsOffset + reply.count <= logs /\ logs <= MaxLogs
      /\ reply.from = logsOffset
  BY <1>1 DEF LogsInv
<1>3. CASE onLogs
  <2>1. forwarded' = Upto(logsOffset) \o After(logsOffset, reply.count)
    BY <1>2, <1>3 DEF Act, Entries, After, LogsInv
  <2>2. MaxLogs \in Nat /\ logsOffset + reply.count <= MaxLogs
    BY <1>2 DEF LogsInv
  <2>3. /\ forwarded' \in Seq(1..MaxLogs)
        /\ Len(forwarded') = logsOffset + reply.count
        /\ forwarded' = Upto(logsOffset + reply.count)
    BY <2>1, <2>2, <1>2, CountOn
  <2> QED BY <1>1, <1>2, <2>3 DEF LogsInv
<1>4. CASE ~onLogs
  BY <1>1, <1>2, <1>4 DEF LogsInv, Act
<1> QED BY <1>3, <1>4

LEMMA StepLogs ==
  LogsInv /\ [PollNext]_pollVars => LogsInv'
<1> SUFFICES ASSUME LogsInv, [PollNext]_pollVars PROVE LogsInv'
  OBVIOUS
<1>1. CASE Progress
  BY <1>1 DEF Progress, LogsInv
<1>2. CASE Log
  BY <1>2 DEF Log, LogsInv
<1>3. CASE Answer
  BY <1>3 DEF Answer, served, Least, LogsInv
<1>4. CASE Check
  BY <1>4 DEF Check, served, Returns, LogsInv
<1>5. CASE Act
  BY <1>5, ActLogs
<1>6. CASE Wake
  BY <1>6 DEF Wake, served, LogsInv
<1>7. CASE ContextEnds
  BY <1>7 DEF ContextEnds, served, LogsInv
<1>8. CASE PollFails
  BY <1>8 DEF PollFails, served, Returns, LogsInv
<1>9. CASE Interrupted
  BY <1>9 DEF Interrupted, served, Returns, LogsInv
<1>10. CASE UNCHANGED pollVars
  BY <1>10 DEF pollVars, LogsInv
<1> QED
  BY <1>1, <1>2, <1>3, <1>4, <1>5, <1>6, <1>7, <1>8, <1>9, <1>10
  DEF PollNext, Server, Client

\* Across any number of polls the callback gets the entries of the log from
\* the first on, each once and in order, however the log grows meanwhile.
LogsFaithful ==
  onLogs => forwarded = [i \in 1..Len(forwarded) |-> i] /\ Len(forwarded) <= logs

\* The callback is handed the log from its first entry on, nothing twice and
\* nothing left out in between, whatever the replies are cut to.
THEOREM LogsAreFaithful == PollSpec => []LogsFaithful
<1>1. LogsInv => LogsFaithful
  BY DEF LogsInv, LogsFaithful, Upto
<1> QED BY <1>1, InitLogs, StepLogs, PTL DEF PollSpec

-----------------------------------------------------------------------------
(* The polls implement WaitContract.                                        *)

\* Nothing is returned before the wait is over.
Unanswered == pc # "done" => result = [status |-> "none", err |-> "none"]

LEMMA InitAnswer ==
  PollInit => Unanswered
BY DEF PollInit, Unanswered

LEMMA StepAnswer ==
  Unanswered /\ [PollNext]_pollVars => Unanswered'
BY DEF Unanswered, PollNext, Server, Client, Progress, Log, Answer, Check, Act,
       Verdict, Wake, ContextEnds, PollFails, Interrupted, Returns, pollVars

\* What the caller is told by a reply are the next entries of the log.
LEMMA ActHears ==
  ASSUME LogsInv, Act
  PROVE  Promise!HearMore /\ logs' = logs
<1>1. LogsInv'
  BY ActLogs
<1>2. logs' = logs /\ onLogs' = onLogs
  BY DEF Act, served
<1>3. CASE onLogs
  <2>1. /\ Len(forwarded) = logsOffset /\ logsOffset \in Nat
        /\ forwarded' = Upto(logsOffset')
    BY <1>1, <1>2, <1>3 DEF LogsInv
  <2>2. logsOffset' = logsOffset + reply.count /\ reply.count \in Nat
        /\ logsOffset + reply.count <= logs /\ logs \in Nat
    BY DEF Act, LogsInv
  <2>3. logsOffset' \in Len(forwarded)..logs
    BY <2>1, <2>2
  <2> QED BY <1>2, <1>3, <2>1, <2>3 DEF Promise!HearMore, Upto
<1>4. CASE ~onLogs
  BY <1>2, <1>4 DEF Promise!HearMore, Act
<1> QED BY <1>2, <1>3, <1>4

LEMMA InitPromise ==
  PollInit => Promise!Init
BY DEF PollInit, Promise!Init, Promise!Pending

LEMMA StepPromise ==
  VerdictInv /\ LogsInv /\ Unanswered /\ [PollNext]_pollVars
    => [Promise!Next]_(Promise!vars)
<1> SUFFICES ASSUME VerdictInv, LogsInv, Unanswered, [PollNext]_pollVars
             PROVE  [Promise!Next]_(Promise!vars)
  OBVIOUS
<1>1. CASE Progress
  <2>1. Promise!Progress
    BY <1>1 DEF Progress, Promise!Progress, Promise!Final
  <2> QED BY <2>1 DEF Promise!Next
<1>2. CASE Log
  <2>1. Promise!Log
    BY <1>2 DEF Log, Promise!Log, Promise!Final
  <2> QED BY <2>1 DEF Promise!Next
<1>3. CASE ContextEnds
  <2>1. Promise!ContextEnds
    BY <1>3 DEF ContextEnds, served, Promise!ContextEnds
  <2> QED BY <2>1 DEF Promise!Next
<1>4. CASE Act
  <2>1. Promise!HearMore /\ logs' = logs
    BY <1>4, ActHears
  <2>2. result = Promise!Pending /\ UNCHANGED <<status, onLogs, ended>>
    BY <1>4 DEF Act, Unanswered, served, Promise!Pending
  <2>3. CASE reply.status \in Final
    <3>1. status = reply.status /\ status \in Promise!Final
      BY <1>4, <2>3 DEF Act, VerdictInv, Promise!Final
    <3>2. result' = [status |-> status,
                     err |-> IF status = "ready" THEN "none" ELSE "build"]
      BY <1>4, <2>3, <3>1 DEF Act, Verdict, Returns
    <3>3. Promise!Conclude
      BY <2>1, <2>2, <3>1, <3>2 DEF Promise!Conclude
    <3> QED BY <3>3 DEF Promise!Next
  <2>4. CASE reply.status \notin Final
    <3>1. UNCHANGED result
      BY <1>4, <2>4 DEF Act, Verdict
    <3>2. Promise!Hear
      BY <2>1, <2>2, <3>1 DEF Promise!Hear
    <3> QED BY <3>2 DEF Promise!Next
  <2> QED BY <2>3, <2>4
<1>5. CASE PollFails \/ Interrupted \/ (Check /\ result' # result)
  <2>1. /\ result = Promise!Pending
        /\ UNCHANGED <<status, logs, onLogs, forwarded, ended>>
    BY <1>5 DEF PollFails, Interrupted, Check, Unanswered, served,
                Promise!Pending
  <2>2. \/ result' = [status |-> "none", err |-> "call"]
        \/ ended /\ result' = [status |-> "none", err |-> "context"]
    BY <1>5 DEF PollFails, Interrupted, Check, Returns
  <2>3. Promise!GiveUp
    BY <2>1, <2>2 DEF Promise!GiveUp
  <2> QED BY <2>3 DEF Promise!Next
<1>6. CASE \/ Answer \/ Wake \/ UNCHANGED pollVars
           \/ (Check /\ result' = result)
  <2>1. UNCHANGED Promise!vars
    BY <1>6 DEF Answer, Wake, Check, served, pollVars, Promise!vars
  <2> QED BY <2>1
<1> QED
  BY <1>1, <1>2, <1>3, <1>4, <1>5, <1>6 DEF PollNext, Server, Client

\* Whatever the log, the polls and the sleeps, a caller of WaitForBuild sees a
\* wait as the contract describes it.
THEOREM PollsImplementWait == PollSpec => ImplementsWait
<1>1. PollInit => Promise!Init
  BY InitPromise
<1>2. VerdictInv /\ LogsInv /\ Unanswered /\ [PollNext]_pollVars
        => [Promise!Next]_(Promise!vars)
  BY StepPromise
<1> QED
  BY <1>1, <1>2, InitVerdict, StepVerdict, InitLogs, StepLogs, InitAnswer,
     StepAnswer, PTL
  DEF PollSpec, ImplementsWait, Promise!Spec
=============================================================================
