--------------------------- MODULE BuilderProofs ---------------------------
(* The theorems about Builder: for any calls and Dockerfiles, of any length, *)
(* in any order.  What a loop computes is settled by induction over the      *)
(* numbers, for a set of them (SetInduction), once for each loop.            *)
EXTENDS Builder, FiniteSetTheorems, SequenceTheorems, WellFoundedInduction,
        TLAPS

-----------------------------------------------------------------------------
(* Loops.                                                                   *)

\* Induction over the numbers, for a set of them.
LEMMA SetInduction ==
  ASSUME NEW T, 0 \in T, \A n \in Nat : n \in T => n + 1 \in T
  PROVE  Nat \subseteq T
<1> SUFFICES ASSUME ~(Nat \subseteq T) PROVE FALSE
  OBVIOUS
<1> DEFINE U == Nat \ T
<1>1. U # {} /\ U \subseteq Nat
  OBVIOUS
<1>2. PICK x \in U : \A y \in U : <<y, x>> \notin OpToRel(<, Nat)
  BY <1>1, WFMin, NatLessThanWellFounded, Zenon
<1>3. x \in Nat /\ x \notin T /\ \A y \in U : ~(y < x)
  BY <1>2, Zenon DEF OpToRel
<1>4. x # 0
  BY <1>3
<1>5. x - 1 \in Nat /\ x - 1 < x /\ (x - 1) + 1 = x
  BY <1>3, <1>4
<1>6. x - 1 \in T
  BY <1>3, <1>5
<1> QED BY <1>3, <1>5, <1>6

\* A list of instructions is added one after the other.
LEMMA AddedSteps ==
  ASSUME NEW builder, NEW type, NEW list, Len(list) \in Nat
  PROVE  /\ Added(builder, type, list)[0] = builder
         /\ \A i \in 1 .. Len(list) :
              Added(builder, type, list)[i] =
                AddInstruction(Added(builder, type, list)[i - 1],
                               Instruction(type, list[i]))
<1> DEFINE G(s, i) == AddInstruction(s, Instruction(type, list[i]))
<1> DEFINE Loop(f, n) ==
             f = [i \in 0 .. n |-> IF i = 0 THEN builder ELSE G(f[i - 1], i)]
<1> DEFINE T == {n \in Nat : \E f : Loop(f, n)}
<1>1. Added(builder, type, list) = CHOOSE f : Loop(f, Len(list))
  BY DEF Added
<1> HIDE DEF G
<1>2. 0 \in T
  <2> DEFINE f == [i \in 0 .. 0 |-> builder]
  <2>1. Loop(f, 0)
    OBVIOUS
  <2> QED BY <2>1
<1>3. \A n \in Nat : n \in T => n + 1 \in T
  <2> TAKE n \in Nat
  <2> HAVE n \in T
  <2>1. PICK f : Loop(f, n)
    OBVIOUS
  <2> DEFINE g == [i \in 0 .. n + 1 |-> IF i = n + 1 THEN G(f[n], n + 1)
                                        ELSE f[i]]
  <2>2. \A i \in 0 .. n : f[i] = IF i = 0 THEN builder ELSE G(f[i - 1], i)
    BY <2>1
  <2>3. \A i \in 0 .. n : g[i] = f[i]
    OBVIOUS
  <2>4. g[n + 1] = G(f[n], n + 1)
    OBVIOUS
  <2>5. \A i \in 0 .. n + 1 :
          g[i] = IF i = 0 THEN builder ELSE G(g[i - 1], i)
    <3> TAKE i \in 0 .. n + 1
    <3> HIDE DEF g
    <3>1. CASE i = 0
      BY <2>2, <2>3, <3>1
    <3>2. CASE i = n + 1
      <4>1. g[n] = f[n] /\ i - 1 = n /\ i # 0
        BY <2>3, <3>2
      <4> QED BY <2>4, <3>2, <4>1
    <3>3. CASE i \in 1 .. n
      <4>1. i - 1 \in 0 .. n /\ i \in 0 .. n /\ i # 0
        BY <3>3
      <4> QED BY <2>2, <2>3, <4>1
    <3> QED BY <3>1, <3>2, <3>3
  <2>6. Loop(g, n + 1)
    <3>1. g = [i \in 0 .. n + 1 |-> g[i]]
      OBVIOUS
    <3> HIDE DEF g
    <3> QED BY <2>5, <3>1
  <2>7. \E h : Loop(h, n + 1)
    <3> HIDE DEF g, Loop
    <3> QED BY <2>6
  <2>8. n + 1 \in Nat
    OBVIOUS
  <2> HIDE DEF g, Loop
  <2> QED BY <2>7, <2>8
<1>4. \E f : Loop(f, Len(list))
  BY <1>2, <1>3, SetInduction
<1>5. Loop(Added(builder, type, list), Len(list))
  BY <1>1, <1>4, Zenon
<1> DEFINE added == Added(builder, type, list)
<1> HIDE DEF added
<1>6. \A i \in 0 .. Len(list) :
        added[i] = IF i = 0 THEN builder ELSE G(added[i - 1], i)
  BY <1>5 DEF added
<1>7. /\ added[0] = builder
      /\ \A i \in 1 .. Len(list) : added[i] = G(added[i - 1], i)
  BY <1>6
<1> QED BY <1>7 DEF added, G

\* A Dockerfile is read one line after the other.
LEMMA ReadingSteps ==
  ASSUME NEW lines, Len(lines) \in Nat
  PROVE  /\ Readings(lines)[0] = Reading
         /\ \A i \in 1 .. Len(lines) :
              Readings(lines)[i] = ReadLine(Readings(lines)[i - 1], lines[i])
<1> DEFINE G(s, i) == ReadLine(s, lines[i])
<1> DEFINE Loop(f, n) ==
             f = [i \in 0 .. n |-> IF i = 0 THEN Reading ELSE G(f[i - 1], i)]
<1> DEFINE T == {n \in Nat : \E f : Loop(f, n)}
<1>1. Readings(lines) = CHOOSE f : Loop(f, Len(lines))
  BY DEF Readings
<1> HIDE DEF G
<1>2. 0 \in T
  <2> DEFINE f == [i \in 0 .. 0 |-> Reading]
  <2>1. Loop(f, 0)
    OBVIOUS
  <2> QED BY <2>1
<1>3. \A n \in Nat : n \in T => n + 1 \in T
  <2> TAKE n \in Nat
  <2> HAVE n \in T
  <2>1. PICK f : Loop(f, n)
    OBVIOUS
  <2> DEFINE g == [i \in 0 .. n + 1 |-> IF i = n + 1 THEN G(f[n], n + 1)
                                        ELSE f[i]]
  <2>2. \A i \in 0 .. n : f[i] = IF i = 0 THEN Reading ELSE G(f[i - 1], i)
    BY <2>1
  <2>3. \A i \in 0 .. n : g[i] = f[i]
    OBVIOUS
  <2>4. g[n + 1] = G(f[n], n + 1)
    OBVIOUS
  <2>5. \A i \in 0 .. n + 1 :
          g[i] = IF i = 0 THEN Reading ELSE G(g[i - 1], i)
    <3> TAKE i \in 0 .. n + 1
    <3> HIDE DEF g
    <3>1. CASE i = 0
      BY <2>2, <2>3, <3>1
    <3>2. CASE i = n + 1
      <4>1. g[n] = f[n] /\ i - 1 = n /\ i # 0
        BY <2>3, <3>2
      <4> QED BY <2>4, <3>2, <4>1
    <3>3. CASE i \in 1 .. n
      <4>1. i - 1 \in 0 .. n /\ i \in 0 .. n /\ i # 0
        BY <3>3
      <4> QED BY <2>2, <2>3, <4>1
    <3> QED BY <3>1, <3>2, <3>3
  <2>6. Loop(g, n + 1)
    <3>1. g = [i \in 0 .. n + 1 |-> g[i]]
      OBVIOUS
    <3> HIDE DEF g
    <3> QED BY <2>5, <3>1
  <2>7. \E h : Loop(h, n + 1)
    <3> HIDE DEF g, Loop
    <3> QED BY <2>6
  <2>8. n + 1 \in Nat
    OBVIOUS
  <2> HIDE DEF g, Loop
  <2> QED BY <2>7, <2>8
<1>4. \E f : Loop(f, Len(lines))
  BY <1>2, <1>3, SetInduction
<1>5. Loop(Readings(lines), Len(lines))
  BY <1>1, <1>4, Zenon
<1> DEFINE states == Readings(lines)
<1> HIDE DEF states
<1>6. \A i \in 0 .. Len(lines) :
        states[i] = IF i = 0 THEN Reading ELSE G(states[i - 1], i)
  BY <1>5 DEF states
<1>7. /\ states[0] = Reading
      /\ \A i \in 1 .. Len(lines) : states[i] = G(states[i - 1], i)
  BY <1>6
<1> QED BY <1>7 DEF states, G

\* The instructions that are sent are picked one after the other.
LEMMA KeptSteps ==
  ASSUME NEW instructions, Len(instructions) \in Nat
  PROVE  /\ Kept(instructions)[0] = <<>>
         /\ \A i \in 1 .. Len(instructions) :
              Kept(instructions)[i] =
                IF instructions[i].type \in Buildable
                THEN Append(Kept(instructions)[i - 1], instructions[i])
                ELSE Kept(instructions)[i - 1]
<1> DEFINE G(s, i) == IF instructions[i].type \in Buildable
                THEN Append(s, instructions[i]) ELSE s
<1> DEFINE Loop(f, n) ==
             f = [i \in 0 .. n |-> IF i = 0 THEN <<>> ELSE G(f[i - 1], i)]
<1> DEFINE T == {n \in Nat : \E f : Loop(f, n)}
<1>1. Kept(instructions) = CHOOSE f : Loop(f, Len(instructions))
  BY DEF Kept
<1> HIDE DEF G
<1>2. 0 \in T
  <2> DEFINE f == [i \in 0 .. 0 |-> <<>>]
  <2>1. Loop(f, 0)
    OBVIOUS
  <2> QED BY <2>1
<1>3. \A n \in Nat : n \in T => n + 1 \in T
  <2> TAKE n \in Nat
  <2> HAVE n \in T
  <2>1. PICK f : Loop(f, n)
    OBVIOUS
  <2> DEFINE g == [i \in 0 .. n + 1 |-> IF i = n + 1 THEN G(f[n], n + 1)
                                        ELSE f[i]]
  <2>2. \A i \in 0 .. n : f[i] = IF i = 0 THEN <<>> ELSE G(f[i - 1], i)
    BY <2>1
  <2>3. \A i \in 0 .. n : g[i] = f[i]
    OBVIOUS
  <2>4. g[n + 1] = G(f[n], n + 1)
    OBVIOUS
  <2>5. \A i \in 0 .. n + 1 :
          g[i] = IF i = 0 THEN <<>> ELSE G(g[i - 1], i)
    <3> TAKE i \in 0 .. n + 1
    <3> HIDE DEF g
    <3>1. CASE i = 0
      BY <2>2, <2>3, <3>1
    <3>2. CASE i = n + 1
      <4>1. g[n] = f[n] /\ i - 1 = n /\ i # 0
        BY <2>3, <3>2
      <4> QED BY <2>4, <3>2, <4>1
    <3>3. CASE i \in 1 .. n
      <4>1. i - 1 \in 0 .. n /\ i \in 0 .. n /\ i # 0
        BY <3>3
      <4> QED BY <2>2, <2>3, <4>1
    <3> QED BY <3>1, <3>2, <3>3
  <2>6. Loop(g, n + 1)
    <3>1. g = [i \in 0 .. n + 1 |-> g[i]]
      OBVIOUS
    <3> HIDE DEF g
    <3> QED BY <2>5, <3>1
  <2>7. \E h : Loop(h, n + 1)
    <3> HIDE DEF g, Loop
    <3> QED BY <2>6
  <2>8. n + 1 \in Nat
    OBVIOUS
  <2> HIDE DEF g, Loop
  <2> QED BY <2>7, <2>8
<1>4. \E f : Loop(f, Len(instructions))
  BY <1>2, <1>3, SetInduction
<1>5. Loop(Kept(instructions), Len(instructions))
  BY <1>1, <1>4, Zenon
<1> DEFINE kept == Kept(instructions)
<1> HIDE DEF kept
<1>6. \A i \in 0 .. Len(instructions) :
        kept[i] = IF i = 0 THEN <<>> ELSE G(kept[i - 1], i)
  BY <1>5 DEF kept
<1>7. /\ kept[0] = <<>>
      /\ \A i \in 1 .. Len(instructions) : kept[i] = G(kept[i - 1], i)
  BY <1>6
<1> QED BY <1>7 DEF kept, G

\* Steps are done one after the other.
LEMMA DoingSteps ==
  ASSUME NEW steps, Len(steps) \in Nat
  PROVE  /\ Doing(steps)[0] = Stage
         /\ \A i \in 1 .. Len(steps) :
              Doing(steps)[i] =
                StepDoes(Doing(steps)[i - 1], steps[i])
<1> DEFINE G(s, i) == StepDoes(s, steps[i])
<1> DEFINE Loop(f, n) ==
             f = [i \in 0 .. n |-> IF i = 0 THEN Stage ELSE G(f[i - 1], i)]
<1> DEFINE T == {n \in Nat : \E f : Loop(f, n)}
<1>1. Doing(steps) = CHOOSE f : Loop(f, Len(steps))
  BY DEF Doing
<1> HIDE DEF G
<1>2. 0 \in T
  <2> DEFINE f == [i \in 0 .. 0 |-> Stage]
  <2>1. Loop(f, 0)
    OBVIOUS
  <2> QED BY <2>1
<1>3. \A n \in Nat : n \in T => n + 1 \in T
  <2> TAKE n \in Nat
  <2> HAVE n \in T
  <2>1. PICK f : Loop(f, n)
    OBVIOUS
  <2> DEFINE g == [i \in 0 .. n + 1 |-> IF i = n + 1 THEN G(f[n], n + 1)
                                        ELSE f[i]]
  <2>2. \A i \in 0 .. n : f[i] = IF i = 0 THEN Stage ELSE G(f[i - 1], i)
    BY <2>1
  <2>3. \A i \in 0 .. n : g[i] = f[i]
    OBVIOUS
  <2>4. g[n + 1] = G(f[n], n + 1)
    OBVIOUS
  <2>5. \A i \in 0 .. n + 1 :
          g[i] = IF i = 0 THEN Stage ELSE G(g[i - 1], i)
    <3> TAKE i \in 0 .. n + 1
    <3> HIDE DEF g
    <3>1. CASE i = 0
      BY <2>2, <2>3, <3>1
    <3>2. CASE i = n + 1
      <4>1. g[n] = f[n] /\ i - 1 = n /\ i # 0
        BY <2>3, <3>2
      <4> QED BY <2>4, <3>2, <4>1
    <3>3. CASE i \in 1 .. n
      <4>1. i - 1 \in 0 .. n /\ i \in 0 .. n /\ i # 0
        BY <3>3
      <4> QED BY <2>2, <2>3, <4>1
    <3> QED BY <3>1, <3>2, <3>3
  <2>6. Loop(g, n + 1)
    <3>1. g = [i \in 0 .. n + 1 |-> g[i]]
      OBVIOUS
    <3> HIDE DEF g
    <3> QED BY <2>5, <3>1
  <2>7. \E h : Loop(h, n + 1)
    <3> HIDE DEF g, Loop
    <3> QED BY <2>6
  <2>8. n + 1 \in Nat
    OBVIOUS
  <2> HIDE DEF g, Loop
  <2> QED BY <2>7, <2>8
<1>4. \E f : Loop(f, Len(steps))
  BY <1>2, <1>3, SetInduction
<1>5. Loop(Doing(steps), Len(steps))
  BY <1>1, <1>4, Zenon
<1> DEFINE doing == Doing(steps)
<1> HIDE DEF doing
<1>6. \A i \in 0 .. Len(steps) :
        doing[i] = IF i = 0 THEN Stage ELSE G(doing[i - 1], i)
  BY <1>5 DEF doing
<1>7. /\ doing[0] = Stage
      /\ \A i \in 1 .. Len(steps) : doing[i] = G(doing[i - 1], i)
  BY <1>6
<1> QED BY <1>7 DEF doing, G
\* 
\* The map that one pair of an ENV line sets.
PairAt(args, i) == [k \in {args[3 * i - 2]} |-> args[3 * i - 1]]

\* The pairs of an ENV line take effect one after the other.
LEMMA SettingSteps ==
  ASSUME NEW args, NEW envs, Pairs(args) \in Nat
  PROVE  /\ Setting(args, envs)[0] = envs
         /\ \A i \in 1 .. Pairs(args) :
              Setting(args, envs)[i] =
                Over(PairAt(args, i), Setting(args, envs)[i - 1])
<1> DEFINE G(s, i) == Over(PairAt(args, i), s)
<1> DEFINE Loop(f, n) ==
             f = [i \in 0 .. n |-> IF i = 0 THEN envs ELSE G(f[i - 1], i)]
<1> DEFINE T == {n \in Nat : \E f : Loop(f, n)}
<1>1. Setting(args, envs) = CHOOSE f : Loop(f, Pairs(args))
  BY Zenon DEF Setting, PairAt
<1> HIDE DEF G
<1>2. 0 \in T
  <2> DEFINE f == [i \in 0 .. 0 |-> envs]
  <2>1. Loop(f, 0)
    OBVIOUS
  <2> QED BY <2>1
<1>3. \A n \in Nat : n \in T => n + 1 \in T
  <2> TAKE n \in Nat
  <2> HAVE n \in T
  <2>1. PICK f : Loop(f, n)
    OBVIOUS
  <2> DEFINE g == [i \in 0 .. n + 1 |-> IF i = n + 1 THEN G(f[n], n + 1)
                                        ELSE f[i]]
  <2>2. \A i \in 0 .. n : f[i] = IF i = 0 THEN envs ELSE G(f[i - 1], i)
    BY <2>1
  <2>3. \A i \in 0 .. n : g[i] = f[i]
    OBVIOUS
  <2>4. g[n + 1] = G(f[n], n + 1)
    OBVIOUS
  <2>5. \A i \in 0 .. n + 1 :
          g[i] = IF i = 0 THEN envs ELSE G(g[i - 1], i)
    <3> TAKE i \in 0 .. n + 1
    <3> HIDE DEF g
    <3>1. CASE i = 0
      BY <2>2, <2>3, <3>1
    <3>2. CASE i = n + 1
      <4>1. g[n] = f[n] /\ i - 1 = n /\ i # 0
        BY <2>3, <3>2
      <4> QED BY <2>4, <3>2, <4>1
    <3>3. CASE i \in 1 .. n
      <4>1. i - 1 \in 0 .. n /\ i \in 0 .. n /\ i # 0
        BY <3>3
      <4> QED BY <2>2, <2>3, <4>1
    <3> QED BY <3>1, <3>2, <3>3
  <2>6. Loop(g, n + 1)
    <3>1. g = [i \in 0 .. n + 1 |-> g[i]]
      OBVIOUS
    <3> HIDE DEF g
    <3> QED BY <2>5, <3>1
  <2>7. \E h : Loop(h, n + 1)
    <3> HIDE DEF g, Loop
    <3> QED BY <2>6
  <2>8. n + 1 \in Nat
    OBVIOUS
  <2> HIDE DEF g, Loop
  <2> QED BY <2>7, <2>8
<1>4. \E f : Loop(f, Pairs(args))
  BY <1>2, <1>3, SetInduction
<1>5. Loop(Setting(args, envs), Pairs(args))
  BY <1>1, <1>4, Zenon
<1> DEFINE set == Setting(args, envs)
<1> HIDE DEF set
<1>6. \A i \in 0 .. Pairs(args) :
        set[i] = IF i = 0 THEN envs ELSE G(set[i - 1], i)
  BY <1>5 DEF set
<1>7. /\ set[0] = envs
      /\ \A i \in 1 .. Pairs(args) : set[i] = G(set[i - 1], i)
  BY <1>6
<1> QED BY <1>7 DEF set, G

\* The lines of a Dockerfile take effect one after the other.
LEMMA SayingSteps ==
  ASSUME NEW lines, Len(lines) \in Nat
  PROVE  /\ Saying(lines)[0] = Stage
         /\ \A i \in 1 .. Len(lines) :
              Saying(lines)[i] =
                LineDoes(Saying(lines)[i - 1], lines[i])
<1> DEFINE G(s, i) == LineDoes(s, lines[i])
<1> DEFINE Loop(f, n) ==
             f = [i \in 0 .. n |-> IF i = 0 THEN Stage ELSE G(f[i - 1], i)]
<1> DEFINE T == {n \in Nat : \E f : Loop(f, n)}
<1>1. Saying(lines) = CHOOSE f : Loop(f, Len(lines))
  BY DEF Saying
<1> HIDE DEF G
<1>2. 0 \in T
  <2> DEFINE f == [i \in 0 .. 0 |-> Stage]
  <2>1. Loop(f, 0)
    OBVIOUS
  <2> QED BY <2>1
<1>3. \A n \in Nat : n \in T => n + 1 \in T
  <2> TAKE n \in Nat
  <2> HAVE n \in T
  <2>1. PICK f : Loop(f, n)
    OBVIOUS
  <2> DEFINE g == [i \in 0 .. n + 1 |-> IF i = n + 1 THEN G(f[n], n + 1)
                                        ELSE f[i]]
  <2>2. \A i \in 0 .. n : f[i] = IF i = 0 THEN Stage ELSE G(f[i - 1], i)
    BY <2>1
  <2>3. \A i \in 0 .. n : g[i] = f[i]
    OBVIOUS
  <2>4. g[n + 1] = G(f[n], n + 1)
    OBVIOUS
  <2>5. \A i \in 0 .. n + 1 :
          g[i] = IF i = 0 THEN Stage ELSE G(g[i - 1], i)
    <3> TAKE i \in 0 .. n + 1
    <3> HIDE DEF g
    <3>1. CASE i = 0
      BY <2>2, <2>3, <3>1
    <3>2. CASE i = n + 1
      <4>1. g[n] = f[n] /\ i - 1 = n /\ i # 0
        BY <2>3, <3>2
      <4> QED BY <2>4, <3>2, <4>1
    <3>3. CASE i \in 1 .. n
      <4>1. i - 1 \in 0 .. n /\ i \in 0 .. n /\ i # 0
        BY <3>3
      <4> QED BY <2>2, <2>3, <4>1
    <3> QED BY <3>1, <3>2, <3>3
  <2>6. Loop(g, n + 1)
    <3>1. g = [i \in 0 .. n + 1 |-> g[i]]
      OBVIOUS
    <3> HIDE DEF g
    <3> QED BY <2>5, <3>1
  <2>7. \E h : Loop(h, n + 1)
    <3> HIDE DEF g, Loop
    <3> QED BY <2>6
  <2>8. n + 1 \in Nat
    OBVIOUS
  <2> HIDE DEF g, Loop
  <2> QED BY <2>7, <2>8
<1>4. \E f : Loop(f, Len(lines))
  BY <1>2, <1>3, SetInduction
<1>5. Loop(Saying(lines), Len(lines))
  BY <1>1, <1>4, Zenon
<1> DEFINE saying == Saying(lines)
<1> HIDE DEF saying
<1>6. \A i \in 0 .. Len(lines) :
        saying[i] = IF i = 0 THEN Stage ELSE G(saying[i - 1], i)
  BY <1>5 DEF saying
<1>7. /\ saying[0] = Stage
      /\ \A i \in 1 .. Len(lines) : saying[i] = G(saying[i - 1], i)
  BY <1>6
<1> QED BY <1>7 DEF saying, G

-----------------------------------------------------------------------------
(* Values.                                                                  *)

\* A sequence of anything.
IsSequence(s) == Len(s) \in Nat /\ s = [k \in 1 .. Len(s) |-> s[k]]

\* Append, for a sequence of anything.
LEMMA Appended ==
  ASSUME NEW s, NEW e, IsSequence(s)
  PROVE  /\ IsSequence(Append(s, e)) /\ Len(Append(s, e)) = Len(s) + 1
         /\ Append(s, e)[Len(s) + 1] = e
         /\ \A k \in 1 .. Len(s) : Append(s, e)[k] = s[k]
<1> DEFINE S == {s[k] : k \in 1 .. Len(s)} \cup {e}
<1>1. s \in Seq(S)
  <2>1. \A k \in 1 .. Len(s) : s[k] \in S
    OBVIOUS
  <2> HIDE DEF S
  <2> QED BY <2>1 DEF IsSequence
<1>2. e \in S
  OBVIOUS
<1> HIDE DEF S
<1>3. /\ Append(s, e) \in Seq(S) /\ Len(Append(s, e)) = Len(s) + 1
      /\ Append(s, e)[Len(s) + 1] = e
      /\ \A k \in 1 .. Len(s) : Append(s, e)[k] = s[k]
  BY <1>1, <1>2
<1>4. IsSequence(Append(s, e))
  <2> DEFINE t == Append(s, e)
  <2>1. t \in Seq(S)
    BY <1>3
  <2> HIDE DEF t
  <2>2. Len(t) \in Nat /\ t = [k \in 1 .. Len(t) |-> t[k]]
    BY <2>1
  <2> QED BY <2>2 DEF t, IsSequence
<1> QED BY <1>3, <1>4

\* A Builder.
IsBuilder(builder) ==
  /\ builder = [baseImage |-> builder.baseImage,
                baseTemplate |-> builder.baseTemplate,
                registry |-> builder.registry,
                startCmd |-> builder.startCmd, readyCmd |-> builder.readyCmd,
                force |-> builder.force,
                forceNextLayer |-> builder.forceNextLayer,
                instructions |-> builder.instructions]
  /\ IsSequence(builder.instructions)

\* New makes a builder.
LEMMA NewIs == \A option : IsBuilder(New(option))
<1>1. IsSequence(<<>>)
  BY DEF IsSequence
<1> QED BY <1>1 DEF IsBuilder, New

\* What AddInstruction does, and what it leaves alone.
OneMore(builder, more) ==
  LET n == Len(builder.instructions) IN
  /\ IsBuilder(more)
  /\ more.baseImage = builder.baseImage
  /\ more.baseTemplate = builder.baseTemplate
  /\ more.registry = builder.registry
  /\ more.force = builder.force
  /\ more.forceNextLayer = FALSE
  /\ Len(more.instructions) = n + 1
  /\ more.instructions[n + 1].force = builder.forceNextLayer
  /\ \A k \in 1 .. n : more.instructions[k] = builder.instructions[k]

\* AddInstruction adds one instruction and uses the flag up.
LEMMA AddedOne ==
  ASSUME NEW builder, NEW type, NEW args, IsBuilder(builder)
  PROVE  OneMore(builder, AddInstruction(builder, Instruction(type, args)))
<1> DEFINE more == AddInstruction(builder, Instruction(type, args))
<1> DEFINE inst == [Instruction(type, args) EXCEPT
                      !.force = builder.forceNextLayer]
<1>1. inst.force = builder.forceNextLayer
  BY DEF Instruction
<1>2. more = [builder EXCEPT !.instructions = Append(@, inst),
                             !.forceNextLayer = FALSE]
  BY DEF AddInstruction
<1> HIDE DEF inst, more
<1>3. /\ more.baseImage = builder.baseImage
      /\ more.baseTemplate = builder.baseTemplate
      /\ more.registry = builder.registry
      /\ more.startCmd = builder.startCmd /\ more.readyCmd = builder.readyCmd
      /\ more.force = builder.force
      /\ more.forceNextLayer = FALSE
      /\ more.instructions = Append(builder.instructions, inst)
      /\ more = [baseImage |-> more.baseImage,
                baseTemplate |-> more.baseTemplate,
                registry |-> more.registry,
                startCmd |-> more.startCmd, readyCmd |-> more.readyCmd,
                force |-> more.force,
                forceNextLayer |-> more.forceNextLayer,
                instructions |-> more.instructions]
  BY <1>2 DEF IsBuilder
<1>4. IsSequence(builder.instructions)
  BY DEF IsBuilder
<1> DEFINE s == builder.instructions
<1>5. /\ IsSequence(more.instructions)
      /\ Len(more.instructions) = Len(s) + 1
      /\ more.instructions[Len(s) + 1] = inst
      /\ \A k \in 1 .. Len(s) : more.instructions[k] = s[k]
  BY <1>3, <1>4, Appended
<1> QED BY <1>1, <1>3, <1>5 DEF more, IsBuilder, OneMore

\* What the parser's builder is like: nothing of it was asked of another
\* builder, and nothing of it is forced.
Bare(builder) == builder.baseTemplate = "" /\ builder.registry = ""
Unforced(builder) ==
  \A k \in 1 .. Len(builder.instructions) : ~builder.instructions[k].force
Plain(builder) == /\ IsBuilder(builder) /\ Bare(builder)
                  /\ builder.forceNextLayer = FALSE
                  /\ Unforced(builder)

\* A new builder is plain, and one made without options starts from the
\* platform's image.
LEMMA PlainNew == Plain(New("")) /\ New("").baseImage = BaseImage
<1>1. /\ Bare(New("")) /\ New("").forceNextLayer = FALSE
      /\ New("").baseImage = BaseImage
  BY DEF New, Bare
<1>2. New("").instructions = <<>>
  BY DEF New
<1>3. Unforced(New(""))
  <2> DEFINE none == New("").instructions
  <2> HIDE DEF none
  <2>1. Len(none) = 0
    <3>1. none = <<>>
      BY <1>2, Zenon DEF none
    <3> QED BY <3>1
  <2>2. \A k \in 1 .. Len(none) : ~none[k].force
    BY <2>1
  <2> QED BY <2>2 DEF Unforced, none
<1> QED BY <1>1, <1>3, NewIs DEF Plain

\* Adding an instruction keeps a plain builder plain ...
LEMMA PlainAdded ==
  ASSUME NEW builder, NEW type, NEW args, Plain(builder)
  PROVE  LET more == AddInstruction(builder, Instruction(type, args))
         IN Plain(more) /\ more.baseImage = builder.baseImage
<1> DEFINE more == AddInstruction(builder, Instruction(type, args))
<1> DEFINE n == Len(builder.instructions)
<1>1. OneMore(builder, more)
  BY AddedOne DEF Plain
<1> HIDE DEF more
<1>2. Bare(more)
  BY <1>1 DEF OneMore, Plain, Bare
<1>3. Unforced(more)
  <2>1. n \in Nat
    BY DEF Plain, IsBuilder, IsSequence
  <2>2. \A k \in 1 .. n : ~builder.instructions[k].force
    BY DEF Plain, Unforced
  <2>3. builder.forceNextLayer = FALSE
    BY DEF Plain
  <2>4. /\ Len(more.instructions) = n + 1
        /\ more.instructions[n + 1].force = builder.forceNextLayer
        /\ \A k \in 1 .. n : more.instructions[k] = builder.instructions[k]
    BY <1>1 DEF OneMore
  <2>5. ASSUME NEW k \in 1 .. n + 1 PROVE ~more.instructions[k].force
    <3>1. CASE k \in 1 .. n
      BY <2>2, <2>4, <3>1
    <3>2. CASE k = n + 1
      BY <2>3, <2>4, <3>2
    <3> QED BY <2>1, <3>1, <3>2
  <2> QED BY <2>4, <2>5 DEF Unforced
<1> QED BY <1>1, <1>2, <1>3 DEF OneMore, Plain, more

\* ... and so does adding a list of them.
LEMMA PlainEach ==
  ASSUME NEW builder, NEW type, NEW list, Len(list) \in Nat, Plain(builder)
  PROVE  LET more == AddEach(builder, type, list)
         IN Plain(more) /\ more.baseImage = builder.baseImage
<1> DEFINE added == Added(builder, type, list)
<1> DEFINE T == {i \in Nat : i <= Len(list) =>
                   Plain(added[i]) /\ added[i].baseImage = builder.baseImage}
<1>1. added[0] = builder
  BY AddedSteps
<1>2. 0 \in T
  <2>1. Plain(added[0]) /\ added[0].baseImage = builder.baseImage
    BY <1>1
  <2> QED BY <2>1
<1>3. \A n \in Nat : n \in T => n + 1 \in T
  <2> TAKE n \in Nat
  <2> HAVE n \in T
  <2> DEFINE next == AddInstruction(added[n], Instruction(type, list[n + 1]))
  <2>1. ASSUME n + 1 <= Len(list)
        PROVE  Plain(added[n + 1])
               /\ added[n + 1].baseImage = builder.baseImage
    <3>1. n + 1 \in 1 .. Len(list) /\ (n + 1) - 1 = n /\ n <= Len(list)
      BY <2>1
    <3>2. added[n + 1] = next
      <4> HIDE DEF added
      <4>1. \A i \in 1 .. Len(list) :
              added[i] = AddInstruction(added[i - 1],
                                        Instruction(type, list[i]))
        BY AddedSteps DEF added
      <4>2. added[n + 1] =
              AddInstruction(added[(n + 1) - 1], Instruction(type, list[n + 1]))
        BY <3>1, <4>1, Zenon
      <4> QED BY <3>1, <4>2
    <3>3. Plain(added[n]) /\ added[n].baseImage = builder.baseImage
      BY <3>1
    <3>4. Plain(next) /\ next.baseImage = added[n].baseImage
      BY <3>3, PlainAdded
    <3> HIDE DEF next, added
    <3> QED BY <3>2, <3>3, <3>4
  <2> HIDE DEF added
  <2> QED BY <2>1
<1>4. Len(list) \in T
  <2> HIDE DEF T
  <2> QED BY <1>2, <1>3, SetInduction
<1>5. Plain(added[Len(list)]) /\ added[Len(list)].baseImage = builder.baseImage
  <2> HIDE DEF added
  <2> QED BY <1>4
<1> QED BY <1>5 DEF AddEach

\* What the methods that add no instruction do, and leave alone.
Rebased(builder, more, image, template, auth) ==
  /\ IsBuilder(more)
  /\ more.baseImage = image /\ more.baseTemplate = template
  /\ more.registry = auth
  /\ more.forceNextLayer = builder.forceNextLayer
  /\ more.instructions = builder.instructions

\* Setting the four fields of a base leaves the rest alone.
LEMMA Replaced ==
  ASSUME NEW builder, NEW image, NEW template, NEW auth, NEW force,
         IsBuilder(builder)
  PROVE  Rebased(builder,
                 [builder EXCEPT !.baseImage = image,
                                 !.baseTemplate = template,
                                 !.registry = auth, !.force = force],
                 image, template, auth)
<1> DEFINE more == [builder EXCEPT !.baseImage = image,
                                   !.baseTemplate = template,
                                   !.registry = auth, !.force = force]
<1>0. more = [builder EXCEPT !.baseImage = image,
                             !.baseTemplate = template,
                             !.registry = auth, !.force = force]
  OBVIOUS
<1> HIDE DEF more
<1>1. /\ more.baseImage = image /\ more.baseTemplate = template
      /\ more.registry = auth /\ more.force = force
      /\ more.startCmd = builder.startCmd /\ more.readyCmd = builder.readyCmd
      /\ more.forceNextLayer = builder.forceNextLayer
      /\ more.instructions = builder.instructions
      /\ more = [baseImage |-> more.baseImage,
                 baseTemplate |-> more.baseTemplate,
                 registry |-> more.registry,
                 startCmd |-> more.startCmd, readyCmd |-> more.readyCmd,
                 force |-> more.force,
                 forceNextLayer |-> more.forceNextLayer,
                 instructions |-> more.instructions]
  BY <1>0 DEF IsBuilder
<1>2. IsBuilder(more)
  BY <1>1 DEF IsBuilder
<1> QED BY <1>1, <1>2 DEF Rebased, more

\* FromImageWithAuth sets the image and its credentials.
LEMMA BaseSet ==
  ASSUME NEW builder, NEW image, NEW auth, IsBuilder(builder)
  PROVE  Rebased(builder, FromImageWithAuth(builder, image, auth),
                 image, "", auth)
<1> DEFINE force == builder.force \/ builder.forceNextLayer
<1>1. FromImageWithAuth(builder, image, auth)
        = [builder EXCEPT !.baseImage = image, !.baseTemplate = "",
                          !.registry = auth, !.force = force]
  BY Zenon DEF FromImageWithAuth
<1> HIDE DEF force
<1> DEFINE none == ""
<1> HIDE DEF none
<1>2. Rebased(builder, [builder EXCEPT !.baseImage = image,
                          !.baseTemplate = none,
                          !.registry = auth, !.force = force],
              image, none, auth)
  BY Replaced
<1> QED BY <1>1, <1>2, Zenon DEF none

\* FromTemplate sets the template and drops image and credentials.
LEMMA TemplateSet ==
  ASSUME NEW builder, NEW template, IsBuilder(builder)
  PROVE  Rebased(builder, FromTemplate(builder, template), "", template, "")
<1> DEFINE force == builder.force \/ builder.forceNextLayer
<1> DEFINE none == ""
<1> DEFINE more == [builder EXCEPT !.baseImage = none,
                                   !.baseTemplate = template,
                                   !.registry = none, !.force = force]
<1>1. FromTemplate(builder, template) = more
  <2> HIDE DEF force
  <2>1. FromTemplate(builder, template)
          = [builder EXCEPT !.baseTemplate = template, !.baseImage = "",
                            !.registry = "", !.force = force]
    BY Zenon DEF FromTemplate, force
  <2> HIDE DEF none
  <2>2. [builder EXCEPT !.baseTemplate = template, !.baseImage = none,
                        !.registry = none, !.force = force] = more
    BY DEF IsBuilder
  <2> HIDE DEF more
  <2> QED BY <2>1, <2>2, Zenon DEF none
<1> HIDE DEF force, none
<1>2. Rebased(builder, more, none, template, none)
  BY Replaced
<1> HIDE DEF more
<1> QED BY <1>1, <1>2, Zenon DEF none

\* SetStartCmd leaves base and instructions alone.
LEMMA StartSet ==
  ASSUME NEW builder, NEW start, NEW ready, IsBuilder(builder)
  PROVE  Rebased(builder, SetStartCmd(builder, start, ready),
                 builder.baseImage, builder.baseTemplate, builder.registry)
<1> DEFINE more == SetStartCmd(builder, start, ready)
<1>0. more = [builder EXCEPT !.startCmd = start, !.readyCmd = ready]
  BY DEF SetStartCmd
<1> HIDE DEF more
<1>1. /\ more.baseImage = builder.baseImage
      /\ more.baseTemplate = builder.baseTemplate
      /\ more.registry = builder.registry /\ more.force = builder.force
      /\ more.startCmd = start /\ more.readyCmd = ready
      /\ more.forceNextLayer = builder.forceNextLayer
      /\ more.instructions = builder.instructions
      /\ more = [baseImage |-> more.baseImage,
                 baseTemplate |-> more.baseTemplate,
                 registry |-> more.registry,
                 startCmd |-> more.startCmd, readyCmd |-> more.readyCmd,
                 force |-> more.force,
                 forceNextLayer |-> more.forceNextLayer,
                 instructions |-> more.instructions]
  BY <1>0 DEF IsBuilder
<1>2. IsBuilder(more)
  BY <1>1 DEF IsBuilder
<1> QED BY <1>1, <1>2 DEF Rebased, more

\* A plain builder stays plain under an image with no credentials ...
LEMMA PlainRebased ==
  ASSUME NEW builder, NEW more, NEW image, Plain(builder),
         Rebased(builder, more, image, "", "")
  PROVE  Plain(more) /\ more.baseImage = image
<1>1. Bare(more)
  BY DEF Rebased, Bare
<1>2. Unforced(more)
  BY DEF Plain, Unforced, Rebased
<1> QED BY <1>1, <1>2 DEF Plain, Rebased

\* ... which is what a FROM line gives it ...
LEMMA PlainImage ==
  ASSUME NEW builder, NEW image, Plain(builder)
  PROVE  LET more == FromImageWithAuth(builder, image, "")
         IN Plain(more) /\ more.baseImage = image
<1>1. IsBuilder(builder)
  BY DEF Plain
<1>2. Rebased(builder, FromImageWithAuth(builder, image, ""), image, "", "")
  BY <1>1, BaseSet
<1> QED BY <1>2, PlainRebased

\* ... and under a start command.
LEMMA PlainStart ==
  ASSUME NEW builder, NEW start, NEW ready, Plain(builder)
  PROVE  LET more == SetStartCmd(builder, start, ready)
         IN Plain(more) /\ more.baseImage = builder.baseImage
<1>1. IsBuilder(builder) /\ builder.baseTemplate = "" /\ builder.registry = ""
  BY DEF Plain, Bare
<1>2. Rebased(builder, SetStartCmd(builder, start, ready),
              builder.baseImage, "", "")
  BY <1>1, StartSet, Zenon
<1> QED BY <1>2, PlainRebased

\* One line but a FROM line: the builder stays plain and keeps its image.
LEMMA PlainOne ==
  ASSUME NEW builder, NEW line, Plain(builder), line.name \in Single
  PROVE  LET arg == line.args[1]
             more == CASE line.name = "RUN" -> RunCmd(builder, arg)
                       [] line.name = "WORKDIR" -> SetWorkdir(builder, arg)
                       [] line.name = "USER" -> SetUser(builder, arg)
                       [] OTHER -> SetStartCmd(builder, arg, "")
         IN Plain(more) /\ more.baseImage = builder.baseImage
<1> DEFINE arg == line.args[1]
<1> DEFINE Fine(more) == Plain(more) /\ more.baseImage = builder.baseImage
<1>1. Fine(RunCmd(builder, arg))
  BY PlainAdded DEF RunCmd
<1>2. Fine(SetWorkdir(builder, arg))
  BY PlainAdded DEF SetWorkdir
<1>3. Fine(SetUser(builder, arg))
  BY PlainAdded DEF SetUser
<1>4. Fine(SetStartCmd(builder, arg, ""))
  BY PlainStart
<1> HIDE DEF Fine, arg
<1>5. Fine(CASE line.name = "RUN" -> RunCmd(builder, arg)
             [] line.name = "WORKDIR" -> SetWorkdir(builder, arg)
             [] line.name = "USER" -> SetUser(builder, arg)
             [] OTHER -> SetStartCmd(builder, arg, ""))
  <2>1. CASE line.name = "RUN"
    BY <1>1, <2>1
  <2>2. CASE line.name = "WORKDIR"
    BY <1>2, <2>2
  <2>3. CASE line.name = "USER"
    BY <1>3, <2>3
  <2>4. CASE line.name \notin {"RUN", "WORKDIR", "USER"}
    BY <1>4, <2>4
  <2> QED BY <2>1, <2>2, <2>3, <2>4
<1> QED BY <1>5 DEF Fine, arg

\* A parse after i lines.
Source(lines, i, image) ==
  \E j \in 1 .. i : lines[j].name = "FROM" /\ image = Names(lines[j])
ReadingInv(s, lines, i) ==
  /\ s = [builder |-> s.builder, seenFrom |-> s.seenFrom, ok |-> s.ok]
  /\ s.seenFrom \in BOOLEAN
  /\ Plain(s.builder)
  /\ ~s.seenFrom => s.builder.baseImage = BaseImage
  /\ s.seenFrom => Source(lines, i, s.builder.baseImage)

\* An image named by an earlier line is named by a line.
LEMMA SourceGrows ==
  ASSUME NEW lines, NEW i \in Nat, NEW image, Source(lines, i, image)
  PROVE  Source(lines, i + 1, image)
<1>1. \A j \in 1 .. i : j \in 1 .. i + 1
  OBVIOUS
<1> QED BY <1>1, Zenon DEF Source

\* A line that changes nothing keeps the invariant of the parse ...
LEMMA StillReading ==
  ASSUME NEW lines, NEW i \in Nat, NEW s, ReadingInv(s, lines, i)
  PROVE  ReadingInv(s, lines, i + 1)
  BY SourceGrows, Zenon DEF ReadingInv

\* ... as does one that is refused ...
LEMMA Refused ==
  ASSUME NEW lines, NEW i \in Nat, NEW s, ReadingInv(s, lines, i)
  PROVE  ReadingInv(Refuse(s), lines, i + 1)
<1>1. ReadingInv(s, lines, i + 1)
  BY StillReading
<1> DEFINE t == Refuse(s)
<1>2. /\ t = [builder |-> t.builder, seenFrom |-> t.seenFrom, ok |-> t.ok]
      /\ t.builder = s.builder /\ t.seenFrom = s.seenFrom
  <2>1. s = [builder |-> s.builder, seenFrom |-> s.seenFrom, ok |-> s.ok]
    BY DEF ReadingInv
  <2>2. t = [s EXCEPT !.ok = FALSE]
    BY DEF Refuse
  <2> HIDE DEF t
  <2> QED BY <2>1, <2>2
<1> HIDE DEF t
<1>3. ReadingInv(t, lines, i + 1)
  BY <1>1, <1>2, Zenon DEF ReadingInv
<1> QED BY <1>3 DEF t

\* ... and one that only adds to the builder.
LEMMA Taken ==
  ASSUME NEW lines, NEW i \in Nat, NEW s, ReadingInv(s, lines, i),
         NEW builder, Plain(builder), builder.baseImage = s.builder.baseImage
  PROVE  ReadingInv(Read(s, builder), lines, i + 1)
<1>1. ReadingInv(s, lines, i + 1)
  BY StillReading
<1> DEFINE t == Read(s, builder)
<1>2. /\ t = [builder |-> t.builder, seenFrom |-> t.seenFrom, ok |-> t.ok]
      /\ t.builder = builder /\ t.seenFrom = s.seenFrom
  <2>1. s = [builder |-> s.builder, seenFrom |-> s.seenFrom, ok |-> s.ok]
    BY DEF ReadingInv
  <2>2. t = [s EXCEPT !.builder = builder]
    BY DEF Read
  <2> HIDE DEF t
  <2> QED BY <2>1, <2>2
<1> HIDE DEF t
<1>3. ReadingInv(t, lines, i + 1)
  BY <1>1, <1>2, Zenon DEF ReadingInv
<1> QED BY <1>3 DEF t

-----------------------------------------------------------------------------
(* The lines of a Dockerfile that is read.                                  *)

\* The arguments of a line are strings.
LEMMA LineTyped ==
  ASSUME NEW lines \in Dockerfile, NEW i \in 1 .. Len(lines)
  PROVE  lines[i].args \in Seq(STRING) /\ Len(lines[i].args) \in Nat
<1> DEFINE L == [name : STRING, args : Seq(STRING), chown : STRING]
<1>1. lines \in Seq(L)
  BY DEF Dockerfile
<1>2. \A line \in L : line.args \in Seq(STRING)
  OBVIOUS
<1> HIDE DEF L
<1>3. lines[i] \in L
  BY <1>1
<1>4. lines[i].args \in Seq(STRING)
  BY <1>2, <1>3
<1> QED BY <1>4

\* A FROM line keeps the invariant: it names the image ...
LEMMA FromRead ==
  ASSUME NEW lines, NEW i \in Nat, NEW s, ReadingInv(s, lines, i),
         lines[i + 1].name = "FROM"
  PROVE  ReadingInv(ReadFrom(s, lines[i + 1]), lines, i + 1)
<1> DEFINE line == lines[i + 1]
<1> DEFINE refused == s.seenFrom \/ ~(\/ Len(line.args) = 1
                                      \/ Len(line.args) = 3
                                         /\ line.args[2] = "AS")
<1>1. CASE refused
  <2>1. ReadFrom(s, line) = Refuse(s)
    BY <1>1, Zenon DEF ReadFrom
  <2> HIDE DEF line
  <2>2. ReadingInv(Refuse(s), lines, i + 1)
    BY Refused
  <2> QED BY <2>1, <2>2 DEF line
<1>2. CASE ~refused
  <2> DEFINE more == IF line.args[1] = "base" THEN FromBaseImage(s.builder)
                     ELSE FromImageWithAuth(s.builder, line.args[1], "")
  <2> DEFINE t == ReadFrom(s, line)
  <2>1. t = [s EXCEPT !.seenFrom = TRUE, !.builder = more]
    BY <1>2, Zenon DEF ReadFrom
  <2>2. more = FromImageWithAuth(s.builder, Names(line), "")
    <3>1. CASE line.args[1] = "base"
      BY <3>1, Zenon DEF FromBaseImage, Names
    <3>2. CASE line.args[1] # "base"
      BY <3>2, Zenon DEF Names
    <3> QED BY <3>1, <3>2
  <2>3. Plain(more) /\ more.baseImage = Names(line)
    <3>1. Plain(s.builder)
      BY DEF ReadingInv
    <3> HIDE DEF more, line
    <3> QED BY <2>2, <3>1, PlainImage
  <2>4. s = [builder |-> s.builder, seenFrom |-> s.seenFrom, ok |-> s.ok]
    BY DEF ReadingInv
  <2> HIDE DEF more, t, line
  <2>5. /\ t = [builder |-> t.builder, seenFrom |-> t.seenFrom, ok |-> t.ok]
        /\ t.builder = more /\ t.seenFrom = TRUE
    BY <2>1, <2>4
  <2>6. Source(lines, i + 1, Names(line))
    <3>1. i + 1 \in 1 .. i + 1
      OBVIOUS
    <3> QED BY <3>1, Zenon DEF Source, line
  <2>7. ReadingInv(t, lines, i + 1)
    <3>1. t.seenFrom \in BOOLEAN
      BY <2>5
    <3> QED BY <2>3, <2>5, <2>6, <3>1 DEF ReadingInv
  <2> QED BY <2>7 DEF t, line
<1> QED BY <1>1, <1>2

\* ... and so do the lines of one argument ...
LEMMA OneRead ==
  ASSUME NEW lines, NEW i \in Nat, NEW s, ReadingInv(s, lines, i),
         lines[i + 1].name \in Single
  PROVE  ReadingInv(ReadOne(s, lines[i + 1]), lines, i + 1)
<1> DEFINE line == lines[i + 1]
<1> DEFINE arg == line.args[1]
<1> DEFINE more == CASE line.name = "RUN" -> RunCmd(s.builder, arg)
                     [] line.name = "WORKDIR" -> SetWorkdir(s.builder, arg)
                     [] line.name = "USER" -> SetUser(s.builder, arg)
                     [] OTHER -> SetStartCmd(s.builder, arg, "")
<1>1. Plain(more) /\ more.baseImage = s.builder.baseImage
  <2>1. Plain(s.builder)
    BY DEF ReadingInv
  <2> HIDE DEF line
  <2>2. line.name \in Single
    BY DEF line
  <2> QED BY <2>1, <2>2, PlainOne
<1>2. ReadOne(s, line) = IF line.args = <<>> THEN Refuse(s) ELSE Read(s, more)
  BY Zenon DEF ReadOne
<1> HIDE DEF more, line
<1>3. ReadingInv(Refuse(s), lines, i + 1)
  BY Refused
<1>4. ReadingInv(Read(s, more), lines, i + 1)
  BY <1>1, Taken
<1>5. ReadingInv(ReadOne(s, line), lines, i + 1)
  BY <1>2, <1>3, <1>4, Zenon
<1> QED BY <1>5 DEF line

\* ... COPY and ADD ...
LEMMA CopyRead ==
  ASSUME NEW lines, NEW i \in Nat, NEW s, ReadingInv(s, lines, i),
         Len(lines[i + 1].args) \in Nat
  PROVE  ReadingInv(ReadCopy(s, lines[i + 1]), lines, i + 1)
<1> DEFINE line == lines[i + 1]
<1> DEFINE n == Len(line.args)
<1> DEFINE list == [j \in 1 .. n - 1 |-> CopyFrom(line, j)]
<1> DEFINE more == AddEach(s.builder, "COPY", list)
<1>1. ReadCopy(s, line) = IF n < 2 THEN Refuse(s) ELSE Read(s, more)
  BY DEF ReadCopy
<1>2. ASSUME ~(n < 2)
      PROVE  Plain(more) /\ more.baseImage = s.builder.baseImage
  <2>1. Plain(s.builder)
    BY DEF ReadingInv
  <2>2. Len(list) \in Nat
    <3> HIDE DEF line
    <3>1. n \in Nat
      BY DEF line
    <3> HIDE DEF n
    <3>2. n - 1 \in Nat
      BY <1>2, <3>1
    <3> QED BY <3>2
  <2> HIDE DEF list
  <2> QED BY <2>1, <2>2, PlainEach
<1> HIDE DEF more, n, line
<1>3. ReadingInv(Refuse(s), lines, i + 1)
  BY Refused
<1>4. ASSUME ~(n < 2) PROVE ReadingInv(Read(s, more), lines, i + 1)
  BY <1>2, <1>4, Taken
<1>5. ReadingInv(ReadCopy(s, line), lines, i + 1)
  BY <1>1, <1>3, <1>4, Zenon
<1> QED BY <1>5 DEF line

\* (SetEnvs keeps a builder plain, whether or not it adds a step.)
LEMMA PlainEnvs ==
  ASSUME NEW builder, NEW envs, Plain(builder)
  PROVE  LET more == SetEnvs(builder, envs)
         IN Plain(more) /\ more.baseImage = builder.baseImage
<1>1. CASE DOMAIN envs = {}
  BY <1>1 DEF SetEnvs
<1>2. CASE DOMAIN envs # {}
  <2> DEFINE more == AddInstruction(builder, Instruction("ENV", <<envs>>))
  <2>1. SetEnvs(builder, envs) = more
    BY <1>2, Zenon DEF SetEnvs
  <2>2. Plain(more) /\ more.baseImage = builder.baseImage
    BY PlainAdded
  <2> HIDE DEF more
  <2> QED BY <2>1, <2>2
<1> QED BY <1>1, <1>2

\* ... ENV ...
LEMMA EnvRead ==
  ASSUME NEW lines, NEW i \in Nat, NEW s, ReadingInv(s, lines, i)
  PROVE  ReadingInv(ReadEnv(s, lines[i + 1]), lines, i + 1)
<1> DEFINE line == lines[i + 1]
<1> DEFINE more ==
      SetEnvs(s.builder, CHOOSE envs \in EnvArgs(line.args) : TRUE)
<1> DEFINE refused == Len(line.args) < 2 \/ EnvArgs(line.args) = {}
<1>1. ReadEnv(s, line) = IF refused THEN Refuse(s) ELSE Read(s, more)
  BY Zenon DEF ReadEnv
<1>2. Plain(more) /\ more.baseImage = s.builder.baseImage
  <2>1. Plain(s.builder)
    BY DEF ReadingInv
  <2> DEFINE envs == CHOOSE e \in EnvArgs(line.args) : TRUE
  <2> HIDE DEF envs
  <2>2. Plain(SetEnvs(s.builder, envs))
        /\ SetEnvs(s.builder, envs).baseImage = s.builder.baseImage
    BY <2>1, PlainEnvs
  <2> QED BY <2>2 DEF envs
<1> HIDE DEF more, refused, line
<1>3. ReadingInv(Refuse(s), lines, i + 1)
  BY Refused
<1>4. ReadingInv(Read(s, more), lines, i + 1)
  BY <1>2, Taken
<1>5. ReadingInv(ReadEnv(s, line), lines, i + 1)
  BY <1>1, <1>3, <1>4, Zenon
<1> QED BY <1>5 DEF line

\* ... ARG ...
LEMMA ArgRead ==
  ASSUME NEW lines, NEW i \in Nat, NEW s, ReadingInv(s, lines, i),
         Len(lines[i + 1].args) \in Nat
  PROVE  ReadingInv(ReadArg(s, lines[i + 1]), lines, i + 1)
<1> DEFINE line == lines[i + 1]
<1> DEFINE list == Assignments(line.args)
<1> DEFINE more == AddEach(s.builder, "ARG", list)
<1> DEFINE refused == list = <<>> \/ \E k \in DOMAIN list : list[k][1] = ""
<1>1. ReadArg(s, line) = IF refused THEN Refuse(s) ELSE Read(s, more)
  BY Zenon DEF ReadArg
<1>2. Plain(more) /\ more.baseImage = s.builder.baseImage
  <2>1. Plain(s.builder)
    BY DEF ReadingInv
  <2>2. Len(list) \in Nat
    <3> DEFINE args == line.args
    <3> DEFINE Of(k) ==
          <<args[3 * k - 2]>>
          \o IF args[3 * k] = "" THEN <<>> ELSE <<args[3 * k - 1]>>
    <3>1. list = [k \in 1 .. Len(args) \div 3 |-> Of(k)]
      BY Zenon DEF Assignments
    <3> HIDE DEF Of, list
    <3>2. Len(args) \div 3 \in Nat
      <4> HIDE DEF args
      <4>1. Len(args) \in Nat
        BY DEF args
      <4> QED BY <4>1
    <3> HIDE DEF args
    <3> QED BY <3>1, <3>2
  <2> HIDE DEF list
  <2> QED BY <2>1, <2>2, PlainEach
<1> HIDE DEF more, refused, line
<1>3. ReadingInv(Refuse(s), lines, i + 1)
  BY Refused
<1>4. ReadingInv(Read(s, more), lines, i + 1)
  BY <1>2, Taken
<1>5. ReadingInv(ReadArg(s, line), lines, i + 1)
  BY <1>1, <1>3, <1>4, Zenon
<1> QED BY <1>5 DEF line

\* ... hence every line.
LEMMA LineRead ==
  ASSUME NEW lines, NEW i \in Nat, Len(lines[i + 1].args) \in Nat,
         NEW s, ReadingInv(s, lines, i)
  PROVE  ReadingInv(ReadLine(s, lines[i + 1]), lines, i + 1)
<1> DEFINE line == lines[i + 1]
<1> DEFINE Fine(t) == ReadingInv(t, lines, i + 1)
<1>1. Len(lines[i + 1].args) \in Nat
  OBVIOUS
<1>2. Fine(s)
  BY StillReading
<1>3. line.name = "FROM" => Fine(ReadFrom(s, line))
  BY FromRead
<1>4. line.name \in Single => Fine(ReadOne(s, line))
  BY OneRead
<1>5. Fine(ReadCopy(s, line))
  BY <1>1, CopyRead
<1>6. Fine(ReadEnv(s, line))
  BY EnvRead
<1>7. Fine(ReadArg(s, line))
  BY <1>1, ArgRead
<1> HIDE DEF Fine, line
<1>8. Fine(ReadLine(s, line))
  <2>1. CASE ~s.ok
    BY <1>2, <2>1 DEF ReadLine
  <2>2. CASE s.ok /\ line.name = "FROM"
    BY <1>3, <2>2 DEF ReadLine, Single
  <2>3. CASE s.ok /\ line.name \in Single
    BY <1>4, <2>3 DEF ReadLine, Single
  <2>4. CASE s.ok /\ line.name \in {"COPY", "ADD"}
    BY <1>5, <2>4 DEF ReadLine, Single
  <2>5. CASE s.ok /\ line.name = "ENV"
    BY <1>6, <2>5 DEF ReadLine, Single
  <2>6. CASE s.ok /\ line.name = "ARG"
    BY <1>7, <2>6 DEF ReadLine, Single
  <2>7. CASE s.ok /\ line.name \notin Single
             \cup {"FROM", "COPY", "ADD", "ENV", "ARG"}
    BY <1>2, <2>7 DEF ReadLine, Single
  <2> QED BY <2>1, <2>2, <2>3, <2>4, <2>5, <2>6, <2>7
<1> QED BY <1>8 DEF Fine, line

\* Lines that can be read.
Readable(lines) == /\ Len(lines) \in Nat
                   /\ \A i \in 1 .. Len(lines) : Len(lines[i].args) \in Nat

\* What lines that are accepted give.
LEMMA LinesParsed ==
  ASSUME NEW lines, Readable(lines), Parse(lines).ok
  PROVE  /\ Plain(Parse(lines).builder)
         /\ Source(lines, Len(lines), Parse(lines).builder.baseImage)
<1> DEFINE reading == Readings(lines)
<1> DEFINE T == {i \in Nat : i <= Len(lines) =>
                               ReadingInv(reading[i], lines, i)}
<1>0. Len(lines) \in Nat
  BY DEF Readable
<1>1. 0 \in T
  <2>1. reading[0] = Reading
    BY <1>0, ReadingSteps
  <2>2. ReadingInv(Reading, lines, 0)
    <3>1. /\ Reading = [builder |-> Reading.builder,
                        seenFrom |-> Reading.seenFrom, ok |-> Reading.ok]
          /\ Reading.builder = New("") /\ Reading.seenFrom = FALSE
      BY DEF Reading
    <3> QED BY <3>1, PlainNew DEF ReadingInv
  <2> QED BY <2>1, <2>2
<1>2. \A n \in Nat : n \in T => n + 1 \in T
  <2> TAKE n \in Nat
  <2> HAVE n \in T
  <2>1. ASSUME n + 1 <= Len(lines)
        PROVE  ReadingInv(reading[n + 1], lines, n + 1)
    <3>1. n + 1 \in 1 .. Len(lines) /\ (n + 1) - 1 = n /\ n <= Len(lines)
      BY <1>0, <2>1
    <3>2. reading[n + 1] = ReadLine(reading[n], lines[n + 1])
      <4> HIDE DEF reading
      <4>1. \A i \in 1 .. Len(lines) :
              reading[i] = ReadLine(reading[i - 1], lines[i])
        BY <1>0, ReadingSteps DEF reading
      <4>2. reading[n + 1] = ReadLine(reading[(n + 1) - 1], lines[n + 1])
        BY <3>1, <4>1, Zenon
      <4> QED BY <3>1, <4>2
    <3>3. ReadingInv(reading[n], lines, n)
      BY <3>1
    <3>4. ReadingInv(ReadLine(reading[n], lines[n + 1]), lines, n + 1)
      <4>1. Len(lines[n + 1].args) \in Nat
        BY <3>1 DEF Readable
      <4> HIDE DEF reading
      <4> QED BY <3>3, <4>1, LineRead
    <3> HIDE DEF reading
    <3> QED BY <3>2, <3>4
  <2> HIDE DEF reading
  <2> QED BY <2>1
<1>3. ReadingInv(reading[Len(lines)], lines, Len(lines))
  <2> HIDE DEF T
  <2>1. Len(lines) \in T
    BY <1>0, <1>1, <1>2, SetInduction
  <2> HIDE DEF reading
  <2> QED BY <1>0, <2>1 DEF T
<1> DEFINE end == reading[Len(lines)]
<1> HIDE DEF end
<1>4. Parse(lines) = [end EXCEPT !.ok = end.ok /\ end.seenFrom]
  BY Zenon DEF Parse, end
<1>5. ReadingInv(end, lines, Len(lines))
  BY <1>3 DEF end
<1>6. Parse(lines).builder = end.builder /\ end.seenFrom
  <2> DEFINE ok == end.ok /\ end.seenFrom
  <2>1. end = [builder |-> end.builder, seenFrom |-> end.seenFrom,
               ok |-> end.ok]
    BY <1>5 DEF ReadingInv
  <2>2. Parse(lines) = [end EXCEPT !.ok = ok]
    BY <1>4
  <2> HIDE DEF ok
  <2>3. Parse(lines).builder = end.builder /\ Parse(lines).ok = ok
    BY <2>1, <2>2
  <2> QED BY <2>3, Zenon DEF ok
<1> QED BY <1>5, <1>6, Zenon DEF ReadingInv

\* The lines of a Dockerfile can be read.
LEMMA FileReadable ==
  ASSUME NEW lines \in Dockerfile
  PROVE  Readable(lines)
<1>1. Len(lines) \in Nat
  BY DEF Dockerfile
<1> QED BY <1>1, LineTyped DEF Readable

\* What a Dockerfile that is accepted gives.
LEMMA Parsed ==
  ASSUME NEW lines \in Dockerfile, Parse(lines).ok
  PROVE  /\ Plain(Parse(lines).builder)
         /\ Source(lines, Len(lines), Parse(lines).builder.baseImage)
BY FileReadable, LinesParsed

\* What a call does to the base, ...
Bases(builder, call, more) ==
  /\ SetsBase(call) =>
       /\ Says(call, more.baseImage, more.baseTemplate)
       /\ more.registry # "" =>
            call.op = "FromImage" /\ call.args[2] = more.registry
  /\ ~SetsBase(call) =>
       /\ more.baseImage = builder.baseImage
       /\ more.baseTemplate = builder.baseTemplate
       /\ \/ more.registry = builder.registry
          \/ call.op = "Build" /\ call.args[1] = more.registry
\* ... and to the instructions.
Instructs(builder, call, more) ==
  LET n == Len(builder.instructions) IN
  /\ AddsStep(call) =>
       /\ ~ReadsFile(call) /\ call.op # "SkipCache"
       /\ more.forceNextLayer = FALSE
       /\ Len(more.instructions) = n + 1
       /\ more.instructions[n + 1].force = builder.forceNextLayer
       /\ \A k \in 1 .. n : more.instructions[k] = builder.instructions[k]
  /\ ReadsFile(call) =>
       /\ call.op # "SkipCache"
       /\ more.forceNextLayer = builder.forceNextLayer
       /\ Unforced(more)
  /\ ~AddsStep(call) /\ ~ReadsFile(call) =>
       /\ more.instructions = builder.instructions
       /\ more.forceNextLayer =
            IF call.op = "SkipCache" THEN TRUE ELSE builder.forceNextLayer
Applies(builder, call, more) ==
  /\ IsBuilder(more) /\ Bases(builder, call, more)
  /\ Instructs(builder, call, more)

\* The calls that add a step do what is said of them ...
LEMMA AddApplies ==
  ASSUME NEW builder, NEW call, NEW more, IsBuilder(builder),
         OneMore(builder, more),
         \/ call.op \in {"RunCmd", "RunCmdAsUser", "Copy", "SetWorkdir",
                         "SetUser"}
         \/ call.op = "SetEnvs" /\ DOMAIN call.args[1] # {}
  PROVE  Applies(builder, call, more)
<1>1. AddsStep(call) /\ ~ReadsFile(call) /\ call.op # "SkipCache"
  BY DEF AddsStep, ReadsFile
<1>2. ~SetsBase(call)
  BY DEF SetsBase, CallsFrom, ReadsFile
<1>3. Bases(builder, call, more)
  BY <1>2, Zenon DEF Bases, OneMore
<1>4. Instructs(builder, call, more)
  BY <1>1, Zenon DEF Instructs, OneMore
<1> QED BY <1>3, <1>4 DEF Applies, OneMore

\* ... as do the calls that set the base ...
LEMMA BaseApplies ==
  ASSUME NEW builder, NEW call, NEW more, NEW image, NEW template, NEW auth,
         IsBuilder(builder), Rebased(builder, more, image, template, auth),
         CallsFrom(call),
         Says(call, image, template),
         auth # "" => call.op = "FromImage" /\ call.args[2] = auth
  PROVE  Applies(builder, call, more)
<1>1. ~AddsStep(call) /\ ~ReadsFile(call) /\ call.op # "SkipCache"
  BY DEF AddsStep, ReadsFile, CallsFrom
<1>2. SetsBase(call)
  BY DEF SetsBase, CallsFrom
<1>3. Bases(builder, call, more)
  BY <1>2, Zenon DEF Bases, Rebased
<1>4. Instructs(builder, call, more)
  BY <1>1, Zenon DEF Instructs, Rebased
<1> QED BY <1>3, <1>4 DEF Applies, Rebased

\* ... the calls that do neither ...
LEMMA OtherApplies ==
  ASSUME NEW builder, NEW call, NEW more, NEW auth,
         IsBuilder(builder),
         Rebased(builder, more, builder.baseImage, builder.baseTemplate, auth),
         ~AddsStep(call), ~ReadsFile(call), ~SetsBase(call),
         call.op # "SkipCache",
         auth = builder.registry \/ (call.op = "Build" /\ call.args[1] = auth)
  PROVE  Applies(builder, call, more)
<1>1. Bases(builder, call, more)
  BY Zenon DEF Bases, Rebased
<1>2. Instructs(builder, call, more)
  BY Zenon DEF Instructs, Rebased
<1> QED BY <1>1, <1>2 DEF Applies, Rebased

\* (A builder that is left alone keeps its base.)
LEMMA RebasedSame ==
  ASSUME NEW builder, IsBuilder(builder)
  PROVE  Rebased(builder, builder, builder.baseImage, builder.baseTemplate,
                 builder.registry)
  BY DEF Rebased

\* ... SkipCache ...
LEMMA SkipApplies ==
  ASSUME NEW builder, NEW call, IsBuilder(builder), call.op = "SkipCache"
  PROVE  Applies(builder, call, SkipCache(builder))
<1> DEFINE more == SkipCache(builder)
<1>0. more = [builder EXCEPT !.forceNextLayer = TRUE]
  BY DEF SkipCache
<1> HIDE DEF more
<1>1. /\ more.baseImage = builder.baseImage
      /\ more.baseTemplate = builder.baseTemplate
      /\ more.registry = builder.registry
      /\ more.forceNextLayer = TRUE
      /\ more.instructions = builder.instructions
      /\ more = [baseImage |-> more.baseImage,
                 baseTemplate |-> more.baseTemplate,
                 registry |-> more.registry,
                 startCmd |-> more.startCmd, readyCmd |-> more.readyCmd,
                 force |-> more.force,
                 forceNextLayer |-> more.forceNextLayer,
                 instructions |-> more.instructions]
  BY <1>0 DEF IsBuilder
<1>2. IsBuilder(more)
  BY <1>1 DEF IsBuilder
<1>3. ~AddsStep(call) /\ ~ReadsFile(call)
  BY DEF AddsStep, ReadsFile
<1>4. ~SetsBase(call)
  BY DEF SetsBase, CallsFrom, ReadsFile
<1>5. Bases(builder, call, more)
  BY <1>1, <1>4, Zenon DEF Bases
<1>6. Instructs(builder, call, more)
  BY <1>1, <1>3, Zenon DEF Instructs
<1> QED BY <1>2, <1>5, <1>6 DEF Applies, more

\* ... FromDockerfile, whether the file is accepted or not ...
LEMMA FileApplies ==
  ASSUME NEW builder, NEW call, IsBuilder(builder),
         call.op = "FromDockerfile", call.args \in Dockerfile
  PROVE  Applies(builder, call, FromDockerfile(builder, call.args))
<1> DEFINE lines == call.args
<1> DEFINE parsed == Parse(lines)
<1>1. CASE ~parsed.ok
  <2>1. FromDockerfile(builder, lines) = builder
    BY <1>1, Zenon DEF FromDockerfile
  <2>2. ~AddsStep(call) /\ ~ReadsFile(call) /\ ~SetsBase(call)
        /\ call.op # "SkipCache"
    BY <1>1 DEF AddsStep, ReadsFile, SetsBase, CallsFrom
  <2> QED BY <2>1, <2>2, RebasedSame, OtherApplies
<1>2. CASE parsed.ok
  <2> DEFINE made == parsed.builder
  <2> DEFINE more == FromDockerfile(builder, lines)
  <2>1. more = [made EXCEPT !.force = builder.force,
                            !.forceNextLayer = builder.forceNextLayer]
    BY <1>2, Zenon DEF FromDockerfile
  <2>2. Plain(made) /\ Source(lines, Len(lines), made.baseImage)
    BY <1>2, Parsed
  <2>3. ReadsFile(call) /\ SetsBase(call) /\ ~AddsStep(call)
        /\ call.op # "SkipCache"
    BY <1>2 DEF ReadsFile, SetsBase, CallsFrom, AddsStep
  <2> HIDE DEF made, more
  <2>4. IsBuilder(made)
    BY <2>2 DEF Plain
  <2>5. /\ more.baseImage = made.baseImage
        /\ more.baseTemplate = made.baseTemplate
        /\ more.registry = made.registry
        /\ more.forceNextLayer = builder.forceNextLayer
        /\ more.instructions = made.instructions
        /\ more = [baseImage |-> more.baseImage,
                   baseTemplate |-> more.baseTemplate,
                   registry |-> more.registry,
                   startCmd |-> more.startCmd, readyCmd |-> more.readyCmd,
                   force |-> more.force,
                   forceNextLayer |-> more.forceNextLayer,
                   instructions |-> more.instructions]
    BY <2>1, <2>4 DEF IsBuilder
  <2>6. IsBuilder(more)
    BY <2>4, <2>5 DEF IsBuilder
  <2>7. Unforced(more)
    BY <2>2, <2>5 DEF Plain, Unforced
  <2>8. more.baseTemplate = "" /\ more.registry = ""
    BY <2>2, <2>5 DEF Plain, Bare
  <2>9. \E i \in DOMAIN lines :
          lines[i].name = "FROM" /\ more.baseImage = Names(lines[i])
    <3>1. DOMAIN lines = 1 .. Len(lines)
      BY DEF Dockerfile
    <3> QED BY <2>2, <2>5, <3>1, Zenon DEF Source
  <2>10. Says(call, more.baseImage, more.baseTemplate)
    BY <2>8, <2>9 DEF Says
  <2>11. Bases(builder, call, more)
    BY <2>3, <2>8, <2>10, Zenon DEF Bases
  <2>12. Instructs(builder, call, more)
    BY <2>3, <2>5, <2>7, Zenon DEF Instructs
  <2> QED BY <2>6, <2>11, <2>12 DEF Applies, more
<1> QED BY <1>1, <1>2

\* ... and Build with a registry.
LEMMA RegistryApplies ==
  ASSUME NEW builder, NEW call, IsBuilder(builder), call.op = "Build"
  PROVE  Applies(builder, call, UseRegistry(builder, call.args[1]))
<1> DEFINE auth == call.args[1]
<1> DEFINE more == UseRegistry(builder, auth)
<1>1. ~AddsStep(call) /\ ~ReadsFile(call) /\ call.op # "SkipCache"
  BY DEF AddsStep, ReadsFile
<1>2. ~SetsBase(call)
  BY DEF SetsBase, CallsFrom, ReadsFile
<1>3. CASE auth = ""
  <2>1. more = builder
    BY <1>3, Zenon DEF UseRegistry
  <2> HIDE DEF more
  <2>2. Applies(builder, call, builder)
    BY <1>1, <1>2, RebasedSame, OtherApplies
  <2> QED BY <2>1, <2>2 DEF more
<1>4. CASE auth # ""
  <2>0. more = [builder EXCEPT !.registry = auth]
    BY <1>4, Zenon DEF UseRegistry
  <2> HIDE DEF more, auth
  <2>1. /\ more.baseImage = builder.baseImage
        /\ more.baseTemplate = builder.baseTemplate
        /\ more.registry = auth
        /\ more.forceNextLayer = builder.forceNextLayer
        /\ more.instructions = builder.instructions
        /\ more = [baseImage |-> more.baseImage,
                   baseTemplate |-> more.baseTemplate,
                   registry |-> more.registry,
                   startCmd |-> more.startCmd, readyCmd |-> more.readyCmd,
                   force |-> more.force,
                   forceNextLayer |-> more.forceNextLayer,
                   instructions |-> more.instructions]
    BY <2>0 DEF IsBuilder
  <2>2. IsBuilder(more)
    BY <2>1 DEF IsBuilder
  <2>3. Rebased(builder, more, builder.baseImage, builder.baseTemplate, auth)
    BY <2>1, <2>2 DEF Rebased
  <2>4. call.args[1] = auth
    BY DEF auth
  <2>5. Applies(builder, call, more)
    BY <1>1, <1>2, <2>3, <2>4, OtherApplies
  <2> QED BY <2>5 DEF more, auth
<1> QED BY <1>3, <1>4

\* Every call does to the builder what is said of it.
LEMMA Applied ==
  ASSUME NEW builder, NEW call \in Chains, IsBuilder(builder)
  PROVE  Applies(builder, call, Apply(builder, call))
<1> DEFINE a == call.args
<1> DEFINE Fine(more) == Applies(builder, call, more)
<1>0. call.op \in Methods
      /\ (call.op = "FromDockerfile" => call.args \in Dockerfile)
  BY ChainsAssumption
<1>1. call.op = "FromImage" => Fine(FromImageWithAuth(builder, a[1], a[2]))
  <2> SUFFICES ASSUME call.op = "FromImage"
               PROVE  Fine(FromImageWithAuth(builder, a[1], a[2]))
    OBVIOUS
  <2> DEFINE image == a[1]
  <2> DEFINE auth == a[2]
  <2>1. Says(call, image, "") /\ call.args[2] = auth
    BY DEF Says
  <2> HIDE DEF image, auth
  <2>2. Rebased(builder, FromImageWithAuth(builder, image, auth),
                image, "", auth)
    BY BaseSet
  <2>3. Applies(builder, call, FromImageWithAuth(builder, image, auth))
    BY <2>1, <2>2, BaseApplies DEF CallsFrom
  <2> QED BY <2>3 DEF image, auth
<1>2. call.op = "FromBaseImage" => Fine(FromBaseImage(builder))
  <2> SUFFICES ASSUME call.op = "FromBaseImage"
               PROVE  Fine(FromBaseImage(builder))
    OBVIOUS
  <2>1. Says(call, BaseImage, "")
    BY DEF Says
  <2>2. Rebased(builder, FromBaseImage(builder), BaseImage, "", "")
    BY BaseSet DEF FromBaseImage
  <2> QED BY <2>1, <2>2, BaseApplies DEF CallsFrom
<1>3. call.op = "FromTemplate" => Fine(FromTemplate(builder, a[1]))
  <2> SUFFICES ASSUME call.op = "FromTemplate"
               PROVE  Fine(FromTemplate(builder, a[1]))
    OBVIOUS
  <2> DEFINE template == a[1]
  <2>1. Says(call, "", template)
    BY DEF Says
  <2> HIDE DEF template
  <2>2. Rebased(builder, FromTemplate(builder, template), "", template, "")
    BY TemplateSet
  <2>3. Applies(builder, call, FromTemplate(builder, template))
    BY <2>1, <2>2, BaseApplies DEF CallsFrom
  <2> QED BY <2>3 DEF template
<1>4. call.op = "RunCmd" => Fine(RunCmd(builder, a[1]))
  BY AddedOne, AddApplies DEF RunCmd
<1>5. call.op = "RunCmdAsUser" => Fine(RunCmdAsUser(builder, a[1], a[2]))
  <2> DEFINE args == IF a[2] = "" THEN <<a[1]>> ELSE <<a[1], a[2]>>
  <2>1. RunCmdAsUser(builder, a[1], a[2]) =
          AddInstruction(builder, Instruction("RUN", args))
    BY Zenon DEF RunCmdAsUser
  <2> HIDE DEF args
  <2> QED BY <2>1, AddedOne, AddApplies
<1>6. call.op = "Copy" => Fine(Copy(builder, a[1], a[2]))
  BY AddedOne, AddApplies DEF Copy
<1>7. call.op = "SetEnvs" => Fine(SetEnvs(builder, a[1]))
  <2> SUFFICES ASSUME call.op = "SetEnvs" PROVE Fine(SetEnvs(builder, a[1]))
    OBVIOUS
  <2>1. CASE DOMAIN a[1] = {}
    <3>1. SetEnvs(builder, a[1]) = builder
      BY <2>1, Zenon DEF SetEnvs
    <3>2. ~AddsStep(call)
      BY <2>1 DEF AddsStep
    <3>3. ~ReadsFile(call) /\ ~SetsBase(call) /\ call.op # "SkipCache"
      BY DEF ReadsFile, SetsBase, CallsFrom
    <3> QED BY <3>1, <3>2, <3>3, RebasedSame, OtherApplies
  <2>2. CASE DOMAIN a[1] # {}
    <3>1. SetEnvs(builder, a[1]) =
            AddInstruction(builder, Instruction("ENV", <<a[1]>>))
      BY <2>2, Zenon DEF SetEnvs
    <3>2. OneMore(builder, SetEnvs(builder, a[1]))
      BY <3>1, AddedOne
    <3> QED BY <2>2, <3>2, AddApplies
  <2> QED BY <2>1, <2>2
<1>8. call.op = "SetWorkdir" => Fine(SetWorkdir(builder, a[1]))
  BY AddedOne, AddApplies DEF SetWorkdir
<1>9. call.op = "SetUser" => Fine(SetUser(builder, a[1]))
  BY AddedOne, AddApplies DEF SetUser
<1>10. call.op = "SkipCache" => Fine(SkipCache(builder))
  BY SkipApplies
<1>11. call.op = "SetStartCmd" => Fine(SetStartCmd(builder, a[1], a[2]))
  <2> SUFFICES ASSUME call.op = "SetStartCmd"
               PROVE  Fine(SetStartCmd(builder, a[1], a[2]))
    OBVIOUS
  <2>1. Rebased(builder, SetStartCmd(builder, a[1], a[2]),
                builder.baseImage, builder.baseTemplate, builder.registry)
    BY StartSet
  <2>2. /\ ~AddsStep(call) /\ ~ReadsFile(call) /\ ~SetsBase(call)
        /\ call.op # "SkipCache"
    BY DEF AddsStep, ReadsFile, SetsBase, CallsFrom
  <2> QED BY <2>1, <2>2, OtherApplies
<1>12. call.op = "FromDockerfile" => Fine(FromDockerfile(builder, a))
  BY <1>0, FileApplies
<1>13. call.op = "Build" => Fine(UseRegistry(builder, a[1]))
  BY RegistryApplies
<1> HIDE DEF Fine, a
<1>14. Fine(Apply(builder, call))
  <2> DEFINE op == call.op
  <2>1. CASE op = "FromImage"
    BY <1>1, <2>1 DEF Apply, a
  <2>2. CASE op = "FromBaseImage"
    BY <1>2, <2>2 DEF Apply, a
  <2>3. CASE op = "FromTemplate"
    BY <1>3, <2>3 DEF Apply, a
  <2>4. CASE op = "RunCmd"
    BY <1>4, <2>4 DEF Apply, a
  <2>5. CASE op = "RunCmdAsUser"
    BY <1>5, <2>5 DEF Apply, a
  <2>6. CASE op = "Copy"
    BY <1>6, <2>6 DEF Apply, a
  <2>7. CASE op = "SetEnvs"
    BY <1>7, <2>7 DEF Apply, a
  <2>8. CASE op = "SetWorkdir"
    BY <1>8, <2>8 DEF Apply, a
  <2>9. CASE op = "SetUser"
    BY <1>9, <2>9 DEF Apply, a
  <2>10. CASE op = "SkipCache"
    BY <1>10, <2>10 DEF Apply, a
  <2>11. CASE op = "SetStartCmd"
    BY <1>11, <2>11 DEF Apply, a
  <2>12. CASE op = "FromDockerfile"
    BY <1>12, <2>12 DEF Apply, a
  <2>13. CASE op = "Build"
    BY <1>13, <2>13 DEF Apply, a
  <2> QED BY <1>0, <2>1, <2>2, <2>3, <2>4, <2>5, <2>6, <2>7, <2>8, <2>9,
             <2>10, <2>11, <2>12, <2>13 DEF Methods
<1> QED BY <1>14 DEF Fine

-----------------------------------------------------------------------------
(* Scripts.                                                                 *)

\* Where a script has a call of a set.
Where(s, C) == {i \in 1 .. Len(s) : s[i] \in C}

\* One more call adds its own position and moves no other.
LEMMA WhereAppended ==
  ASSUME NEW s \in Seq(Chains), NEW c \in Chains, NEW C
  PROVE  Where(Append(s, c), C) =
           Where(s, C) \cup (IF c \in C THEN {Len(s) + 1} ELSE {})
<1> DEFINE n == Len(s)
<1> DEFINE t == Append(s, c)
<1>1. n \in Nat /\ Len(t) = n + 1 /\ t[n + 1] = c
      /\ \A i \in 1 .. n : t[i] = s[i]
  OBVIOUS
<1> HIDE DEF n, t
<1>2. 1 .. n + 1 = 1 .. n \cup {n + 1}
  BY <1>1
<1>3. \A i \in 1 .. n : t[i] \in C <=> s[i] \in C
  BY <1>1
<1>4. {i \in 1 .. n + 1 : t[i] \in C} =
        {i \in 1 .. n : s[i] \in C} \cup (IF c \in C THEN {n + 1} ELSE {})
  BY <1>1, <1>2, <1>3
<1> QED BY <1>1, <1>4 DEF Where, n, t

\* The latest of some positions is the greatest of them.
LEMMA LatestIs ==
  ASSUME NEW S \in SUBSET Nat, NEW n \in S, \A i \in S : i <= n
  PROVE  LatestOf(S) = n
<1>1. LatestOf(S) = CHOOSE i \in S : \A j \in S : j <= i
  BY Zenon DEF LatestOf
<1>2. \A i \in S : (\A j \in S : j <= i) => i = n
  OBVIOUS
<1> QED BY <1>1, <1>2

\* One more call is the latest if it is of the set.
LEMMA LatestAppended ==
  ASSUME NEW s \in Seq(Chains), NEW c \in Chains, NEW C
  PROVE  LatestOf(Where(Append(s, c), C)) =
           IF c \in C THEN Len(s) + 1 ELSE LatestOf(Where(s, C))
<1> DEFINE n == Len(s)
<1>1. CASE c \in C
  <2>1. Where(Append(s, c), C) = Where(s, C) \cup {n + 1}
    BY <1>1, WhereAppended, Zenon
  <2>2. Where(s, C) \subseteq 1 .. n /\ n \in Nat
    BY DEF Where
  <2> DEFINE S == Where(s, C) \cup {n + 1}
  <2> HIDE DEF n
  <2>3. S \in SUBSET Nat /\ n + 1 \in S /\ \A i \in S : i <= n + 1
    BY <2>2
  <2> HIDE DEF S
  <2>4. LatestOf(S) = n + 1
    BY <2>3, LatestIs
  <2> QED BY <1>1, <2>1, <2>4, Zenon DEF S, n
<1>2. CASE c \notin C
  <2>1. Where(Append(s, c), C) = Where(s, C) \cup {}
    BY <1>2, WhereAppended, Zenon
  <2>2. Where(Append(s, c), C) = Where(s, C)
    BY <2>1
  <2> QED BY <1>2, <2>2, Zenon
<1> QED BY <1>1, <1>2

Adders == {c \in Chains : AddsStep(c)}
Readers == {c \in Chains : ReadsFile(c)}
Basers == {c \in Chains : SetsBase(c)}
Skips == {c \in Chains : c.op = "SkipCache"}

\* Where the base was set last, where a file was read last, and the calls since
\* that added a step.
BaseAt(s) == LatestOf(Where(s, Basers))
FileAt(s) == LatestOf(Where(s, Readers))
OwnOf(s) == {i \in Where(s, Adders) : i > FileAt(s)}
RankIn(own, i) == Cardinality({j \in own : j <= i})

\* A step added by the call at i would be forced.
ForcesIn(s, i) == \E skip \in Where(s, Skips) :
                  /\ skip < i
                  /\ \A j \in Where(s, Adders) : j < i => j < skip

Unbased(builder) ==
  /\ builder.baseImage = IF BaseOption = "" THEN BaseImage ELSE BaseOption
  /\ builder.baseTemplate = ""
Told(call, builder) == Says(call, builder.baseImage, builder.baseTemplate)
Credited(builder) == builder.registry # ""
Gave(call, builder) ==
  \/ call.op = "Build" /\ call.args[1] = builder.registry
  \/ call.op = "FromImage" /\ call.args[2] = builder.registry

BaseInv(s, builder) ==
  /\ BaseAt(s) \in 0 .. Len(s)
  /\ BaseAt(s) = 0 => Unbased(builder)
  /\ BaseAt(s) # 0 => Told(s[BaseAt(s)], builder)
  /\ Credited(builder) =>
       \E i \in 1 .. Len(s) : i >= BaseAt(s) /\ Gave(s[i], builder)

\* A call keeps BaseInv: credentials go with the base they came with.
LEMMA BaseKept ==
  ASSUME NEW s \in Seq(Chains), NEW c \in Chains, NEW builder, NEW more,
         BaseInv(s, builder), Bases(builder, c, more)
  PROVE  BaseInv(Append(s, c), more)
<1> DEFINE n == Len(s)
<1> DEFINE t == Append(s, c)
<1>1. n \in Nat /\ Len(t) = n + 1 /\ t[n + 1] = c
      /\ \A i \in 1 .. n : t[i] = s[i]
  OBVIOUS
<1>2. BaseAt(t) = IF c \in Basers THEN n + 1 ELSE BaseAt(s)
  BY LatestAppended, Zenon DEF BaseAt
<1>3. c \in Basers <=> SetsBase(c)
  BY DEF Basers
<1>4. CASE SetsBase(c)
  <2>1. Told(c, more) /\ (Credited(more) => Gave(c, more))
    BY <1>4 DEF Bases, Told, Credited, Gave
  <2>2. BaseAt(t) = n + 1
    BY <1>2, <1>3, <1>4
  <2> HIDE DEF n, t
  <2>3. n + 1 \in 0 .. n + 1 /\ n + 1 # 0 /\ n + 1 \in 1 .. n + 1
        /\ n + 1 >= n + 1
    BY <1>1
  <2>4. BaseInv(t, more)
    BY <1>1, <2>1, <2>2, <2>3, Zenon DEF BaseInv
  <2> QED BY <2>4 DEF t
<1>5. CASE ~SetsBase(c)
  <2>1. /\ Unbased(builder) => Unbased(more)
        /\ \A call : Told(call, builder) => Told(call, more)
    BY <1>5, Zenon DEF Bases, Unbased, Told
  <2>2. Credited(more) =>
          \/ Gave(c, more)
          \/ /\ Credited(builder)
             /\ \A call : Gave(call, builder) => Gave(call, more)
    BY <1>5, Zenon DEF Bases, Credited, Gave
  <2>3. BaseAt(t) = BaseAt(s)
    BY <1>2, <1>3, <1>5
  <2> HIDE DEF n, t
  <2> DEFINE at == BaseAt(s)
  <2>4. at \in 0 .. n
    BY DEF BaseInv, n
  <2> HIDE DEF at
  <2>5. /\ at \in 0 .. n + 1 /\ n + 1 \in 1 .. n + 1 /\ n + 1 >= at
        /\ \A i \in 1 .. n : i \in 1 .. n + 1
        /\ at # 0 => at \in 1 .. n
    BY <1>1, <2>4
  <2>6. at = 0 => Unbased(more)
    BY <2>1, Zenon DEF BaseInv, at
  <2>7. at # 0 => Told(t[at], more)
    <3>1. at # 0 => Told(s[at], more)
      BY <2>1, Zenon DEF BaseInv, at
    <3>2. at # 0 => t[at] = s[at]
      BY <1>1, <2>5, Zenon
    <3> QED BY <3>1, <3>2, Zenon
  <2>8. Credited(more) => \E i \in 1 .. n + 1 : i >= at /\ Gave(t[i], more)
    <3>1. CASE Gave(c, more)
      BY <1>1, <2>5, <3>1, Zenon
    <3>2. CASE /\ Credited(builder)
               /\ \A call : Gave(call, builder) => Gave(call, more)
      <4>1. PICK i \in 1 .. n : i >= at /\ Gave(s[i], builder)
        BY <3>2, Zenon DEF BaseInv, at, n
      <4>2. t[i] = s[i] /\ i \in 1 .. n + 1
        BY <1>1, <2>5, Zenon
      <4> QED BY <3>2, <4>1, <4>2, Zenon
    <3> QED BY <2>2, <3>1, <3>2
  <2>9. BaseInv(t, more)
    BY <1>1, <2>3, <2>5, <2>6, <2>7, <2>8, Zenon DEF BaseInv, at
  <2> QED BY <2>9 DEF t
<1> QED BY <1>4, <1>5

-----------------------------------------------------------------------------

ForcedInv(s, builder) ==
  LET n == Len(builder.instructions)
      own == OwnOf(s)
      read == n - Cardinality(own)
  IN /\ FileAt(s) \in 0 .. Len(s)
     /\ builder.forceNextLayer \in BOOLEAN
     /\ builder.forceNextLayer <=> ForcesIn(s, Len(s) + 1)
     /\ Cardinality(own) <= n
     /\ \A k \in 1 .. read : ~builder.instructions[k].force
     /\ \A i \in own : builder.instructions[read + RankIn(own, i)].force
                         <=> ForcesIn(s, i)

\* Positions are positions of the script.
LEMMA WhereIn ==
  ASSUME NEW s \in Seq(Chains), NEW C
  PROVE  Where(s, C) \subseteq 1 .. Len(s) /\ Len(s) \in Nat
  BY DEF Where

\* A call changes nothing of what was forced before it.
LEMMA ForcesKept ==
  ASSUME NEW s \in Seq(Chains), NEW c \in Chains, NEW i \in 1 .. Len(s) + 1
  PROVE  ForcesIn(Append(s, c), i) <=> ForcesIn(s, i)
<1> DEFINE n == Len(s)
<1>1. ASSUME NEW C
      PROVE  /\ Where(s, C) \subseteq Where(Append(s, c), C)
             /\ \A j \in Where(Append(s, c), C) : j < i => j \in Where(s, C)
  <2>1. Where(Append(s, c), C) =
          Where(s, C) \cup (IF c \in C THEN {n + 1} ELSE {})
    BY WhereAppended
  <2>2. n \in Nat
    OBVIOUS
  <2>3. i <= n + 1
    OBVIOUS
  <2> HIDE DEF n
  <2>4. ~(n + 1 < i)
    BY <2>2, <2>3
  <2> QED BY <2>1, <2>4
<1> QED BY <1>1 DEF ForcesIn

\* The positions a rank can have.
LEMMA Ranks ==
  ASSUME NEW n \in Nat, NEW own, own \subseteq 1 .. n
  PROVE  /\ IsFiniteSet(own) /\ Cardinality(own) \in Nat
         /\ \A i \in own : RankIn(own, i) \in 1 .. Cardinality(own)
<1>1. IsFiniteSet(1 .. n)
  BY FS_Interval
<1>2. IsFiniteSet(own) /\ Cardinality(own) \in Nat
  BY <1>1, FS_Subset, FS_CardinalityType
<1>3. ASSUME NEW i \in own
      PROVE  RankIn(own, i) \in 1 .. Cardinality(own)
  <2> DEFINE low == {j \in own : j <= i}
  <2>1. low \subseteq own /\ i \in low
    OBVIOUS
  <2> HIDE DEF low
  <2>2. /\ IsFiniteSet(low) /\ Cardinality(low) <= Cardinality(own)
        /\ Cardinality(low) \in Nat
    BY <1>2, <2>1, FS_Subset, FS_CardinalityType
  <2>3. Cardinality(low) # 0
    BY <2>1, <2>2, FS_EmptySet
  <2>4. Cardinality(low) \in 1 .. Cardinality(own)
    BY <1>2, <2>2, <2>3
  <2> QED BY <2>4 DEF RankIn, low
<1> QED BY <1>2, <1>3

\* ForcedInv of numbers: the length of the instructions, the own calls, which
\* instruction is forced.
Matches(s, own, read, insts) ==
  /\ \A k \in 1 .. read : ~insts[k].force
  /\ \A i \in own : insts[read + RankIn(own, i)].force <=> ForcesIn(s, i)

\* A call that adds no step and reads no file keeps ForcedInv ...
LEMMA ForcedUnchanged ==
  ASSUME NEW s \in Seq(Chains), NEW c \in Chains, NEW builder, NEW more,
         IsBuilder(builder), ForcedInv(s, builder), Instructs(builder, c, more),
         ~AddsStep(c), ~ReadsFile(c)
  PROVE  ForcedInv(Append(s, c), more)
<1> DEFINE n == Len(s)
<1> DEFINE t == Append(s, c)
<1>1. n \in Nat /\ Len(t) = n + 1
  OBVIOUS
<1>2. Where(t, Adders) = Where(s, Adders) /\ FileAt(t) = FileAt(s)
  <2>1. c \notin Adders /\ c \notin Readers
    BY DEF Adders, Readers
  <2>2. Where(t, Adders) = Where(s, Adders) \cup {}
    BY <2>1, WhereAppended, Zenon
  <2>3. FileAt(t) = FileAt(s)
    BY <2>1, LatestAppended, Zenon DEF FileAt
  <2> QED BY <2>2, <2>3
<1>3. OwnOf(t) = OwnOf(s)
  BY <1>2, Zenon DEF OwnOf
<1>4. \A i \in OwnOf(s) : i \in 1 .. n + 1
  <2>1. OwnOf(s) \subseteq 1 .. n
    BY WhereIn DEF OwnOf
  <2> HIDE DEF n
  <2> QED BY <1>1, <2>1
<1>5. /\ more.instructions = builder.instructions
      /\ more.forceNextLayer =
           IF c.op = "SkipCache" THEN TRUE ELSE builder.forceNextLayer
  BY Zenon DEF Instructs
<1>6. more.forceNextLayer \in BOOLEAN
      /\ (more.forceNextLayer <=> ForcesIn(t, n + 2))
  <2>1. Where(t, Skips) =
          Where(s, Skips) \cup (IF c \in Skips THEN {n + 1} ELSE {})
    BY WhereAppended
  <2>2. c \in Skips <=> c.op = "SkipCache"
    BY DEF Skips
  <2>3. Where(s, Skips) \subseteq 1 .. n /\ Where(s, Adders) \subseteq 1 .. n
    BY WhereIn
  <2>4. builder.forceNextLayer \in BOOLEAN
        /\ (builder.forceNextLayer <=> ForcesIn(s, n + 1))
    BY DEF ForcedInv
  <2> HIDE DEF n, t
  <2>5. CASE c.op = "SkipCache"
    <3>1. n + 1 \in Where(t, Skips)
      BY <2>1, <2>2, <2>5
    <3>2. n + 1 < n + 2 /\ \A j \in Where(t, Adders) : j < n + 2 => j < n + 1
      BY <1>1, <1>2, <2>3
    <3>3. ForcesIn(t, n + 2)
      BY <3>1, <3>2, Zenon DEF ForcesIn
    <3> QED BY <1>5, <2>5, <3>3
  <2>6. CASE c.op # "SkipCache"
    <3>1. Where(t, Skips) = Where(s, Skips)
      BY <2>1, <2>2, <2>6
    <3>2. \A i \in 1 .. n : i < n + 1 /\ i < n + 2
      BY <1>1
    <3>3. ForcesIn(t, n + 2) <=> ForcesIn(s, n + 1)
      BY <1>2, <2>3, <3>1, <3>2 DEF ForcesIn
    <3> QED BY <1>5, <2>4, <2>6, <3>3
  <2> QED BY <2>5, <2>6
<1>7. \A i \in OwnOf(s) : ForcesIn(t, i) <=> ForcesIn(s, i)
  <2> HIDE DEF t
  <2> TAKE i \in OwnOf(s)
  <2>1. i \in 1 .. Len(s) + 1
    BY <1>4 DEF n
  <2> QED BY <2>1, ForcesKept DEF t
<1>8. FileAt(t) \in 0 .. Len(t)
  <2>1. FileAt(s) \in 0 .. n
    BY DEF ForcedInv
  <2> HIDE DEF n, t
  <2> QED BY <1>1, <1>2, <2>1
<1> DEFINE own == OwnOf(s)
<1> DEFINE insts == builder.instructions
<1>9. /\ Cardinality(own) <= Len(insts)
      /\ Matches(s, own, Len(insts) - Cardinality(own), insts)
  BY Zenon DEF ForcedInv, Matches
<1> HIDE DEF own, insts, t, n
<1>10. Matches(t, own, Len(insts) - Cardinality(own), insts)
  BY <1>7, <1>9, Zenon DEF Matches, own
<1>11. n + 2 = Len(t) + 1
  BY <1>1
<1>12. ForcedInv(t, more)
  BY <1>3, <1>5, <1>6, <1>8, <1>9, <1>10, <1>11, Zenon
     DEF ForcedInv, Matches, own, insts
<1> QED BY <1>12 DEF t

\* ... as does a file that is read: the calls before it no longer count ...
LEMMA ForcedRead ==
  ASSUME NEW s \in Seq(Chains), NEW c \in Chains, NEW builder, NEW more,
         IsBuilder(builder), IsBuilder(more),
         ForcedInv(s, builder), Instructs(builder, c, more),
         ~AddsStep(c), ReadsFile(c)
  PROVE  ForcedInv(Append(s, c), more)
<1> DEFINE n == Len(s)
<1> DEFINE t == Append(s, c)
<1>1. n \in Nat /\ Len(t) = n + 1
  OBVIOUS
<1>2. Where(t, Adders) = Where(s, Adders) /\ FileAt(t) = n + 1
  <2>1. c \notin Adders /\ c \in Readers
    BY DEF Adders, Readers
  <2>2. Where(t, Adders) = Where(s, Adders) \cup {}
    BY <2>1, WhereAppended, Zenon
  <2>3. FileAt(t) = n + 1
    BY <2>1, LatestAppended, Zenon DEF FileAt
  <2> QED BY <2>2, <2>3
<1>3. Where(s, Skips) \subseteq 1 .. n /\ Where(s, Adders) \subseteq 1 .. n
  BY WhereIn
<1>4. /\ more.forceNextLayer = builder.forceNextLayer
      /\ Unforced(more) /\ c.op # "SkipCache"
  BY Zenon DEF Instructs
<1>5. Where(t, Skips) = Where(s, Skips)
  <2>1. c \notin Skips
    BY <1>4 DEF Skips
  <2>2. Where(t, Skips) = Where(s, Skips) \cup {}
    BY <2>1, WhereAppended, Zenon
  <2> QED BY <2>2
<1>6. builder.forceNextLayer \in BOOLEAN
      /\ (builder.forceNextLayer <=> ForcesIn(s, n + 1))
  BY DEF ForcedInv
<1> HIDE DEF n, t
<1>7. OwnOf(t) = {}
  BY <1>1, <1>2, <1>3 DEF OwnOf
<1>8. ForcesIn(t, n + 2) <=> ForcesIn(s, n + 1)
  <2>1. \A i \in 1 .. n : i < n + 1 /\ i < n + 2
    BY <1>1
  <2> QED BY <1>2, <1>3, <1>5, <2>1 DEF ForcesIn
<1>9. n + 2 = Len(t) + 1 /\ FileAt(t) \in 0 .. Len(t)
  BY <1>1, <1>2
<1>10. Cardinality(OwnOf(t)) = 0
  BY <1>7, FS_EmptySet
<1> DEFINE insts == more.instructions
<1>11. Len(insts) \in Nat /\ \A k \in 1 .. Len(insts) : ~insts[k].force
  BY <1>4 DEF IsBuilder, IsSequence, Unforced
<1> HIDE DEF insts
<1>12. 0 <= Len(insts) /\ Len(insts) - 0 = Len(insts)
  BY <1>11
<1>13. ForcedInv(t, more)
  BY <1>4, <1>6, <1>7, <1>8, <1>9, <1>10, <1>11, <1>12 DEF ForcedInv, insts
<1> QED BY <1>13 DEF t

\* ... and a call that adds a step.
LEMMA ForcedAdded ==
  ASSUME NEW s \in Seq(Chains), NEW c \in Chains, NEW builder, NEW more,
         IsBuilder(builder),
         ForcedInv(s, builder), Instructs(builder, c, more),
         AddsStep(c)
  PROVE  ForcedInv(Append(s, c), more)
<1> DEFINE n == Len(s)
<1> DEFINE t == Append(s, c)
<1> DEFINE own == OwnOf(s)
<1> DEFINE m == Cardinality(own)
<1> DEFINE len == Len(builder.instructions)
<1>1. n \in Nat /\ Len(t) = n + 1
  OBVIOUS
<1>2. /\ ~ReadsFile(c) /\ c.op # "SkipCache"
      /\ more.forceNextLayer = FALSE
      /\ Len(more.instructions) = len + 1
      /\ more.instructions[len + 1].force = builder.forceNextLayer
      /\ \A k \in 1 .. len : more.instructions[k] = builder.instructions[k]
  BY Zenon DEF Instructs
<1>3. Where(t, Adders) = Where(s, Adders) \cup {n + 1} /\ FileAt(t) = FileAt(s)
  <2>1. c \in Adders /\ c \notin Readers
    BY <1>2 DEF Adders, Readers
  <2>2. Where(t, Adders) = Where(s, Adders) \cup {n + 1}
    BY <2>1, WhereAppended, Zenon
  <2>3. FileAt(t) = FileAt(s)
    BY <2>1, LatestAppended, Zenon DEF FileAt
  <2> QED BY <2>2, <2>3
<1>4. Where(s, Skips) \subseteq 1 .. n /\ Where(s, Adders) \subseteq 1 .. n
  BY WhereIn
<1>5. Where(t, Skips) = Where(s, Skips)
  <2>1. c \notin Skips
    BY <1>2 DEF Skips
  <2>2. Where(t, Skips) = Where(s, Skips) \cup {}
    BY <2>1, WhereAppended, Zenon
  <2> QED BY <2>2
<1>6. /\ FileAt(s) \in 0 .. n
      /\ builder.forceNextLayer \in BOOLEAN
      /\ builder.forceNextLayer <=> ForcesIn(s, n + 1)
      /\ m <= len
      /\ \A k \in 1 .. len - m : ~builder.instructions[k].force
      /\ \A i \in own : builder.instructions[len - m + RankIn(own, i)].force
                          <=> ForcesIn(s, i)
  BY Zenon DEF ForcedInv
<1>7. len \in Nat
  BY DEF IsBuilder, IsSequence
<1>8. own \subseteq 1 .. n
  BY <1>4 DEF OwnOf
<1>9. /\ IsFiniteSet(own) /\ m \in Nat
      /\ \A i \in own : RankIn(own, i) \in 1 .. m
  BY <1>1, <1>8, Ranks
<1>10. \A i \in 1 .. n + 1 : ForcesIn(t, i) <=> ForcesIn(s, i)
  BY ForcesKept
<1> HIDE DEF n, t, own, m, len
<1>11. OwnOf(t) = own \cup {n + 1}
  <2>1. n + 1 > FileAt(s)
    BY <1>1, <1>6
  <2> QED BY <1>3, <2>1 DEF OwnOf, own
<1>12. Cardinality(OwnOf(t)) = m + 1
  <2>1. n + 1 \notin own
    BY <1>1, <1>8
  <2> QED BY <1>9, <1>11, <2>1, FS_AddElement DEF m
<1>13. ~ForcesIn(t, n + 2)
  <2>1. n + 1 \in Where(t, Adders) /\ n + 1 < n + 2
        /\ \A i \in 1 .. n : ~(n + 1 < i)
    BY <1>1, <1>3
  <2> QED BY <1>4, <1>5, <2>1 DEF ForcesIn
<1>14. \A i \in own : RankIn(OwnOf(t), i) = RankIn(own, i)
  <2> TAKE i \in own
  <2>1. ~(n + 1 <= i)
    BY <1>1, <1>8
  <2>2. {j \in OwnOf(t) : j <= i} = {j \in own : j <= i}
    BY <1>11, <2>1
  <2> QED BY <2>2 DEF RankIn
<1>15. RankIn(OwnOf(t), n + 1) = m + 1
  <2>1. \A j \in OwnOf(t) : j <= n + 1
    <3> TAKE j \in OwnOf(t)
    <3>1. j \in 1 .. n \/ j = n + 1
      BY <1>8, <1>11
    <3> QED BY <1>1, <3>1
  <2>2. {j \in OwnOf(t) : j <= n + 1} = OwnOf(t)
    BY <2>1
  <2> QED BY <1>12, <2>2 DEF RankIn
<1> DEFINE insts == more.instructions
<1>16. /\ Len(insts) = len + 1
       /\ insts[len + 1].force = builder.forceNextLayer
       /\ \A k \in 1 .. len : insts[k] = builder.instructions[k]
  BY <1>2
<1> HIDE DEF insts
<1>17. (len + 1) - (m + 1) = len - m /\ m + 1 <= len + 1 /\ len - m \in 0 .. len
  BY <1>6, <1>7, <1>9
<1>18. \A k \in 1 .. len - m : ~insts[k].force
  <2> TAKE k \in 1 .. len - m
  <2>1. k \in 1 .. len
    BY <1>7, <1>17
  <2> QED BY <1>6, <1>16, <2>1
<1>19. \A i \in OwnOf(t) :
         insts[len - m + RankIn(OwnOf(t), i)].force <=> ForcesIn(t, i)
  <2> TAKE i \in OwnOf(t)
  <2>1. CASE i \in own
    <3>1. RankIn(own, i) \in 1 .. m
      BY <1>9, <2>1
    <3> DEFINE rank == RankIn(own, i)
    <3> HIDE DEF rank
    <3>2. rank \in 1 .. m /\ RankIn(OwnOf(t), i) = rank
      BY <1>14, <2>1, <3>1 DEF rank
    <3>3. len - m + rank \in 1 .. len
      BY <1>6, <1>7, <1>9, <3>2
    <3>4. insts[len - m + rank] = builder.instructions[len - m + rank]
      BY <1>16, <3>3, Zenon
    <3>5. builder.instructions[len - m + rank].force <=> ForcesIn(s, i)
      BY <1>6, <2>1, Zenon DEF rank
    <3>6. i \in 1 .. n + 1
      BY <1>1, <1>8, <2>1
    <3>7. ForcesIn(t, i) <=> ForcesIn(s, i)
      BY <1>10, <3>6, Zenon
    <3> QED BY <3>2, <3>4, <3>5, <3>7, Zenon
  <2>2. CASE i = n + 1
    <3>1. len - m + (m + 1) = len + 1 /\ n + 1 \in 1 .. n + 1
      BY <1>1, <1>6, <1>7, <1>9
    <3>2. insts[len - m + RankIn(OwnOf(t), i)] = insts[len + 1]
      BY <1>15, <2>2, <3>1
    <3>3. ForcesIn(t, i) <=> builder.forceNextLayer
      BY <1>6, <1>10, <2>2, <3>1
    <3> QED BY <1>16, <3>2, <3>3
  <2> QED BY <1>11, <2>1, <2>2
<1>20. n + 2 = Len(t) + 1 /\ FileAt(t) \in 0 .. Len(t)
  BY <1>1, <1>3, <1>6
<1>21. more.forceNextLayer \in BOOLEAN
       /\ (more.forceNextLayer <=> ForcesIn(t, Len(t) + 1))
  BY <1>2, <1>13, <1>20
<1>22. /\ Len(insts) - Cardinality(OwnOf(t)) = len - m
       /\ Cardinality(OwnOf(t)) <= Len(insts)
  BY <1>12, <1>16, <1>17
<1>23. ForcedInv(t, more)
  BY <1>18, <1>19, <1>20, <1>21, <1>22, Zenon DEF ForcedInv, insts
<1> QED BY <1>23 DEF t

-----------------------------------------------------------------------------
(* The build as a whole is forced by From calls with a SkipCache pending.   *)

Froms == {c \in Chains : CallsFrom(c)}
ForceInv(s, builder) ==
  builder.force <=> \E i \in Where(s, Froms) : ForcesIn(s, i)

\* What a call does to the flag of the build.
ForcesMore(builder, call, more) ==
  more.force <=> builder.force \/ (CallsFrom(call) /\ builder.forceNextLayer)

\* Every call does.
LEMMA Forcing ==
  ASSUME NEW builder, NEW call \in Chains, IsBuilder(builder)
  PROVE  ForcesMore(builder, call, Apply(builder, call))
<1> DEFINE more == Apply(builder, call)
<1> DEFINE a == call.args
<1> DEFINE Same(made) == made.force = builder.force
<1>0. call.op \in Methods
  BY ChainsAssumption
<1>1. ASSUME NEW image, NEW auth
      PROVE  FromImageWithAuth(builder, image, auth).force
               <=> builder.force \/ builder.forceNextLayer
  <2> DEFINE force == builder.force \/ builder.forceNextLayer
  <2>1. FromImageWithAuth(builder, image, auth)
          = [builder EXCEPT !.baseImage = image, !.baseTemplate = "",
                            !.registry = auth, !.force = force]
    BY Zenon DEF FromImageWithAuth
  <2> HIDE DEF force
  <2>2. FromImageWithAuth(builder, image, auth).force = force
    BY <2>1 DEF IsBuilder
  <2> QED BY <2>2 DEF force
<1>2. ASSUME NEW template
      PROVE  FromTemplate(builder, template).force
               <=> builder.force \/ builder.forceNextLayer
  <2> DEFINE force == builder.force \/ builder.forceNextLayer
  <2>1. FromTemplate(builder, template)
          = [builder EXCEPT !.baseTemplate = template, !.baseImage = "",
                            !.registry = "", !.force = force]
    BY Zenon DEF FromTemplate
  <2> HIDE DEF force
  <2>2. FromTemplate(builder, template).force = force
    BY <2>1 DEF IsBuilder
  <2> QED BY <2>2 DEF force
<1>3. ASSUME NEW type, NEW args
      PROVE  Same(AddInstruction(builder, Instruction(type, args)))
  <2> DEFINE made == AddInstruction(builder, Instruction(type, args))
  <2>1. OneMore(builder, made)
    BY AddedOne
  <2> HIDE DEF made
  <2>2. made.force = builder.force
    BY <2>1, Zenon DEF OneMore
  <2> QED BY <2>2 DEF made
<1>4. CASE call.op = "FromImage"
  <2>1. more = FromImageWithAuth(builder, a[1], a[2]) /\ CallsFrom(call)
    BY <1>4 DEF Apply, CallsFrom
  <2> HIDE DEF more, a
  <2> QED BY ONLY <1>1, <2>1 DEF ForcesMore, more
<1>5. CASE call.op = "FromBaseImage"
  <2>1. /\ more = FromImageWithAuth(builder, BaseImage, "")
        /\ CallsFrom(call)
    BY <1>5 DEF Apply, FromBaseImage, CallsFrom
  <2> HIDE DEF more
  <2> QED BY ONLY <1>1, <2>1 DEF ForcesMore, more
<1>6. CASE call.op = "FromTemplate"
  <2>1. more = FromTemplate(builder, a[1]) /\ CallsFrom(call)
    BY <1>6 DEF Apply, CallsFrom
  <2> HIDE DEF more, a
  <2> QED BY ONLY <1>2, <2>1 DEF ForcesMore, more
<1>7. CASE ~CallsFrom(call)
  <2>0. call.op \notin {"FromImage", "FromBaseImage", "FromTemplate"}
    BY <1>7 DEF CallsFrom
  <2> SUFFICES Same(more)
    <3> HIDE DEF more
    <3> QED BY ONLY <1>7, Same(more) DEF ForcesMore, more
  <2>1. CASE call.op = "RunCmd"
    BY <2>1, <1>3 DEF Apply, RunCmd
  <2>2. CASE call.op = "RunCmdAsUser"
    <3> DEFINE args == IF a[2] = "" THEN <<a[1]>> ELSE <<a[1], a[2]>>
    <3>1. more = AddInstruction(builder, Instruction("RUN", args))
      BY <2>2 DEF Apply, RunCmdAsUser
    <3> HIDE DEF args, more
    <3> QED BY <1>3, <3>1
  <2>3. CASE call.op = "Copy"
    BY <2>3, <1>3 DEF Apply, Copy
  <2>4. CASE call.op = "SetEnvs"
    <3>1. more = SetEnvs(builder, a[1])
      BY <2>4 DEF Apply
    <3>2. more = IF DOMAIN a[1] = {} THEN builder
                 ELSE AddInstruction(builder, Instruction("ENV", <<a[1]>>))
      BY <3>1, Zenon DEF SetEnvs
    <3> HIDE DEF more, a
    <3> QED BY <1>3, <3>2
  <2>5. CASE call.op = "SetWorkdir"
    BY <2>5, <1>3 DEF Apply, SetWorkdir
  <2>6. CASE call.op = "SetUser"
    BY <2>6, <1>3 DEF Apply, SetUser
  <2>7. CASE call.op = "SkipCache"
    <3>1. more = [builder EXCEPT !.forceNextLayer = TRUE]
      BY <2>7 DEF Apply, SkipCache
    <3> HIDE DEF more
    <3> QED BY <3>1 DEF IsBuilder
  <2>8. CASE call.op = "SetStartCmd"
    <3>1. more = [builder EXCEPT !.startCmd = a[1], !.readyCmd = a[2]]
      BY <2>8 DEF Apply, SetStartCmd
    <3> HIDE DEF more, a
    <3> QED BY <3>1 DEF IsBuilder
  <2>9. CASE call.op = "FromDockerfile"
    <3>1. more = FromDockerfile(builder, a)
      BY <2>9 DEF Apply
    <3> DEFINE parsed == Parse(a)
    <3> DEFINE made == parsed.builder
    <3>2. more = IF ~parsed.ok THEN builder
                 ELSE [made EXCEPT
                         !.force = builder.force,
                         !.forceNextLayer = builder.forceNextLayer]
      BY <3>1, Zenon DEF FromDockerfile
    <3>3. CASE ~parsed.ok
      <4> HIDE DEF more, parsed
      <4> QED BY <3>2, <3>3
    <3>4. CASE parsed.ok
      <4>1. a \in Dockerfile
        BY <2>9, ChainsAssumption
      <4>2. IsBuilder(made)
        BY <3>4, <4>1, Parsed DEF Plain
      <4> HIDE DEF more, made
      <4>3. more = [made EXCEPT !.force = builder.force,
                                !.forceNextLayer = builder.forceNextLayer]
        BY <3>2, <3>4, Zenon
      <4> QED BY <4>2, <4>3 DEF IsBuilder
    <3> QED BY <3>3, <3>4
  <2>10. CASE call.op = "Build"
    <3>1. more = IF a[1] = "" THEN builder
                 ELSE [builder EXCEPT !.registry = a[1]]
      BY <2>10 DEF Apply, UseRegistry
    <3> HIDE DEF more, a
    <3> QED BY <3>1 DEF IsBuilder
  <2> HIDE DEF more
  <2> QED BY ONLY <1>0, <2>0, <2>1, <2>2, <2>3, <2>4, <2>5, <2>6, <2>7, <2>8,
                  <2>9, <2>10 DEF Methods
<1> QED BY <1>4, <1>5, <1>6, <1>7 DEF CallsFrom

\* ... and so keeps ForceInv: the pending SkipCache is that of the next call.
LEMMA ForceKept ==
  ASSUME NEW s \in Seq(Chains), NEW c \in Chains, NEW builder, NEW more,
         ForcedInv(s, builder), ForceInv(s, builder),
         ForcesMore(builder, c, more)
  PROVE  ForceInv(Append(s, c), more)
<1> DEFINE n == Len(s)
<1> DEFINE t == Append(s, c)
<1>1. n \in Nat
  OBVIOUS
<1>2. Where(t, Froms) =
        Where(s, Froms) \cup (IF c \in Froms THEN {n + 1} ELSE {})
  BY WhereAppended
<1>3. Where(s, Froms) \subseteq 1 .. n
  BY WhereIn
<1>4. \A i \in 1 .. n + 1 : ForcesIn(t, i) <=> ForcesIn(s, i)
  BY ForcesKept
<1>5. builder.forceNextLayer <=> ForcesIn(s, n + 1)
  BY Zenon DEF ForcedInv
<1>6. c \in Froms <=> CallsFrom(c)
  BY Zenon DEF Froms
<1> HIDE DEF n, t
<1>7. \A i \in Where(s, Froms) : ForcesIn(t, i) <=> ForcesIn(s, i)
  BY <1>1, <1>3, <1>4
<1>8. ForcesIn(t, n + 1) <=> ForcesIn(s, n + 1)
  BY <1>1, <1>4
<1>9. ForceInv(t, more)
  <2>1. CASE c \in Froms
    BY <1>2, <1>5, <1>6, <1>7, <1>8, <2>1 DEF ForceInv, ForcesMore
  <2>2. CASE c \notin Froms
    BY <1>2, <1>6, <1>7, <2>2 DEF ForceInv, ForcesMore
  <2> QED BY <2>1, <2>2
<1> QED BY <1>9 DEF t

-----------------------------------------------------------------------------
(* The invariant: what a builder holds is what its script asked for.        *)

BuilderInv == /\ script \in Seq(Chains)
              /\ IsBuilder(b)
              /\ BaseInv(script, b)
              /\ ForcedInv(script, b)
              /\ ForceInv(script, b)

\* The invariant holds of a new builder and no calls ...
LEMMA InvInit == Init => BuilderInv
<1> SUFFICES ASSUME Init PROVE BuilderInv
  OBVIOUS
<1> DEFINE made == New(BaseOption)
<1>1. script = <<>> /\ b = made
  BY DEF Init
<1>2. \A C : Where(<<>>, C) = {}
  BY DEF Where
<1>3. \A C : LatestOf(Where(<<>>, C)) = 0
  BY <1>2, Zenon DEF LatestOf
<1>4. Len(<<>>) = 0 /\ <<>> \in Seq(Chains)
  OBVIOUS
<1>5. BaseInv(<<>>, made)
  <2>1. Unbased(made) /\ ~Credited(made)
    BY DEF New, Unbased, Credited
  <2>2. BaseAt(<<>>) = 0
    BY <1>3, Zenon DEF BaseAt
  <2> QED BY <1>4, <2>1, <2>2 DEF BaseInv
<1>6. ForcedInv(<<>>, made)
  <2>1. made.forceNextLayer = FALSE /\ made.instructions = <<>>
    BY DEF New
  <2>2. OwnOf(<<>>) = {}
    BY <1>2 DEF OwnOf
  <2>3. Cardinality(OwnOf(<<>>)) = 0
    BY <2>2, FS_EmptySet
  <2>4. \A i : ~ForcesIn(<<>>, i)
    BY <1>2 DEF ForcesIn
  <2>5. FileAt(<<>>) = 0
    BY <1>3, Zenon DEF FileAt
  <2>6. Len(made.instructions) = 0
    BY <2>1
  <2>7. 0 \in 0 .. 0 /\ 0 <= 0 /\ 0 - 0 = 0 /\ \A k \in 1 .. 0 : FALSE
    OBVIOUS
  <2>8. made.forceNextLayer \in BOOLEAN
    BY <2>1
  <2>9. ~(made.forceNextLayer <=> TRUE)
    BY <2>1
  <2> QED BY <1>4, <2>2, <2>3, <2>4, <2>5, <2>6, <2>7, <2>8, <2>9,
          Zenon DEF ForcedInv
<1>7. ForceInv(<<>>, made)
  <2>1. made.force = FALSE
    BY DEF New
  <2>2. \A i : i \notin Where(<<>>, Froms)
    BY <1>2
  <2> QED BY ONLY <2>1, <2>2 DEF ForceInv
<1>8. IsBuilder(made)
  BY NewIs
<1> HIDE DEF made
<1> QED BY <1>1, <1>4, <1>5, <1>6, <1>7, <1>8 DEF BuilderInv

\* ... and is kept by every call.
LEMMA InvNext == BuilderInv /\ [Next]_vars => BuilderInv'
<1> SUFFICES ASSUME BuilderInv, [Next]_vars PROVE BuilderInv'
  OBVIOUS
<1>1. CASE Next
  <2>1. PICK c \in Chains : Call(c)
    BY <1>1 DEF Next
  <2>2. script' = Append(script, c) /\ b' = Apply(b, c)
    BY <2>1 DEF Call
  <2>3. script \in Seq(Chains) /\ IsBuilder(b) /\ BaseInv(script, b)
        /\ ForcedInv(script, b) /\ ForceInv(script, b)
    BY DEF BuilderInv
  <2> DEFINE more == Apply(b, c)
  <2>4. IsBuilder(more) /\ Bases(b, c, more) /\ Instructs(b, c, more)
    BY <2>3, Applied DEF Applies
  <2>10. ForcesMore(b, c, more)
    BY <2>3, Forcing
  <2> HIDE DEF more
  <2>11. ForceInv(Append(script, c), more)
    BY <2>3, <2>10, ForceKept
  <2>5. BaseInv(Append(script, c), more)
    BY <2>3, <2>4, BaseKept
  <2>6. ForcedInv(Append(script, c), more)
    <3>1. CASE AddsStep(c)
      BY <2>3, <2>4, <3>1, ForcedAdded
    <3>2. CASE ~AddsStep(c) /\ ReadsFile(c)
      BY <2>3, <2>4, <3>2, ForcedRead
    <3>3. CASE ~AddsStep(c) /\ ~ReadsFile(c)
      BY <2>3, <2>4, <3>3, ForcedUnchanged
    <3> QED BY <3>1, <3>2, <3>3
  <2>7. Append(script, c) \in Seq(Chains)
    BY <2>3
  <2>8. b' = more
    BY <2>2 DEF more
  <2>9. BaseInv(script', b') /\ ForcedInv(script', b') /\ IsBuilder(b')
        /\ ForceInv(script', b') /\ script' \in Seq(Chains)
    BY <2>2, <2>4, <2>5, <2>6, <2>7, <2>8, <2>11, Zenon
  <2> QED BY <2>9 DEF BuilderInv
<1>2. CASE UNCHANGED vars
  BY <1>2 DEF BuilderInv, vars
<1> QED BY <1>1, <1>2

\* The builder matches its script: its base and credentials are those of the
\* calls since the base was last set, and its flags and the flags of its steps
\* those the SkipCache calls ask for.
THEOREM InvHolds == Spec => []BuilderInv
  BY InvInit, InvNext, PTL DEF Spec

\* The script is made of calls a caller may make.
LEMMA Scripted ==
  ASSUME BuilderInv
  PROVE  /\ DOMAIN script = 1 .. Len(script) /\ Len(script) \in Nat
         /\ \A i \in 1 .. Len(script) : script[i] \in Chains
  BY DEF BuilderInv

\* What the invariant says of the base is BaseAsAsked.
LEMMA InvBase == BuilderInv => BaseAsAsked
<1> SUFFICES ASSUME BuilderInv PROVE BaseAsAsked
  OBVIOUS
<1>1. /\ DOMAIN script = 1 .. Len(script) /\ Len(script) \in Nat
      /\ \A i \in 1 .. Len(script) : script[i] \in Chains
  BY Scripted
<1>2. BaseCall = BaseAt(script)
  <2>1. {i \in DOMAIN script : SetsBase(script[i])} = Where(script, Basers)
    BY <1>1 DEF Where, Basers
  <2> QED BY <2>1 DEF BaseCall, BaseAt
<1> DEFINE body == ToJSON(b)
<1>3. /\ body.fromImage = b.baseImage /\ body.fromTemplate = b.baseTemplate
      /\ body.registry = b.registry
  <2> DEFINE steps == Steps(b)
  <2> DEFINE force == FALSE \/ b.force
  <2>1. body = [fromImage |-> b.baseImage, fromTemplate |-> b.baseTemplate,
                startCmd |-> b.startCmd, readyCmd |-> b.readyCmd,
                force |-> force, registry |-> b.registry, steps |-> steps]
    BY Zenon DEF ToJSON, Serialize
  <2> HIDE DEF body, steps, force
  <2> QED BY <2>1
<1> HIDE DEF body
<1>4. BaseCall = 0 =>
        /\ body.fromImage = IF BaseOption = "" THEN BaseImage ELSE BaseOption
        /\ body.fromTemplate = ""
  BY <1>2, <1>3, Zenon DEF BuilderInv, BaseInv, Unbased
<1>5. BaseCall # 0 =>
        Says(script[BaseCall], body.fromImage, body.fromTemplate)
  BY <1>2, <1>3, Zenon DEF BuilderInv, BaseInv, Told
<1>6. body.registry # "" =>
        \E i \in DOMAIN script :
          /\ i >= BaseCall
          /\ \/ script[i].op = "Build" /\ script[i].args[1] = body.registry
             \/ script[i].op = "FromImage"
                /\ script[i].args[2] = body.registry
  BY <1>1, <1>2, <1>3, Zenon DEF BuilderInv, BaseInv, Credited, Gave
<1> QED BY <1>4, <1>5, <1>6, Zenon DEF BaseAsAsked, body

\* A template starts from what the last call to say so said, and the
\* credentials in its request were given for that base.
THEOREM Based == Spec => []BaseAsAsked
  BY InvHolds, InvBase, PTL

-----------------------------------------------------------------------------
(* What a builder does.                                                     *)

Sent(builder) == \A k \in 1 .. Len(builder.instructions) :
                   builder.instructions[k].type \in Buildable
DoneBy(builder) == Doing(builder.instructions)[Len(builder.instructions)]

\* Nothing of a builder is left out of what is sent.
LEMMA AllKept ==
  ASSUME NEW insts, IsSequence(insts),
         \A k \in 1 .. Len(insts) : insts[k].type \in Buildable
  PROVE  Kept(insts)[Len(insts)] = insts
<1> DEFINE kept == Kept(insts)
<1> DEFINE Same(i) == /\ IsSequence(kept[i]) /\ Len(kept[i]) = i
                      /\ \A k \in 1 .. i : kept[i][k] = insts[k]
<1> DEFINE T == {i \in Nat : i <= Len(insts) => Same(i)}
<1>0. Len(insts) \in Nat
  BY DEF IsSequence
<1>1. /\ kept[0] = <<>>
      /\ \A i \in 1 .. Len(insts) :
           kept[i] = IF insts[i].type \in Buildable
                     THEN Append(kept[i - 1], insts[i]) ELSE kept[i - 1]
  BY <1>0, KeptSteps
<1>2. 0 \in T
  <2>1. IsSequence(<<>>) /\ Len(<<>>) = 0 /\ 1 .. 0 = {}
    BY DEF IsSequence
  <2> HIDE DEF kept
  <2>2. Same(0)
    BY <1>1, <2>1
  <2> HIDE DEF Same
  <2> QED BY <2>2
<1>3. \A n \in Nat : n \in T => n + 1 \in T
  <2> HIDE DEF kept
  <2> TAKE n \in Nat
  <2> HAVE n \in T
  <2>1. ASSUME n + 1 <= Len(insts) PROVE Same(n + 1)
    <3>1. n + 1 \in 1 .. Len(insts) /\ (n + 1) - 1 = n /\ n <= Len(insts)
      BY <1>0, <2>1
    <3>2. kept[n + 1] = Append(kept[n], insts[n + 1])
      BY <1>1, <3>1
    <3>3. Same(n)
      BY <3>1
    <3> DEFINE s == kept[n]
    <3> DEFINE e == insts[n + 1]
    <3>4. IsSequence(s) /\ Len(s) = n /\ \A k \in 1 .. n : s[k] = insts[k]
      BY <3>3
    <3>5. kept[n + 1] = Append(s, e)
      BY <3>2
    <3> HIDE DEF s, Same
    <3>6. /\ IsSequence(Append(s, e)) /\ Len(Append(s, e)) = n + 1
          /\ Append(s, e)[n + 1] = e
          /\ \A k \in 1 .. n : Append(s, e)[k] = s[k]
      BY <3>4, Appended
    <3>7. ASSUME NEW k \in 1 .. n + 1 PROVE kept[n + 1][k] = insts[k]
      <4>1. CASE k \in 1 .. n
        BY <3>4, <3>5, <3>6, <4>1
      <4>2. CASE k = n + 1
        BY <3>5, <3>6, <4>2
      <4> QED BY <4>1, <4>2
    <3> QED BY <3>5, <3>6, <3>7 DEF Same
  <2> HIDE DEF Same
  <2> QED BY <2>1
<1>4. Same(Len(insts))
  <2> HIDE DEF T
  <2>1. Len(insts) \in T
    BY <1>0, <1>2, <1>3, SetInduction
  <2> HIDE DEF Same
  <2> QED BY <1>0, <2>1 DEF T
<1> DEFINE last == kept[Len(insts)]
<1> HIDE DEF last
<1>5. IsSequence(last) /\ Len(last) = Len(insts)
      /\ \A k \in 1 .. Len(insts) : last[k] = insts[k]
  BY <1>4 DEF last
<1>6. last = insts
  BY <1>5 DEF IsSequence
<1> QED BY <1>6 DEF last

\* One more step is done after the others.
LEMMA OneMoreDone ==
  ASSUME NEW s, NEW e, IsSequence(s)
  PROVE  Doing(Append(s, e))[Len(s) + 1] = StepDoes(Doing(s)[Len(s)], e)
<1> DEFINE t == Append(s, e)
<1> DEFINE n == Len(s)
<1>1. /\ IsSequence(t) /\ Len(t) = n + 1 /\ t[n + 1] = e
      /\ \A k \in 1 .. n : t[k] = s[k]
  BY Appended
<1>2. n \in Nat
  BY DEF IsSequence
<1>3. /\ Doing(s)[0] = Stage
      /\ \A i \in 1 .. n : Doing(s)[i] = StepDoes(Doing(s)[i - 1], s[i])
  BY <1>2, DoingSteps
<1> HIDE DEF t, n
<1>4. /\ Doing(t)[0] = Stage
      /\ \A i \in 1 .. n + 1 : Doing(t)[i] = StepDoes(Doing(t)[i - 1], t[i])
  <2>1. Len(t) \in Nat
    BY <1>1, <1>2
  <2> QED BY <1>1, <2>1, DoingSteps
<1> DEFINE T == {i \in Nat : i <= n => Doing(t)[i] = Doing(s)[i]}
<1>5. 0 \in T
  BY <1>3, <1>4
<1>6. \A i \in Nat : i \in T => i + 1 \in T
  <2> TAKE i \in Nat
  <2> HAVE i \in T
  <2>1. ASSUME i + 1 <= n PROVE Doing(t)[i + 1] = Doing(s)[i + 1]
    <3>1. /\ i + 1 \in 1 .. n /\ i + 1 \in 1 .. n + 1
          /\ (i + 1) - 1 = i /\ i <= n
      BY <1>2, <2>1
    <3>2. Doing(t)[i] = Doing(s)[i] /\ t[i + 1] = s[i + 1]
      BY <1>1, <3>1
    <3> QED BY <1>3, <1>4, <3>1, <3>2
  <2> QED BY <2>1
<1>7. Doing(t)[n] = Doing(s)[n]
  <2> HIDE DEF T
  <2>1. n \in T
    BY <1>2, <1>5, <1>6, SetInduction
  <2> QED BY <1>2, <2>1 DEF T
<1>8. Doing(t)[n + 1] = StepDoes(Doing(t)[n], t[n + 1])
  <2>1. n + 1 \in 1 .. n + 1 /\ (n + 1) - 1 = n
    BY <1>2
  <2> QED BY <1>4, <2>1
<1> QED BY <1>1, <1>7, <1>8 DEF t, n

\* An instruction that is added is done last.
LEMMA AddedDone ==
  ASSUME NEW builder, NEW type \in Buildable, NEW args,
         IsBuilder(builder), Sent(builder)
  PROVE  LET more == AddInstruction(builder, Instruction(type, args))
         IN /\ IsBuilder(more) /\ Sent(more)
            /\ more.startCmd = builder.startCmd
            /\ \E inst : /\ inst.type = type /\ inst.args = args
                         /\ DoneBy(more) = StepDoes(DoneBy(builder), inst)
<1> DEFINE more == AddInstruction(builder, Instruction(type, args))
<1> DEFINE forced == builder.forceNextLayer
<1> DEFINE inst == [Instruction(type, args) EXCEPT !.force = forced]
<1>1. more = [builder EXCEPT !.instructions = Append(@, inst),
                             !.forceNextLayer = FALSE]
  BY DEF AddInstruction
<1>2. inst.type = type /\ inst.args = args
  <2> HIDE DEF forced
  <2> QED BY DEF Instruction
<1> HIDE DEF inst, more
<1> DEFINE s == builder.instructions
<1>3. more.instructions = Append(s, inst) /\ more.startCmd = builder.startCmd
  BY <1>1 DEF IsBuilder
<1>4. IsBuilder(more)
  <2>1. OneMore(builder, more)
    BY AddedOne DEF more
  <2> QED BY <2>1 DEF OneMore
<1>5. IsSequence(s) /\ Len(s) \in Nat
  BY DEF IsBuilder, IsSequence
<1>6. /\ Len(more.instructions) = Len(s) + 1
      /\ more.instructions[Len(s) + 1] = inst
      /\ \A k \in 1 .. Len(s) : more.instructions[k] = s[k]
  BY <1>3, <1>5, Appended
<1>7. DoneBy(more) = StepDoes(DoneBy(builder), inst)
  <2>1. Doing(Append(s, inst))[Len(s) + 1] = StepDoes(Doing(s)[Len(s)], inst)
    BY <1>5, OneMoreDone
  <2> QED BY <1>3, <1>6, <2>1, Zenon DEF DoneBy
<1>8. Sent(more)
  <2> HIDE DEF s
  <2>1. \A k \in 1 .. Len(s) : s[k].type \in Buildable
    BY DEF Sent, s
  <2>2. ASSUME NEW k \in 1 .. Len(s) + 1
        PROVE  more.instructions[k].type \in Buildable
    <3>1. CASE k \in 1 .. Len(s)
      BY <1>6, <2>1, <3>1
    <3>2. CASE k = Len(s) + 1
      BY <1>2, <1>6, <3>2
    <3> QED BY <1>5, <3>1, <3>2
  <2> QED BY <1>6, <2>2 DEF Sent
<1> QED BY <1>2, <1>3, <1>4, <1>7, <1>8, Zenon DEF more

\* What each step does.
LEMMA RunDoes ==
  ASSUME NEW stage, NEW inst, NEW arg, inst.type = "RUN", inst.args = <<arg>>
  PROVE  StepDoes(stage, inst) = Does(stage, arg, stage.user)
BY DEF StepDoes

\* (The directory, ...
LEMMA WorkdirDoes ==
  ASSUME NEW stage, NEW inst, NEW dir,
         inst.type = "WORKDIR", inst.args = <<dir>>
  PROVE  StepDoes(stage, inst) = [stage EXCEPT !.dir = dir]
BY DEF StepDoes

\* ... the user, ...
LEMMA UserDoes ==
  ASSUME NEW stage, NEW inst, NEW user,
         inst.type = "USER", inst.args = <<user>>
  PROVE  StepDoes(stage, inst) = [stage EXCEPT !.user = user]
BY DEF StepDoes

\* ... variables over those there are, ...
LEMMA EnvDoes ==
  ASSUME NEW stage, NEW inst, NEW envs,
         inst.type = "ENV", inst.args = <<envs>>
  PROVE  StepDoes(stage, inst) =
           [stage EXCEPT !.envs = Over(envs, stage.envs)]
BY DEF StepDoes

\* ... an argument, which is done as it stands.)
LEMMA ArgDoes ==
  ASSUME NEW stage, NEW inst, NEW args, inst.type = "ARG", inst.args = args
  PROVE  StepDoes(stage, inst) = Does(stage, <<"ARG", args>>, "")
BY DEF StepDoes

\* ... a COPY step with an owner or without.
LEMMA CopyDoes ==
  ASSUME NEW stage, NEW inst, NEW line, NEW i,
         inst.type = "COPY", inst.args = CopyFrom(line, i)
  PROVE  StepDoes(stage, inst) =
           Does(stage, <<line.args[i], line.args[Len(line.args)]>>, line.chown)
<1> DEFINE src == line.args[i]
<1> DEFINE dest == line.args[Len(line.args)]
<1>1. StepDoes(stage, inst) =
        Does(stage, <<inst.args[1], inst.args[2]>>,
             IF Len(inst.args) > 2 THEN inst.args[3] ELSE "")
  BY DEF StepDoes
<1>2. inst.args = <<src, dest>>
                  \o IF line.chown = "" THEN <<>> ELSE <<line.chown>>
  BY DEF CopyFrom
<1> HIDE DEF src, dest
<1> DEFINE args == inst.args
<1>3. CASE line.chown = ""
  <2>1. args = <<src, dest>> \o <<>>
    BY <1>2, <1>3, Zenon
  <2> HIDE DEF args
  <2>2. args[1] = src /\ args[2] = dest /\ ~(Len(args) > 2)
    BY <2>1
  <2> QED BY <1>1, <1>3, <2>2, Zenon DEF args, src, dest
<1>4. CASE line.chown # ""
  <2> DEFINE owner == line.chown
  <2>1. args = <<src, dest>> \o <<owner>>
    BY <1>2, <1>4, Zenon
  <2> HIDE DEF args, owner
  <2>2. args[1] = src /\ args[2] = dest /\ Len(args) > 2 /\ args[3] = owner
    BY <2>1
  <2> QED BY <1>1, <2>2, Zenon DEF args, owner, src, dest
<1> QED BY <1>3, <1>4

IsStage(stage) ==
  /\ stage = [done |-> stage.done, user |-> stage.user, dir |-> stage.dir,
              envs |-> stage.envs, start |-> stage.start]
  /\ IsSequence(stage.done)

\* The stage a builder is at is the one its Dockerfile is at, but for the
\* command to start, which is not a step.
Agrees(stage, file) ==
  /\ IsStage(stage) /\ IsStage(file)
  /\ stage.done = file.done /\ stage.user = file.user
  /\ stage.dir = file.dir /\ stage.envs = file.envs

\* One more thing done leaves the rest of the stage alone.
LEMMA DoesStage ==
  ASSUME NEW stage, NEW what, NEW user, IsStage(stage)
  PROVE  LET more == Does(stage, what, user)
         IN /\ IsStage(more)
            /\ more.done = Append(stage.done,
                                  <<what, user, stage.dir, stage.envs>>)
            /\ more.user = stage.user /\ more.dir = stage.dir
            /\ more.envs = stage.envs /\ more.start = stage.start
<1> DEFINE more == Does(stage, what, user)
<1> DEFINE item == <<what, user, stage.dir, stage.envs>>
<1>1. more = [stage EXCEPT !.done = Append(@, item)]
  BY DEF Does
<1> HIDE DEF more, item
<1>2. /\ more.done = Append(stage.done, item)
      /\ more.user = stage.user /\ more.dir = stage.dir
      /\ more.envs = stage.envs /\ more.start = stage.start
      /\ more = [done |-> more.done, user |-> more.user, dir |-> more.dir,
                 envs |-> more.envs, start |-> more.start]
  BY <1>1 DEF IsStage
<1>3. IsSequence(more.done)
  BY <1>2, Appended DEF IsStage
<1> QED BY <1>2, <1>3 DEF IsStage, more, item

\* Stages that agree still do after the same is done ...
LEMMA DoesAgrees ==
  ASSUME NEW stage, NEW file, NEW what, NEW user, Agrees(stage, file)
  PROVE  /\ Agrees(Does(stage, what, user), Does(file, what, user))
         /\ Does(file, what, user).start = file.start
<1> DEFINE s == Does(stage, what, user)
<1> DEFINE f == Does(file, what, user)
<1>1. IsStage(stage) /\ IsStage(file)
  BY DEF Agrees
<1>2. /\ IsStage(s)
      /\ s.done = Append(stage.done, <<what, user, stage.dir, stage.envs>>)
      /\ s.user = stage.user /\ s.dir = stage.dir /\ s.envs = stage.envs
  BY <1>1, DoesStage
<1>3. /\ IsStage(f)
      /\ f.done = Append(file.done, <<what, user, file.dir, file.envs>>)
      /\ f.user = file.user /\ f.dir = file.dir /\ f.envs = file.envs
      /\ f.start = file.start
  BY <1>1, DoesStage
<1> HIDE DEF s, f
<1>4. Agrees(s, f)
  BY <1>2, <1>3 DEF Agrees
<1> QED BY <1>3, <1>4 DEF s, f

\* ... or set: the directory, ...
LEMMA DirAgrees ==
  ASSUME NEW stage, NEW file, NEW dir, Agrees(stage, file)
  PROVE  /\ Agrees([stage EXCEPT !.dir = dir], [file EXCEPT !.dir = dir])
         /\ [file EXCEPT !.dir = dir].start = file.start
BY DEF Agrees, IsStage

\* ... the user, ...
LEMMA UserAgrees ==
  ASSUME NEW stage, NEW file, NEW user, Agrees(stage, file)
  PROVE  /\ Agrees([stage EXCEPT !.user = user], [file EXCEPT !.user = user])
         /\ [file EXCEPT !.user = user].start = file.start
BY DEF Agrees, IsStage

\* ... the variables ...
LEMMA EnvsAgrees ==
  ASSUME NEW stage, NEW file, NEW envs, Agrees(stage, file)
  PROVE  /\ Agrees([stage EXCEPT !.envs = envs], [file EXCEPT !.envs = envs])
         /\ [file EXCEPT !.envs = envs].start = file.start
BY DEF Agrees, IsStage

\* ... and, in the file alone, the command to start.
LEMMA StartAgrees ==
  ASSUME NEW stage, NEW file, NEW start, Agrees(stage, file)
  PROVE  /\ Agrees(stage, [file EXCEPT !.start = start])
         /\ [file EXCEPT !.start = start].start = start
BY DEF Agrees, IsStage

\* A builder and a Dockerfile that agree, the command to start included.
Follows(builder, file) ==
  /\ IsBuilder(builder) /\ Sent(builder)
  /\ Agrees(DoneBy(builder), file)
  /\ file.start = builder.startCmd

\* A list of steps, added one by one, does what is done for each of them.
DoneMore(builder, more, whats, user) ==
  LET old == DoneBy(builder)
      new == DoneBy(more)
  IN /\ IsBuilder(more) /\ Sent(more)
     /\ more.startCmd = builder.startCmd
     /\ IsStage(new) /\ new.user = old.user /\ new.dir = old.dir
     /\ new.envs = old.envs
     /\ Len(new.done) = Len(old.done) + Len(whats)
     /\ \A k \in 1 .. Len(old.done) : new.done[k] = old.done[k]
     /\ \A k \in 1 .. Len(whats) :
          new.done[Len(old.done) + k] = <<whats[k], user, old.dir, old.envs>>

\* Each instruction of a list does its own, and none changes the stage.
LEMMA EachDone ==
  ASSUME NEW builder, NEW type \in Buildable, NEW list, NEW whats, NEW user,
         IsBuilder(builder), Sent(builder), IsStage(DoneBy(builder)),
         Len(list) \in Nat, Len(whats) = Len(list),
         ASSUME NEW i \in 1 .. Len(list), NEW stage, NEW inst,
                inst.type = type, inst.args = list[i]
         PROVE  StepDoes(stage, inst) = Does(stage, whats[i], user)
  PROVE  DoneMore(builder, AddEach(builder, type, list), whats, user)
<1> DEFINE added == Added(builder, type, list)
<1> DEFINE old == DoneBy(builder)
<1> DEFINE n == Len(old.done)
<1> DEFINE item(k) == <<whats[k], user, old.dir, old.envs>>
<1> DEFINE Fine(i) ==
      /\ IsBuilder(added[i]) /\ Sent(added[i])
      /\ added[i].startCmd = builder.startCmd
      /\ IsStage(DoneBy(added[i])) /\ DoneBy(added[i]).user = old.user
      /\ DoneBy(added[i]).dir = old.dir /\ DoneBy(added[i]).envs = old.envs
      /\ Len(DoneBy(added[i]).done) = n + i
      /\ \A k \in 1 .. n : DoneBy(added[i]).done[k] = old.done[k]
      /\ \A k \in 1 .. i : DoneBy(added[i]).done[n + k] = item(k)
<1> DEFINE T == {i \in Nat : i <= Len(list) => Fine(i)}
<1>1. /\ added[0] = builder
      /\ \A i \in 1 .. Len(list) :
           added[i] = AddInstruction(added[i - 1], Instruction(type, list[i]))
  BY AddedSteps
<1>2. n \in Nat
  BY DEF IsStage, IsSequence
<1>3. 0 \in T
  <2> HIDE DEF added, n, item
  <2>1. n + 0 = n /\ 1 .. 0 = {}
    BY <1>2
  <2>2. IsStage(old)
    OBVIOUS
  <2>3. Len(old.done) = n
    BY DEF n
  <2> HIDE DEF old
  <2>4. DoneBy(added[0]) = old
    BY <1>1 DEF old
  <2>5. Fine(0)
    BY <1>1, <2>1, <2>2, <2>3, <2>4
  <2> HIDE DEF Fine
  <2> QED BY <2>5
<1>4. \A i \in Nat : i \in T => i + 1 \in T
  <2> HIDE DEF added
  <2> TAKE i \in Nat
  <2> HAVE i \in T
  <2>1. ASSUME i + 1 <= Len(list) PROVE Fine(i + 1)
    <3>1. i + 1 \in 1 .. Len(list) /\ (i + 1) - 1 = i /\ i <= Len(list)
      BY <2>1
    <3> DEFINE x == added[i]
    <3> DEFINE y == added[i + 1]
    <3> DEFINE s == DoneBy(x)
    <3> DEFINE t == DoneBy(y)
    <3>2. y = AddInstruction(x, Instruction(type, list[i + 1]))
      BY <1>1, <3>1
    <3>3. Fine(i)
      BY <3>1
    <3>4. /\ IsBuilder(x) /\ Sent(x) /\ x.startCmd = builder.startCmd
          /\ IsStage(s) /\ s.user = old.user /\ s.dir = old.dir
          /\ s.envs = old.envs /\ Len(s.done) = n + i
          /\ \A k \in 1 .. n : s.done[k] = old.done[k]
          /\ \A k \in 1 .. i : s.done[n + k] = item(k)
      BY <3>3
    <3> HIDE DEF x, y, Fine
    <3>5. /\ IsBuilder(y) /\ Sent(y) /\ y.startCmd = x.startCmd
          /\ \E inst : /\ inst.type = type /\ inst.args = list[i + 1]
                       /\ t = StepDoes(s, inst)
      BY <3>2, <3>4, AddedDone
    <3>6. t = Does(s, whats[i + 1], user)
      <4>1. PICK inst : /\ inst.type = type /\ inst.args = list[i + 1]
                        /\ t = StepDoes(s, inst)
        BY <3>5
      <4> HIDE DEF s, t
      <4>2. StepDoes(s, inst) = Does(s, whats[i + 1], user)
        BY <3>1, <4>1
      <4> QED BY <4>1, <4>2
    <3> HIDE DEF s, t
    <3>7. /\ IsStage(t)
          /\ t.done = Append(s.done, <<whats[i + 1], user, s.dir, s.envs>>)
          /\ t.user = s.user /\ t.dir = s.dir /\ t.envs = s.envs
      BY <3>4, <3>6, DoesStage
    <3>8. t.done = Append(s.done, item(i + 1))
      BY <3>4, <3>7
    <3> DEFINE e == item(i + 1)
    <3> HIDE DEF e
    <3>9. /\ Len(t.done) = (n + i) + 1 /\ t.done[(n + i) + 1] = e
          /\ \A k \in 1 .. n + i : t.done[k] = s.done[k]
      <4>1. IsSequence(s.done)
        BY <3>4 DEF IsStage
      <4>2. t.done = Append(s.done, e)
        BY <3>8 DEF e
      <4> DEFINE d == s.done
      <4>3. Len(d) = n + i
        BY <3>4
      <4> HIDE DEF d
      <4>4. IsSequence(d) /\ t.done = Append(d, e)
        BY <4>1, <4>2 DEF d
      <4>5. /\ Len(Append(d, e)) = Len(d) + 1 /\ Append(d, e)[Len(d) + 1] = e
            /\ \A k \in 1 .. Len(d) : Append(d, e)[k] = d[k]
        BY <4>4, Appended
      <4>6. /\ Len(t.done) = (n + i) + 1 /\ t.done[(n + i) + 1] = e
            /\ \A k \in 1 .. n + i : t.done[k] = d[k]
        BY <4>3, <4>4, <4>5, Zenon
      <4> QED BY <4>6 DEF d
    <3> HIDE DEF item, n, old
    <3>10. Len(t.done) = n + (i + 1)
      BY <1>2, <3>9
    <3>11. \A k \in 1 .. n : t.done[k] = old.done[k]
      <4> TAKE k \in 1 .. n
      <4>1. k \in 1 .. n + i
        BY <1>2
      <4> QED BY <3>4, <3>9, <4>1
    <3>12. ASSUME NEW k \in 1 .. i + 1 PROVE t.done[n + k] = item(k)
      <4>1. CASE k \in 1 .. i
        <5>1. n + k \in 1 .. n + i
          BY <1>2, <4>1
        <5> QED BY <3>4, <3>9, <4>1, <5>1
      <4>2. CASE k = i + 1
        <5>1. n + k = (n + i) + 1
          BY <1>2, <4>2
        <5> QED BY <3>9, <4>2, <5>1 DEF e
      <4> QED BY <4>1, <4>2
    <3>13. /\ t.user = old.user /\ t.dir = old.dir /\ t.envs = old.envs
           /\ y.startCmd = builder.startCmd
      BY <3>4, <3>5, <3>7
    <3> QED BY <3>5, <3>7, <3>10, <3>11, <3>12, <3>13, Zenon DEF Fine, t, y
  <2> HIDE DEF Fine
  <2> QED BY <2>1
<1>5. Fine(Len(list))
  <2> HIDE DEF T
  <2>1. Len(list) \in T
    BY <1>3, <1>4, SetInduction
  <2> HIDE DEF Fine
  <2> QED BY <2>1 DEF T
<1> QED BY <1>5, Zenon DEF AddEach, DoneMore

\* Concatenation, for sequences of anything.
LEMMA Joined ==
  ASSUME NEW s, NEW t, IsSequence(s), IsSequence(t)
  PROVE  /\ IsSequence(s \o t) /\ Len(s \o t) = Len(s) + Len(t)
         /\ \A k \in 1 .. Len(s) : (s \o t)[k] = s[k]
         /\ \A k \in 1 .. Len(t) : (s \o t)[Len(s) + k] = t[k]
<1> DEFINE S == {s[k] : k \in 1 .. Len(s)} \cup {t[k] : k \in 1 .. Len(t)}
<1> DEFINE j == s \o t
<1>1. (\A k \in 1 .. Len(s) : s[k] \in S) /\ \A k \in 1 .. Len(t) : t[k] \in S
  OBVIOUS
<1> HIDE DEF S
<1>2. s \in Seq(S) /\ t \in Seq(S) /\ Len(s) \in Nat /\ Len(t) \in Nat
  BY <1>1 DEF IsSequence
<1>3. /\ j \in Seq(S) /\ Len(j) = Len(s) + Len(t)
      /\ \A i \in 1 .. Len(s) + Len(t) :
           j[i] = IF i <= Len(s) THEN s[i] ELSE t[i - Len(s)]
  BY <1>2, ConcatProperties
<1> HIDE DEF j
<1>4. IsSequence(j)
  BY <1>2, <1>3 DEF IsSequence
<1>5. ASSUME NEW k \in 1 .. Len(s) PROVE j[k] = s[k]
  <2>1. k \in 1 .. Len(s) + Len(t) /\ k <= Len(s)
    BY <1>2
  <2> QED BY <1>3, <2>1
<1>6. ASSUME NEW k \in 1 .. Len(t) PROVE j[Len(s) + k] = t[k]
  <2>1. /\ Len(s) + k \in 1 .. Len(s) + Len(t) /\ ~(Len(s) + k <= Len(s))
        /\ (Len(s) + k) - Len(s) = k
    BY <1>2
  <2> QED BY <1>3, <2>1
<1> QED BY <1>3, <1>4, <1>5, <1>6 DEF j

\* A list of steps keeps a builder in agreement with its Dockerfile, which
\* does the same at once.
LEMMA EachFollows ==
  ASSUME NEW builder, NEW type \in Buildable, NEW list, NEW whats, NEW user,
         NEW file, Follows(builder, file),
         Len(list) \in Nat, Len(whats) = Len(list),
         ASSUME NEW i \in 1 .. Len(list), NEW stage, NEW inst,
                inst.type = type, inst.args = list[i]
         PROVE  StepDoes(stage, inst) = Does(stage, whats[i], user)
  PROVE  Follows(AddEach(builder, type, list), DoesEach(file, whats, user))
<1> DEFINE more == AddEach(builder, type, list)
<1> DEFINE old == DoneBy(builder)
<1> DEFINE new == DoneBy(more)
<1> DEFINE n == Len(list)
<1> DEFINE item(k) == <<whats[k], user, file.dir, file.envs>>
<1>1. /\ IsBuilder(builder) /\ Sent(builder) /\ Agrees(old, file)
      /\ file.start = builder.startCmd
  BY DEF Follows
<1>2. /\ IsStage(old) /\ IsStage(file)
      /\ old.done = file.done /\ old.user = file.user
      /\ old.dir = file.dir /\ old.envs = file.envs
  BY <1>1 DEF Agrees
<1>3. /\ IsBuilder(more) /\ Sent(more)
      /\ more.startCmd = builder.startCmd
      /\ IsStage(new) /\ new.user = old.user /\ new.dir = old.dir
      /\ new.envs = old.envs
      /\ Len(new.done) = Len(old.done) + Len(list)
      /\ \A k \in 1 .. Len(old.done) : new.done[k] = old.done[k]
      /\ \A k \in 1 .. Len(list) :
           new.done[Len(old.done) + k] = <<whats[k], user, old.dir, old.envs>>
  <2>1. DoneMore(builder, more, whats, user)
    BY <1>1, <1>2, EachDone
  <2> QED BY <2>1, Zenon DEF DoneMore
<1> DEFINE d == file.done
<1>4. /\ Len(new.done) = Len(d) + n
      /\ \A k \in 1 .. Len(d) : new.done[k] = d[k]
      /\ \A k \in 1 .. n : new.done[Len(d) + k] = item(k)
  BY <1>2, <1>3, Zenon
<1> DEFINE items == [k \in 1 .. n |-> item(k)]
<1> DEFINE then == DoesEach(file, whats, user)
<1>5. then = [file EXCEPT !.done = d \o items]
  BY DEF DoesEach
<1>6. /\ IsSequence(items) /\ Len(items) = n
      /\ \A k \in 1 .. n : items[k] = item(k)
  <2> HIDE DEF item, n
  <2>1. n \in Nat
    BY DEF n
  <2> QED BY <2>1 DEF IsSequence
<1> HIDE DEF item, items, then, more, old, new, n
<1>7. /\ then.done = d \o items /\ then.user = file.user
      /\ then.dir = file.dir /\ then.envs = file.envs
      /\ then.start = file.start
      /\ then = [done |-> then.done, user |-> then.user, dir |-> then.dir,
                 envs |-> then.envs, start |-> then.start]
  BY <1>2, <1>5 DEF IsStage
<1>8. IsSequence(d) /\ IsSequence(new.done)
  BY <1>2, <1>3 DEF IsStage
<1> DEFINE e == new.done
<1> HIDE DEF d, e
<1>9. /\ IsSequence(d \o items) /\ Len(d \o items) = Len(d) + n
      /\ \A k \in 1 .. Len(d) : (d \o items)[k] = d[k]
      /\ \A k \in 1 .. n : (d \o items)[Len(d) + k] = item(k)
  <2>1. IsSequence(d) /\ IsSequence(items)
    BY <1>6, <1>8
  <2>2. /\ IsSequence(d \o items) /\ Len(d \o items) = Len(d) + Len(items)
        /\ \A k \in 1 .. Len(d) : (d \o items)[k] = d[k]
        /\ \A k \in 1 .. Len(items) : (d \o items)[Len(d) + k] = items[k]
    BY <2>1, Joined
  <2> QED BY <1>6, <2>2
<1>10. e = d \o items
  <2> DEFINE j == d \o items
  <2>1. /\ IsSequence(j) /\ Len(j) = Len(d) + n
        /\ \A k \in 1 .. Len(d) : j[k] = d[k]
        /\ \A k \in 1 .. n : j[Len(d) + k] = item(k)
    BY <1>9
  <2> HIDE DEF j
  <2>2. /\ IsSequence(e) /\ Len(e) = Len(d) + n
        /\ \A k \in 1 .. Len(d) : e[k] = d[k]
        /\ \A k \in 1 .. n : e[Len(d) + k] = item(k)
    BY <1>4, <1>8 DEF e
  <2>3. Len(d) \in Nat /\ n \in Nat
    BY <1>8 DEF IsSequence, n
  <2>4. ASSUME NEW k \in 1 .. Len(d) + n PROVE e[k] = j[k]
    <3>1. CASE k <= Len(d)
      BY <2>1, <2>2, <2>3, <3>1
    <3>2. CASE ~(k <= Len(d))
      <4>1. k - Len(d) \in 1 .. n /\ Len(d) + (k - Len(d)) = k
        BY <2>3, <3>2
      <4> QED BY <2>1, <2>2, <4>1
    <3> QED BY <3>1, <3>2
  <2>5. e = j
    BY <2>1, <2>2, <2>4 DEF IsSequence
  <2> QED BY <2>5 DEF j
<1>11. IsStage(then)
  BY <1>7, <1>9 DEF IsStage
<1>12. Agrees(new, then)
  BY <1>2, <1>3, <1>7, <1>10, <1>11 DEF Agrees, e
<1>13. Follows(more, then)
  BY <1>1, <1>3, <1>7, <1>12 DEF Follows, new
<1> QED BY <1>13 DEF more, then

\* The pairs of an ENV line, the last one for each key.
KeyAt(args, i) == args[3 * i - 2]
LastFor(args, n, i, key) ==
  KeyAt(args, i) = key /\ \A j \in i + 1 .. n : KeyAt(args, j) # key

\* By the pairs up to any point: each key has the value of its last pair.
LEMMA SettingIs ==
  ASSUME NEW args, NEW envs, Pairs(args) \in Nat
  PROVE  \A i \in 1 .. Pairs(args) :
           LET set == Setting(args, envs)[i]
               keys == {KeyAt(args, j) : j \in 1 .. i}
           IN /\ set = [k \in DOMAIN set |-> set[k]]
              /\ DOMAIN set = keys \cup DOMAIN envs
              /\ \A k \in DOMAIN set :
                   \/ k \notin keys /\ set[k] = envs[k]
                   \/ \E j \in 1 .. i : /\ LastFor(args, i, j, k)
                                        /\ set[k] = args[3 * j - 1]
<1> DEFINE all == Setting(args, envs)
<1> DEFINE keys(i) == {KeyAt(args, j) : j \in 1 .. i}
<1> DEFINE Fine(i) ==
      /\ DOMAIN all[i] = keys(i) \cup DOMAIN envs
      /\ \A k \in DOMAIN all[i] :
           \/ k \notin keys(i) /\ all[i][k] = envs[k]
           \/ \E j \in 1 .. i : /\ LastFor(args, i, j, k)
                                /\ all[i][k] = args[3 * j - 1]
<1> DEFINE T == {i \in Nat : i <= Pairs(args) => Fine(i)}
<1>1. /\ all[0] = envs
      /\ \A i \in 1 .. Pairs(args) :
           all[i] = Over(PairAt(args, i), all[i - 1])
  BY SettingSteps
<1> HIDE DEF all
<1>2. 0 \in T
  <2>1. keys(0) = {}
    OBVIOUS
  <2>2. Fine(0)
    BY <1>1, <2>1
  <2> HIDE DEF Fine
  <2> QED BY <2>2
<1>3. ASSUME NEW i \in Nat, i + 1 <= Pairs(args)
      PROVE  LET key == KeyAt(args, i + 1) IN
             /\ all[i + 1] = [k \in {key} \cup DOMAIN all[i] |->
                                IF k \in {key} THEN args[3 * (i + 1) - 1]
                                ELSE all[i][k]]
  <2>1. i + 1 \in 1 .. Pairs(args) /\ (i + 1) - 1 = i
    BY <1>3
  <2> DEFINE key == KeyAt(args, i + 1)
  <2> DEFINE value == args[3 * (i + 1) - 1]
  <2> DEFINE one == [k \in {key} |-> value]
  <2>2. all[i + 1] = Over(one, all[i])
    BY <1>1, <2>1 DEF KeyAt, PairAt
  <2> HIDE DEF key, value
  <2>3. one = [k \in {key} |-> value]
    OBVIOUS
  <2> HIDE DEF one
  <2> DEFINE two == all[i]
  <2> HIDE DEF two
  <2>4. Over(one, two) = [k \in (DOMAIN one) \cup DOMAIN two |->
                        IF k \in DOMAIN one THEN one[k] ELSE two[k]]
    BY Zenon DEF Over
  <2>5. Over(one, two) = [k \in {key} \cup DOMAIN two |->
                        IF k \in {key} THEN value ELSE two[k]]
    BY <2>3, <2>4
  <2> QED BY <2>2, <2>5, Zenon DEF one, two, key, value
<1>4. \A i \in Nat : i \in T => i + 1 \in T
  <2> TAKE i \in Nat
  <2> HAVE i \in T
  <2>1. ASSUME i + 1 <= Pairs(args) PROVE Fine(i + 1)
    <3>1. i <= Pairs(args)
      BY <2>1
    <3>2. Fine(i)
      BY <3>1
    <3> DEFINE key == KeyAt(args, i + 1)
    <3> DEFINE value == args[3 * (i + 1) - 1]
    <3> DEFINE f == all[i]
    <3> DEFINE g == all[i + 1]
    <3>3. g = [k \in {key} \cup DOMAIN f |->
                 IF k \in {key} THEN value ELSE f[k]]
      BY <1>3, <2>1, Zenon
    <3>4. keys(i + 1) = keys(i) \cup {key}
      <4>1. 1 .. i + 1 = 1 .. i \cup {i + 1}
        OBVIOUS
      <4> QED BY <4>1
    <3>5. /\ DOMAIN f = keys(i) \cup DOMAIN envs
          /\ \A k \in DOMAIN f :
               \/ k \notin keys(i) /\ f[k] = envs[k]
               \/ \E j \in 1 .. i : /\ LastFor(args, i, j, k)
                                    /\ f[k] = args[3 * j - 1]
      BY <3>2
    <3>6. \A j \in 1 .. i : \A k :
            k # key /\ LastFor(args, i, j, k) =>
              j \in 1 .. i + 1 /\ LastFor(args, i + 1, j, k)
      <4> SUFFICES ASSUME NEW j \in 1 .. i, NEW k, k # key,
                          LastFor(args, i, j, k)
                   PROVE  j \in 1 .. i + 1 /\ LastFor(args, i + 1, j, k)
        OBVIOUS
      <4>1. \A l \in j + 1 .. i + 1 : l \in j + 1 .. i \/ l = i + 1
        OBVIOUS
      <4>2. \A l \in j + 1 .. i + 1 : KeyAt(args, l) # k
        BY <4>1 DEF LastFor
      <4> QED BY <4>2 DEF LastFor
    <3>7. i + 1 \in 1 .. i + 1 /\ LastFor(args, i + 1, i + 1, key)
      <4>1. (i + 1) + 1 .. i + 1 = {} /\ i + 1 \in 1 .. i + 1
        OBVIOUS
      <4> QED BY <4>1 DEF LastFor
    <3> HIDE DEF key, value, f, g, keys
    <3>8. DOMAIN g = keys(i + 1) \cup DOMAIN envs
      BY <3>3, <3>4, <3>5
    <3>9. ASSUME NEW k \in DOMAIN g
          PROVE  \/ k \notin keys(i + 1) /\ g[k] = envs[k]
                 \/ \E j \in 1 .. i + 1 : /\ LastFor(args, i + 1, j, k)
                                          /\ g[k] = args[3 * j - 1]
      <4>1. CASE k = key
        <5>1. g[k] = value
          BY <3>3, <4>1
        <5> QED BY <3>7, <4>1, <5>1, Zenon DEF value
      <4>2. CASE k # key
        <5>1. k \in DOMAIN f /\ g[k] = f[k]
          BY <3>3, <4>2
        <5>2. CASE k \notin keys(i) /\ f[k] = envs[k]
          BY <3>4, <4>2, <5>1, <5>2
        <5>3. CASE \E j \in 1 .. i : /\ LastFor(args, i, j, k)
                                     /\ f[k] = args[3 * j - 1]
          BY <3>6, <4>2, <5>1, <5>3, Zenon
        <5> QED BY <3>5, <5>1, <5>2, <5>3
      <4> QED BY <4>1, <4>2
    <3> QED BY <3>8, <3>9, Zenon DEF g
  <2> HIDE DEF Fine
  <2> QED BY <2>1
<1>5. \A i \in Nat : i <= Pairs(args) => Fine(i)
  <2> HIDE DEF Fine
  <2>1. Nat \subseteq T
    BY <1>2, <1>4, SetInduction
  <2> QED BY <2>1
<1>6. ASSUME NEW i \in 1 .. Pairs(args)
      PROVE  Fine(i) /\ all[i] = [k \in DOMAIN all[i] |-> all[i][k]]
  <2>1. i \in Nat /\ i <= Pairs(args) /\ i - 1 \in Nat
        /\ (i - 1) + 1 = i
    OBVIOUS
  <2>2. Fine(i)
    <3> HIDE DEF Fine
    <3> QED BY <1>5, <2>1
  <2> DEFINE h == i - 1
  <2> HIDE DEF h, Fine
  <2>3. h \in Nat /\ h + 1 = i /\ h + 1 <= Pairs(args)
    BY <2>1 DEF h
  <2> DEFINE value == args[3 * (h + 1) - 1]
  <2> DEFINE key == KeyAt(args, h + 1)
  <2>4. all[h + 1] = [k \in {key} \cup DOMAIN all[h] |->
                        IF k \in {key} THEN value ELSE all[h][k]]
    BY <1>3, <2>3, Zenon
  <2> HIDE DEF value, key
  <2>5. all[h + 1] = [k \in DOMAIN all[h + 1] |-> all[h + 1][k]]
    BY <2>4
  <2> QED BY <2>2, <2>3, <2>5
<1> QED BY <1>6, Zenon DEF all

\* The two forms of an ENV line.
OnePair(args) == Len(args) = 2 \/ (Len(args) = 3 /\ args[3] = "")
Wrong(args) == Len(args) % 3 # 0
               \/ \E i \in 1 .. Len(args) \div 3 :
                    KeyAt(args, i) = "" \/ args[3 * i] # "="
LastOf(args, key) ==
  CHOOSE i \in 1 .. Len(args) \div 3 : LastFor(args, Len(args) \div 3, i, key)
AllPairs(args) ==
  [k \in {KeyAt(args, i) : i \in 1 .. Len(args) \div 3} |->
     args[3 * LastOf(args, k) - 1]]

\* What is read from an ENV line, by its form.
LEMMA EnvArgsIs ==
  ASSUME NEW args
  PROVE  EnvArgs(args) = IF OnePair(args) THEN {[k \in {args[1]} |-> args[2]]}
                         ELSE IF Wrong(args) THEN {} ELSE {AllPairs(args)}
BY Zenon DEF EnvArgs, OnePair, Wrong, AllPairs, LastOf, LastFor, KeyAt

IsMap(set) == set = [k \in DOMAIN set |-> set[k]]

\* A map over another, by its values.
LEMMA OverIs ==
  ASSUME NEW f, NEW g, NEW set, IsMap(set),
         DOMAIN set = DOMAIN f \cup DOMAIN g,
         \A k \in DOMAIN f : set[k] = f[k],
         \A k \in DOMAIN set : k \notin DOMAIN f => set[k] = g[k]
  PROVE  set = Over(f, g)
BY DEF Over, IsMap

\* A key has one last pair.
LEMMA LastIsOne ==
  ASSUME NEW args, NEW n \in Nat, NEW i \in 1 .. n, NEW j \in 1 .. n, NEW key,
         LastFor(args, n, i, key), LastFor(args, n, j, key)
  PROVE  i = j
<1>1. CASE i < j
  <2>1. j \in i + 1 .. n
    BY <1>1
  <2> QED BY <2>1 DEF LastFor
<1>2. CASE j < i
  <2>1. i \in j + 1 .. n
    BY <1>2
  <2> QED BY <2>1 DEF LastFor
<1> QED BY <1>1, <1>2

\* An ENV line that is accepted sets one map, and that is what it says.
LEMMA EnvIs ==
  ASSUME NEW args, Len(args) \in Nat, Len(args) >= 2, EnvArgs(args) # {}
  PROVE  \E f : /\ EnvArgs(args) = {f} /\ DOMAIN f # {}
                /\ \A envs : Setting(args, envs)[Pairs(args)] = Over(f, envs)
<1> DEFINE m == Len(args) \div 3
<1>1. CASE OnePair(args)
  <2> DEFINE f == [k \in {args[1]} |-> args[2]]
  <2>1. EnvArgs(args) = {f}
    BY <1>1, EnvArgsIs, Zenon
  <2>2. Pairs(args) = 1
    <3>1. Len(args) = 2 \/ Len(args) = 3
      BY <1>1, Zenon DEF OnePair
    <3> HIDE DEF f, m
    <3>2. 3 \div 3 = 1
      OBVIOUS
    <3>3. CASE Len(args) = 2
      BY <3>3, Zenon DEF Pairs
    <3>4. CASE Len(args) = 3
      <4>1. Pairs(args) = Len(args) \div 3
        BY <3>4 DEF Pairs
      <4> QED BY <3>2, <3>4, <4>1
    <3> QED BY <3>1, <3>3, <3>4
  <2>3. ASSUME NEW envs PROVE Setting(args, envs)[1] = Over(f, envs)
    <3>1. /\ Setting(args, envs)[0] = envs
          /\ Setting(args, envs)[1] =
               Over(PairAt(args, 1), Setting(args, envs)[1 - 1])
      <4>1. Pairs(args) \in Nat /\ 1 \in 1 .. Pairs(args)
        BY <2>2
      <4>2. /\ Setting(args, envs)[0] = envs
            /\ \A i \in 1 .. Pairs(args) :
                 Setting(args, envs)[i] =
                   Over(PairAt(args, i), Setting(args, envs)[i - 1])
        <5>1. Pairs(args) \in Nat
          BY <4>1
        <5> HIDE DEF f, m
        <5> QED BY <5>1, SettingSteps
      <4> QED BY <4>1, <4>2, Zenon
    <3>2. 3 * 1 - 2 = 1 /\ 3 * 1 - 1 = 2 /\ 1 - 1 = 0
      OBVIOUS
    <3>3. PairAt(args, 1) = f
      BY <3>2, Zenon DEF PairAt
    <3> HIDE DEF f
    <3> QED BY <3>1, <3>2, <3>3, Zenon
  <2>4. DOMAIN f = {args[1]}
    OBVIOUS
  <2> HIDE DEF f
  <2>5. DOMAIN f # {}
    BY <2>4
  <2> QED BY <2>1, <2>2, <2>3, <2>5, Zenon
<1>2. CASE ~OnePair(args)
  <2> DEFINE f == AllPairs(args)
  <2> DEFINE keys == {KeyAt(args, j) : j \in 1 .. m}
  <2>1. ~Wrong(args) /\ EnvArgs(args) = {f}
    BY <1>2, EnvArgsIs, Zenon
  <2>2. Len(args) % 3 = 0 /\ Len(args) # 2
    BY <1>2, <2>1, Zenon DEF OnePair, Wrong
  <2>3. Pairs(args) = m /\ m \in Nat /\ 1 \in 1 .. m
    <3>1. m \in Nat /\ m >= 1
      BY <2>2
    <3> QED BY <2>2, <3>1 DEF Pairs
  <2>4. DOMAIN f = keys /\ \A k \in keys : f[k] = args[3 * LastOf(args, k) - 1]
    <3> DEFINE value(k) == args[3 * LastOf(args, k) - 1]
    <3>1. f = [k \in keys |-> value(k)]
      BY Zenon DEF AllPairs
    <3> HIDE DEF value, f, keys
    <3>2. DOMAIN f = keys /\ \A k \in keys : f[k] = value(k)
      BY <3>1
    <3> QED BY <3>2, Zenon DEF value
  <2> HIDE DEF m
  <2>5. DOMAIN f # {}
    <3> HIDE DEF f
    <3>1. KeyAt(args, 1) \in keys
      BY <2>3
    <3> QED BY <2>4, <3>1
  <2>6. ASSUME NEW envs PROVE Setting(args, envs)[m] = Over(f, envs)
    <3> DEFINE set == Setting(args, envs)[m]
    <3>1. /\ set = [k \in DOMAIN set |-> set[k]]
          /\ DOMAIN set = keys \cup DOMAIN envs
          /\ \A k \in DOMAIN set :
               \/ k \notin keys /\ set[k] = envs[k]
               \/ \E j \in 1 .. m : /\ LastFor(args, m, j, k)
                                    /\ set[k] = args[3 * j - 1]
      <4>1. Pairs(args) \in Nat /\ m \in 1 .. Pairs(args)
        BY <2>3
      <4> HIDE DEF keys
      <4> QED BY <4>1, SettingIs DEF keys
    <3> HIDE DEF set, f
    <3>2. ASSUME NEW k \in keys PROVE set[k] = f[k]
      <4>1. PICK j \in 1 .. m : LastFor(args, m, j, k)
                                /\ set[k] = args[3 * j - 1]
        BY <3>1
      <4> DEFINE l == LastOf(args, k)
      <4>2. l \in 1 .. m /\ LastFor(args, m, l, k)
        BY <4>1, Zenon DEF LastOf, m
      <4> HIDE DEF l
      <4>3. l = j
        BY <2>3, <4>1, <4>2, LastIsOne
      <4>4. f[k] = args[3 * l - 1]
        BY <2>4 DEF l
      <4> QED BY <4>1, <4>3, <4>4
    <3>3. ASSUME NEW k \in DOMAIN set, k \notin keys PROVE set[k] = envs[k]
      <4>1. CASE \E j \in 1 .. m : LastFor(args, m, j, k)
        <5>1. PICK j \in 1 .. m : KeyAt(args, j) = k
          BY <4>1 DEF LastFor
        <5> QED BY <3>3, <5>1
      <4> QED BY <3>1, <3>3, <4>1
    <3> HIDE DEF keys
    <3>4. set = Over(f, envs)
      <4>1. DOMAIN set = DOMAIN f \cup DOMAIN envs
        BY <2>4, <3>1
      <4>2. \A k \in DOMAIN f : set[k] = f[k]
        BY <2>4, <3>2
      <4>3. \A k \in DOMAIN set : k \notin DOMAIN f => set[k] = envs[k]
        BY <2>4, <3>3
      <4>4. IsMap(set)
        BY <3>1, Zenon DEF IsMap
      <4> QED BY <4>1, <4>2, <4>3, <4>4, OverIs
    <3> QED BY <3>4 DEF set
  <2> HIDE DEF f
  <2> QED BY <2>1, <2>3, <2>5, <2>6, Zenon
<1> QED BY <1>1, <1>2

-----------------------------------------------------------------------------
(* What a line does to a builder is what it does to the Dockerfile.         *)

\* A step that does to a builder's stage what a line does to a Dockerfile's.
LEMMA StepFollows ==
  ASSUME NEW builder, NEW file, NEW then, NEW type \in Buildable, NEW args,
         Follows(builder, file), then.start = file.start,
         ASSUME NEW stage, NEW inst, Agrees(stage, file),
                inst.type = type, inst.args = args
         PROVE  Agrees(StepDoes(stage, inst), then)
  PROVE  Follows(AddInstruction(builder, Instruction(type, args)), then)
<1> DEFINE more == AddInstruction(builder, Instruction(type, args))
<1>1. /\ IsBuilder(builder) /\ Sent(builder)
      /\ Agrees(DoneBy(builder), file) /\ file.start = builder.startCmd
  BY DEF Follows
<1>2. /\ IsBuilder(more) /\ Sent(more) /\ more.startCmd = builder.startCmd
      /\ \E inst : /\ inst.type = type /\ inst.args = args
                   /\ DoneBy(more) = StepDoes(DoneBy(builder), inst)
  BY <1>1, AddedDone
<1>3. Agrees(DoneBy(more), then)
  <2> HIDE DEF more
  <2>1. PICK inst : /\ inst.type = type /\ inst.args = args
                    /\ DoneBy(more) = StepDoes(DoneBy(builder), inst)
    BY <1>2
  <2> DEFINE stage == DoneBy(builder)
  <2>2. Agrees(stage, file)
    BY <1>1
  <2> HIDE DEF stage
  <2>3. Agrees(StepDoes(stage, inst), then)
    BY <2>1, <2>2
  <2> QED BY <2>1, <2>3 DEF stage
<1> HIDE DEF more
<1>4. Follows(more, then)
  BY <1>1, <1>2, <1>3 DEF Follows
<1> QED BY <1>4 DEF more

\* RUN ...
LEMMA RunFollows ==
  ASSUME NEW builder, NEW file, NEW arg, Follows(builder, file)
  PROVE  Follows(RunCmd(builder, arg), Does(file, arg, file.user))
<1> DEFINE then == Does(file, arg, file.user)
<1>1. ASSUME NEW stage, NEW inst, Agrees(stage, file),
             inst.type = "RUN", inst.args = <<arg>>
      PROVE  Agrees(StepDoes(stage, inst), then)
  <2>1. stage.user = file.user
    BY <1>1 DEF Agrees
  <2>2. StepDoes(stage, inst) = Does(stage, arg, file.user)
    BY <1>1, <2>1, RunDoes
  <2> QED BY <1>1, <2>2, DoesAgrees
<1>2. then.start = file.start
  <2>1. Agrees(DoneBy(builder), file)
    BY DEF Follows
  <2> QED BY <2>1, DoesAgrees
<1>3. "RUN" \in Buildable
  BY DEF Buildable
<1> HIDE DEF then
<1>4. Follows(AddInstruction(builder, Instruction("RUN", <<arg>>)), then)
  BY <1>1, <1>2, <1>3, StepFollows
<1> QED BY <1>4, Zenon DEF then, RunCmd

\* ... WORKDIR ...
LEMMA WorkdirFollows ==
  ASSUME NEW builder, NEW file, NEW dir, Follows(builder, file)
  PROVE  Follows(SetWorkdir(builder, dir), [file EXCEPT !.dir = dir])
<1> DEFINE then == [file EXCEPT !.dir = dir]
<1>1. ASSUME NEW stage, NEW inst, Agrees(stage, file),
             inst.type = "WORKDIR", inst.args = <<dir>>
      PROVE  Agrees(StepDoes(stage, inst), then)
  <2>1. StepDoes(stage, inst) = [stage EXCEPT !.dir = dir]
    BY <1>1, WorkdirDoes
  <2>2. Agrees([stage EXCEPT !.dir = dir], then)
    BY <1>1, DirAgrees
  <2> HIDE DEF then
  <2> QED BY <2>1, <2>2, Zenon
<1>2. then.start = file.start
  BY DEF Follows, Agrees, IsStage
<1>3. "WORKDIR" \in Buildable
  BY DEF Buildable
<1> HIDE DEF then
<1>4. Follows(AddInstruction(builder, Instruction("WORKDIR", <<dir>>)), then)
  BY <1>1, <1>2, <1>3, StepFollows
<1> QED BY <1>4, Zenon DEF then, SetWorkdir

\* ... USER ...
LEMMA UserFollows ==
  ASSUME NEW builder, NEW file, NEW user, Follows(builder, file)
  PROVE  Follows(SetUser(builder, user), [file EXCEPT !.user = user])
<1> DEFINE then == [file EXCEPT !.user = user]
<1>1. ASSUME NEW stage, NEW inst, Agrees(stage, file),
             inst.type = "USER", inst.args = <<user>>
      PROVE  Agrees(StepDoes(stage, inst), then)
  <2>1. StepDoes(stage, inst) = [stage EXCEPT !.user = user]
    BY <1>1, UserDoes
  <2>2. Agrees([stage EXCEPT !.user = user], then)
    BY <1>1, UserAgrees
  <2> HIDE DEF then
  <2> QED BY <2>1, <2>2, Zenon
<1>2. then.start = file.start
  BY DEF Follows, Agrees, IsStage
<1>3. "USER" \in Buildable
  BY DEF Buildable
<1> HIDE DEF then
<1>4. Follows(AddInstruction(builder, Instruction("USER", <<user>>)), then)
  BY <1>1, <1>2, <1>3, StepFollows
<1> QED BY <1>4, Zenon DEF then, SetUser

\* ... ENTRYPOINT and CMD, which add no step ...
LEMMA StartFollows ==
  ASSUME NEW builder, NEW file, NEW start, NEW ready, Follows(builder, file)
  PROVE  Follows(SetStartCmd(builder, start, ready),
                 [file EXCEPT !.start = start])
<1> DEFINE more == SetStartCmd(builder, start, ready)
<1> DEFINE then == [file EXCEPT !.start = start]
<1>1. /\ IsBuilder(builder) /\ Sent(builder)
      /\ Agrees(DoneBy(builder), file)
  BY DEF Follows
<1>2. IsBuilder(more) /\ more.instructions = builder.instructions
  BY <1>1, StartSet DEF Rebased
<1>3. more.startCmd = start
  BY <1>1 DEF SetStartCmd, IsBuilder
<1>4. Agrees(DoneBy(builder), then) /\ then.start = start
  BY <1>1, StartAgrees
<1> HIDE DEF more, then
<1>5. Sent(more) /\ DoneBy(more) = DoneBy(builder)
  BY <1>1, <1>2 DEF Sent, DoneBy
<1>6. Follows(more, then)
  BY <1>2, <1>3, <1>4, <1>5 DEF Follows
<1> QED BY <1>6 DEF more, then

\* ... FROM, which adds none either ...
LEMMA BaseFollows ==
  ASSUME NEW builder, NEW file, NEW image, NEW auth, Follows(builder, file)
  PROVE  Follows(FromImageWithAuth(builder, image, auth), file)
<1> DEFINE more == FromImageWithAuth(builder, image, auth)
<1>1. /\ IsBuilder(builder) /\ Sent(builder)
      /\ Agrees(DoneBy(builder), file) /\ file.start = builder.startCmd
  BY DEF Follows
<1>2. IsBuilder(more) /\ more.instructions = builder.instructions
  <2> DEFINE none == ""
  <2> HIDE DEF none, more
  <2>1. Rebased(builder, more, image, none, auth)
    BY <1>1, BaseSet, Zenon DEF none, more
  <2> QED BY <2>1 DEF Rebased
<1>3. more.startCmd = builder.startCmd
  <2> DEFINE force == builder.force \/ builder.forceNextLayer
  <2> DEFINE none == ""
  <2>1. more = [builder EXCEPT !.baseImage = image, !.baseTemplate = none,
                               !.registry = auth, !.force = force]
    BY Zenon DEF FromImageWithAuth
  <2> HIDE DEF force, more, none
  <2> QED BY <1>1, <2>1 DEF IsBuilder
<1> HIDE DEF more
<1>4. Sent(more) /\ DoneBy(more) = DoneBy(builder)
  BY <1>1, <1>2 DEF Sent, DoneBy
<1>5. Follows(more, file)
  BY <1>1, <1>2, <1>3, <1>4 DEF Follows
<1> QED BY <1>5 DEF more

\* ... ENV, whatever its form and however often it names a key ...
LEMMA EnvFollows ==
  ASSUME NEW builder, NEW file, NEW args, Follows(builder, file),
         Len(args) \in Nat, Len(args) >= 2, EnvArgs(args) # {}
  PROVE  Follows(SetEnvs(builder, CHOOSE envs \in EnvArgs(args) : TRUE),
                 [file EXCEPT !.envs = Setting(args, @)[Pairs(args)]])
<1>1. PICK f : /\ EnvArgs(args) = {f} /\ DOMAIN f # {}
               /\ \A envs : Setting(args, envs)[Pairs(args)] = Over(f, envs)
  BY EnvIs
<1> DEFINE next == Over(f, file.envs)
<1> DEFINE then == [file EXCEPT !.envs = next]
<1>2. ASSUME NEW stage, NEW inst, Agrees(stage, file),
             inst.type = "ENV", inst.args = <<f>>
      PROVE  Agrees(StepDoes(stage, inst), then)
  <2>1. stage.envs = file.envs
    BY <1>2 DEF Agrees
  <2>2. StepDoes(stage, inst) = [stage EXCEPT !.envs = Over(f, stage.envs)]
    BY <1>2, EnvDoes
  <2>3. StepDoes(stage, inst) = [stage EXCEPT !.envs = next]
    BY <2>1, <2>2
  <2> HIDE DEF next
  <2>4. Agrees([stage EXCEPT !.envs = next], then)
    BY <1>2, EnvsAgrees
  <2> HIDE DEF then
  <2> QED BY <2>3, <2>4, Zenon
<1>3. then.start = file.start
  <2> HIDE DEF next
  <2> QED BY DEF Follows, Agrees, IsStage
<1>4. "ENV" \in Buildable
  BY DEF Buildable
<1>5. SetEnvs(builder, CHOOSE envs \in EnvArgs(args) : TRUE)
        = AddInstruction(builder, Instruction("ENV", <<f>>))
  <2>1. (CHOOSE envs \in EnvArgs(args) : TRUE) = f
    <3>1. (CHOOSE envs \in EnvArgs(args) : TRUE) \in EnvArgs(args)
      OBVIOUS
    <3> QED BY <1>1, <3>1
  <2>2. SetEnvs(builder, f) = AddInstruction(builder, Instruction("ENV", <<f>>))
    BY <1>1, Zenon DEF SetEnvs
  <2> QED BY <2>1, <2>2
<1>6. [file EXCEPT !.envs = Setting(args, @)[Pairs(args)]] = then
  <2>1. Setting(args, file.envs)[Pairs(args)] = next
    BY <1>1
  <2> HIDE DEF next
  <2> QED BY <2>1
<1> HIDE DEF then
<1>7. Follows(AddInstruction(builder, Instruction("ENV", <<f>>)), then)
  BY <1>2, <1>3, <1>4, StepFollows
<1> QED BY <1>5, <1>6, <1>7

\* ... COPY and ADD, one step for each source ...
LEMMA CopyFollows ==
  ASSUME NEW builder, NEW file, NEW line, Follows(builder, file),
         Len(line.args) \in Nat, Len(line.args) >= 2
  PROVE  Follows(AddEach(builder, "COPY",
                   [i \in 1 .. Len(line.args) - 1 |-> CopyFrom(line, i)]),
                 DoesEach(file,
                   [i \in 1 .. Len(line.args) - 1 |->
                      <<line.args[i], line.args[Len(line.args)]>>],
                   line.chown))
<1> DEFINE n == Len(line.args)
<1> DEFINE list == [i \in 1 .. n - 1 |-> CopyFrom(line, i)]
<1> DEFINE what(i) == <<line.args[i], line.args[n]>>
<1> DEFINE whats == [i \in 1 .. n - 1 |-> what(i)]
<1>1. /\ Len(list) \in Nat /\ Len(list) = n - 1 /\ Len(whats) = Len(list)
      /\ \A i \in 1 .. Len(list) : /\ list[i] = CopyFrom(line, i)
                                   /\ whats[i] = what(i)
  <2> HIDE DEF what, n
  <2>1. n - 1 \in Nat
    BY DEF n
  <2> QED BY <2>1
<1> HIDE DEF list, whats
<1>2. ASSUME NEW i \in 1 .. Len(list), NEW stage, NEW inst,
             inst.type = "COPY", inst.args = list[i]
      PROVE  StepDoes(stage, inst) = Does(stage, whats[i], line.chown)
  <2>1. inst.args = CopyFrom(line, i) /\ whats[i] = what(i)
    BY <1>1, <1>2
  <2>2. StepDoes(stage, inst) = Does(stage, what(i), line.chown)
    BY <1>2, <2>1, CopyDoes
  <2> HIDE DEF what
  <2> QED BY <2>1, <2>2
<1>3. "COPY" \in Buildable
  BY DEF Buildable
<1> HIDE DEF what
<1>4. Follows(AddEach(builder, "COPY", list), DoesEach(file, whats, line.chown))
  BY <1>1, <1>2, <1>3, EachFollows
<1> QED BY <1>4 DEF list, whats, what

\* ... and ARG, one step for each name.
LEMMA ArgFollows ==
  ASSUME NEW builder, NEW file, NEW list, Follows(builder, file),
         Len(list) \in Nat, list = [i \in 1 .. Len(list) |-> list[i]]
  PROVE  Follows(AddEach(builder, "ARG", list),
                 DoesEach(file, [i \in DOMAIN list |-> <<"ARG", list[i]>>], ""))
<1> DEFINE whats == [i \in DOMAIN list |-> <<"ARG", list[i]>>]
<1> DEFINE none == ""
<1>1. /\ Len(whats) = Len(list)
      /\ \A i \in 1 .. Len(list) : whats[i] = <<"ARG", list[i]>>
  <2> DEFINE what(i) == <<"ARG", list[i]>>
  <2> HIDE DEF what
  <2>1. DOMAIN list = 1 .. Len(list)
    OBVIOUS
  <2>2. whats = [i \in 1 .. Len(list) |-> what(i)]
    BY <2>1, Zenon DEF what
  <2> HIDE DEF whats
  <2>3. Len(whats) = Len(list) /\ \A i \in 1 .. Len(list) : whats[i] = what(i)
    BY <2>2
  <2> QED BY <2>3 DEF what
<1> HIDE DEF whats
<1>2. ASSUME NEW i \in 1 .. Len(list), NEW stage, NEW inst,
             inst.type = "ARG", inst.args = list[i]
      PROVE  StepDoes(stage, inst) = Does(stage, whats[i], none)
  BY <1>1, <1>2, ArgDoes
<1>3. "ARG" \in Buildable
  BY DEF Buildable
<1> HIDE DEF none
<1>4. Follows(AddEach(builder, "ARG", list), DoesEach(file, whats, none))
  BY <1>1, <1>2, <1>3, EachFollows
<1> QED BY <1>4 DEF whats, none

\* A parse that is not refused has read what the lines so far say.
IsReading(s) ==
  s = [builder |-> s.builder, seenFrom |-> s.seenFrom, ok |-> s.ok]
Following(s, file) == IsReading(s) /\ (s.ok => Follows(s.builder, file))

\* A parse that is refused need not follow the file any more ...
LEMMA RefusedFollows ==
  ASSUME NEW s, NEW file, IsReading(s)
  PROVE  Following(Refuse(s), file)
<1> DEFINE t == Refuse(s)
<1>1. t = [s EXCEPT !.ok = FALSE]
  BY DEF Refuse
<1> HIDE DEF t
<1>2. IsReading(t) /\ t.ok = FALSE
  BY <1>1 DEF IsReading
<1> QED BY <1>2 DEF Following, t

\* ... and one that is not follows it when its builder does.
LEMMA TakenFollows ==
  ASSUME NEW s, NEW file, NEW builder, IsReading(s), Follows(builder, file)
  PROVE  Following(Read(s, builder), file)
<1> DEFINE t == Read(s, builder)
<1>1. t = [s EXCEPT !.builder = builder]
  BY DEF Read
<1> HIDE DEF t
<1>2. IsReading(t) /\ t.builder = builder
  BY <1>1 DEF IsReading
<1> QED BY <1>2 DEF Following, t

\* So a FROM line is followed ...
LEMMA FromLine ==
  ASSUME NEW s, NEW file, NEW line, IsReading(s), Follows(s.builder, file)
  PROVE  Following(ReadFrom(s, line), file)
<1> DEFINE refused == s.seenFrom \/ ~(\/ Len(line.args) = 1
                                      \/ Len(line.args) = 3
                                         /\ line.args[2] = "AS")
<1> DEFINE more == IF line.args[1] = "base" THEN FromBaseImage(s.builder)
                   ELSE FromImageWithAuth(s.builder, line.args[1], "")
<1> DEFINE t == [s EXCEPT !.seenFrom = TRUE, !.builder = more]
<1>1. ReadFrom(s, line) = IF refused THEN Refuse(s) ELSE t
  BY Zenon DEF ReadFrom
<1>2. Follows(more, file)
  <2>1. Follows(FromBaseImage(s.builder), file)
    BY BaseFollows DEF FromBaseImage
  <2>2. Follows(FromImageWithAuth(s.builder, line.args[1], ""), file)
    BY BaseFollows
  <2> QED BY <2>1, <2>2, Zenon
<1> HIDE DEF more
<1>3. Following(t, file)
  <2>1. t = [s EXCEPT !.seenFrom = TRUE, !.builder = more]
    OBVIOUS
  <2> HIDE DEF t, refused
  <2>2. IsReading(t) /\ t.builder = more
    BY <2>1 DEF IsReading
  <2> QED BY <1>2, <2>2 DEF Following
<1>4. Following(Refuse(s), file)
  BY RefusedFollows
<1> HIDE DEF refused, t
<1> QED BY <1>1, <1>3, <1>4, Zenon

\* ... as are the lines of one argument ...
LEMMA OneLine ==
  ASSUME NEW s, NEW file, NEW line, IsReading(s), Follows(s.builder, file),
         line.name \in Single
  PROVE  Following(ReadOne(s, line), LineDoes(file, line))
<1> DEFINE arg == line.args[1]
<1> DEFINE then == LineDoes(file, line)
<1> DEFINE more == CASE line.name = "RUN" -> RunCmd(s.builder, arg)
                     [] line.name = "WORKDIR" -> SetWorkdir(s.builder, arg)
                     [] line.name = "USER" -> SetUser(s.builder, arg)
                     [] OTHER -> SetStartCmd(s.builder, arg, "")
<1>1. Follows(more, then)
  <2>1. CASE line.name = "RUN"
    <3>1. then = Does(file, arg, file.user)
      BY <2>1, Zenon DEF LineDoes
    <3>2. more = RunCmd(s.builder, arg)
      BY <2>1
    <3> HIDE DEF then, more, arg
    <3> QED BY <3>1, <3>2, RunFollows
  <2>2. CASE line.name = "WORKDIR"
    <3>1. then = [file EXCEPT !.dir = arg]
      BY <2>2 DEF LineDoes
    <3>2. more = SetWorkdir(s.builder, arg)
      BY <2>2
    <3> HIDE DEF then, more, arg
    <3> QED BY <3>1, <3>2, WorkdirFollows
  <2>3. CASE line.name = "USER"
    <3>1. then = [file EXCEPT !.user = arg]
      BY <2>3 DEF LineDoes
    <3>2. more = SetUser(s.builder, arg)
      BY <2>3
    <3> HIDE DEF then, more, arg
    <3> QED BY <3>1, <3>2, UserFollows
  <2>4. CASE line.name \in {"ENTRYPOINT", "CMD"}
    <3>1. then = [file EXCEPT !.start = arg]
      BY <2>4 DEF LineDoes
    <3>2. more = SetStartCmd(s.builder, arg, "")
      BY <2>4
    <3> HIDE DEF then, more, arg
    <3> QED BY <3>1, <3>2, StartFollows, Zenon
  <2> QED BY <2>1, <2>2, <2>3, <2>4 DEF Single
<1>2. ReadOne(s, line) = IF line.args = <<>> THEN Refuse(s) ELSE Read(s, more)
  BY Zenon DEF ReadOne
<1> HIDE DEF more, then
<1>3. Following(Refuse(s), then) /\ Following(Read(s, more), then)
  BY <1>1, RefusedFollows, TakenFollows
<1> QED BY <1>2, <1>3, Zenon DEF then

\* ... COPY and ADD ...
LEMMA CopyLine ==
  ASSUME NEW s, NEW file, NEW line, IsReading(s), Follows(s.builder, file),
         line.name \in {"COPY", "ADD"}, Len(line.args) \in Nat
  PROVE  Following(ReadCopy(s, line), LineDoes(file, line))
<1> DEFINE then == LineDoes(file, line)
<1> DEFINE more == AddEach(s.builder, "COPY",
                     [i \in 1 .. Len(line.args) - 1 |-> CopyFrom(line, i)])
<1> DEFINE done == DoesEach(file, [i \in 1 .. Len(line.args) - 1 |->
                                  <<line.args[i], line.args[Len(line.args)]>>],
                            line.chown)
<1>1. then = done
  BY DEF LineDoes
<1>2. ReadCopy(s, line)
        = IF Len(line.args) < 2 THEN Refuse(s) ELSE Read(s, more)
  BY Zenon DEF ReadCopy
<1>3. CASE Len(line.args) < 2
  <2> HIDE DEF then, more
  <2> QED BY <1>2, <1>3, RefusedFollows DEF then
<1>4. CASE ~(Len(line.args) < 2)
  <2>1. Len(line.args) >= 2
    BY <1>4
  <2>2. Follows(more, done)
    BY <2>1, CopyFollows, Zenon
  <2> HIDE DEF then, more, done
  <2>3. Following(Read(s, more), then)
    BY <1>1, <2>2, TakenFollows
  <2> QED BY <1>2, <1>4, <2>3 DEF then
<1> QED BY <1>3, <1>4

\* ... ENV ...
LEMMA EnvLineRead ==
  ASSUME NEW s, NEW file, NEW line, IsReading(s), Follows(s.builder, file),
         line.name = "ENV", Len(line.args) \in Nat
  PROVE  Following(ReadEnv(s, line), LineDoes(file, line))
<1> DEFINE then == LineDoes(file, line)
<1> DEFINE more ==
      SetEnvs(s.builder, CHOOSE envs \in EnvArgs(line.args) : TRUE)
<1> DEFINE done ==
      [file EXCEPT !.envs = Setting(line.args, @)[Pairs(line.args)]]
<1>1. then = done
  BY DEF LineDoes
<1> DEFINE refused == Len(line.args) < 2 \/ EnvArgs(line.args) = {}
<1>2. ReadEnv(s, line) = IF refused THEN Refuse(s) ELSE Read(s, more)
  BY Zenon DEF ReadEnv
<1>3. CASE refused
  <2> HIDE DEF then, more, refused
  <2> QED BY <1>2, <1>3, RefusedFollows DEF then
<1>4. CASE ~refused
  <2>1. Len(line.args) >= 2 /\ EnvArgs(line.args) # {}
    BY <1>4
  <2>2. Follows(more, done)
    BY <2>1, EnvFollows, Zenon
  <2> HIDE DEF then, more, done, refused
  <2>3. Following(Read(s, more), then)
    BY <1>1, <2>2, TakenFollows
  <2> QED BY <1>2, <1>4, <2>3 DEF then
<1> QED BY <1>3, <1>4

\* ... ARG ...
LEMMA ArgLine ==
  ASSUME NEW s, NEW file, NEW line, IsReading(s), Follows(s.builder, file),
         line.name = "ARG", Len(line.args) \in Nat
  PROVE  Following(ReadArg(s, line), LineDoes(file, line))
<1> DEFINE list == Assignments(line.args)
<1> DEFINE then == LineDoes(file, line)
<1> DEFINE more == AddEach(s.builder, "ARG", list)
<1> DEFINE done ==
      DoesEach(file, [i \in DOMAIN list |-> <<"ARG", list[i]>>], "")
<1>1. then = done
  BY DEF LineDoes
<1> DEFINE refused == list = <<>> \/ \E k \in DOMAIN list : list[k][1] = ""
<1>2. ReadArg(s, line) = IF refused THEN Refuse(s) ELSE Read(s, more)
  BY Zenon DEF ReadArg
<1>3. Len(list) \in Nat /\ list = [i \in 1 .. Len(list) |-> list[i]]
  <2> DEFINE args == line.args
  <2> DEFINE Of(k) ==
        <<args[3 * k - 2]>>
        \o IF args[3 * k] = "" THEN <<>> ELSE <<args[3 * k - 1]>>
  <2>1. list = [k \in 1 .. Len(args) \div 3 |-> Of(k)]
    BY Zenon DEF Assignments
  <2> HIDE DEF Of, list
  <2>2. Len(args) \div 3 \in Nat
    <3> HIDE DEF args
    <3>1. Len(args) \in Nat
      BY DEF args
    <3> QED BY <3>1
  <2> HIDE DEF args
  <2> QED BY <2>1, <2>2
<1>4. Follows(more, done)
  <2> HIDE DEF list
  <2> QED BY <1>3, ArgFollows, Zenon
<1> HIDE DEF then, more, done, refused
<1>5. Following(Refuse(s), then) /\ Following(Read(s, more), then)
  BY <1>1, <1>4, RefusedFollows, TakenFollows
<1> QED BY <1>2, <1>5, Zenon DEF then

\* ... hence every line.
LEMMA LineFollows ==
  ASSUME NEW s, NEW file, NEW line, Following(s, file), Len(line.args) \in Nat
  PROVE  Following(ReadLine(s, line), LineDoes(file, line))
<1> DEFINE then == LineDoes(file, line)
<1> DEFINE known == Single \cup {"COPY", "ADD", "ENV", "ARG"}
<1>1. IsReading(s) /\ (s.ok => Follows(s.builder, file))
  BY DEF Following
<1>2. line.name \notin known => then = file
  BY DEF LineDoes, Single
<1>3. s.ok /\ line.name = "FROM" => Following(ReadFrom(s, line), then)
  <2> HIDE DEF then
  <2>1. "FROM" \notin known
    BY DEF Single
  <2> HIDE DEF known
  <2> QED BY <1>1, <1>2, <2>1, FromLine
<1>4. s.ok /\ line.name \in Single => Following(ReadOne(s, line), then)
  BY <1>1, OneLine
<1>5. s.ok /\ line.name \in {"COPY", "ADD"} =>
        Following(ReadCopy(s, line), then)
  BY <1>1, CopyLine
<1>6. s.ok /\ line.name = "ENV" => Following(ReadEnv(s, line), then)
  BY <1>1, EnvLineRead
<1>7. s.ok /\ line.name = "ARG" => Following(ReadArg(s, line), then)
  BY <1>1, ArgLine
<1>8. ~s.ok => Following(s, then)
  BY <1>1 DEF Following
<1> HIDE DEF then
<1>9. Following(ReadLine(s, line), then)
  <2>1. CASE ~s.ok
    BY <1>8, <2>1 DEF ReadLine
  <2>2. CASE s.ok /\ line.name = "FROM"
    BY <1>3, <2>2 DEF ReadLine, Single
  <2>3. CASE s.ok /\ line.name \in Single
    BY <1>4, <2>3 DEF ReadLine, Single
  <2>4. CASE s.ok /\ line.name \in {"COPY", "ADD"}
    BY <1>5, <2>4 DEF ReadLine, Single
  <2>5. CASE s.ok /\ line.name = "ENV"
    BY <1>6, <2>5 DEF ReadLine, Single
  <2>6. CASE s.ok /\ line.name = "ARG"
    BY <1>7, <2>6 DEF ReadLine, Single
  <2>7. CASE s.ok /\ line.name \notin known \cup {"FROM"}
    BY <1>2, <2>7 DEF ReadLine, Single
  <2> QED BY <2>1, <2>2, <2>3, <2>4, <2>5, <2>6, <2>7
<1> QED BY <1>9 DEF then

\* What a Dockerfile that is accepted is read as does what it says.
LEMMA ParsedFollows ==
  ASSUME NEW lines \in Dockerfile, Parse(lines).ok
  PROVE  Follows(Parse(lines).builder, Meaning(lines))
<1> DEFINE reading == Readings(lines)
<1> DEFINE saying == Saying(lines)
<1> DEFINE T == {i \in Nat : i <= Len(lines) =>
                               Following(reading[i], saying[i])}
<1>0. Len(lines) \in Nat
  BY DEF Dockerfile
<1>1. 0 \in T
  <2>1. reading[0] = Reading /\ saying[0] = Stage
    BY <1>0, ReadingSteps, SayingSteps
  <2>2. Following(Reading, Stage)
    <3>1. /\ Reading = [builder |-> Reading.builder,
                        seenFrom |-> Reading.seenFrom, ok |-> Reading.ok]
          /\ Reading.builder = New("")
      BY DEF Reading
    <3>2. IsBuilder(New("")) /\ New("").instructions = <<>> /\ New("").startCmd = ""
      BY NewIs DEF New
    <3>3. Sent(New(""))
      <4> DEFINE none == <<>>
      <4>1. Len(none) = 0
        OBVIOUS
      <4> HIDE DEF none
      <4>2. New("").instructions = none
        BY <3>2, Zenon DEF none
      <4>3. 1 .. Len(none) = {}
        BY <4>1
      <4> QED BY <4>2, <4>3, Zenon DEF Sent
    <3>4. IsStage(Stage) /\ Stage.start = ""
      <4>1. IsSequence(<<>>)
        BY DEF IsSequence
      <4>2. /\ Stage = [done |-> Stage.done, user |-> Stage.user,
                        dir |-> Stage.dir, envs |-> Stage.envs,
                        start |-> Stage.start]
            /\ Stage.done = <<>> /\ Stage.start = ""
        BY DEF Stage
      <4> QED BY <4>1, <4>2 DEF IsStage
    <3>5. DoneBy(New("")) = Stage
      <4> DEFINE none == <<>>
      <4>1. Len(none) = 0
        OBVIOUS
      <4>2. Doing(none)[0] = Stage
        <5> HIDE DEF none
        <5>1. Len(none) \in Nat
          BY <4>1
        <5> QED BY <5>1, DoingSteps
      <4> HIDE DEF none
      <4>3. New("").instructions = none
        BY <3>2 DEF none
      <4> QED BY <4>1, <4>2, <4>3, Zenon DEF DoneBy
    <3>6. Follows(New(""), Stage)
      BY <3>2, <3>3, <3>4, <3>5 DEF Follows, Agrees
    <3> QED BY <3>1, <3>6 DEF Following, IsReading
  <2> HIDE DEF reading, saying
  <2> QED BY <2>1, <2>2
<1>2. \A n \in Nat : n \in T => n + 1 \in T
  <2> TAKE n \in Nat
  <2> HAVE n \in T
  <2>1. ASSUME n + 1 <= Len(lines)
        PROVE  Following(reading[n + 1], saying[n + 1])
    <3>1. n + 1 \in 1 .. Len(lines) /\ (n + 1) - 1 = n /\ n <= Len(lines)
      BY <1>0, <2>1
    <3>2. /\ reading[n + 1] = ReadLine(reading[n], lines[n + 1])
          /\ saying[n + 1] = LineDoes(saying[n], lines[n + 1])
      <4> HIDE DEF reading, saying
      <4>1. /\ \A i \in 1 .. Len(lines) :
                 reading[i] = ReadLine(reading[i - 1], lines[i])
            /\ \A i \in 1 .. Len(lines) :
                 saying[i] = LineDoes(saying[i - 1], lines[i])
        BY <1>0, ReadingSteps, SayingSteps DEF reading, saying
      <4>2. /\ reading[n + 1] = ReadLine(reading[(n + 1) - 1], lines[n + 1])
            /\ saying[n + 1] = LineDoes(saying[(n + 1) - 1], lines[n + 1])
        BY <3>1, <4>1, Zenon
      <4> QED BY <3>1, <4>2
    <3>3. Following(reading[n], saying[n])
      BY <3>1
    <3>4. Len(lines[n + 1].args) \in Nat
      BY <3>1, LineTyped
    <3> HIDE DEF reading, saying
    <3>5. Following(ReadLine(reading[n], lines[n + 1]),
                    LineDoes(saying[n], lines[n + 1]))
      BY <3>3, <3>4, LineFollows
    <3> QED BY <3>2, <3>5
  <2> HIDE DEF reading, saying
  <2> QED BY <2>1
<1>3. Following(reading[Len(lines)], saying[Len(lines)])
  <2> HIDE DEF T
  <2>1. Len(lines) \in T
    BY <1>0, <1>1, <1>2, SetInduction
  <2> HIDE DEF reading, saying
  <2> QED BY <1>0, <2>1 DEF T
<1> DEFINE end == reading[Len(lines)]
<1> HIDE DEF end
<1>4. Parse(lines) = [end EXCEPT !.ok = end.ok /\ end.seenFrom]
  BY Zenon DEF Parse, end
<1>5. Following(end, Meaning(lines))
  BY <1>3, Zenon DEF end, Meaning
<1>6. Parse(lines).builder = end.builder /\ end.ok
  <2> DEFINE ok == end.ok /\ end.seenFrom
  <2>1. end = [builder |-> end.builder, seenFrom |-> end.seenFrom,
               ok |-> end.ok]
    BY <1>5 DEF Following, IsReading
  <2>2. Parse(lines) = [end EXCEPT !.ok = ok]
    BY <1>4
  <2> HIDE DEF ok
  <2>3. Parse(lines).builder = end.builder /\ Parse(lines).ok = ok
    BY <2>1, <2>2
  <2> QED BY <2>3, Zenon DEF ok
<1> QED BY <1>5, <1>6 DEF Following

\* ... and so does the builder that reads it.
LEMMA ReadFileFollows ==
  ASSUME NEW builder, NEW lines \in Dockerfile, Parse(lines).ok
  PROVE  Effect(FromDockerfile(builder, lines)) = Meaning(lines)
<1> DEFINE read == Parse(lines).builder
<1> DEFINE more == FromDockerfile(builder, lines)
<1> DEFINE file == Meaning(lines)
<1> DEFINE force == builder.force
<1> DEFINE next == builder.forceNextLayer
<1>1. /\ IsBuilder(read) /\ Sent(read)
      /\ Agrees(DoneBy(read), file) /\ file.start = read.startCmd
  BY ParsedFollows DEF Follows
<1>2. more = [read EXCEPT !.force = force, !.forceNextLayer = next]
  BY Zenon DEF FromDockerfile
<1> HIDE DEF read, more, force, next, file
<1>3. /\ more.instructions = read.instructions
      /\ more.startCmd = read.startCmd
  BY <1>1, <1>2 DEF IsBuilder
<1> DEFINE insts == read.instructions
<1>4. /\ IsSequence(insts)
      /\ \A k \in 1 .. Len(insts) : insts[k].type \in Buildable
  BY <1>1 DEF IsBuilder, Sent
<1>5. Steps(more) = insts
  <2>1. Kept(insts)[Len(insts)] = insts
    BY <1>4, AllKept
  <2> QED BY <1>3, <2>1, Zenon DEF Steps
<1> DEFINE done == DoneBy(read)
<1>6. Effect(more) = [done EXCEPT !.start = read.startCmd]
  BY <1>3, <1>5, Zenon DEF Effect, DoneBy
<1>7. [done EXCEPT !.start = read.startCmd] = file
  <2>1. Agrees(done, file) /\ file.start = read.startCmd
    BY <1>1
  <2> HIDE DEF done
  <2> QED BY <2>1 DEF Agrees, IsStage
<1> QED BY <1>6, <1>7 DEF more, file

\* DockerfileRead is kept by every call: only the last one matters to it.
LEMMA ReadNext ==
  BuilderInv /\ DockerfileRead /\ [Next]_vars => DockerfileRead'
<1> SUFFICES ASSUME BuilderInv, DockerfileRead, [Next]_vars
             PROVE  DockerfileRead'
  OBVIOUS
<1>1. CASE Next
  <2>1. PICK c \in Chains : Call(c)
    BY <1>1 DEF Next
  <2>2. script' = Append(script, c) /\ b' = Apply(b, c)
    BY <2>1 DEF Call
  <2>3. script'[Len(script')] = c
    BY <2>2 DEF BuilderInv
  <2>4. ASSUME ReadsFile(c) PROVE Effect(b') = Meaning(c.args)
    <3>1. c.op = "FromDockerfile" /\ Parse(c.args).ok
      BY <2>4 DEF ReadsFile
    <3>2. c.args \in Dockerfile
      BY <3>1, ChainsAssumption
    <3>3. b' = FromDockerfile(b, c.args)
      BY <2>2, <3>1 DEF Apply
    <3>4. Effect(FromDockerfile(b, c.args)) = Meaning(c.args)
      BY <3>1, <3>2, ReadFileFollows
    <3> QED BY <3>3, <3>4
  <2>5. ReadsFile(script'[Len(script')]) =>
          Effect(b') = Meaning(script'[Len(script')].args)
    BY <2>3, <2>4, Zenon
  <2> QED BY <2>5, Zenon DEF DockerfileRead, Effect, Steps
<1>2. CASE UNCHANGED vars
  BY <1>2, Zenon DEF DockerfileRead, Effect, Steps, vars
<1> QED BY <1>1, <1>2

\* A builder read from a Dockerfile does what the Dockerfile says, for every
\* Dockerfile that is accepted, of any length.
THEOREM FileMeans == Spec => []DockerfileRead
<1>1. Init => DockerfileRead
  BY DEF Init, DockerfileRead
<1> QED BY <1>1, InvHolds, ReadNext, PTL DEF Spec

-----------------------------------------------------------------------------
(* What a builder is written as: what its instructions are, whoever made    *)
(* them.                                                                    *)

\* Words one after the other.
LEMMA Two ==
  ASSUME NEW x, NEW y
  PROVE  <<x>> \o <<y>> = <<x, y>>
<1> DEFINE s == <<x>>
<1> DEFINE t == <<y>>
<1> DEFINE j == <<x, y>>
<1>1. IsSequence(s) /\ IsSequence(t) /\ Len(s) = 1 /\ Len(t) = 1
      /\ s[1] = x /\ t[1] = y
  BY DEF IsSequence
<1>2. j = [k \in 1 .. 2 |-> j[k]] /\ j[1] = x /\ j[2] = y
  OBVIOUS
<1> HIDE DEF s, t, j
<1>3. /\ IsSequence(s \o t) /\ Len(s \o t) = Len(s) + Len(t)
      /\ \A k \in 1 .. Len(s) : (s \o t)[k] = s[k]
      /\ \A k \in 1 .. Len(t) : (s \o t)[Len(s) + k] = t[k]
  <2>1. IsSequence(s) /\ IsSequence(t)
    BY <1>1
  <2> QED BY ONLY <2>1, Joined
<1> DEFINE r == s \o t
<1> HIDE DEF r
<1>4. r = [k \in 1 .. 2 |-> r[k]] /\ r[1] = x /\ r[2] = y
  BY <1>1, <1>3 DEF r, IsSequence
<1>5. r = j
  BY <1>2, <1>4
<1> QED BY <1>5 DEF r, s, t, j

LEMMA Three ==
  ASSUME NEW x, NEW y, NEW z
  PROVE  <<x, y>> \o <<z>> = <<x, y, z>>
<1> DEFINE s == <<x, y>>
<1> DEFINE t == <<z>>
<1> DEFINE j == <<x, y, z>>
<1>1. /\ IsSequence(s) /\ IsSequence(t) /\ Len(s) = 2 /\ Len(t) = 1
      /\ s[1] = x /\ s[2] = y /\ t[1] = z
  BY DEF IsSequence
<1>2. j = [k \in 1 .. 3 |-> j[k]] /\ j[1] = x /\ j[2] = y /\ j[3] = z
  OBVIOUS
<1> HIDE DEF s, t, j
<1>3. /\ IsSequence(s \o t) /\ Len(s \o t) = Len(s) + Len(t)
      /\ \A k \in 1 .. Len(s) : (s \o t)[k] = s[k]
      /\ \A k \in 1 .. Len(t) : (s \o t)[Len(s) + k] = t[k]
  <2>1. IsSequence(s) /\ IsSequence(t)
    BY <1>1
  <2> QED BY ONLY <2>1, Joined
<1> DEFINE r == s \o t
<1> HIDE DEF r
<1>4. r = [k \in 1 .. 3 |-> r[k]] /\ r[1] = x /\ r[2] = y /\ r[3] = z
  BY <1>1, <1>3 DEF r, IsSequence
<1>5. r = j
  BY <1>2, <1>4
<1> QED BY <1>5 DEF r, s, t, j

\* The instructions there are: their types, each with the arguments it takes.
FormedAs(type, args) ==
  \/ type = "RUN" /\ ((\E c : args = <<c>>) \/ \E c, u : args = <<c, u>>)
  \/ type = "COPY"
     /\ ((\E s, d : args = <<s, d>>) \/ \E s, d, o : args = <<s, d, o>>)
  \/ type = "ENV" /\ \E e : args = <<e>> /\ IsEnvs(e) /\ DOMAIN e # {}
  \/ type \in {"WORKDIR", "USER"} /\ \E a : args = <<a>>
  \/ type = "ARG" /\ \/ \E k : args = <<k>> /\ k # ""
                     \/ \E k, v : args = <<k, v>> /\ k # ""
Formed(inst) == FormedAs(inst.type, inst.args)
AllFormed(builder) ==
  \A k \in 1 .. Len(builder.instructions) : Formed(builder.instructions[k])
Good(builder) == IsBuilder(builder) /\ AllFormed(builder)

\* A new builder has none.
LEMMA NewGood == \A option : Good(New(option))
<1> TAKE option
<1> DEFINE none == <<>>
<1> DEFINE made == New(option)
<1>1. Len(none) = 0
  OBVIOUS
<1> HIDE DEF none
<1>2. made.instructions = none
  BY DEF New, none
<1>3. 1 .. Len(none) = {}
  BY <1>1
<1>4. AllFormed(made)
  BY <1>2, <1>3, Zenon DEF AllFormed
<1> QED BY <1>4, NewIs DEF Good

\* An instruction that is formed is added to ones that are ...
LEMMA AddedGood ==
  ASSUME NEW builder, NEW type, NEW args, Good(builder), FormedAs(type, args)
  PROVE  Good(AddInstruction(builder, Instruction(type, args)))
<1> DEFINE more == AddInstruction(builder, Instruction(type, args))
<1> DEFINE forced == builder.forceNextLayer
<1> DEFINE inst == [Instruction(type, args) EXCEPT !.force = forced]
<1>1. more = [builder EXCEPT !.instructions = Append(@, inst),
                             !.forceNextLayer = FALSE]
  BY DEF AddInstruction
<1>2. inst.type = type /\ inst.args = args
  <2> HIDE DEF forced
  <2> QED BY DEF Instruction
<1>3. Formed(inst)
  BY <1>2, Zenon DEF Formed
<1>4. IsBuilder(builder) /\ AllFormed(builder)
  BY DEF Good
<1>5. IsBuilder(more)
  <2>1. OneMore(builder, more)
    BY <1>4, AddedOne
  <2> QED BY <2>1 DEF OneMore
<1> DEFINE s == builder.instructions
<1> HIDE DEF inst, more
<1>6. more.instructions = Append(s, inst)
  BY <1>1, <1>4 DEF IsBuilder
<1>7. IsSequence(s) /\ Len(s) \in Nat
  BY <1>4 DEF IsBuilder, IsSequence
<1>8. /\ Len(more.instructions) = Len(s) + 1
      /\ more.instructions[Len(s) + 1] = inst
      /\ \A k \in 1 .. Len(s) : more.instructions[k] = s[k]
  BY <1>6, <1>7, Appended
<1>9. AllFormed(more)
  <2>1. \A k \in 1 .. Len(s) : Formed(s[k])
    BY <1>4 DEF AllFormed
  <2> HIDE DEF s
  <2>2. ASSUME NEW k \in 1 .. Len(s) + 1 PROVE Formed(more.instructions[k])
    <3>1. CASE k \in 1 .. Len(s)
      BY <1>8, <2>1, <3>1
    <3>2. CASE k = Len(s) + 1
      BY <1>3, <1>8, <3>2
    <3> QED BY <1>7, <3>1, <3>2
  <2> QED BY <1>8, <2>2 DEF AllFormed
<1> QED BY <1>5, <1>9 DEF Good, more

\* ... as is each of a list ...
LEMMA EachGood ==
  ASSUME NEW builder, NEW type, NEW list, Len(list) \in Nat, Good(builder),
         \A i \in 1 .. Len(list) : FormedAs(type, list[i])
  PROVE  Good(AddEach(builder, type, list))
<1> DEFINE added == Added(builder, type, list)
<1> DEFINE T == {i \in Nat : i <= Len(list) => Good(added[i])}
<1>1. /\ added[0] = builder
      /\ \A i \in 1 .. Len(list) :
           added[i] = AddInstruction(added[i - 1], Instruction(type, list[i]))
  BY AddedSteps
<1> HIDE DEF added
<1>2. 0 \in T
  BY <1>1
<1>3. \A n \in Nat : n \in T => n + 1 \in T
  <2> TAKE n \in Nat
  <2> HAVE n \in T
  <2>1. ASSUME n + 1 <= Len(list) PROVE Good(added[n + 1])
    <3>1. n + 1 \in 1 .. Len(list) /\ (n + 1) - 1 = n /\ n <= Len(list)
      BY <2>1
    <3>2. added[n + 1] =
            AddInstruction(added[n], Instruction(type, list[n + 1]))
      BY <1>1, <3>1
    <3>3. Good(added[n]) /\ FormedAs(type, list[n + 1])
      BY <3>1
    <3> QED BY <3>2, <3>3, AddedGood
  <2> QED BY <2>1
<1>4. Len(list) \in T
  <2> HIDE DEF T
  <2> QED BY <1>2, <1>3, SetInduction
<1> QED BY <1>4 DEF AddEach, added

\* ... and the methods that add none keep those there are.
LEMMA RebasedGood ==
  ASSUME NEW builder, NEW more, Good(builder), IsBuilder(more),
         more.instructions = builder.instructions
  PROVE  Good(more)
BY DEF Good, AllFormed

\* The methods that set the base, ...
LEMMA ImageGood ==
  ASSUME NEW builder, NEW image, NEW auth, Good(builder)
  PROVE  Good(FromImageWithAuth(builder, image, auth))
<1>1. IsBuilder(builder)
  BY DEF Good
<1>2. Rebased(builder, FromImageWithAuth(builder, image, auth),
              image, "", auth)
  BY <1>1, BaseSet
<1> QED BY <1>2, RebasedGood DEF Rebased

\* ... or the start command, ...
LEMMA StartGood ==
  ASSUME NEW builder, NEW start, NEW ready, Good(builder)
  PROVE  Good(SetStartCmd(builder, start, ready))
<1>1. IsBuilder(builder)
  BY DEF Good
<1>2. Rebased(builder, SetStartCmd(builder, start, ready),
              builder.baseImage, builder.baseTemplate, builder.registry)
  BY <1>1, StartSet
<1> QED BY <1>2, RebasedGood DEF Rebased

\* ... and those that add an instruction.
LEMMA RunGood ==
  ASSUME NEW builder, NEW command, Good(builder)
  PROVE  Good(RunCmd(builder, command))
<1>1. FormedAs("RUN", <<command>>)
  BY DEF FormedAs
<1> QED BY <1>1, AddedGood DEF RunCmd

LEMMA RunAsGood ==
  ASSUME NEW builder, NEW command, NEW user, Good(builder)
  PROVE  Good(RunCmdAsUser(builder, command, user))
<1> DEFINE args == IF user = "" THEN <<command>> ELSE <<command, user>>
<1>1. args = <<command>> \/ args = <<command, user>>
  BY Zenon
<1>2. RunCmdAsUser(builder, command, user)
        = AddInstruction(builder, Instruction("RUN", args))
  BY Zenon DEF RunCmdAsUser
<1> HIDE DEF args
<1>3. FormedAs("RUN", args)
  BY <1>1, Zenon DEF FormedAs
<1> QED BY <1>2, <1>3, AddedGood

LEMMA CopyGood ==
  ASSUME NEW builder, NEW src, NEW dest, Good(builder)
  PROVE  Good(Copy(builder, src, dest))
<1>1. FormedAs("COPY", <<src, dest>>)
  BY Zenon DEF FormedAs
<1> QED BY <1>1, AddedGood DEF Copy

LEMMA EnvsGood ==
  ASSUME NEW builder, NEW envs, Good(builder), IsEnvs(envs)
  PROVE  Good(SetEnvs(builder, envs))
<1>1. CASE DOMAIN envs = {}
  BY <1>1 DEF SetEnvs
<1>2. CASE DOMAIN envs # {}
  <2>1. FormedAs("ENV", <<envs>>)
    BY <1>2, Zenon DEF FormedAs
  <2>2. SetEnvs(builder, envs)
          = AddInstruction(builder, Instruction("ENV", <<envs>>))
    BY <1>2, Zenon DEF SetEnvs
  <2> QED BY <2>1, <2>2, AddedGood
<1> QED BY <1>1, <1>2

LEMMA WorkdirGood ==
  ASSUME NEW builder, NEW dir, Good(builder)
  PROVE  Good(SetWorkdir(builder, dir)) /\ Good(SetUser(builder, dir))
<1>1. FormedAs("WORKDIR", <<dir>>) /\ FormedAs("USER", <<dir>>)
  BY DEF FormedAs
<1> QED BY <1>1, AddedGood DEF SetWorkdir, SetUser

-----------------------------------------------------------------------------
(* ... and so are those that are read.                                      *)

\* The map of a pair has a finite domain.
LEMMA PairEnvs ==
  ASSUME NEW key, NEW value
  PROVE  IsEnvs([k \in {key} |-> value])
<1> DEFINE f == [k \in {key} |-> value]
<1>1. DOMAIN f = {key} /\ f = [k \in DOMAIN f |-> f[k]]
  OBVIOUS
<1>2. IsFiniteSet({key})
  BY FS_Singleton
<1> HIDE DEF f
<1>3. IsEnvs(f)
  BY <1>1, <1>2, Zenon DEF IsEnvs
<1> QED BY <1>3 DEF f

\* The map of a line of pairs has, too.
LEMMA PairsEnvs ==
  ASSUME NEW args, Len(args) \in Nat
  PROVE  IsEnvs(AllPairs(args))
<1> DEFINE m == Len(args) \div 3
<1> DEFINE keys == {KeyAt(args, i) : i \in 1 .. m}
<1> DEFINE value(k) == args[3 * LastOf(args, k) - 1]
<1> DEFINE f == AllPairs(args)
<1>1. f = [k \in keys |-> value(k)]
  BY Zenon DEF AllPairs
<1> HIDE DEF f, value
<1>2. DOMAIN f = keys /\ f = [k \in DOMAIN f |-> f[k]]
  <2> HIDE DEF keys
  <2> QED BY <1>1
<1>3. m \in Nat
  OBVIOUS
<1> HIDE DEF m
<1>4. IsFiniteSet(keys)
  <2> DEFINE at == [i \in 1 .. m |-> KeyAt(args, i)]
  <2>1. at \in Surjection(1 .. m, keys)
    BY DEF Surjection
  <2>2. IsFiniteSet(1 .. m)
    BY <1>3, FS_Interval
  <2> HIDE DEF at, keys
  <2> QED BY <2>1, <2>2, FS_Surjection
<1> HIDE DEF keys
<1>5. IsEnvs(f)
  BY <1>2, <1>4, Zenon DEF IsEnvs
<1> QED BY <1>5 DEF f

\* A parse whose builder is formed.
ReadingGood(s) == IsReading(s) /\ Good(s.builder)

\* It stays so when a line is refused or taken ...
LEMMA RefusedGood ==
  ASSUME NEW s, ReadingGood(s)
  PROVE  ReadingGood(Refuse(s))
<1> DEFINE t == Refuse(s)
<1>1. t = [s EXCEPT !.ok = FALSE]
  BY DEF Refuse
<1> HIDE DEF t
<1>2. IsReading(t) /\ t.builder = s.builder
  BY <1>1 DEF IsReading, ReadingGood
<1>3. ReadingGood(t)
  BY <1>2 DEF ReadingGood
<1> QED BY <1>3 DEF t

LEMMA TakenGood ==
  ASSUME NEW s, ReadingGood(s), NEW builder, Good(builder)
  PROVE  ReadingGood(Read(s, builder))
<1> DEFINE t == Read(s, builder)
<1>1. t = [s EXCEPT !.builder = builder]
  BY DEF Read
<1> HIDE DEF t
<1>2. IsReading(t) /\ t.builder = builder
  BY <1>1 DEF IsReading, ReadingGood
<1>3. ReadingGood(t)
  BY <1>2 DEF ReadingGood
<1> QED BY <1>3 DEF t

\* ... which is what happens to a FROM line, ...
LEMMA FromGood ==
  ASSUME NEW s, NEW line, ReadingGood(s)
  PROVE  ReadingGood(ReadFrom(s, line))
<1> DEFINE refused == s.seenFrom \/ ~(\/ Len(line.args) = 1
                                      \/ Len(line.args) = 3
                                         /\ line.args[2] = "AS")
<1> DEFINE more == IF line.args[1] = "base" THEN FromBaseImage(s.builder)
                   ELSE FromImageWithAuth(s.builder, line.args[1], "")
<1> DEFINE t == [s EXCEPT !.seenFrom = TRUE, !.builder = more]
<1>1. ReadFrom(s, line) = IF refused THEN Refuse(s) ELSE t
  BY Zenon DEF ReadFrom
<1>2. Good(more)
  <2>0. Good(s.builder)
    BY DEF ReadingGood
  <2>1. Good(FromBaseImage(s.builder))
    BY <2>0, ImageGood DEF FromBaseImage
  <2>2. Good(FromImageWithAuth(s.builder, line.args[1], ""))
    BY <2>0, ImageGood
  <2> QED BY <2>1, <2>2, Zenon
<1> HIDE DEF more
<1>3. ReadingGood(t)
  <2>1. t = [s EXCEPT !.seenFrom = TRUE, !.builder = more]
    OBVIOUS
  <2> HIDE DEF t, refused
  <2>2. IsReading(t) /\ t.builder = more
    BY <2>1 DEF IsReading, ReadingGood
  <2> QED BY <1>2, <2>2 DEF ReadingGood
<1> HIDE DEF refused, t
<1> QED BY <1>1, <1>3, RefusedGood, Zenon

\* ... a line of one argument, ...
LEMMA OneGood ==
  ASSUME NEW s, NEW line, ReadingGood(s)
  PROVE  ReadingGood(ReadOne(s, line))
<1> DEFINE arg == line.args[1]
<1> DEFINE more == CASE line.name = "RUN" -> RunCmd(s.builder, arg)
                     [] line.name = "WORKDIR" -> SetWorkdir(s.builder, arg)
                     [] line.name = "USER" -> SetUser(s.builder, arg)
                     [] OTHER -> SetStartCmd(s.builder, arg, "")
<1>1. Good(s.builder)
  BY DEF ReadingGood
<1>2. Good(more)
  <2>1. CASE line.name = "RUN"
    BY <1>1, <2>1, RunGood
  <2>2. CASE line.name = "WORKDIR"
    BY <1>1, <2>2, WorkdirGood
  <2>3. CASE line.name = "USER"
    BY <1>1, <2>3, WorkdirGood
  <2>4. CASE line.name \notin {"RUN", "WORKDIR", "USER"}
    BY <1>1, <2>4, StartGood
  <2> QED BY <2>1, <2>2, <2>3, <2>4
<1>3. ReadOne(s, line) = IF line.args = <<>> THEN Refuse(s) ELSE Read(s, more)
  BY Zenon DEF ReadOne
<1> HIDE DEF more
<1> QED BY <1>2, <1>3, RefusedGood, TakenGood, Zenon

\* ... COPY and ADD, ...
LEMMA CopyLineGood ==
  ASSUME NEW s, NEW line, ReadingGood(s), Len(line.args) \in Nat
  PROVE  ReadingGood(ReadCopy(s, line))
<1> DEFINE n == Len(line.args)
<1> DEFINE list == [i \in 1 .. n - 1 |-> CopyFrom(line, i)]
<1> DEFINE more == AddEach(s.builder, "COPY", list)
<1>1. Good(s.builder)
  BY DEF ReadingGood
<1>2. ReadCopy(s, line) = IF n < 2 THEN Refuse(s) ELSE Read(s, more)
  BY Zenon DEF ReadCopy
<1>3. ASSUME NEW i PROVE FormedAs("COPY", CopyFrom(line, i))
  <2> DEFINE src == line.args[i]
  <2> DEFINE dest == line.args[Len(line.args)]
  <2> DEFINE owner == line.chown
  <2>1. CopyFrom(line, i) = <<src, dest>> \o IF owner = "" THEN <<>>
                                            ELSE <<owner>>
    BY DEF CopyFrom
  <2> HIDE DEF src, dest, owner
  <2>2. <<src, dest>> \o <<>> = <<src, dest>>
    OBVIOUS
  <2>3. <<src, dest>> \o <<owner>> = <<src, dest, owner>>
    BY Three
  <2>4. \/ CopyFrom(line, i) = <<src, dest>>
        \/ CopyFrom(line, i) = <<src, dest, owner>>
    BY <2>1, <2>2, <2>3, Zenon
  <2> QED BY <2>4, Zenon DEF FormedAs
<1>4. ASSUME ~(n < 2) PROVE Good(more)
  <2>1. n - 1 \in Nat
    BY <1>4
  <2> HIDE DEF n
  <2>2. Len(list) = n - 1 /\ \A i \in 1 .. n - 1 : list[i] = CopyFrom(line, i)
    BY <2>1
  <2> HIDE DEF list
  <2>3. \A i \in 1 .. Len(list) : FormedAs("COPY", list[i])
    BY <1>3, <2>2
  <2> QED BY <1>1, <2>1, <2>2, <2>3, EachGood
<1> HIDE DEF more, n
<1> QED BY <1>2, <1>4, RefusedGood, TakenGood, Zenon

\* ... ENV ...
LEMMA EnvLineGood ==
  ASSUME NEW s, NEW line, ReadingGood(s), Len(line.args) \in Nat
  PROVE  ReadingGood(ReadEnv(s, line))
<1> DEFINE args == line.args
<1> DEFINE envs == CHOOSE e \in EnvArgs(args) : TRUE
<1> DEFINE more == SetEnvs(s.builder, envs)
<1> DEFINE refused == Len(args) < 2 \/ EnvArgs(args) = {}
<1>1. ReadEnv(s, line) = IF refused THEN Refuse(s) ELSE Read(s, more)
  BY Zenon DEF ReadEnv
<1>2. ASSUME ~refused PROVE IsEnvs(envs)
  <2>1. envs \in EnvArgs(args)
    BY <1>2, Zenon
  <2>2. \A e \in EnvArgs(args) : IsEnvs(e)
    <3>1. IsEnvs([k \in {args[1]} |-> args[2]])
      BY PairEnvs
    <3>2. IsEnvs(AllPairs(args))
      BY PairsEnvs
    <3> QED BY <3>1, <3>2, EnvArgsIs, Zenon
  <2> QED BY <2>1, <2>2, Zenon
<1> HIDE DEF envs, refused
<1>3. ASSUME ~refused PROVE Good(more)
  BY <1>2, <1>3, EnvsGood DEF ReadingGood
<1> HIDE DEF more
<1> QED BY <1>1, <1>3, RefusedGood, TakenGood, Zenon

\* ... and ARG.
LEMMA ArgLineGood ==
  ASSUME NEW s, NEW line, ReadingGood(s), Len(line.args) \in Nat
  PROVE  ReadingGood(ReadArg(s, line))
<1> DEFINE args == line.args
<1> DEFINE list == Assignments(args)
<1> DEFINE more == AddEach(s.builder, "ARG", list)
<1> DEFINE refused == list = <<>> \/ \E k \in DOMAIN list : list[k][1] = ""
<1>1. ReadArg(s, line) = IF refused THEN Refuse(s) ELSE Read(s, more)
  BY Zenon DEF ReadArg
<1> DEFINE Of(k) == <<args[3 * k - 2]>>
                    \o IF args[3 * k] = "" THEN <<>> ELSE <<args[3 * k - 1]>>
<1>2. list = [k \in 1 .. Len(args) \div 3 |-> Of(k)]
  BY Zenon DEF Assignments
<1>3. Len(args) \div 3 \in Nat
  <2> HIDE DEF args
  <2>1. Len(args) \in Nat
    BY DEF args
  <2> QED BY <2>1
<1> HIDE DEF list
<1>4. /\ Len(list) \in Nat /\ DOMAIN list = 1 .. Len(list)
      /\ \A k \in 1 .. Len(list) : list[k] = Of(k)
  <2> HIDE DEF Of, args
  <2> QED BY <1>2, <1>3
<1>5. ASSUME ~refused, NEW k \in 1 .. Len(list) PROVE FormedAs("ARG", list[k])
  <2> DEFINE key == args[3 * k - 2]
  <2> DEFINE value == args[3 * k - 1]
  <2> DEFINE sign == args[3 * k]
  <2>1. list[k] = <<key>> \o IF sign = "" THEN <<>> ELSE <<value>>
    BY <1>4
  <2>2. list[k][1] # ""
    BY <1>4, <1>5
  <2> HIDE DEF key, value, sign
  <2>3. CASE sign = ""
    <3>1. list[k] = <<key>> \o <<>>
      BY <2>1, <2>3, Zenon
    <3>2. list[k] = <<key>> /\ list[k][1] = key
      BY <3>1
    <3> QED BY <2>2, <3>2, Zenon DEF FormedAs
  <2>4. CASE sign # ""
    <3>1. list[k] = <<key>> \o <<value>>
      BY <2>1, <2>4, Zenon
    <3>2. list[k] = <<key, value>>
      BY <3>1, Two, Zenon
    <3>3. list[k][1] = key
      BY <3>2
    <3> QED BY <2>2, <3>2, <3>3, Zenon DEF FormedAs
  <2> QED BY <2>3, <2>4
<1> HIDE DEF refused, Of
<1>6. ASSUME ~refused PROVE Good(more)
  BY <1>4, <1>5, <1>6, EachGood DEF ReadingGood
<1> HIDE DEF more
<1> QED BY <1>1, <1>6, RefusedGood, TakenGood, Zenon

\* Hence every line keeps a parse formed, ...
LEMMA LineGood ==
  ASSUME NEW s, NEW line, ReadingGood(s), Len(line.args) \in Nat
  PROVE  ReadingGood(ReadLine(s, line))
<1>1. /\ ReadingGood(ReadFrom(s, line)) /\ ReadingGood(ReadOne(s, line))
      /\ ReadingGood(ReadCopy(s, line)) /\ ReadingGood(ReadEnv(s, line))
      /\ ReadingGood(ReadArg(s, line))
  BY FromGood, OneGood, CopyLineGood, EnvLineGood, ArgLineGood
<1> QED BY <1>1 DEF ReadLine, Single

\* ... and what is read at the end is formed.
LEMMA ParsedGood ==
  ASSUME NEW lines, Readable(lines)
  PROVE  Good(Parse(lines).builder)
<1> DEFINE reading == Readings(lines)
<1> DEFINE T == {i \in Nat : i <= Len(lines) => ReadingGood(reading[i])}
<1>0. Len(lines) \in Nat
  BY DEF Readable
<1>1. /\ reading[0] = Reading
      /\ \A i \in 1 .. Len(lines) :
           reading[i] = ReadLine(reading[i - 1], lines[i])
  BY <1>0, ReadingSteps
<1> HIDE DEF reading
<1>2. 0 \in T
  <2>1. /\ Reading = [builder |-> Reading.builder,
                      seenFrom |-> Reading.seenFrom, ok |-> Reading.ok]
        /\ Reading.builder = New("")
    BY DEF Reading
  <2>2. ReadingGood(Reading)
    BY <2>1, NewGood DEF ReadingGood, IsReading
  <2> QED BY <1>1, <2>2
<1>3. \A n \in Nat : n \in T => n + 1 \in T
  <2> TAKE n \in Nat
  <2> HAVE n \in T
  <2>1. ASSUME n + 1 <= Len(lines) PROVE ReadingGood(reading[n + 1])
    <3>1. n + 1 \in 1 .. Len(lines) /\ (n + 1) - 1 = n /\ n <= Len(lines)
      BY <1>0, <2>1
    <3>2. reading[n + 1] = ReadLine(reading[n], lines[n + 1])
      BY <1>1, <3>1
    <3>3. ReadingGood(reading[n]) /\ Len(lines[n + 1].args) \in Nat
      BY <3>1 DEF Readable
    <3> QED BY <3>2, <3>3, LineGood
  <2> QED BY <2>1
<1> DEFINE end == reading[Len(lines)]
<1>4. ReadingGood(end)
  <2> HIDE DEF T
  <2>1. Len(lines) \in T
    BY <1>0, <1>2, <1>3, SetInduction
  <2> QED BY <1>0, <2>1 DEF T
<1>5. Parse(lines) = [end EXCEPT !.ok = end.ok /\ end.seenFrom]
  BY Zenon DEF Parse, reading
<1> HIDE DEF end
<1>6. Parse(lines).builder = end.builder
  <2> DEFINE ok == end.ok /\ end.seenFrom
  <2>1. end = [builder |-> end.builder, seenFrom |-> end.seenFrom,
               ok |-> end.ok]
    BY <1>4 DEF ReadingGood, IsReading
  <2>2. Parse(lines) = [end EXCEPT !.ok = ok]
    BY <1>5
  <2> HIDE DEF ok
  <2> QED BY <2>1, <2>2
<1> QED BY <1>4, <1>6 DEF ReadingGood

\* So is a builder after any call.
LEMMA AppliedGood ==
  ASSUME NEW builder, NEW call \in Chains, Good(builder),
         IsBuilder(Apply(builder, call))
  PROVE  Good(Apply(builder, call))
<1> DEFINE more == Apply(builder, call)
<1>1. CASE call.op \in {"FromImage", "FromBaseImage"}
  <2>1. \/ more = FromImageWithAuth(builder, call.args[1], call.args[2])
        \/ more = FromImageWithAuth(builder, BaseImage, "")
    BY <1>1 DEF Apply, FromBaseImage
  <2> HIDE DEF more
  <2>2. Good(more)
    BY <2>1, ImageGood
  <2> QED BY <2>2 DEF more
<1>2. CASE call.op = "FromTemplate"
  <2>1. more = FromTemplate(builder, call.args[1])
    BY <1>2 DEF Apply
  <2>2. IsBuilder(builder)
    BY DEF Good
  <2>3. Rebased(builder, FromTemplate(builder, call.args[1]),
                "", call.args[1], "")
    BY <2>2, TemplateSet
  <2> HIDE DEF more
  <2>4. Good(more)
    BY <2>1, <2>3, RebasedGood DEF Rebased
  <2> QED BY <2>4 DEF more
<1>3. CASE call.op = "RunCmd"
  BY <1>3, RunGood DEF Apply
<1>4. CASE call.op = "RunCmdAsUser"
  BY <1>4, RunAsGood DEF Apply
<1>5. CASE call.op = "Copy"
  BY <1>5, CopyGood DEF Apply
<1>6. CASE call.op = "SetEnvs"
  <2>1. IsEnvs(call.args[1])
    BY <1>6, ChainsAssumption
  <2>2. more = SetEnvs(builder, call.args[1])
    BY <1>6 DEF Apply
  <2> HIDE DEF more
  <2>3. Good(more)
    BY <2>1, <2>2, EnvsGood
  <2> QED BY <2>3 DEF more
<1>7. CASE call.op \in {"SetWorkdir", "SetUser"}
  <2>1. \/ more = SetWorkdir(builder, call.args[1])
        \/ more = SetUser(builder, call.args[1])
    BY <1>7 DEF Apply
  <2> HIDE DEF more
  <2>2. Good(more)
    BY <2>1, WorkdirGood
  <2> QED BY <2>2 DEF more
<1>8. CASE call.op = "SkipCache"
  <2>1. more = [builder EXCEPT !.forceNextLayer = TRUE]
    BY <1>8 DEF Apply, SkipCache
  <2>2. IsBuilder(more)
    OBVIOUS
  <2> HIDE DEF more
  <2>3. more.instructions = builder.instructions
    BY <2>1 DEF Good, IsBuilder
  <2>4. Good(more)
    BY <2>2, <2>3, RebasedGood
  <2> QED BY <2>4 DEF more
<1>9. CASE call.op = "SetStartCmd"
  BY <1>9, StartGood DEF Apply
<1>10. CASE call.op = "FromDockerfile"
  <2> DEFINE lines == call.args
  <2> DEFINE read == Parse(lines).builder
  <2> DEFINE force == builder.force
  <2> DEFINE next == builder.forceNextLayer
  <2>1. more = FromDockerfile(builder, lines)
    BY <1>10 DEF Apply
  <2>2. CASE ~Parse(lines).ok
    BY <2>1, <2>2 DEF FromDockerfile
  <2>3. CASE Parse(lines).ok
    <3>1. more = [read EXCEPT !.force = force, !.forceNextLayer = next]
      BY <2>1, <2>3, Zenon DEF FromDockerfile
    <3>2. lines \in Dockerfile
      BY <1>10, ChainsAssumption
    <3>3. Readable(lines)
      BY <3>2, FileReadable
    <3>4. Good(read)
      BY <3>3, ParsedGood
    <3>5. IsBuilder(more)
      OBVIOUS
    <3> HIDE DEF more, read, force, next
    <3>6. more.instructions = read.instructions
      BY <3>1, <3>4 DEF Good, IsBuilder
    <3>7. Good(more)
      BY <3>4, <3>5, <3>6, RebasedGood
    <3> QED BY <3>7 DEF more
  <2> QED BY <2>2, <2>3
<1>11. CASE call.op = "Build"
  <2>1. more = UseRegistry(builder, call.args[1])
    BY <1>11 DEF Apply
  <2>2. IsBuilder(more)
    OBVIOUS
  <2> HIDE DEF more
  <2>3. more.instructions = builder.instructions
    BY <2>1 DEF Good, IsBuilder, UseRegistry
  <2>4. Good(more)
    BY <2>2, <2>3, RebasedGood
  <2> QED BY <2>4 DEF more
<1>12. call.op \in Methods
  BY ChainsAssumption
<1> QED
  BY <1>1, <1>2, <1>3, <1>4, <1>5, <1>6, <1>7, <1>8, <1>9, <1>10, <1>11, <1>12
  DEF Methods

\* So the instructions of a builder are always formed.
LEMMA AllGood == Spec => []Good(b)
<1>1. Init => Good(b)
  BY NewGood DEF Init
<1>2. BuilderInv /\ BuilderInv' /\ Good(b) /\ [Next]_vars => Good(b)'
  <2> SUFFICES ASSUME BuilderInv', Good(b), [Next]_vars PROVE Good(b')
    BY Zenon DEF Good, AllFormed
  <2>1. CASE Next
    <3>1. PICK c \in Chains : Call(c)
      BY <2>1 DEF Next
    <3>2. b' = Apply(b, c)
      BY <3>1 DEF Call
    <3>3. IsBuilder(b')
      BY Zenon DEF BuilderInv
    <3> QED BY <3>2, <3>3, AppliedGood
  <2>2. CASE UNCHANGED vars
    BY <2>2 DEF vars
  <2> QED BY <2>1, <2>2
<1> QED BY <1>1, <1>2, InvHolds, PTL DEF Spec

\* So all of the steps of a builder are sent ...
LEMMA AllSent ==
  ASSUME Good(b)
  PROVE  Steps(b) = b.instructions
<1> DEFINE insts == b.instructions
<1>1. IsSequence(insts)
  BY DEF Good, IsBuilder
<1>2. ASSUME NEW k \in 1 .. Len(insts) PROVE insts[k].type \in Buildable
  <2>1. Formed(insts[k])
    BY <1>2, Zenon DEF Good, AllFormed
  <2> QED BY ONLY <2>1 DEF Formed, FormedAs, Buildable
<1> HIDE DEF insts
<1>3. Kept(insts)[Len(insts)] = insts
  BY ONLY <1>1, <1>2, AllKept
<1> QED BY <1>3, Zenon DEF Steps, insts

\* ... and what the invariant says of the flags is ForcedAsAsked.
LEMMA InvForced == BuilderInv /\ Good(b) => ForcedAsAsked
<1> SUFFICES ASSUME BuilderInv, Good(b) PROVE ForcedAsAsked
  OBVIOUS
<1>1. /\ DOMAIN script = 1 .. Len(script) /\ Len(script) \in Nat
      /\ \A i \in 1 .. Len(script) : script[i] \in Chains
  BY Scripted
<1>2. Adding = Where(script, Adders)
  BY <1>1 DEF Adding, Where, Adders
<1>3. FileRead = FileAt(script)
  <2>1. {i \in DOMAIN script : ReadsFile(script[i])} = Where(script, Readers)
    BY <1>1 DEF Where, Readers
  <2> QED BY <2>1 DEF FileRead, FileAt
<1>4. Own = OwnOf(script)
  BY <1>2, <1>3 DEF Own, OwnOf
<1>5. \A i : Rank(i) = RankIn(Own, i)
  BY Zenon DEF Rank, RankIn
<1>6. \A i : ForcesIn(script, i) <=> Forces(i)
  <2>1. Where(script, Skips) =
          {i \in DOMAIN script : script[i].op = "SkipCache"}
    BY <1>1 DEF Where, Skips
  <2> QED BY <1>2, <2>1, Zenon DEF ForcesIn, Forces
<1> DEFINE insts == b.instructions
<1> DEFINE read == Len(insts) - Cardinality(Own)
<1>7. /\ \A k \in 1 .. read : ~insts[k].force
      /\ \A i \in Own : insts[read + RankIn(Own, i)].force
                          <=> ForcesIn(script, i)
  BY <1>4, Zenon DEF BuilderInv, ForcedInv
<1> DEFINE body == ToJSON(b)
<1>8. body.steps = insts /\ (body.force <=> b.force)
  <2> DEFINE force == FALSE \/ b.force
  <2>1. body = [fromImage |-> b.baseImage, fromTemplate |-> b.baseTemplate,
                startCmd |-> b.startCmd, readyCmd |-> b.readyCmd,
                force |-> force, registry |-> b.registry, steps |-> insts]
    BY AllSent, Zenon DEF ToJSON, Serialize
  <2> HIDE DEF body, insts, force
  <2>2. body.steps = insts /\ body.force = force
    BY ONLY <2>1
  <2> QED BY ONLY <2>2 DEF force
<1>9. b.force <=> \E i \in DOMAIN script : CallsFrom(script[i]) /\ Forces(i)
  <2>1. Where(script, Froms) = {i \in DOMAIN script : CallsFrom(script[i])}
    BY <1>1 DEF Where, Froms
  <2>2. b.force <=> \E i \in Where(script, Froms) : ForcesIn(script, i)
    BY Zenon DEF BuilderInv, ForceInv
  <2> QED BY ONLY <1>6, <2>1, <2>2
<1> HIDE DEF insts, read, body
<1>10. \A i \in Own : insts[read + Rank(i)].force <=> Forces(i)
  BY ONLY <1>5, <1>6, <1>7, Zenon
<1>11. read = Len(body.steps) - Cardinality(Own)
  BY <1>8, Zenon DEF read
<1> QED BY <1>7, <1>8, <1>9, <1>10, <1>11, Zenon DEF ForcedAsAsked, body

\* In the request for a template a step is forced exactly if SkipCache was called
\* since the step before it was added, and the build as a whole exactly if a
\* From call was made with a SkipCache pending, for any chain of calls and any
\* Dockerfiles among them.
THEOREM Forced == Spec => []ForcedAsAsked
  BY InvHolds, AllGood, InvForced, PTL

-----------------------------------------------------------------------------
(* What is written.                                                         *)

\* Instructions are written one after the other.
LEMMA WritingSteps ==
  ASSUME NEW list, Len(list) \in Nat
  PROVE  /\ Writing(list)[0] = <<>>
         /\ \A i \in 1 .. Len(list) :
              Writing(list)[i] = Writing(list)[i - 1] \o Rendered(list[i])
<1> DEFINE G(s, i) == s \o Rendered(list[i])
<1> DEFINE Loop(f, n) ==
             f = [i \in 0 .. n |-> IF i = 0 THEN <<>> ELSE G(f[i - 1], i)]
<1> DEFINE T == {n \in Nat : \E f : Loop(f, n)}
<1>1. Writing(list) = CHOOSE f : Loop(f, Len(list))
  BY DEF Writing
<1> HIDE DEF G
<1>2. 0 \in T
  <2> DEFINE f == [i \in 0 .. 0 |-> <<>>]
  <2>1. Loop(f, 0)
    OBVIOUS
  <2> QED BY <2>1
<1>3. \A n \in Nat : n \in T => n + 1 \in T
  <2> TAKE n \in Nat
  <2> HAVE n \in T
  <2>1. PICK f : Loop(f, n)
    OBVIOUS
  <2> DEFINE g == [i \in 0 .. n + 1 |-> IF i = n + 1 THEN G(f[n], n + 1)
                                        ELSE f[i]]
  <2>2. \A i \in 0 .. n : f[i] = IF i = 0 THEN <<>> ELSE G(f[i - 1], i)
    BY <2>1
  <2>3. \A i \in 0 .. n : g[i] = f[i]
    OBVIOUS
  <2>4. g[n + 1] = G(f[n], n + 1)
    OBVIOUS
  <2>5. \A i \in 0 .. n + 1 :
          g[i] = IF i = 0 THEN <<>> ELSE G(g[i - 1], i)
    <3> TAKE i \in 0 .. n + 1
    <3> HIDE DEF g
    <3>1. CASE i = 0
      BY <2>2, <2>3, <3>1
    <3>2. CASE i = n + 1
      <4>1. g[n] = f[n] /\ i - 1 = n /\ i # 0
        BY <2>3, <3>2
      <4> QED BY <2>4, <3>2, <4>1
    <3>3. CASE i \in 1 .. n
      <4>1. i - 1 \in 0 .. n /\ i \in 0 .. n /\ i # 0
        BY <3>3
      <4> QED BY <2>2, <2>3, <4>1
    <3> QED BY <3>1, <3>2, <3>3
  <2>6. Loop(g, n + 1)
    <3>1. g = [i \in 0 .. n + 1 |-> g[i]]
      OBVIOUS
    <3> HIDE DEF g
    <3> QED BY <2>5, <3>1
  <2>7. \E h : Loop(h, n + 1)
    <3> HIDE DEF g, Loop
    <3> QED BY <2>6
  <2>8. n + 1 \in Nat
    OBVIOUS
  <2> HIDE DEF g, Loop
  <2> QED BY <2>7, <2>8
<1>4. \E f : Loop(f, Len(list))
  BY <1>2, <1>3, SetInduction
<1>5. Loop(Writing(list), Len(list))
  BY <1>1, <1>4, Zenon
<1> DEFINE written == Writing(list)
<1> HIDE DEF written
<1>6. \A i \in 0 .. Len(list) :
        written[i] = IF i = 0 THEN <<>> ELSE G(written[i - 1], i)
  BY <1>5 DEF written
<1>7. /\ written[0] = <<>>
      /\ \A i \in 1 .. Len(list) : written[i] = G(written[i - 1], i)
  BY <1>6
<1> QED BY <1>7 DEF written, G


\* The line of an instruction that is rendered as one.
Out(inst) == Rendered(inst)[1]
AsOne(inst) == Rendered(inst) = <<Out(inst)>>

\* Instructions of one line each are written as these lines.
LEMMA WrittenIs ==
  ASSUME NEW list, Len(list) \in Nat,
         \A k \in 1 .. Len(list) : AsOne(list[k])
  PROVE  LET all == Writing(list)[Len(list)]
         IN /\ IsSequence(all) /\ Len(all) = Len(list)
            /\ \A k \in 1 .. Len(list) : all[k] = Out(list[k])
<1> DEFINE written == Writing(list)
<1> DEFINE Is(s, i) == /\ IsSequence(s) /\ Len(s) = i
                       /\ \A k \in 1 .. i : s[k] = Out(list[k])
<1> DEFINE T == {i \in Nat : i <= Len(list) => Is(written[i], i)}
<1>1. /\ written[0] = <<>>
      /\ \A i \in 1 .. Len(list) :
           written[i] = written[i - 1] \o Rendered(list[i])
  BY WritingSteps
<1> HIDE DEF written
<1>2. 0 \in T
  <2>1. IsSequence(<<>>) /\ Len(<<>>) = 0 /\ 1 .. 0 = {}
    BY DEF IsSequence
  <2>2. Is(written[0], 0)
    BY <1>1, <2>1
  <2> HIDE DEF Is
  <2> QED BY <2>2
<1>3. \A n \in Nat : n \in T => n + 1 \in T
  <2> TAKE n \in Nat
  <2> HAVE n \in T
  <2>1. ASSUME n + 1 <= Len(list) PROVE Is(written[n + 1], n + 1)
    <3>1. n + 1 \in 1 .. Len(list) /\ (n + 1) - 1 = n /\ n <= Len(list)
      BY <2>1
    <3> DEFINE e == Out(list[n + 1])
    <3> DEFINE s == written[n]
    <3> DEFINE t == <<e>>
    <3>2. written[n + 1] = s \o t
      <4>1. AsOne(list[n + 1])
        BY <3>1
      <4>2. written[n + 1] = written[n] \o Rendered(list[n + 1])
        BY <1>1, <3>1
      <4> QED BY <4>1, <4>2, Zenon DEF AsOne
    <3>3. IsSequence(s) /\ Len(s) = n /\ \A k \in 1 .. n : s[k] = Out(list[k])
      BY <3>1
    <3> HIDE DEF Is, e, s
    <3>4. IsSequence(t) /\ Len(t) = 1 /\ t[1] = e
      BY DEF IsSequence
    <3> HIDE DEF t
    <3> DEFINE j == s \o t
    <3>5. /\ IsSequence(j) /\ Len(j) = Len(s) + Len(t)
          /\ \A k \in 1 .. Len(s) : j[k] = s[k]
          /\ \A k \in 1 .. Len(t) : j[Len(s) + k] = t[k]
      <4>1. IsSequence(s) /\ IsSequence(t)
        BY <3>3, <3>4
      <4> QED BY ONLY <4>1, Joined
    <3> HIDE DEF j
    <3>6. j[n + 1] = e
      BY <3>3, <3>4, <3>5
    <3>7. ASSUME NEW k \in 1 .. n + 1 PROVE j[k] = Out(list[k])
      <4>1. CASE k \in 1 .. n
        BY <3>3, <3>5, <4>1
      <4>2. CASE k = n + 1
        BY <3>6, <4>2 DEF e
      <4> QED BY <4>1, <4>2
    <3>8. Is(j, n + 1)
      BY <3>3, <3>4, <3>5, <3>7 DEF Is
    <3> QED BY <3>2, <3>8 DEF j
  <2> HIDE DEF Is
  <2> QED BY <2>1
<1>4. Is(written[Len(list)], Len(list))
  <2> HIDE DEF T
  <2>1. Len(list) \in T
    BY <1>2, <1>3, SetInduction
  <2> HIDE DEF Is
  <2> QED BY <2>1 DEF T
<1> QED BY <1>4 DEF written

\* Nothing before a word, or after it.
LEMMA None ==
  ASSUME NEW s, IsSequence(s)
  PROVE  <<>> \o s = s /\ s \o <<>> = s
<1> DEFINE none == <<>>
<1>1. IsSequence(none) /\ Len(none) = 0
  BY DEF IsSequence
<1> HIDE DEF none
<1>2. /\ IsSequence(none \o s) /\ Len(none \o s) = Len(none) + Len(s)
      /\ \A k \in 1 .. Len(s) : (none \o s)[Len(none) + k] = s[k]
  BY ONLY <1>1, IsSequence(s), Joined
<1>3. /\ IsSequence(s \o none) /\ Len(s \o none) = Len(s) + Len(none)
      /\ \A k \in 1 .. Len(s) : (s \o none)[k] = s[k]
  BY ONLY <1>1, IsSequence(s), Joined
<1> DEFINE l == none \o s
<1> DEFINE r == s \o none
<1> HIDE DEF l, r
<1>4. l = s
  <2>1. /\ IsSequence(l) /\ Len(l) = Len(s)
        /\ \A k \in 1 .. Len(s) : l[k] = s[k]
    BY <1>1, <1>2 DEF l, IsSequence
  <2> QED BY <2>1 DEF IsSequence
<1>5. r = s
  <2>1. /\ IsSequence(r) /\ Len(r) = Len(s)
        /\ \A k \in 1 .. Len(s) : r[k] = s[k]
    BY <1>1, <1>3 DEF r, IsSequence
  <2> QED BY <2>1 DEF IsSequence
<1> QED BY <1>4, <1>5 DEF none, l, r

LEMMA OneIs ==
  ASSUME NEW x
  PROVE  IsSequence(<<x>>) /\ Len(<<x>>) = 1 /\ <<x>>[1] = x
BY DEF IsSequence

\* A value that reads back is printed as one line, alone or with another.
LEMMA WholeLineIs ==
  ASSUME NEW name, NEW v, IsOneLine(v)
  PROVE  WholeLine(name, v) = <<Line(name, Word(v))>>
<1> DEFINE line == Line(name, Word(v))
<1>1. WholeLine(name, v) = <<Line(name, Word(Shown(v).line))>> \o Shown(v).more
  BY Zenon DEF WholeLine
<1>2. Shown(v).line = v /\ Shown(v).more = <<>>
  BY Zenon DEF IsOneLine
<1>3. WholeLine(name, v) = <<line>> \o <<>>
  BY <1>1, <1>2, Zenon
<1> HIDE DEF line
<1>4. IsSequence(<<line>>)
  BY ONLY OneIs
<1> QED BY ONLY <1>3, <1>4, None, Zenon DEF line

LEMMA OneWordIs ==
  ASSUME NEW name, NEW v, IsOneWord(v)
  PROVE  OneWord(name, v) = <<Line(name, Word(v))>>
<1> DEFINE line == Line(name, Word(v))
<1>1. OneWord(name, v) = <<Line(name, Shown(v).words)>> \o Shown(v).more
  BY Zenon DEF OneWord
<1>2. Shown(v).words = Word(v) /\ Shown(v).more = <<>>
  BY Zenon DEF IsOneWord
<1>3. OneWord(name, v) = <<line>> \o <<>>
  BY <1>1, <1>2, Zenon
<1> HIDE DEF line
<1>4. IsSequence(<<line>>)
  BY ONLY OneIs
<1> QED BY ONLY <1>3, <1>4, None, Zenon DEF line

LEMMA TwoWordsAre ==
  ASSUME NEW name, NEW v, NEW w, IsOneWord(v), IsOneWord(w)
  PROVE  TwoWords(name, v, w) = <<Line(name, Word(v) \o Word(w))>>
<1> DEFINE line == Line(name, Word(v) \o Word(w))
<1>1. TwoWords(name, v, w) =
        (<<Line(name, Shown(v).words
                        \o IF Shown(v).more = <<>> THEN Shown(w).words
                           ELSE <<>>)>>
         \o Shown(v).more) \o Shown(w).more
  BY Zenon DEF TwoWords
<1>2. /\ Shown(v).words = Word(v) /\ Shown(v).more = <<>>
      /\ Shown(w).words = Word(w) /\ Shown(w).more = <<>>
  BY Zenon DEF IsOneWord
<1>3. TwoWords(name, v, w) = (<<line>> \o <<>>) \o <<>>
  BY <1>1, <1>2, Zenon
<1> HIDE DEF line
<1>4. IsSequence(<<line>>)
  BY ONLY OneIs
<1>5. <<line>> \o <<>> = <<line>>
  BY ONLY <1>4, None
<1> QED BY ONLY <1>3, <1>5, Zenon DEF line

\* The line an instruction is rendered as that has no user of its own and whose
\* values read back.
OwnUser(inst) == Len(inst.args) > (IF inst.type = "RUN" THEN 1 ELSE 2)
Assigns(key, value, sign) ==
  <<key>> \o IF sign = "" THEN <<>> ELSE <<value>>
Values(e) == \A key \in DOMAIN e : IsOneValue(e[key])
RenderedOne(inst) ==
  inst.type \in {"RUN", "WORKDIR", "USER"} /\
    \E a : inst.args = <<a>> /\ Rendered(inst) = <<Line(inst.type, Word(a))>>
RenderedCopy(inst) ==
  inst.type = "COPY" /\
    \E s, d : /\ inst.args = <<s, d>>
              /\ Rendered(inst) = <<Line("COPY", Word(s) \o Word(d))>>
RenderedEnv(inst) ==
  inst.type = "ENV" /\
    \E e : /\ inst.args = <<e>> /\ IsEnvs(e) /\ DOMAIN e # {} /\ Values(e)
           /\ Rendered(inst) = EnvLine(e)
RenderedArg(inst) ==
  inst.type = "ARG" /\
    \E k, v, sign : /\ inst.args = Assigns(k, v, sign) /\ k # ""
                    /\ Rendered(inst) = <<Line("ARG", <<k, v, sign>>)>>

LEMMA Renders ==
  ASSUME NEW inst, Formed(inst), ~OwnUser(inst), Verbatim(inst)
  PROVE  RenderedOne(inst) \/ RenderedCopy(inst) \/ RenderedEnv(inst)
         \/ RenderedArg(inst)
<1>1. CASE inst.type = "RUN"
  <2>1. PICK a : inst.args = <<a>>
    <3>1. ASSUME NEW c, NEW u, inst.args = <<c, u>> PROVE FALSE
      <4>1. Len(inst.args) > 1
        BY <3>1
      <4> QED BY <1>1, <4>1, Zenon DEF OwnUser
    <3>2. (\E c : inst.args = <<c>>) \/ \E c, u : inst.args = <<c, u>>
      BY <1>1 DEF Formed, FormedAs
    <3> QED BY <3>1, <3>2, Zenon
  <2> DEFINE line == Line("RUN", Word(a))
  <2>2. Rendered(inst) = (IF Len(inst.args) > 1
                          THEN WholeLine("USER", inst.args[2])
                          ELSE <<>>) \o WholeLine("RUN", inst.args[1])
    BY <1>1 DEF Rendered
  <2>3. ~(Len(inst.args) > 1) /\ inst.args[1] = a
    BY <2>1
  <2>4. WholeLine("RUN", a) = <<line>>
    <3>1. IsOneLine(a)
      BY <1>1, <2>3 DEF Verbatim
    <3> QED BY ONLY <3>1, WholeLineIs
  <2> HIDE DEF line
  <2>5. Rendered(inst) = <<>> \o <<line>>
    BY <2>2, <2>3, <2>4, Zenon
  <2>6. Rendered(inst) = <<line>>
    BY <2>5, OneIs, None, Zenon
  <2> QED BY <1>1, <2>1, <2>6, Zenon DEF line, RenderedOne
<1>2. CASE inst.type = "COPY"
  <2>1. PICK s, d : inst.args = <<s, d>>
    <3>1. ASSUME NEW s, NEW d, NEW o, inst.args = <<s, d, o>> PROVE FALSE
      <4>1. Len(inst.args) > 2
        BY <3>1
      <4> QED BY <1>2, <4>1 DEF OwnUser
    <3>2. \/ \E s, d : inst.args = <<s, d>>
          \/ \E s, d, o : inst.args = <<s, d, o>>
      BY <1>2 DEF Formed, FormedAs
    <3> QED BY <3>1, <3>2, Zenon
  <2>2. Rendered(inst) = TwoWords("COPY", inst.args[1], inst.args[2])
    BY <1>2 DEF Rendered
  <2>3. inst.args[1] = s /\ inst.args[2] = d
    BY <2>1
  <2>4. IsOneWord(s) /\ IsOneWord(d)
    BY <1>2, <2>3 DEF Verbatim
  <2>5. TwoWords("COPY", s, d) = <<Line("COPY", Word(s) \o Word(d))>>
    BY ONLY <2>4, TwoWordsAre
  <2> QED BY <1>2, <2>1, <2>2, <2>3, <2>5, Zenon DEF RenderedCopy
<1>3. CASE inst.type = "ENV"
  <2>1. PICK e : inst.args = <<e>> /\ IsEnvs(e) /\ DOMAIN e # {}
    BY <1>3 DEF Formed, FormedAs
  <2>2. Rendered(inst) = EnvLine(inst.args[1])
    BY <1>3 DEF Rendered
  <2>3. inst.args[1] = e
    BY <2>1
  <2>4. Values(e)
    BY <1>3, <2>3, Zenon DEF Verbatim, Values
  <2> QED BY <1>3, <2>1, <2>2, <2>3, <2>4, Zenon DEF RenderedEnv
<1>4. CASE inst.type \in {"WORKDIR", "USER"}
  <2>1. PICK a : inst.args = <<a>>
    BY <1>4 DEF Formed, FormedAs
  <2>2. Rendered(inst) = WholeLine(inst.type, inst.args[1])
    BY <1>4 DEF Rendered
  <2>3. inst.args[1] = a /\ inst.type \in {"RUN", "WORKDIR", "USER"}
    BY <1>4, <2>1
  <2>4. IsOneLine(a)
    BY <2>3 DEF Verbatim
  <2>5. WholeLine(inst.type, a) = <<Line(inst.type, Word(a))>>
    BY ONLY <2>4, WholeLineIs
  <2> QED BY <2>1, <2>2, <2>3, <2>5, Zenon DEF RenderedOne
<1>5. CASE inst.type = "ARG"
  <2>1. Rendered(inst) = <<Line("ARG", IF Len(inst.args) > 1
                                       THEN <<inst.args[1], inst.args[2], "=">>
                                       ELSE <<inst.args[1], "", "">>)>>
    BY <1>5 DEF Rendered
  <2>2. ASSUME NEW k, inst.args = <<k>>, k # "" PROVE RenderedArg(inst)
    <3>0. inst.args = <<k>>
      BY <2>2
    <3>1. inst.args[1] = k /\ ~(Len(inst.args) > 1)
      BY <3>0
    <3>2. Rendered(inst) = <<Line("ARG", <<k, "", "">>)>>
      BY <2>1, <3>1, Zenon
    <3>3. inst.args = Assigns(k, "", "")
      BY <2>2, OneIs, None, Zenon DEF Assigns
    <3> QED BY <1>5, <2>2, <3>2, <3>3, Zenon DEF RenderedArg
  <2>3. ASSUME NEW k, NEW v, inst.args = <<k, v>>, k # ""
        PROVE  RenderedArg(inst)
    <3>0. inst.args = <<k, v>>
      BY <2>3
    <3>1. inst.args[1] = k /\ Len(inst.args) > 1 /\ inst.args[2] = v
      BY <3>0
    <3>2. Rendered(inst) = <<Line("ARG", <<k, v, "=">>)>>
      BY <2>1, <3>1, Zenon
    <3>3. inst.args = Assigns(k, v, "=")
      <4>1. "=" # ""
        OBVIOUS
      <4> QED BY <3>0, <4>1, Two, Zenon DEF Assigns
    <3> QED BY <1>5, <2>3, <3>2, <3>3, Zenon DEF RenderedArg
  <2>4. \/ \E k : inst.args = <<k>> /\ k # ""
        \/ \E k, v : inst.args = <<k, v>> /\ k # ""
    BY <1>5 DEF Formed, FormedAs
  <2> QED BY <2>2, <2>3, <2>4, Zenon
<1>6. inst.type \in {"RUN", "COPY", "ENV", "WORKDIR", "USER", "ARG"}
  BY DEF Formed, FormedAs
<1> QED BY <1>1, <1>2, <1>3, <1>4, <1>5, <1>6

\* The keys of a map, each once, in some order.
LEMMA KeysAre ==
  ASSUME NEW S, IsFiniteSet(S)
  PROVE  LET keys == SetToSeq(S)
             n == Cardinality(S)
         IN /\ n \in Nat /\ Len(keys) = n /\ keys \in [1 .. n -> S]
            /\ \A i, j \in 1 .. n : keys[i] = keys[j] => i = j
            /\ \A k \in S : \E i \in 1 .. n : keys[i] = k
<1> DEFINE keys == SetToSeq(S)
<1> DEFINE n == Cardinality(S)
<1>1. n \in Nat /\ ExistsBijection(1 .. n, S)
  BY FS_CardinalityType
<1>2. \E f \in [1 .. n -> S] : IsInjective(f)
  BY <1>1, Zenon DEF ExistsBijection, Bijection, Injection
<1>3. keys \in [1 .. n -> S] /\ IsInjective(keys)
  BY <1>2, Zenon DEF SetToSeq
<1>4. keys \in Injection(1 .. n, S)
  BY <1>3, Zenon DEF Injection
<1>5. Cardinality(1 .. n) = n
  BY <1>1, FS_Interval
<1> HIDE DEF keys
<1>6. keys \in Surjection(1 .. n, S)
  BY <1>4, <1>5, FS_Injection
<1> HIDE DEF n
<1>7. \A k \in S : \E i \in 1 .. n : keys[i] = k
  BY <1>6, Zenon DEF Surjection
<1>8. \A i, j \in 1 .. n : keys[i] = keys[j] => i = j
  <2>1. DOMAIN keys = 1 .. n
    BY <1>3
  <2> QED BY <1>3, <2>1, Zenon DEF IsInjective
<1>9. Len(keys) = n
  BY <1>1, <1>3
<1> QED BY <1>1, <1>3, <1>7, <1>8, <1>9 DEF keys, n

\* What a line has.
LEMMA LineHas ==
  ASSUME NEW name, NEW args
  PROVE  /\ Line(name, args).name = name /\ Line(name, args).args = args
         /\ Line(name, args).chown = ""
BY DEF Line

LEMMA LineIs ==
  ASSUME NEW line, NEW name, NEW args, line = Line(name, args)
  PROVE  line.name = name /\ line.args = args
BY DEF Line

\* The words of an ENV line: a key, its value and "=" for each.
Triples(args, keys, e, n) ==
  \A i \in 1 .. n : /\ args[3 * i - 2] = keys[i]
                    /\ args[3 * i - 1] = e[keys[i]] /\ args[3 * i] = "="

\* The words of it so far, and what one more variable adds.
Unprinted == [args |-> <<>>, more |-> <<>>]
PrintMore(e, key, printed) ==
  IF printed.more # <<>> THEN printed
  ELSE [args |-> printed.args \o <<key>> \o Shown(e[key]).env,
        more |-> Shown(e[key]).more]
LEMMA PrintingSteps ==
  ASSUME NEW e, NEW keys, Len(keys) \in Nat
  PROVE  /\ Printing(e, keys)[0] = Unprinted
         /\ \A i \in 1 .. Len(keys) :
              Printing(e, keys)[i] =
                PrintMore(e, keys[i], Printing(e, keys)[i - 1])
<1> DEFINE G(s, i) == PrintMore(e, keys[i], s)
<1> DEFINE Loop(f, n) ==
             f = [i \in 0 .. n |-> IF i = 0 THEN Unprinted ELSE G(f[i - 1], i)]
<1> DEFINE T == {n \in Nat : \E f : Loop(f, n)}
<1>1. Printing(e, keys) = CHOOSE f : Loop(f, Len(keys))
  BY DEF Printing, PrintMore, Unprinted
<1> HIDE DEF G
<1>2. 0 \in T
  <2> DEFINE f == [i \in 0 .. 0 |-> Unprinted]
  <2>1. Loop(f, 0)
    OBVIOUS
  <2> QED BY <2>1
<1>3. \A n \in Nat : n \in T => n + 1 \in T
  <2> TAKE n \in Nat
  <2> HAVE n \in T
  <2>1. PICK f : Loop(f, n)
    OBVIOUS
  <2> DEFINE g == [i \in 0 .. n + 1 |-> IF i = n + 1 THEN G(f[n], n + 1)
                                        ELSE f[i]]
  <2>2. \A i \in 0 .. n : f[i] = IF i = 0 THEN Unprinted ELSE G(f[i - 1], i)
    BY <2>1
  <2>3. \A i \in 0 .. n : g[i] = f[i]
    OBVIOUS
  <2>4. g[n + 1] = G(f[n], n + 1)
    OBVIOUS
  <2>5. \A i \in 0 .. n + 1 :
          g[i] = IF i = 0 THEN Unprinted ELSE G(g[i - 1], i)
    <3> TAKE i \in 0 .. n + 1
    <3> HIDE DEF g
    <3>1. CASE i = 0
      BY <2>2, <2>3, <3>1
    <3>2. CASE i = n + 1
      <4>1. g[n] = f[n] /\ i - 1 = n /\ i # 0
        BY <2>3, <3>2
      <4> QED BY <2>4, <3>2, <4>1
    <3>3. CASE i \in 1 .. n
      <4>1. i - 1 \in 0 .. n /\ i \in 0 .. n /\ i # 0
        BY <3>3
      <4> QED BY <2>2, <2>3, <4>1
    <3> QED BY <3>1, <3>2, <3>3
  <2>6. Loop(g, n + 1)
    <3>1. g = [i \in 0 .. n + 1 |-> g[i]]
      OBVIOUS
    <3> HIDE DEF g
    <3> QED BY <2>5, <3>1
  <2>7. \E h : Loop(h, n + 1)
    <3> HIDE DEF g, Loop
    <3> QED BY <2>6
  <2>8. n + 1 \in Nat
    OBVIOUS
  <2> HIDE DEF g, Loop
  <2> QED BY <2>7, <2>8
<1>4. \E f : Loop(f, Len(keys))
  BY <1>2, <1>3, SetInduction
<1>5. Loop(Printing(e, keys), Len(keys))
  BY <1>1, <1>4, Zenon
<1> DEFINE printed == Printing(e, keys)
<1> HIDE DEF printed
<1>6. \A i \in 0 .. Len(keys) :
        printed[i] = IF i = 0 THEN Unprinted ELSE G(printed[i - 1], i)
  BY <1>5 DEF printed
<1>7. /\ printed[0] = Unprinted
      /\ \A i \in 1 .. Len(keys) : printed[i] = G(printed[i - 1], i)
  BY <1>6
<1> QED BY <1>7 DEF printed, G

\* What there is after the first variables, when every value reads back.
PrintedAt(printed, keys, e, n) ==
  /\ printed.more = <<>> /\ IsSequence(printed.args)
  /\ Len(printed.args) = 3 * n
  /\ Triples(printed.args, keys, e, n)

LEMMA PrintedMore ==
  ASSUME NEW e, NEW keys, NEW n \in Nat, NEW printed,
         PrintedAt(printed, keys, e, n), IsOneValue(e[keys[n + 1]])
  PROVE  PrintedAt(PrintMore(e, keys[n + 1], printed), keys, e, n + 1)
<1> DEFINE key == keys[n + 1]
<1> DEFINE value == e[key]
<1> DEFINE args == printed.args
<1> DEFINE head == <<key>>
<1> DEFINE tail == <<value, "=">>
<1> DEFINE more == PrintMore(e, key, printed)
<1> DEFINE left == args \o head
<1> DEFINE all == left \o tail
<1>1. more = [args |-> all, more |-> <<>>]
  <2>1. Shown(value).env = tail /\ Shown(value).more = <<>>
    BY Zenon DEF IsOneValue
  <2>2. printed.more = <<>>
    BY Zenon DEF PrintedAt
  <2> QED BY <2>1, <2>2, Zenon DEF PrintMore
<1>2. /\ IsSequence(args) /\ Len(args) = 3 * n
      /\ \A i \in 1 .. n : /\ args[3 * i - 2] = keys[i]
                           /\ args[3 * i - 1] = e[keys[i]]
                           /\ args[3 * i] = "="
  BY Zenon DEF PrintedAt, Triples
<1>3. IsSequence(head) /\ Len(head) = 1 /\ head[1] = key
  BY ONLY OneIs
<1>4. /\ IsSequence(tail) /\ Len(tail) = 2
      /\ tail[1] = value /\ tail[2] = "="
  <2> HIDE DEF value
  <2> QED BY DEF IsSequence
<1> HIDE DEF args, head, tail
<1>5. /\ IsSequence(left) /\ Len(left) = Len(args) + Len(head)
      /\ \A k \in 1 .. Len(args) : left[k] = args[k]
      /\ \A k \in 1 .. Len(head) : left[Len(args) + k] = head[k]
  <2>1. IsSequence(args) /\ IsSequence(head)
    BY ONLY <1>2, <1>3
  <2> QED BY ONLY <2>1, Joined
<1> HIDE DEF left
<1>6. /\ IsSequence(all) /\ Len(all) = Len(left) + Len(tail)
      /\ \A k \in 1 .. Len(left) : all[k] = left[k]
      /\ \A k \in 1 .. Len(tail) : all[Len(left) + k] = tail[k]
  <2>1. IsSequence(left) /\ IsSequence(tail)
    BY ONLY <1>4, <1>5
  <2> QED BY ONLY <2>1, Joined
<1> HIDE DEF all
<1>7. /\ Len(left) = 3 * n + 1 /\ Len(all) = 3 * (n + 1)
      /\ \A k \in 1 .. 3 * n : all[k] = args[k]
  BY ONLY <1>2, <1>3, <1>4, <1>5, <1>6, n \in Nat
<1>8. /\ all[3 * n + 1] = key /\ all[3 * n + 2] = value
      /\ all[3 * n + 3] = "="
  <2>1. all[3 * n + 1] = key
    <3>1. 3 * n + 1 \in 1 .. Len(left) /\ 1 \in 1 .. Len(head)
      BY ONLY <1>3, <1>7, n \in Nat
    <3>2. all[3 * n + 1] = left[3 * n + 1]
      BY ONLY <1>6, <3>1
    <3>3. left[Len(args) + 1] = head[1]
      BY ONLY <1>5, <3>1
    <3> QED BY ONLY <1>2, <1>3, <3>2, <3>3
  <2>2. 1 \in 1 .. Len(tail) /\ 2 \in 1 .. Len(tail)
    BY ONLY <1>4
  <2>3. all[Len(left) + 1] = value /\ all[Len(left) + 2] = "="
    BY ONLY <1>4, <1>6, <2>2
  <2>4. Len(left) + 1 = 3 * n + 2 /\ Len(left) + 2 = 3 * n + 3
    BY ONLY <1>7, n \in Nat
  <2> QED BY ONLY <2>1, <2>3, <2>4
<1>9. ASSUME NEW i \in 1 .. n + 1
      PROVE  /\ all[3 * i - 2] = keys[i]
             /\ all[3 * i - 1] = e[keys[i]] /\ all[3 * i] = "="
  <2>1. CASE i \in 1 .. n
    <3>1. /\ 3 * i - 2 \in 1 .. 3 * n /\ 3 * i - 1 \in 1 .. 3 * n
          /\ 3 * i \in 1 .. 3 * n
      BY ONLY <2>1, n \in Nat
    <3>2. /\ all[3 * i - 2] = args[3 * i - 2]
          /\ all[3 * i - 1] = args[3 * i - 1] /\ all[3 * i] = args[3 * i]
      BY ONLY <1>7, <3>1
    <3> QED BY ONLY <1>2, <2>1, <3>2
  <2>2. CASE i = n + 1
    <3>1. /\ 3 * i - 2 = 3 * n + 1 /\ 3 * i - 1 = 3 * n + 2
          /\ 3 * i = 3 * n + 3
      BY ONLY <2>2, n \in Nat
    <3>2. keys[i] = key /\ e[keys[i]] = value
      BY ONLY <2>2
    <3> HIDE DEF key, value
    <3> QED BY ONLY <1>8, <3>1, <3>2
  <2>3. i \in 1 .. n \/ i = n + 1
    BY ONLY <1>9, n \in Nat
  <2> QED BY ONLY <2>1, <2>2, <2>3
<1>10. Triples(all, keys, e, n + 1)
  BY ONLY <1>9 DEF Triples
<1>11. more.args = all /\ more.more = <<>>
  <2> HIDE DEF more
  <2> QED BY ONLY <1>1
<1>12. PrintedAt(more, keys, e, n + 1)
  BY ONLY <1>6, <1>7, <1>10, <1>11, Zenon DEF PrintedAt
<1> QED BY <1>12

\* The line of a map whose values read back: all of its words.
EnvWords(e) ==
  LET keys == SetToSeq(DOMAIN e) IN Printing(e, keys)[Len(keys)].args
LEMMA EnvLineIs ==
  ASSUME NEW e, IsEnvs(e), Values(e)
  PROVE  LET n == Cardinality(DOMAIN e)
         IN /\ EnvLine(e) = <<Line("ENV", EnvWords(e))>>
            /\ Len(EnvWords(e)) = 3 * n
            /\ Triples(EnvWords(e), SetToSeq(DOMAIN e), e, n)
<1> DEFINE keys == SetToSeq(DOMAIN e)
<1> DEFINE n == Cardinality(DOMAIN e)
<1> DEFINE printing == Printing(e, keys)
<1> DEFINE T == {i \in Nat : i <= n => PrintedAt(printing[i], keys, e, i)}
<1>1. /\ n \in Nat /\ Len(keys) = n
      /\ \A i \in 1 .. n : keys[i] \in DOMAIN e
  BY KeysAre DEF IsEnvs
<1>2. /\ EnvLine(e) = <<Line("ENV", printing[n].args)>> \o printing[n].more
      /\ EnvWords(e) = printing[n].args
  BY <1>1, Zenon DEF EnvLine, EnvWords
<1>3. ASSUME NEW i \in 1 .. n PROVE IsOneValue(e[keys[i]])
  BY <1>1, <1>3, Zenon DEF Values
<1> HIDE DEF keys, n
<1>4. /\ printing[0] = Unprinted
      /\ \A i \in 1 .. n : printing[i] = PrintMore(e, keys[i], printing[i - 1])
  BY <1>1, PrintingSteps
<1> HIDE DEF printing
<1>5. 0 \in T
  <2>1. Unprinted.more = <<>> /\ Unprinted.args = <<>>
    BY ONLY TRUE DEF Unprinted
  <2>2. IsSequence(<<>>) /\ Len(<<>>) = 3 * 0 /\ 1 .. 0 = {}
    BY ONLY TRUE DEF IsSequence
  <2>3. Triples(<<>>, keys, e, 0)
    BY ONLY <2>2 DEF Triples
  <2>4. PrintedAt(printing[0], keys, e, 0)
    BY ONLY <1>4, <2>1, <2>2, <2>3, Zenon DEF PrintedAt
  <2> QED BY ONLY <2>4
<1>6. \A i \in Nat : i \in T => i + 1 \in T
  <2> TAKE i \in Nat
  <2> HAVE i \in T
  <2>1. ASSUME i + 1 <= n PROVE PrintedAt(printing[i + 1], keys, e, i + 1)
    <3>1. i + 1 \in 1 .. n /\ (i + 1) - 1 = i /\ i <= n
      BY ONLY <1>1, <2>1, i \in Nat
    <3>2. printing[i + 1] = PrintMore(e, keys[i + 1], printing[i])
      BY ONLY <1>4, <3>1, Zenon
    <3>3. PrintedAt(printing[i], keys, e, i)
      BY <3>1
    <3>4. IsOneValue(e[keys[i + 1]])
      BY ONLY <1>3, <3>1
    <3>5. PrintedAt(PrintMore(e, keys[i + 1], printing[i]), keys, e, i + 1)
      BY ONLY <3>3, <3>4, PrintedMore, i \in Nat
    <3> QED BY ONLY <3>2, <3>5, Zenon
  <2> QED BY ONLY <2>1, i \in Nat
<1>7. PrintedAt(printing[n], keys, e, n)
  <2> HIDE DEF T
  <2>1. n \in T
    BY ONLY <1>1, <1>5, <1>6, SetInduction
  <2>2. n <= n
    BY ONLY <1>1
  <2> QED BY ONLY <2>1, <2>2 DEF T
<1> DEFINE words == printing[n].args
<1> DEFINE line == Line("ENV", words)
<1>8. EnvLine(e) = <<line>> \o <<>>
  BY <1>2, <1>7, Zenon DEF PrintedAt
<1> HIDE DEF words, line
<1>9. EnvLine(e) = <<line>>
  <2>1. IsSequence(<<line>>)
    BY ONLY OneIs
  <2> QED BY ONLY <1>8, <2>1, None
<1>10. EnvWords(e) = words
  BY <1>2 DEF words
<1>11. Len(words) = 3 * n /\ Triples(words, keys, e, n)
  BY <1>7, Zenon DEF PrintedAt, words
<1> QED BY <1>9, <1>10, <1>11, Zenon DEF keys, n, line

\* So an instruction is one line.
LEMMA RendersOne ==
  ASSUME NEW inst, Formed(inst), ~OwnUser(inst), Verbatim(inst)
  PROVE  AsOne(inst)
<1>1. ASSUME NEW line, Rendered(inst) = <<line>> PROVE AsOne(inst)
  <2>1. Out(inst) = line
    BY <1>1 DEF Out
  <2> QED BY <1>1, <2>1, Zenon DEF AsOne
<1>2. ASSUME RenderedEnv(inst) PROVE AsOne(inst)
  <2>1. PICK e : IsEnvs(e) /\ Values(e) /\ Rendered(inst) = EnvLine(e)
    BY <1>2, Zenon DEF RenderedEnv
  <2>2. EnvLine(e) = <<Line("ENV", EnvWords(e))>>
    BY ONLY <2>1, EnvLineIs
  <2> QED BY <1>1, <2>1, <2>2, Zenon
<1> QED BY <1>1, <1>2, Renders, Zenon
        DEF RenderedOne, RenderedCopy, RenderedArg

\* What is read from such a line: the map, unless a key is blank.
LEMMA EnvLineMeans ==
  ASSUME NEW e, IsEnvs(e), DOMAIN e # {}, Values(e)
  PROVE  LET args == EnvWords(e)
         IN /\ Len(args) \in Nat /\ Len(args) >= 2
            /\ EnvArgs(args) = IF "" \in DOMAIN e THEN {} ELSE {e}
<1> DEFINE keys == SetToSeq(DOMAIN e)
<1> DEFINE n == Cardinality(DOMAIN e)
<1> DEFINE args == EnvWords(e)
<1>1. /\ n \in Nat /\ keys \in [1 .. n -> DOMAIN e]
      /\ \A i, j \in 1 .. n : keys[i] = keys[j] => i = j
      /\ \A k \in DOMAIN e : \E i \in 1 .. n : keys[i] = k
  BY KeysAre DEF IsEnvs
<1>2. Len(args) = 3 * n /\ Triples(args, keys, e, n)
  BY EnvLineIs
<1> HIDE DEF keys, n, args
<1>3. n >= 1
  BY <1>1
<1>4. /\ Len(args) \in Nat /\ Len(args) >= 3 /\ Len(args) \div 3 = n
      /\ Len(args) % 3 = 0 /\ Len(args) # 2
  BY <1>1, <1>2, <1>3
<1>5. \A i \in 1 .. n : /\ KeyAt(args, i) = keys[i]
                        /\ args[3 * i - 1] = e[keys[i]] /\ args[3 * i] = "="
  BY <1>2, Zenon DEF Triples, KeyAt
<1>0. (\A i \in 1 .. n : keys[i] \in DOMAIN e)
  BY <1>1
<1>6. ~OnePair(args)
  <2>1. args[3 * 1] = "=" /\ 3 * 1 = 3
    BY <1>1, <1>3, <1>5
  <2> QED BY <1>4, <2>1 DEF OnePair
<1>7. Wrong(args) <=> "" \in DOMAIN e
  <2>1. Wrong(args) <=> \E i \in 1 .. n : keys[i] = ""
    BY <1>4, <1>5, Zenon DEF Wrong
  <2>2. \A k \in DOMAIN e : \E i \in 1 .. n : keys[i] = k
    BY <1>1
  <2> QED BY <1>0, <2>1, <2>2, Zenon
<1>8. AllPairs(args) = e
  <2> DEFINE ks == {KeyAt(args, i) : i \in 1 .. n}
  <2> DEFINE value(k) == args[3 * LastOf(args, k) - 1]
  <2>1. AllPairs(args) = [k \in ks |-> value(k)]
    BY <1>4, Zenon DEF AllPairs
  <2>2. ks = DOMAIN e
    <3>1. ASSUME NEW k \in ks PROVE k \in DOMAIN e
      <4>1. PICK i \in 1 .. n : k = KeyAt(args, i)
        BY <3>1
      <4>2. KeyAt(args, i) = keys[i] /\ keys[i] \in DOMAIN e
        BY <1>0, <1>5, Zenon
      <4> QED BY <4>1, <4>2
    <3>2. ASSUME NEW k \in DOMAIN e PROVE k \in ks
      <4>1. PICK i \in 1 .. n : keys[i] = k
        BY <1>1
      <4> QED BY <1>5, <4>1, Zenon
    <3> HIDE DEF ks
    <3> QED BY <3>1, <3>2
  <2>3. ASSUME NEW k \in DOMAIN e PROVE value(k) = e[k]
    <3>1. PICK i \in 1 .. n : keys[i] = k
      BY <1>1
    <3>2. LastFor(args, n, i, k)
      <4>1. ASSUME NEW j \in i + 1 .. n PROVE KeyAt(args, j) # k
        <5>1. j \in 1 .. n /\ j # i
          BY <1>1
        <5> QED BY <1>1, <1>5, <3>1, <5>1
      <4> QED BY <1>5, <3>1, <4>1 DEF LastFor
    <3> DEFINE l == LastOf(args, k)
    <3>3. l \in 1 .. n /\ LastFor(args, n, l, k)
      BY <1>4, <3>2, Zenon DEF LastOf
    <3>4. keys[l] = k
      BY <1>5, <3>3, Zenon DEF LastFor
    <3> QED BY <1>5, <3>3, <3>4, Zenon
  <2> HIDE DEF value, ks
  <2>4. e = [k \in DOMAIN e |-> e[k]]
    BY Zenon DEF IsEnvs
  <2> QED BY <2>1, <2>2, <2>3, <2>4
<1>9. EnvArgs(args) = IF "" \in DOMAIN e THEN {} ELSE {e}
  BY <1>6, <1>7, <1>8, EnvArgsIs, Zenon
<1>10. Len(args) >= 2
  BY <1>4
<1> QED BY <1>4, <1>9, <1>10 DEF args

-----------------------------------------------------------------------------
(* What a line that is written does is what its instruction does, and it is  *)
(* read unless it is blank.                                                 *)

\* A parse after one more line that names no image.
Keeps(s, t, ok) == IsReading(t) /\ t.seenFrom = s.seenFrom /\ t.ok = ok
Means(inst, line) ==
  /\ Len(line.args) \in Nat /\ line.name # "FROM"
  /\ ~Blank(inst) => \A stage : IsStage(stage) =>
                       LineDoes(stage, line) = StepDoes(stage, inst)
  /\ ~Blank(inst) => \A s : IsReading(s) /\ s.ok = TRUE =>
                       Keeps(s, ReadLine(s, line), TRUE)
  /\ Blank(inst) => \A s : IsReading(s) /\ s.ok = TRUE =>
                      Keeps(s, ReadLine(s, line), FALSE)

LEMMA RefuseKeeps ==
  ASSUME NEW s, IsReading(s)
  PROVE  Keeps(s, Refuse(s), FALSE)
<1> DEFINE t == Refuse(s)
<1>1. t = [s EXCEPT !.ok = FALSE]
  BY DEF Refuse
<1> HIDE DEF t
<1>2. Keeps(s, t, FALSE)
  BY <1>1 DEF IsReading, Keeps
<1> QED BY <1>2 DEF t

LEMMA ReadKeeps ==
  ASSUME NEW s, IsReading(s), s.ok = TRUE, NEW builder
  PROVE  Keeps(s, Read(s, builder), TRUE)
<1> DEFINE t == Read(s, builder)
<1>1. t = [s EXCEPT !.builder = builder]
  BY DEF Read
<1> HIDE DEF t
<1>2. Keeps(s, t, TRUE)
  BY <1>1 DEF IsReading, Keeps
<1> QED BY <1>2 DEF t

\* One thing done is one of a list.
LEMMA DoesEachOne ==
  ASSUME NEW stage, NEW whats, NEW what, NEW user, IsStage(stage),
         Len(whats) = 1, whats[1] = what
  PROVE  DoesEach(stage, whats, user) = Does(stage, what, user)
<1> DEFINE done == stage.done
<1> DEFINE e == <<what, user, stage.dir, stage.envs>>
<1> DEFINE item(i) == <<whats[i], user, stage.dir, stage.envs>>
<1> DEFINE t == [i \in 1 .. Len(whats) |-> item(i)]
<1>1. DoesEach(stage, whats, user) = [stage EXCEPT !.done = @ \o t]
  BY DEF DoesEach
<1>2. Does(stage, what, user) = [stage EXCEPT !.done = Append(@, e)]
  BY DEF Does
<1>3. item(1) = e
  OBVIOUS
<1> HIDE DEF e, item
<1>4. IsSequence(t) /\ Len(t) = 1 /\ t[1] = e
  BY <1>3 DEF IsSequence
<1>5. IsSequence(done)
  BY DEF IsStage
<1> HIDE DEF t, done
<1>6. done \o t = Append(done, e)
  <2> DEFINE j == done \o t
  <2> DEFINE a == Append(done, e)
  <2>1. /\ IsSequence(j) /\ Len(j) = Len(done) + Len(t)
        /\ \A k \in 1 .. Len(done) : j[k] = done[k]
        /\ \A k \in 1 .. Len(t) : j[Len(done) + k] = t[k]
    <3>1. IsSequence(done) /\ IsSequence(t)
      BY <1>4, <1>5
    <3> QED BY ONLY <3>1, Joined
  <2>2. /\ IsSequence(a) /\ Len(a) = Len(done) + 1 /\ a[Len(done) + 1] = e
        /\ \A k \in 1 .. Len(done) : a[k] = done[k]
    BY ONLY <1>5, Appended
  <2> HIDE DEF j, a
  <2>3. Len(j) = Len(a) /\ Len(done) \in Nat
    BY <1>4, <1>5, <2>1, <2>2 DEF IsSequence
  <2>4. ASSUME NEW k \in 1 .. Len(j) PROVE j[k] = a[k]
    <3>1. CASE k \in 1 .. Len(done)
      BY <2>1, <2>2, <3>1
    <3>2. CASE k = Len(done) + 1
      BY <1>4, <2>1, <2>2, <3>2
    <3> QED BY <2>2, <2>3, <3>1, <3>2
  <2>5. j = a
    BY <2>1, <2>2, <2>3, <2>4 DEF IsSequence
  <2> QED BY <2>5 DEF j, a
<1> QED BY <1>1, <1>2, <1>6 DEF done

\* RUN, WORKDIR and USER ...
LEMMA OneMeans ==
  ASSUME NEW inst, NEW line, NEW a, inst.args = <<a>>,
         inst.type \in {"RUN", "WORKDIR", "USER"},
         line.name = inst.type, line.args = Word(a)
  PROVE  Means(inst, line)
<1>1. inst.args[1] = a
  OBVIOUS
<1>2. Blank(inst) <=> a = ""
  BY <1>1 DEF Blank
<1>3. CASE a = ""
  <2>1. line.args = <<>>
    BY <1>3 DEF Word
  <2>2. Len(line.args) \in Nat
    BY <2>1
  <2>3. ASSUME NEW s, IsReading(s), s.ok = TRUE
        PROVE  Keeps(s, ReadLine(s, line), FALSE)
    <3>1. ReadLine(s, line) = ReadOne(s, line)
      BY <2>3 DEF ReadLine, Single
    <3>2. ReadOne(s, line) = Refuse(s)
      BY <2>1, Zenon DEF ReadOne
    <3> QED BY <2>3, <3>1, <3>2, RefuseKeeps
  <2>4. line.name # "FROM"
    OBVIOUS
  <2> QED BY ONLY <1>2, <1>3, <2>2, <2>3, <2>4, Zenon DEF Means
<1>4. CASE a # ""
  <2>1. line.args = <<a>>
    BY <1>4 DEF Word
  <2>2. Len(line.args) \in Nat /\ line.args # <<>> /\ line.args[1] = a
    BY <2>1
  <2>3. ASSUME NEW s, IsReading(s), s.ok = TRUE
        PROVE  Keeps(s, ReadLine(s, line), TRUE)
    <3>1. ReadLine(s, line) = ReadOne(s, line)
      BY <2>3 DEF ReadLine, Single
    <3>2. \E more : ReadOne(s, line) = Read(s, more)
      BY <2>2, Zenon DEF ReadOne
    <3> QED BY <2>3, <3>1, <3>2, ReadKeeps
  <2>4. ASSUME NEW stage PROVE LineDoes(stage, line) = StepDoes(stage, inst)
    <3>1. CASE inst.type = "RUN"
      <4>1. LineDoes(stage, line) = Does(stage, line.args[1], stage.user)
        BY <3>1, Zenon DEF LineDoes
      <4>2. StepDoes(stage, inst) = Does(stage, a, stage.user)
        BY <3>1, RunDoes
      <4> QED BY <2>2, <4>1, <4>2
    <3>2. CASE inst.type = "WORKDIR"
      <4>1. LineDoes(stage, line) = [stage EXCEPT !.dir = line.args[1]]
        BY <3>2 DEF LineDoes
      <4>2. StepDoes(stage, inst) = [stage EXCEPT !.dir = a]
        BY <3>2, WorkdirDoes
      <4> QED BY <2>2, <4>1, <4>2
    <3>3. CASE inst.type = "USER"
      <4>1. LineDoes(stage, line) = [stage EXCEPT !.user = line.args[1]]
        BY <3>3 DEF LineDoes
      <4>2. StepDoes(stage, inst) = [stage EXCEPT !.user = a]
        BY <3>3, UserDoes
      <4> QED BY <2>2, <4>1, <4>2
    <3> QED BY <3>1, <3>2, <3>3
  <2>5. line.name # "FROM"
    OBVIOUS
  <2> QED BY ONLY <1>2, <1>4, <2>2, <2>3, <2>4, <2>5, Zenon DEF Means
<1> QED BY <1>3, <1>4

\* ... COPY ...
LEMMA CopyMeans ==
  ASSUME NEW inst, NEW line, NEW s, NEW d, inst.args = <<s, d>>,
         inst.type = "COPY", line.name = "COPY",
         line.args = Word(s) \o Word(d), line.chown = ""
  PROVE  Means(inst, line)
<1>1. inst.args[1] = s /\ inst.args[2] = d /\ ~(Len(inst.args) > 2)
  <2>1. inst.args = <<s, d>>
    OBVIOUS
  <2> QED BY ONLY <2>1
<1>2. Blank(inst) <=> s = "" \/ d = ""
  BY <1>1 DEF Blank
<1>3. ASSUME s = "" \/ d = ""
      PROVE  Len(line.args) \in Nat /\ Len(line.args) < 2
  <2>1. CASE s = "" /\ d = ""
    <3>1. line.args = <<>> \o <<>>
      BY <2>1 DEF Word
    <3>2. IsSequence(<<>>)
      BY ONLY DEF IsSequence
    <3>3. line.args = <<>>
      BY ONLY <3>1, <3>2, None
    <3> QED BY ONLY <3>3
  <2>2. CASE s # "" /\ d = ""
    <3>1. line.args = <<s>> \o <<>>
      BY <2>2 DEF Word
    <3>2. IsSequence(<<s>>)
      BY ONLY OneIs
    <3>3. line.args = <<s>>
      BY ONLY <3>1, <3>2, None
    <3> QED BY ONLY <3>3
  <2>3. CASE s = "" /\ d # ""
    <3>1. line.args = <<>> \o <<d>>
      BY <2>3 DEF Word
    <3>2. IsSequence(<<d>>)
      BY ONLY OneIs
    <3>3. line.args = <<d>>
      BY ONLY <3>1, <3>2, None
    <3> QED BY ONLY <3>3
  <2> QED BY <1>3, <2>1, <2>2, <2>3
<1>4. CASE s = "" \/ d = ""
  <2>1. ASSUME NEW r, IsReading(r), r.ok = TRUE
        PROVE  Keeps(r, ReadLine(r, line), FALSE)
    <3>1. ReadLine(r, line) = ReadCopy(r, line)
      BY <2>1 DEF ReadLine, Single
    <3>2. ReadCopy(r, line) = Refuse(r)
      BY <1>3, <1>4, Zenon DEF ReadCopy
    <3> QED BY <2>1, <3>1, <3>2, RefuseKeeps
  <2>2. line.name # "FROM"
    OBVIOUS
  <2> QED BY ONLY <1>2, <1>3, <1>4, <2>1, <2>2, Zenon DEF Means
<1>5. CASE s # "" /\ d # ""
  <2>1. line.args = <<s, d>>
    <3>1. line.args = <<s>> \o <<d>>
      BY <1>5 DEF Word
    <3> QED BY <3>1, Two, Zenon
  <2>2. Len(line.args) = 2 /\ line.args[1] = s /\ line.args[2] = d
    BY ONLY <2>1
  <2>3. ASSUME NEW r, IsReading(r), r.ok = TRUE
        PROVE  Keeps(r, ReadLine(r, line), TRUE)
    <3>1. ReadLine(r, line) = ReadCopy(r, line)
      BY <2>3 DEF ReadLine, Single
    <3>2. ~(Len(line.args) < 2)
      BY ONLY <2>2
    <3>3. \E more : ReadCopy(r, line) = Read(r, more)
      BY <3>2, Zenon DEF ReadCopy
    <3> QED BY <2>3, <3>1, <3>3, ReadKeeps
  <2>4. ASSUME NEW stage, IsStage(stage)
        PROVE  LineDoes(stage, line) = StepDoes(stage, inst)
    <3> DEFINE n == Len(line.args)
    <3> DEFINE whats == [i \in 1 .. n - 1 |-> <<line.args[i], line.args[n]>>]
    <3>1. LineDoes(stage, line) = DoesEach(stage, whats, line.chown)
      BY DEF LineDoes
    <3>2. StepDoes(stage, inst) = Does(stage, <<s, d>>, "")
      BY <1>1 DEF StepDoes
    <3>3. Len(whats) = 1 /\ whats[1] = <<s, d>>
      BY ONLY <2>2
    <3> HIDE DEF whats
    <3>4. DoesEach(stage, whats, line.chown)
            = Does(stage, <<s, d>>, line.chown)
      BY <2>4, <3>3, DoesEachOne
    <3> QED BY <3>1, <3>2, <3>4, Zenon
  <2>5. Len(line.args) \in Nat /\ line.name # "FROM"
    BY ONLY <2>2, line.name = "COPY"
  <2> QED BY ONLY <1>2, <1>5, <2>3, <2>4, <2>5, Zenon DEF Means
<1> QED BY <1>4, <1>5

\* ... ENV ...
LEMMA EnvMeans ==
  ASSUME NEW inst, NEW line, NEW e, inst.args = <<e>>, inst.type = "ENV",
         IsEnvs(e), DOMAIN e # {}, Values(e),
         line.name = "ENV", line.args = EnvWords(e)
  PROVE  Means(inst, line)
<1> DEFINE args == line.args
<1>1. inst.args[1] = e
  <2>1. inst.args = <<e>>
    OBVIOUS
  <2> QED BY ONLY <2>1
<1>2. Blank(inst) <=> "" \in DOMAIN e
  BY <1>1 DEF Blank
<1>3. /\ Len(args) \in Nat /\ Len(args) >= 2 /\ ~(Len(args) < 2)
      /\ EnvArgs(args) = IF "" \in DOMAIN e THEN {} ELSE {e}
  <2> DEFINE words == EnvWords(e)
  <2>1. /\ Len(words) \in Nat /\ Len(words) >= 2
        /\ EnvArgs(words) = IF "" \in DOMAIN e THEN {} ELSE {e}
    BY EnvLineMeans
  <2>2. args = words
    OBVIOUS
  <2> HIDE DEF args, words
  <2>3. \A m \in Nat : m >= 2 => ~(m < 2)
    BY ONLY TRUE
  <2> QED BY ONLY <2>1, <2>2, <2>3, Zenon
<1>4. line.name # "FROM"
  OBVIOUS
<1>5. ASSUME NEW s, IsReading(s), s.ok = TRUE
      PROVE  ReadLine(s, line) = ReadEnv(s, line)
  BY <1>5 DEF ReadLine, Single
<1>6. CASE "" \in DOMAIN e
  <2>1. ASSUME NEW s, IsReading(s), s.ok = TRUE
        PROVE  Keeps(s, ReadLine(s, line), FALSE)
    <3>1. ReadEnv(s, line) = Refuse(s)
      BY <1>3, <1>6, Zenon DEF ReadEnv
    <3>2. Keeps(s, Refuse(s), FALSE)
      BY <2>1, RefuseKeeps
    <3>3. ReadLine(s, line) = ReadEnv(s, line)
      BY <1>5, <2>1
    <3> QED BY ONLY <3>1, <3>2, <3>3
  <2> QED BY ONLY <1>2, <1>3, <1>4, <1>6, <2>1, Zenon DEF Means
<1>7. CASE "" \notin DOMAIN e
  <2>1. EnvArgs(args) = {e}
    BY <1>3, <1>7, Zenon
  <2>2. EnvArgs(args) # {}
    BY ONLY <2>1
  <2>3. ASSUME NEW s, IsReading(s), s.ok = TRUE
        PROVE  Keeps(s, ReadLine(s, line), TRUE)
    <3>1. \E more : ReadEnv(s, line) = Read(s, more)
      BY <1>3, <2>2, Zenon DEF ReadEnv
    <3>2. \A more : Keeps(s, Read(s, more), TRUE)
      BY <2>3, ReadKeeps
    <3>3. ReadLine(s, line) = ReadEnv(s, line)
      BY <1>5, <2>3
    <3> QED BY ONLY <3>1, <3>2, <3>3
  <2>4. ASSUME NEW stage PROVE LineDoes(stage, line) = StepDoes(stage, inst)
    <3>1. LineDoes(stage, line) =
            [stage EXCEPT !.envs = Setting(args, @)[Pairs(args)]]
      BY DEF LineDoes
    <3>2. StepDoes(stage, inst) = [stage EXCEPT !.envs = Over(e, stage.envs)]
      BY EnvDoes
    <3>3. Setting(args, stage.envs)[Pairs(args)] = Over(e, stage.envs)
      <4>1. \E f : /\ EnvArgs(args) = {f}
                   /\ \A envs : Setting(args, envs)[Pairs(args)]
                                  = Over(f, envs)
        <5> HIDE DEF args
        <5> QED BY ONLY <1>3, <2>2, EnvIs
      <4> HIDE DEF args
      <4>2. PICK f : /\ EnvArgs(args) = {f}
                     /\ \A envs : Setting(args, envs)[Pairs(args)]
                                    = Over(f, envs)
        BY ONLY <4>1
      <4>3. f = e
        BY ONLY <2>1, <4>2
      <4> QED BY ONLY <4>2, <4>3, Zenon
    <3> QED BY <3>1, <3>2, <3>3
  <2> QED BY ONLY <1>2, <1>3, <1>4, <1>7, <2>3, <2>4, Zenon DEF Means
<1> QED BY <1>6, <1>7

\* ... and ARG.
LEMMA ArgMeans ==
  ASSUME NEW inst, NEW line, NEW k, NEW v, NEW sign,
         inst.args = Assigns(k, v, sign), k # "",
         inst.type = "ARG", line.name = "ARG", line.args = <<k, v, sign>>
  PROVE  Means(inst, line)
<1> DEFINE list == Assignments(line.args)
<1>1. /\ Len(line.args) = 3 /\ line.args[1] = k /\ line.args[2] = v
      /\ line.args[3] = sign
  <2>1. line.args = <<k, v, sign>>
    OBVIOUS
  <2> QED BY ONLY <2>1
<1>2. Len(line.args) \in Nat
  BY ONLY <1>1
<1>3. ~Blank(inst)
  BY DEF Blank
<1>4. Len(list) = 1 /\ DOMAIN list = {1} /\ list[1] = Assigns(k, v, sign)
  <2> DEFINE args == line.args
  <2> DEFINE Of(i) == <<args[3 * i - 2]>>
                      \o IF args[3 * i] = "" THEN <<>> ELSE <<args[3 * i - 1]>>
  <2>1. list = [i \in 1 .. Len(args) \div 3 |-> Of(i)]
    BY Zenon DEF Assignments
  <2>2. Of(1) = Assigns(k, v, sign)
    <3>1. 3 * 1 - 2 = 1 /\ 3 * 1 - 1 = 2 /\ 3 * 1 = 3
      BY ONLY TRUE
    <3> QED BY ONLY <1>1, <3>1, Zenon DEF Assigns
  <2>3. Len(args) \div 3 = 1
    BY ONLY <1>1
  <2> HIDE DEF Of, args, list
  <2> QED BY ONLY <2>1, <2>2, <2>3
<1>5. list[1][1] = k
  <2>1. CASE sign = ""
    <3>1. list[1] = <<k>> \o <<>>
      BY <1>4, <2>1, Zenon DEF Assigns
    <3>2. IsSequence(<<k>>)
      BY ONLY OneIs
    <3>3. list[1] = <<k>>
      BY ONLY <3>1, <3>2, None
    <3> QED BY ONLY <3>3
  <2>2. CASE sign # ""
    <3>1. list[1] = <<k>> \o <<v>>
      BY <1>4, <2>2, Zenon DEF Assigns
    <3>2. list[1] = <<k, v>>
      BY ONLY <3>1, Two
    <3> QED BY ONLY <3>2
  <2> QED BY <2>1, <2>2
<1>6. ~(list = <<>> \/ \E i \in DOMAIN list : list[i][1] = "")
  <2>1. list # <<>>
    BY ONLY <1>4
  <2>2. \A i \in DOMAIN list : list[i][1] # ""
    BY ONLY <1>4, <1>5, k # ""
  <2> QED BY <2>1, <2>2
<1>7. ASSUME NEW s, IsReading(s), s.ok = TRUE
      PROVE  Keeps(s, ReadLine(s, line), TRUE)
  <2>1. ReadLine(s, line) = ReadArg(s, line)
    BY <1>7 DEF ReadLine, Single
  <2>2. \E more : ReadArg(s, line) = Read(s, more)
    BY <1>6, Zenon DEF ReadArg
  <2>3. \A more : Keeps(s, Read(s, more), TRUE)
    BY <1>7, ReadKeeps
  <2> QED BY ONLY <2>1, <2>2, <2>3
<1>8. ASSUME NEW stage, IsStage(stage)
      PROVE  LineDoes(stage, line) = StepDoes(stage, inst)
  <2> DEFINE whats == [i \in DOMAIN list |-> <<"ARG", list[i]>>]
  <2> DEFINE what == <<"ARG", inst.args>>
  <2>1. LineDoes(stage, line) = DoesEach(stage, whats, "")
    BY DEF LineDoes
  <2>2. StepDoes(stage, inst) = Does(stage, what, "")
    BY ArgDoes
  <2>3. Len(whats) = 1 /\ whats[1] = what
    <3>1. list[1] = inst.args
      BY ONLY <1>4, inst.args = Assigns(k, v, sign)
    <3>2. DOMAIN list = 1 .. 1
      BY ONLY <1>4
    <3> QED BY ONLY <3>1, <3>2
  <2> DEFINE none == ""
  <2> HIDE DEF whats, what, none
  <2>4. DoesEach(stage, whats, none) = Does(stage, what, none)
    BY ONLY <1>8, <2>3, DoesEachOne
  <2> QED BY <2>1, <2>2, <2>4, Zenon DEF none
<1>9. line.name # "FROM"
  OBVIOUS
<1> QED BY ONLY <1>2, <1>3, <1>7, <1>8, <1>9, Zenon DEF Means

\* So for every instruction there is.
LEMMA OutMeans ==
  ASSUME NEW inst, Formed(inst), ~OwnUser(inst), Verbatim(inst)
  PROVE  Means(inst, Out(inst))
<1> DEFINE line == Out(inst)
<1>0. \A x : Rendered(inst) = <<x>> => line = x
  <2>1. ASSUME NEW x, Rendered(inst) = <<x>> PROVE Rendered(inst)[1] = x
    BY ONLY <2>1
  <2> QED BY <2>1, Zenon DEF Out
<1> HIDE DEF line
<1>1. CASE RenderedOne(inst)
  <2>1. PICK a : inst.args = <<a>> /\ Rendered(inst)
                                        = <<Line(inst.type, Word(a))>>
    BY <1>1, Zenon DEF RenderedOne
  <2>2. line = Line(inst.type, Word(a))
    BY <1>0, <2>1, Zenon
  <2>3. line.name = inst.type /\ line.args = Word(a)
    BY ONLY <2>2, LineHas
  <2>4. inst.type \in {"RUN", "WORKDIR", "USER"}
    BY <1>1, Zenon DEF RenderedOne
  <2> QED BY ONLY <2>1, <2>3, <2>4, OneMeans DEF line
<1>2. CASE RenderedCopy(inst)
  <2>1. PICK s, d : /\ inst.args = <<s, d>>
                    /\ Rendered(inst) = <<Line("COPY", Word(s) \o Word(d))>>
    BY <1>2, Zenon DEF RenderedCopy
  <2>2. line = Line("COPY", Word(s) \o Word(d))
    BY <1>0, <2>1, Zenon
  <2>3. /\ line.name = "COPY" /\ line.args = Word(s) \o Word(d)
        /\ line.chown = ""
    BY ONLY <2>2, LineHas
  <2>4. inst.type = "COPY"
    BY <1>2, Zenon DEF RenderedCopy
  <2> QED BY ONLY <2>1, <2>3, <2>4, CopyMeans DEF line
<1>3. CASE RenderedEnv(inst)
  <2>1. PICK e : /\ inst.args = <<e>> /\ IsEnvs(e) /\ DOMAIN e # {}
                 /\ Values(e) /\ Rendered(inst) = EnvLine(e)
    BY <1>3, Zenon DEF RenderedEnv
  <2> DEFINE words == EnvWords(e)
  <2>2. line = Line("ENV", words)
    <3>1. EnvLine(e) = <<Line("ENV", words)>>
      BY ONLY <2>1, EnvLineIs
    <3> QED BY <1>0, <2>1, <3>1, Zenon
  <2>3. line.name = "ENV" /\ line.args = words
    <3> HIDE DEF words
    <3> QED BY ONLY <2>2, LineHas
  <2>4. inst.type = "ENV"
    BY <1>3, Zenon DEF RenderedEnv
  <2> QED BY ONLY <2>1, <2>3, <2>4, EnvMeans DEF line
<1>4. CASE RenderedArg(inst)
  <2>1. PICK k, v, sign : /\ inst.args = Assigns(k, v, sign) /\ k # ""
                          /\ Rendered(inst) = <<Line("ARG", <<k, v, sign>>)>>
    BY <1>4, Zenon DEF RenderedArg
  <2>2. line = Line("ARG", <<k, v, sign>>)
    BY <1>0, <2>1, Zenon
  <2>3. line.name = "ARG" /\ line.args = <<k, v, sign>>
    BY ONLY <2>2, LineHas
  <2>4. inst.type = "ARG"
    BY <1>4, Zenon DEF RenderedArg
  <2> QED BY ONLY <2>1, <2>3, <2>4, ArgMeans DEF line
<1> QED BY <1>1, <1>2, <1>3, <1>4, Renders

-----------------------------------------------------------------------------
(* The Dockerfile of a builder.                                             *)

\* What of a builder can be rendered line by line.
Simple(builder) ==
  /\ Good(builder)
  /\ \A k \in 1 .. Len(builder.instructions) :
       ~OwnUser(builder.instructions[k]) /\ Verbatim(builder.instructions[k])
  /\ IsOneWord(builder.baseImage) /\ IsOneLine(builder.startCmd)

LEMMA IsSimple ==
  ASSUME NEW builder, Good(builder), ~HasOwnUser(builder),
         IsVerbatim(builder)
  PROVE  Simple(builder)
<1> DEFINE insts == builder.instructions
<1>1. DOMAIN insts = 1 .. Len(insts)
  <2>1. IsSequence(insts)
    BY DEF Good, IsBuilder
  <2> HIDE DEF insts
  <2> QED BY <2>1 DEF IsSequence
<1>2. \A k \in DOMAIN insts : ~OwnUser(insts[k]) /\ Verbatim(insts[k])
  BY Zenon DEF HasOwnUser, OwnUser, IsVerbatim
<1> HIDE DEF insts
<1>3. \A k \in 1 .. Len(insts) : ~OwnUser(insts[k]) /\ Verbatim(insts[k])
  BY <1>1, <1>2
<1> QED BY <1>3, Zenon DEF Simple, IsVerbatim, insts

\* It starts from an image, as one must that is rendered.
HasImage(builder) == builder.baseTemplate = "" /\ builder.baseImage # ""

LEMMA FileOk ==
  ASSUME NEW builder
  PROVE  ToDockerfile(builder).ok <=> HasImage(builder)
<1> DEFINE bad == builder.baseTemplate # "" \/ builder.baseImage = ""
<1> DEFINE lines == OneWord("FROM", builder.baseImage) \o Written(builder)
                    \o (IF builder.startCmd = "" THEN <<>>
                        ELSE WholeLine("ENTRYPOINT", builder.startCmd))
<1>1. ToDockerfile(builder) = IF bad THEN [ok |-> FALSE, lines |-> <<>>]
                              ELSE [ok |-> TRUE, lines |-> lines]
  BY Zenon DEF ToDockerfile
<1>2. HasImage(builder) <=> ~bad
  BY Zenon DEF HasImage
<1> DEFINE none == <<>>
<1> HIDE DEF bad, lines, none
<1>3. ToDockerfile(builder).ok <=> ~bad
  BY ONLY <1>1
<1> QED BY <1>2, <1>3

\* FROM, a line for each instruction, and the command to start if there is one.
Starts(builder, lines, n) ==
  /\ builder.startCmd # "" /\ Len(lines) = n + 2
  /\ lines[n + 2] = Line("ENTRYPOINT", <<builder.startCmd>>)
Lines(builder, lines) ==
  LET n == Len(builder.instructions) IN
  /\ n \in Nat
  /\ \/ builder.startCmd = "" /\ Len(lines) = n + 1
     \/ Starts(builder, lines, n)
  /\ lines[1] = Line("FROM", <<builder.baseImage>>)
  /\ \A k \in 1 .. n : lines[k + 1] = Out(builder.instructions[k])

LEMMA FileLines ==
  ASSUME NEW builder, Simple(builder), HasImage(builder)
  PROVE  Lines(builder, ToDockerfile(builder).lines)
<1> DEFINE insts == builder.instructions
<1> DEFINE n == Len(insts)
<1> DEFINE from == Line("FROM", <<builder.baseImage>>)
<1> DEFINE start == Line("ENTRYPOINT", <<builder.startCmd>>)
<1> DEFINE head == <<from>>
<1> DEFINE all == Written(builder)
<1> DEFINE tail == IF builder.startCmd = "" THEN <<>> ELSE <<start>>
<1> DEFINE file == (head \o all) \o tail
<1>1. ToDockerfile(builder).lines = file
  <2>1. ~(builder.baseTemplate # "" \/ builder.baseImage = "")
    BY Zenon DEF HasImage
  <2>2. OneWord("FROM", builder.baseImage) = head
    <3>1. Word(builder.baseImage) = <<builder.baseImage>>
      BY <2>1, Zenon DEF Word
    <3>2. IsOneWord(builder.baseImage)
      BY Zenon DEF Simple
    <3> QED BY <3>1, <3>2, OneWordIs, Zenon
  <2>3. (IF builder.startCmd = "" THEN <<>>
         ELSE WholeLine("ENTRYPOINT", builder.startCmd)) = tail
    <3>1. CASE builder.startCmd = ""
      BY <3>1, Zenon
    <3>2. CASE builder.startCmd # ""
      <4>1. Word(builder.startCmd) = <<builder.startCmd>>
        BY <3>2, Zenon DEF Word
      <4>2. IsOneLine(builder.startCmd)
        BY Zenon DEF Simple
      <4>3. WholeLine("ENTRYPOINT", builder.startCmd) = <<start>>
        BY <4>1, <4>2, WholeLineIs, Zenon
      <4> QED BY <3>2, <4>3, Zenon
    <3> QED BY <3>1, <3>2
  <2>4. ToDockerfile(builder) =
          [ok |-> TRUE,
           lines |-> OneWord("FROM", builder.baseImage) \o Written(builder)
                     \o (IF builder.startCmd = "" THEN <<>>
                         ELSE WholeLine("ENTRYPOINT", builder.startCmd))]
    BY <2>1, Zenon DEF ToDockerfile
  <2>5. ToDockerfile(builder) = [ok |-> TRUE, lines |-> file]
    BY <2>2, <2>3, <2>4, Zenon
  <2> HIDE DEF file
  <2> QED BY ONLY <2>5
<1>2. n \in Nat
  BY DEF Simple, Good, IsBuilder, IsSequence
<1>3. /\ IsSequence(all) /\ Len(all) = n
      /\ \A k \in 1 .. n : all[k] = Out(insts[k])
  <2>1. \A k \in 1 .. Len(insts) : AsOne(insts[k])
    <3>1. ASSUME NEW k \in 1 .. Len(insts) PROVE AsOne(insts[k])
      <4>1. Formed(insts[k]) /\ ~OwnUser(insts[k]) /\ Verbatim(insts[k])
        BY DEF Simple, Good, AllFormed
      <4> QED BY <4>1, RendersOne
    <3> QED BY <3>1
  <2>2. all = Writing(insts)[n]
    BY Zenon DEF Written
  <2> HIDE DEF insts
  <2>3. /\ IsSequence(Writing(insts)[n]) /\ Len(Writing(insts)[n]) = n
        /\ \A k \in 1 .. n : Writing(insts)[n][k] = Out(insts[k])
    BY ONLY <1>2, <2>1, WrittenIs
  <2> QED BY ONLY <2>2, <2>3, Zenon
<1> HIDE DEF all
<1>4. IsSequence(head) /\ Len(head) = 1 /\ head[1] = from
  BY ONLY OneIs
<1>5. /\ IsSequence(tail)
      /\ \/ builder.startCmd = "" /\ Len(tail) = 0
         \/ builder.startCmd # "" /\ Len(tail) = 1 /\ tail[1] = start
  <2>1. CASE builder.startCmd = ""
    <3>1. tail = <<>>
      BY <2>1, Zenon
    <3>2. IsSequence(<<>>) /\ Len(<<>>) = 0
      BY ONLY TRUE DEF IsSequence
    <3> HIDE DEF tail
    <3> QED BY ONLY <2>1, <3>1, <3>2, Zenon
  <2>2. CASE builder.startCmd # ""
    <3>1. tail = <<start>>
      BY <2>2, Zenon
    <3>2. IsSequence(<<start>>) /\ Len(<<start>>) = 1 /\ <<start>>[1] = start
      BY ONLY OneIs
    <3> HIDE DEF tail, start
    <3> QED BY ONLY <2>2, <3>1, <3>2, Zenon
  <2> QED BY ONLY <2>1, <2>2
<1> HIDE DEF from, start, head, tail
<1> DEFINE most == head \o all
<1>6. /\ IsSequence(most) /\ Len(most) = Len(head) + Len(all)
      /\ \A k \in 1 .. Len(head) : most[k] = head[k]
      /\ \A k \in 1 .. Len(all) : most[Len(head) + k] = all[k]
  <2>1. IsSequence(head) /\ IsSequence(all)
    BY ONLY <1>3, <1>4
  <2> QED BY ONLY <2>1, Joined
<1> HIDE DEF most
<1>7. /\ IsSequence(most) /\ Len(most) = n + 1 /\ most[1] = from
      /\ \A k \in 1 .. n : most[k + 1] = Out(insts[k])
  <2> HIDE DEF insts
  <2>1. Len(most) = n + 1 /\ most[1] = from
    BY ONLY <1>2, <1>3, <1>4, <1>6
  <2>2. ASSUME NEW k \in 1 .. n PROVE most[k + 1] = Out(insts[k])
    <3>1. most[1 + k] = all[k] /\ 1 + k = k + 1
      BY ONLY <1>2, <1>3, <1>4, <1>6, <2>2
    <3>2. all[k] = Out(insts[k])
      BY ONLY <1>3, <2>2
    <3> QED BY ONLY <3>1, <3>2
  <2> QED BY ONLY <1>6, <2>1, <2>2
<1> DEFINE lines == most \o tail
<1>8. /\ IsSequence(lines) /\ Len(lines) = Len(most) + Len(tail)
      /\ \A k \in 1 .. Len(most) : lines[k] = most[k]
      /\ \A k \in 1 .. Len(tail) : lines[Len(most) + k] = tail[k]
  <2>1. IsSequence(most) /\ IsSequence(tail)
    BY ONLY <1>5, <1>7
  <2> QED BY ONLY <2>1, Joined
<1> HIDE DEF lines
<1>9. \/ builder.startCmd = "" /\ Len(lines) = n + 1
      \/ Starts(builder, lines, n)
  <2>1. CASE builder.startCmd = "" /\ Len(tail) = 0
    <3>1. Len(tail) = 0 /\ Len(most) = n + 1
          /\ Len(lines) = Len(most) + Len(tail)
      BY ONLY <1>7, <1>8, <2>1
    <3>2. Len(lines) = n + 1
      <4> HIDE DEF insts
      <4> QED BY ONLY <1>2, <3>1
    <3> QED BY ONLY <2>1, <3>2
  <2>2. CASE builder.startCmd # "" /\ Len(tail) = 1 /\ tail[1] = start
    <3>1. Len(tail) = 1 /\ tail[1] = start /\ Len(most) = n + 1
          /\ Len(lines) = Len(most) + Len(tail)
          /\ \A k \in 1 .. Len(tail) : lines[Len(most) + k] = tail[k]
      BY ONLY <1>7, <1>8, <2>2
    <3>2. Len(lines) = n + 2 /\ lines[n + 2] = start
      <4>1. (n + 1) + 1 = n + 2 /\ 1 \in 1 .. 1
        BY ONLY <1>2
      <4> QED BY ONLY <3>1, <4>1, Zenon
    <3>3. builder.startCmd # ""
      BY ONLY <2>2
    <3> QED BY ONLY <3>2, <3>3, Zenon DEF Starts, start
  <2> QED BY ONLY <1>5, <2>1, <2>2
<1>10. lines[1] = from /\ \A k \in 1 .. n : lines[k + 1] = Out(insts[k])
  <2>1. 1 \in 1 .. n + 1 /\ \A k \in 1 .. n : k + 1 \in 1 .. n + 1
    BY ONLY <1>2
  <2> QED BY ONLY <1>7, <1>8, <2>1, Zenon
<1>12. ToDockerfile(builder).lines = lines
  BY <1>1, Zenon DEF lines, most, file
<1>13. Lines(builder, lines)
  BY <1>2, <1>9, <1>10, Zenon DEF Lines, from, insts
<1> QED
  BY <1>12, <1>13, Zenon

\* What each of these lines is.
IsFrom(line, image) == line.name = "FROM" /\ line.args = <<image>>
IsStart(line, cmd) == line.name = "ENTRYPOINT" /\ line.args = <<cmd>>
LinesMean(builder, lines) ==
  LET n == Len(builder.instructions) IN
  /\ n \in Nat
  /\ IsFrom(lines[1], builder.baseImage)
  /\ \A k \in 1 .. n : Means(builder.instructions[k], lines[k + 1])
  /\ \/ builder.startCmd = "" /\ Len(lines) = n + 1
     \/ /\ builder.startCmd # "" /\ Len(lines) = n + 2
        /\ IsStart(lines[n + 2], builder.startCmd)

LEMMA LinesDo ==
  ASSUME NEW builder, Simple(builder), NEW lines, Lines(builder, lines)
  PROVE  LinesMean(builder, lines)
<1> DEFINE insts == builder.instructions
<1> DEFINE n == Len(insts)
<1>1. ASSUME NEW k \in 1 .. n PROVE Means(insts[k], lines[k + 1])
  <2>1. Formed(insts[k]) /\ ~OwnUser(insts[k]) /\ Verbatim(insts[k])
    BY <1>1 DEF Simple, Good, AllFormed
  <2>2. Means(insts[k], Out(insts[k]))
    BY ONLY <2>1, OutMeans
  <2>3. lines[k + 1] = Out(insts[k])
    BY <1>1, Zenon DEF Lines
  <2> QED BY ONLY <2>2, <2>3, Zenon
<1>2. IsFrom(lines[1], builder.baseImage)
  <2> DEFINE line == lines[1]
  <2> DEFINE args == <<builder.baseImage>>
  <2>1. line = Line("FROM", args)
    BY Zenon DEF Lines
  <2> HIDE DEF args, line
  <2>2. line.name = "FROM" /\ line.args = args
    BY ONLY <2>1, LineIs
  <2> QED BY ONLY <2>2, Zenon DEF IsFrom, args, line
<1>3. ASSUME Starts(builder, lines, n)
      PROVE  /\ builder.startCmd # "" /\ Len(lines) = n + 2
             /\ IsStart(lines[n + 2], builder.startCmd)
  <2> DEFINE args == <<builder.startCmd>>
  <2>1. lines[n + 2] = Line("ENTRYPOINT", args)
    BY <1>3, Zenon DEF Starts
  <2> HIDE DEF args
  <2>2. lines[n + 2].name = "ENTRYPOINT" /\ lines[n + 2].args = args
    BY ONLY <2>1, LineIs, Zenon
  <2>3. IsStart(lines[n + 2], builder.startCmd)
    BY ONLY <2>2, Zenon DEF IsStart, args
  <2> QED BY ONLY <1>3, <2>3, Zenon DEF Starts
<1>4. n \in Nat /\ (\/ builder.startCmd = "" /\ Len(lines) = n + 1
                    \/ Starts(builder, lines, n))
  BY Zenon DEF Lines
<1>5. \/ builder.startCmd = "" /\ Len(lines) = n + 1
      \/ /\ builder.startCmd # "" /\ Len(lines) = n + 2
         /\ IsStart(lines[n + 2], builder.startCmd)
  BY ONLY <1>3, <1>4, Zenon
<1>6. \A k \in 1 .. n : Means(insts[k], lines[k + 1])
  BY ONLY <1>1
<1> QED BY <1>2, <1>4, <1>5, <1>6, Zenon DEF LinesMean

LEMMA LinesAre ==
  ASSUME NEW builder, NEW lines, LinesMean(builder, lines)
  PROVE  /\ Readable(lines)
         /\ \A j \in 1 .. Len(lines) : lines[j].name = "FROM" => j = 1
<1> DEFINE insts == builder.instructions
<1> DEFINE n == Len(insts)
<1>1. n \in Nat
  BY Zenon DEF LinesMean
<1>2. \A k \in 1 .. n : Means(insts[k], lines[k + 1])
  BY Zenon DEF LinesMean
<1>3. lines[1].args = <<builder.baseImage>>
  BY Zenon DEF LinesMean, IsFrom
<1>4. Len(lines) = n + 1 \/ Len(lines) = n + 2
  BY Zenon DEF LinesMean
<1>5. Len(lines) = n + 2 =>
        /\ lines[n + 2].args = <<builder.startCmd>>
        /\ lines[n + 2].name = "ENTRYPOINT"
  <2>1. n + 1 # n + 2
    BY ONLY <1>1
  <2> QED BY <2>1, Zenon DEF LinesMean, IsStart
<1> HIDE DEF insts, n
<1>6. ASSUME NEW j \in 1 .. Len(lines)
      PROVE  /\ Len(lines[j].args) \in Nat
             /\ lines[j].name = "FROM" => j = 1
  <2>1. CASE j = 1
    <3>1. Len(lines[1].args) = 1
      BY ONLY <1>3
    <3>2. Len(lines[1].args) \in Nat
      BY ONLY <3>1
    <3> QED BY ONLY <2>1, <3>2
  <2>2. CASE j \in 2 .. n + 1
    <3>1. j - 1 \in 1 .. n /\ (j - 1) + 1 = j
      BY ONLY <1>1, <2>2
    <3>2. Means(insts[j - 1], lines[(j - 1) + 1])
      BY ONLY <1>2, <3>1
    <3>3. Means(insts[j - 1], lines[j])
      BY ONLY <3>1, <3>2, Zenon
    <3> QED BY ONLY <3>3, Zenon DEF Means
  <2>3. CASE j = n + 2
    <3>1. Len(lines) = n + 2
      BY ONLY <1>1, <1>4, <1>6, <2>3
    <3>2. lines[j].args = <<builder.startCmd>> /\ lines[j].name = "ENTRYPOINT"
      BY ONLY <1>5, <2>3, <3>1, Zenon
    <3>3. Len(lines[j].args) = 1
      BY ONLY <3>2
    <3>4. Len(lines[j].args) \in Nat
      BY ONLY <3>3
    <3>5. lines[j].name # "FROM"
      BY ONLY <3>2
    <3> QED BY ONLY <3>4, <3>5
  <2>4. j = 1 \/ j \in 2 .. n + 1 \/ j = n + 2
    BY ONLY <1>1, <1>4, <1>6
  <2> QED BY ONLY <2>1, <2>2, <2>3, <2>4
<1>7. Len(lines) \in Nat
  BY ONLY <1>1, <1>4
<1>8. Readable(lines)
  BY ONLY <1>6, <1>7, Zenon DEF Readable
<1>9. \A j \in 1 .. Len(lines) : lines[j].name = "FROM" => j = 1
  BY ONLY <1>6
<1> QED BY ONLY <1>8, <1>9

\* A step leaves the command to start alone.
LEMMA StepStage ==
  ASSUME NEW stage, NEW inst, IsStage(stage)
  PROVE  LET more == StepDoes(stage, inst)
         IN IsStage(more) /\ more.start = stage.start
<1> DEFINE Same(more) == IsStage(more) /\ more.start = stage.start
<1>1. ASSUME NEW what, NEW user PROVE Same(Does(stage, what, user))
  BY DoesStage
<1>2. ASSUME NEW e PROVE Same([stage EXCEPT !.envs = Over(e, @)])
  BY DEF IsStage
<1>3. ASSUME NEW a
      PROVE  Same([stage EXCEPT !.dir = a]) /\ Same([stage EXCEPT !.user = a])
  BY DEF IsStage
<1> HIDE DEF Same
<1>4. Same(StepDoes(stage, inst))
  <2>1. CASE inst.type = "RUN"
    BY <1>1, <2>1 DEF StepDoes
  <2>2. CASE inst.type = "COPY"
    BY <1>1, <2>2 DEF StepDoes
  <2>3. CASE inst.type = "ENV"
    BY <1>2, <2>3 DEF StepDoes
  <2>4. CASE inst.type = "WORKDIR"
    BY <1>3, <2>4 DEF StepDoes
  <2>5. CASE inst.type = "USER"
    BY <1>3, <2>5 DEF StepDoes
  <2>6. CASE inst.type \notin {"RUN", "COPY", "ENV", "WORKDIR", "USER"}
    <3>1. StepDoes(stage, inst) = Does(stage, <<inst.type, inst.args>>, "")
      BY <2>6 DEF StepDoes
    <3> QED BY <1>1, <3>1
  <2> QED BY <2>1, <2>2, <2>3, <2>4, <2>5, <2>6
<1> QED BY <1>4 DEF Same

\* Nothing of it is blank.
NoBlank(builder) ==
  \A k \in 1 .. Len(builder.instructions) : ~Blank(builder.instructions[k])

LEMMA HasNoBlank ==
  ASSUME NEW builder, Good(builder)
  PROVE  HasBlank(builder) <=> ~NoBlank(builder)
<1> DEFINE insts == builder.instructions
<1>1. DOMAIN insts = 1 .. Len(insts)
  <2>1. IsSequence(insts)
    BY DEF Good, IsBuilder
  <2> HIDE DEF insts
  <2> QED BY <2>1 DEF IsSequence
<1>2. HasBlank(builder) <=> \E k \in DOMAIN insts : Blank(insts[k])
  BY Zenon DEF HasBlank
<1>3. NoBlank(builder) <=> \A k \in 1 .. Len(insts) : ~Blank(insts[k])
  BY Zenon DEF NoBlank
<1> HIDE DEF insts
<1> QED BY ONLY <1>1, <1>2, <1>3

\* A Dockerfile says what the builder it is written for does.
LEMMA FileDoes ==
  ASSUME NEW builder, NEW lines, Simple(builder), LinesMean(builder, lines),
         NoBlank(builder)
  PROVE  Meaning(lines) = Effect(builder)
<1> DEFINE insts == builder.instructions
<1> DEFINE n == Len(insts)
<1> DEFINE doing == Doing(insts)
<1> DEFINE saying == Saying(lines)
<1> DEFINE Is(i) == /\ IsStage(doing[i]) /\ doing[i].start = ""
                    /\ saying[i + 1] = doing[i]
<1> DEFINE T == {i \in Nat : i <= n => Is(i)}
<1>1. n \in Nat /\ (Len(lines) = n + 1 \/ Len(lines) = n + 2)
  BY Zenon DEF LinesMean
<1>2. Len(lines) \in Nat
  <2> HIDE DEF insts
  <2> QED BY ONLY <1>1
<1>3. /\ doing[0] = Stage
      /\ \A i \in 1 .. n : doing[i] = StepDoes(doing[i - 1], insts[i])
  BY <1>1, DoingSteps
<1>4. /\ saying[0] = Stage
      /\ \A i \in 1 .. Len(lines) : saying[i] = LineDoes(saying[i - 1], lines[i])
  BY <1>2, SayingSteps
<1>5. LineDoes(Stage, lines[1]) = Stage
  <2> DEFINE line == lines[1]
  <2>1. line.name = "FROM"
    BY Zenon DEF LinesMean, IsFrom
  <2> HIDE DEF line
  <2>2. LineDoes(Stage, line) = Stage
    BY ONLY <2>1 DEF LineDoes
  <2> QED BY <2>2 DEF line
<1>6. ASSUME NEW k \in 1 .. n, NEW stage, IsStage(stage)
      PROVE  LineDoes(stage, lines[k + 1]) = StepDoes(stage, insts[k])
  <2>1. Means(insts[k], lines[k + 1]) /\ ~Blank(insts[k])
    BY <1>6, Zenon DEF LinesMean, NoBlank
  <2> QED BY ONLY <1>6, <2>1, Zenon DEF Means
<1>7. IsStage(Stage) /\ Stage.start = ""
  <2> DEFINE none == <<>>
  <2>1. Stage = [done |-> none, user |-> "", dir |-> "", envs |-> none,
                 start |-> ""]
    BY DEF Stage
  <2>2. IsSequence(none)
    BY DEF IsSequence
  <2> HIDE DEF none
  <2> QED BY ONLY <2>1, <2>2 DEF IsStage
<1> HIDE DEF insts, doing, saying
<1>8. 0 \in T
  <2>1. 1 \in 1 .. Len(lines) /\ 1 - 1 = 0 /\ 0 + 1 = 1
    BY ONLY <1>1
  <2>2. saying[1] = LineDoes(saying[1 - 1], lines[1])
    BY ONLY <1>4, <2>1, Zenon
  <2>3. saying[0 + 1] = doing[0]
    BY ONLY <1>3, <1>4, <1>5, <2>1, <2>2, Zenon
  <2>4. Is(0)
    BY ONLY <1>3, <1>7, <2>3, Zenon
  <2> HIDE DEF Is
  <2> QED BY ONLY <2>4
<1>9. \A i \in Nat : i \in T => i + 1 \in T
  <2> TAKE i \in Nat
  <2> HAVE i \in T
  <2>1. ASSUME i + 1 <= n PROVE Is(i + 1)
    <3>1. /\ i + 1 \in 1 .. n /\ (i + 1) - 1 = i /\ i <= n
          /\ (i + 1) + 1 \in 1 .. Len(lines) /\ ((i + 1) + 1) - 1 = i + 1
      BY ONLY <1>1, <2>1, i \in Nat
    <3>2. Is(i)
      <4> HIDE DEF Is
      <4> QED BY <3>1
    <3>3. doing[i + 1] = StepDoes(doing[i], insts[i + 1])
      BY ONLY <1>3, <3>1, Zenon
    <3>4. saying[(i + 1) + 1] = LineDoes(saying[i + 1], lines[(i + 1) + 1])
      BY ONLY <1>4, <3>1, Zenon
    <3>5. IsStage(doing[i + 1]) /\ doing[i + 1].start = ""
      <4>1. IsStage(doing[i + 1]) /\ doing[i + 1].start = doing[i].start
        BY ONLY <3>2, <3>3, StepStage, Zenon
      <4> QED BY ONLY <3>2, <4>1, Zenon
    <3>6. saying[(i + 1) + 1] = doing[i + 1]
      BY ONLY <1>6, <3>1, <3>2, <3>3, <3>4, Zenon
    <3> QED BY ONLY <3>5, <3>6, Zenon
  <2> HIDE DEF Is
  <2> QED BY ONLY <2>1, i \in Nat
<1>10. IsStage(doing[n]) /\ doing[n].start = "" /\ saying[n + 1] = doing[n]
  <2> HIDE DEF T
  <2>1. n \in T
    BY ONLY <1>1, <1>8, <1>9, SetInduction
  <2> HIDE DEF Is
  <2>2. n <= n
    BY ONLY <1>1
  <2>3. Is(n)
    BY ONLY <2>1, <2>2 DEF T
  <2> QED BY ONLY <2>3, Zenon DEF Is
<1>11. Effect(builder) = [doing[n] EXCEPT !.start = builder.startCmd]
  <2>1. IsSequence(insts) /\ \A k \in 1 .. n : insts[k].type \in Buildable
    <3>1. IsSequence(insts)
      BY DEF Simple, Good, IsBuilder, insts
    <3>2. ASSUME NEW k \in 1 .. n PROVE insts[k].type \in Buildable
      <4>1. Formed(insts[k])
        BY <3>2, Zenon DEF Simple, Good, AllFormed, insts
      <4> QED BY ONLY <4>1 DEF Formed, FormedAs, Buildable
    <3> QED BY ONLY <3>1, <3>2
  <2>2. Kept(insts)[n] = insts
    BY ONLY <2>1, AllKept
  <2>3. Steps(builder) = insts
    BY <2>2, Zenon DEF Steps, insts
  <2> QED BY <2>3, Zenon DEF Effect, doing
<1> DEFINE end == doing[n]
<1>12. CASE builder.startCmd = "" /\ Len(lines) = n + 1
  <2>1. saying[Len(lines)] = end
    BY ONLY <1>10, <1>12, Zenon
  <2>2. IsStage(end) /\ end.start = ""
    BY ONLY <1>10
  <2> HIDE DEF end
  <2>3. [end EXCEPT !.start = ""] = end
    BY ONLY <2>2 DEF IsStage
  <2> QED BY ONLY <1>11, <1>12, <2>1, <2>3, Zenon DEF Meaning, saying, end
<1>13. CASE /\ Len(lines) = n + 2
            /\ IsStart(lines[n + 2], builder.startCmd)
  <2>1. n + 2 \in 1 .. Len(lines) /\ (n + 2) - 1 = n + 1
    <3>1. Len(lines) = n + 2
      BY ONLY <1>13
    <3> QED BY ONLY <1>1, <3>1
  <2>2. saying[n + 2] = LineDoes(end, lines[n + 2])
    BY ONLY <1>4, <1>10, <2>1, Zenon
  <2> DEFINE line == lines[n + 2]
  <2>3. line.name = "ENTRYPOINT" /\ line.args = <<builder.startCmd>>
    BY ONLY <1>13, Zenon DEF IsStart
  <2> HIDE DEF line, end
  <2>4. line.args[1] = builder.startCmd
    BY ONLY <2>3
  <2>5. line.name = "ENTRYPOINT"
    BY ONLY <2>3
  <2>6. LineDoes(end, line) = [end EXCEPT !.start = line.args[1]]
    BY ONLY <2>5 DEF LineDoes
  <2>7. Len(lines) = n + 2
    BY ONLY <1>13
  <2> QED
    BY ONLY <1>11, <2>2, <2>4, <2>6, <2>7, Zenon DEF Meaning, saying, line, end
<1> QED BY <1>12, <1>13, Zenon DEF LinesMean, insts

\* A Dockerfile is accepted when nothing of the builder it is written for is
\* blank.
LEMMA FileReads ==
  ASSUME NEW builder, NEW lines, LinesMean(builder, lines)
  PROVE  Parse(lines).ok <=> NoBlank(builder)
<1> DEFINE insts == builder.instructions
<1> DEFINE n == Len(insts)
<1> DEFINE reading == Readings(lines)
<1> DEFINE Full(i) == \A k \in 1 .. i : ~Blank(insts[k])
<1> DEFINE At(s, i) == /\ IsReading(s) /\ s.seenFrom = TRUE
                       /\ (Full(i) /\ s.ok = TRUE) \/ (~Full(i) /\ s.ok = FALSE)
<1> DEFINE T == {i \in Nat : i <= n => At(reading[i + 1], i)}
<1>1. n \in Nat /\ (Len(lines) = n + 1 \/ Len(lines) = n + 2)
  BY Zenon DEF LinesMean
<1>2. Len(lines) \in Nat
  <2> HIDE DEF insts
  <2> QED BY ONLY <1>1
<1>3. /\ reading[0] = Reading
      /\ \A i \in 1 .. Len(lines) :
           reading[i] = ReadLine(reading[i - 1], lines[i])
  BY <1>2, ReadingSteps
<1>4. ASSUME NEW s, s.ok = FALSE, NEW line PROVE ReadLine(s, line) = s
  BY <1>4, Zenon DEF ReadLine
<1>5. ASSUME NEW k \in 1 .. n, NEW s, IsReading(s), s.ok = TRUE
      PROVE  /\ ~Blank(insts[k]) => Keeps(s, ReadLine(s, lines[k + 1]), TRUE)
             /\ Blank(insts[k]) => Keeps(s, ReadLine(s, lines[k + 1]), FALSE)
  <2>1. Means(insts[k], lines[k + 1])
    BY <1>5, Zenon DEF LinesMean
  <2> QED BY ONLY <1>5, <2>1, Zenon DEF Means
<1>6. LET s == ReadLine(Reading, lines[1])
      IN IsReading(s) /\ s.seenFrom = TRUE /\ s.ok = TRUE
  <2> DEFINE line == lines[1]
  <2>1. line.name = "FROM" /\ line.args = <<builder.baseImage>>
    BY Zenon DEF LinesMean, IsFrom
  <2> HIDE DEF line
  <2>2. Len(line.args) = 1 /\ line.name = "FROM"
    BY ONLY <2>1
  <2> DEFINE r == Reading
  <2>3. r = [builder |-> New(""), seenFrom |-> FALSE, ok |-> TRUE]
    BY DEF Reading
  <2> HIDE DEF r
  <2>4. r.ok = TRUE /\ r.seenFrom = FALSE /\ IsReading(r)
    BY ONLY <2>3 DEF IsReading
  <2>5. ReadLine(r, line) = ReadFrom(r, line)
    <3>1. line.name = "FROM" /\ r.ok = TRUE
      BY ONLY <2>2, <2>4
    <3> HIDE DEF r
    <3> QED BY ONLY <3>1 DEF ReadLine, Single
  <2> DEFINE more == IF line.args[1] = "base" THEN FromBaseImage(r.builder)
                     ELSE FromImageWithAuth(r.builder, line.args[1], "")
  <2> DEFINE t == [r EXCEPT !.seenFrom = TRUE, !.builder = more]
  <2>6. ReadFrom(r, line) = t
    BY ONLY <2>2, <2>4, Zenon DEF ReadFrom
  <2> HIDE DEF more
  <2>7. IsReading(t) /\ t.seenFrom = TRUE /\ t.ok = TRUE
    <3>1. t = [r EXCEPT !.seenFrom = TRUE, !.builder = more]
      BY ONLY TRUE
    <3> HIDE DEF t
    <3> QED BY ONLY <2>4, <3>1 DEF IsReading
  <2> HIDE DEF t
  <2> QED BY ONLY <2>5, <2>6, <2>7, Zenon DEF r, line
<1> HIDE DEF insts, reading
<1>7. 0 \in T
  <2>1. 1 \in 1 .. Len(lines) /\ 1 - 1 = 0 /\ 0 + 1 = 1
    BY ONLY <1>1
  <2>2. reading[0 + 1] = ReadLine(Reading, lines[1])
    BY ONLY <1>3, <2>1, Zenon
  <2>3. Full(0)
    BY ONLY TRUE
  <2> HIDE DEF Full
  <2>4. At(reading[0 + 1], 0)
    BY ONLY <1>6, <2>2, <2>3, Zenon
  <2> HIDE DEF At
  <2> QED BY ONLY <2>4
<1>8. \A i \in Nat : i \in T => i + 1 \in T
  <2> TAKE i \in Nat
  <2> HAVE i \in T
  <2>1. ASSUME i + 1 <= n PROVE At(reading[(i + 1) + 1], i + 1)
    <3>1. /\ i + 1 \in 1 .. n /\ (i + 1) - 1 = i /\ i <= n
          /\ (i + 1) + 1 \in 1 .. Len(lines) /\ ((i + 1) + 1) - 1 = i + 1
      BY ONLY <1>1, <2>1, i \in Nat
    <3> DEFINE s == reading[i + 1]
    <3> DEFINE t == reading[(i + 1) + 1]
    <3>2. At(s, i)
      <4> HIDE DEF At
      <4> QED BY <3>1
    <3>3. t = ReadLine(s, lines[(i + 1) + 1])
      BY ONLY <1>3, <3>1, Zenon
    <3>4. Full(i + 1) <=> Full(i) /\ ~Blank(insts[i + 1])
      <4>1. \A k : k \in 1 .. i + 1 <=> k \in 1 .. i \/ k = i + 1
        BY ONLY i \in Nat
      <4> QED BY ONLY <4>1, Zenon
    <3> HIDE DEF Full, s, t
    <3>5. CASE Full(i) /\ s.ok = TRUE
      <4>1. CASE ~Blank(insts[i + 1])
        <5>1. Keeps(s, t, TRUE)
          BY ONLY <1>5, <3>1, <3>2, <3>3, <3>5, <4>1, Zenon
        <5> QED BY ONLY <3>2, <3>4, <3>5, <4>1, <5>1, Zenon DEF Keeps, t
      <4>2. CASE Blank(insts[i + 1])
        <5>1. Keeps(s, t, FALSE)
          BY ONLY <1>5, <3>1, <3>2, <3>3, <3>5, <4>2, Zenon
        <5> QED BY ONLY <3>2, <3>4, <3>5, <4>2, <5>1, Zenon DEF Keeps, t
      <4> QED BY ONLY <4>1, <4>2
    <3>6. CASE ~Full(i) /\ s.ok = FALSE
      <4>1. t = s
        BY ONLY <1>4, <3>3, <3>6, Zenon
      <4> QED BY ONLY <3>2, <3>4, <3>6, <4>1, Zenon DEF t
    <3> QED BY ONLY <3>2, <3>5, <3>6, Zenon
  <2> HIDE DEF At
  <2> QED BY ONLY <2>1, i \in Nat
<1>9. At(reading[n + 1], n)
  <2> HIDE DEF T
  <2>1. n \in T
    BY ONLY <1>1, <1>7, <1>8, SetInduction
  <2> HIDE DEF At
  <2>2. n <= n
    BY ONLY <1>1
  <2> QED BY ONLY <2>1, <2>2 DEF T
<1> DEFINE last == reading[Len(lines)]
<1>10. At(last, n)
  <2>1. CASE Len(lines) = n + 1
    BY ONLY <1>9, <2>1, Zenon
  <2>2. CASE /\ Len(lines) = n + 2
             /\ IsStart(lines[n + 2], builder.startCmd)
    <3>1. n + 2 \in 1 .. Len(lines) /\ (n + 2) - 1 = n + 1
      <4>1. Len(lines) = n + 2
        BY ONLY <2>2
      <4> QED BY ONLY <1>1, <4>1
    <3> DEFINE s == reading[n + 1]
    <3> DEFINE line == lines[n + 2]
    <3>2. last = ReadLine(s, line)
      BY ONLY <1>3, <2>2, <3>1, Zenon
    <3>3. line.name = "ENTRYPOINT" /\ line.args = <<builder.startCmd>>
      BY ONLY <2>2, Zenon DEF IsStart
    <3> HIDE DEF s, line, last, Full
    <3>4. line.args # <<>>
      <4>1. Len(line.args) = 1
        BY ONLY <3>3
      <4> QED BY ONLY <4>1
    <3>5. line.name = "ENTRYPOINT"
      BY ONLY <3>3
    <3>6. CASE s.ok = TRUE
      <4>1. ReadLine(s, line) = ReadOne(s, line)
        BY ONLY <3>5, <3>6 DEF ReadLine, Single
      <4>2. \E more : ReadOne(s, line) = Read(s, more)
        BY ONLY <3>4, Zenon DEF ReadOne
      <4>3. IsReading(s)
        BY ONLY <1>9, Zenon DEF s
      <4>4. Keeps(s, last, TRUE)
        BY ONLY <3>2, <3>6, <4>1, <4>2, <4>3, ReadKeeps, Zenon
      <4> QED BY ONLY <1>9, <3>6, <4>4, Zenon DEF Keeps, s
    <3>7. CASE s.ok = FALSE
      <4>1. last = s
        BY ONLY <1>4, <3>2, <3>7, Zenon
      <4> QED BY ONLY <1>9, <4>1, Zenon DEF s
    <3> QED BY ONLY <1>9, <3>6, <3>7, Zenon DEF s
  <2> QED BY <2>1, <2>2, Zenon DEF LinesMean, insts
<1>11. NoBlank(builder) <=> Full(n)
  BY Zenon DEF NoBlank, insts
<1>12. Parse(lines).ok <=> last.ok /\ last.seenFrom
  <2>1. Parse(lines) = [last EXCEPT !.ok = @ /\ last.seenFrom]
    BY Zenon DEF Parse, reading
  <2>2. IsReading(last)
    BY ONLY <1>10, Zenon
  <2> HIDE DEF last
  <2> QED BY ONLY <2>1, <2>2 DEF IsReading
<1> HIDE DEF last, Full
<1> QED BY ONLY <1>10, <1>11, <1>12, Zenon

\* It starts from the image of the builder, but that "base" names the
\* platform's there.
LEMMA FileImage ==
  ASSUME NEW builder, NEW lines, LinesMean(builder, lines), Parse(lines).ok
  PROVE  Parse(lines).builder.baseImage =
           IF builder.baseImage = "base" THEN BaseImage ELSE builder.baseImage
<1> DEFINE image == Parse(lines).builder.baseImage
<1>1. Source(lines, Len(lines), image)
  <2>1. Readable(lines)
    BY LinesAre
  <2> QED BY <2>1, LinesParsed
<1>2. PICK j \in 1 .. Len(lines) :
        lines[j].name = "FROM" /\ image = Names(lines[j])
  BY <1>1, Zenon DEF Source
<1>3. j = 1
  BY <1>2, LinesAre, Zenon
<1>4. lines[1].args = <<builder.baseImage>>
  BY Zenon DEF LinesMean, IsFrom
<1>5. lines[1].args[1] = builder.baseImage
  BY ONLY <1>4
<1>6. image = Names(lines[1])
  BY ONLY <1>2, <1>3, Zenon
<1> HIDE DEF image
<1> QED BY ONLY <1>5, <1>6, Zenon DEF Names, image

\* A parse that is not refused by a line was not before, and the line names an
\* image if it should.
LEMMA StillOk ==
  ASSUME NEW s, IsReading(s), NEW line, ReadLine(s, line).ok
  PROVE  s.ok /\ (line.name = "FROM" => line.args # <<>>)
<1>1. s.ok
  <2>1. CASE ~s.ok
    BY <2>1, Zenon DEF ReadLine
  <2> QED BY <2>1
<1>2. CASE line.name = "FROM" /\ line.args = <<>>
  <2>1. ReadLine(s, line) = ReadFrom(s, line)
    <3>1. line.name = "FROM"
      BY <1>2
    <3> QED BY ONLY <1>1, <3>1 DEF ReadLine, Single
  <2>2. Len(line.args) # 1 /\ Len(line.args) # 3
    <3>1. line.args = <<>>
      BY <1>2
    <3> QED BY ONLY <3>1
  <2>3. ReadFrom(s, line) = Refuse(s)
    BY ONLY <2>2, Zenon DEF ReadFrom
  <2> DEFINE t == Refuse(s)
  <2>4. t = [s EXCEPT !.ok = FALSE]
    BY DEF Refuse
  <2> HIDE DEF t
  <2>5. ~t.ok
    BY ONLY IsReading(s), <2>4 DEF IsReading
  <2> QED BY <2>1, <2>3, <2>5, Zenon DEF t
<1> QED BY <1>1, <1>2

\* So every FROM line of a Dockerfile that is accepted names one.
LEMMA FromNames ==
  ASSUME NEW lines, Readable(lines), Parse(lines).ok
  PROVE  \A j \in 1 .. Len(lines) :
           lines[j].name = "FROM" => lines[j].args # <<>>
<1> DEFINE reading == Readings(lines)
<1> DEFINE Named(j) == lines[j].name = "FROM" => lines[j].args # <<>>
<1> DEFINE Is(i) == /\ ReadingInv(reading[i], lines, i)
                    /\ reading[i].ok => \A j \in 1 .. i : Named(j)
<1> DEFINE T == {i \in Nat : i <= Len(lines) => Is(i)}
<1>0. Len(lines) \in Nat /\ \A i \in 1 .. Len(lines) : Len(lines[i].args) \in Nat
  BY DEF Readable
<1>1. /\ reading[0] = Reading
      /\ \A i \in 1 .. Len(lines) :
           reading[i] = ReadLine(reading[i - 1], lines[i])
  BY <1>0, ReadingSteps
<1>2. 0 \in T
  <2>1. ReadingInv(Reading, lines, 0)
    <3>1. /\ Reading = [builder |-> Reading.builder,
                        seenFrom |-> Reading.seenFrom, ok |-> Reading.ok]
          /\ Reading.builder = New("") /\ Reading.seenFrom = FALSE
      BY DEF Reading
    <3> QED BY <3>1, PlainNew DEF ReadingInv
  <2>2. ReadingInv(reading[0], lines, 0)
    BY <1>1, <2>1, Zenon
  <2> HIDE DEF reading, Named
  <2>3. \A j \in 1 .. 0 : Named(j)
    BY ONLY TRUE
  <2>4. Is(0)
    BY ONLY <2>2, <2>3, Zenon
  <2> HIDE DEF Is
  <2> QED BY ONLY <2>4
<1> HIDE DEF reading, Named
<1>3. \A i \in Nat : i \in T => i + 1 \in T
  <2> TAKE i \in Nat
  <2> HAVE i \in T
  <2>1. ASSUME i + 1 <= Len(lines) PROVE Is(i + 1)
    <3>1. i + 1 \in 1 .. Len(lines) /\ (i + 1) - 1 = i /\ i <= Len(lines)
      BY ONLY <1>0, <2>1, i \in Nat
    <3>2. Is(i)
      <4> HIDE DEF Is
      <4> QED BY <3>1
    <3> DEFINE s == reading[i]
    <3>3. reading[i + 1] = ReadLine(s, lines[i + 1])
      BY ONLY <1>1, <3>1, Zenon
    <3>4. ReadingInv(reading[i + 1], lines, i + 1)
      <4>1. Len(lines[i + 1].args) \in Nat
        BY ONLY <1>0, <3>1, Zenon
      <4>2. ReadingInv(s, lines, i)
        BY ONLY <3>2, Zenon
      <4> HIDE DEF s
      <4>3. ReadingInv(ReadLine(s, lines[i + 1]), lines, i + 1)
        BY ONLY <4>1, <4>2, i \in Nat, LineRead
      <4> QED BY ONLY <3>3, <4>3, Zenon
    <3>5. ASSUME reading[i + 1].ok PROVE \A j \in 1 .. i + 1 : Named(j)
      <4>1. IsReading(s)
        BY ONLY <3>2, Zenon DEF ReadingInv, IsReading
      <4>2. s.ok /\ Named(i + 1)
        BY ONLY <3>3, <3>5, <4>1, StillOk, Zenon DEF Named
      <4>3. \A j \in 1 .. i : Named(j)
        BY ONLY <3>2, <4>2, Zenon
      <4>4. \A j : j \in 1 .. i + 1 => j \in 1 .. i \/ j = i + 1
        BY ONLY i \in Nat
      <4> QED BY ONLY <4>2, <4>3, <4>4, Zenon
    <3> QED BY ONLY <3>4, <3>5, Zenon
  <2> HIDE DEF Is
  <2> QED BY ONLY <2>1, i \in Nat
<1>4. Is(Len(lines))
  <2> HIDE DEF T
  <2>1. Len(lines) \in T
    BY ONLY <1>0, <1>2, <1>3, SetInduction
  <2>2. Len(lines) <= Len(lines)
    BY ONLY <1>0
  <2> HIDE DEF Is
  <2> QED BY ONLY <2>1, <2>2 DEF T
<1> DEFINE end == reading[Len(lines)]
<1>5. end.ok
  <2> DEFINE ok == end.ok /\ end.seenFrom
  <2>1. IsReading(end)
    BY ONLY <1>4, Zenon DEF ReadingInv, IsReading
  <2> DEFINE p == Parse(lines)
  <2>2. p = [end EXCEPT !.ok = ok]
    BY Zenon DEF Parse, reading
  <2>3. p.ok
    OBVIOUS
  <2> HIDE DEF end, ok, p
  <2>4. p.ok = ok
    BY ONLY <2>1, <2>2 DEF IsReading
  <2> QED BY ONLY <2>3, <2>4, Zenon DEF ok
<1> QED BY ONLY <1>4, <1>5, Zenon DEF Named

-----------------------------------------------------------------------------
(* A builder can be rendered if the last call to say what it starts from    *)
(* named an image.                                                          *)

\* One of some positions is the greatest.
LEMMA Greatest ==
  ASSUME NEW n \in Nat, NEW S, S \subseteq 1 .. n, S # {}
  PROVE  \E m \in S : \A i \in S : i <= m
<1> DEFINE T == {k \in Nat : \A U \in SUBSET (1 .. k) : U # {} =>
                               \E m \in U : \A i \in U : i <= m}
<1>1. 0 \in T
  <2>1. 1 .. 0 = {}
    BY ONLY TRUE
  <2> QED BY <2>1
<1>2. \A k \in Nat : k \in T => k + 1 \in T
  <2> TAKE k \in Nat
  <2> HAVE k \in T
  <2>1. ASSUME NEW U \in SUBSET (1 .. k + 1), U # {}
        PROVE  \E m \in U : \A i \in U : i <= m
    <3>1. CASE k + 1 \in U
      <4>1. \A i \in U : i <= k + 1
        BY ONLY <2>1, k \in Nat
      <4> QED BY <3>1, <4>1
    <3>2. CASE k + 1 \notin U
      <4>1. U \in SUBSET (1 .. k)
        BY ONLY <2>1, <3>2, k \in Nat
      <4> QED BY <2>1, <4>1
    <3> QED BY <3>1, <3>2
  <2> QED BY <2>1
<1>3. n \in T
  <2> HIDE DEF T
  <2> QED BY <1>1, <1>2, SetInduction
<1> QED BY <1>3

\* The call that set the base is one that sets it.
LEMMA BaseIs ==
  ASSUME NEW s, Len(s) \in Nat, BaseAt(s) # 0
  PROVE  s[BaseAt(s)] \in Basers
<1> DEFINE S == Where(s, Basers)
<1> DEFINE n == Len(s)
<1>1. S \subseteq 1 .. n /\ \A i \in S : s[i] \in Basers
  BY DEF Where
<1>2. BaseAt(s) = LatestOf(S)
  BY Zenon DEF BaseAt
<1> HIDE DEF S, n
<1>3. S # {}
  BY <1>2 DEF LatestOf
<1>4. LatestOf(S) = CHOOSE i \in S : \A j \in S : j <= i
  BY <1>3, Zenon DEF LatestOf
<1>5. \E i \in S : \A j \in S : j <= i
  <2>1. n \in Nat
    BY DEF n
  <2> QED BY ONLY <1>1, <1>3, <2>1, Greatest
<1>6. LatestOf(S) \in S
  BY ONLY <1>4, <1>5, Zenon
<1> QED BY ONLY <1>1, <1>2, <1>6, Zenon

\* The image of a FROM line that is accepted is not blank.
LEMMA NamesSome ==
  ASSUME NEW call \in Chains, ReadsFile(call), NEW i \in DOMAIN call.args,
         call.args[i].name = "FROM"
  PROVE  Names(call.args[i]) # ""
<1> DEFINE lines == call.args
<1>1. lines \in Dockerfile /\ FromNamesImage(lines) /\ Parse(lines).ok
  BY ChainsAssumption, Zenon DEF ReadsFile
<1>2. i \in 1 .. Len(lines)
  BY <1>1 DEF Dockerfile
<1>3. lines[i].args # <<>>
  <2> HIDE DEF lines
  <2>1. Readable(lines)
    BY <1>1, FileReadable
  <2>2. lines[i].name = "FROM"
    BY DEF lines
  <2> QED BY ONLY <1>1, <1>2, <2>1, <2>2, FromNames
<1>4. lines[i].args[1] # ""
  BY <1>1, <1>3, Zenon DEF FromNamesImage
<1> QED BY ONLY <1>4, BaseImageAssumption, Zenon DEF Names, lines

\* A call that sets the base leaves an image if it names one.
LEMMA ToldImage ==
  ASSUME NEW call \in Basers, NEW builder, Told(call, builder)
  PROVE  HasImage(builder) <=> NamesImage(call)
<1> DEFINE image == builder.baseImage
<1> DEFINE template == builder.baseTemplate
<1>1. Says(call, image, template)
  BY Zenon DEF Told
<1>2. call \in Chains /\ SetsBase(call)
  BY Zenon DEF Basers
<1>3. HasImage(builder) <=> template = "" /\ image # ""
  BY Zenon DEF HasImage
<1> HIDE DEF image, template
<1>4. CASE call.op = "FromImage"
  <2>1. image = call.args[1] /\ template = ""
    BY <1>1, <1>4 DEF Says
  <2>2. NamesImage(call) <=> call.args[1] # ""
    BY <1>4 DEF NamesImage
  <2> QED BY ONLY <1>3, <2>1, <2>2, Zenon
<1>5. CASE call.op = "FromBaseImage"
  <2>1. image = BaseImage /\ template = ""
    BY <1>1, <1>5 DEF Says
  <2>2. NamesImage(call)
    BY <1>5 DEF NamesImage
  <2> QED BY ONLY <1>3, <2>1, <2>2, BaseImageAssumption, Zenon
<1>6. CASE call.op = "FromTemplate"
  <2>1. image = ""
    BY <1>1, <1>6 DEF Says
  <2>2. ~NamesImage(call)
    BY <1>6 DEF NamesImage
  <2> QED BY ONLY <1>3, <2>1, <2>2, Zenon
<1>7. CASE ReadsFile(call)
  <2>1. call.op = "FromDockerfile"
    BY <1>7, Zenon DEF ReadsFile
  <2>2. template = "" /\ \E i \in DOMAIN call.args :
          call.args[i].name = "FROM" /\ image = Names(call.args[i])
    BY <1>1, <2>1 DEF Says
  <2>3. image # ""
    BY <1>2, <1>7, <2>2, NamesSome, Zenon
  <2>4. NamesImage(call)
    BY <2>1, Zenon DEF NamesImage
  <2> QED BY ONLY <1>3, <2>2, <2>3, <2>4, Zenon
<1> QED BY <1>2, <1>4, <1>5, <1>6, <1>7 DEF SetsBase, CallsFrom

-----------------------------------------------------------------------------

\* What is known of a builder and its script is DockerfileWritten.
LEMMA GoodWritten == BuilderInv /\ Good(b) => DockerfileWritten
<1> SUFFICES ASSUME BuilderInv, Good(b) PROVE DockerfileWritten
  OBVIOUS
<1> DEFINE file == ToDockerfile(b)
<1> DEFINE lines == file.lines
<1> DEFINE read == Parse(lines)
<1>1. file.ok <=> HasImage(b)
  BY FileOk
<1>2. file.ok <=> BaseCall = 0 \/ NamesImage(script[BaseCall])
  <2>1. BaseCall = BaseAt(script)
    <3>1. /\ DOMAIN script = 1 .. Len(script) /\ Len(script) \in Nat
          /\ \A i \in 1 .. Len(script) : script[i] \in Chains
      BY Scripted
    <3>2. {i \in DOMAIN script : SetsBase(script[i])} = Where(script, Basers)
      BY <3>1 DEF Where, Basers
    <3> QED BY <3>2 DEF BaseCall, BaseAt
  <2>2. CASE BaseCall = 0
    <3>1. /\ b.baseImage = IF BaseOption = "" THEN BaseImage ELSE BaseOption
          /\ b.baseTemplate = ""
      BY <2>1, <2>2, Zenon DEF BuilderInv, BaseInv, Unbased
    <3>2. HasImage(b)
      BY <3>1, BaseImageAssumption, Zenon DEF HasImage
    <3> QED BY <1>1, <2>2, <3>2
  <2>3. CASE BaseCall # 0
    <3> DEFINE call == script[BaseCall]
    <3>1. call \in Basers
      <4>1. Len(script) \in Nat
        BY Scripted
      <4> QED BY <2>1, <2>3, <4>1, BaseIs, Zenon
    <3>2. Told(call, b)
      BY <2>1, <2>3, Zenon DEF BuilderInv, BaseInv
    <3> QED BY <1>1, <2>3, <3>1, <3>2, ToldImage, Zenon
  <2> QED BY <2>2, <2>3
<1>3. ASSUME file.ok, ~HasOwnUser(b), IsVerbatim(b)
      PROVE  /\ read.ok <=> ~HasBlank(b)
             /\ read.ok =>
                  /\ Meaning(lines) = Effect(b)
                  /\ read.builder.baseImage =
                       IF b.baseImage = "base" THEN BaseImage ELSE b.baseImage
  <2>1. Simple(b)
    BY <1>3, IsSimple
  <2>2. LinesMean(b, lines)
    <3>1. HasImage(b)
      BY <1>1, <1>3
    <3>2. Lines(b, lines)
      BY <2>1, <3>1, FileLines
    <3> HIDE DEF lines
    <3> QED BY <2>1, <3>2, LinesDo
  <2> HIDE DEF lines
  <2>3. read.ok <=> NoBlank(b)
    BY <2>2, FileReads
  <2>4. HasBlank(b) <=> ~NoBlank(b)
    BY HasNoBlank
  <2>5. read.ok => Meaning(lines) = Effect(b)
    BY <2>1, <2>2, <2>3, FileDoes, Zenon
  <2>6. read.ok =>
          read.builder.baseImage =
            IF b.baseImage = "base" THEN BaseImage ELSE b.baseImage
    BY <2>2, FileImage, Zenon
  <2> QED BY ONLY <2>3, <2>4, <2>5, <2>6, Zenon
<1> QED BY ONLY <1>2, <1>3, Zenon DEF DockerfileWritten, file, lines, read

\* A builder can be rendered as a Dockerfile exactly if it starts from an image.
\* If its values read back where they are printed, the Dockerfile is accepted
\* exactly if nothing a line must have is empty, and then it does what the
\* builder does and starts from the same image.
THEOREM FileWritten == Spec => []DockerfileWritten
  BY InvHolds, AllGood, GoodWritten, PTL
=============================================================================
