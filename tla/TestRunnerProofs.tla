--------------------------- MODULE TestRunnerProofs ---------------------------
(***************************************************************************)
(* For any files, base names and test blocks: a case passes on account of   *)
(* its own program only, and the exit code and the printed lines agree.     *)
(***************************************************************************)
EXTENDS TestRunner, WellFoundedInduction, TLAPS

-----------------------------------------------------------------------------
(* Numbers.  The well-foundedness of the naturals stands in for induction: a *)
(* statement that fails, fails first at some number.                         *)

\* There is a least number in a set of numbers.
LEMMA LeastNumber ==
    ASSUME NEW T, T \subseteq Nat, T # {}
    PROVE  \E n \in T : \A m \in T : n <= m
<1> DEFINE Less == OpToRel(<, Nat)
<1>1. IsWellFoundedOn(Less, Nat)
    BY NatLessThanWellFounded
<1>2. \A m, n \in Nat : <<m, n>> \in Less <=> m < n
    BY DEF OpToRel
<1> HIDE DEF Less
<1>3. PICK n \in T : \A m \in T : ~ (<<m, n>> \in Less)
    BY <1>1, WFMin
<1>4. ASSUME NEW m \in T
      PROVE  n <= m
  <2>1. m \in Nat /\ n \in Nat
      OBVIOUS
  <2>2. ~ (m < n)
      BY <1>2, <1>3, <2>1
  <2> QED
      BY <2>1, <2>2
<1> QED
    BY <1>4

\* There is a greatest number in a set of numbers up to r.
LEMMA GreatestNumber ==
    ASSUME NEW r \in Nat, NEW S, S \subseteq 1..r, S # {}
    PROVE  \E d \in S : \A e \in S : e <= d
<1> DEFINE T == {n \in Nat : r - n \in S}
<1>1. PICK c \in S : TRUE
    OBVIOUS
<1>2. r - c \in T
    OBVIOUS
<1>3. T \subseteq Nat /\ T # {}
    BY <1>2
<1>4. PICK n \in T : \A m \in T : n <= m
  <2> HIDE DEF T
  <2> QED
      BY <1>3, LeastNumber
<1>5. ASSUME NEW e \in S
      PROVE  e <= r - n
  <2>1. r - e \in T
      OBVIOUS
  <2>2. n <= r - e
      BY <1>4, <2>1
  <2>3. e \in Nat /\ r - e \in Nat /\ n \in Nat
      OBVIOUS
  <2> HIDE DEF T
  <2> QED
      BY <2>2, <2>3
<1> QED
    BY <1>4, <1>5

\* The only ascending sequence of n numbers up to n counts them.
LEMMA AscendingCounts ==
    ASSUME NEW n \in Nat, NEW s \in [1..n -> 1..n],
           \A k, l \in 1..n : k < l => s[k] < s[l]
    PROVE  \A k \in 1..n : s[k] = k
<1>1. \A k \in 1..n : s[k] >= k
  <2> DEFINE T == {k \in 1..n : s[k] < k}
  <2> SUFFICES ASSUME T # {} PROVE FALSE
      OBVIOUS
  <2>1. PICK k \in T : \A j \in T : k <= j
    <3>1. T \subseteq Nat
        OBVIOUS
    <3> HIDE DEF T
    <3> QED
        BY <3>1, LeastNumber
  <2>2. k \in 1..n /\ s[k] \in 1..n /\ s[k] < k
      OBVIOUS
  <2>3. k - 1 \in 1..n /\ s[k - 1] \in 1..n /\ s[k - 1] < s[k]
      BY <2>2
  <2>4. k - 1 \in T
      BY <2>2, <2>3
  <2> QED
      BY <2>1, <2>2, <2>4
<1>2. \A k \in 1..n : s[k] <= k
  <2> DEFINE T == {k \in 1..n : s[k] > k}
  <2> SUFFICES ASSUME T # {} PROVE FALSE
      OBVIOUS
  <2>1. PICK k \in T : \A j \in T : j <= k
    <3>1. T \subseteq 1..n
        OBVIOUS
    <3> HIDE DEF T
    <3> QED
        BY <3>1, GreatestNumber
  <2>2. k \in 1..n /\ s[k] \in 1..n /\ s[k] > k
      OBVIOUS
  <2>3. k + 1 \in 1..n /\ s[k + 1] \in 1..n /\ s[k] < s[k + 1]
      BY <2>2
  <2>4. k + 1 \in T
      BY <2>2, <2>3
  <2> QED
      BY <2>1, <2>2, <2>4
<1>3. ASSUME NEW k \in 1..n
      PROVE  s[k] = k
    BY <1>1, <1>2
<1> QED
    BY <1>3

USE RunnerAssumption

-----------------------------------------------------------------------------
(* The pairs of a file.                                                      *)
LEMMA PairsAreCases ==
    ASSUME TypeOK, NEW f \in File
    PROVE  ReadCases(f) \in Seq(Case)
<1>1. /\ tests[f].inputs \in Nat
      /\ tests[f].outputs \in UNION {[1..n -> 1..MaxBlocks] : n \in 0..MaxBlocks}
    <2> DEFINE O == UNION {[1..n -> 1..MaxBlocks] : n \in 0..MaxBlocks}
    <2>1. tests[f] \in [inputs : 0..MaxBlocks, outputs : O]
        BY DEF TypeOK, Annotation
    <2> HIDE DEF O
    <2>2. tests[f].inputs \in 0..MaxBlocks /\ tests[f].outputs \in O
        BY <2>1
    <2>3. tests[f].inputs \in Nat
        BY <2>2
    <2>4. tests[f].outputs \in UNION {[1..n -> 1..MaxBlocks] : n \in 0..MaxBlocks}
        BY <2>2, Zenon DEF O
    <2> QED
        BY <2>3, <2>4
<1>2. PICK m \in 0..MaxBlocks : tests[f].outputs \in [1..m -> 1..MaxBlocks]
    BY <1>1
<1>3. tests[f].outputs \in Seq(Nat)
    BY <1>2
<1> DEFINE n == IF Inputs(f) < Len(Outputs(f)) THEN Inputs(f) ELSE Len(Outputs(f))
<1>4. n \in Nat /\ n <= Len(Outputs(f))
    BY <1>1, <1>3 DEF Inputs, Outputs
<1>5. \A k \in 1..n : k \in Nat /\ Outputs(f)[k] \in Nat
    BY <1>3, <1>4 DEF Outputs
<1>6. ReadCases(f) = [k \in 1..n |-> [input |-> k, output |-> Outputs(f)[k]]]
    BY DEF ReadCases
<1> HIDE DEF n
<1>7. [k \in 1..n |-> [input |-> k, output |-> Outputs(f)[k]]] \in [1..n -> Case]
    BY <1>5 DEF Case
<1> QED
    BY <1>4, <1>6, <1>7

LEMMA PairsStay ==
    ASSUME UNCHANGED tests
    PROVE  \A f : ReadCases(f)' = ReadCases(f)
BY DEF ReadCases, Inputs, Outputs

(* A step may only move a pair from those left to those with a line.         *)
LEMMA KeepAccounts ==
    ASSUME Accounted, UNCHANGED tests,
           \A f, c : HasLine(f, c) \/ Left(f, c) => HasLine(f, c)' \/ Left(f, c)'
    PROVE  Accounted'
<1> SUFFICES ASSUME NEW n \in 1..Len(Files), NEW k \in DOMAIN ReadCases(Files[n])'
             PROVE  \/ HasLine(Files[n], ReadCases(Files[n])[k])'
                    \/ Left(Files[n], ReadCases(Files[n])[k])'
    BY DEF Accounted
<1>1. PICK c : c = ReadCases(Files[n])[k]
    OBVIOUS
<1>2. HasLine(Files[n], c) \/ Left(Files[n], c)
    BY <1>1, PairsStay DEF Accounted
<1>3. HasLine(Files[n], c)' \/ Left(Files[n], c)'
    BY <1>2
<1>4. ReadCases(Files[n])[k]' = c
    BY <1>1, PairsStay
<1> QED
    BY <1>3, <1>4 DEF HasLine, Left

(* A step that prints nothing, and leaves the pairs where they are, keeps    *)
(* what is said of lines.                                                    *)
LEMMA SilentStep ==
    ASSUME IInv, UNCHANGED <<tests, todo, path, cases, verdicts>>
    PROVE  OwnProgram' /\ Accounted'
<1>1. OwnProgram'
    BY DEF IInv, OwnProgram, Printed
<1>2. \A f, c : HasLine(f, c) \/ Left(f, c) => HasLine(f, c)' \/ Left(f, c)'
    BY DEF HasLine, Left, Printed
<1> QED
    BY <1>1, <1>2, KeepAccounts DEF IInv

-----------------------------------------------------------------------------
(* Init, and one lemma for each way a step ends: going on with the same case *)
(* (GoOn), printing its line (Report), and the steps between cases.          *)

LEMMA InitInv == Init => IInv
<1> SUFFICES ASSUME Init PROVE IInv
    OBVIOUS
<1>1. TypeOK
    <2>1. \A b \in Names : mlir[b] = Nothing /\ vmfb[b] = Nothing
        BY DEF Init
    <2>2. todo \in Seq(File) /\ verdicts \in Seq(Verdict) /\ cases \in Seq(Case)
        BY DEF Init
    <2>3. mlir \in [Names -> File \cup {Nothing}] /\ vmfb \in [Names -> File \cup {Nothing}]
        BY DEF Init
    <2> QED
        BY <2>2, <2>3 DEF Init, TypeOK
<1>2. Printed = {}
    BY DEF Init, Printed
<1>3. Accounted
    <2> SUFFICES ASSUME NEW n \in 1..Len(Files) PROVE \A c : Left(Files[n], c)
        BY DEF Accounted
    <2> QED
        BY DEF Init, Left
<1> QED
    BY <1>1, <1>2, <1>3 DEF Init, IInv, Phases, OwnProgram, Counted, Ended

LEMMA GoOnInv ==
    ASSUME IInv, status = "running", NEW p \in {"compile", "flags", "run"}, GoOn(p),
           mlir' \in [Names -> File \cup {Nothing}],
           vmfb' \in [Names -> File \cup {Nothing}],
           flagsOf' \in File \cup {Nothing},
           Phases'
    PROVE  IInv'
<1>1. /\ phase' = p
      /\ UNCHANGED <<tests, todo, path, cases, verdicts, passed, failed, status, exit>>
    BY DEF GoOn
<1>2. TypeOK'
    BY <1>1 DEF IInv, TypeOK
<1>3. Counted'
    BY <1>1 DEF IInv, Counted, Printed, Ended
<1> QED
    BY <1>1, <1>2, <1>3, SilentStep DEF IInv, Ended

LEMMA ReportInv ==
    ASSUME IInv, status = "running", cases # <<>>,
           NEW ok \in BOOLEAN, NEW ran \in File \cup {Nothing}, Report(ok, ran),
           ok => ran = path /\ flagsOf = path,
           mlir' \in [Names -> File \cup {Nothing}],
           vmfb' \in [Names -> File \cup {Nothing}]
    PROVE  IInv'
<1> DEFINE v == [file |-> path, input |-> cases[1].input, output |-> cases[1].output,
                 ran |-> ran, flags |-> flagsOf, ok |-> ok]
<1>1. /\ verdicts' = Append(verdicts, v)
      /\ cases' = Tail(cases)
      /\ phase' = "idle"
      /\ flagsOf' = Nothing
      /\ UNCHANGED <<tests, todo, path, status, exit>>
      /\ passed' = IF ok THEN passed + 1 ELSE passed
      /\ failed' = IF ok THEN failed ELSE failed + 1
    BY DEF Report
<1>2. /\ path \in File /\ cases \in Seq(Case) /\ verdicts \in Seq(Verdict)
      /\ flagsOf \in File \cup {Nothing} /\ passed \in Nat /\ failed \in Nat
    BY DEF IInv, TypeOK, Phases
<1>3. cases[1] \in Case /\ Tail(cases) \in Seq(Case) /\ Len(cases) \in Nat \ {0}
    BY <1>2
<1>4. v \in Verdict
    BY <1>2, <1>3 DEF Verdict, Case
<1>5. v.file = path /\ v.input = cases[1].input /\ v.output = cases[1].output
      /\ v.ran = ran /\ v.flags = flagsOf /\ v.ok = ok
    OBVIOUS
<1> HIDE DEF v
<1>6. TypeOK'
    <2>1. verdicts' \in Seq(Verdict) /\ cases' \in Seq(Case)
        BY <1>1, <1>2, <1>3, <1>4
    <2>2. passed' \in Nat /\ failed' \in Nat
        BY <1>1, <1>2
    <2> QED
        BY <1>1, <2>1, <2>2 DEF IInv, TypeOK
<1>7. Printed' = Printed \cup {v}
    <2>1. /\ Len(verdicts') = Len(verdicts) + 1 /\ Len(verdicts) \in Nat
          /\ verdicts'[Len(verdicts) + 1] = v
          /\ \A i \in 1..Len(verdicts) : verdicts'[i] = verdicts[i]
        BY <1>1, <1>2, <1>4
    <2>2. ASSUME NEW w \in Printed' PROVE w \in Printed \cup {v}
        <3>1. PICK i \in 1..Len(verdicts') : w = verdicts'[i]
            BY DEF Printed
        <3>2. i \in 1..Len(verdicts) \/ i = Len(verdicts) + 1
            BY <2>1
        <3> QED
            BY <2>1, <3>1, <3>2 DEF Printed
    <2>3. ASSUME NEW w \in Printed PROVE w \in Printed'
        <3>1. PICK i \in 1..Len(verdicts) : w = verdicts[i]
            BY DEF Printed
        <3>2. i \in 1..Len(verdicts')
            BY <2>1
        <3> QED
            BY <2>1, <3>1, <3>2 DEF Printed
    <2>4. v \in Printed'
        <3>1. Len(verdicts) + 1 \in 1..Len(verdicts')
            BY <2>1
        <3> QED
            BY <2>1, <3>1 DEF Printed
    <2> QED
        BY <2>2, <2>3, <2>4
<1>8. OwnProgram'
    BY <1>5, <1>7 DEF IInv, OwnProgram
<1>9. Counted'
    <2>1. CASE ok
        BY <1>1, <1>5, <1>7, <2>1 DEF IInv, Counted, Ended
    <2>2. CASE ~ok
        <3>1. failed' # 0
            BY <1>1, <1>2, <2>2
        <3>2. v \in Printed' /\ ~v.ok
            BY <1>5, <1>7, <2>2
        <3> QED
            BY <1>1, <3>1, <3>2 DEF Counted, Ended
    <2> QED
        BY <2>1, <2>2
<1>10. Accounted'
    <2>1. ASSUME NEW f, NEW c, HasLine(f, c)
          PROVE  HasLine(f, c)'
        BY <1>7, <2>1 DEF HasLine
    <2>2. ASSUME NEW f, NEW c, Left(f, c)
          PROVE  HasLine(f, c)' \/ Left(f, c)'
        <3>1. CASE \E i \in 1..Len(todo) : todo[i] = f
            BY <1>1, <3>1 DEF Left
        <3>2. CASE path = f /\ \E i \in 1..Len(cases) : cases[i] = c
            <4>1. PICK i \in 1..Len(cases) : cases[i] = c
                BY <3>2
            <4>2. CASE i = 1
                BY <1>5, <1>7, <3>2, <4>1, <4>2 DEF HasLine
            <4>3. CASE i # 1
                <5>1. i - 1 \in 1..Len(cases') /\ cases'[i - 1] = c
                    BY <1>1, <1>2, <1>3, <4>1, <4>3
                <5> QED
                    BY <1>1, <3>2, <5>1 DEF Left
            <4> QED
                BY <4>2, <4>3
        <3> QED
            BY <2>2, <3>1, <3>2 DEF Left
    <2> QED
        BY <1>1, <2>1, <2>2, KeepAccounts DEF IInv
<1>11. Phases'
    BY <1>1, <1>2 DEF Phases, IInv, TypeOK
<1> QED
    BY <1>1, <1>6, <1>8, <1>9, <1>10, <1>11 DEF IInv, Ended

LEMMA OpenFileInv ==
    ASSUME IInv, OpenFile
    PROVE  IInv'
<1>1. /\ status = "running" /\ phase = "idle" /\ cases = <<>> /\ todo # <<>>
      /\ path' = Head(todo) /\ cases' = ReadCases(Head(todo)) /\ todo' = Tail(todo)
      /\ UNCHANGED <<tests, phase, mlir, vmfb, flagsOf, verdicts, passed, failed,
                     status, exit>>
    BY DEF OpenFile, At
<1>2. todo \in Seq(File) /\ Len(todo) \in Nat \ {0} /\ Head(todo) \in File
      /\ Tail(todo) \in Seq(File)
    BY <1>1 DEF IInv, TypeOK
<1>3. ReadCases(Head(todo)) \in Seq(Case)
    BY <1>2, PairsAreCases DEF IInv
<1>4. TypeOK'
    BY <1>1, <1>2, <1>3 DEF IInv, TypeOK
<1>5. Phases'
    BY <1>1, <1>2 DEF IInv, Phases
<1>6. OwnProgram' /\ Counted'
    BY <1>1 DEF IInv, OwnProgram, Counted, Printed, Ended
<1>7. Accounted'
    <2> SUFFICES ASSUME NEW n \in 1..Len(Files), NEW k \in DOMAIN ReadCases(Files[n])'
                 PROVE  \/ HasLine(Files[n], ReadCases(Files[n])[k])'
                        \/ Left(Files[n], ReadCases(Files[n])[k])'
        BY DEF Accounted
    <2> DEFINE f == Files[n]
    <2>1. PICK c : c = ReadCases(f)[k]
        OBVIOUS
    <2>2. ReadCases(f)' = ReadCases(f) /\ k \in DOMAIN ReadCases(f)
        BY <1>1, PairsStay
    <2>3. HasLine(f, c) \/ Left(f, c)
        BY <2>1, <2>2 DEF IInv, Accounted
    <2>4. HasLine(f, c)' \/ Left(f, c)'
        <3>1. CASE HasLine(f, c)
            BY <1>1, <3>1 DEF HasLine, Printed
        <3>2. CASE Left(f, c)
            <4>1. PICK i \in 1..Len(todo) : todo[i] = f
                BY <1>1, <3>2 DEF Left
            <4>2. CASE i = 1
                <5>1. path' = f /\ cases' = ReadCases(f)
                    BY <1>1, <1>2, <4>1, <4>2
                <5>2. k \in 1..Len(cases') /\ cases'[k] = c
                    BY <1>1, <1>3, <2>1, <2>2, <5>1
                <5> QED
                    BY <5>1, <5>2 DEF Left
            <4>3. CASE i # 1
                <5>1. i - 1 \in 1..Len(todo') /\ todo'[i - 1] = f
                    BY <1>1, <1>2, <4>1, <4>3
                <5> QED
                    BY <5>1 DEF Left
            <4> QED
                BY <4>2, <4>3
        <3> QED
            BY <2>3, <3>1, <3>2
    <2>5. ReadCases(f)[k]' = c
        BY <2>1, <2>2
    <2> QED
        BY <2>4, <2>5 DEF HasLine, Left
<1> QED
    BY <1>1, <1>4, <1>5, <1>6, <1>7 DEF IInv, Ended

LEMMA EndInv ==
    ASSUME IInv, End \/ Raise
    PROVE  IInv'
<1>1. /\ UNCHANGED <<tests, todo, path, cases, phase, mlir, vmfb, flagsOf, verdicts,
                     passed, failed>>
      /\ status' \in {"ended", "raised"} /\ exit' \in {0, 1}
    BY DEF End, Raise
<1>2. TypeOK'
    BY <1>1 DEF IInv, TypeOK
<1>3. Phases'
    BY <1>1 DEF IInv, Phases
<1>4. Counted' /\ (Ended' => todo' = <<>> /\ cases' = <<>>)
    <2>1. CASE End
        BY <1>1, <2>1 DEF IInv, TypeOK, Counted, Printed, Ended, End
    <2>2. CASE Raise
        BY <1>1, <2>2 DEF IInv, Counted, Printed, Ended, Raise
    <2> QED
        BY <2>1, <2>2
<1> QED
    BY <1>1, <1>2, <1>3, <1>4, SilentStep DEF IInv

-----------------------------------------------------------------------------
(* The phases of a case.                                                     *)

LEMMA RunCaseInv ==
    ASSUME IInv, ParseInput \/ Compile \/ BuildFlags \/ Run
    PROVE  IInv'
<1>1. status = "running" /\ cases # <<>> /\ path \in File /\ Base[path] \in Names
    <2>1. status = "running" /\ (phase = "idle" => cases # <<>>)
        BY DEF ParseInput, Compile, BuildFlags, Run, At
    <2>2. cases # <<>>
        BY <2>1 DEF IInv, Phases
    <2>3. path \in File
        BY <2>2 DEF IInv, Phases, TypeOK
    <2> QED
        BY <2>1, <2>2, <2>3 DEF Names
<1>2. /\ mlir \in [Names -> File \cup {Nothing}] /\ vmfb \in [Names -> File \cup {Nothing}]
      /\ flagsOf \in File \cup {Nothing}
    BY DEF IInv, TypeOK
<1>3. CASE ParseInput
    <2>1. UNCHANGED <<mlir, vmfb>>
        BY <1>3 DEF ParseInput
    <2>2. CASE GoOn("compile") /\ UNCHANGED flagsOf
        <3>1. Phases'
            BY <1>1, <2>1, <2>2 DEF GoOn, Phases, IInv
        <3> QED
            BY <1>1, <1>2, <2>1, <2>2, <3>1, GoOnInv
    <2>3. CASE Report(FALSE, Nothing)
        BY <1>1, <1>2, <2>1, <2>3, ReportInv
    <2> QED
        BY <1>3, <2>2, <2>3 DEF ParseInput
<1>4. CASE Compile
    <2> DEFINE b == Base[path]
    <2>1. CASE Built(b) /\ GoOn("flags") /\ UNCHANGED flagsOf
        <3>1. /\ mlir' = [mlir EXCEPT ![b] = path] /\ vmfb' = [vmfb EXCEPT ![b] = path]
              /\ UNCHANGED <<path, cases>> /\ phase' = "flags"
            BY <2>1 DEF Built, GoOn
        <3>2. mlir'[b] = path /\ vmfb'[b] = path
            BY <1>1, <1>2, <3>1
        <3>3. Phases'
            BY <1>1, <3>1, <3>2 DEF Phases
        <3>4. /\ mlir' \in [Names -> File \cup {Nothing}]
              /\ vmfb' \in [Names -> File \cup {Nothing}]
            BY <1>1, <1>2, <3>1
        <3> QED
            BY <1>1, <1>2, <2>1, <3>3, <3>4, GoOnInv
    <2>2. CASE (NotLowered(b) \/ NotCompiled(b)) /\ Report(FALSE, Nothing)
        <3>1. /\ mlir' \in [Names -> File \cup {Nothing}]
              /\ vmfb' \in [Names -> File \cup {Nothing}]
            BY <1>1, <1>2, <2>2 DEF NotLowered, NotCompiled
        <3> QED
            BY <1>1, <2>2, <3>1, ReportInv
    <2> QED
        BY <1>4, <2>1, <2>2 DEF Compile
<1>5. CASE BuildFlags
    <2>1. UNCHANGED <<mlir, vmfb>> /\ phase = "flags"
        BY <1>5 DEF BuildFlags, At
    <2>2. mlir[Base[path]] = path /\ vmfb[Base[path]] = path
        BY <2>1 DEF IInv, Phases
    <2>3. CASE flagsOf' = mlir[Base[path]] /\ GoOn("run")
        <3>1. Phases'
            BY <1>1, <2>1, <2>2, <2>3 DEF GoOn, Phases
        <3> QED
            BY <1>1, <1>2, <2>1, <2>2, <2>3, <3>1, GoOnInv
    <2>4. CASE Report(FALSE, Nothing)
        BY <1>1, <1>2, <2>1, <2>4, ReportInv
    <2> QED
        BY <1>5, <2>3, <2>4 DEF BuildFlags
<1>6. CASE Run
    <2>1. UNCHANGED <<mlir, vmfb>> /\ phase = "run"
        BY <1>6 DEF Run, At
    <2>2. vmfb[Base[path]] = path /\ flagsOf = path
        BY <2>1 DEF IInv, Phases
    <2>3. PICK ok \in BOOLEAN : Report(ok, vmfb[Base[path]])
        BY <1>6 DEF Run
    <2> QED
        BY <1>1, <1>2, <2>1, <2>2, <2>3, ReportInv
<1> QED
    BY <1>3, <1>4, <1>5, <1>6

LEMMA StepInv ==
    ASSUME IInv, [Next]_vars
    PROVE  IInv'
<1>1. CASE UNCHANGED vars
    <2>1. TypeOK' /\ Phases' /\ Counted' /\ (Ended' => todo' = <<>> /\ cases' = <<>>)
        BY <1>1 DEF vars, IInv, TypeOK, Phases, Counted, Ended, Printed
    <2> QED
        BY <1>1, <2>1, SilentStep DEF vars, IInv
<1> QED
    BY <1>1, OpenFileInv, EndInv, RunCaseInv DEF Next

-----------------------------------------------------------------------------
(* The invariant of the runner: what each phase of a case may rely on, what  *)
(* has been counted, and which pairs have a line.                            *)
THEOREM RunnerInvariant == Spec => []IInv
<1>1. Init => IInv
    BY InitInv
<1>2. IInv /\ [Next]_vars => IInv'
    BY StepInv
<1> QED
    BY <1>1, <1>2, PTL DEF Spec

(* A case passes because its own program, called by its own signature, gave  *)
(* the expected values: whatever out/ held before, however often a base name *)
(* is shared.                                                                *)
THEOREM PassesAreOwn == Spec => []OwnProgram
<1>1. IInv => OwnProgram
    BY DEF IInv
<1> QED
    BY <1>1, RunnerInvariant, PTL

(* The runner exits 0 exactly when no line says FAIL, and not before every   *)
(* pair that was read has a line.                                            *)
THEOREM ExitCodeTells == Spec => []ExitCode
<1>1. IInv => ExitCode
    <2> SUFFICES ASSUME IInv, Ended PROVE ExitCode
        BY DEF ExitCode
    <2>1. todo = <<>> /\ cases = <<>>
        BY DEF IInv
    <2>2. \A f, c : ~Left(f, c)
        BY <2>1 DEF Left
    <2>3. \A n \in 1..Len(Files) : \A k \in DOMAIN ReadCases(Files[n]) :
              HasLine(Files[n], ReadCases(Files[n])[k])
        BY <2>2 DEF IInv, Accounted
    <2>4. exit = 0 <=> \A v \in Printed : v.ok
        BY DEF IInv, Counted
    <2> QED
        BY <2>3, <2>4 DEF ExitCode
<1> QED
    BY <1>1, RunnerInvariant, PTL

(* The runner's state is of the declared types.                              *)
THEOREM RunnerTypes == Spec => []TypeOK
<1>1. IInv => TypeOK
    BY DEF IInv
<1> QED
    BY <1>1, RunnerInvariant, PTL

(* The outputs of a file that has one for every input are numbered as its    *)
(* inputs are, and so they are the second halves of the pairs.               *)
LEMMA CompletePairs ==
    ASSUME TypeOK, NEW f \in File, Len(Outputs(f)) = Inputs(f)
    PROVE  /\ DOMAIN ReadCases(f) = 1..Inputs(f)
           /\ \A k \in 1..Inputs(f) : ReadCases(f)[k] = [input |-> k, output |-> k]
<1> DEFINE O == UNION {[1..n -> 1..MaxBlocks] : n \in 0..MaxBlocks}
           s == Outputs(f)
           n == Inputs(f)
<1>1. tests[f] \in Annotation
    BY DEF TypeOK
<1>2. /\ n \in 0..MaxBlocks /\ s \in O
      /\ \A k \in DOMAIN s : s[k] <= n
      /\ \A k, l \in DOMAIN s : k < l => s[k] < s[l]
  <2> HIDE DEF O
  <2>1. Annotation =
            {t \in [inputs : 0..MaxBlocks, outputs : O] :
               /\ \A k \in DOMAIN t.outputs : t.outputs[k] <= t.inputs
               /\ \A k, l \in DOMAIN t.outputs : k < l => t.outputs[k] < t.outputs[l]}
      BY DEF Annotation, O
  <2> QED
      BY <1>1, <2>1 DEF Inputs, Outputs
<1>3. PICK m \in 0..MaxBlocks : s \in [1..m -> 1..MaxBlocks]
    BY <1>2 DEF O
<1> HIDE DEF O, s, n
<1>4. m = n
    BY <1>3 DEF s, n
<1>5. \A k \in 1..n : s[k] \in 1..n
    BY <1>2, <1>3, <1>4
<1>6. s \in [1..n -> 1..n] /\ n \in Nat
    BY <1>2, <1>3, <1>4, <1>5
<1>7. \A k \in 1..n : s[k] = k
    BY <1>2, <1>6, AscendingCounts
<1>8. ReadCases(f) = [k \in 1..n |-> [input |-> k, output |-> s[k]]]
    BY DEF ReadCases, s, n
<1> QED
    BY <1>7, <1>8 DEF n

(* When a file's inputs all have outputs, zip of the two lists pairs each    *)
(* with its own, and every one of the pairs has its line in the end.         *)
THEOREM CompleteFilesReported == Spec => []CompleteFiles
<1>1. IInv /\ ExitCode => CompleteFiles
  <2> SUFFICES ASSUME TypeOK, ExitCode, Ended, NEW n \in 1..Len(Files),
                      Len(Outputs(Files[n])) = Inputs(Files[n]),
                      NEW k \in 1..Inputs(Files[n])
               PROVE  \E v \in Printed : v.file = Files[n] /\ v.input = k /\ v.output = k
      BY DEF CompleteFiles, IInv
  <2>1. Files[n] \in File
      OBVIOUS
  <2>2. k \in DOMAIN ReadCases(Files[n]) /\ ReadCases(Files[n])[k] = [input |-> k, output |-> k]
      BY <2>1, CompletePairs
  <2>3. HasLine(Files[n], [input |-> k, output |-> k])
      BY <2>2 DEF ExitCode
  <2> QED
      BY <2>3 DEF HasLine
<1> QED
    BY <1>1, RunnerInvariant, ExitCodeTells, PTL
=============================================================================
