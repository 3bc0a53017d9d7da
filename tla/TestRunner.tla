----------------------------- MODULE TestRunner -----------------------------
(***************************************************************************)
(* run_tests.py: main runs the cases of every test file in turn; a case is  *)
(* compiled (run-iree --compile-only, which writes out/$name.mlir and       *)
(* out/$name.vmfb, $name being the file's base name), its flags are bound   *)
(* from the signature in out/$name.mlir, and out/$name.vmfb is run          *)
(* (run-iree --run-only).  The files under out/ outlive a case, so what a   *)
(* case reads there may be what an earlier one left.                        *)
(*                                                                          *)
(* The compiler, IREE and what a test says are external: each of them may   *)
(* do whatever they can do at that point.  Which values bind to which       *)
(* parameters is module EntryABI's.                                         *)
(***************************************************************************)
EXTENDS Integers, Sequences

CONSTANTS
    File,       \* the test files
    Files,      \* files: their sequence on the command line or sorted
    Base,       \* Base[f]: the base name of f
    Nothing,    \* what no test file is
    MaxBlocks   \* bound: test blocks in one file

ASSUME RunnerAssumption ==
    /\ Files \in Seq(File)
    /\ \A f \in File : f \in DOMAIN Base
    /\ Nothing \notin File
    /\ MaxBlocks \in Nat

VARIABLES
    tests,      \* tests[f]: how many inputs f has, and which of them each of
                \* its outputs belongs to
    todo,       \* the files main has yet to open
    path,       \* the file it is at
    cases,      \* the pairs of path it has yet to run
    phase,      \* where it is: "idle", "compile", "flags" or "run"
    mlir,       \* mlir[b]: whose signature is in out/b.mlir
    vmfb,       \* vmfb[b]: whose program is in out/b.vmfb
    flagsOf,    \* whose signature the flags were bound to
    verdicts,   \* the lines printed, in order
    passed, failed,
    status,     \* "running", "ended", or "raised" for a traceback
    exit        \* the exit code

vars == <<tests, todo, path, cases, phase, mlir, vmfb, flagsOf, verdicts,
          passed, failed, status, exit>>

Names == {Base[f] : f \in File}

-----------------------------------------------------------------------------
\* What test blocks say, in the order they are in: an input may be without an
\* output, as in `random input { [10]i32 }`.
Annotation ==
    {t \in [inputs : 0..MaxBlocks, outputs : UNION {[1..n -> 1..MaxBlocks] : n \in 0..MaxBlocks}] :
        /\ \A k \in DOMAIN t.outputs : t.outputs[k] <= t.inputs
        /\ \A k, l \in DOMAIN t.outputs : k < l => t.outputs[k] < t.outputs[l]}

\* re.findall: once for the inputs, which are numbered, once for the outputs.
Inputs(f) == tests[f].inputs
Outputs(f) == tests[f].outputs

\* Mutant: the pairs are one output off.
CasesShifted(f) ==
    [k \in 1..Len(Outputs(f)) - 1 |-> [input |-> k, output |-> Outputs(f)[k + 1]]]

\* Mutant: zip_longest, with no output for the inputs left over.
CasesLongest(f) ==
    [k \in 1..Inputs(f) |->
        [input |-> k, output |-> IF k <= Len(Outputs(f)) THEN Outputs(f)[k] ELSE -1]]

\* list(zip(inputs, outputs)): as many pairs as the shorter of the two has.
ReadCases(f) ==
    LET n == IF Inputs(f) < Len(Outputs(f)) THEN Inputs(f) ELSE Len(Outputs(f))
    IN  [k \in 1..n |-> [input |-> k, output |-> Outputs(f)[k]]]

Init ==
    /\ tests \in [File -> Annotation]
    /\ todo = Files
    /\ path = Nothing
    /\ cases = <<>>
    /\ phase = "idle"
    /\ mlir = [b \in Names |-> Nothing]
    /\ vmfb = [b \in Names |-> Nothing]
    /\ flagsOf = Nothing
    /\ verdicts = <<>>
    /\ passed = 0 /\ failed = 0
    /\ status = "running" /\ exit = 0

At(p) == status = "running" /\ phase = p

OpenFile ==
    /\ At("idle") /\ cases = <<>> /\ todo # <<>>
    /\ path' = Head(todo)
    /\ cases' = ReadCases(Head(todo))
    /\ todo' = Tail(todo)
    /\ UNCHANGED <<tests, phase, mlir, vmfb, flagsOf, verdicts, passed, failed, status, exit>>

\* The case ends: PASS or FAIL is printed and counted; ran is the program
\* whose output was compared.
Report(ok, ran) ==
    /\ verdicts' = Append(verdicts,
           [file |-> path, input |-> cases[1].input, output |-> cases[1].output,
            ran |-> ran, flags |-> flagsOf, ok |-> ok])
    /\ passed' = IF ok THEN passed + 1 ELSE passed
    /\ failed' = IF ok THEN failed ELSE failed + 1
    /\ cases' = Tail(cases)
    /\ phase' = "idle"
    /\ flagsOf' = Nothing
    /\ UNCHANGED <<tests, todo, path, status, exit>>

GoOn(p) ==
    /\ phase' = p
    /\ UNCHANGED <<tests, todo, path, cases, verdicts, passed, failed, status, exit>>

\* The values of a case are parsed first; a stray token is Unsupported, a
\* failure.
ParseInput ==
    /\ At("idle") /\ cases # <<>>
    /\ \/ GoOn("compile") /\ UNCHANGED flagsOf
       \/ Report(FALSE, Nothing)
    /\ UNCHANGED <<mlir, vmfb>>

\* The compilation of path.  It may fail in this backend, whose output goes to
\* out/b.mlir: none when lowering throws, all of it when the verifier behind the
\* print objects; or it may fail in iree-compile.
Built(b) == mlir' = [mlir EXCEPT ![b] = path] /\ vmfb' = [vmfb EXCEPT ![b] = path]
NotLowered(b) == mlir' = [mlir EXCEPT ![b] = Nothing] /\ UNCHANGED vmfb
NotCompiled(b) == mlir' = [mlir EXCEPT ![b] = path] /\ UNCHANGED vmfb

\* Mutant: the exit code of the compilation is not looked at.
CompileUnchecked ==
    /\ At("compile")
    /\ LET b == Base[path]
       IN  (Built(b) \/ NotLowered(b) \/ NotCompiled(b)) /\ GoOn("flags")
    /\ UNCHANGED flagsOf

Compile ==
    /\ At("compile")
    /\ LET b == Base[path]
       IN  \/ Built(b) /\ GoOn("flags") /\ UNCHANGED flagsOf
           \/ (NotLowered(b) \/ NotCompiled(b)) /\ Report(FALSE, Nothing)

\* Unsupported when there is no entry_main, or its parameters and the values do
\* not fit.
BuildFlags ==
    /\ At("flags")
    /\ \/ /\ mlir[Base[path]] # Nothing
          /\ flagsOf' = mlir[Base[path]]
          /\ GoOn("run")
       \/ Report(FALSE, Nothing)
    /\ UNCHANGED <<mlir, vmfb>>

\* The module that is there under the file's base name is run; it may fail,
\* its values may match or not, or the expected ones be Unsupported.
Run ==
    /\ At("run")
    /\ \E ok \in BOOLEAN : Report(ok, vmfb[Base[path]])
    /\ UNCHANGED <<mlir, vmfb>>

\* A nested list that has no end, run-iree that is not installed, a scalar where
\* the signature has an array, a result that ends before its text: exceptions in
\* every phase, and main catches Unsupported only.
Raise ==
    /\ status = "running"
    /\ phase = "idle" => cases # <<>>
    /\ status' = "raised" /\ exit' = 1
    /\ UNCHANGED <<tests, todo, path, cases, phase, mlir, vmfb, flagsOf, verdicts,
                   passed, failed>>

\* Mutant: the exit code says whether anything passed.
EndIfPassed ==
    /\ At("idle") /\ cases = <<>> /\ todo = <<>>
    /\ status' = "ended"
    /\ exit' = IF passed > 0 THEN 0 ELSE 1
    /\ UNCHANGED <<tests, todo, path, cases, phase, mlir, vmfb, flagsOf, verdicts,
                   passed, failed>>

End ==
    /\ At("idle") /\ cases = <<>> /\ todo = <<>>
    /\ status' = "ended"
    /\ exit' = IF failed > 0 THEN 1 ELSE 0
    /\ UNCHANGED <<tests, todo, path, cases, phase, mlir, vmfb, flagsOf, verdicts,
                   passed, failed>>

Next == OpenFile \/ ParseInput \/ Compile \/ BuildFlags \/ Run \/ Raise \/ End

Spec == Init /\ [][Next]_vars

-----------------------------------------------------------------------------
Case == [input : Nat, output : Nat]
Verdict == [file : File, input : Nat, output : Nat, ran : File \cup {Nothing},
            flags : File \cup {Nothing}, ok : BOOLEAN]

TypeOK ==
    /\ tests \in [File -> Annotation]
    /\ todo \in Seq(File)
    /\ path \in File \cup {Nothing}
    /\ cases \in Seq(Case)
    /\ phase \in {"idle", "compile", "flags", "run"}
    /\ mlir \in [Names -> File \cup {Nothing}]
    /\ vmfb \in [Names -> File \cup {Nothing}]
    /\ flagsOf \in File \cup {Nothing}
    /\ verdicts \in Seq(Verdict)
    /\ passed \in Nat /\ failed \in Nat
    /\ status \in {"running", "ended", "raised"}
    /\ exit \in {0, 1}

Printed == {verdicts[i] : i \in 1..Len(verdicts)}
Ended == status = "ended"

\* A case passes on account of its own program, called by that program's
\* signature: neither a file of the same base name nor a compilation that
\* failed makes it run what an earlier case left under out/.
OwnProgram ==
    \A v \in Printed : v.ok => v.ran = v.file /\ v.flags = v.file

\* When every input of a file has an output, each of them is reported once,
\* and is compared with its own output.
CompleteFiles ==
    Ended => \A n \in 1..Len(Files) :
        LET f == Files[n]
        IN  Len(Outputs(f)) = Inputs(f) =>
            \A k \in 1..Inputs(f) :
                \E v \in Printed : v.file = f /\ v.input = k /\ v.output = k

\* The line of the pair c of file f has been printed.
HasLine(f, c) ==
    \E v \in Printed : v.file = f /\ v.input = c.input /\ v.output = c.output

\* The exit code is 0 exactly when no FAIL was printed, and every pair of every
\* file has had its line by then.
ExitCode ==
    Ended => /\ exit = 0 <=> \A v \in Printed : v.ok
             /\ \A n \in 1..Len(Files) : \A k \in DOMAIN ReadCases(Files[n]) :
                    HasLine(Files[n], ReadCases(Files[n])[k])

\* What the runner cannot handle is reported as a failure, not silently skipped
\* (its docstring): every input of every file has its line in the end.
NotSkipped ==
    Ended => \A n \in 1..Len(Files) : \A k \in 1..Inputs(Files[n]) :
        \E v \in Printed : v.file = Files[n] /\ v.input = k

-----------------------------------------------------------------------------
\* What a phase may rely on: _run_case is only in a later one while the file's
\* build of this very case is the last one under its base name.
Phases ==
    /\ cases # <<>> => path # Nothing
    /\ phase # "idle" => cases # <<>>
    /\ phase \in {"flags", "run"} => /\ mlir[Base[path]] = path
                                     /\ vmfb[Base[path]] = path
    /\ phase = "run" => flagsOf = path

\* The counters say whether something failed, and the exit code what they say.
Counted ==
    /\ failed = 0 <=> \A v \in Printed : v.ok
    /\ Ended => (exit = 0 <=> failed = 0)

\* A pair that has no line is among those of the open file that are left, or its
\* file has yet to be opened.
Left(f, c) ==
    \/ \E i \in 1..Len(todo) : todo[i] = f
    \/ path = f /\ \E i \in 1..Len(cases) : cases[i] = c

Accounted ==
    \A n \in 1..Len(Files) : \A k \in DOMAIN ReadCases(Files[n]) :
        \/ HasLine(Files[n], ReadCases(Files[n])[k])
        \/ Left(Files[n], ReadCases(Files[n])[k])

IInv ==
    /\ TypeOK
    /\ Phases
    /\ OwnProgram
    /\ Counted
    /\ Accounted
    /\ Ended => todo = <<>> /\ cases = <<>>
=============================================================================
