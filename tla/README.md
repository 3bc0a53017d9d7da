# A verification project for mlir-backend

`mlir-backend` compiles Remora/Futhark GPU IR to MLIR, which IREE compiles and
runs; `run_tests.py` drives all of that over annotated test programs. This
directory holds TLA+ modules for the parts of it where something can go wrong
that a test would hardly reach, the TLC configurations that check them on small
instances, and TLAPS proofs of what should hold for every instance.

Paths are relative to the repository; `compiler.hpp` is
`mlir-backend/compiler.hpp`. `PROJECT.json` lists components, runs, mutants,
hazards and theorems, and maps every definition to the lines it stands for.

## Inventory

| component | state | operations | interacts with |
|---|---|---|---|
| driver, `mlir-backend.cpp` | position in `prog.funs`, exit code | parse, lower each function, print, verify | the compiler, by calls |
| functions, `LowerFunction` | memo table `functions`, symbols of the module | lower once, on demand or from main; skip black boxes | called by main and, through `LowerExp`, by itself in the middle of another function |
| statements, `LowerBody`, `LowerStm`, `LowerExp`, `LowerLoop`, `LowerSeg*` | environments (`Ctx`), the insertion point of the one shared builder, the blocks under construction | bind, look up, open a region, insert, terminate | through callbacks of MLIR's builders that run in the middle of a creation |
| emitted scans | per thread: loop index, accumulators, row; the shared output | `scf.forall`, `scf.for`, `tensor.parallel_insert_slice` | threads share one tensor |
| emitted kernels, reductions, histograms | tensors | `linalg.generic`, `iree_linalg_ext.scatter` | block arguments stand for array reads |
| entry-point ABI | `argPosition`; the values of a test, `size_val`, flags | write `futhark.size_args`; parse a test's literals, read the attribute back, bind the values | two programs, through the printed module |
| test runner, `run_tests.py` | pairs to run, counters, exit code | read blocks, compile, bind, run, compare, report | `run-iree`, by processes and by files under `out/` |
| `run-iree`, `flake.nix` | `out/$name.mlir`, `out/$name.vmfb` | compile only, run only | files found by base name |
| types and casts | the type of every value that is bound, the signature | `toShapeType`, `castToType`, the result type of each operation on arrays | types meet at calls, loops, branches, returns, and in `mlir::verify` |
| scalars | none | literals, binary operations, comparisons, conversions, primitive functions | the parser's names and casts, the compiler's choice of an MLIR operation |
| black boxes, intrinsics | none | matmul, dot_general, ragged_dot, argsort, scatter; math operations | replace calls |
| parser, `ir/parser.hpp` | none (a visitor) | parse tree to data structures | the grammar `Futhark.g4` |
| data structures, `ir/*.hpp`; debug printing | none | declarations; output | |

What is hard, and what makes each part correct:

* **Lowering.** A recursive descent with four pieces of state that no type keeps
  in step. Environments are sometimes shared by reference (branches of an if, a
  kernel and its operator, a forall and the loop in it) and sometimes copied. The
  builder is moved into regions by callbacks and taken back by guards that nest,
  also across functions. A function may be lowered in the middle of another.
  Correct means: every operand is visible where it is used, a name means what the
  program's scoping says, nothing is inserted behind a terminator, one symbol for
  each function, and a module that is printed is complete.
* **Emitted scans.** Threads write one shared tensor; the operator need not
  commute; the first tensor is uninitialised; the extent may be zero. Correct
  means: the result is the scan of every row, whatever the interleaving, and the
  program ends.
* **Entry-point ABI.** The compiler and a Python script agree on positions by
  convention. What a test writes for one parameter may be several values to the
  runner. Correct means: each parameter gets the value the test means, or the test is
  refused.
* **Test runner.** Files outlive cases and are found by base name, any phase may
  fail, inputs and outputs are two lists paired by position. Correct means: a
  PASS is about the program it names, nothing is lost, and the exit code tells.
* **Kernels.** Reads at thread ids are pulled out of the kernel and become inputs.
  The operation has no extents of its own, its loops get theirs from its operands.
  Correct means: the emitted operation runs over the kernel's space and computes
  what the kernel says.

* **Histograms.** Every thread updates a bin that its own index names, so several
  meet in one. Correct means: no update is lost or applied twice, and where the
  operator is not associative each bin still is the result of some order.
* **Types, shapes and casts.** A size is a constant or a variable, and the compiler
  knows the constants only. What it knows of a value decides which operations it
  may create later. Correct means: a type is true of the tensor it is given to, the
  tensor is the array the program means, and nothing that has constant sizes is
  refused after it has been printed.
* **Scalars.** A literal goes through three representations, an operation through
  two names. Correct means: what runs computes what Futhark says, and what cannot
  be lowered is refused before anything is printed.

There is no concurrency in the compiler and nothing in it is persisted; only the
code it emits runs threads, and only the runner leaves files behind.

## Plan

The order is that of importance: the state of the lowering first, since whatever
it gets wrong is wrong in every program; then the one emitted construct with
threads; then the interfaces between programs.

1. `Lowering`, `LoweringProofs`: driver, functions, statements, regions. *Done.*
2. `ScanSpec`, `SegScan`, `SegScanProofs`: the emitted scan implements the
   abstract one. *Done.*
3. `TestRunner`, `TestRunnerProofs`; `EntryABI`, `EntryABIProofs`. *Done.*
4. `Kernel`, `KernelProofs`: the linalg.generic of a map or a reduction with its
   affine reads made block arguments, run, against the kernel as written. *Done.*
5. `HistSpec`, `SegHist`, `SegHistProofs`: the kernel and the scatter of a histogram
   implement the abstract one. *Done.*
6. `Scalars`, `ScalarSpec`, `ScalarsProofs`: scalar operations and literals from the
   text to a value, against what Futhark means. *Done.*
7. `Arrays`, `ArraysProofs`: types, shapes, casts and contents of arrays, the shapes
   of `matmul`, `dot_general` and `ragged_dot` among them. *Done for ranks 1 and 2.*
8. Left: kernels with several results and mapped-out results of reductions and
   scans; argsort and scatter.

Abstract specifications are those of the parallel operations of the IR (`ScanSpec`,
`HistSpec`) and of its scalar operations (`ScalarSpec`).

## Modules

### Lowering

One state is one moment of the descent. `stack` is the C++ call stack, a frame
for each region that is being filled: its kind, the block, the environment `env`
as the code has it, the pattern of the statement it belongs to, the operands
looked up before the region was begun, and the insertion point its guard will
restore. `nest` gives each block the blocks whose values it may use, `closed` the
blocks with a terminator, `ip` the builder's insertion point, `functions` the memo
table, `module` the symbols. `ops` holds the operations of the last step only:
each property of an operation is a property of the step that inserts it, and the
history would only multiply states. `lex` is no state of the code: it is what the
scoping rules give every name, and so the specification of `env`.

The program is not a constant. In every state, any statement a well-scoped program
could have next may come next; the names it binds are new in its function, as
Futhark's front end numbers them. An operation is given every name in scope as
operand, the hardest case for Dominance. Data is abstracted: types, shapes and
which scalar operation it is.

| action | code |
|---|---|
| StartFunction, SkipFunction, PrintModule | main's loop, the early returns of `LowerFunction`, the print |
| CallNewFunction, CallLoweredFunction, ReturnToMain, ReturnToCaller | `ExpApply` and `LowerFunction` |
| LowerOp, LowerAlias | `LowerBasicOp` and intrinsics; `ExpSubExp` |
| CallBlackBox | `LowerMatMul`, `LowerDotGeneral`, `LowerRaggedDot`: no symbol, operations in place of the call |
| LowerWithRegions | `createIota`, `LowerArgSort`, `LowerScatter`: one or two regions filled and closed within one statement |
| OpenIf, OpenElse, CloseIf | `ExpIf`: both branches get the environment by reference |
| OpenLoop, CloseLoop | `LowerLoop`: a copy |
| OpenKernel, CloseMap, OpenCombine, CloseHist, EnterReduceOp, CloseRed | `LowerSegMap`, `LowerSegHist`, `LowerSegRed` |
| OpenForall, OpenScan, EnterScanOp, EnterPostOp, CloseScan | `LowerSegScan`: two regions, two guards, a captured environment and two copies of it |
| Unsupported, HoistUnboundArray | `Undefined()`, `Env::lookup` of an unbound name: nobody catches them, the process ends |

### ScanSpec and SegScan

`SegScan` is the code `LowerSegScan` emits, run. A thread for each row of the
`scf.forall` (one thread, with an empty index tuple, when the scan has one
dimension) goes through start, loop, insert and done; an iteration of the loop is
a step, since a thread's own loop cannot be seen from outside, but the insertion
of a row takes a step for each element. The kernel is any function of the thread
ids (`elems`), the operator and post_op are constants. `ScanSpec` makes the whole
result appear in one step. The refinement mapping is the identity on `width`,
`elems` and `result`. The tuple of the scan's values is one value.

### TestRunner

`main` and `_run_case` with everything they call; `mlir` and `vmfb` are the files
under `out/`, as whose program they hold. The compiler, IREE and the tests'
contents are external: every outcome they can have is a disjunct (compiled; not
lowered, when the redirected output is empty; not compiled, when the module is
there but the old vmfb stays; an exception `main` does not catch, `Raise`, in any
phase). A case ends with a verdict that records, beside
the line that is printed, whose program ran and whose signature was used.

### EntryABI

`Init` picks an entry point (parameters as Futhark's front end orders them:
inferred sizes first, every size before its use) and a test of it, which has literals
for the last of the parameters the programmer wrote, all or fewer. A literal is made
of numbers with a type, is an `empty(...)`, or has something else in it: a boolean,
or an array's numbers without a type. `Parse` is `_parse_values`, a literal a step:
the brackets within `empty([0]i32)` make it three values, and that of a boolean or of
untyped numbers is one that `_strip_suffix` or `_elem_type` refuses later
(`Unreadable`). `Annotate` is the loop of `LowerFunction`, the other actions are the two
loops of `_build_flags`, one parameter a step, with the three ways they fail:
Unsupported, the IndexError of `_shape` on a list without elements (`Shapeless`) or
without the dimension it is asked for, and a value that is missing. FlagsMeanTheTest is
about flags that are built; EntryHandled says when they are not: never for a test of what
the programmer wrote in literals the runner reads, always where a literal is not one of
these, and an exception other than Unsupported comes only from an array without elements.

### Kernel

`Init` picks a kernel: a space, statements that read an array or apply a scalar
operation, a result, the shapes of the arrays. `Find` is `FindSegOpAffineReads`, a
statement a step; `LowerGeneric` puts inputs, index maps, output and loops
together; `Reject` is `mlir::verify` on what has no extent for some loop, or
constant extents that disagree. Then the operation runs: `Enter` binds block
arguments and thread ids at a point as `LowerSegOpKernelBody` does, `Execute` is a
statement that has not been hoisted, `Yield` stores the result or applies the
reduction's operator. A map may run its points in any order, a reduction runs a row
from its beginning; two points never run at once, since they share nothing but the
accumulator. (IREE may split a reduction, which is right for associative operators
only; that is its own and Futhark's affair.) How a linalg.generic gets its loops from
its operands, and that it runs its region at every point, is MLIR's semantics and
marked external.

### HistSpec and SegHist

`SegHist` is what `LowerSegHist` makes of a histogram, run: the actions `Refuse` and
`Emit` are the compiler's (a histogram that has not rank 1, one operator, one index
and one value meets `Undefined`), `Compute`
is the `linalg.generic` that yields an index and a value per thread, `Fetch` and
`Combine` are the read and the write of an update in the region of the
`iree_linalg_ext.scatter`. Whether two updates may overlap is decided by
`UniqueIndices`, the last argument the compiler gives to the operation. `HistSpec`
applies whole updates, one at a time and in any order; it may refuse a histogram that
has not this form and need not, so a compiler that lowered it would implement it as
well. The mapping sends an update
to the moment it is written. The operator commutes and is not associative, as
Futhark requires the first and the model should not profit from the second; that an
index names a bin is assumed (`HistAssumption`), for what the scatter does with
another is not in the repository.

### Scalars and ScalarSpec

A state is about a function whose body is one scalar operation. `Init` picks any
operation Futhark prints, at every type it has, applied to parameters or to
literals, on every operand; `Parse` is the visitor with its casts, `Lower` the choice
of the MLIR operation (`MlirBinOp`, `MlirCompare`, `MlirConversion`, `MlirIntrinsic`)
and of the result type, `Undefined` what meets an exception, `Verify` the check of
types, `Run` the operation as MLIR defines it. `ScalarSpec` says what the operation
means: as relations (a quotient is within one divisor, a maximum is an operand that
is not exceeded), not as a second way to compute it. What floating-point arithmetic
yields is a term, in which the operation and its operands' order show. Names of
primitive functions are runs of letters, digits and underscores, which is what
`IntrinsicBaseName` tells apart: `log10_64` but `sqrt64`.

### Arrays

A function with an array as parameter, lowered a statement at a time, and its run
along with it: for each value `env` has Futhark's type (sizes that are constants or
variables), the compiler's (`static`, with `Dyn` for what is no constant), the tensor
it will be and the array it should be. An operation is thus lowered from the
compiler's types, computes on the tensors and is compared with the array. What MLIR
would refuse is lowered like the rest, as the compiler does, and `verifies` remembers.
Statements are iota, replicate and copy, scratch, rearrange, reshape, concat, array
literals of scalars, indices and slices, a call of a function that returns its
parameter, a loop, an if, the black boxes `matmul`, `dot_general` and `ragged_dot`
(whose elements are opaque, but not their shapes) and the end of the function.

## Runs

| run | instance | checks |
|---|---|---|
| lowering_calls | 3 functions, one a black box, one needed before or after main reaches it; a constant, a parameter, 3 new names; 5 blocks | Dominance, InsertionPoint, Symbols, PrintedModule, IInv |
| lowering_regions | 1 function, 6 new names, 5 blocks | TypeOK, Dominance, LexicalScoping, OpenBlocks, SealedBlocks, IInv |
| seg_scan | 2 rows of 0 to 2 elements; the 4 functions on 2 points as values, composition as operator | TypeOK, IInv, IsSegScan (with termination), WrittenOnce |
| test_runner | 3 files, two of one base name; up to 2 inputs and outputs each | TypeOK, OwnProgram, CompleteFiles, ExitCode, IInv |
| test_runner_skipped | 1 file, 1 input | NotSkipped, violated |
| entry_abi | 2 written parameters of rank up to 2, 2 size names (interchangeable), extents 0, 2 and 3, up to 2 inferred sizes; literals the runner reads and others | TypeOK, FlagsMeanTheTest, EntryHandled |
| kernel | 1 or 2 dimensions of extent 0 or 2, static or not; up to 2 statements over a vector, a matrix and a scalar from outside; 5 scalars, operation and operator that do not commute | TypeOK, IterationSpaceIsSegSpace, KernelMeaning |
| kernel_larger | 1 dimension of extent 2, a vector of 2 or 3 | IterationSpaceIsSegSpace, violated |
| seg_hist | up to 3 threads, 2 bins, 3 values, an operator that commutes and is not associative, every form | TypeOK, IInv, IsHistogram (with termination) |
| scalars | integers of 2, 3, 4 and 5 bits for i8 to i64; 6 halves, infinities and NaN | TypeOK, ScalarMeaning, OnlyTheseRefused |
| arrays | a parameter of rank 1 or 2 and up to 2 statements; sizes 0, 2, 3, each a constant or a variable; elements modulo 16 | TypeOK, TypesDescribe, ArrayMeaning, ConstantsStayKnown, ConstantShapesVerify |
| arrays_reshape | the same with one statement, sizes 2 and 3, reshapes that keep the rank | RemainderIsShape, violated |

Bounds. `MaxBlocks`, `MaxPattern` and the number of new names bound the program
that is lowered, not the compiler. Five blocks and six names hold a whole scan
(two blocks, and names for its ids, accumulator, element, output and result), a
histogram's two regions, and any two region statements nested in each other; a
shared environment shows with one name that leaks and one that follows. Binding
one name at a time is enough since names of one pattern are treated alike, and
new names are taken in one order (the constraint `InOrder`) since they are
interchangeable. Three functions suffice for a callee that main has yet to reach,
one it has passed, and one that is a black box; lowering nests as deep as the
blocks allow. Composition of functions on two points is associative, has a neutral
element and does not commute; two threads and two elements are enough for an
insertion to fall between two of the other thread. Two files with one base name
and one between them give every way to find a file that is not one's own. Two statements
are a hoisted read and one that stays and uses it, or two reads of one array or
two, transposed or on the diagonal; `MaxExcess` is by how much an array may be
longer than the space that reads it, 0 in the run kernel. Two written parameters and
two sizes are a size that is inferred and shared, one that is written and used, and one
`empty(...)` whose pieces reach into the other parameter; the extent 0 is an array without
elements. Three threads of a
histogram are three updates that meet in one bin. Widths of integers are scaled
down and all different (the constant `Top` gives the weight of each type's top bit, 2 to
16 instead of 2^7 to 2^63), so that what depends on the order of widths, on a sign or
on the top bit shows as it would at 8 to 64 bits, and every operand can be taken;
the halves have ties of both kinds and both signs. In `Arrays`, `MaxVars` counts the
names bound, the parameter included: two statements are a value and what is done with
it, and a statement uses the value bound last. `MaxSize` cuts off sums of sizes,
and extents of 0, 2 and 3 tell an empty dimension and the two dimensions of a matrix
apart. No product of two of them but 0 is one of them, so in the run a matrix becomes a
vector by a reshape, or the other way round, only when it is empty; MeaningOfArrays
covers the others. `Respliced` admits reshapes that keep the rank and change the shape, which the
run arrays leaves to arrays_reshape. The theorems cover what lies beyond the bounds
of the modules they are about.

Deadlock is not checked: a compiler, a runner and an emitted program end. That
the scan does not stop early is part of IsSegScan.

Fairness. None is assumed of `Lowering`, `TestRunner`, `EntryABI`, `Kernel`, `Scalars`
and `Arrays`: all that is claimed of them is safety (the runner has no timeout, so nothing would justify
more). `SegScan!FairSpec` has weak fairness of every thread and of Join: an
`scf.forall` has the meaning that all of its iterations are executed and that its
result is there when they are. `SegHist!FairSpec` has weak fairness of the whole
next-state relation: the compiler ends, and an operation runs at all of its points.

## Theorems

All are proved from the named assumptions on the constants alone, which say what
the code and the front end guarantee (`LoweringAssumption`, `ScanAssumption`,
`HistAssumption`, `RunnerAssumption`, `ABIAssumption`, `KernelAssumption`,
`ArraysAssumption`, `ScalarAssumption`), and so for any number of functions, names,
blocks, rows, values, files, parameters, dimensions of a space, statements, sizes and
widths of integers. Four theorems have one more hypothesis, the value of a constant that admits a case the code does not
handle (below).

* `LoweringProofs`. The invariant is a statement about the whole stack. A frame
  (GoodFrame) has an open block that sees itself, and an environment that agrees
  with the scoping rules on every name in scope, with values of blocks its own
  block sees. Two neighbours (GoodLink) agree on where the upper one will return
  to, the pattern waiting there is of names nobody has bound, and all that is
  visible below is visible above, unless a function begins. A leaked name may be
  in `env`, but only a name that has been used: since binders are new, it is
  never the one that comes next. Block numbers grow along the stack, so no two
  frames share a block. With `Blocks` (every block is closed or on the stack) and
  `Memo` (memo table and symbol table agree) this is inductive, and yields Dominance,
  LexicalScoping, InsertionPoint, OpenBlocks, Symbols, PrintedModule and the action
  property SealedBlocks.
* `SegScanProofs`. `Carried`: there is a sequence of accumulators of which thread r
  has gone through the first `scanIndex[r]`. The sequence is a witness of the
  invariant, never computed by recursion, so no induction over data is needed: an
  iteration extends it by one value. `Copied`: what is in the shared output is a
  prefix of the thread's own row. Together they give Join its abstract step
  (ImplementsScan) and the other theorems.
* `SegHistProofs`. An update that has read its bin holds what the bin still has, for
  no other may run between its read and its write (IInv); so a write is one whole
  update of HistSpec (ImplementsHist), for any number of bins and threads.
* `TestRunnerProofs`. `Phases`: in a phase behind the compilation, the files under
  the base name are this case's. `Accounted`: a pair of a file is reported, still
  in the open file's list, or its file has not been opened.
* `EntryABIProofs`. `Entry` says what the front end guarantees of the parameters:
  names are distinct, a dimension's name comes before it, an inferred size is in the
  shape of a parameter the programmer wrote. `Known` and `Refers`: a position the
  compiler has noted or written is that of a parameter of that name. `Aligned` says that
  no literal is an `empty(...)`; then each value stands where its parameter does
  (`InOrder`), and otherwise there is one among the values that no flag can be built of
  (`InPieces`): `ReadSoFar` is the disjunction. `Passed` says that the values behind the
  last loop were readable, so when all are, the test was aligned (`AllPassed`) and every
  literal was one of numbers. `SizesRight`: a size the runner has read is an
  extent, and the test's if that is aligned; the last dimension to speak of it exists by
  the well-foundedness of the naturals, and since all that speak of it agree it does
  not matter which it is. `Annotated` and `Said`: every array passed has been
  annotated and read. So when a size of an aligned test is due it is there, unless the test
  supplies other parameters than the programmer wrote, and `Flagged` (the flags so far are
  the values of the first parameters) is kept; FlagsMeanTheTest and EntryHandled follow.
* `KernelProofs`. `GoodKernel` is what the front end guarantees of a kernel, `Found`
  says that the reads hoisted so far are those of the affine statements so far,
  `Covered` that the loops are the space's, or longer where an array is. The centre
  is `Computed`: at a point that has been entered, each statement that is behind the
  thread, and each that was hoisted, has the value the kernel gives it there. (A
  hoisted one may come later in the kernel than a statement that stays; that this
  changes nothing rests on names being bound once.) A map then stores the kernel's
  value (`Stored`). A reduction goes through a row in order (`Turn`), and `Through`
  gives it a sequence of accumulators as a witness, as in the scan: KernelMeaning
  asks for a sequence that begins with the neutral element and goes on by the
  operator, and the run leaves it behind. IterationSpace and MeaningOfKernels have the hypothesis `MaxExcess = 0`, no
  array longer than the space, for that is the case where the code and its comment
  part (below). MeaningWhereLoopsFit does without it: a map is right, however long
  its arrays are, and a reduction whenever the loops are the space.
* `ArraysProofs`. The invariant has three layers. `Typed` holds always: a type has a
  size for each dimension, a size Futhark knows to be a constant is known, the array
  meant has Futhark's sizes. Where everything verifies, `Described`: what is known
  of a size is right. And without reshapes that keep the rank, `Computed`: the
  tensor is the array meant. That every statement keeps them is a lemma or several
  per kind of value (slices, concatenations, transposes, reshapes and so on); for
  reshapes it rests on row-major order being a bijection (`RowMajor`), for iota
  on sums and products that wrap around at every step (`RemainderOfSteps`). In the other
  direction, constant sizes make everything verify: the casts at
  calls, loops and the end of a function are between equal types, and the operands of
  a concatenation agree where they must (ConstantSizesVerify, for reshapes of every
  kind). TypesDescribeTensors and MeaningOfArrays have the hypothesis
  `Respliced = FALSE`, no reshape that keeps the rank and changes the shape, for the
  code leaves such a reshape out where sizes are variables (below). Sizes and
  the number of statements are arbitrary in these theorems; the ranks are 1 and 2, as
  in the model.
* `ScalarsProofs`. The invariant (IInv) goes phase by phase: what the parser leaves
  (`Parsed`), what the compiler makes of it (`Lowered`), and what verification and
  execution make of that are functions of the source, save what C++ leaves undefined
  about an f16. The rest is what those functions are, one lemma for each form of
  operation (`IntegerBinaryRight`, `CompareRight`, `ConvertRight`, `ApplyRight` and so on).
  They rest on four groups of lemmas. Arithmetic on patterns and on numbers wraps around
  in the same way, for two numbers with one remainder that lie within one modulus are
  the same (`OneRemainder`, `WrappedIs`, `SameBits`). A literal survives the visitor's cast,
  the `uint64_t` it becomes and the attribute that keeps its low bits, since the number of
  patterns of each type divides that of i64 (`CutTwice`, `IntegerLiteral`). A quotient of
  magnitudes with its sign is the one that rounds towards zero, or upwards, and stays in the type unless the smallest
  number is divided by -1 (`Truncated`, `RoundedUp`). A name with its width gives back the
  name, whether or not a digit before it needs an underscore (`SuffixedFacts`). Widths
  are in all of this the weights of the top bits (`Top`), each a multiple of the one below
  it, of which the powers of two are a case: the provers know nothing of `2^n`.
  What is proved of a function applied to literals of type f16 has the hypothesis of
  ScalarMeaning itself, that they are natural numbers (`Exact`).

Induction is not at hand (its theorems take an operator), but the naturals are well
founded: a set of numbers has a least one (`LeastNumber`), so what fails, fails first
somewhere. From that come, where they are needed: a greatest number up to a bound
(EntryABIProofs), a lexicographically first pair, the operand a loop takes its extent
from (KernelProofs), and that n ascending positions among 1 to n are the numbers
themselves (`AscendingCounts` in TestRunnerProofs, on which CompleteFilesReported rests:
a file with as many outputs as inputs pairs each with its own).

Every invariant and action property the passing runs check is also a theorem.
Model-checked only: termination of the scan and of the histogram (the liveness half of
IsSegScan and IsHistogram), which rests on fairness and so is out of the prover's reach.

## Disagreements between docs, tests and code

Three have a run that shows them; two more are visible in the models as they stand.

`run_tests.py:19-21` says that what the runner cannot handle is reported as a
failure and not silently skipped. `_read_cases` pairs inputs with outputs by `zip`
(`run_tests.py:261`), which drops an input that has no output:
`tests/matmul_static_shape.fut` and `tests/reduce_static_shape.fut` have such
blocks, print no line and do not count. The run test_runner_skipped shows it with
one file. CompleteFiles says what remains true: where every input has an output,
each pair is compared.

The comment at the head of `LowerSegMap` (`compiler.hpp:1116`) says that the
operation's iteration space corresponds to the SegSpace. It does when the arrays
that are read at thread ids have the extents of the space. When one is longer, as
in `tabulate 2 (\i -> xs[i])` over three elements, the loops get the array's extent,
because an array is the first operand they are indexed by. Constant extents disagree
then and the verifier refuses the module; dynamic ones are taken as they are. The
run kernel_larger shows it; the run kernel checks what holds without such arrays.

A comment in the lowering of a reshape (`compiler.hpp:908`) says that `remainder` is
the whole shape the reshape produces. The reshape is left out when the result's type
equals the operand's (`compiler.hpp:914`), and two matrices whose sizes are variables
have one type whatever the sizes are: a 2 by 3 matrix that should become 3 by 2 stays
as it is. The run arrays_reshape shows it. Without reshapes that keep the rank and
change the shape, ArrayMeaning holds (run arrays).

`tests/hist2d.fut` and `tests/hist3d.fut` ("SegHist with 2-D indices", "SegHist with 3-D
indices", line 1 of each) expect the results of histograms of several indices.
`LowerSegHist` meets `Undefined` on them, for their kernel has more than two results
(`compiler.hpp:1299-1300`), so both tests fail when they are compiled. It takes one
step, `Refuse` of SegHist, and needs no search. HistSpec does not ask for the
refusal: it promises the bins of every form and lets one that is not simple be refused,
so IsHistogram says of these two tests only that no wrong result comes out.

`run_tests.py:19-21` says that a test with `empty(...)` is reported as a failure. The
literal is several values to `_parse_values`; there may be as many values as parameters, as with two
arrays of inferred sizes, and then one of an array's is a lone token, of which `_shape`
is `[]`: indexing it (`run_tests.py:300`) is an IndexError, which `main` does not catch, and the
run ends without the remaining cases. The same comes of `[]`, whose `_shape` takes the
first element of an empty list (`run_tests.py:110`). EntryHandled names the tests that can do this, those with an
array without elements, and TestRunner's `Raise` is how the run ends.

## Not modelled

Lowering is about environments, blocks and symbols and takes types as given; Arrays
and Scalars are about types and values and take scoping as given. Left out of Arrays:
ranks above 2, array literals of arrays, addition and multiplication of whole tensors
(`compiler.hpp:1748-1765`), Manifest, argsort and scatter, the elements black
boxes compute, and a constant size 0 beside a variable one in a reshape (MLIR divides by the
product of the constants). That `mlir::verify` accepts every `tensor.extract_slice` of
`LowerIndex` is assumed: whether it checks constant offsets and sizes against a constant
dimension, and what it then says of an empty slice at the very end of one, is MLIR's own.
What `getReassociationIndicesForReshape` finds when sizes are
dynamic is any answer it may give. Left out of Scalars: division by zero and overflow of
a quotient (Futhark checks or forbids them), numbers no double holds (for which
`std::stod` throws), and literals of type f16 that are no natural numbers: those are cut to a
`uint16_t`, which the code marks as a TODO, and ScalarMeaning excepts them; the model
has them with what C++ leaves undefined about them. Left out of SegHist: indices out
of range; histograms of other forms are there and refused.

Not modelled at all: kernels with several results, the part of the parser that copies a
tree into structures, IREE itself, the GPU targets of `run-iree`,
formatting and comparing of numbers in the runner, `debug.hpp`. Hazards that no
property covers are listed with the reason in `PROJECT.json`.
