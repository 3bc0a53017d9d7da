------------------------------ MODULE Lowering ------------------------------
(***************************************************************************)
(* FutharkCompiler (mlir-backend/compiler.hpp) driven by main: the lowering *)
(* of every function of a GPU IR program to one MLIR module.  The compiler  *)
(* is a recursive descent over the program with four pieces of state that   *)
(* have to stay in step: the environments (Ctx, passed by reference to some *)
(* recursive calls and copied for others), the insertion point of the one   *)
(* shared builder (saved and restored by InsertionGuards), the memo table   *)
(* `functions`, and the blocks of the module under construction.            *)
(*                                                                          *)
(* The C++ call stack is the sequence `stack`, one frame for each region    *)
(* that is being filled.  The program is not fixed in advance: every action *)
(* picks the next statement of the body being lowered, over all statements  *)
(* a well-scoped program could have there.  Data (types, shapes, constants, *)
(* which scalar operation) is abstracted: an operation is the block it was  *)
(* inserted in, the values it uses and the functions it calls.              *)
(***************************************************************************)
EXTENDS Integers, Sequences, FiniteSets

CONSTANTS
    Fun,          \* names of the functions of the program
    ProgFuns,     \* prog.funs, in the order main lowers them
    BlackBoxFun,  \* the functions with a blackbox attribute
    Name,         \* names of variables
    Consts,       \* names bound by prog.consts
    Params,       \* Params[f]: names of the parameters of f
    NoValue,      \* what an unbound name is mapped to
    MaxPattern,   \* bound: names bound by one pattern or parameter list
    MaxBlocks     \* bound: blocks of the module

\* A value is named by the block it is defined in and the binder it is for.
Value == [at : Nat, of : Name]

ASSUME LoweringAssumption ==
    /\ NoValue \notin Value
    /\ ProgFuns \in Seq(Fun)
    /\ \A f \in Fun : \E i \in 1..Len(ProgFuns) : ProgFuns[i] = f
    /\ BlackBoxFun \subseteq Fun
    /\ Consts \subseteq Name
    /\ Params \in [Fun -> SUBSET Name]
    /\ MaxBlocks \in Nat

VARIABLES
    todo,       \* the functions main's loop has yet to reach
    functions,  \* the domain of the memo table
    module,     \* the symbols of the module, in insertion order
    nest,       \* nest[b]: block b and the blocks whose values it may use
    ops,        \* the operations inserted by the last step
    closed,     \* the blocks that have a terminator
    ip,         \* the block the builder inserts into
    stack,      \* the lowering calls in progress, innermost last
    used,       \* used[f]: names bound so far in f
    status      \* "running", "printed", "unsupported" or "unbound"

vars == <<todo, functions, module, nest, ops, closed, ip, stack, used, status>>

-----------------------------------------------------------------------------
TopLevel == 0   \* the module's own body, outside every function

Op == [at : Nat, uses : SUBSET Value, calls : SUBSET Fun]

\* An environment: Env<std::string, mlir::Value>.
Ctx == [Name -> Value \cup {NoValue}]
Empty == [n \in Name |-> NoValue]
Bound(m) == {n \in Name : m[n] # NoValue}

Kind == {"function", "then", "else", "loop", "map", "hist", "combine",
         "red", "redop", "forall", "scan", "scanop", "post"}

(***************************************************************************)
(* env is the Ctx of the C++ call; lex is what the scoping rules of the     *)
(* program give each visible name, so lex is a specification of env.  pat   *)
(* is the pattern of the statement that opened the frame; uses are the      *)
(* operands of the operation the frame's region belongs to, looked up       *)
(* before the region is built; saved is the insertion point the frame's     *)
(* InsertionGuard restores.                                                 *)
(***************************************************************************)
Frame == [kind : Kind, fun : Fun, block : Nat, lex : Ctx, env : Ctx,
          pat : SUBSET Name, uses : SUBSET Value, saved : Nat]

Depth == Len(stack)
Top == stack[Depth]
Below == stack[Depth - 1]

\* Env::insert of every name of ns, for values defined in block b.
Bind(m, ns, b) ==
    [n \in Name |-> IF n \in ns THEN [at |-> b, of |-> n] ELSE m[n]]

\* Env::insert of one name for an existing value.
Alias(m, n, v) == [m EXCEPT ![n] = v]

\* LowerSubExp of the names of ns.
LookUp(f, ns) == {f.env[n] : n \in ns}

Emit(b, us) == {[at |-> b, uses |-> us, calls |-> {}]}
EmitCall(b, us, g) == {[at |-> b, uses |-> us, calls |-> {g}]}

\* An expression may name anything in scope.  An operation is given all that it
\* may use, the hardest case for whoever checks its operands.
Scope(f) == Bound(f.lex)

\* Mutant: Env::lookup that hands out a null value for a name that is unbound.
UncheckedOperands(f) == LookUp(f, Name)

Operands(f) == LookUp(f, Scope(f))

\* New names: all binders of a function are distinct, the front end numbers them.
Fresh == Name \ used[Top.fun]
Pattern == {ns \in SUBSET Fresh : Cardinality(ns) \in 1..MaxPattern}
Reserve(ns) == used' = [used EXCEPT ![Top.fun] = @ \cup ns]

BindPattern(f, ns, b) ==
    [f EXCEPT !.lex = Bind(@, ns, b), !.env = Bind(@, ns, b)]
NewBlock == Len(nest) + 1
NewBlocks(m) == NewBlock..Len(nest) + m
NestedBlock(b) == Append(nest, nest[b] \cup {NewBlock})

\* The calls above frame d return, and f is what has become of frame d.
PopTo(d, f) == Append(SubSeq(stack, 1, d - 1), f)
Replace(f) == PopTo(Depth, f)

\* The frame being filled is of one of these kinds.
Filling(kinds) ==
    /\ status = "running"
    /\ stack # <<>>
    /\ Top.kind \in kinds

\* The frames whose regions are filled with the statements of a body.
Body == Kind \ {"forall"}

-----------------------------------------------------------------------------
Init ==
    /\ todo = ProgFuns
    /\ functions = {}
    /\ module = <<>>
    /\ nest = <<>>
    /\ ops = {}
    /\ closed = {}
    /\ ip = TopLevel
    /\ stack = <<>>
    /\ used = [f \in Fun |-> {}]
    /\ status = "running"

-----------------------------------------------------------------------------
(* The driver, and the functions it and LowerExp ask for.                    *)

Visible(f) == Consts \cup Params[f]

\* Mutant: the constants of the program are lowered once, in the first function.
SharedConstsCtx(f, b) == Bind(Bind(Empty, Consts, 1), Params[f], b)

\* The environment of the entry block b: the constants of the program are
\* lowered again in every function.
FunctionCtx(f, b) == Bind(Empty, Visible(f), b)

\* LowerFunction past its early returns: a symbol at the end of the module,
\* memoised before its body is lowered; an entry block that sees nothing of
\* the other functions.
EnterFunction(f, pat) ==
    /\ functions' = functions \cup {f}
    /\ module' = Append(module, f)
    /\ nest' = Append(nest, {NewBlock})
    /\ ip' = NewBlock
    /\ LET ctx == FunctionCtx(f, NewBlock)
       IN  stack' = Append(stack,
               [kind |-> "function", fun |-> f, block |-> NewBlock,
                lex |-> ctx, env |-> ctx, pat |-> pat, uses |-> {},
                saved |-> ip])
    /\ ops' = UNION {Emit(NewBlock, {}) : c \in Consts}
    /\ UNCHANGED closed

\* Mutant: main lowers a function again that a call needed before.
StartFunctionAgain ==
    /\ status = "running" /\ stack = <<>> /\ todo # <<>>
    /\ Head(todo) \notin BlackBoxFun
    /\ Len(nest) < MaxBlocks
    /\ EnterFunction(Head(todo), {})
    /\ used' = [used EXCEPT ![Head(todo)] = Visible(Head(todo))]
    /\ todo' = Tail(todo)
    /\ UNCHANGED status

\* main's loop reaches a function that still has to be lowered.
StartFunction ==
    /\ status = "running" /\ stack = <<>> /\ todo # <<>>
    /\ Head(todo) \notin BlackBoxFun \cup functions
    /\ Len(nest) < MaxBlocks
    /\ EnterFunction(Head(todo), {})
    /\ used' = [used EXCEPT ![Head(todo)] = Visible(Head(todo))]
    /\ todo' = Tail(todo)
    /\ UNCHANGED status

\* Mutant: the first function that is skipped ends main's loop.
SkipFunctionsLeft ==
    /\ status = "running" /\ stack = <<>> /\ todo # <<>>
    /\ Head(todo) \in BlackBoxFun \cup functions
    /\ todo' = <<>>
    /\ ops' = {}
    /\ UNCHANGED <<functions, module, nest, closed, ip, stack, used, status>>

\* LowerFunction's early returns: a black box, or a function that a call met
\* earlier already caused to be lowered.
SkipFunction ==
    /\ status = "running" /\ stack = <<>> /\ todo # <<>>
    /\ Head(todo) \in BlackBoxFun \cup functions
    /\ todo' = Tail(todo)
    /\ ops' = {}
    /\ UNCHANGED <<functions, module, nest, closed, ip, stack, used, status>>

\* An application of a function that has not been lowered: LowerExp lowers it
\* before it looks the arguments up.
CallNewFunction ==
    /\ Filling(Body)
    /\ Len(nest) < MaxBlocks
    /\ \E f \in Fun \ (BlackBoxFun \cup functions), pat \in Pattern :
          /\ EnterFunction(f, pat)
          /\ used' = [used EXCEPT ![f] = Visible(f), ![Top.fun] = @ \cup pat]
    /\ UNCHANGED <<todo, status>>

\* An application of a function in the memo table.  Futhark has no recursion:
\* no function applies one that is still being lowered.
CallLoweredFunction ==
    /\ Filling(Body)
    /\ \E f \in functions, pat \in Pattern :
          /\ \A i \in 1..Depth : stack[i].fun # f
          /\ ops' = EmitCall(ip, Operands(Top), f)
          /\ stack' = Replace(BindPattern(Top, pat, ip))
          /\ Reserve(pat)
    /\ UNCHANGED <<todo, functions, module, nest, closed, ip, status>>

\* The end of a function's body: a return, and the guard takes the builder
\* back to where it was: to main, or to the expression that needed the
\* function, which now looks its arguments up and inserts the call.
ReturnToMain ==
    /\ Filling({"function"}) /\ Depth = 1
    /\ ops' = Emit(ip, Operands(Top))
    /\ closed' = closed \cup {ip}
    /\ ip' = Top.saved
    /\ stack' = <<>>
    /\ UNCHANGED <<todo, functions, module, nest, used, status>>

\* Mutant: no InsertionGuard in LowerFunction.
ReturnUnguarded ==
    /\ Filling({"function"}) /\ Depth > 1
    /\ ops' = Emit(ip, Operands(Top))
            \cup EmitCall(ip, Operands(Below), Top.fun)
    /\ closed' = closed \cup {ip}
    /\ stack' = PopTo(Depth - 1, BindPattern(Below, Top.pat, Top.saved))
    /\ UNCHANGED <<todo, functions, module, nest, ip, used, status>>

ReturnToCaller ==
    /\ Filling({"function"}) /\ Depth > 1
    /\ ops' = Emit(ip, Operands(Top))
            \cup EmitCall(Top.saved, Operands(Below), Top.fun)
    /\ closed' = closed \cup {ip}
    /\ ip' = Top.saved
    /\ stack' = PopTo(Depth - 1, BindPattern(Below, Top.pat, Top.saved))
    /\ UNCHANGED <<todo, functions, module, nest, used, status>>

\* main prints the module once every function has been lowered.
PrintModule ==
    /\ status = "running" /\ stack = <<>> /\ todo = <<>>
    /\ status' = "printed"
    /\ ops' = {}
    /\ UNCHANGED <<todo, functions, module, nest, closed, ip, stack, used>>

-----------------------------------------------------------------------------
(* Statements lowered in place.                                              *)

\* A BasicOp or an intrinsic: operations at the insertion point.
LowerOp ==
    /\ Filling(Body)
    /\ \E pat \in Pattern :
          /\ ops' = Emit(ip, Operands(Top))
          /\ stack' = Replace(BindPattern(Top, pat, ip))
          /\ Reserve(pat)
    /\ UNCHANGED <<todo, functions, module, nest, closed, ip, status>>

\* An iota, argsort or scatter: operations that have regions of their own,
\* complete when they are bound (argsort's iota and comparator are two).
LowerWithRegions ==
    /\ Filling(Body)
    /\ \E m \in 1..2, pat \in Pattern :
          /\ Len(nest) + m <= MaxBlocks
          /\ nest' = nest \o [k \in 1..m |-> nest[ip] \cup {Len(nest) + k}]
          /\ closed' = closed \cup NewBlocks(m)
          /\ ops' = UNION {Emit(b, Operands(Top)) : b \in {ip} \cup NewBlocks(m)}
          /\ stack' = Replace(BindPattern(Top, pat, ip))
          /\ Reserve(pat)
    /\ UNCHANGED <<todo, functions, module, ip, status>>

\* An application of a function with a blackbox attribute: LowerFunction gives
\* it no symbol, and a matmul or dot product is inserted in place of the call.
CallBlackBox ==
    /\ Filling(Body)
    /\ \E f \in BlackBoxFun, pat \in Pattern :
          /\ ops' = Emit(ip, Operands(Top))
          /\ stack' = Replace(BindPattern(Top, pat, ip))
          /\ Reserve(pat)
    /\ UNCHANGED <<todo, functions, module, nest, closed, ip, status>>

\* An ExpSubExp: a new name for a value, and no operation.
LowerAlias ==
    /\ Filling(Body)
    /\ \E n \in Fresh, x \in Scope(Top) :
          /\ stack' = Replace([Top EXCEPT !.lex = Alias(@, n, Top.lex[x]),
                                          !.env = Alias(@, n, Top.env[x])])
          /\ Reserve({n})
    /\ ops' = {}
    /\ UNCHANGED <<todo, functions, module, nest, closed, ip, status>>

\* An exception: nobody catches it, so the process ends, what it held in
\* memory is gone, and nothing is printed.
Abort(reason) ==
    /\ status' = reason
    /\ todo' = <<>> /\ functions' = {} /\ module' = <<>>
    /\ nest' = <<>> /\ ops' = {} /\ closed' = {} /\ ip' = TopLevel
    /\ stack' = <<>> /\ used' = [f \in Fun |-> {}]

\* Undefined(), thrown wherever the compiler meets a construct it does not
\* handle.
Unsupported == Filling(Body) /\ Abort("unsupported")

-----------------------------------------------------------------------------
(* Statements with regions.                                                  *)

\* The frame of a region whose block, nested in the block the builder is in,
\* has params among its arguments, in a copy of the environment.
Open(kind, pat, uses, params) ==
    /\ Len(nest) < MaxBlocks
    /\ pat \cap params = {}
    /\ nest' = NestedBlock(ip)
    /\ ip' = NewBlock
    /\ stack' = Append(stack,
           [kind |-> kind, fun |-> Top.fun, block |-> NewBlock,
            lex |-> Bind(Top.lex, params, NewBlock),
            env |-> Bind(Top.env, params, NewBlock),
            pat |-> pat, uses |-> uses, saved |-> ip])
    /\ Reserve(pat \cup params)
    /\ ops' = {}
    /\ UNCHANGED <<todo, functions, module, closed, status>>

\* Mutant: the statement's pattern is bound to what the region yields.
CloseOnYielded(env) ==
    /\ ops' = Emit(ip, Operands(Top)) \cup Emit(Top.saved, Top.uses)
    /\ closed' = closed \cup {ip}
    /\ ip' = Top.saved
    /\ stack' = PopTo(Depth - 1,
                      BindPattern([Below EXCEPT !.env = env], Top.pat, ip))
    /\ UNCHANGED <<todo, functions, module, nest, used, status>>

\* The region's terminator, with the results of its body, and, once the guard
\* has taken the builder back, the operation the region belongs to; env is
\* the environment the enclosing statement continues with.
Close(env) ==
    /\ ops' = Emit(ip, Operands(Top)) \cup Emit(Top.saved, Top.uses)
    /\ closed' = closed \cup {ip}
    /\ ip' = Top.saved
    /\ stack' = PopTo(Depth - 1,
                      BindPattern([Below EXCEPT !.env = env], Top.pat, Top.saved))
    /\ UNCHANGED <<todo, functions, module, nest, used, status>>

\* The current region is complete; the next one of the same statement gets a
\* block in the same enclosing block.
OpenNext(frame) ==
    /\ Len(nest) < MaxBlocks
    /\ closed' = closed \cup {ip}
    /\ nest' = NestedBlock(Top.saved)
    /\ ip' = NewBlock
    /\ stack' = Replace(frame)
    /\ UNCHANGED <<todo, functions, module, status>>

\* ExpIf: the condition is looked up, then the then branch is lowered with
\* the environment of the if itself.
OpenIf ==
    /\ Filling(Body)
    /\ \E pat \in Pattern : Open("then", pat, Operands(Top), {})

\* Mutant: the else branch is lowered in the block of the then branch.
OpenElseInThen ==
    /\ Filling({"then"})
    /\ OpenNext([Top EXCEPT !.kind = "else", !.lex = Below.lex])
    /\ ops' = Emit(ip, Operands(Top))
    /\ UNCHANGED used

\* The then branch yields; the else branch gets the environment as the then
\* branch left it.
OpenElse ==
    /\ Filling({"then"})
    /\ OpenNext([Top EXCEPT !.kind = "else", !.block = NewBlock, !.lex = Below.lex])
    /\ ops' = Emit(ip, Operands(Top))
    /\ UNCHANGED used

CloseIf == Filling({"else"}) /\ Close(Top.env)

\* LowerLoop: the initial values are looked up, and the body is lowered in a
\* copy of the environment with the merge parameters and the counter.
OpenLoop ==
    /\ Filling(Body)
    /\ \E pat, params \in Pattern : Open("loop", pat, Operands(Top), params)

CloseLoop == Filling({"loop"}) /\ Close(Below.env)

\* The kernels of SegMap, SegRed and SegHist: the arrays the body reads at its
\* own thread ids become inputs of the linalg.generic.  They are found by a
\* scan of the whole body and looked up before any of it is lowered, when the
\* environment holds none of the arrays that the body binds.
OpenKernel ==
    /\ Filling(Body)
    /\ \E kind \in {"map", "red", "hist"}, pat, params \in Pattern :
          LET arrays == Bound(Top.env) \cap (Scope(Top) \cup Fresh)
          IN  Open(kind, pat, LookUp(Top, arrays), params)

\* Env::lookup throws for a kernel that reads an array it binds itself.
HoistUnboundArray ==
    /\ Filling(Body)
    /\ \E array \in Fresh : array \notin Bound(Top.env)
    /\ Abort("unbound")

CloseMap == Filling({"map"}) /\ Close(Below.env)

\* LowerSegHist: the kernel's linalg.generic is complete; the operator of the
\* histogram is lowered in a copy of the enclosing environment.
OpenCombine ==
    /\ Filling({"hist"})
    /\ ops' = Emit(ip, Operands(Top)) \cup Emit(Top.saved, Top.uses)
    /\ \E params \in Pattern :
          /\ OpenNext([Top EXCEPT !.kind = "combine", !.block = NewBlock,
                          !.lex = Bind(Below.lex, params, NewBlock),
                          !.env = Bind(Below.env, params, NewBlock),
                          !.uses = Operands(Below)])
          /\ Reserve(params)

CloseHist == Filling({"combine"}) /\ Close(Below.env)

\* An operator is applied in the block of the kernel: accs name accumulators,
\* which are arguments of the block, and elem the kernel's result x.
EnterOperator(frame, kind, accs, elem, x) ==
    [frame EXCEPT !.kind = kind,
                  !.lex = Alias(Bind(Below.lex, accs, ip), elem, frame.lex[x]),
                  !.env = Alias(Bind(@, accs, ip), elem, frame.env[x])]

\* LowerSegRed: kernel and operator share one environment.
EnterReduceOp ==
    /\ Filling({"red"})
    /\ \E accs \in Pattern, elem \in Fresh, x \in Scope(Top) :
          /\ elem \notin accs
          /\ stack' = Replace(EnterOperator(Top, "redop", accs, elem, x))
          /\ Reserve(accs \cup {elem})
    /\ ops' = {}
    /\ UNCHANGED <<todo, functions, module, nest, closed, ip, status>>

CloseRed == Filling({"redop"}) /\ Close(Below.env)

\* LowerSegScan: neutral elements and bounds are looked up, then an scf.forall
\* over the outer thread ids (none when the scan has one dimension) ...
OpenForall ==
    /\ Filling(Body)
    /\ \E pat \in Pattern, ids \in Pattern \cup {{}} :
          Open("forall", pat, Operands(Top), ids)

\* ... and in it an scf.for over the innermost one, which runs the kernel.
OpenScan ==
    /\ Filling({"forall"})
    /\ \E id \in Fresh : Open("scan", {}, Top.uses, {id})

\* The loop's body binds in the environment of the forall, which it captured;
\* the scan's operator is lowered in a copy of it ...
EnterScanOp ==
    /\ Filling({"scan"})
    /\ \E accs \in Pattern, elem \in Fresh, x \in Scope(Top) :
          /\ elem \notin accs
          /\ stack' = Append(PopTo(Depth - 1, [Below EXCEPT !.env = Top.env]),
                             EnterOperator(Top, "scanop", accs, elem, x))
          /\ Reserve(accs \cup {elem})
    /\ ops' = {}
    /\ UNCHANGED <<todo, functions, module, nest, closed, ip, status>>

\* Mutant: post_op is lowered in a copy of the enclosing environment.
PostOpOutside ==
    /\ Filling({"scanop"})
    /\ \E n \in Fresh, x \in Scope(Top) :
          /\ stack' = Replace([Top EXCEPT !.kind = "post",
                                          !.lex = Alias(Below.lex, n, Top.lex[x]),
                                          !.env = Alias(stack[Depth - 2].env, n, Top.env[x])])
          /\ Reserve({n})
    /\ ops' = {}
    /\ UNCHANGED <<todo, functions, module, nest, closed, ip, status>>

\* ... and post_op in another, with the new accumulator x.
EnterPostOp ==
    /\ Filling({"scanop"})
    /\ \E n \in Fresh, x \in Scope(Top) :
          /\ stack' = Replace([Top EXCEPT !.kind = "post",
                                          !.lex = Alias(Below.lex, n, Top.lex[x]),
                                          !.env = Alias(Below.env, n, Top.env[x])])
          /\ Reserve({n})
    /\ ops' = {}
    /\ UNCHANGED <<todo, functions, module, nest, closed, ip, status>>

\* Mutant: only the guard of the scan loop restores the insertion point.
CloseScanOnly ==
    /\ Filling({"post"})
    /\ ops' = Emit(ip, Operands(Top)) \cup Emit(Top.saved, Top.uses)
                        \cup Emit(Below.saved, Below.uses)
    /\ closed' = closed \cup {ip, Top.saved}
    /\ ip' = Top.saved
    /\ stack' = PopTo(Depth - 2, BindPattern(stack[Depth - 2], Below.pat, Below.saved))
    /\ UNCHANGED <<todo, functions, module, nest, used, status>>

\* Both regions end: the loop yields accumulators and rows, the forall inserts
\* the completed rows.
CloseScan ==
    /\ Filling({"post"})
    /\ ops' = Emit(ip, Operands(Top)) \cup Emit(Top.saved, Top.uses)
                        \cup Emit(Below.saved, Below.uses)
    /\ closed' = closed \cup {ip, Top.saved}
    /\ ip' = Below.saved
    /\ stack' = PopTo(Depth - 2, BindPattern(stack[Depth - 2], Below.pat, Below.saved))
    /\ UNCHANGED <<todo, functions, module, nest, used, status>>

-----------------------------------------------------------------------------
Next ==
    \/ StartFunction \/ SkipFunction \/ PrintModule \/ Unsupported
    \/ CallNewFunction \/ CallLoweredFunction \/ ReturnToMain \/ ReturnToCaller
    \/ CallBlackBox \/ LowerOp \/ LowerWithRegions \/ LowerAlias
    \/ OpenIf \/ OpenElse \/ CloseIf
    \/ OpenLoop \/ CloseLoop
    \/ OpenKernel \/ HoistUnboundArray \/ CloseMap
    \/ OpenCombine \/ CloseHist
    \/ EnterReduceOp \/ CloseRed
    \/ OpenForall \/ OpenScan \/ EnterScanOp \/ EnterPostOp \/ CloseScan

Spec == Init /\ [][Next]_vars

-----------------------------------------------------------------------------
(* Properties.                                                               *)

TypeOK ==
    /\ todo \in Seq(Fun)
    /\ functions \subseteq Fun
    /\ module \in Seq(Fun)
    /\ nest \in Seq(SUBSET Nat)
    /\ ops \subseteq Op
    /\ closed \subseteq Nat
    /\ ip \in Nat
    /\ stack \in Seq(Frame)
    /\ used \in [Fun -> SUBSET Name]
    /\ status \in {"running", "printed", "unsupported", "unbound"}

\* Every operand of every operation is a value its block may use: one defined
\* in that block or a block around it, within the same function.  This is the
\* first thing mlir::verify asks of the module.
Dominance ==
    \A o \in ops : o.at \in DOMAIN nest /\ \A v \in o.uses : v.at \in nest[o.at]

\* Sharing one Ctx between the branches of an if and what follows it, between
\* a kernel and its reduction operator, and between a forall and its scan loop
\* never shows: in every lowering call in progress, a name that is in scope
\* stands for the value the scoping rules of the program give it.
LexicalScoping ==
    \A i \in 1..Depth : \A n \in Scope(stack[i]) : stack[i].env[n] = stack[i].lex[n]

\* However lowering calls are nested -- regions in regions, a whole function
\* in the middle of another's kernel -- the guards keep the builder in the
\* block that the innermost call is filling, and out of any function between
\* two functions of main's loop.
InsertionPoint == ip = IF stack = <<>> THEN TopLevel ELSE Top.block

\* The lowering calls in progress fill blocks that have no terminator, and
\* no two of them fill the same one.
OpenBlocks ==
    \A i \in 1..Depth :
        /\ stack[i].block \in DOMAIN nest \ closed
        /\ \A j \in 1..Depth : stack[i].block = stack[j].block => i = j

\* No operation is ever inserted in a block behind its terminator.
SealedBlocks == [][\A o \in ops' : o.at \notin closed]_vars

\* One symbol for each function however many calls need it before main comes
\* to it, none for a black box, and no call to a symbol that does not exist.
Symbols ==
    /\ \A i, j \in 1..Len(module) : module[i] = module[j] => i = j
    /\ \A i \in 1..Len(module) : module[i] \notin BlackBoxFun
    /\ \A o \in ops : \A f \in o.calls : \E i \in 1..Len(module) : module[i] = f

\* What main prints has every function of the program, each with all of its
\* blocks terminated.
PrintedModule ==
    status = "printed" =>
        /\ \A f \in Fun \ BlackBoxFun : \E i \in 1..Len(module) : module[i] = f
        /\ DOMAIN nest = closed

-----------------------------------------------------------------------------
(* The inductive invariant.  What a frame needs is stated of a frame f, of a *)
(* frame and the one below it, and of a whole stack, in terms of the module  *)
(* (nst, cl), the names used (us) and the functions lowered (fs).            *)

GoodFrame(f, nst, cl, us, fs) ==
    /\ f.block \in DOMAIN nst \ cl
    /\ f.block \in nst[f.block]
    /\ \A n \in Scope(f) : f.env[n] = f.lex[n] /\ f.lex[n].at \in nst[f.block]
    /\ Bound(f.env) \subseteq us[f.fun]
    /\ f.fun \in fs

GoodLink(p, f, nst, us) ==
    /\ f.saved = p.block
    /\ f.pat \subseteq us[p.fun] \ Scope(p)
    /\ \A v \in f.uses : v.at \in nst[p.block]
    /\ p.kind = "forall" <=> f.kind \in {"scan", "scanop", "post"}
    /\ f.kind # "function" =>
          /\ f.fun = p.fun
          /\ nst[p.block] \subseteq nst[f.block]
          /\ \A n \in Scope(p) : n \in Scope(f) /\ f.lex[n] = p.lex[n]

GoodBase(f) == f.kind = "function" /\ f.saved = TopLevel

GoodStack(s, nst, cl, us, fs) ==
    /\ \A i \in 1..Len(s) : GoodFrame(s[i], nst, cl, us, fs)
    /\ \A i \in 2..Len(s) : GoodLink(s[i - 1], s[i], nst, us)
    /\ \A i, j \in 1..Len(s) : i < j => s[i].block < s[j].block
    /\ s # <<>> => GoodBase(s[1])

\* Every block is terminated or being filled.
Blocks == DOMAIN nest = closed \cup {stack[i].block : i \in 1..Depth}

\* The memo table and the symbol table agree, and what is in neither is still
\* to come.
Memo ==
    /\ functions = {module[i] : i \in 1..Len(module)}
    /\ functions \cap BlackBoxFun = {}
    /\ status \in {"running", "printed"} =>
          Fun = functions \cup BlackBoxFun \cup {todo[i] : i \in 1..Len(todo)}
    /\ status # "running" => stack = <<>> /\ todo = <<>>

IInv ==
    /\ TypeOK
    /\ GoodStack(stack, nest, closed, used, functions)
    /\ InsertionPoint
    /\ Dominance
    /\ Blocks
    /\ Memo
    /\ Symbols
=============================================================================
