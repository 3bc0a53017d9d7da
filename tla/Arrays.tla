------------------------------- MODULE Arrays -------------------------------
(***************************************************************************)
(* Types, shapes and casts of arrays: LowerBasicOp, LowerIndex,             *)
(* LowerArrayLit, createIota and castToType (mlir-backend/compiler.hpp), and*)
(* what the emitted operations compute.                                     *)
(*                                                                          *)
(* A function with one array as parameter, lowered statement by statement.  *)
(* Its run goes along: next to the type the compiler has for a value are    *)
(* the tensor it will be and the array Futhark means.  A size in the program*)
(* is a constant or a variable, and the compiler sees only constants.       *)
(* Operations MLIR refuses to verify are lowered like any other.            *)
(***************************************************************************)
EXTENDS Integers, Sequences, FiniteSets

CONSTANTS
    Extent,    \* sizes of parameters and in statements
    MaxSize,   \* bound: sizes that arise
    Modulus,   \* 2^w of the elements' type
    Uninit,    \* an element of a tensor.empty
    MaxVars,   \* bound: names bound in the function
    Respliced  \* whether a reshape may keep the rank and change the shape

ASSUME ArraysAssumption ==
    \* An array literal here has two elements.
    /\ MaxSize \in Nat /\ MaxSize >= 2 /\ Extent \subseteq 0..MaxSize
    /\ Modulus \in Nat \ {0}
    /\ MaxVars \in Nat
    /\ Respliced \in BOOLEAN

VARIABLES
    env,       \* the values bound, in order
    verifies,  \* whether every operation created so far will verify
    declared,  \* the result type in the function's signature, once it is used
    phase      \* "lower", "verify", "accepted", "refused" or "undefined"

vars == <<env, verifies, declared, phase>>

-----------------------------------------------------------------------------
(* Shapes.                                                                   *)

Dyn == -1
Size == [n : Extent, const : BOOLEAN]
Sizes(dims) == [k \in DOMAIN dims |-> dims[k].n]

\* A dimension is known where the SubExp is a constant.
toShapeType(dims) == [k \in DOMAIN dims |-> IF dims[k].const THEN dims[k].n ELSE Dyn]

Indices(shape) == {ix \in [DOMAIN shape -> 0..MaxSize - 1] : \A k \in DOMAIN shape : ix[k] < shape[k]}
\* Position in row-major order.
Flat(shape, ix) ==
    CASE Len(shape) = 0 -> 0 [] Len(shape) = 1 -> ix[1] [] OTHER -> ix[1] * shape[2] + ix[2]
Pick(seq, ks) == [j \in 1..Cardinality(ks) |-> seq[CHOOSE k \in ks : Cardinality({i \in ks : i <= k}) = j]]

\* A tensor or array of the shape, its elements as a function of the index.
Of(shape, f) == [shape |-> shape, at |-> f]

\* A value: Futhark's type of it, the compiler's, the tensor it is, the array it
\* should be.
Value(type, static, tensor, means) ==
    [type |-> type, static |-> static, tensor |-> tensor, means |-> means]
Bind(value, ok) ==
    /\ env' = Append(env, value)
    /\ verifies' = (verifies /\ ok)
    /\ UNCHANGED <<declared, phase>>
Undefined ==
    /\ phase' = "undefined"
    /\ UNCHANGED <<env, verifies, declared>>

Init ==
    /\ \E rank \in 1..2 : \E dims \in [1..rank -> Size] :
          LET a == Of(Sizes(dims), [ix \in Indices(Sizes(dims)) |-> Flat(Sizes(dims), ix) + 1]) IN
          env = <<Value(dims, toShapeType(dims), a, a)>>
    /\ verifies = TRUE
    /\ declared = <<>>
    /\ phase = "lower"

-----------------------------------------------------------------------------
(* MLIR.                                                                     *)

\* tensor.empty: an operand for every dynamic dimension, in their order.
EmptyVerifies(static, operands) ==
    Len(operands) = Cardinality({k \in DOMAIN static : static[k] = Dyn})
EmptyShape(static, operands) ==
    [k \in DOMAIN static |->
        IF static[k] # Dyn THEN static[k]
        ELSE LET j == Cardinality({i \in 1..k : static[i] = Dyn}) IN
             IF j \in DOMAIN operands THEN operands[j] ELSE 0]

\* linalg.broadcast: the dimensions added are the first ones.
Broadcast(tensor, shape, added) ==
    Of(shape, [ix \in Indices(shape) |-> tensor.at[Pick(ix, DOMAIN shape \ added)]])

\* linalg.transpose: dimension k of the result is dimension perm[k] of its input.
Transpose(tensor, perm) ==
    LET shape == [k \in DOMAIN perm |-> tensor.shape[perm[k]]] IN
    Of(shape, [ix \in Indices(shape) |->
        tensor.at[[d \in DOMAIN perm |-> ix[CHOOSE k \in DOMAIN perm : perm[k] = d]]]])

TransposeVerifies(from, to, perm) == \A k \in DOMAIN perm : to[k] = from[perm[k]]

\* tensor.collapse_shape and expand_shape leave the elements in row-major order.
InRowMajorOrder(tensor, shape) ==
    Of(shape, [ix \in Indices(shape) |->
        tensor.at[CHOOSE jx \in Indices(tensor.shape) :
                     Flat(tensor.shape, jx) = Flat(shape, ix)]])

\* getReassociationIndicesForReshape: what there may be.  Constant sizes fit or
\* not; with dynamic ones it may give up.  Two dynamic sizes cannot be inferred.
Reassociations(from, to) ==
    LET Large == IF Len(from) = 2 THEN from ELSE to
        Small == IF Len(from) = 2 THEN to ELSE from
        Unknown == {k \in DOMAIN Large : Large[k] = Dyn}
    IN  IF Len(from) = Len(to) THEN {FALSE}
        ELSE IF Unknown = {} THEN {Small[1] = Large[1] * Large[2]}
        ELSE IF Small[1] # Dyn \/ (Len(to) = 2 /\ Cardinality(Unknown) = 2) THEN {FALSE}
        ELSE BOOLEAN

\* tensor.concat infers its type: a size is known where some operand has it, in
\* the dimension that grows where all have.
ConcatStatic(dim, a, b) ==
    [k \in DOMAIN a.static |->
        IF k = dim
        THEN IF Dyn \in {a.static[k], b.static[k]} THEN Dyn ELSE a.static[k] + b.static[k]
        ELSE IF a.static[k] # Dyn THEN a.static[k] ELSE b.static[k]]
Concatenated(dim, a, b) ==
    LET shape == [a.shape EXCEPT ![dim] = @ + b.shape[dim]] IN
    Of(shape, [ix \in Indices(shape) |->
        IF ix[dim] < a.shape[dim] THEN a.at[ix]
        ELSE b.at[[ix EXCEPT ![dim] = @ - a.shape[dim]]]])

-----------------------------------------------------------------------------
(* Basic operations.                                                         *)

IotaSizes(n) == IF n.const THEN <<>> ELSE <<n.n>>

\* The region of an iota: index_cast, muli, addi at the elements' width.
GenericSwapped(shape, x, s) ==
    Of(shape, [ix \in Indices(shape) |-> (s + (((ix[1] % Modulus) * x) % Modulus)) % Modulus])
Generic(shape, x, s) ==
    Of(shape, [ix \in Indices(shape) |-> (x + (((ix[1] % Modulus) * s) % Modulus)) % Modulus])

LowerIota(n, x, s) ==
    LET static == toShapeType(<<n>>) IN
    Bind(Value(<<n>>, static, Generic(EmptyShape(static, IotaSizes(n)), x, s),
               Of(<<n.n>>, [ix \in Indices(<<n.n>>) |-> (x + ix[1] * s) % Modulus])),
         EmptyVerifies(static, IotaSizes(n)))

\* The outer sizes come from the shape, the inner ones are read off the value.
DynamicSizes(dims, a) ==
    LET outer == toShapeType(dims)
        known(static) == {k \in DOMAIN static : static[k] = Dyn}
    IN  Pick(Sizes(dims), known(outer)) \o Pick(a.tensor.shape, known(a.static))


\* copy is a replicate by the empty shape.
LowerReplicate(dims, a) ==
    LET static == toShapeType(dims) \o a.static
        shape == EmptyShape(static, DynamicSizes(dims, a))
        all == Sizes(dims) \o a.means.shape
    IN  IF dims = <<>> THEN Bind(a, TRUE)
        ELSE Bind(Value(dims \o a.type, static,
                        Broadcast(a.tensor, shape, 1..Len(dims)),
                        Of(all, [ix \in Indices(all) |->
                            a.means.at[SubSeq(ix, Len(dims) + 1, Len(ix))]])),
                  EmptyVerifies(static, DynamicSizes(dims, a)))

LowerScratch(dims) ==
    LET static == toShapeType(dims)
        operands == Pick(Sizes(dims), {k \in DOMAIN static : static[k] = Dyn})
        empty(shape) == Of(shape, [ix \in Indices(shape) |-> Uninit])
    IN  Bind(Value(dims, static, empty(EmptyShape(static, operands)), empty(Sizes(dims))),
             EmptyVerifies(static, operands))

PermutedStaticReversed(a, perm) ==
    [k \in DOMAIN perm |-> a.static[Len(perm) + 1 - k]]
PermutedStatic(a, perm) == [k \in DOMAIN perm |-> a.static[perm[k]]]

\* The tensor.empty it writes to gets no operands.
LowerRearrange(a, perm) ==
    LET shape == [k \in DOMAIN perm |-> a.means.shape[perm[k]]] IN
    Bind(Value([k \in DOMAIN perm |-> a.type[perm[k]]], PermutedStatic(a, perm),
               Transpose(a.tensor, perm),
               Of(shape, [ix \in Indices(shape) |->
                   a.means.at[CHOOSE jx \in Indices(a.means.shape) :
                                 \A k \in DOMAIN perm : jx[perm[k]] = ix[k]]])),
         /\ EmptyVerifies(PermutedStatic(a, perm), <<>>)
         /\ TransposeVerifies(a.static, PermutedStatic(a, perm), perm))

\* A type that does not change is taken for a shape that does not.
LowerReshape(a, dims) ==
    LET to == toShapeType(dims)
        means == InRowMajorOrder(a.means, Sizes(dims))
    IN  IF a.static = to THEN Bind(Value(dims, to, a.tensor, means), TRUE)
        ELSE \E found \in Reassociations(a.static, to) :
                IF found THEN Bind(Value(dims, to, InRowMajorOrder(a.tensor, Sizes(dims)), means), TRUE)
                ELSE Undefined

LowerConcat(dim, a, b) ==
    \E const \in BOOLEAN :
        LET total == [n |-> a.means.shape[dim] + b.means.shape[dim], const |-> const] IN
        /\ const => a.type[dim].const /\ b.type[dim].const
        /\ Bind(Value([a.type EXCEPT ![dim] = total], ConcatStatic(dim, a, b),
                      Concatenated(dim, a.tensor, b.tensor),
                      Concatenated(dim, a.means, b.means)),
                TRUE)

\* Elements are literals or scalars bound before; the parser puts their number
\* in front of the type's shape.
LowerArrayLit(elements) ==
    LET dims == <<[n |-> Len(elements), const |-> TRUE]>>
        lit(of) == Of(<<Len(elements)>>,
                      [ix \in Indices(<<Len(elements)>>) |-> of[ix[1] + 1]])
    IN  Bind(Value(dims, toShapeType(dims),
                   lit([k \in DOMAIN elements |-> elements[k].tensor.at[<<>>]]),
                   lit([k \in DOMAIN elements |-> elements[k].means.at[<<>>]])),
             TRUE)

\* arr[i, j] and slices.  A dimension is fixed or cut from start, in steps of
\* stride; Unseen is a stride that is not a positive constant.
Unseen == 0
Fix(i) == [fix |-> TRUE, start |-> i, length |-> [n |-> 1, const |-> TRUE], stride |-> 1]
Slice(i, n, s) == [fix |-> FALSE, start |-> i, length |-> n, stride |-> s]
Sliced(dims) == {k \in DOMAIN dims : ~dims[k].fix}

\* Constants stay attributes and so in the type; fixed dimensions are left out of the type.
SliceStaticKeepsFixed(dims) == toShapeType([k \in DOMAIN dims |-> dims[k].length])
SliceStaticNever(dims) == [k \in 1..Cardinality(Sliced(dims)) |-> Dyn]
SliceStatic(dims) == toShapeType(Pick([k \in DOMAIN dims |-> dims[k].length], Sliced(dims)))

\* tensor.extract_slice, rank reduced, and tensor.extract.
ExtractSlice(tensor, dims) ==
    LET full == [k \in DOMAIN dims |-> dims[k].length.n]
        shape == Pick(full, Sliced(dims))
        Source(jx) == [k \in DOMAIN dims |-> dims[k].start + jx[k] * dims[k].stride]
    IN  Of(shape, [ix \in Indices(shape) |->
            tensor.at[Source(CHOOSE jx \in Indices(full) : Pick(jx, Sliced(dims)) = ix)]])

\* External: an extract_slice of bounds that hold is assumed to verify, also one
\* of no elements at the end of a constant dimension.
LowerIndex(a, dims) ==
    LET lengths == Pick([k \in DOMAIN dims |-> dims[k].length], Sliced(dims))
        Place(ix, k) == IF dims[k].fix THEN dims[k].start
                        ELSE dims[k].start
                             + dims[k].stride * ix[Cardinality({j \in Sliced(dims) : j <= k})]
    IN  IF \E k \in DOMAIN dims : dims[k].stride = Unseen THEN Undefined
        ELSE Bind(Value(lengths, SliceStatic(dims), ExtractSlice(a.tensor, dims),
                        Of(Sizes(lengths), [ix \in Indices(Sizes(lengths)) |->
                            a.means.at[[k \in DOMAIN dims |-> Place(ix, k)]]])),
                  TRUE)

-----------------------------------------------------------------------------
(* Types meet: calls, loops, branches, the end of the function.              *)

\* Equal sizes, or one of them dynamic.
AreCastCompatible(from, to) ==
    Len(from) = Len(to) /\ \A k \in DOMAIN from : from[k] = to[k] \/ Dyn \in {from[k], to[k]}

castToType(static, to) == IF AreCastCompatible(static, to) THEN {to} ELSE {}

\* A constant size of a parameter is a size its argument is known to have.
Instance(dims, a) ==
    /\ Sizes(dims) = a.means.shape
    /\ \A k \in DOMAIN dims : dims[k].const => a.type[k].const

\* A function that returns its parameter: the argument is cast to the type of
\* the parameter, the result to the type the application has.
LowerCall(a, param, ret) ==
    LET casts == {r \in castToType(toShapeType(param), toShapeType(ret)) :
                     castToType(a.static, toShapeType(param)) # {}}
    IN  IF casts = {} THEN Undefined
        ELSE \E static \in casts : Bind(Value(ret, static, a.tensor, a.means), TRUE)

\* The merge parameter's type, not its initial value's.
MergeTypesOfInits(init, merge) == init.static
MergeTypes(init, merge) == toShapeType(merge)

\* One merge parameter; body is the value its body ends with, run times the
\* number of iterations.
LowerLoop(init, body, merge, times) ==
    LET static == MergeTypes(init, merge)
        last == IF times = 0 THEN init ELSE body
    IN  IF castToType(init.static, static) = {} \/ castToType(body.static, static) = {}
        THEN Undefined
        ELSE Bind(Value(merge, static, last.tensor, last.means), TRUE)

\* The results have the types of the then branch; nothing is cast.
LowerIf(cond, then, else, dims) ==
    LET taken == IF cond THEN then ELSE else IN
    Bind(Value(dims, then.static, taken.tensor, taken.means), then.static = else.static)

\* The operand of func.return is not cast to the type in the signature.
Return(a, dims) ==
    /\ phase = "lower"
    /\ declared' = dims
    /\ verifies' = (verifies /\ a.static = toShapeType(dims))
    /\ phase' = "verify"
    /\ UNCHANGED env

\* mlir::verify, at the end of main.
Verify ==
    /\ phase = "verify"
    /\ phase' = IF verifies THEN "accepted" ELSE "refused"
    /\ UNCHANGED <<env, verifies, declared>>

-----------------------------------------------------------------------------
(* Black boxes.  What they compute is theirs; shapes and types are checked.  *)

Opaque(shape) == Of(shape, [ix \in Indices(shape) |-> Uninit])
Members(seq) == {seq[k] : k \in DOMAIN seq}
Rest(dims, used) == Pick(dims, DOMAIN dims \ used)

\* [d4][d5]t, [d5][d6]t -> [d4][d6]t: the type is the application's, the sizes
\* are read off the operands.
LowerMatMul(a, b, ret) ==
    LET static == toShapeType(ret)
        operands == Pick(<<a.tensor.shape[1], b.tensor.shape[2]>>,
                         {k \in DOMAIN static : static[k] = Dyn})
    IN  Bind(Value(ret, static, Opaque(EmptyShape(static, operands)),
                   Opaque(<<a.means.shape[1], b.means.shape[2]>>)),
             EmptyVerifies(static, operands))

\* Dimension numbers: batching and contracting dimensions of both sides, the
\* ragged dimension of the left and the group dimensions of the right one (0
\* and none in a dot_general).
Lists(rank) == {<<>>} \cup {<<d>> : d \in 1..rank}
DotNumbers(ra, rb) ==
    {n \in [lb : Lists(ra), rb : Lists(rb), lc : Lists(ra), rc : Lists(rb), rg : Lists(rb), ragged : 0..ra] :
        /\ Len(n.lb) = Len(n.rb) /\ Len(n.lc) = Len(n.rc)
        /\ Members(n.lb) \cap Members(n.lc) = {} /\ Members(n.rb) \cap Members(n.rc) = {}
        /\ Members(n.rg) \cap (Members(n.rb) \cup Members(n.rc)) = {}
        \* Groups on the right when a dimension is ragged that is left as it is.
        /\ n.rg # <<>> <=> n.ragged \notin {0} \cup Members(n.lb) \cup Members(n.lc)}

\* resultShape of LowerDotGeneral and LowerRaggedDot, from the types of the
\* operands; g is the last size of group_sizes, an [g]int.
RaggedStatic(a, b, g, n) ==
    (IF n.ragged \in Members(n.lc) THEN <<g>> ELSE <<>>)
        \o [k \in DOMAIN n.lb |-> a[n.lb[k]]]
        \o Rest(a, Members(n.lb) \cup Members(n.lc))
        \o Rest(b, Members(n.rb) \cup Members(n.rc) \cup Members(n.rg))

\* The three modes in the comment of LowerRaggedDot: [g], b, m, n, each d with
\* the size it has on its side.
DotShape(a, b, g, n) ==
    LET left == DOMAIN a \ Members(n.lb \o n.lc)
        right == DOMAIN b \ Members(n.rb \o n.rc \o n.rg)
        mode == IF n.ragged = 0 THEN 0 ELSE IF n.ragged \in left THEN 1
                ELSE IF n.ragged \in Members(n.lc) THEN 2 ELSE 3
    IN  (IF mode = 2 THEN <<g>> ELSE <<>>) \o [k \in DOMAIN n.lb |-> a[n.lb[k]]]
            \o Pick(a, left) \o Pick(b, right)

\* The result is cast to the type the application has; a 0-D tensor is extracted
\* from.  A ragged_dot wants the right side's sizes to be constants.
LowerDot(a, b, groups, n, ret) ==
    LET from == RaggedStatic(a.static, b.static, groups.static[1], n)
        shape == DotShape(a.means.shape, b.means.shape, groups.means.shape[1], n)
    IN  IF (n.ragged # 0 /\ Dyn \in Members(b.static)) \/ castToType(from, toShapeType(ret)) = {}
        THEN Undefined
        ELSE Bind(Value(ret, toShapeType(ret), Opaque(shape), Opaque(shape)), TRUE)

-----------------------------------------------------------------------------
(* Statements.                                                               *)

Bound == {env[k] : k \in DOMAIN env}
Newest == {env[Len(env)]}
Scalar == {v \in Bound : v.type = <<>>}
Array == Bound \ Scalar
\* A statement uses the value bound last, or nothing that was bound: a value no
\* statement uses would make no difference.
NewArray == Newest \cap Array
Pairs == {p \in Array \X Array : NewArray \cap {p[1], p[2]} # {}}
Rank(v) == Len(v.type)
Literal(c) == LET a == Of(<<>>, [ix \in Indices(<<>>) |-> c]) IN Value(<<>>, <<>>, a, a)
DimsOf(rank) == [1..rank -> Size]

Elements(shape) == IF shape = <<>> THEN 1
                   ELSE IF Len(shape) = 1 THEN shape[1] ELSE shape[1] * shape[2]
InBounds(dims, shape) ==
    \A k \in DOMAIN dims :
        IF dims[k].fix THEN dims[k].start < shape[k]
        ELSE dims[k].length.n = 0
             \/ dims[k].start + (dims[k].length.n - 1) * dims[k].stride < shape[k]
DimIndex == {Fix(i) : i \in 0..2}
            \cup {Slice(i, n, s) : i \in 0..1, n \in Size, s \in {1, 2, Unseen}}

Open == phase = "lower" /\ Len(env) < MaxVars

Iota ==
    /\ Open
    /\ \E n \in Size : LowerIota(n, Modulus - 1, 2)
Replicate ==
    /\ Open
    /\ \E a \in Newest : \E rank \in 0..2 - Rank(a) : \E dims \in DimsOf(rank) : LowerReplicate(dims, a)
Scratch ==
    /\ Open
    /\ \E rank \in 1..2 : \E dims \in DimsOf(rank) : LowerScratch(dims)
Rearrange ==
    /\ Open
    /\ \E a \in NewArray : \E perm \in [1..Rank(a) -> 1..Rank(a)] :
                    (\A i, j \in DOMAIN perm : perm[i] = perm[j] => i = j) /\ LowerRearrange(a, perm)
Reshape ==
    /\ Open
    /\ \E a \in NewArray, rank \in 1..2 : \E dims \in DimsOf(rank) :
           /\ Elements(Sizes(dims)) = Elements(a.means.shape)
           /\ Sizes(dims) # a.means.shape /\ rank = Rank(a) => Respliced
           \* The division expand_shape does for a size beside a constant 0 is left out.
           /\ \A k \in DOMAIN dims : dims[k] = [n |-> 0, const |-> TRUE] =>
                 \A j \in DOMAIN dims : dims[j].const
           /\ LowerReshape(a, dims)
Concat ==
    /\ Open
    /\ \E p \in Pairs : LET a == p[1]  b == p[2] IN \E dim \in DOMAIN a.type :
           /\ Rank(a) = Rank(b)
           /\ \A k \in DOMAIN a.type \ {dim} : a.means.shape[k] = b.means.shape[k]
           /\ a.means.shape[dim] + b.means.shape[dim] <= MaxSize
           /\ LowerConcat(dim, a, b)
ArrayLit ==
    /\ Open
    /\ \E x \in (Scalar \cap Newest) \cup {Literal(5)} : LowerArrayLit(<<Literal(6), x>>)
Index ==
    /\ Open
    /\ \E a \in NewArray : \E dims \in [DOMAIN a.type -> DimIndex] :
           InBounds(dims, a.means.shape) /\ LowerIndex(a, dims)
Call ==
    /\ Open
    /\ \E a \in NewArray : \E param, ret \in DimsOf(Rank(a)) :
               Instance(param, a) /\ Instance(ret, a) /\ LowerCall(a, param, ret)
Loop ==
    /\ Open
    /\ \E p \in Pairs, times \in 0..1 : LET init == p[1]  body == p[2] IN \E merge \in DimsOf(Rank(init)) :
           /\ Rank(body) = Rank(init)
           /\ Sizes(merge) = (IF times = 0 THEN init ELSE body).means.shape
           /\ \A k \in DOMAIN merge : merge[k].const =>
                 /\ init.type[k].const /\ body.type[k].const
                 /\ init.type[k].n = body.type[k].n
           /\ LowerLoop(init, body, merge, times)
If ==
    /\ Open
    /\ \E p \in Pairs, cond \in BOOLEAN : LET then == p[1]  else == p[2] IN \E dims \in DimsOf(Rank(then)) :
           /\ Rank(then) = Rank(else)
           /\ Sizes(dims) = (IF cond THEN then ELSE else).means.shape
           /\ \A k \in DOMAIN dims : dims[k].const =>
                 /\ then.type[k].const /\ else.type[k].const
                 /\ then.type[k].n = else.type[k].n
           /\ LowerIf(cond, then, else, dims)
MatMul ==
    /\ Open
    /\ \E p \in Pairs : LET a == p[1]  b == p[2] IN \E ret \in DimsOf(2) :
           /\ Rank(a) = 2 /\ Rank(b) = 2
           /\ a.means.shape[2] = b.means.shape[1]
           /\ Sizes(ret) = <<a.means.shape[1], b.means.shape[2]>>
           /\ ret[1].const => a.type[1].const
           /\ ret[2].const => b.type[2].const
           /\ LowerMatMul(a, b, ret)
Dot ==
    /\ Open
    /\ \E p \in Pairs : LET a == p[1]  b == p[2] IN
       \E groups \in Array, n \in DotNumbers(Rank(a), Rank(b)) :
           LET sizes(v) == v.means.shape
               shape == DotShape(sizes(a), sizes(b), sizes(groups)[1], n)
               known == DotShape(a.type, b.type, groups.type[1], n)
           IN  /\ \A k \in DOMAIN n.lb : sizes(a)[n.lb[k]] = sizes(b)[n.rb[k]]
               /\ \A k \in DOMAIN n.lc : sizes(a)[n.lc[k]] = sizes(b)[n.rc[k]]
               /\ \A k \in DOMAIN n.rg : sizes(b)[n.rg[k]] = sizes(groups)[1]
               /\ IF n.ragged = 0 THEN groups = a ELSE Rank(groups) = 1
               /\ Len(shape) <= 2
               /\ \E ret \in DimsOf(Len(shape)) :
                      /\ Sizes(ret) = shape
                      /\ \A k \in DOMAIN ret : ret[k].const => known[k].const
                      /\ LowerDot(a, b, groups, n, ret)
End == \E a \in NewArray : \E dims \in DimsOf(Rank(a)) : Instance(dims, a) /\ Return(a, dims)

Next == \/ Iota \/ Replicate \/ Scratch \/ Rearrange \/ Reshape \/ Concat \/ ArrayLit
        \/ Index \/ Call \/ Loop \/ If \/ MatMul \/ Dot \/ End \/ Verify
Spec == Init /\ [][Next]_vars

-----------------------------------------------------------------------------
(* Properties.                                                               *)

\* Types are made of sizes, values of the type they have.
TypeOK ==
    /\ phase \in {"lower", "verify", "accepted", "refused", "undefined"}
    /\ \A v \in Bound : v.static \in [DOMAIN v.type -> Nat \cup {Dyn}]

\* In a module that verifies, the compiler's type of a value describes the
\* tensor the value is: a size the type states is the tensor's own
\* (toShapeType, castToType, the result types of LowerIndex and of a rearrange).
TypesDescribe ==
    verifies => \A v \in Bound : \A k \in DOMAIN v.static :
                    v.static[k] \in {Dyn, v.tensor.shape[k]}

\* In a module that verifies, every value is the array Futhark means: shape,
\* elements and their order.
ArrayMeaning == verifies => \A v \in Bound : v.tensor = v.means

\* A size Futhark knows to be a constant is never dynamic in the compiler's type,
\* however the value came about: BasicOpConcat, BasicOpIndex and LowerLoop rely on
\* types that carry the sizes they do not look at again.
ConstantsStayKnown ==
    \A v \in Bound : \A k \in DOMAIN v.type : v.type[k].const => v.static[k] # Dyn

\* Only sizes that are variables make mlir::verify refuse what has been lowered
\* and printed (the destination of a rearrange, branches of an if, func.return).
ConstantShapesVerify ==
    (\A v \in Bound : \A k \in DOMAIN v.type : v.type[k].const)
        /\ (\A k \in DOMAIN declared : declared[k].const)
    => phase # "refused"

\* The comment in the lowering of BasicOpReshape (mlir-backend/compiler.hpp:908):
\* remainder is the whole shape the reshape produces.
RemainderIsShape == \A v \in Bound : v.tensor.shape = Sizes(v.type)

=============================================================================
