------------------------------- MODULE Scalars -------------------------------
(***************************************************************************)
(* Scalar operations from Futhark's text to a result: the visitor of       *)
(* ir/parser.hpp, the literals of ir/primitive.hpp, the choice of an MLIR   *)
(* operation in mlir-backend/compiler.hpp, verification, execution.         *)
(*                                                                          *)
(* A state is about one function whose body is one operation, applied to    *)
(* its parameters or to literals, or is a literal.  Integers are bit        *)
(* patterns.  A floating-point number is a multiple of 1/2, an infinity or  *)
(* NaN; what arithmetic on them yields is left a term, in which the         *)
(* operation and the order of its operands show.                            *)
(***************************************************************************)
EXTENDS Integers, Sequences

CONSTANTS
    Top,    \* Top[t]: the weight of the top bit of an integer type, 2^(width - 1)
    Halves  \* numerators of the floating-point numbers

IntTypes == {"i8", "i16", "i32", "i64"}
FloatTypes == {"f16", "f32", "f64"}
Types == IntTypes \cup FloatTypes \cup {"bool"}

\* What is left of a number modulo the wider size tells it modulo the other.
Narrower(t, u) == Top[t] < Top[u] /\ Top[u] % Top[t] = 0

ASSUME ScalarAssumption ==
    /\ Top \in [IntTypes \cup {"bool"} -> Nat \ {0}]
    /\ Top["bool"] = 1
    /\ Narrower("i8", "i16") /\ Narrower("i16", "i32") /\ Narrower("i32", "i64")
    /\ Halves \subseteq Int

VARIABLES
    source,  \* the operation as Futhark prints it
    ir,      \* as the parser returns it
    module,  \* the operation the compiler creates
    result,  \* what the compiled function returns
    phase    \* "parse", "lower", "verify", "run", "done"; "undefined" after an
             \* exception, "refused" by mlir::verify

vars == <<source, ir, module, result, phase>>

None == [k |-> "none"]

-----------------------------------------------------------------------------
(* Values.                                                                   *)

Whole(b) == [k |-> "int", n |-> b]
Number(h) == [k |-> "num", h |-> h]
Special(s) == [k |-> "special", s |-> s]
Term(f, args) == [k |-> "term", f |-> f, args |-> args]
NaN == Special("nan")

Truth(p) == Whole(IF p THEN 1 ELSE 0)
Size(t) == 2 * Top[t]
Pattern(n, t) == n % Size(t)
Signed(b, t) == IF b < Top[t] THEN b ELSE b - Size(t)

Values(t) ==
    IF t \in FloatTypes
    THEN {Number(h) : h \in Halves} \cup {Special(s) : s \in {"nan", "inf", "-inf"}}
    ELSE {Whole(b) : b \in 0..Size(t) - 1}

\* Order of floating-point numbers; NaN is in no relation to anything.
Less(x, y) ==
    /\ NaN \notin {x, y} /\ x # y
    /\ x = Special("-inf") \/ y = Special("inf") \/ (x.k = "num" /\ y.k = "num" /\ x.h < y.h)
Same(x, y) == NaN \notin {x, y} /\ x = y

-----------------------------------------------------------------------------
(* Sources: what Futhark prints, well typed.                                 *)

IntBinary == {"add", "add_nw", "sub", "sub_nw", "mul", "mul_nw", "udiv", "udiv_up",
              "sdiv", "sdiv_up", "umod", "smod", "squot", "srem", "smin", "umin",
              "smax", "umax", "shl", "lshr", "ashr", "and", "or", "xor", "pow"}
FloatBinary == {"fadd", "fsub", "fmul", "fdiv", "fmod", "fmin", "fmax", "fpow"}
IntCompare == {"slt", "sle", "ult", "ule"}
FloatCompare == {"lt", "le"}
Conversions ==
    [zext |-> <<IntTypes, IntTypes>>, sext |-> <<IntTypes, IntTypes>>,
     fpconv |-> <<FloatTypes, FloatTypes>>,
     fptoui |-> <<FloatTypes, IntTypes>>, fptosi |-> <<FloatTypes, IntTypes>>,
     uitofp |-> <<IntTypes, FloatTypes>>, sitofp |-> <<IntTypes, FloatTypes>>,
     itob |-> <<IntTypes, {"bool"}>>, btoi |-> <<{"bool"}, IntTypes>>,
     ftob |-> <<FloatTypes, {"bool"}>>, btof |-> <<{"bool"}, FloatTypes>>]

\* Names of primitive functions, as runs of letters, digits and underscores.
FloatUnary ==
    {<<n>> : n \in {"sqrt", "rsqrt", "cbrt", "exp", "log", "sin", "cos", "tan", "asin",
                    "acos", "atan", "sinh", "cosh", "tanh", "asinh", "acosh", "atanh",
                    "erf", "erfc", "ceil", "floor", "trunc", "round", "gamma", "lgamma"}}
    \cup {<<"exp", "2">>, <<"expm", "1">>, <<"log", "2">>, <<"log", "10">>,
          <<"log", "1", "p">>}
FloatTests == {<<"isnan">>, <<"isinf">>}
BitCounts == {<<"popc">>, <<"clz">>, <<"ctz">>}
FloatPairs == {<<"atan", "2">>, <<"copysign">>, <<"hypot">>}
FloatTriples == {<<"fma">>, <<"mad">>, <<"lerp">>}
Functions == FloatUnary \cup FloatTests \cup BitCounts \cup FloatPairs \cup FloatTriples

Underscore == "_"
Digits == {"1", "2", "8", "10", "16", "32", "64"}
WidthOf == [i8 |-> "8", i16 |-> "16", i32 |-> "32", i64 |-> "64",
            f16 |-> "16", f32 |-> "32", f64 |-> "64"]

\* sqrt32, log10_64: an underscore where the name itself ends in a digit.
Suffixed(base, t) ==
    base \o (IF base[Len(base)] \in Digits THEN <<Underscore>> ELSE <<>>) \o <<WidthOf[t]>>
Cond(t) == IF t = "bool" THEN <<"cond", Underscore, "bool">>
           ELSE <<"cond", Underscore, IF t \in IntTypes THEN "i" ELSE "f", WidthOf[t]>>

Operands(t, literal) == {[t |-> t, literal |-> literal, v |-> v] : v \in Values(t)}

\* A quotient has a meaning: no division by zero, no overflow.
Divides(name, t, x, y) ==
    name \in {"squot", "sdiv", "sdiv_up"} =>
        /\ y.v.n # 0
        /\ ~(Signed(x.v.n, t) = -Top[t] /\ Signed(y.v.n, t) = -1)

Is(s, form, name, t, args) ==
    s = [form |-> form, name |-> name, t |-> t, args |-> args]

\* The functions there are, t being the type of the operands.
SomeLiteral(s) ==
    \E t \in Types : \E x \in Operands(t, TRUE) : Is(s, "literal", "", t, <<x>>)

SomeBinary(s, literal) ==
    \/ \E t \in IntTypes, name \in IntBinary : \E x, y \in Operands(t, literal) :
          Divides(name, t, x, y) /\ Is(s, "binary", name, t, <<x, y>>)
    \/ \E t \in FloatTypes, name \in FloatBinary : \E x, y \in Operands(t, literal) :
          Is(s, "binary", name, t, <<x, y>>)
    \/ \E name \in {"logand", "logor"} : \E x, y \in Operands("bool", literal) :
          Is(s, "binary", name, "bool", <<x, y>>)

Comparable(name, t) ==
    \/ name = "eq"
    \/ name \in IntCompare /\ t \in IntTypes
    \/ name \in FloatCompare /\ t \in FloatTypes
SomeComparison(s, literal) ==
    \E t \in Types, name \in {"eq"} \cup IntCompare \cup FloatCompare :
        \E x, y \in Operands(t, literal) :
            Comparable(name, t) /\ Is(s, "compare", name, "bool", <<x, y>>)

SomeConversion(s, literal) ==
    \E name \in DOMAIN Conversions :
        \E from \in Conversions[name][1], to \in Conversions[name][2] :
            \E x \in Operands(from, literal) : Is(s, "convert", name, to, <<x>>)

\* Functions of numbers, u being the type of the result.
Applicable(base, t, u) ==
    \/ base \in BitCounts /\ t \in IntTypes /\ u = "i32"
    \/ base \in FloatTests /\ t \in FloatTypes /\ u = "bool"
    \/ base \in FloatUnary \cup FloatPairs \cup FloatTriples /\ t \in FloatTypes /\ u = t
Arguments(base, x, y) ==
    IF base \in FloatPairs THEN <<x, y>>
    ELSE IF base \in FloatTriples THEN <<x, y, x>> ELSE <<x>>
SomeFunction(s, literal) ==
    \/ \E base \in Functions, t \in IntTypes \cup FloatTypes, u \in Types :
          \E x, y \in Operands(t, literal) :
              /\ Applicable(base, t, u)
              /\ Is(s, "apply", Suffixed(base, t), u, Arguments(base, x, y))
    \/ \E t \in Types : \E x, y \in Operands(t, literal), c \in Operands("bool", literal) :
          Is(s, "apply", Cond(t), t, <<c, x, y>>)

SomeSource(s) ==
    \/ SomeLiteral(s)
    \/ \E literal \in BOOLEAN :
          \/ SomeBinary(s, literal) \/ SomeComparison(s, literal)
          \/ SomeConversion(s, literal) \/ SomeFunction(s, literal)

Init ==
    /\ SomeSource(source)
    /\ ir = None /\ module = None /\ result = None
    /\ phase = "parse"

-----------------------------------------------------------------------------
(* Parsing.                                                                  *)

\* The casts of VisitPrimValueInteger to int8_t, ..., int64_t.
IntValue(n, t) == Signed(Pattern(n, t), t)

\* (uint16_t)v drops the fraction; it is undefined where what remains does not fit.
Uint16(v) ==
    IF v.k = "num" /\ -2 < v.h /\ v.h < 2 * Size("i16")
    THEN {IF v.h < 0 THEN 0 ELSE v.h \div 2}
    ELSE 0..Size("i16") - 1

\* What may be in the PrimValue of a literal: an intN_t, the bits of a
\* Float16Value, a float or double.
Literals(x) ==
    IF x.t = "f16" THEN {Whole(u) : u \in Uint16(x.v)}
    ELSE IF x.t \in IntTypes THEN {Whole(IntValue(Signed(x.v.n, x.t), x.t))}
    ELSE {x.v}

ParsedOperands(x) ==
    IF x.literal THEN {[x EXCEPT !.v = v] : v \in Literals(x)} ELSE {x}

\* The undefined-on-overflow kind has another Overflow, but the same type.
BinOpOf(name) ==
    CASE name = "add_nw" -> "add" [] name = "sub_nw" -> "sub" [] name = "mul_nw" -> "mul"
      [] OTHER -> name

\* Every operator of the grammar is known to the visitor.
Parse ==
    /\ phase = "parse"
    /\ \E args \in [DOMAIN source.args -> UNION {ParsedOperands(source.args[k]) : k \in DOMAIN source.args}] :
          /\ \A k \in DOMAIN args : args[k] \in ParsedOperands(source.args[k])
          /\ ir' = [form |-> source.form,
                    name |-> IF source.form = "binary" THEN BinOpOf(source.name) ELSE source.name,
                    to |-> source.t, args |-> args]
    /\ phase' = "lower"
    /\ UNCHANGED <<source, module, result>>

-----------------------------------------------------------------------------
(* Lowering.                                                                 *)

\* The literal's own 64 bits, cut nowhere.
UncutAttr(x) ==
    IF x.t \in IntTypes THEN Whole(Pattern(x.v.n, "i64"))
    ELSE IF x.t = "f16" THEN Number(2 * x.v.n)
    ELSE x.v

\* GetValue: a signed integer becomes a uint64_t, the bits of an f16 the number
\* they are as an integer.  The attribute keeps the low bits.
PrimValueAttr(x) ==
    IF x.t \in IntTypes THEN Whole(Pattern(Pattern(x.v.n, "i64"), x.t))
    ELSE IF x.t = "f16" THEN Number(2 * x.v.n)
    ELSE x.v

LowerOperand(x) == IF x.literal THEN PrimValueAttr(x) ELSE x.v

\* divsi would round sdiv the wrong way, maximumf would propagate a NaN.
MlirBinOpConfused ==
    [add |-> "addi", mul |-> "muli", sub |-> "subi", squot |-> "divsi", sdiv |-> "divsi",
     sdiv_up |-> "ceildivsi", fadd |-> "addf", fmul |-> "mulf", fsub |-> "subf",
     fdiv |-> "divf", fmax |-> "maximumf", fpow |-> "powf"]

\* LowerBinOp.  sdiv, which rounds towards negative infinity, is not in it.
MlirBinOp ==
    [add |-> "addi", mul |-> "muli", sub |-> "subi", squot |-> "divsi",
     sdiv_up |-> "ceildivsi", fadd |-> "addf", fmul |-> "mulf", fsub |-> "subf",
     fdiv |-> "divf", fmax |-> "maxnumf", fpow |-> "powf"]

\* The predicates of cmpi and cmpf.
MlirCompare(name, t) ==
    CASE name = "lt" -> "olt"
      [] name = "le" -> "ole"
      [] name = "eq" -> IF t \in IntTypes THEN "eq" ELSE IF t \in FloatTypes THEN "oeq" ELSE ""
      [] OTHER -> name

MlirConversion == [zext |-> "extui", sext |-> "extsi", sitofp |-> "sitofp"]

\* The name without its width and one underscore before it; <<>> for no name.
IntrinsicBaseName(name) ==
    LET n == Len(name) IN
    IF name[n] \notin Digits THEN <<>>
    ELSE IF n > 1 /\ name[n - 1] = Underscore THEN SubSeq(name, 1, n - 2)
    ELSE SubSeq(name, 1, n - 1)

MathUnary == (FloatUnary \ {<<"round">>, <<"gamma">>, <<"lgamma">>}) \cup FloatTests
MathOps == MathUnary \cup BitCounts \cup (FloatPairs \ {<<"hypot">>})

MlirIntrinsic(name) ==
    LET base == IntrinsicBaseName(name) IN
    IF Len(name) > 1 /\ SubSeq(name, 1, 2) = <<"cond", Underscore>> THEN <<"select">>
    ELSE IF base = <<"round">> THEN <<"roundeven">>
    ELSE IF base \in {<<"fma">>, <<"mad">>} THEN <<"fma">>
    ELSE IF base \in MathOps THEN base
    ELSE <<>>

\* The operation created for ir, none where Undefined() or an exception is met.
MlirOp ==
    CASE ir.form = "literal" -> {"constant"}
      [] ir.form = "binary" -> IF ir.name \in DOMAIN MlirBinOp THEN {MlirBinOp[ir.name]} ELSE {}
      [] ir.form = "compare" -> {MlirCompare(ir.name, ir.args[1].t)} \ {""}
      [] ir.form = "convert" ->
            IF ir.name \in DOMAIN MlirConversion THEN {MlirConversion[ir.name]} ELSE {}
      [] ir.form = "apply" -> IF MlirIntrinsic(ir.name) = <<>> THEN {} ELSE {"math"}

\* The operation of the math dialect, or select, where it is one of those.
MlirFunction == IF ir.form = "apply" THEN MlirIntrinsic(ir.name) ELSE <<>>

\* The type of the operand, whatever the conversion.
ResultTypeOfOperand ==
    CASE ir.form = "compare" \/ MlirFunction \in FloatTests -> "bool"
      [] MlirFunction = <<"select">> -> ir.args[2].t
      [] OTHER -> ir.args[1].t

\* The type its builder gives the result of an operation.
ResultType ==
    CASE ir.form = "compare" \/ MlirFunction \in FloatTests -> "bool"
      [] ir.form = "convert" -> ir.to
      [] MlirFunction = <<"select">> -> ir.args[2].t
      [] OTHER -> ir.args[1].t

Lower ==
    /\ phase = "lower"
    /\ \E op \in MlirOp :
          module' = [op |-> op, fn |-> MlirFunction, t |-> ResultType,
                     args |-> [k \in DOMAIN ir.args |-> LowerOperand(ir.args[k])]]
    /\ phase' = "verify"
    /\ UNCHANGED <<source, ir, result>>

Undefined ==
    /\ phase = "lower" /\ MlirOp = {}
    /\ phase' = "undefined"
    /\ UNCHANGED <<source, ir, module, result>>

-----------------------------------------------------------------------------
(* MLIR: verification and meaning of its operations.                         *)

From == ir.args[1].t

\* func.return: the type in the signature.  An extension makes wider.
Verifies ==
    /\ module.t = source.t
    /\ module.op \in {"extui", "extsi"} => Top[From] < Top[module.t]

Verify ==
    /\ phase = "verify"
    /\ phase' = IF Verifies THEN "run" ELSE "refused"
    /\ UNCHANGED <<source, ir, module, result>>

Abs(n) == IF n < 0 THEN -n ELSE n
\* Quotients of magnitudes, with the sign of the quotient.
TruncQuotient(a, b) == LET q == Abs(a) \div Abs(b) IN IF (a < 0) = (b < 0) THEN q ELSE -q
CeilQuotient(a, b) ==
    IF (a < 0) = (b < 0) THEN (Abs(a) + Abs(b) - 1) \div Abs(b) ELSE -(Abs(a) \div Abs(b))

RoundEven(x) ==
    IF x.k # "num" \/ x.h % 2 = 0 THEN x
    ELSE Number(IF x.h % 4 = 1 THEN x.h - 1 ELSE x.h + 1)

IeeeName == [addf |-> "fadd", mulf |-> "fmul", subf |-> "fsub", divf |-> "fdiv", powf |-> "fpow"]

\* The value of an operation on operands a of type t.
Evaluate(op, fn, t, a) ==
    LET x == a[1]  y == a[2]
        sx == Signed(x.n, t)  sy == Signed(y.n, t) IN
    CASE op = "constant" -> x
      [] op = "addi" -> Whole(Pattern(x.n + y.n, t))
      [] op = "muli" -> Whole(Pattern(x.n * y.n, t))
      [] op = "subi" -> Whole(Pattern(x.n - y.n, t))
      [] op = "divsi" -> Whole(Pattern(TruncQuotient(sx, sy), t))
      [] op = "ceildivsi" -> Whole(Pattern(CeilQuotient(sx, sy), t))
      [] op = "maxnumf" -> IF x = NaN THEN y ELSE IF y = NaN \/ Less(y, x) THEN x ELSE y
      [] op = "maximumf" -> IF NaN \in {x, y} THEN NaN ELSE IF Less(y, x) THEN x ELSE y
      [] op \in DOMAIN IeeeName -> Term(IeeeName[op], a)
      [] op = "eq" -> Truth(x.n = y.n)
      [] op = "ult" -> Truth(x.n < y.n)
      [] op = "ule" -> Truth(x.n <= y.n)
      [] op = "slt" -> Truth(sx < sy)
      [] op = "sle" -> Truth(sx <= sy)
      [] op = "oeq" -> Truth(Same(x, y))
      [] op = "olt" -> Truth(Less(x, y))
      [] op = "ole" -> Truth(Less(x, y) \/ Same(x, y))
      [] op = "extui" -> x
      [] op = "extsi" -> Whole(Pattern(sx, module.t))
      [] op = "sitofp" -> Number(2 * sx)
      [] fn = <<"select">> -> IF x = Whole(1) THEN y ELSE a[3]
      [] fn = <<"roundeven">> -> RoundEven(x)
      [] fn = <<"isnan">> -> Truth(x = NaN)
      [] fn = <<"isinf">> -> Truth(x.k = "special" /\ x # NaN)
      [] OTHER -> Term(fn, a)

Run ==
    /\ phase = "run"
    /\ result' = Evaluate(module.op, module.fn, From, module.args)
    /\ phase' = "done"
    /\ UNCHANGED <<source, ir, module>>

Next == Parse \/ Lower \/ Undefined \/ Verify \/ Run
Spec == Init /\ [][Next]_vars

=============================================================================
