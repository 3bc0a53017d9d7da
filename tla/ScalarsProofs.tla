---------------------------- MODULE ScalarsProofs ----------------------------
(***************************************************************************)
(* Scalar operations for any widths of the integer types and any numbers:   *)
(* what is compiled and run is what Futhark means, and what mlir::verify    *)
(* refuses is of two kinds.                                                  *)
(***************************************************************************)
EXTENDS ScalarSpec, SequenceTheorems, TLAPS

-----------------------------------------------------------------------------
(* The inductive invariant: each phase leaves behind what its step says.     *)

Parsed ==
    /\ ir.form = source.form /\ ir.to = source.t
    /\ ir.name = IF source.form = "binary" THEN BinOpOf(source.name) ELSE source.name
    /\ DOMAIN ir.args = DOMAIN source.args
    /\ \A k \in DOMAIN source.args : ir.args[k] \in ParsedOperands(source.args[k])

Lowered ==
    \E op \in MlirOp :
        module = [op |-> op, fn |-> MlirFunction, t |-> ResultType,
                  args |-> [k \in DOMAIN ir.args |-> LowerOperand(ir.args[k])]]

IInv ==
    /\ SomeSource(source)
    /\ phase \in {"parse", "lower", "verify", "run", "done", "undefined", "refused"}
    /\ phase # "parse" => Parsed
    /\ phase \in {"verify", "run", "done", "refused"} => Lowered
    /\ phase \in {"run", "done"} => Verifies
    /\ phase = "refused" => ~Verifies
    /\ phase = "done" => result = Evaluate(module.op, module.fn, From, module.args)

-----------------------------------------------------------------------------
(* Bit patterns.                                                             *)

Patterned == IntTypes \cup {"bool"}

LEMMA SizeFacts ==
    ASSUME NEW t \in Patterned
    PROVE  /\ Top[t] \in Nat \ {0}
           /\ Size(t) \in Nat \ {0} /\ Size(t) = 2 * Top[t]
<1>1. Top[t] \in Nat \ {0}
    BY ScalarAssumption DEF Patterned
<1> QED
    BY <1>1 DEF Size

\* A multiple of the modulus does not change what is left over.
LEMMA SameRemainder ==
    ASSUME NEW M \in Nat \ {0}, NEW a \in Int, NEW q \in Int
    PROVE  (a + M * q) % M = a % M
<1> DEFINE d == a \div M
           r == a % M
<1>1. a = M * d + r /\ r \in 0..M - 1 /\ d \in Int
    OBVIOUS
<1> HIDE DEF d, r
<1>2. a + M * q = M * (d + q) + r
    BY <1>1
<1>3. \A b \in Int, k \in Int : b = M * k + r => b % M = r
    BY <1>1
<1>4. (a + M * q) % M = r
    BY <1>1, <1>2, <1>3
<1> QED
    BY <1>4 DEF r

LEMMA MultipleLeavesNothing ==
    ASSUME NEW M \in Nat \ {0}, NEW q \in Int
    PROVE  (M * q) % M = 0
<1>1. \A b \in Int, k \in Int : b = M * k => b % M = 0
    OBVIOUS
<1>2. M * q \in Int
    OBVIOUS
<1> QED
    BY <1>1, <1>2

\* A multiple of the modulus between -M and M is 0.
LEMMA OneRemainder ==
    ASSUME NEW M \in Nat \ {0}, NEW a \in Int, NEW b \in Int, NEW n \in Int,
           (a - n) % M = 0, (b - n) % M = 0, a - b < M, b - a < M
    PROVE  a = b
<1>1. \A m \in Int : m % M = 0 => m = M * (m \div M) /\ m \div M \in Int
    OBVIOUS
<1>2. PICK i \in Int, j \in Int : a - n = M * i /\ b - n = M * j
  <2>1. PICK x \in Int, y \in Int : x = a - n /\ y = b - n
      OBVIOUS
  <2>2. x % M = 0 /\ y % M = 0
      BY <2>1
  <2>3. x = M * (x \div M) /\ x \div M \in Int /\ y = M * (y \div M) /\ y \div M \in Int
      BY <1>1, <2>2
  <2> QED
      BY <2>1, <2>3
<1>3. PICK d \in Int : d = i - j /\ a - b = M * d
  <2>1. i - j \in Int /\ M * (i - j) = M * i - M * j
      OBVIOUS
  <2>2. M * i \in Int /\ M * j \in Int
      OBVIOUS
  <2>3. a - b = M * (i - j)
      BY <1>2, <2>1, <2>2
  <2> QED
      BY <2>1, <2>3
<1>4. ~(d >= 1)
  <2> SUFFICES ASSUME d >= 1 PROVE FALSE
      OBVIOUS
  <2>1. PICK e \in Nat : d = 1 + e
    <3>1. d - 1 \in Nat /\ d = 1 + (d - 1)
        OBVIOUS
    <3> QED
        BY <3>1
  <2>2. M * d = M + M * e /\ M * e \in Nat
      BY <2>1
  <2> QED
      BY <1>3, <2>2
<1>5. ~(d <= -1)
  <2> SUFFICES ASSUME d <= -1 PROVE FALSE
      OBVIOUS
  <2>1. PICK e \in Nat : d = -1 - e
    <3>1. -1 - d \in Nat /\ d = -1 - (-1 - d)
        OBVIOUS
    <3> QED
        BY <3>1
  <2>2. M * d = -M - M * e /\ M * e \in Nat
      BY <2>1
  <2> QED
      BY <1>3, <2>2
<1>6. d = 0
    BY <1>4, <1>5
<1> QED
    BY <1>3, <1>6

LEMMA PatternFacts ==
    ASSUME NEW t \in Patterned, NEW n \in Int
    PROVE  /\ Pattern(n, t) \in 0..Size(t) - 1
           /\ n % Size(t) = Pattern(n, t)
           /\ \E q \in Int : n = Pattern(n, t) + Size(t) * q
<1>1. Size(t) \in Nat \ {0}
    BY SizeFacts
<1> DEFINE M == Size(t)
<1> HIDE DEF M
<1>2. M \in Nat \ {0}
    BY <1>1 DEF M
<1>3. n % M \in 0..M - 1 /\ n \div M \in Int /\ n = (n % M) + M * (n \div M)
    BY <1>2
<1> QED
    BY <1>3 DEF M, Pattern

LEMMA SignedFacts ==
    ASSUME NEW t \in Patterned, NEW b \in 0..Size(t) - 1
    PROVE  /\ Signed(b, t) \in -Top[t]..Top[t] - 1
           /\ \E q \in {0, -1} : Signed(b, t) = b + Size(t) * q
           /\ Pattern(Signed(b, t), t) = b
<1>1. /\ Top[t] \in Nat \ {0}
      /\ Size(t) \in Nat \ {0} /\ Size(t) = 2 * Top[t]
    BY SizeFacts
<1>2. Signed(b, t) = IF b < Top[t] THEN b ELSE b - Size(t)
    BY DEF Signed
<1>3. Signed(b, t) \in -Top[t]..Top[t] - 1
    BY <1>1, <1>2
<1>4. PICK q \in {0, -1} : Signed(b, t) = b + Size(t) * q
    BY <1>1, <1>2
<1>5. (b + Size(t) * q) % Size(t) = b % Size(t)
    BY <1>1, SameRemainder
<1>6. b % Size(t) = b
  <2>1. \A m \in Nat \ {0} : \A c \in 0..m - 1 : c % m = c
      OBVIOUS
  <2> QED
      BY <1>1, <2>1
<1> QED
    BY <1>3, <1>4, <1>5, <1>6 DEF Pattern

\* The pattern of a number, read as a number, is the number that wraps around.
LEMMA WrappedIs ==
    ASSUME NEW t \in Patterned, NEW n \in Int
    PROVE  Signed(Pattern(n, t), t) = Wrapped(n, t)
<1> DEFINE b == Pattern(n, t)
           w == Signed(b, t)
           M == Size(t)
           R == -Top[t]..Top[t] - 1
<1>1. Top[t] \in Nat \ {0} /\ M \in Nat \ {0} /\ M = 2 * Top[t]
    BY SizeFacts
<1>2. b \in 0..M - 1
    BY PatternFacts
<1>3. PICK p \in Int : n = b + M * p
    BY PatternFacts
<1>4. PICK q \in Int : w = b + M * q
    BY <1>2, SignedFacts
<1>5. w \in R
    BY <1>2, SignedFacts
<1> HIDE DEF b, w, M
<1>6. (w - n) % M = 0
  <2>1. PICK d \in Int : d = q - p
      OBVIOUS
  <2>2. w - n = M * d
    <3>1. PICK x \in Int, y \in Int : x = M * q /\ y = M * p
        BY <1>1
    <3>2. M * (q - p) = x - y
        BY <1>1, <3>1
    <3> QED
        BY <1>2, <1>3, <1>4, <2>1, <3>1, <3>2
  <2>3. (M * d) % M = 0
      BY <1>1, MultipleLeavesNothing
  <2> QED
      BY <2>2, <2>3
<1>7. \A m \in R : (m - n) % M = 0 => m = w
  <2> SUFFICES ASSUME NEW m \in R, (m - n) % M = 0 PROVE m = w
      OBVIOUS
  <2>1. m \in Int /\ w \in Int /\ m - w < M /\ w - m < M
      BY <1>1, <1>5
  <2> QED
      BY <1>1, <1>6, <2>1, OneRemainder
<1>8. w = CHOOSE m \in R : (m - n) % M = 0
    BY <1>5, <1>6, <1>7
<1> QED
    BY <1>8 DEF Wrapped, b, w, M

\* i64 is the widest type, and keeps what any other type can tell.
LEMMA Widest ==
    ASSUME NEW t \in IntTypes
    PROVE  \E k \in Nat : Size("i64") = Size(t) * k
<1>1. \A u \in Patterned : Top[u] \in Nat \ {0}
    BY SizeFacts
<1>2. ASSUME NEW s \in IntTypes, NEW u \in IntTypes, Narrower(s, u)
      PROVE  \E k \in Nat : Top[u] = Top[s] * k
  <2>1. Top[s] \in Nat \ {0} /\ Top[u] \in Nat /\ Top[u] % Top[s] = 0
      BY <1>1, <1>2 DEF Patterned, Narrower
  <2> DEFINE a == Top[s]
             b == Top[u]
  <2> HIDE DEF a, b
  <2>2. a \in Nat \ {0} /\ b \in Nat /\ b % a = 0
      BY <2>1 DEF a, b
  <2>3. b \div a \in Nat /\ b = a * (b \div a)
      BY <2>2
  <2> QED
      BY <2>3 DEF a, b
<1>3. PICK k \in Nat : Top["i16"] = Top["i8"] * k
    BY <1>2, ScalarAssumption DEF IntTypes
<1>4. PICK l \in Nat : Top["i32"] = Top["i16"] * l
    BY <1>2, ScalarAssumption DEF IntTypes
<1>5. PICK m \in Nat : Top["i64"] = Top["i32"] * m
    BY <1>2, ScalarAssumption DEF IntTypes
<1> DEFINE a == Top["i8"]
           b == Top["i16"]
           c == Top["i32"]
           d == Top["i64"]
<1>6. a \in Nat /\ b \in Nat /\ c \in Nat /\ d \in Nat
    BY <1>1 DEF Patterned, IntTypes
<1> HIDE DEF a, b, c, d
<1>7. b = a * k /\ c = b * l /\ d = c * m
    BY <1>3, <1>4, <1>5 DEF a, b, c, d
<1>8. d = b * (l * m) /\ l * m \in Nat
    BY <1>6, <1>7
<1>9. d = a * (k * (l * m)) /\ k * (l * m) \in Nat
  <2>1. PICK n \in Nat : n = l * m
      BY <1>8
  <2> QED
      BY <1>6, <1>7, <1>8, <2>1
<1>10. d = d * 1
    BY <1>6
<1>11. \E j \in Nat : Top["i64"] = Top[t] * j
  <2>1. t = "i8" \/ t = "i16" \/ t = "i32" \/ t = "i64"
      BY DEF IntTypes
  <2>2. CASE t = "i8"
      BY <1>9, <2>2 DEF a, d
  <2>3. CASE t = "i16"
      BY <1>8, <2>3 DEF b, d
  <2>4. CASE t = "i32"
      BY <1>7, <2>4 DEF c, d
  <2>5. CASE t = "i64"
      BY <1>10, <2>5 DEF d
  <2> QED
      BY <2>1, <2>2, <2>3, <2>4, <2>5
<1>12. PICK j \in Nat : Top["i64"] = Top[t] * j
    BY <1>11
<1>13. Top[t] \in Nat
    BY <1>1 DEF Patterned
<1>14. PICK x \in Nat : x = Top[t]
    BY <1>13
<1>15. 2 * (x * j) = (2 * x) * j
    OBVIOUS
<1> QED
    BY <1>12, <1>14, <1>15 DEF Size

\* The bits GetValue cuts a literal to, and then those of its own type, are
\* the same as if it were cut at once.
LEMMA CutTwice ==
    ASSUME NEW t \in IntTypes, NEW n \in Int
    PROVE  Pattern(Pattern(n, "i64"), t) = Pattern(n, t)
<1> DEFINE p == Pattern(n, "i64")
           M == Size(t)
<1>1. M \in Nat \ {0}
    BY SizeFacts DEF Patterned
<1>2. p \in Nat /\ \E q \in Int : n = p + Size("i64") * q
  <2>1. "i64" \in Patterned
      BY DEF Patterned, IntTypes
  <2>2. PICK m \in Nat \ {0} : m = Size("i64")
      BY <2>1, SizeFacts
  <2>3. /\ Pattern(n, "i64") \in 0..m - 1
        /\ \E q \in Int : n = Pattern(n, "i64") + m * q
      BY <2>1, <2>2, PatternFacts
  <2>4. p \in Nat
      BY <2>2, <2>3
  <2> QED
      BY <2>2, <2>3, <2>4
<1>3. PICK q \in Int : n = p + Size("i64") * q
    BY <1>2
<1>4. PICK k \in Nat : Size("i64") = M * k
    BY Widest
<1> HIDE DEF p, M
<1>5. n = p + M * (k * q) /\ k * q \in Int
    BY <1>1, <1>2, <1>3, <1>4
<1>6. PICK j \in Int : j = k * q
    BY <1>5
<1>7. (p + M * j) % M = p % M
  <2>1. \A a \in Int, i \in Int : (a + M * i) % M = a % M
      BY <1>1, SameRemainder
  <2>2. p \in Int
      BY <1>2
  <2> QED
      BY <2>1, <2>2
<1>8. n % M = p % M
    BY <1>5, <1>6, <1>7
<1> QED
    BY <1>8 DEF Pattern, p, M

-----------------------------------------------------------------------------
(* Every step keeps the invariant.                                           *)

LEMMA InitInv == Init => IInv
BY DEF Init, IInv

\* The operation depends on what has been parsed only.
LEMMA SameOperation ==
    ASSUME UNCHANGED ir
    PROVE  MlirOp' = MlirOp /\ MlirFunction' = MlirFunction /\ ResultType' = ResultType
BY DEF MlirOp, MlirFunction, ResultType

LEMMA ParseInv == IInv /\ Parse => IInv'
<1> SUFFICES ASSUME IInv, Parse PROVE IInv'
    OBVIOUS
<1>1. SomeSource(source)'
    BY DEF IInv, Parse
<1>2. PICK args \in [DOMAIN source.args -> UNION {ParsedOperands(source.args[k]) : k \in DOMAIN source.args}] :
          /\ \A k \in DOMAIN args : args[k] \in ParsedOperands(source.args[k])
          /\ ir' = [form |-> source.form,
                    name |-> IF source.form = "binary" THEN BinOpOf(source.name) ELSE source.name,
                    to |-> source.t, args |-> args]
    BY DEF Parse
<1>3. source' = source /\ phase' = "lower"
    BY DEF Parse
<1>4. Parsed'
    BY <1>2, <1>3 DEF Parsed
<1> QED
    BY <1>1, <1>3, <1>4 DEF IInv

LEMMA LowerInv == IInv /\ Lower => IInv'
<1> SUFFICES ASSUME IInv, Lower PROVE IInv'
    OBVIOUS
<1>1. SomeSource(source)'
    BY DEF IInv, Lower
<1>2. source' = source /\ ir' = ir /\ phase = "lower" /\ phase' = "verify"
    BY DEF Lower
<1>3. Parsed'
    BY <1>2 DEF Parsed, IInv
<1>4. Lowered'
    BY <1>2, SameOperation DEF Lower, Lowered
<1> QED
    BY <1>1, <1>2, <1>3, <1>4 DEF IInv

LEMMA KeepLowered ==
    ASSUME UNCHANGED <<source, ir, module>>, SomeSource(source)
    PROVE  /\ SomeSource(source)'
           /\ Parsed => Parsed'
           /\ Lowered => Lowered'
           /\ Verifies' <=> Verifies
<1>1. Parsed => Parsed'
    BY DEF Parsed
<1>2. Lowered => Lowered'
    BY SameOperation DEF Lowered
<1>3. Verifies' <=> Verifies
    BY DEF Verifies, From
<1> QED
    BY <1>1, <1>2, <1>3

LEMMA NextInv == IInv /\ [Next]_vars => IInv'
<1> SUFFICES ASSUME IInv, [Next]_vars PROVE IInv'
    OBVIOUS
<1>1. CASE Parse
    BY <1>1, ParseInv
<1>2. CASE Lower
    BY <1>2, LowerInv
<1>3. CASE Undefined
    BY <1>3, KeepLowered DEF Undefined, IInv
<1>4. CASE Verify
    BY <1>4, KeepLowered DEF Verify, IInv
<1>5. CASE Run
  <2>1. UNCHANGED <<source, ir, module>> /\ phase = "run" /\ phase' = "done"
      BY <1>5 DEF Run
  <2>2. result' = Evaluate(module.op, module.fn, From, module.args)
      BY <1>5 DEF Run
  <2>3. result' = Evaluate(module.op, module.fn, From, module.args)'
      BY <2>1, <2>2 DEF Evaluate, From
  <2> QED
      BY <2>1, <2>3, KeepLowered DEF IInv
<1>6. CASE UNCHANGED vars
  <2>1. UNCHANGED <<source, ir, module>> /\ UNCHANGED <<result, phase>>
      BY <1>6 DEF vars
  <2>2. Evaluate(module.op, module.fn, From, module.args)
            = Evaluate(module.op, module.fn, From, module.args)'
      BY <2>1 DEF Evaluate, From
  <2> QED
      BY <2>1, <2>2, KeepLowered DEF IInv
<1> QED
    BY <1>1, <1>2, <1>3, <1>4, <1>5, <1>6 DEF Next

\* What the compiled function is and returns is determined by the source, through
\* the parser, LowerExp, and mlir::verify.
THEOREM ScalarInvariant == Spec => []IInv
<1>1. Init => IInv
    BY InitInv
<1>2. IInv /\ [Next]_vars => IInv'
    BY NextInv
<1> QED
    BY <1>1, <1>2, PTL DEF Spec

-----------------------------------------------------------------------------
(* Operands.                                                                 *)

LEMMA TypesAre ==
    /\ Types = Patterned \cup FloatTypes
    /\ IntTypes \subseteq Patterned /\ "bool" \in Patterned /\ "bool" \notin IntTypes
    /\ Patterned \cap FloatTypes = {}
    /\ "i64" \in IntTypes /\ "i16" \in Patterned /\ "f16" \in FloatTypes
BY DEF Types, Patterned, IntTypes, FloatTypes

LEMMA OperandFacts ==
    ASSUME NEW t \in Types, NEW literal \in BOOLEAN, NEW x \in Operands(t, literal)
    PROVE  /\ x.t = t /\ x.literal = literal /\ x.v \in Values(t)
           /\ x = [t |-> t, literal |-> literal, v |-> x.v]
BY DEF Operands

LEMMA IntegerValues ==
    ASSUME NEW t \in Patterned, NEW v \in Values(t)
    PROVE  /\ v.n \in 0..Size(t) - 1 /\ v.n \in Nat
           /\ v = Whole(v.n) /\ v.k = "int"
<1>1. t \notin FloatTypes
    BY TypesAre
<1>2. PICK b \in 0..Size(t) - 1 : v = Whole(b)
    BY <1>1 DEF Values
<1>3. Size(t) \in Nat
    BY SizeFacts
<1>4. v.n = b /\ v.k = "int"
    BY <1>2 DEF Whole
<1> QED
    BY <1>2, <1>3, <1>4

LEMMA FloatValues ==
    ASSUME NEW t \in FloatTypes, NEW v \in Values(t)
    PROVE  \/ v.k = "num" /\ v.h \in Int /\ v = Number(v.h)
           \/ v.k = "special" /\ v \in {Special("nan"), Special("inf"), Special("-inf")}
<1>1. v \in {Number(h) : h \in Halves} \cup {Special(s) : s \in {"nan", "inf", "-inf"}}
    BY DEF Values
<1>2. CASE v \in {Number(h) : h \in Halves}
  <2>1. PICK h \in Halves : v = Number(h)
      BY <1>2
  <2>2. v.k = "num" /\ v.h = h
      BY <2>1 DEF Number
  <2> QED
      BY <2>1, <2>2, ScalarAssumption
<1>3. CASE v \in {Special(s) : s \in {"nan", "inf", "-inf"}}
  <2>1. PICK s \in {"nan", "inf", "-inf"} : v = Special(s)
      BY <1>3
  <2>2. v.k = "special"
      BY <2>1 DEF Special
  <2> QED
      BY <2>1, <2>2
<1> QED
    BY <1>1, <1>2, <1>3

\* A literal of an integer type survives the visitor's cast, the uint64_t it
\* becomes and the attribute that keeps its low bits.
LEMMA IntegerLiteral ==
    ASSUME NEW t \in IntTypes, NEW b \in 0..Size(t) - 1
    PROVE  /\ IntValue(Signed(b, t), t) = Signed(b, t)
           /\ Pattern(Pattern(Signed(b, t), "i64"), t) = b
<1>1. t \in Patterned
    BY TypesAre
<1>2. Pattern(Signed(b, t), t) = b
    BY <1>1, SignedFacts
<1>3. Signed(b, t) \in Int
  <2>1. Top[t] \in Nat
      BY <1>1, SizeFacts
  <2>2. Signed(b, t) \in -Top[t]..Top[t] - 1
      BY <1>1, SignedFacts
  <2> QED
      BY <2>1, <2>2
<1> QED
    BY <1>2, <1>3, CutTwice DEF IntValue

LEMMA KeptOperand ==
    ASSUME NEW t \in Types, NEW literal \in BOOLEAN, NEW x \in Operands(t, literal),
           NEW y \in ParsedOperands(x)
    PROVE  /\ y.t = t
           /\ t # "f16" \/ Exact(x) => LowerOperand(y) = x.v
<1>1. /\ x.t = t /\ x.literal = literal /\ x.v \in Values(t)
      /\ x = [t |-> t, literal |-> literal, v |-> x.v]
    BY OperandFacts
<1>2. CASE ~literal
  <2>1. y = x
      BY <1>1, <1>2 DEF ParsedOperands
  <2> QED
      BY <1>1, <1>2, <2>1 DEF LowerOperand
<1>3. CASE literal
  <2>1. PICK w \in Literals(x) : y = [x EXCEPT !.v = w]
      BY <1>1, <1>3 DEF ParsedOperands
  <2>2. y.t = t /\ y.literal /\ y.v = w
      BY <1>1, <1>3, <2>1
  <2>3. LowerOperand(y) = PrimValueAttr(y)
      BY <2>2 DEF LowerOperand
  <2>4. CASE t \in IntTypes
    <3>1. x.v.n \in 0..Size(t) - 1 /\ x.v = Whole(x.v.n)
        BY <1>1, <2>4, IntegerValues, TypesAre
    <3>2. t # "f16"
        BY <2>4 DEF IntTypes
    <3>3. w = Whole(IntValue(Signed(x.v.n, t), t))
        BY <1>1, <2>4, <3>2 DEF Literals
    <3>4. w.n = Signed(x.v.n, t)
        BY <2>4, <3>1, <3>3, IntegerLiteral DEF Whole
    <3>5. PrimValueAttr(y) = Whole(Pattern(Pattern(w.n, "i64"), t))
        BY <2>2, <2>4 DEF PrimValueAttr
    <3> QED
        BY <2>2, <2>3, <2>4, <3>1, <3>4, <3>5, IntegerLiteral
  <2>5. CASE t = "f16"
    <3> SUFFICES ASSUME Exact(x) PROVE LowerOperand(y) = x.v
        BY <2>2, <2>5
    <3>1. Natural(x.v)
        BY <1>1, <1>3, <2>5 DEF Exact
    <3>2. x.v.k = "num" /\ x.v.h \in Int /\ x.v = Number(x.v.h)
        BY <1>1, <2>5, <3>1, FloatValues, TypesAre DEF Natural
    <3>3. PICK h \in Int : h = x.v.h
        BY <3>2
    <3>4. h >= 0 /\ h % 2 = 0 /\ h < 2 * Size("i16")
        BY <3>1, <3>3 DEF Natural
    <3>5. Uint16(x.v) = {h \div 2}
        BY <3>2, <3>3, <3>4 DEF Uint16
    <3>6. w = Whole(h \div 2)
        BY <1>1, <2>5, <3>5 DEF Literals
    <3>7. PrimValueAttr(y) = Number(2 * (h \div 2))
      <4>1. "f16" \notin IntTypes
          BY DEF IntTypes
      <4>2. PrimValueAttr(y) = Number(2 * w.n)
          BY <2>2, <2>5, <4>1 DEF PrimValueAttr
      <4>3. w.n = h \div 2
          BY <3>6 DEF Whole
      <4> QED
          BY <4>2, <4>3
    <3>8. 2 * (h \div 2) = h
        BY <3>4
    <3> QED
        BY <2>3, <3>2, <3>3, <3>7, <3>8
  <2>6. CASE t \notin IntTypes /\ t # "f16"
    <3>1. w = x.v
        BY <1>1, <2>6 DEF Literals
    <3> QED
        BY <2>2, <2>3, <2>6, <3>1 DEF PrimValueAttr
  <2> QED
      BY <2>4, <2>5, <2>6
<1> QED
    BY <1>2, <1>3

-----------------------------------------------------------------------------
(* Names of primitive functions.                                             *)

LEMMA Words ==
    ASSUME NEW base \in Functions
    PROVE  /\ \E S : base \in Seq(S)
           /\ Len(base) \in Nat \ {0}
           /\ base[1] # "cond" /\ base[Len(base)] # Underscore
<1>1. \/ \E a : base = <<a>> /\ a # "cond" /\ a # Underscore
      \/ \E a, b : base = <<a, b>> /\ a # "cond" /\ b # Underscore
      \/ \E a, b, c : base = <<a, b, c>> /\ a # "cond" /\ c # Underscore
    BY Zenon DEF Functions, FloatUnary, FloatTests, BitCounts, FloatPairs, FloatTriples, Underscore
<1>2. CASE \E a : base = <<a>> /\ a # "cond" /\ a # Underscore
  <2>1. PICK a : base = <<a>> /\ a # "cond" /\ a # Underscore
      BY <1>2
  <2>2. base \in Seq({a}) /\ Len(base) = 1 /\ base[1] = a /\ base[1] = a
      BY <2>1
  <2>3. \E S : base \in Seq(S)
      BY <2>2
  <2> QED
      BY <2>1, <2>2, <2>3
<1>3. CASE \E a, b : base = <<a, b>> /\ a # "cond" /\ b # Underscore
  <2>1. PICK a, b : base = <<a, b>> /\ a # "cond" /\ b # Underscore
      BY <1>3
  <2>2. base \in Seq({a, b}) /\ Len(base) = 2 /\ base[1] = a /\ base[2] = b
      BY <2>1
  <2>3. \E S : base \in Seq(S)
      BY <2>2
  <2> QED
      BY <2>1, <2>2, <2>3
<1>4. CASE \E a, b, c : base = <<a, b, c>> /\ a # "cond" /\ c # Underscore
  <2>1. PICK a, b, c : base = <<a, b, c>> /\ a # "cond" /\ c # Underscore
      BY <1>4
  <2>2. base \in Seq({a, b, c}) /\ Len(base) = 3 /\ base[1] = a /\ base[3] = c
      BY <2>1
  <2>3. \E S : base \in Seq(S)
      BY <2>2
  <2> QED
      BY <2>1, <2>2, <2>3
<1> QED
    BY <1>1, <1>2, <1>3, <1>4

LEMMA Widths ==
    ASSUME NEW t \in IntTypes \cup FloatTypes
    PROVE  WidthOf[t] \in Digits /\ Underscore \notin Digits
<1>1. WidthOf[t] \in Digits
    BY DEF IntTypes, FloatTypes, WidthOf, Digits
<1>2. Underscore \notin Digits
    BY Zenon DEF Underscore, Digits
<1> QED
    BY <1>1, <1>2

\* A name with its width: the underscore is there where it has to be.
LEMMA SuffixedFacts ==
    ASSUME NEW base \in Functions, NEW t \in IntTypes \cup FloatTypes
    PROVE  /\ IntrinsicBaseName(Suffixed(base, t)) = base
           /\ Suffixed(base, t)[1] # "cond"
           /\ SubSeq(Suffixed(base, t), 1, 2)[1] # "cond"
<1> DEFINE m == Len(base)
           w == WidthOf[t]
           u == IF base[m] \in Digits THEN <<Underscore>> ELSE <<>>
           name == Suffixed(base, t)
           n == Len(name)
<1>0. PICK R : base \in Seq(R)
    BY Words
<1> DEFINE S == R \cup {Underscore, w}
<1>1. base \in Seq(S) /\ m \in Nat \ {0} /\ base[1] # "cond" /\ base[m] # Underscore
  <2>1. base \in Seq(S)
      BY <1>0
  <2> QED
      BY <2>1, Words
<1>2. w \in Digits /\ w \in S /\ Underscore \in S /\ Underscore \notin Digits
    BY Widths
<1>3. /\ u \in Seq(S)
      /\ base[m] \in Digits => Len(u) = 1 /\ u[1] = Underscore
      /\ base[m] \notin Digits => Len(u) = 0
  <2> HIDE DEF S
  <2>1. CASE base[m] \in Digits
    <3>1. u = <<Underscore>>
        BY <2>1
    <3> QED
        BY <1>2, <2>1, <3>1
  <2>2. CASE base[m] \notin Digits
    <3>1. u = <<>>
        BY <2>2
    <3> QED
        BY <2>2, <3>1
  <2> QED
      BY <2>1, <2>2
<1>4. <<w>> \in Seq(S) /\ Len(<<w>>) = 1 /\ <<w>>[1] = w
    BY <1>2
<1>5. name = (base \o u) \o <<w>>
    BY DEF Suffixed
<1> HIDE DEF m, w, u, name, S
<1> DEFINE stem == base \o u
<1>6. /\ stem \in Seq(S) /\ Len(stem) = m + Len(u)
      /\ \A i \in 1..m + Len(u) : stem[i] = IF i <= m THEN base[i] ELSE u[i - m]
    BY <1>1, <1>3, ConcatProperties DEF m
<1> HIDE DEF stem
<1>7. /\ name \in Seq(S) /\ n = Len(stem) + 1
      /\ \A i \in 1..Len(stem) + 1 : name[i] = IF i <= Len(stem) THEN stem[i] ELSE <<w>>[i - Len(stem)]
    BY <1>4, <1>5, <1>6, ConcatProperties DEF stem
<1> HIDE DEF n
<1>8. Len(u) \in {0, 1}
    BY <1>3
<1>9. \A i \in 1..m : name[i] = base[i]
    BY <1>1, <1>6, <1>7, <1>8
<1>10. n > 1 /\ n \in Nat /\ name[n] = w
    BY <1>1, <1>4, <1>6, <1>7, <1>8
<1>11. name[1] # "cond"
    BY <1>1, <1>9
<1>12. SubSeq(name, 1, m) = base
  <2>1. /\ SubSeq(name, 1, m) \in Seq(S) /\ Len(SubSeq(name, 1, m)) = m
        /\ \A i \in 1..m : SubSeq(name, 1, m)[i] = name[i]
    <3>1. \A i \in 1..m : name[i] \in S
        BY <1>1, <1>9 DEF m
    <3>2. /\ SubSeq(name, 1, m) \in Seq(S)
          /\ Len(SubSeq(name, 1, m)) = IF 1 <= m THEN m - 1 + 1 ELSE 0
          /\ \A i \in 1..m - 1 + 1 : SubSeq(name, 1, m)[i] = name[1 + i - 1]
        BY <1>1, <3>1, SubSeqProperties
    <3> QED
        BY <1>1, <3>2
  <2> QED
      BY <1>1, <1>9, <2>1, SeqEqual DEF m
<1>13. IntrinsicBaseName(name) = SubSeq(name, 1, m)
  <2>1. CASE base[m] \in Digits
    <3>1. n = m + 2 /\ name[m + 1] = Underscore
      <4>1. Len(u) = 1 /\ u[1] = Underscore /\ Len(stem) = m + 1
          BY <1>1, <1>3, <1>6, <2>1
      <4>2. stem[m + 1] = Underscore
          BY <1>1, <1>6, <4>1
      <4> QED
          BY <1>1, <1>7, <4>1, <4>2
    <3>2. n - 2 = m /\ n - 1 = m + 1
        BY <1>1, <3>1
    <3> QED
        BY <1>2, <1>10, <3>1, <3>2 DEF IntrinsicBaseName, n
  <2>2. CASE base[m] \notin Digits
    <3>1. n = m + 1 /\ name[n - 1] = base[m]
        BY <1>1, <1>3, <1>6, <1>7, <1>9, <2>2
    <3>2. n - 1 = m
        BY <1>1, <3>1
    <3> QED
        BY <1>1, <1>2, <1>10, <3>1, <3>2 DEF IntrinsicBaseName, n
  <2> QED
      BY <2>1, <2>2
<1>14. SubSeq(name, 1, 2)[1] # "cond"
  <2>1. \A i \in 1..2 : name[i] \in S
      BY <1>7, <1>10, ElementOfSeq DEF n
  <2>2. \A i \in 1..2 - 1 + 1 : SubSeq(name, 1, 2)[i] = name[1 + i - 1]
      BY <2>1, SubSeqProperties
  <2> QED
      BY <1>11, <2>2
<1> QED
    BY <1>11, <1>12, <1>13, <1>14 DEF name

LEMMA CondFacts ==
    ASSUME NEW t \in Types
    PROVE  /\ Cond(t)[1] = "cond"
           /\ Len(Cond(t)) > 1 /\ SubSeq(Cond(t), 1, 2) = <<"cond", Underscore>>
<1> DEFINE c == Cond(t)
<1>1. c[1] = "cond" /\ c[2] = Underscore /\ Len(c) \in {3, 4}
    BY DEF Cond
<1> HIDE DEF c
<1>2. SubSeq(c, 1, 2) = <<"cond", Underscore>>
  <2>1. \A i \in 1..2 : c[i] \in {"cond", Underscore}
    <3>1. \A i \in 1..2 : i = 1 \/ i = 2
        OBVIOUS
    <3> QED
        BY <1>1, <3>1
  <2>2. /\ SubSeq(c, 1, 2) \in Seq({"cond", Underscore})
        /\ Len(SubSeq(c, 1, 2)) = 2
        /\ \A i \in 1..2 : SubSeq(c, 1, 2)[i] = c[1 + i - 1]
      BY <2>1, SubSeqProperties
  <2>3. SubSeq(c, 1, 2)[1] = "cond" /\ SubSeq(c, 1, 2)[2] = Underscore
      BY <1>1, <2>2
  <2>4. <<"cond", Underscore>> \in Seq({"cond", Underscore})
      OBVIOUS
  <2>5. \A i \in 1..2 : i = 1 \/ i = 2
      OBVIOUS
  <2>6. Len(<<"cond", Underscore>>) = 2
        /\ <<"cond", Underscore>>[1] = "cond" /\ <<"cond", Underscore>>[2] = Underscore
      OBVIOUS
  <2> QED
      BY <2>2, <2>3, <2>4, <2>5, <2>6, SeqEqual
<1> QED
    BY <1>1, <1>2 DEF c

-----------------------------------------------------------------------------
(* What an operation of MLIR evaluates to.                                   *)

LEMMA NoFunction ==
    <<>> \notin {<<"select">>, <<"roundeven">>, <<"isnan">>, <<"isinf">>}
OBVIOUS

LEMMA IntegerOperation ==
    ASSUME NEW t, NEW a, NEW op
    PROVE  LET n == Evaluate(op, <<>>, t, a)
               x == a[1].n  y == a[2].n  sx == Signed(a[1].n, t)  sy == Signed(a[2].n, t)
           IN  /\ op = "addi" => n = Whole(Pattern(x + y, t))
               /\ op = "muli" => n = Whole(Pattern(x * y, t))
               /\ op = "subi" => n = Whole(Pattern(x - y, t))
               /\ op = "divsi" => n = Whole(Pattern(TruncQuotient(sx, sy), t))
               /\ op = "ceildivsi" => n = Whole(Pattern(CeilQuotient(sx, sy), t))
BY NoFunction DEF Evaluate, IeeeName

LEMMA FloatOperation ==
    ASSUME NEW t, NEW a, NEW op
    PROVE  LET n == Evaluate(op, <<>>, t, a)
               x == a[1]  y == a[2]
           IN  /\ op = "constant" => n = x
               /\ op = "maxnumf" => n = IF x = NaN THEN y ELSE IF y = NaN \/ Less(y, x) THEN x ELSE y
               /\ op = "addf" => n = Term("fadd", a)
               /\ op = "mulf" => n = Term("fmul", a)
               /\ op = "subf" => n = Term("fsub", a)
               /\ op = "divf" => n = Term("fdiv", a)
               /\ op = "powf" => n = Term("fpow", a)
BY NoFunction DEF Evaluate, IeeeName

LEMMA Comparison ==
    ASSUME NEW t, NEW a, NEW op
    PROVE  LET n == Evaluate(op, <<>>, t, a)
               x == a[1]  y == a[2]
           IN  /\ op = "eq" => n = Truth(x.n = y.n)
               /\ op = "ult" => n = Truth(x.n < y.n)
               /\ op = "ule" => n = Truth(x.n <= y.n)
               /\ op = "slt" => n = Truth(Signed(x.n, t) < Signed(y.n, t))
               /\ op = "sle" => n = Truth(Signed(x.n, t) <= Signed(y.n, t))
               /\ op = "oeq" => n = Truth(Same(x, y))
               /\ op = "olt" => n = Truth(Less(x, y))
               /\ op = "ole" => n = Truth(Less(x, y) \/ Same(x, y))
BY NoFunction DEF Evaluate, IeeeName

LEMMA Conversion ==
    ASSUME NEW t, NEW a, NEW op
    PROVE  LET n == Evaluate(op, <<>>, t, a)
           IN  /\ op = "extui" => n = a[1]
               /\ op = "extsi" => n = Whole(Pattern(Signed(a[1].n, t), module.t))
               /\ op = "sitofp" => n = Number(2 * Signed(a[1].n, t))
BY NoFunction DEF Evaluate, IeeeName

LEMMA Function ==
    ASSUME NEW t, NEW a, NEW fn
    PROVE  LET n == Evaluate("math", fn, t, a)
           IN  /\ fn = <<"select">> => n = IF a[1] = Whole(1) THEN a[2] ELSE a[3]
               /\ fn = <<"roundeven">> => n = RoundEven(a[1])
               /\ fn = <<"isnan">> => n = Truth(a[1] = NaN)
               /\ fn = <<"isinf">> => n = Truth(a[1].k = "special" /\ a[1] # NaN)
               /\ fn \notin {<<"select">>, <<"roundeven">>, <<"isnan">>, <<"isinf">>}
                      => n = Term(fn, a)
BY DEF Evaluate, IeeeName

-----------------------------------------------------------------------------
(* Division.                                                                 *)

\* A quotient of magnitudes, its remainder, and how large it is.
LEMMA Divided ==
    ASSUME NEW m \in Nat, NEW d \in Nat \ {0}
    PROVE  \E q, r \in Nat :
              /\ m \div d = q /\ m = d * q + r /\ r < d
              /\ q <= m /\ (d > 1 /\ m > 0 => q < m)
<1>1. PICK q, r \in Nat : m \div d = q /\ m = d * q + r /\ r < d
  <2>1. m \div d \in Nat /\ m % d \in 0..d - 1 /\ m = d * (m \div d) + (m % d)
      OBVIOUS
  <2> QED
      BY <2>1
<1>2. PICK e \in Nat : d = 1 + e
  <2>1. d - 1 \in Nat /\ d = 1 + (d - 1)
      OBVIOUS
  <2> QED
      BY <2>1
<1>3. PICK p \in Nat : p = e * q /\ d * q = q + p
    BY <1>2
<1>4. q <= m
    BY <1>1, <1>3
<1>5. ASSUME d > 1, m > 0
      PROVE  q < m
  <2>1. PICK f \in Nat : e = 1 + f
    <3>1. e - 1 \in Nat /\ e = 1 + (e - 1)
        BY <1>2, <1>5
    <3> QED
        BY <3>1
  <2>2. p = q + f * q /\ f * q \in Nat
      BY <1>3, <2>1
  <2> QED
      BY <1>1, <1>3, <1>5, <2>2
<1> QED
    BY <1>1, <1>4, <1>5

\* The same of a quotient that is rounded up.
LEMMA DividedUp ==
    ASSUME NEW m \in Nat, NEW d \in Nat \ {0}
    PROVE  \E q, r \in Nat :
              /\ (m + d - 1) \div d = q /\ m + r = d * q /\ r < d
              /\ q <= m /\ (d > 1 /\ m > 1 => q < m)
<1>1. PICK q, s \in Nat : (m + d - 1) \div d = q /\ m + d - 1 = d * q + s /\ s < d
  <2>1. m + d - 1 \in Nat
      OBVIOUS
  <2> QED
      BY <2>1, Divided
<1>2. d - 1 - s \in Nat /\ m + (d - 1 - s) = d * q /\ d - 1 - s < d
  <2>1. d * q \in Nat
      BY <1>1
  <2> QED
      BY <1>1, <2>1
<1>3. CASE q = 0
    BY <1>1, <1>2, <1>3
<1>4. CASE q # 0
  <2>1. PICK p \in Nat : q = 1 + p
    <3>1. q - 1 \in Nat /\ q = 1 + (q - 1)
        BY <1>4
    <3> QED
        BY <3>1
  <2>2. PICK x \in Nat : x = d * p /\ d * q = d + x
      BY <2>1
  <2>3. x <= m - 1
      BY <1>1, <2>2
  <2>4. PICK e \in Nat : d = 1 + e
    <3>1. d - 1 \in Nat /\ d = 1 + (d - 1)
        OBVIOUS
    <3> QED
        BY <3>1
  <2>5. PICK y \in Nat : y = e * p /\ x = p + y
      BY <2>2, <2>4
  <2>6. q <= m
      BY <2>1, <2>3, <2>5
  <2>7. ASSUME d > 1, m > 1
        PROVE  q < m
    <3>1. PICK f \in Nat : e = 1 + f
      <4>1. e - 1 \in Nat /\ e = 1 + (e - 1)
          BY <2>4, <2>7
      <4> QED
          BY <4>1
    <3>2. y = p + f * p /\ f * p \in Nat
        BY <2>5, <3>1
    <3>3. x >= p + p
        BY <2>5, <3>2
    <3> QED
        BY <2>1, <2>3, <2>7, <3>3
  <2> QED
      BY <1>1, <1>2, <2>6, <2>7
<1> QED
    BY <1>3, <1>4

\* Dividends and divisors of a type: what they may be when the quotient is one.
Dividends(t, a, b) ==
    /\ a \in -Top[t]..Top[t] - 1 /\ b \in -Top[t]..Top[t] - 1
    /\ b # 0 /\ ~(a = -Top[t] /\ b = -1)

\* divsi rounds towards zero, as squot.
LEMMA Truncated ==
    ASSUME NEW t \in Patterned, NEW a \in Int, NEW b \in Int, Dividends(t, a, b)
    PROVE  /\ TruncQuotient(a, b) \in -Top[t]..Top[t] - 1
           /\ IsQuotient(TruncQuotient(a, b), a, b)
<1>1. PICK T \in Nat \ {0} : T = Top[t]
    BY SizeFacts
<1>2. a \in -T..T - 1 /\ b \in -T..T - 1 /\ b # 0 /\ ~(a = -T /\ b = -1)
    BY <1>1 DEF Dividends
<1>3. PICK m \in Nat, d \in Nat \ {0} : m = Abs(a) /\ d = Abs(b)
    BY <1>2 DEF Abs
<1>4. PICK q, r \in Nat : /\ m \div d = q /\ m = d * q + r /\ r < d
                          /\ q <= m /\ (d > 1 /\ m > 0 => q < m)
    BY Divided
<1>5. PICK p \in Nat : p = d * q
    OBVIOUS
<1>6. (-q) * d = -p /\ q * d = p /\ q * (-d) = -p /\ (-q) * (-d) = p
    BY <1>5
<1>7. TruncQuotient(a, b) = IF (a < 0) = (b < 0) THEN q ELSE -q
    BY <1>3, <1>4 DEF TruncQuotient
<1>8. CASE a < 0 /\ b < 0
  <2>1. a = -m /\ b = -d /\ TruncQuotient(a, b) = q
      BY <1>3, <1>7, <1>8 DEF Abs
  <2>2. a - q * b = -r
      BY <1>4, <1>5, <1>6, <2>1
  <2>3. q <= T - 1
      BY <1>2, <1>4, <2>1
  <2>4. IsQuotient(q, a, b)
      BY <1>3, <1>4, <1>8, <2>2 DEF IsQuotient, Abs
  <2> QED
      BY <1>1, <2>1, <2>3, <2>4
<1>9. CASE a < 0 /\ ~(b < 0)
  <2>1. a = -m /\ b = d /\ TruncQuotient(a, b) = -q
      BY <1>3, <1>7, <1>9 DEF Abs
  <2>2. a - (-q) * b = -r
      BY <1>4, <1>5, <1>6, <2>1
  <2>3. -q \in -T..T - 1
      BY <1>2, <1>4, <2>1
  <2>4. IsQuotient(-q, a, b)
      BY <1>3, <1>4, <1>9, <2>2 DEF IsQuotient, Abs
  <2> QED
      BY <1>1, <2>1, <2>3, <2>4
<1>10. CASE ~(a < 0) /\ b < 0
  <2>1. a = m /\ b = -d /\ TruncQuotient(a, b) = -q
      BY <1>3, <1>7, <1>10 DEF Abs
  <2>2. a - (-q) * b = r
      BY <1>4, <1>5, <1>6, <2>1
  <2>3. -q \in -T..T - 1
      BY <1>2, <1>4, <2>1
  <2>4. IsQuotient(-q, a, b)
    <3>1. Abs(r) = r /\ Abs(b) = d /\ r < d /\ r >= 0
        BY <1>3, <1>4 DEF Abs
    <3>2. a <= 0 => r <= 0
        BY <1>4, <1>5, <1>10, <2>1
    <3> QED
        BY <2>2, <3>1, <3>2 DEF IsQuotient
  <2> QED
      BY <1>1, <2>1, <2>3, <2>4
<1>11. CASE ~(a < 0) /\ ~(b < 0)
  <2>1. a = m /\ b = d /\ TruncQuotient(a, b) = q
      BY <1>3, <1>7, <1>11 DEF Abs
  <2>2. a - q * b = r
      BY <1>4, <1>5, <1>6, <2>1
  <2>3. q \in -T..T - 1
      BY <1>2, <1>4, <2>1
  <2>4. IsQuotient(q, a, b)
    <3>1. Abs(r) = r /\ Abs(b) = d /\ r < d /\ r >= 0
        BY <1>3, <1>4 DEF Abs
    <3>2. a <= 0 => r <= 0
        BY <1>4, <1>5, <1>11, <2>1
    <3> QED
        BY <2>2, <3>1, <3>2 DEF IsQuotient
  <2> QED
      BY <1>1, <2>1, <2>3, <2>4
<1> QED
    BY <1>8, <1>9, <1>10, <1>11

\* ceildivsi rounds towards positive infinity, as sdiv_up.
LEMMA RoundedUp ==
    ASSUME NEW t \in Patterned, NEW a \in Int, NEW b \in Int, Dividends(t, a, b)
    PROVE  /\ CeilQuotient(a, b) \in -Top[t]..Top[t] - 1
           /\ IsCeiling(CeilQuotient(a, b), a, b)
<1>1. PICK T \in Nat \ {0} : T = Top[t]
    BY SizeFacts
<1>2. a \in -T..T - 1 /\ b \in -T..T - 1 /\ b # 0 /\ ~(a = -T /\ b = -1)
    BY <1>1 DEF Dividends
<1>3. PICK m \in Nat, d \in Nat \ {0} : m = Abs(a) /\ d = Abs(b)
    BY <1>2 DEF Abs
<1>4. CASE (a < 0) = (b < 0)
  <2>1. PICK q, r \in Nat :
            /\ (m + d - 1) \div d = q /\ m + r = d * q /\ r < d
            /\ q <= m /\ (d > 1 /\ m > 1 => q < m)
      BY DividedUp
  <2>2. CeilQuotient(a, b) = q
      BY <1>3, <1>4, <2>1 DEF CeilQuotient
  <2>3. PICK p \in Nat : p = d * q
      OBVIOUS
  <2>4. q * d = p /\ (q - 1) * d = p - d /\ q * (-d) = -p /\ (q - 1) * (-d) = d - p
      BY <2>3
  <2>5. CASE b < 0
    <3>1. a = -m /\ b = -d
        BY <1>3, <1>4, <2>5 DEF Abs
    <3>2. q * b <= a /\ (q - 1) * b > a
        BY <2>1, <2>3, <2>4, <3>1
    <3>3. q <= T - 1
        BY <1>2, <1>4, <2>1, <2>5, <3>1
    <3> QED
        BY <1>1, <2>2, <2>5, <3>2, <3>3 DEF IsCeiling
  <2>6. CASE ~(b < 0)
    <3>1. a = m /\ b = d
        BY <1>3, <1>4, <2>6 DEF Abs
    <3>2. q * b >= a /\ (q - 1) * b < a
        BY <2>1, <2>3, <2>4, <3>1
    <3>3. q \in -T..T - 1
        BY <1>2, <2>1, <3>1
    <3> QED
        BY <1>1, <2>2, <3>1, <3>2, <3>3 DEF IsCeiling
  <2> QED
      BY <2>5, <2>6
<1>5. CASE (a < 0) # (b < 0)
  <2>1. PICK q, r \in Nat : m \div d = q /\ m = d * q + r /\ r < d /\ q <= m
      BY Divided
  <2>2. CeilQuotient(a, b) = -q
      BY <1>3, <1>5, <2>1 DEF CeilQuotient
  <2>3. PICK p \in Nat : p = d * q
      OBVIOUS
  <2>4. (-q) * d = -p /\ (-q - 1) * d = -p - d /\ (-q) * (-d) = p /\ (-q - 1) * (-d) = p + d
      BY <2>3
  <2>5. CASE b < 0
    <3>1. a = m /\ b = -d
        BY <1>3, <1>5, <2>5 DEF Abs
    <3>2. (-q) * b <= a /\ (-q - 1) * b > a
        BY <2>1, <2>3, <2>4, <3>1
    <3>3. -q \in -T..T - 1
        BY <1>2, <2>1, <3>1
    <3> QED
        BY <1>1, <2>2, <2>5, <3>2, <3>3 DEF IsCeiling
  <2>6. CASE ~(b < 0)
    <3>1. a = -m /\ b = d
        BY <1>3, <1>5, <2>6 DEF Abs
    <3>2. (-q) * b >= a /\ (-q - 1) * b < a
        BY <2>1, <2>3, <2>4, <3>1
    <3>3. -q \in -T..T - 1
        BY <1>2, <2>1, <3>1
    <3> QED
        BY <1>1, <2>2, <3>1, <3>2, <3>3 DEF IsCeiling
  <2> QED
      BY <2>5, <2>6
<1> QED
    BY <1>4, <1>5

\* A number of the type is that of its own pattern.
LEMMA NumberOfPattern ==
    ASSUME NEW t \in Patterned, NEW n \in -Top[t]..Top[t] - 1
    PROVE  Signed(Pattern(n, t), t) = n
<1> DEFINE b == Pattern(n, t)
           w == Signed(b, t)
<1>1. PICK T \in Nat \ {0}, M \in Nat \ {0} : T = Top[t] /\ M = Size(t) /\ M = 2 * T
    BY SizeFacts
<1>2. n \in Int /\ n \in -T..T - 1
    BY <1>1
<1>3. b \in 0..M - 1
    BY <1>1, <1>2, PatternFacts
<1>4. PICK p \in Int : n = b + M * p
    BY <1>1, <1>2, PatternFacts
<1>5. w \in -T..T - 1 /\ \E q \in Int : w = b + M * q
  <2>1. b \in 0..Size(t) - 1
      BY <1>1, <1>3
  <2>2. w \in -Top[t]..Top[t] - 1 /\ \E q \in {0, -1} : w = b + Size(t) * q
      BY <2>1, SignedFacts
  <2>3. 0 \in Int /\ -1 \in Int
      OBVIOUS
  <2> QED
      BY <1>1, <2>2, <2>3
<1>6. PICK q \in Int : w = b + M * q
    BY <1>5
<1> HIDE DEF b, w
<1>7. (n - b) % M = 0
  <2>1. n - b = M * p
    <3>1. M * p \in Int
        BY <1>1
    <3> QED
        BY <1>3, <1>4, <3>1
  <2> QED
      BY <1>1, <2>1, MultipleLeavesNothing
<1>8. (w - b) % M = 0
  <2>1. w - b = M * q
    <3>1. M * q \in Int
        BY <1>1
    <3> QED
        BY <1>3, <1>6, <3>1
  <2> QED
      BY <1>1, <2>1, MultipleLeavesNothing
<1>9. w - n < M /\ n - w < M /\ w \in Int /\ b \in Int
    BY <1>1, <1>2, <1>3, <1>5
<1>10. \A x, y \in Int : (x - b) % M = 0 /\ (y - b) % M = 0 /\ x - y < M /\ y - x < M => x = y
    BY <1>1, <1>9, OneRemainder
<1>11. w = n
    BY <1>2, <1>7, <1>8, <1>9, <1>10
<1> QED
    BY <1>11 DEF b, w

\* roundeven takes ties to the even number, as round does.
LEMMA RoundedEven ==
    ASSUME NEW x, x.k # "num" \/ (x.h \in Int /\ x = Number(x.h))
    PROVE  IsRounded(RoundEven(x), x)
<1>1. CASE x.k # "num"
    BY <1>1 DEF RoundEven, IsRounded
<1>2. CASE x.k = "num"
  <2>1. PICK h \in Int : h = x.h
      BY <1>2
  <2>2. \A i \in Int : Number(i).h = i
      BY DEF Number
  <2>3. CASE h % 2 = 0
    <3>1. RoundEven(x) = x
        BY <1>2, <2>1, <2>3 DEF RoundEven
    <3>2. h - h = 0 /\ ~(h % 2 = 1)
        BY <2>3
    <3> QED
        BY <1>2, <2>1, <2>3, <3>1, <3>2 DEF IsRounded, Abs
  <2>4. CASE h % 2 # 0 /\ h % 4 = 1
    <3>1. RoundEven(x) = Number(h - 1)
        BY <1>2, <2>1, <2>4 DEF RoundEven
    <3>2. (h - 1) % 2 = 0 /\ (h - 1) % 4 = 0
        BY <2>4
    <3>3. h - 1 \in Int /\ RoundEven(x).h = h - 1
        BY <2>2, <3>1
    <3> QED
        BY <1>2, <2>1, <3>2, <3>3 DEF IsRounded, Abs
  <2>5. CASE h % 2 # 0 /\ h % 4 # 1
    <3>1. RoundEven(x) = Number(h + 1)
        BY <1>2, <2>1, <2>5 DEF RoundEven
    <3>2. (h + 1) % 2 = 0 /\ (h + 1) % 4 = 0
        BY <2>5
    <3>3. h + 1 \in Int /\ RoundEven(x).h = h + 1
        BY <2>2, <3>1
    <3> QED
        BY <1>2, <2>1, <3>2, <3>3 DEF IsRounded, Abs
  <2> QED
      BY <2>3, <2>4, <2>5
<1> QED
    BY <1>1, <1>2

\* maxnumf returns an operand that is a number where there is one.
LEMMA Greater ==
    ASSUME NEW x, NEW y,
           x = NaN \/ x = Special("inf") \/ x = Special("-inf") \/ (x.k = "num" /\ x.h \in Int /\ x = Number(x.h)),
           y = NaN \/ y = Special("inf") \/ y = Special("-inf") \/ (y.k = "num" /\ y.h \in Int /\ y = Number(y.h))
    PROVE  IsMax(IF x = NaN THEN y ELSE IF y = NaN \/ Less(y, x) THEN x ELSE y, x, y)
<1> DEFINE m == IF x = NaN THEN y ELSE IF y = NaN \/ Less(y, x) THEN x ELSE y
<1>1. ~Less(NaN, x) /\ ~Less(x, NaN) /\ ~Less(NaN, y) /\ ~Less(y, NaN)
    BY DEF Less
<1>2. ~Less(x, x) /\ ~Less(y, y)
    BY DEF Less
<1>3. Less(x, y) => ~Less(y, x)
    BY DEF Less, NaN, Special
<1>4. m \in {x, y} /\ (m = NaN => x = NaN /\ y = NaN)
    BY DEF m
<1>5. ~Less(m, x) /\ ~Less(m, y)
  <2>1. CASE x = NaN
      BY <1>1, <1>2, <2>1
  <2>2. CASE x # NaN /\ y = NaN
      BY <1>1, <1>2, <2>2
  <2>3. CASE x # NaN /\ y # NaN /\ Less(y, x)
      BY <1>2, <1>3, <2>3
  <2>4. CASE x # NaN /\ y # NaN /\ ~Less(y, x)
      BY <1>2, <2>4
  <2> QED
      BY <2>1, <2>2, <2>3, <2>4
<1> QED
    BY <1>4, <1>5 DEF IsMax
-----------------------------------------------------------------------------
(* What has been compiled.                                                   *)

Finished == IInv /\ phase \in {"done", "refused"}

\* What the three properties say of it.
Right == TypeOK /\ ScalarMeaning /\ OnlyTheseRefused

LEMMA CompiledFacts ==
    ASSUME Finished
    PROVE  /\ module.op \in MlirOp /\ module.fn = MlirFunction /\ module.t = ResultType
           /\ \A k \in DOMAIN source.args :
                 /\ ir.args[k] \in ParsedOperands(source.args[k])
                 /\ module.args[k] = LowerOperand(ir.args[k])
           /\ module.args = [k \in DOMAIN source.args |-> LowerOperand(ir.args[k])]
           /\ ir.form = source.form /\ ir.to = source.t
           /\ ir.name = IF source.form = "binary" THEN BinOpOf(source.name) ELSE source.name
<1>1. Lowered /\ Parsed
    BY DEF Finished, IInv
<1>2. PICK op \in MlirOp :
          module = [op |-> op, fn |-> MlirFunction, t |-> ResultType,
                    args |-> [k \in DOMAIN ir.args |-> LowerOperand(ir.args[k])]]
    BY <1>1 DEF Lowered
<1>3. /\ module.op = op /\ module.fn = MlirFunction /\ module.t = ResultType
      /\ module.args = [k \in DOMAIN ir.args |-> LowerOperand(ir.args[k])]
    BY <1>2
<1> QED
    BY <1>1, <1>3 DEF Parsed

\* Operands of type t, literals or parameters.
OperandsOf(t) == Operands(t, TRUE) \cup Operands(t, FALSE)

LEMMA EitherKind ==
    ASSUME NEW t, NEW literal \in BOOLEAN
    PROVE  Operands(t, literal) \subseteq OperandsOf(t)
<1>1. CASE literal = TRUE
    BY <1>1, Zenon DEF OperandsOf
<1>2. CASE literal = FALSE
    BY <1>2, Zenon DEF OperandsOf
<1> QED
    BY <1>1, <1>2, Zenon

LEMMA OperandOf ==
    ASSUME NEW t \in Types, NEW x \in OperandsOf(t)
    PROVE  x.t = t /\ x.v \in Values(t)
BY DEF OperandsOf, Operands

LEMMA KeptOperandOf ==
    ASSUME NEW t \in Types, NEW x \in OperandsOf(t), NEW y \in ParsedOperands(x)
    PROVE  /\ y.t = t
           /\ t # "f16" \/ Exact(x) => LowerOperand(y) = x.v
<1>1. TRUE \in BOOLEAN /\ FALSE \in BOOLEAN
    BY Zenon
<1>2. CASE x \in Operands(t, TRUE)
    BY <1>1, <1>2, KeptOperand, Zenon
<1>3. CASE x \in Operands(t, FALSE)
    BY <1>1, <1>3, KeptOperand, Zenon
<1> QED
    BY <1>2, <1>3 DEF OperandsOf

\* An operand keeps its type and, save a literal of type f16, its value.
LEMMA CompiledOperand ==
    ASSUME Finished, NEW t \in Types, NEW k \in DOMAIN source.args,
           source.args[k] \in OperandsOf(t)
    PROVE  /\ ir.args[k].t = t
           /\ t # "f16" \/ Exact(source.args[k]) => module.args[k] = source.args[k].v
<1>1. ir.args[k] \in ParsedOperands(source.args[k]) /\ module.args[k] = LowerOperand(ir.args[k])
    BY CompiledFacts
<1> QED
    BY <1>1, KeptOperandOf

\* Operations that are no function of the math dialect.
LEMMA NotApplied ==
    ASSUME Finished, source.form # "apply"
    PROVE  /\ module.fn = <<>>
           /\ module.t = IF source.form = "compare" THEN "bool"
                         ELSE IF source.form = "convert" THEN source.t ELSE ir.args[1].t
<1>1. ir.form = source.form /\ ir.to = source.t /\ module.fn = MlirFunction /\ module.t = ResultType
    BY CompiledFacts
<1>2. MlirFunction = <<>>
    BY <1>1 DEF MlirFunction
<1>3. <<>> # <<"isnan">> /\ <<>> # <<"isinf">> /\ <<>> # <<"select">>
    BY NoFunction
<1>4. <<>> \notin FloatTests
    BY <1>3 DEF FloatTests
<1>5. ResultType = IF ir.form = "compare" THEN "bool" ELSE IF ir.form = "convert" THEN ir.to ELSE ir.args[1].t
    BY <1>2, <1>3, <1>4 DEF ResultType
<1> QED
    BY <1>1, <1>2, <1>5

LEMMA FinishedFacts ==
    ASSUME Finished
    PROVE  /\ phase = "done" <=> Verifies
           /\ phase = "refused" <=> ~Verifies
           /\ phase = "done" => result = Evaluate(module.op, module.fn, ir.args[1].t, module.args)
<1>1. phase \in {"done", "refused"} /\ "done" # "refused"
    BY DEF Finished
<1>2. phase = "done" => Verifies /\ result = Evaluate(module.op, module.fn, From, module.args)
    BY DEF Finished, IInv
<1>3. phase = "refused" => ~Verifies
    BY DEF Finished, IInv
<1> QED
    BY <1>1, <1>2, <1>3 DEF From

\* What is to be shown, in one piece.
LEMMA RightOf ==
    ASSUME Finished, source.t \in Types,
           phase = "done" =>
               /\ (\A k \in DOMAIN source.args : Exact(source.args[k])) => Means(result)
               /\ source.t \in Patterned /\ result.k = "int" => result.n \in 0..Size(source.t) - 1,
           OnlyTheseRefused
    PROVE  Right
<1>1. ScalarMeaning
    BY DEF ScalarMeaning
<1>2. TypeOK
  <2>1. phase \in {"parse", "lower", "verify", "run", "done", "undefined", "refused"}
      BY DEF Finished, IInv
  <2> QED
      BY <2>1 DEF TypeOK, Patterned
<1> QED
    BY <1>1, <1>2 DEF Right

LEMMA Tuples ==
    /\ \A x : DOMAIN <<x>> = {1} /\ <<x>>[1] = x
    /\ \A x, y : DOMAIN <<x, y>> = {1, 2} /\ <<x, y>>[1] = x /\ <<x, y>>[2] = y
    /\ \A x, y, z :
          /\ DOMAIN <<x, y, z>> = {1, 2, 3}
          /\ <<x, y, z>>[1] = x /\ <<x, y, z>>[2] = y /\ <<x, y, z>>[3] = z
OBVIOUS

LEMMA LiteralRight ==
    ASSUME Finished, NEW t \in Types, NEW x \in OperandsOf(t),
           Is(source, "literal", "", t, <<x>>)
    PROVE  Right
<1>1. source.form = "literal" /\ source.t = t /\ source.args = <<x>>
    BY DEF Is
<1>2. DOMAIN source.args = {1} /\ source.args[1] = x
    BY <1>1, Tuples
<1>3. ir.args[1].t = t /\ (t # "f16" \/ Exact(x) => module.args[1] = x.v)
    BY <1>2, CompiledOperand
<1>4. module.op = "constant" /\ module.fn = <<>> /\ module.t = t
  <2>1. ir.form = "literal"
      BY <1>1, CompiledFacts
  <2>2. module.op \in MlirOp
      BY CompiledFacts
  <2>3. MlirOp = {"constant"}
      BY <2>1 DEF MlirOp
  <2>4. module.fn = <<>> /\ module.t = ir.args[1].t
      BY <1>1, NotApplied
  <2> QED
      BY <1>3, <2>2, <2>3, <2>4
<1>5. Verifies
    BY <1>1, <1>4 DEF Verifies
<1>6. phase = "done" /\ result = module.args[1]
  <2>1. phase = "done" /\ result = Evaluate("constant", <<>>, ir.args[1].t, module.args)
      BY <1>4, <1>5, FinishedFacts
  <2>2. Evaluate("constant", <<>>, ir.args[1].t, module.args) = module.args[1]
      BY FloatOperation
  <2> QED
      BY <2>1, <2>2
<1>7. Exact(x) => Means(result)
    BY <1>1, <1>2, <1>3, <1>6 DEF Means
<1>8. t \in Patterned => result.n \in 0..Size(t) - 1
  <2>1. ASSUME t \in Patterned PROVE x.v.n \in 0..Size(t) - 1 /\ t # "f16"
    <3>1. x.v \in Values(t)
        BY OperandOf
    <3> QED
        BY <2>1, <3>1, IntegerValues, TypesAre
  <2> QED
      BY <1>3, <1>6, <2>1
<1>9. OnlyTheseRefused
    BY <1>6 DEF OnlyTheseRefused
<1> QED
    BY <1>1, <1>2, <1>7, <1>8, <1>9, RightOf

LEMMA CompiledPair ==
    ASSUME Finished, NEW t \in Types, NEW x \in OperandsOf(t), NEW y \in OperandsOf(t),
           source.args = <<x, y>>
    PROVE  /\ DOMAIN source.args = {1, 2} /\ source.args[1] = x /\ source.args[2] = y
           /\ ir.args[1].t = t /\ ir.args[2].t = t
           /\ t # "f16" \/ Exact(x) => module.args[1] = x.v
           /\ t # "f16" \/ Exact(y) => module.args[2] = y.v
           /\ x.t = t /\ x.v \in Values(t) /\ y.t = t /\ y.v \in Values(t)
<1>1. DOMAIN source.args = {1, 2} /\ source.args[1] = x /\ source.args[2] = y
    BY Tuples
<1>2. ir.args[1].t = t /\ (t # "f16" \/ Exact(x) => module.args[1] = x.v)
    BY <1>1, CompiledOperand
<1>3. ir.args[2].t = t /\ (t # "f16" \/ Exact(y) => module.args[2] = y.v)
    BY <1>1, CompiledOperand
<1> QED
    BY <1>1, <1>2, <1>3, OperandOf

LEMMA BinaryOperation ==
    ASSUME Finished, source.form = "binary"
    PROVE  /\ BinOpOf(source.name) \in DOMAIN MlirBinOp
           /\ module.op = MlirBinOp[BinOpOf(source.name)] /\ module.fn = <<>>
           /\ module.t = ir.args[1].t
           /\ module.op \notin {"extui", "extsi"}
<1>1. ir.form = "binary" /\ ir.name = BinOpOf(source.name) /\ module.op \in MlirOp
    BY CompiledFacts
<1>2. MlirOp = IF ir.name \in DOMAIN MlirBinOp THEN {MlirBinOp[ir.name]} ELSE {}
    BY <1>1 DEF MlirOp
<1>3. BinOpOf(source.name) \in DOMAIN MlirBinOp /\ module.op = MlirBinOp[BinOpOf(source.name)]
    BY <1>1, <1>2
<1>4. module.op \notin {"extui", "extsi"}
    BY <1>3 DEF MlirBinOp
<1> QED
    BY <1>3, <1>4, NotApplied

\* Sums, differences and products of patterns are those of the numbers.
LEMMA SameBits ==
    ASSUME NEW t \in Patterned, NEW x \in 0..Size(t) - 1, NEW y \in 0..Size(t) - 1
    PROVE  LET a == Signed(x, t)  b == Signed(y, t)
           IN  /\ Signed(Pattern(x + y, t), t) = Wrapped(a + b, t)
               /\ Signed(Pattern(x - y, t), t) = Wrapped(a - b, t)
               /\ Signed(Pattern(x * y, t), t) = Wrapped(a * b, t)
<1> DEFINE a == Signed(x, t)
           b == Signed(y, t)
<1>1. PICK M \in Nat \ {0} : M = Size(t)
    BY SizeFacts
<1>2. x \in Int /\ y \in Int
    BY <1>1
<1>3. \E q \in {0, -1} : a = x + Size(t) * q
    BY SignedFacts
<1>4. \E q \in {0, -1} : b = y + Size(t) * q
    BY SignedFacts
<1> HIDE DEF a, b
<1>5. PICK p \in Int : a = x + M * p
    BY <1>1, <1>3
<1>6. PICK q \in Int : b = y + M * q
    BY <1>1, <1>4
<1>7. a \in Int /\ b \in Int
    BY <1>1, <1>2, <1>5, <1>6
<1>8. \A m \in Int, n \in Int, k \in Int :
          m = n + M * k => Signed(Pattern(n, t), t) = Wrapped(m, t)
  <2> TAKE m \in Int, n \in Int, k \in Int
  <2> HAVE m = n + M * k
  <2>1. m % M = n % M
      BY <1>1, SameRemainder
  <2>2. Pattern(m, t) = Pattern(n, t)
      BY <1>1, <2>1 DEF Pattern
  <2> QED
      BY <2>2, WrappedIs
<1>9. Signed(Pattern(x + y, t), t) = Wrapped(a + b, t)
  <2>1. a + b = (x + y) + M * (p + q)
      BY <1>1, <1>2, <1>5, <1>6
  <2>2. PICK k \in Int : k = p + q
      BY <1>5
  <2>3. x + y \in Int /\ a + b \in Int
      BY <1>2, <1>7
  <2> QED
      BY <1>8, <2>1, <2>2, <2>3
<1>10. Signed(Pattern(x - y, t), t) = Wrapped(a - b, t)
  <2>1. a - b = (x - y) + M * (p - q)
      BY <1>1, <1>2, <1>5, <1>6
  <2>2. PICK k \in Int : k = p - q
      BY <1>5
  <2>3. x - y \in Int /\ a - b \in Int
      BY <1>2, <1>7
  <2> QED
      BY <1>8, <2>1, <2>2, <2>3
<1>11. Signed(Pattern(x * y, t), t) = Wrapped(a * b, t)
  <2>1. a * b = (x * y) + M * ((x * q) + (y * p) + (M * p * q))
    <3>1. (x + M * p) * (y + M * q) = x * y + x * (M * q) + (M * p) * y + (M * p) * (M * q)
        BY <1>1, <1>2
    <3>2. x * (M * q) = M * (x * q) /\ (M * p) * y = M * (y * p) /\ (M * p) * (M * q) = M * (M * p * q)
        BY <1>1, <1>2
    <3>3. PICK c \in Int, d \in Int, e \in Int : c = x * q /\ d = y * p /\ e = M * p * q
        BY <1>1, <1>2
    <3>4. M * (c + d + e) = M * c + M * d + M * e
        BY <1>1, <3>3
    <3> QED
        BY <1>1, <1>2, <1>5, <1>6, <3>1, <3>2, <3>3, <3>4
  <2>2. PICK k \in Int : k = (x * q) + (y * p) + (M * p * q)
      BY <1>1, <1>2
  <2>3. x * y \in Int /\ a * b \in Int
      BY <1>2, <1>7
  <2> QED
      BY <1>8, <2>1, <2>2, <2>3
<1> QED
    BY <1>9, <1>10, <1>11 DEF a, b

LEMMA IntegerBinaryRight ==
    ASSUME Finished, NEW t \in IntTypes, NEW name \in IntBinary,
           NEW x \in OperandsOf(t), NEW y \in OperandsOf(t), Divides(name, t, x, y),
           Is(source, "binary", name, t, <<x, y>>)
    PROVE  Right
<1>1. source.form = "binary" /\ source.name = name /\ source.t = t /\ source.args = <<x, y>>
    BY DEF Is
<1>2. t \in Types /\ t \in Patterned /\ t # "f16" /\ t \in IntTypes
    BY TypesAre DEF IntTypes
<1>3. /\ DOMAIN source.args = {1, 2} /\ source.args[1] = x /\ source.args[2] = y
      /\ ir.args[1].t = t /\ x.v \in Values(t) /\ y.v \in Values(t)
      /\ module.args[1] = x.v /\ module.args[2] = y.v
    BY <1>1, <1>2, CompiledPair
<1>4. /\ x.v.n \in 0..Size(t) - 1 /\ x.v.n \in Nat
      /\ y.v.n \in 0..Size(t) - 1 /\ y.v.n \in Nat
    BY <1>2, <1>3, IntegerValues
<1>5. /\ BinOpOf(name) \in DOMAIN MlirBinOp /\ module.op = MlirBinOp[BinOpOf(name)]
      /\ module.fn = <<>> /\ module.t = t /\ module.op \notin {"extui", "extsi"}
    BY <1>1, <1>3, BinaryOperation
<1>6. phase = "done"
    BY <1>1, <1>5, FinishedFacts DEF Verifies
<1>7. result = Evaluate(module.op, <<>>, t, module.args)
    BY <1>3, <1>5, <1>6, FinishedFacts
<1> DEFINE a == Signed(x.v.n, t)
           b == Signed(y.v.n, t)
<1>8. a \in -Top[t]..Top[t] - 1 /\ b \in -Top[t]..Top[t] - 1 /\ a \in Int /\ b \in Int
  <2>1. a \in -Top[t]..Top[t] - 1 /\ b \in -Top[t]..Top[t] - 1
      BY <1>2, <1>4, SignedFacts
  <2>2. Top[t] \in Nat
      BY <1>2, SizeFacts
  <2> QED
      BY <2>1, <2>2
<1>9. name \in {"squot", "sdiv", "sdiv_up"} => Dividends(t, a, b)
  <2> SUFFICES ASSUME name \in {"squot", "sdiv", "sdiv_up"} PROVE Dividends(t, a, b)
      OBVIOUS
  <2>1. y.v.n # 0 /\ ~(a = -Top[t] /\ b = -1)
      BY DEF Divides
  <2>2. b # 0
    <3>1. PICK T \in Nat \ {0} : T = Top[t] /\ Size(t) = 2 * T
        BY <1>2, SizeFacts
    <3> QED
        BY <1>4, <2>1, <3>1 DEF Signed
  <2> QED
      BY <1>8, <2>1, <2>2 DEF Dividends
<1>10. \E n \in Int : result = Whole(Pattern(n, t)) /\ IntMeaning(name, t, a, b, Signed(Pattern(n, t), t))
  <2> HIDE DEF a, b
  <2>1. CASE name \in {"add", "add_nw"}
    <3>1. module.op = "addi"
        BY <1>5, <2>1 DEF MlirBinOp, BinOpOf
    <3>2. result = Whole(Pattern(x.v.n + y.v.n, t))
        BY <1>3, <1>7, <3>1, IntegerOperation
    <3>3. IntMeaning(name, t, a, b, Signed(Pattern(x.v.n + y.v.n, t), t))
        BY <1>2, <1>4, <2>1, SameBits DEF IntMeaning, a, b
    <3> QED
        BY <1>4, <3>2, <3>3
  <2>2. CASE name \in {"sub", "sub_nw"}
    <3>1. module.op = "subi"
        BY <1>5, <2>2 DEF MlirBinOp, BinOpOf
    <3>2. result = Whole(Pattern(x.v.n - y.v.n, t))
        BY <1>3, <1>7, <3>1, IntegerOperation
    <3>3. IntMeaning(name, t, a, b, Signed(Pattern(x.v.n - y.v.n, t), t))
        BY <1>2, <1>4, <2>2, SameBits DEF IntMeaning, a, b
    <3> QED
        BY <1>4, <3>2, <3>3
  <2>3. CASE name \in {"mul", "mul_nw"}
    <3>1. module.op = "muli"
        BY <1>5, <2>3 DEF MlirBinOp, BinOpOf
    <3>2. result = Whole(Pattern(x.v.n * y.v.n, t))
        BY <1>3, <1>7, <3>1, IntegerOperation
    <3>3. IntMeaning(name, t, a, b, Signed(Pattern(x.v.n * y.v.n, t), t))
        BY <1>2, <1>4, <2>3, SameBits DEF IntMeaning, a, b
    <3> QED
        BY <1>4, <3>2, <3>3
  <2>4. CASE name = "squot"
    <3>1. module.op = "divsi"
        BY <1>5, <2>4 DEF MlirBinOp, BinOpOf
    <3>2. result = Whole(Pattern(TruncQuotient(a, b), t))
        BY <1>3, <1>7, <3>1, IntegerOperation DEF a, b
    <3>3. PICK q : q = TruncQuotient(a, b)
        OBVIOUS
    <3>4. q \in -Top[t]..Top[t] - 1 /\ IsQuotient(q, a, b)
        BY <1>2, <1>8, <1>9, <2>4, <3>3, Truncated
    <3>5. Signed(Pattern(q, t), t) = q /\ q \in Int
        BY <1>2, <3>4, NumberOfPattern, SizeFacts
    <3>6. IntMeaning(name, t, a, b, Signed(Pattern(q, t), t))
        BY <2>4, <3>4, <3>5 DEF IntMeaning
    <3> QED
        BY <3>2, <3>3, <3>5, <3>6
  <2>5. CASE name = "sdiv_up"
    <3>1. module.op = "ceildivsi"
        BY <1>5, <2>5 DEF MlirBinOp, BinOpOf
    <3>2. result = Whole(Pattern(CeilQuotient(a, b), t))
        BY <1>3, <1>7, <3>1, IntegerOperation DEF a, b
    <3>3. PICK q : q = CeilQuotient(a, b)
        OBVIOUS
    <3>4. q \in -Top[t]..Top[t] - 1 /\ IsCeiling(q, a, b)
        BY <1>2, <1>8, <1>9, <2>5, <3>3, RoundedUp
    <3>5. Signed(Pattern(q, t), t) = q /\ q \in Int
        BY <1>2, <3>4, NumberOfPattern, SizeFacts
    <3>6. IntMeaning(name, t, a, b, Signed(Pattern(q, t), t))
        BY <2>5, <3>4, <3>5 DEF IntMeaning
    <3> QED
        BY <3>2, <3>3, <3>5, <3>6
  <2>6. name \in {"add", "add_nw", "sub", "sub_nw", "mul", "mul_nw", "squot", "sdiv_up"}
    <3>1. BinOpOf(name) \in {"add", "mul", "sub", "squot", "sdiv_up", "fadd", "fmul",
                             "fsub", "fdiv", "fmax", "fpow"}
        BY <1>5 DEF MlirBinOp
    <3> QED
        BY <3>1 DEF BinOpOf, IntBinary
  <2> QED
      BY <2>1, <2>2, <2>3, <2>4, <2>5, <2>6
<1>11. PICK n \in Int : result = Whole(Pattern(n, t)) /\ IntMeaning(name, t, a, b, Signed(Pattern(n, t), t))
    BY <1>10
<1>12. result.n = Pattern(n, t)
    BY <1>11 DEF Whole
<1>13. Means(result)
    BY <1>1, <1>2, <1>3, <1>11, <1>12 DEF Means
<1>14. result.n \in 0..Size(t) - 1
    BY <1>2, <1>12, PatternFacts
<1>15. OnlyTheseRefused
    BY <1>6 DEF OnlyTheseRefused
<1> QED
    BY <1>1, <1>2, <1>13, <1>14, <1>15, RightOf

\* All operands keep their values, and the order they have.
LEMMA CompiledArguments ==
    ASSUME Finished,
           \A k \in DOMAIN source.args : module.args[k] = source.args[k].v
    PROVE  module.args = [k \in DOMAIN source.args |-> source.args[k].v]
<1>1. module.args = [k \in DOMAIN source.args |-> LowerOperand(ir.args[k])]
    BY CompiledFacts
<1> QED
    BY <1>1

LEMMA FloatBinaryRight ==
    ASSUME Finished, NEW t \in FloatTypes, NEW name \in FloatBinary,
           NEW x \in OperandsOf(t), NEW y \in OperandsOf(t),
           Is(source, "binary", name, t, <<x, y>>)
    PROVE  Right
<1>1. source.form = "binary" /\ source.name = name /\ source.t = t /\ source.args = <<x, y>>
    BY DEF Is
<1>2. t \in Types /\ t \notin IntTypes /\ t \notin Patterned
    BY TypesAre
<1>3. /\ DOMAIN source.args = {1, 2} /\ source.args[1] = x /\ source.args[2] = y
      /\ ir.args[1].t = t /\ x.v \in Values(t) /\ y.v \in Values(t)
      /\ Exact(x) => module.args[1] = x.v
      /\ Exact(y) => module.args[2] = y.v
    BY <1>1, <1>2, CompiledPair
<1>4. /\ BinOpOf(name) \in DOMAIN MlirBinOp /\ module.op = MlirBinOp[BinOpOf(name)]
      /\ module.fn = <<>> /\ module.t = t /\ module.op \notin {"extui", "extsi"}
    BY <1>1, <1>3, BinaryOperation
<1>5. phase = "done"
    BY <1>1, <1>4, FinishedFacts DEF Verifies
<1>6. result = Evaluate(module.op, <<>>, t, module.args)
    BY <1>3, <1>4, <1>5, FinishedFacts
<1>7. ASSUME \A k \in DOMAIN source.args : Exact(source.args[k]) PROVE Means(result)
  <2> DEFINE a == [k \in DOMAIN source.args |-> source.args[k].v]
  <2>1. module.args[1] = x.v /\ module.args[2] = y.v
      BY <1>3, <1>7
  <2>2. module.args = a
      BY <1>3, <2>1, CompiledArguments
  <2>3. a[1] = x.v /\ a[2] = y.v
      BY <1>3
  <2>4. BinOpOf(name) = name /\ name \in {"fadd", "fmul", "fsub", "fdiv", "fmax", "fpow"}
    <3>1. BinOpOf(name) \in {"add", "mul", "sub", "squot", "sdiv_up", "fadd", "fmul",
                             "fsub", "fdiv", "fmax", "fpow"}
        BY <1>4 DEF MlirBinOp
    <3> QED
        BY <3>1 DEF BinOpOf, FloatBinary
  <2> HIDE DEF a
  <2>5. CASE name = "fmax"
    <3>1. module.op = "maxnumf"
        BY <1>4, <2>4, <2>5 DEF MlirBinOp
    <3>2. result = IF x.v = NaN THEN y.v ELSE IF y.v = NaN \/ Less(y.v, x.v) THEN x.v ELSE y.v
        BY <1>6, <2>1, <3>1, FloatOperation
    <3>3. /\ x.v = NaN \/ x.v = Special("inf") \/ x.v = Special("-inf")
             \/ (x.v.k = "num" /\ x.v.h \in Int /\ x.v = Number(x.v.h))
          /\ y.v = NaN \/ y.v = Special("inf") \/ y.v = Special("-inf")
             \/ (y.v.k = "num" /\ y.v.h \in Int /\ y.v = Number(y.v.h))
        BY <1>3, FloatValues DEF NaN
    <3>4. IsMax(result, x.v, y.v)
        BY <3>2, <3>3, Greater
    <3> QED
        BY <1>1, <1>2, <2>3, <2>5, <3>4 DEF Means, a
  <2>6. CASE name # "fmax"
    <3>1. result = Term(name, module.args)
      <4>1. \/ module.op = "addf" /\ name = "fadd"
            \/ module.op = "mulf" /\ name = "fmul"
            \/ module.op = "subf" /\ name = "fsub"
            \/ module.op = "divf" /\ name = "fdiv"
            \/ module.op = "powf" /\ name = "fpow"
          BY <1>4, <2>4, <2>6 DEF MlirBinOp
      <4>2. PICK op, args : op = module.op /\ args = module.args
          OBVIOUS
      <4>3. /\ op = "addf" => result = Term("fadd", args)
            /\ op = "mulf" => result = Term("fmul", args)
            /\ op = "subf" => result = Term("fsub", args)
            /\ op = "divf" => result = Term("fdiv", args)
            /\ op = "powf" => result = Term("fpow", args)
          BY <1>6, <4>2, FloatOperation
      <4> QED
          BY <4>1, <4>2, <4>3
    <3> QED
        BY <1>1, <1>2, <2>2, <2>6, <3>1 DEF Means, a
  <2> QED
      BY <2>5, <2>6
<1>8. OnlyTheseRefused
    BY <1>5 DEF OnlyTheseRefused
<1> QED
    BY <1>1, <1>2, <1>7, <1>8, RightOf

\* LowerBinOp has no case for a logical operator.
LEMMA LogicalRight ==
    ASSUME Finished, NEW name \in {"logand", "logor"}, source.form = "binary", source.name = name
    PROVE  FALSE
<1>1. BinOpOf(name) \in DOMAIN MlirBinOp
    BY BinaryOperation
<1> QED
    BY <1>1 DEF BinOpOf, MlirBinOp

LEMMA TruthFacts ==
    ASSUME NEW p
    PROVE  Truth(p).n \in {0, 1}
BY DEF Truth, Whole

\* The predicate of cmpi or cmpf for operator name, and what it decides.
LEMMA ComparisonMeans ==
    ASSUME NEW t \in Types, NEW x \in OperandsOf(t), NEW y \in OperandsOf(t), NEW a,
           NEW name, Comparable(name, t), MlirCompare(name, t) # "",
           a[1] = x.v, a[2] = y.v
    PROVE  Evaluate(MlirCompare(name, t), <<>>, t, a) = Truth(Compares(name, x, y))
<1>1. x.t = t /\ x.v \in Values(t) /\ y.v \in Values(t)
    BY OperandOf
<1>2. PICK op : op = MlirCompare(name, t)
    OBVIOUS
<1>3. CASE name = "eq" /\ t \in FloatTypes
  <2>1. op = "oeq"
      BY <1>2, <1>3, TypesAre DEF MlirCompare
  <2>2. Compares(name, x, y) = Same(x.v, y.v)
      BY <1>1, <1>3 DEF Compares
  <2>3. Evaluate("oeq", <<>>, t, a) = Truth(Same(x.v, y.v))
      BY Comparison DEF Truth
  <2> QED
      BY <1>2, <2>1, <2>2, <2>3
<1>4. CASE name = "eq" /\ t \notin FloatTypes
  <2>1. op = "eq" /\ t \in Patterned
      BY <1>2, <1>4, TypesAre DEF MlirCompare
  <2>2. Compares(name, x, y) = (x.v = y.v)
      BY <1>1, <1>4 DEF Compares
  <2>3. Evaluate("eq", <<>>, t, a) = Truth(x.v.n = y.v.n)
      BY Comparison DEF Truth
  <2>4. (x.v.n = y.v.n) <=> (x.v = y.v)
      BY <1>1, <2>1, IntegerValues
  <2>5. Truth(x.v.n = y.v.n) = Truth(x.v = y.v)
      BY <2>4 DEF Truth
  <2> QED
      BY <1>2, <2>1, <2>2, <2>3, <2>5
<1>5. CASE name \in FloatCompare
  <2>1. (name = "lt" /\ op = "olt") \/ (name = "le" /\ op = "ole")
      BY <1>2, <1>5 DEF MlirCompare, FloatCompare
  <2>2. Compares("lt", x, y) = Less(x.v, y.v)
      BY DEF Compares
  <2>3. Compares("le", x, y) = (Less(x.v, y.v) \/ Same(x.v, y.v))
      BY DEF Compares
  <2>4. /\ Evaluate("olt", <<>>, t, a) = Truth(Less(x.v, y.v))
        /\ Evaluate("ole", <<>>, t, a) = Truth(Less(x.v, y.v) \/ Same(x.v, y.v))
      BY Comparison DEF Truth
  <2> QED
      BY <1>2, <2>1, <2>2, <2>3, <2>4
<1>6. CASE name \in IntCompare
  <2>1. name \in {"slt", "sle", "ult", "ule"} /\ op = name
      BY <1>2, <1>6 DEF MlirCompare, IntCompare
  <2>2. Compares("slt", x, y) = (Signed(x.v.n, t) < Signed(y.v.n, t))
      BY <1>1 DEF Compares
  <2>3. Compares("sle", x, y) = (Signed(x.v.n, t) <= Signed(y.v.n, t))
      BY <1>1 DEF Compares
  <2>4. Compares("ult", x, y) = (x.v.n < y.v.n) /\ Compares("ule", x, y) = (x.v.n <= y.v.n)
      BY <1>1 DEF Compares
  <2>5. /\ Evaluate("slt", <<>>, t, a) = Truth(Signed(x.v.n, t) < Signed(y.v.n, t))
        /\ Evaluate("sle", <<>>, t, a) = Truth(Signed(x.v.n, t) <= Signed(y.v.n, t))
        /\ Evaluate("ult", <<>>, t, a) = Truth(x.v.n < y.v.n)
        /\ Evaluate("ule", <<>>, t, a) = Truth(x.v.n <= y.v.n)
      BY Comparison DEF Truth
  <2> QED
      BY <1>2, <2>1, <2>2, <2>3, <2>4, <2>5
<1> QED
    BY <1>3, <1>4, <1>5, <1>6 DEF Comparable

LEMMA CompareRight ==
    ASSUME Finished, NEW t \in Types, NEW x \in OperandsOf(t), NEW y \in OperandsOf(t),
           NEW name, Comparable(name, t), Is(source, "compare", name, "bool", <<x, y>>)
    PROVE  Right
<1>1. /\ source.form = "compare" /\ source.name = name /\ source.t = "bool"
      /\ source.args = <<x, y>>
    BY DEF Is
<1>2. /\ DOMAIN source.args = {1, 2} /\ source.args[1] = x /\ source.args[2] = y
      /\ ir.args[1].t = t
      /\ Exact(x) => module.args[1] = x.v
      /\ Exact(y) => module.args[2] = y.v
    BY <1>1, CompiledPair
<1>3. /\ MlirCompare(name, t) # "" /\ module.op = MlirCompare(name, t)
      /\ module.fn = <<>> /\ module.t = "bool"
  <2>1. ir.form = "compare" /\ ir.name = name /\ module.op \in MlirOp
      BY <1>1, CompiledFacts
  <2>2. MlirOp = {MlirCompare(name, t)} \ {""}
      BY <1>2, <2>1 DEF MlirOp
  <2> QED
      BY <1>1, <2>1, <2>2, NotApplied
<1>4. /\ module.op \in {"eq", "oeq", "olt", "ole", "slt", "sle", "ult", "ule"}
      /\ module.op \notin {"extui", "extsi"}
    BY <1>3 DEF MlirCompare, Comparable, IntCompare, FloatCompare
<1>5. phase = "done"
    BY <1>1, <1>3, <1>4, FinishedFacts DEF Verifies
<1>6. result = Evaluate(module.op, <<>>, t, module.args)
    BY <1>2, <1>3, <1>5, FinishedFacts
<1>7. ASSUME \A k \in DOMAIN source.args : Exact(source.args[k]) PROVE Means(result)
  <2>1. module.args[1] = x.v /\ module.args[2] = y.v
      BY <1>2, <1>7
  <2>2. PICK a : a = module.args
      OBVIOUS
  <2>3. Evaluate(MlirCompare(name, t), <<>>, t, a) = Truth(Compares(name, x, y))
    <3>1. a[1] = x.v /\ a[2] = y.v /\ MlirCompare(name, t) # ""
        BY <1>3, <2>1, <2>2
    <3> QED
        BY <3>1, ComparisonMeans DEF Truth
  <2>4. result = Truth(Compares(name, x, y))
      BY <1>3, <1>6, <2>2, <2>3
  <2> QED
      BY <1>1, <1>2, <2>4 DEF Means
<1>8. result.n \in 0..Size("bool") - 1
  <2>1. result.n \in {0, 1}
    <3>1. PICK op, a : op = module.op /\ a = module.args
        OBVIOUS
    <3>2. result = Evaluate(op, <<>>, t, a)
        BY <1>6, <3>1
    <3>3. \E p : result = Truth(p)
        BY <1>4, <3>1, <3>2, Comparison
    <3> QED
        BY <3>3, TruthFacts
  <2>2. Size("bool") = 2
      BY ScalarAssumption DEF Size
  <2> QED
      BY <2>1, <2>2
<1>9. OnlyTheseRefused
    BY <1>5 DEF OnlyTheseRefused
<1> QED
    BY <1>1, <1>7, <1>8, <1>9, RightOf, TypesAre

LEMMA ConvertRight ==
    ASSUME Finished, NEW name \in DOMAIN Conversions,
           NEW from \in Conversions[name][1], NEW to \in Conversions[name][2],
           NEW x \in OperandsOf(from), Is(source, "convert", name, to, <<x>>)
    PROVE  Right
<1>1. source.form = "convert" /\ source.name = name /\ source.t = to /\ source.args = <<x>>
    BY DEF Is
<1>2. /\ name \in {"zext", "sext", "sitofp"}
      /\ module.op = MlirConversion[name] /\ module.fn = <<>> /\ module.t = to
  <2>1. ir.form = "convert" /\ ir.name = name /\ module.op \in MlirOp
      BY <1>1, CompiledFacts
  <2>2. MlirOp = IF name \in {"zext", "sext", "sitofp"} THEN {MlirConversion[name]} ELSE {}
      BY <2>1 DEF MlirOp, MlirConversion
  <2> QED
      BY <1>1, <2>1, <2>2, NotApplied
<1>3. from \in IntTypes /\ (name \in {"zext", "sext"} => to \in IntTypes) /\ (name = "sitofp" => to \in FloatTypes)
    BY <1>2 DEF Conversions
<1>4. from \in Types /\ from \in Patterned /\ from # "f16" /\ to \in Types
    BY <1>2, <1>3, TypesAre DEF IntTypes
<1>5. DOMAIN source.args = {1} /\ source.args[1] = x
    BY <1>1, Tuples
<1>6. ir.args[1].t = from /\ module.args[1] = x.v
    BY <1>4, <1>5, CompiledOperand
<1>7. x.t = from /\ x.v \in Values(from)
    BY <1>4, OperandOf
<1>8. x.v.n \in 0..Size(from) - 1 /\ x.v.n \in Nat /\ x.v = Whole(x.v.n)
    BY <1>4, <1>7, IntegerValues
<1> DEFINE a == Signed(x.v.n, from)
<1>9. a \in Int
  <2>1. a \in -Top[from]..Top[from] - 1
      BY <1>4, <1>8, SignedFacts
  <2>2. Top[from] \in Nat
      BY <1>4, SizeFacts
  <2> QED
      BY <2>1, <2>2
<1>10. phase = "done" => result = Evaluate(module.op, <<>>, from, module.args)
    BY <1>2, <1>6, FinishedFacts
<1>11. CASE name \in {"zext", "sext"}
  <2>1. PICK T \in Nat \ {0}, M \in Nat \ {0} : T = Top[from] /\ M = Size(from) /\ M = 2 * T
      BY <1>4, SizeFacts
  <2>2. to \in Patterned /\ to \in IntTypes
      BY <1>3, <1>11, TypesAre
  <2>3. PICK U \in Nat \ {0}, N \in Nat \ {0} : U = Top[to] /\ N = Size(to) /\ N = 2 * U
      BY <2>2, SizeFacts
  <2>4. module.op \in {"extui", "extsi"}
      BY <1>2, <1>11 DEF MlirConversion
  <2>5. Verifies <=> Top[from] < Top[to]
      BY <1>1, <1>2, <1>6, <2>4 DEF Verifies, From
  <2>6. OnlyTheseRefused
    <3> SUFFICES ASSUME phase = "refused" PROVE Top[source.args[1].t] >= Top[source.t]
        BY <1>1, <1>11 DEF OnlyTheseRefused
    <3>1. ~(Top[from] < Top[to])
        BY <2>5, FinishedFacts
    <3>2. Top[from] >= Top[to]
        BY <2>1, <2>3, <3>1
    <3> QED
        BY <1>1, <1>5, <1>7, <3>2
  <2>7. ASSUME phase = "done" PROVE Means(result) /\ result.n \in 0..Size(to) - 1
    <3>1. T < U
        BY <2>1, <2>3, <2>5, <2>7, FinishedFacts
    <3>2. CASE name = "zext"
      <4>1. result = x.v
          BY <1>2, <1>6, <1>10, <2>7, <3>2, Conversion DEF MlirConversion
      <4>2. x.v.n \in 0..N - 1
          BY <1>8, <2>1, <2>3, <3>1
      <4>3. \A m \in Nat \ {0} : \A c \in 0..m - 1 : c % m = c
          OBVIOUS
      <4>4. Pattern(x.v.n, to) = x.v.n
          BY <2>3, <4>2, <4>3 DEF Pattern
      <4>5. Converts(name, to, x, result)
          BY <3>2, <4>1, <4>4 DEF Converts
      <4> QED
          BY <1>1, <1>5, <2>3, <4>1, <4>2, <4>5 DEF Means
    <3>3. CASE name = "sext"
      <4>1. result = Whole(Pattern(a, to))
          BY <1>2, <1>6, <1>10, <2>7, <3>3, Conversion DEF MlirConversion
      <4>2. result.n = Pattern(a, to)
          BY <4>1 DEF Whole
      <4>3. Signed(result.n, to) = Wrapped(a, to) /\ result.n \in 0..Size(to) - 1
          BY <1>9, <2>2, <4>2, WrappedIs, PatternFacts
      <4>4. Converts(name, to, x, result)
          BY <1>7, <3>3, <4>3 DEF Converts
      <4> QED
          BY <1>1, <1>5, <4>3, <4>4 DEF Means
    <3> QED
        BY <1>11, <3>2, <3>3
  <2> QED
      BY <1>1, <1>4, <2>6, <2>7, RightOf
<1>12. CASE name = "sitofp"
  <2>1. module.op = "sitofp"
      BY <1>2, <1>12 DEF MlirConversion
  <2>2. phase = "done"
      BY <1>1, <1>2, <2>1, FinishedFacts DEF Verifies
  <2>3. result = Number(2 * a)
      BY <1>6, <1>10, <2>1, <2>2, Conversion
  <2>4. Means(result)
    <3>1. Converts(name, to, x, result)
        BY <1>7, <1>12, <2>3 DEF Converts
    <3> QED
        BY <1>1, <1>5, <3>1 DEF Means
  <2>5. to \notin Patterned
      BY <1>3, <1>12, TypesAre
  <2>6. OnlyTheseRefused
      BY <2>2 DEF OnlyTheseRefused
  <2> QED
      BY <1>1, <1>4, <2>4, <2>5, <2>6, RightOf
<1> QED
    BY <1>2, <1>11, <1>12

-----------------------------------------------------------------------------
(* Primitive functions.                                                      *)

LEMMA DifferentWords ==
    /\ \A a, b : <<a>> = <<b>> <=> a = b
    /\ \A a, b, c : <<a>> # <<b, c>>
    /\ \A a, b, c, d : <<a>> # <<b, c, d>>
    /\ \A a : <<>> # <<a>>
    /\ \A a, b : <<>> # <<a, b>>
    /\ \A a, b, c : <<>> # <<a, b, c>>
<1>1. \A a, b : <<a>> = <<b>> <=> a = b
    OBVIOUS
<1>2. \A a, b, c : Len(<<a>>) = 1 /\ Len(<<a, b>>) = 2 /\ Len(<<a, b, c>>) = 3 /\ Len(<<>>) = 0
    OBVIOUS
<1>3. \A a, b, c : <<a>> # <<b, c>>
    BY <1>2
<1>4. \A a, b, c, d : <<a>> # <<b, c, d>>
    BY <1>2
<1>5. \A a, b, c : <<>> # <<a>> /\ <<>> # <<a, b>> /\ <<>> # <<a, b, c>>
    BY <1>2
<1> QED
    BY <1>1, <1>3, <1>4, <1>5

\* One word is no other word and no longer name.
LEMMA FunctionWords ==
    /\ <<"select">> \notin Functions /\ <<"roundeven">> \notin Functions /\ <<>> \notin Functions
    /\ \A base \in FloatUnary \cup FloatPairs \cup FloatTriples \cup BitCounts : base \notin FloatTests
    /\ \A base \in BitCounts : base \notin {<<"round">>, <<"fma">>, <<"mad">>, <<"isnan">>, <<"isinf">>}
    /\ \A base \in BitCounts : base \notin FloatUnary \cup FloatPairs \cup FloatTriples
    /\ <<"fma">> \notin FloatTests /\ <<"roundeven">> \notin FloatTests
<1>1. <<"select">> \notin Functions /\ <<"roundeven">> \notin Functions
    BY DifferentWords, Zenon DEF Functions, FloatUnary, FloatTests, BitCounts, FloatPairs, FloatTriples
<1>2. <<>> \notin Functions
    BY DifferentWords, Zenon DEF Functions, FloatUnary, FloatTests, BitCounts, FloatPairs, FloatTriples
<1>3. ASSUME NEW base \in FloatUnary PROVE base \notin FloatTests
    BY DifferentWords DEF FloatUnary, FloatTests
<1>4. ASSUME NEW base \in FloatPairs \cup FloatTriples \cup BitCounts PROVE base \notin FloatTests
    BY DifferentWords DEF FloatPairs, FloatTriples, BitCounts, FloatTests
<1>5. \A base \in BitCounts : base \notin {<<"round">>, <<"fma">>, <<"mad">>, <<"isnan">>, <<"isinf">>}
    BY DifferentWords DEF BitCounts
<1>6. <<"fma">> \notin FloatTests /\ <<"roundeven">> \notin FloatTests
    BY DifferentWords DEF FloatTests
<1>7. \A base \in BitCounts : base \notin FloatUnary \cup FloatPairs \cup FloatTriples
    BY DifferentWords DEF BitCounts, FloatUnary, FloatPairs, FloatTriples
<1> QED
    BY <1>1, <1>2, <1>3, <1>4, <1>5, <1>6, <1>7

\* The operation of the math dialect a name with a width stands for.
LEMMA IntrinsicOf ==
    ASSUME NEW base \in Functions, NEW t \in IntTypes \cup FloatTypes
    PROVE  MlirIntrinsic(Suffixed(base, t)) =
               IF base = <<"round">> THEN <<"roundeven">>
               ELSE IF base \in {<<"fma">>, <<"mad">>} THEN <<"fma">>
               ELSE IF base \in MathOps THEN base ELSE <<>>
<1> DEFINE name == Suffixed(base, t)
<1>1. IntrinsicBaseName(name) = base /\ SubSeq(name, 1, 2)[1] # "cond"
    BY SuffixedFacts
<1> HIDE DEF name
<1>2. SubSeq(name, 1, 2) # <<"cond", Underscore>>
    BY <1>1, Tuples
<1> QED
    BY <1>1, <1>2 DEF MlirIntrinsic, name

LEMMA AppliedOperation ==
    ASSUME Finished, source.form = "apply"
    PROVE  /\ MlirIntrinsic(source.name) # <<>> /\ module.fn = MlirIntrinsic(source.name)
           /\ module.op = "math"
           /\ module.t = IF module.fn \in FloatTests THEN "bool"
                         ELSE IF module.fn = <<"select">> THEN ir.args[2].t ELSE ir.args[1].t
           /\ Verifies <=> module.t = source.t
<1>1. /\ ir.form = "apply" /\ ir.name = source.name /\ module.op \in MlirOp
      /\ module.fn = MlirFunction /\ module.t = ResultType
    BY CompiledFacts
<1>2. MlirOp = IF MlirIntrinsic(source.name) = <<>> THEN {} ELSE {"math"}
    BY <1>1 DEF MlirOp
<1>3. MlirIntrinsic(source.name) # <<>> /\ module.op = "math"
    BY <1>1, <1>2
<1>4. module.fn = MlirIntrinsic(source.name)
    BY <1>1 DEF MlirFunction
<1>5. ResultType = IF MlirFunction \in FloatTests THEN "bool"
                   ELSE IF MlirFunction = <<"select">> THEN ir.args[2].t ELSE ir.args[1].t
  <2>1. ir.form # "compare" /\ ir.form # "convert"
      BY <1>1
  <2>2. CASE MlirFunction \in FloatTests
    <3>1. MlirFunction # <<"select">>
        BY <2>2, FunctionWords DEF Functions
    <3> QED
        BY <2>1, <2>2, <3>1 DEF ResultType
  <2>3. CASE MlirFunction \notin FloatTests /\ MlirFunction = <<"select">>
      BY <2>1, <2>3 DEF ResultType
  <2>4. CASE MlirFunction \notin FloatTests /\ MlirFunction # <<"select">>
      BY <2>1, <2>4 DEF ResultType
  <2> QED
      BY <2>2, <2>3, <2>4
<1>6. Verifies <=> module.t = source.t
    BY <1>3 DEF Verifies
<1> QED
    BY <1>1, <1>3, <1>4, <1>5, <1>6

\* The dialect computes what the name asks for: roundeven is round, and a mad
\* is a fused multiply-add.
LEMMA FunctionMeans ==
    ASSUME NEW base \in Functions, NEW t, NEW fn, NEW a,
           fn = IF base = <<"round">> THEN <<"roundeven">>
                ELSE IF base \in {<<"fma">>, <<"mad">>} THEN <<"fma">>
                ELSE IF base \in MathOps THEN base ELSE <<>>,
           fn # <<>>,
           base \in FloatTests \cup {<<"round">>} => \E u \in FloatTypes : a[1] \in Values(u)
    PROVE  Applies(base, a, Evaluate("math", fn, t, a))
<1>1. PICK r : r = Evaluate("math", fn, t, a)
    OBVIOUS
<1>2. CASE base \in FloatTests \cup {<<"round">>}
  <2>1. PICK x : x = a[1]
      OBVIOUS
  <2>2. \/ x.k = "num" /\ x.h \in Int /\ x = Number(x.h)
        \/ x.k = "special" /\ x \in {Special("nan"), Special("inf"), Special("-inf")}
      BY <1>2, <2>1, FloatValues
  <2>3. CASE base = <<"isnan">>
    <3>1. fn = <<"isnan">>
        BY <2>3, DifferentWords, Zenon DEF MathOps, MathUnary, FloatTests
    <3>2. r = Truth(x = NaN)
        BY <1>1, <2>1, <3>1, Function DEF Truth
    <3> QED
        BY <1>1, <2>1, <2>3, <3>2, DifferentWords DEF Applies, Truth
  <2>4. CASE base = <<"isinf">>
    <3>1. fn = <<"isinf">>
        BY <2>4, DifferentWords, Zenon DEF MathOps, MathUnary, FloatTests
    <3>2. r = Truth(x.k = "special" /\ x # NaN)
        BY <1>1, <2>1, <3>1, Function DEF Truth
    <3>3. (x.k = "special" /\ x # NaN) <=> x \in {Special("inf"), Special("-inf")}
      <4>1. Special("inf") # NaN /\ Special("-inf") # NaN
          BY DEF Special, NaN
      <4>2. \A h : Number(h).k = "num"
          BY DEF Number
      <4>3. \A s : Special(s).k = "special"
          BY DEF Special
      <4> QED
          BY <2>2, <4>1, <4>2, <4>3 DEF NaN
    <3>4. r = Truth(x \in {Special("inf"), Special("-inf")})
        BY <3>2, <3>3 DEF Truth
    <3> QED
        BY <1>1, <2>1, <2>4, <3>4, DifferentWords DEF Applies, Truth
  <2>5. CASE base = <<"round">>
    <3>1. r = RoundEven(x)
        BY <1>1, <2>1, <2>5, Function
    <3>2. IsRounded(r, x)
        BY <2>2, <3>1, RoundedEven
    <3> QED
        BY <1>1, <2>1, <2>5, <3>2, DifferentWords DEF Applies
  <2> QED
      BY <1>2, <2>3, <2>4, <2>5 DEF FloatTests
<1>3. CASE base \notin FloatTests \cup {<<"round">>}
  <2>1. base \notin {<<"isnan">>, <<"isinf">>, <<"round">>}
      BY <1>3 DEF FloatTests
  <2>2. fn = IF base = <<"mad">> THEN <<"fma">> ELSE base
      BY <2>1
  <2>3. fn \notin {<<"select">>, <<"roundeven">>, <<"isnan">>, <<"isinf">>}
    <3>1. <<"fma">> \notin {<<"select">>, <<"roundeven">>, <<"isnan">>, <<"isinf">>}
        BY DifferentWords
    <3> QED
        BY <2>1, <2>2, <3>1, FunctionWords
  <2>4. r = Term(fn, a)
      BY <1>1, <2>3, Function
  <2>5. CASE base = <<"mad">>
      BY <1>1, <2>2, <2>4, <2>5, DifferentWords DEF Applies
  <2>6. CASE base # <<"mad">>
      BY <1>1, <2>1, <2>2, <2>4, <2>6 DEF Applies
  <2> QED
      BY <2>5, <2>6
<1> QED
    BY <1>2, <1>3

LEMMA ApplyRight ==
    ASSUME Finished, NEW base, NEW t, NEW u, Applicable(base, t, u),
           NEW x \in OperandsOf(t), NEW y \in OperandsOf(t),
           Is(source, "apply", Suffixed(base, t), u, Arguments(base, x, y))
    PROVE  Right
<1>0. /\ source.form = "apply" /\ source.name = Suffixed(base, t) /\ source.t = u
      /\ 1 \in DOMAIN source.args
      /\ \A k \in DOMAIN source.args : source.args[k] \in OperandsOf(t)
  <2>1. /\ source.form = "apply" /\ source.name = Suffixed(base, t) /\ source.t = u
        /\ source.args = Arguments(base, x, y)
      BY DEF Is
  <2>2. source.args = <<x>> \/ source.args = <<x, y>> \/ source.args = <<x, y, x>>
      BY <2>1 DEF Arguments
  <2> QED
      BY <2>1, <2>2, Tuples
<1>1. base \in Functions /\ t \in IntTypes \cup FloatTypes /\ u \in Types
    BY TypesAre DEF Applicable, Functions, Types, IntTypes
<1>2. t \in Types
    BY <1>1, TypesAre
<1>3. /\ ir.args[1].t = t /\ source.args[1].t = t
      /\ source.args[1].v \in Values(t)
    BY <1>0, <1>2, CompiledOperand, OperandOf
<1> DEFINE fn == MlirIntrinsic(source.name)
<1>4. fn = IF base = <<"round">> THEN <<"roundeven">>
           ELSE IF base \in {<<"fma">>, <<"mad">>} THEN <<"fma">>
           ELSE IF base \in MathOps THEN base ELSE <<>>
    BY <1>0, <1>1, IntrinsicOf
<1>5. /\ fn # <<>> /\ module.fn = fn /\ module.op = "math"
      /\ module.t = IF module.fn \in FloatTests THEN "bool"
                    ELSE IF module.fn = <<"select">> THEN ir.args[2].t ELSE ir.args[1].t
      /\ Verifies <=> module.t = u
    BY <1>0, AppliedOperation
<1> HIDE DEF fn
<1>6. fn # <<"select">>
    BY <1>1, <1>4, <1>5, DifferentWords, FunctionWords
<1>7. fn \in FloatTests <=> base \in FloatTests
    BY <1>4, <1>5, FunctionWords, DifferentWords DEF FloatTests
<1>8. Verifies \/ (base \in BitCounts /\ t # "i32")
  <2>1. CASE base \in BitCounts
    <3>1. module.t = t /\ u = "i32"
        BY <1>3, <1>5, <1>6, <1>7, <2>1, FunctionWords DEF Applicable
    <3> QED
        BY <1>5, <2>1, <3>1
  <2>2. CASE base \in FloatTests
      BY <1>5, <1>7, <2>2, FunctionWords DEF Applicable
  <2>3. CASE base \in FloatUnary \cup FloatPairs \cup FloatTriples
      BY <1>3, <1>5, <1>6, <1>7, <2>3, FunctionWords DEF Applicable
  <2> QED
      BY <2>1, <2>2, <2>3 DEF Applicable
<1>9. OnlyTheseRefused
    BY <1>0, <1>3, <1>8, FinishedFacts DEF OnlyTheseRefused
<1>10. ASSUME phase = "done", \A k \in DOMAIN source.args : Exact(source.args[k])
       PROVE  Means(result)
  <2> DEFINE a == [k \in DOMAIN source.args |-> source.args[k].v]
  <2>1. \A k \in DOMAIN source.args : module.args[k] = source.args[k].v
      BY <1>0, <1>2, <1>10, CompiledOperand
  <2>2. module.args = a
      BY <2>1, CompiledArguments
  <2>3. a[1] = source.args[1].v
      BY <1>0
  <2> HIDE DEF a
  <2>4. result = Evaluate("math", fn, t, a)
      BY <1>3, <1>5, <1>10, <2>2, FinishedFacts
  <2>5. base \in FloatTests \cup {<<"round">>} => \E w \in FloatTypes : a[1] \in Values(w)
      BY <1>3, <2>3, FunctionWords DEF Applicable
  <2>6. Applies(base, a, Evaluate("math", fn, t, a))
      BY <1>1, <1>4, <1>5, <2>5, FunctionMeans
  <2>7. source.name # Cond(u)
    <3>1. source.name[1] # "cond"
        BY <1>0, <1>1, SuffixedFacts
    <3> QED
        BY <1>1, <3>1, CondFacts
  <2>8. \E b \in Functions : source.name = Suffixed(b, source.args[1].t) /\ Applies(b, a, result)
      BY <1>0, <1>1, <1>3, <2>4, <2>6
  <2> QED
      BY <1>0, <2>7, <2>8 DEF Means, a
<1>11. ASSUME phase = "done", u \in Patterned, result.k = "int"
       PROVE  result.n \in 0..Size(u) - 1
  <2>1. PICK a : a = module.args
      OBVIOUS
  <2>2. result = Evaluate("math", fn, t, a)
      BY <1>3, <1>5, <1>11, <2>1, FinishedFacts
  <2>3. CASE base \in FloatTests
    <3>1. u = "bool"
        BY <2>3, FunctionWords DEF Applicable
    <3>2. fn = base
        BY <1>4, <1>5, <2>3, FunctionWords, DifferentWords DEF FloatTests
    <3>3. \E p : result = Truth(p)
        BY <2>2, <2>3, <3>2, Function DEF FloatTests, Truth
    <3>4. Size("bool") = 2
        BY ScalarAssumption DEF Size
    <3> QED
        BY <3>1, <3>3, <3>4, TruthFacts
  <2>4. CASE base \notin FloatTests
    <3>1. base \in BitCounts
        BY <1>11, <2>4, TypesAre DEF Applicable
    <3>2. fn = base
        BY <1>4, <1>5, <3>1, FunctionWords
    <3>3. result = Term(fn, a)
        BY <1>1, <2>2, <3>1, <3>2, Function, FunctionWords
    <3>4. result.k = "term"
        BY <3>3 DEF Term
    <3> QED
        BY <1>11, <3>4
  <2> QED
      BY <2>3, <2>4
<1> QED
    BY <1>0, <1>1, <1>9, <1>10, <1>11, RightOf

LEMMA CondRight ==
    ASSUME Finished, NEW t \in Types, NEW x \in OperandsOf(t), NEW y \in OperandsOf(t),
           NEW c \in OperandsOf("bool"), Is(source, "apply", Cond(t), t, <<c, x, y>>)
    PROVE  Right
<1>1. /\ source.form = "apply" /\ source.name = Cond(t) /\ source.t = t
      /\ source.args = <<c, x, y>>
    BY DEF Is
<1>2. /\ DOMAIN source.args = {1, 2, 3}
      /\ source.args[1] = c /\ source.args[2] = x /\ source.args[3] = y
    BY <1>1, Tuples
<1>3. module.args[1] = c.v
    BY <1>2, CompiledOperand, TypesAre
<1>4. ir.args[2].t = t /\ (t # "f16" \/ Exact(x) => module.args[2] = x.v)
    BY <1>2, CompiledOperand
<1>5. t # "f16" \/ Exact(y) => module.args[3] = y.v
    BY <1>2, CompiledOperand
<1>6. MlirIntrinsic(Cond(t)) = <<"select">>
    BY CondFacts DEF MlirIntrinsic
<1>7. module.op = "math" /\ module.fn = <<"select">> /\ Verifies
  <2>1. <<"select">> \notin FloatTests
      BY DifferentWords DEF FloatTests
  <2> QED
      BY <1>1, <1>4, <1>6, <2>1, AppliedOperation
<1>8. phase = "done"
    BY <1>7, FinishedFacts
<1>9. result = IF c.v = Whole(1) THEN module.args[2] ELSE module.args[3]
  <2>1. PICK a : a = module.args
      OBVIOUS
  <2>2. result = Evaluate("math", <<"select">>, ir.args[1].t, a)
      BY <1>7, <1>8, <2>1, FinishedFacts
  <2>3. result = IF a[1] = Whole(1) THEN a[2] ELSE a[3]
      BY <2>2, Function
  <2> QED
      BY <1>3, <2>1, <2>3
<1>10. ASSUME \A k \in DOMAIN source.args : Exact(source.args[k]) PROVE Means(result)
  <2>1. module.args[2] = x.v /\ module.args[3] = y.v
      BY <1>2, <1>4, <1>5, <1>10
  <2>2. Truth(TRUE) = Whole(1)
      BY DEF Truth
  <2>3. result = IF c.v = Truth(TRUE) THEN x.v ELSE y.v
      BY <1>9, <2>1, <2>2
  <2> QED
      BY <1>1, <1>2, <2>3 DEF Means
<1>11. t \in Patterned => result.n \in 0..Size(t) - 1
  <2> SUFFICES ASSUME t \in Patterned PROVE result.n \in 0..Size(t) - 1
      OBVIOUS
  <2>1. t # "f16"
      BY TypesAre
  <2>2. x.v \in Values(t) /\ y.v \in Values(t)
      BY OperandOf
  <2>3. x.v.n \in 0..Size(t) - 1 /\ y.v.n \in 0..Size(t) - 1
      BY <2>2, IntegerValues
  <2> QED
      BY <1>4, <1>5, <1>9, <2>1, <2>3
<1>12. OnlyTheseRefused
    BY <1>8 DEF OnlyTheseRefused
<1> QED
    BY <1>1, <1>10, <1>11, <1>12, RightOf

-----------------------------------------------------------------------------
(* The properties.                                                           *)

\* Every function there is, form by form.
LEMMA FinishedRight ==
    ASSUME Finished
    PROVE  Right
<1>1. SomeSource(source)
    BY DEF Finished, IInv
<1>2. ASSUME SomeLiteral(source) PROVE Right
  <2>1. \A t : Operands(t, TRUE) \subseteq OperandsOf(t)
      BY Zenon DEF OperandsOf
  <2> QED
      BY <1>2, <2>1, LiteralRight, Zenon DEF SomeLiteral
<1>3. ASSUME NEW literal \in BOOLEAN, SomeBinary(source, literal) PROVE Right
  <2>1. \A t : Operands(t, literal) \subseteq OperandsOf(t)
      BY EitherKind
  <2>2. ASSUME NEW name \in {"logand", "logor"}, NEW args, Is(source, "binary", name, "bool", args)
        PROVE  FALSE
    <3>1. source.form = "binary" /\ source.name = name
        BY <2>2 DEF Is
    <3> QED
        BY <3>1, LogicalRight
  <2> QED
      BY <1>3, <2>1, <2>2, IntegerBinaryRight, FloatBinaryRight, Zenon DEF SomeBinary
<1>4. ASSUME NEW literal \in BOOLEAN, SomeComparison(source, literal) PROVE Right
  <2>1. \A t : Operands(t, literal) \subseteq OperandsOf(t)
      BY EitherKind
  <2> QED
      BY <1>4, <2>1, CompareRight, Zenon DEF SomeComparison
<1>5. ASSUME NEW literal \in BOOLEAN, SomeConversion(source, literal) PROVE Right
  <2>1. \A t : Operands(t, literal) \subseteq OperandsOf(t)
      BY EitherKind
  <2> QED
      BY <1>5, <2>1, ConvertRight, Zenon DEF SomeConversion
<1>6. ASSUME NEW literal \in BOOLEAN, SomeFunction(source, literal) PROVE Right
  <2>1. \A t : Operands(t, literal) \subseteq OperandsOf(t)
      BY EitherKind
  <2> QED
      BY <1>6, <2>1, ApplyRight, CondRight, Zenon DEF SomeFunction
<1> QED
    BY <1>1, <1>2, <1>3, <1>4, <1>5, <1>6, Zenon DEF SomeSource

LEMMA SourceTypes ==
    ASSUME SomeSource(source)
    PROVE  source.t \in Types
<1>1. CASE SomeLiteral(source)
  <2>1. \A form, name, t, args : Is(source, form, name, t, args) => source.t = t
      BY DEF Is
  <2> QED
      BY <1>1, <2>1, Zenon DEF SomeLiteral
<1>2. ASSUME NEW literal \in BOOLEAN, SomeBinary(source, literal) PROVE source.t \in Types
    BY <1>2, TypesAre DEF SomeBinary, Is
<1>3. ASSUME NEW literal \in BOOLEAN, SomeComparison(source, literal) PROVE source.t \in Types
    BY <1>3, TypesAre DEF SomeComparison, Is
<1>4. ASSUME NEW literal \in BOOLEAN, SomeConversion(source, literal) PROVE source.t \in Types
  <2>1. \A name \in DOMAIN Conversions : Conversions[name][2] \subseteq Types
      BY TypesAre DEF Conversions
  <2> QED
      BY <1>4, <2>1 DEF SomeConversion, Is
<1>5. ASSUME NEW literal \in BOOLEAN, SomeFunction(source, literal) PROVE source.t \in Types
    BY <1>5 DEF SomeFunction, Is
<1> QED
    BY <1>1, <1>2, <1>3, <1>4, <1>5, Zenon DEF SomeSource

\* Before a phase is the last one, there is nothing to be said but its name.
LEMMA AlwaysRight ==
    ASSUME IInv
    PROVE  Right
<1>1. CASE phase \in {"done", "refused"}
    BY <1>1, FinishedRight DEF Finished
<1>2. CASE phase \notin {"done", "refused"}
  <2>1. source.t \in Types
      BY SourceTypes DEF IInv
  <2> QED
      BY <1>2, <2>1 DEF IInv, Right, TypeOK, ScalarMeaning, OnlyTheseRefused
<1> QED
    BY <1>1, <1>2

\* Whatever the widths of the integer types and the numbers there are, phases
\* are those of main, the types of sources are Futhark's, and an integer that
\* is returned fits its type (LowerBasicOp, LowerPrimValue).
THEOREM ScalarTypes == Spec => []TypeOK
<1>1. IInv => TypeOK
    BY AlwaysRight DEF Right
<1> QED
    BY <1>1, ScalarInvariant, PTL

\* Whatever the widths and the operands, a function that is compiled and run
\* returns what Futhark's operation means: LowerBinOp and LowerIntrinsic choose
\* the right operation, the visitor and getPrimValueAttr keep its literals, and
\* Intrinsic::getBaseName finds its name.
THEOREM CompiledMeaning == Spec => []ScalarMeaning
<1>1. IInv => ScalarMeaning
    BY AlwaysRight DEF Right
<1> QED
    BY <1>1, ScalarInvariant, PTL

\* Whatever the widths and the operands, mlir::verify refuses conversions that
\* do not make their operand wider and counts of bits of a type other than i32
\* (LowerBasicOp: BasicOpConvOp; LowerIntrinsic), and no other function.
THEOREM RefusedFunctions == Spec => []OnlyTheseRefused
<1>1. IInv => OnlyTheseRefused
    BY AlwaysRight DEF Right
<1> QED
    BY <1>1, ScalarInvariant, PTL
=============================================================================
