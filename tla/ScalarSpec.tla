----------------------------- MODULE ScalarSpec -----------------------------
(***************************************************************************)
(* What Futhark's scalar operations mean, and what module Scalars owes them.*)
(* Integers are two's complement numbers here, not bit patterns.            *)
(***************************************************************************)
EXTENDS Scalars

\* The number of type t that n is modulo Size(t).
Wrapped(n, t) ==
    CHOOSE m \in -Top[t]..Top[t] - 1 : (m - n) % Size(t) = 0

\* squot rounds towards zero: the remainder has the sign of the dividend.
IsQuotient(q, a, b) ==
    /\ Abs(a - q * b) < Abs(b)
    /\ (a >= 0 => a - q * b >= 0) /\ (a <= 0 => a - q * b <= 0)
\* sdiv_up rounds towards positive infinity, sdiv towards negative infinity.
IsCeiling(q, a, b) == IF b > 0 THEN q * b >= a /\ (q - 1) * b < a
                               ELSE q * b <= a /\ (q - 1) * b > a
IsFloor(q, a, b) == IsCeiling(-q, -a, b)

\* fmax returns the operand that is a number; round takes ties to even.
IsMax(m, x, y) == m \in {x, y} /\ (m = NaN => x = NaN /\ y = NaN) /\ ~Less(m, x) /\ ~Less(m, y)
IsRounded(n, x) ==
    \/ x.k # "num" /\ n = x
    \/ /\ x.k = "num"
       /\ Abs(n.h - x.h) <= 1 /\ n.h % 2 = 0
       /\ x.h % 2 = 1 => n.h % 4 = 0

\* Whether integer n is the result of an integer operation.
IntMeaning(name, t, a, b, n) ==
    CASE name \in {"add", "add_nw"} -> n = Wrapped(a + b, t)
      [] name \in {"sub", "sub_nw"} -> n = Wrapped(a - b, t)
      [] name \in {"mul", "mul_nw"} -> n = Wrapped(a * b, t)
      [] name = "squot" -> IsQuotient(n, a, b)
      [] name = "sdiv" -> IsFloor(n, a, b)
      [] name = "sdiv_up" -> IsCeiling(n, a, b)
      [] OTHER -> FALSE

\* Which operands are in the relation a comparison asks about.
Compares(name, x, y) ==
    LET t == x.t IN
    CASE name = "eq" -> IF t \in FloatTypes THEN Same(x.v, y.v) ELSE x.v = y.v
      [] name = "lt" -> Less(x.v, y.v)
      [] name = "le" -> Less(x.v, y.v) \/ Same(x.v, y.v)
      [] name = "slt" -> Signed(x.v.n, t) < Signed(y.v.n, t)
      [] name = "sle" -> Signed(x.v.n, t) <= Signed(y.v.n, t)
      [] name = "ult" -> x.v.n < y.v.n
      [] name = "ule" -> x.v.n <= y.v.n

\* Whether r is what conversion name makes of x in type t.
Converts(name, t, x, r) ==
    CASE name = "zext" -> r.n = Pattern(x.v.n, t)
      [] name = "sext" -> Signed(r.n, t) = Wrapped(Signed(x.v.n, x.t), t)
      [] name = "sitofp" -> r = Number(2 * Signed(x.v.n, x.t))
      [] OTHER -> FALSE

\* Whether r is the value of primitive function base at values a.
Applies(base, a, r) ==
    CASE base = <<"isnan">> -> r = Truth(a[1] = NaN)
      [] base = <<"isinf">> -> r = Truth(a[1] \in {Special("inf"), Special("-inf")})
      [] base = <<"round">> -> IsRounded(r, a[1])
      \* A mad may be computed with one rounding.
      [] base = <<"mad">> -> r = Term(<<"fma">>, a)
      [] OTHER -> r = Term(base, a)

Means(r) ==
    LET args == source.args
        a == [k \in DOMAIN args |-> args[k].v]
        t == source.t
    IN  CASE source.form = "literal" -> r = a[1]
          [] source.form = "binary" ->
                IF t \in IntTypes
                THEN IntMeaning(source.name, t, Signed(a[1].n, t), Signed(a[2].n, t), Signed(r.n, t))
                ELSE IF source.name = "fmax" THEN IsMax(r, a[1], a[2])
                ELSE r = Term(source.name, a)
          [] source.form = "compare" -> r = Truth(Compares(source.name, args[1], args[2]))
          [] source.form = "convert" -> Converts(source.name, t, args[1], r)
          [] source.form = "apply" ->
                IF source.name = Cond(t) THEN r = (IF a[1] = Truth(TRUE) THEN a[2] ELSE a[3])
                ELSE \E base \in Functions :
                        source.name = Suffixed(base, args[1].t) /\ Applies(base, a, r)

-----------------------------------------------------------------------------
(* Properties.                                                               *)

\* Values and phases are what they may be.
TypeOK ==
    /\ phase \in {"parse", "lower", "verify", "run", "done", "undefined", "refused"}
    /\ source.t \in Types
    /\ phase = "done" /\ source.t \in IntTypes \cup {"bool"} /\ result.k = "int" =>
          result.n \in 0..Size(source.t) - 1

\* A literal of type f16 is cut to a natural number on its way (Float16Value):
\* 0.5 becomes 0, and below -1, at an infinity or a NaN it may become anything.
Natural(v) == v.k = "num" /\ v.h >= 0 /\ v.h % 2 = 0 /\ v.h < 2 * Size("i16")
Exact(x) == x.literal /\ x.t = "f16" => Natural(x.v)

\* A function that is compiled and run returns what Futhark's operation means:
\* wrap around, signs, directions of rounding, NaN, order of operands, literals
\* (save those of type f16 that are no natural numbers) and the names of
\* primitive functions (LowerBinOp, BasicOpCmpOp, BasicOpConvOp, LowerIntrinsic,
\* VisitPrimValueInteger, VisitPrimValueFloat).
ScalarMeaning ==
    phase = "done" /\ (\A k \in DOMAIN source.args : Exact(source.args[k])) => Means(result)

\* A module that is printed and then refused by mlir::verify has a conversion
\* that does not make its operand wider, or counts bits of a type that is not
\* i32: no other scalar operation the compiler accepts is ill typed.
OnlyTheseRefused ==
    phase = "refused" =>
        \/ /\ source.form = "convert" /\ source.name \in {"zext", "sext"}
           /\ Top[source.args[1].t] >= Top[source.t]
        \/ /\ source.form = "apply"
           /\ \E base \in BitCounts : source.name = Suffixed(base, source.args[1].t)
           /\ source.args[1].t # "i32"

=============================================================================
