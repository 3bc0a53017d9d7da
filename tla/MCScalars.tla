----------------------------- MODULE MCScalars -----------------------------
(* Four widths, all different; halves on both sides of zero, ties of both    *)
(* kinds among them.                                                         *)
EXTENDS ScalarSpec

ScaledTop == [t \in IntTypes \cup {"bool"} |->
                  CASE t = "bool" -> 1 [] t = "i8" -> 2 [] t = "i16" -> 4
                    [] t = "i32" -> 8 [] t = "i64" -> 16]
SomeHalves == {-2, -1, 0, 1, 2, 3}
=============================================================================
