------------------------------ MODULE MCKernel ------------------------------
(* A vector, a matrix and a scalar; an operation and an operator that do not *)
(* commute.                                                                  *)
EXTENDS Kernel

CONSTANTS i, j, c, x1, x2, xs, yss

OneId == <<i>>
OneBinder == <<x1>>
OneArray == [a \in {xs} |-> 1]
OneContent == [a \in {xs} |-> [ix \in [1..1 -> 0..2] |-> ix[1]]]

TwoIds == <<i, j>>
TwoBinders == <<x1, x2>>
OneScalar == [n \in {c} |-> 1]
Arrays == [a \in {xs, yss} |-> IF a = xs THEN 1 ELSE 2]
Contents ==
    [a \in {xs, yss} |->
        IF a = xs THEN [ix \in [1..1 -> 0..2] |-> ix[1] + 2]
                  ELSE [ix \in [1..2 -> 0..2] |-> (3 * ix[1] + ix[2]) % 5]]
Minus == [a \in 0..4 |-> [b \in 0..4 |-> (a + 2 * b) % 5]]
Combine == [a \in 0..4 |-> [b \in 0..4 |-> (2 * a + b) % 5]]

\* The last statement is the kernel's result, and an array nobody reads is as
\* small as can be.
Relevant ==
    /\ yield = stms[Len(stms)].name
    /\ \A a \in Array : \/ \E k \in DOMAIN stms : stms[k].array = a
                         \/ \A d \in 1..ArrayRank[a] : \A n \in Extents : shape[a][d] <= n
=============================================================================
