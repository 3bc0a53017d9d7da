----------------------------- MODULE MCSegScan -----------------------------
(* The operator composes functions on two points: associative, with a       *)
(* neutral element, and not commutative, so that an operand or a row out of *)
(* place shows.                                                             *)
EXTENDS SegScan

CONSTANTS s, t

Point == {s, t}
Maps == [Point -> Point]
Identity == [x \in Point |-> x]
Compose == [h1 \in Maps |-> [h2 \in Maps |-> [x \in Point |-> h2[h1[x]]]]]

\* post_op tags its argument: what it returns is never taken for an accumulator.
Tagged == {<<"out", m>> : m \in Maps}
Tag == [m \in Maps |-> <<"out", m>>]

Rows == {<<0>>, <<1>>}
=============================================================================
