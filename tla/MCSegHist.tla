----------------------------- MODULE MCSegHist -----------------------------
(* The operator commutes and is not associative: the order of the updates   *)
(* shows in the result, so a result that belongs to no order shows too.     *)
EXTENDS SegHist

CONSTANTS b0, b1

Residues == 0..2
Mix == [a \in Residues |-> [b \in Residues |-> (2 * a + 2 * b + 1) % 3]]
=============================================================================
