------------------------------ MODULE ScanSpec ------------------------------
(***************************************************************************)
(* What Futhark promises of a SegScan (the `segscan` of the IR): along the  *)
(* innermost dimension of its space, every row of the result holds the      *)
(* inclusive scan of what the kernel yields there, from the left, each      *)
(* element passed through post_op.  The scan has no intermediate state.     *)
(***************************************************************************)
EXTENDS Integers

CONSTANTS
    Row,      \* thread ids of all dimensions of the space but the innermost
    Val,      \* values of the scan's operator
    Neutral,  \* its neutral element
    Op,       \* Op[a][b]: the operator
    Post,     \* Post[a]: post_op
    Pending   \* the result before the scan is complete

VARIABLES
    width,    \* extent of the innermost dimension
    elems,    \* elems[r][i]: what the kernel yields at thread id (r, i)
    result

Index == 0..width - 1

\* p[i] is the scan of the first i elements of e.
IsScan(p, e) ==
    /\ p[0] = Neutral
    /\ \A i \in Index : p[i + 1] = Op[p[i]][e[i]]

Prefixes == [0..width -> Val]

Scanned(r) == {[i \in Index |-> Post[p[i + 1]]] :
                  p \in {q \in Prefixes : IsScan(q, elems[r])}}

Complete ==
    /\ result = Pending
    /\ result' \in [Row -> UNION {Scanned(r) : r \in Row}]
    /\ \A r \in Row : result'[r] \in Scanned(r)
    /\ UNCHANGED <<width, elems>>

Init == result = Pending
Next == Complete
vars == <<width, elems, result>>

Spec == Init /\ [][Next]_vars
FairSpec == Spec /\ WF_vars(Next)
=============================================================================
