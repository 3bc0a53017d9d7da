------------------------------ MODULE HistSpec ------------------------------
(***************************************************************************)
(* What Futhark promises of a SegHist (the `seghist` of the IR): the bins   *)
(* begin as the destination, and every thread's value is combined with its  *)
(* bin once, in an order that nobody chose.  This holds of every form: a    *)
(* bin is what all of a thread's indices name together, a value all of its  *)
(* values, and of several operators each makes such a histogram.  A         *)
(* compiler that does not know a form may refuse it, unless it is the       *)
(* simple one.                                                              *)
(***************************************************************************)
EXTENDS Integers

CONSTANTS
    Op,       \* Op[a][b]: the operator, of a bin and a new value
    Simple,   \* the form every compiler has to know: one index, value and
              \* operator, a space of one dimension
    Pending,  \* the result of a histogram that is not finished
    Refused   \* what there is instead of a result if it is not compiled

VARIABLES
    form,     \* the form of this SegHist
    width,    \* number of threads
    bucket,   \* bucket[t]: the bin of thread t
    value,    \* value[t]: its value
    dest,     \* what the bins hold before
    left,     \* threads whose values have not been taken in
    bins,     \* the bins so far
    result

vars == <<form, width, bucket, value, dest, left, bins, result>>

Init ==
    /\ left = 0..width - 1
    /\ bins = dest
    /\ result = Pending

Count(t) ==
    /\ result = Pending
    /\ t \in left
    /\ left' = left \ {t}
    /\ bins' = [bins EXCEPT ![bucket[t]] = Op[@][value[t]]]
    /\ UNCHANGED <<form, width, bucket, value, dest, result>>

Complete ==
    /\ left = {}
    /\ result = Pending
    /\ result' = bins
    /\ UNCHANGED <<form, width, bucket, value, dest, left, bins>>

Refuse ==
    /\ form # Simple
    /\ result = Pending
    /\ result' = Refused
    /\ UNCHANGED <<form, width, bucket, value, dest, left, bins>>

Next == Complete \/ Refuse \/ \E t \in left : Count(t)

Spec == Init /\ [][Next]_vars
FairSpec == Spec /\ WF_vars(Next)
=============================================================================
