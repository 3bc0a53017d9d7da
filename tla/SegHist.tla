------------------------------- MODULE SegHist -------------------------------
(***************************************************************************)
(* LowerSegHist (mlir-backend/compiler.hpp) and the code it emits, run: a   *)
(* linalg.generic that yields an index and a value at every point of the    *)
(* space, then an iree_linalg_ext.scatter that combines each value with the *)
(* element its index names.  Both take their points in any order.           *)
(*                                                                          *)
(* An index out of range, which Futhark ignores and the scatter does not,   *)
(* is left out: bucket takes its values in Bin.                             *)
(***************************************************************************)
EXTENDS Integers

CONSTANTS
    Bin,        \* indices of the destination
    Val,        \* values of the histogram's operator
    Op,         \* Op[a][b]: HistOp.lambda, its first parameter a
    Uninit,     \* an element of a tensor.empty
    Pending,    \* the result before there is one
    Refused,    \* the exception of Undefined() in its place
    MaxThreads  \* bound: extent of the space

\* Futhark asks of the operator of a histogram that it commute; nothing in the
\* compiler checks it.
ASSUME HistAssumption ==
    /\ Op \in [Val -> [Val -> Val]]
    /\ \A a, b \in Val : Op[a][b] = Op[b][a]
    /\ Uninit \notin Bin \cup Val
    /\ {Pending, Refused} \cap [Bin -> Val] = {}
    /\ Pending # Refused
    /\ MaxThreads \in Nat

VARIABLES
    form,       \* how many operators, indices and values it has, and the rank
                \* of its space
    width,      \* extent of the space
    bucket,     \* bucket[t]: the index the kernel yields at point t
    value,      \* value[t]: the value
    dest,       \* HistOp.dest
    phase,      \* what is lowered or run
    indices,    \* first result of the linalg.generic
    values,     \* second result
    pc,         \* pc[t]: what the scatter has done with update t
    original,   \* original[t]: the second argument of its region
    hist,       \* the output of the scatter
    result

input == <<form, width, bucket, value, dest>>
vars == <<form, width, bucket, value, dest, phase, indices, values, pc,
          original, hist, result>>

Thread == 0..width - 1

\* HistOp and SegSpace: an operator of several indices has a histogram of
\* several dimensions, one of several values works on tuples.
Forms == [operators : 1..2, indices : 1..2, values : 1..2, rank : 1..2]
Simple == [operators |-> 1, indices |-> 1, values |-> 1, rank |-> 1]

\* The kernel yields the indices and the values of all operators.
KernelResults(f) == f.operators * (f.indices + f.values)

Init ==
    /\ form \in Forms
    /\ width \in 0..MaxThreads
    /\ bucket \in [Thread -> Bin]
    /\ value \in [Thread -> Val]
    /\ dest \in [Bin -> Val]
    /\ phase = "lower"
    /\ indices = [t \in Thread |-> Uninit]
    /\ values = [t \in Thread |-> Uninit]
    /\ pc = [t \in Thread |-> "waiting"]
    /\ original = [t \in Thread |-> Uninit]
    /\ hist = [b \in Bin |-> Uninit]
    /\ result = Pending

\* The calls of Undefined(): number of results of the kernel, of operators, of
\* destinations; rank of the indices, which is that of the space.
Unsupported(f) ==
    \/ KernelResults(f) # 2
    \/ f.operators # 1
    \/ f.values # 1
    \/ f.rank # 1

Refuse ==
    /\ phase = "lower" /\ Unsupported(form)
    /\ phase' = "refused"
    /\ result' = Refused
    /\ UNCHANGED <<input, indices, values, pc, original, hist>>

Emit ==
    /\ phase = "lower" /\ ~Unsupported(form)
    /\ phase' = "kernel"
    /\ UNCHANGED <<input, indices, values, pc, original, hist, result>>

\* Mutant: the first result is taken for the values.
ComputeSwapped(t) ==
    /\ phase = "kernel" /\ indices[t] = Uninit
    /\ indices' = [indices EXCEPT ![t] = value[t]]
    /\ values' = [values EXCEPT ![t] = bucket[t]]
    /\ UNCHANGED <<input, phase, pc, original, hist, result>>

\* A point of the linalg.generic.
Compute(t) ==
    /\ phase = "kernel" /\ indices[t] = Uninit
    /\ indices' = [indices EXCEPT ![t] = bucket[t]]
    /\ values' = [values EXCEPT ![t] = value[t]]
    /\ UNCHANGED <<input, phase, pc, original, hist, result>>

\* The scatter's output starts as a copy of the destination; its operands are
\* complete tensors.
StartScatter ==
    /\ phase = "kernel"
    /\ \A t \in Thread : indices[t] # Uninit
    /\ phase' = "scatter"
    /\ hist' = dest
    /\ UNCHANGED <<input, indices, values, pc, original, result>>

\* Mutant: the scatter is told that no index occurs twice.
AssumedUnique == TRUE

\* unique_indices of the ScatterOp: if it is not set, the scatter takes one
\* update after the other.
UniqueIndices == FALSE

Fetch(t) ==
    /\ phase = "scatter" /\ pc[t] = "waiting"
    /\ UniqueIndices \/ \A u \in Thread : pc[u] # "fetched"
    /\ pc' = [pc EXCEPT ![t] = "fetched"]
    /\ original' = [original EXCEPT ![t] = hist[indices[t]]]
    /\ UNCHANGED <<input, phase, indices, values, hist, result>>

\* Mutant: the region yields the update, as that of LowerScatter does.
CombineOverwrites(t) ==
    /\ phase = "scatter" /\ pc[t] = "fetched"
    /\ pc' = [pc EXCEPT ![t] = "combined"]
    /\ hist' = [hist EXCEPT ![indices[t]] = values[t]]
    /\ UNCHANGED <<input, phase, indices, values, original, result>>

\* The region of the scatter: its first argument is the update, its second the
\* original element, and the parameters of the lambda are bound in that order.
Combine(t) ==
    /\ phase = "scatter" /\ pc[t] = "fetched"
    /\ pc' = [pc EXCEPT ![t] = "combined"]
    /\ hist' = [hist EXCEPT ![indices[t]] = Op[values[t]][original[t]]]
    /\ UNCHANGED <<input, phase, indices, values, original, result>>

EndScatter ==
    /\ phase = "scatter"
    /\ \A t \in Thread : pc[t] = "combined"
    /\ phase' = "done"
    /\ result' = hist
    /\ UNCHANGED <<input, indices, values, pc, original, hist>>

Next ==
    \/ Refuse \/ Emit \/ StartScatter \/ EndScatter
    \/ \E t \in Thread : Compute(t) \/ Fetch(t) \/ Combine(t)

Spec == Init /\ [][Next]_vars

\* The compiler ends, and an operation runs at all of its points.
FairSpec == Spec /\ WF_vars(Next)

-----------------------------------------------------------------------------
TypeOK ==
    /\ form \in Forms
    /\ width \in 0..MaxThreads
    /\ bucket \in [Thread -> Bin]
    /\ value \in [Thread -> Val]
    /\ dest \in [Bin -> Val]
    /\ phase \in {"lower", "refused", "kernel", "scatter", "done"}
    /\ indices \in [Thread -> Bin \cup {Uninit}]
    /\ values \in [Thread -> Val \cup {Uninit}]
    /\ pc \in [Thread -> {"waiting", "fetched", "combined"}]
    /\ original \in [Thread -> Val \cup {Uninit}]
    /\ hist \in [Bin -> Val] \cup {[b \in Bin |-> Uninit]}
    /\ result \in [Bin -> Val] \cup {Pending, Refused}

Scattering == phase \in {"scatter", "done"}

Abstract == INSTANCE HistSpec WITH
    Simple <- Simple, Op <- Op, Pending <- Pending, Refused <- Refused,
    form <- form, width <- width, bucket <- bucket, value <- value,
    dest <- dest, result <- result,
    left <- {t \in Thread : pc[t] # "combined"},
    bins <- IF Scattering THEN hist ELSE dest

\* Whatever the order of the points and of the updates, also when many of them
\* meet in a bin: every value is combined with its bin once, no update is lost
\* between the read and the write of another, the destination's elements are
\* kept, and the histogram is finished.  A SegHist with one operator, index and
\* value over one dimension is never refused; any other may be, and is, though
\* the tests hist2d.fut and hist3d.fut expect a result of several indices.
IsHistogram == Abstract!FairSpec

-----------------------------------------------------------------------------
\* What the points of the kernel have left so far.
Computed ==
    \A t \in Thread :
        \/ indices[t] = bucket[t] /\ values[t] = value[t]
        \/ indices[t] = Uninit /\ ~Scattering

\* The scatter works on at most one update, with an element nobody has changed
\* since it was read.
OneInFlight ==
    \A t \in Thread : pc[t] = "fetched" =>
        /\ original[t] = hist[bucket[t]]
        /\ \A u \in Thread : pc[u] = "fetched" => u = t

Ordered ==
    /\ ~Scattering => \A t \in Thread : pc[t] = "waiting"
    /\ Scattering => hist \in [Bin -> Val]
    /\ phase \in {"kernel", "scatter", "done"} => form = Simple
    /\ phase = "done" <=> result \in [Bin -> Val]
    /\ phase = "refused" <=> result = Refused

\* Between the read and the write of an update no other update changes its
\* element; the operands of the scatter are what the kernel yields.
IInv == TypeOK /\ Computed /\ OneInFlight /\ Ordered
=============================================================================
