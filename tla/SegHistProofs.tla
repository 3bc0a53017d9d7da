---------------------------- MODULE SegHistProofs ----------------------------
(***************************************************************************)
(* For every set of bins, commutative operator and extent of the space: the *)
(* generated code keeps IInv and implements HistSpec.                       *)
(***************************************************************************)
EXTENDS SegHist, TLAPS

USE HistAssumption

-----------------------------------------------------------------------------
(* What the early returns of LowerSegHist let through.                       *)

LEMMA SupportedIsSimple ==
    ASSUME NEW f \in Forms
    PROVE  Unsupported(f) <=> f # Simple
BY DEF Forms, Simple, Unsupported, KernelResults

LEMMA InitInv == Init => IInv
<1> SUFFICES ASSUME Init PROVE IInv
    OBVIOUS
<1>1. TypeOK
    BY DEF Init, TypeOK
<1>2. Computed
    BY DEF Init, Computed, Scattering
<1>3. OneInFlight
    BY DEF Init, OneInFlight
<1>4. Ordered
    BY DEF Init, Ordered, Scattering
<1> QED
    BY <1>1, <1>2, <1>3, <1>4 DEF IInv

-----------------------------------------------------------------------------
(* One lemma for each action.                                                *)

LEMMA RefuseInv ==
    ASSUME IInv, Refuse
    PROVE  IInv'
<1>1. TypeOK'
    BY DEF IInv, TypeOK, Refuse, input, Thread
<1>2. Computed' /\ OneInFlight'
    BY DEF IInv, Computed, OneInFlight, Ordered, Refuse, input, Thread, Scattering
<1>3. Ordered'
    BY DEF IInv, Ordered, Refuse, input, Thread, Scattering
<1> QED
    BY <1>1, <1>2, <1>3 DEF IInv

LEMMA EmitInv ==
    ASSUME IInv, Emit
    PROVE  IInv'
<1>1. TypeOK'
    BY DEF IInv, TypeOK, Emit, input, Thread
<1>2. form = Simple
    BY SupportedIsSimple DEF IInv, TypeOK, Emit
<1>3. Computed' /\ OneInFlight'
    BY DEF IInv, Computed, OneInFlight, Emit, input, Thread, Scattering
<1>4. Ordered'
    BY <1>2 DEF IInv, Ordered, Emit, input, Thread, Scattering
<1> QED
    BY <1>1, <1>3, <1>4 DEF IInv

LEMMA ComputeInv ==
    ASSUME IInv, NEW t \in Thread, Compute(t)
    PROVE  IInv'
<1>1. TypeOK'
    BY DEF IInv, TypeOK, Compute, input, Thread
<1>2. Computed'
    BY DEF IInv, TypeOK, Computed, Compute, input, Thread, Scattering
<1>3. OneInFlight' /\ Ordered'
    BY DEF IInv, OneInFlight, Ordered, Compute, input, Thread, Scattering
<1> QED
    BY <1>1, <1>2, <1>3 DEF IInv

LEMMA StartScatterInv ==
    ASSUME IInv, StartScatter
    PROVE  IInv'
<1>1. TypeOK'
    BY DEF IInv, TypeOK, StartScatter, input, Thread
<1>2. Computed'
    BY DEF IInv, TypeOK, Computed, StartScatter, input, Thread, Scattering
<1>3. OneInFlight' /\ Ordered'
    BY DEF IInv, TypeOK, OneInFlight, Ordered, StartScatter, input, Thread, Scattering
<1> QED
    BY <1>1, <1>2, <1>3 DEF IInv

(* In the scatter, update t is complete and has its thread's index.          *)
LEMMA UpdateOfThread ==
    ASSUME IInv, phase = "scatter", NEW t \in Thread
    PROVE  /\ indices[t] = bucket[t] /\ values[t] = value[t]
           /\ bucket[t] \in Bin /\ value[t] \in Val
           /\ hist \in [Bin -> Val]
BY DEF IInv, TypeOK, Computed, Ordered, Scattering

LEMMA FetchInv ==
    ASSUME IInv, NEW t \in Thread, Fetch(t)
    PROVE  IInv'
<1>1. /\ indices[t] = bucket[t] /\ bucket[t] \in Bin /\ hist \in [Bin -> Val]
      /\ \A u \in Thread : pc[u] # "fetched"
    BY UpdateOfThread DEF Fetch, UniqueIndices
<1>2. TypeOK'
    BY <1>1 DEF IInv, TypeOK, Fetch, input, Thread
<1>3. Computed'
    BY DEF IInv, Computed, Fetch, input, Thread, Scattering
<1>4. OneInFlight'
    BY <1>1 DEF IInv, TypeOK, OneInFlight, Fetch, input, Thread
<1>5. Ordered'
    BY DEF IInv, Ordered, Fetch, input, Thread, Scattering
<1> QED
    BY <1>2, <1>3, <1>4, <1>5 DEF IInv

LEMMA CombineInv ==
    ASSUME IInv, NEW t \in Thread, Combine(t)
    PROVE  IInv'
<1>1. /\ indices[t] = bucket[t] /\ values[t] = value[t]
      /\ bucket[t] \in Bin /\ value[t] \in Val /\ hist \in [Bin -> Val]
    BY UpdateOfThread DEF Combine
<1>2. original[t] = hist[bucket[t]] /\ \A u \in Thread : pc[u] = "fetched" => u = t
    BY DEF IInv, OneInFlight, Combine
<1>3. Op[values[t]][original[t]] \in Val
    BY <1>1, <1>2
<1>4. hist' \in [Bin -> Val]
    BY <1>1, <1>3 DEF Combine
<1>5. TypeOK'
    BY <1>4 DEF IInv, TypeOK, Combine, input, Thread
<1>6. Computed'
    BY DEF IInv, Computed, Combine, input, Thread, Scattering
<1>7. OneInFlight'
    BY <1>2 DEF IInv, TypeOK, OneInFlight, Combine, input, Thread
<1>8. Ordered'
    BY <1>4 DEF IInv, Ordered, Combine, input, Thread, Scattering
<1> QED
    BY <1>5, <1>6, <1>7, <1>8 DEF IInv

LEMMA EndScatterInv ==
    ASSUME IInv, EndScatter
    PROVE  IInv'
<1>1. hist \in [Bin -> Val]
    BY DEF IInv, Ordered, Scattering, EndScatter
<1>2. TypeOK'
    BY <1>1 DEF IInv, TypeOK, EndScatter, input, Thread
<1>3. Computed' /\ OneInFlight'
    BY DEF IInv, Computed, OneInFlight, EndScatter, input, Thread, Scattering
<1>4. Ordered'
    BY <1>1 DEF IInv, Ordered, EndScatter, input, Thread, Scattering
<1> QED
    BY <1>2, <1>3, <1>4 DEF IInv

LEMMA NextInv == IInv /\ [Next]_vars => IInv'
<1> SUFFICES ASSUME IInv, [Next]_vars PROVE IInv'
    OBVIOUS
<1>1. CASE Refuse \/ Emit \/ StartScatter \/ EndScatter
    BY <1>1, RefuseInv, EmitInv, StartScatterInv, EndScatterInv
<1>2. CASE \E t \in Thread : Compute(t) \/ Fetch(t) \/ Combine(t)
    BY <1>2, ComputeInv, FetchInv, CombineInv
<1>3. CASE UNCHANGED vars
    <2>1. Thread' = Thread /\ Scattering' = Scattering
        BY <1>3 DEF vars, Thread, Scattering
    <2>2. TypeOK'
        BY <1>3, <2>1 DEF vars, IInv, TypeOK
    <2>3. Computed' /\ OneInFlight'
        BY <1>3, <2>1 DEF vars, IInv, Computed, OneInFlight
    <2>4. Ordered'
        BY <1>3, <2>1 DEF vars, IInv, Ordered
    <2> QED
        BY <2>2, <2>3, <2>4 DEF IInv
<1> QED
    BY <1>1, <1>2, <1>3 DEF Next

(* No update of a histogram is lost between the read and the write of        *)
(* another, and the scatter gets complete operands.                          *)
THEOREM HistInvariant == Spec => []IInv
BY InitInv, NextInv, PTL DEF Spec

(* The kernel, the scatter and its region keep the types of their operands.  *)
THEOREM HistTyped == Spec => []TypeOK
<1>1. IInv => TypeOK
    BY DEF IInv
<1> QED
    BY <1>1, HistInvariant, PTL

-----------------------------------------------------------------------------
(* The write of an update is the step of HistSpec that takes it in; the end  *)
(* of the scatter completes the histogram; all other steps stutter.          *)

Left == {t \in Thread : pc[t] # "combined"}
Bins == IF Scattering THEN hist ELSE dest

LEMMA CombineCounts ==
    ASSUME IInv, NEW t \in Thread, Combine(t)
    PROVE  Abstract!Count(t) /\ t \in Left
<1>1. /\ indices[t] = bucket[t] /\ values[t] = value[t]
      /\ bucket[t] \in Bin /\ value[t] \in Val /\ hist \in [Bin -> Val]
    BY UpdateOfThread DEF Combine
<1>2. original[t] = hist[bucket[t]]
    BY DEF IInv, OneInFlight, Combine
<1>3. t \in Left /\ Left' = Left \ {t}
    BY DEF Combine, Left, IInv, TypeOK, input, Thread
<1>4. Op[value[t]][hist[bucket[t]]] = Op[hist[bucket[t]]][value[t]]
    BY <1>1
<1>5. Bins' = [Bins EXCEPT ![bucket[t]] = Op[@][value[t]]]
    BY <1>1, <1>2, <1>4 DEF Combine, Bins, Scattering
<1>6. result = Pending /\ UNCHANGED <<input, result>>
    BY DEF Combine, IInv, Ordered, TypeOK
<1> QED
    BY <1>3, <1>5, <1>6 DEF Abstract!Count, Left, Bins, input

LEMMA EndScatterCompletes ==
    ASSUME IInv, EndScatter
    PROVE  Abstract!Complete
<1>1. Left = {} /\ UNCHANGED <<input, pc, hist>>
    BY DEF EndScatter, Left
<1>2. Left' = Left /\ Bins' = Bins /\ Bins = hist
    BY <1>1 DEF EndScatter, Left, Bins, Scattering, input, Thread
<1>3. result = Pending
    BY DEF EndScatter, IInv, Ordered, TypeOK
<1> QED
    BY <1>1, <1>2, <1>3 DEF Abstract!Complete, EndScatter, Left, Bins, input

LEMMA RefuseRefuses ==
    ASSUME IInv, Refuse
    PROVE  Abstract!Refuse
<1>1. form # Simple
    BY SupportedIsSimple DEF IInv, TypeOK, Refuse
<1>2. result = Pending
    BY DEF Refuse, IInv, Ordered, TypeOK
<1>3. Left' = Left /\ Bins' = Bins
    BY DEF Refuse, Left, Bins, Scattering, input, Thread
<1> QED
    BY <1>1, <1>2, <1>3 DEF Abstract!Refuse, Refuse, Left, Bins, input

LEMMA OthersStutter ==
    ASSUME IInv, \/ Emit \/ StartScatter
                 \/ \E t \in Thread : Compute(t) \/ Fetch(t)
    PROVE  UNCHANGED Abstract!vars
<1>1. UNCHANGED <<input, result>>
    BY DEF Emit, StartScatter, Compute, Fetch
<1>2. Left' = Left
    BY <1>1 DEF Emit, StartScatter, Compute, Fetch, Left, IInv, TypeOK, input, Thread
<1>3. Bins' = Bins
    BY <1>1 DEF Emit, StartScatter, Compute, Fetch, Bins, Scattering, input
<1> QED
    BY <1>1, <1>2, <1>3 DEF Abstract!vars, Left, Bins, input

(* Safety half of IsHistogram: what the code LowerSegHist emits returns is   *)
(* the destination with every thread's value combined once with its bin, in  *)
(* some order; only a SegHist with several operators, indices, values or     *)
(* dimensions is refused, and no result is returned for it.                  *)
THEOREM ImplementsHist == Spec => Abstract!Spec
<1>1. Init => Abstract!Init
    <2> SUFFICES ASSUME Init PROVE Abstract!Init
        OBVIOUS
    <2>1. Left = 0..width - 1 /\ Bins = dest /\ result = Pending
        BY DEF Init, Left, Bins, Scattering, Thread
    <2> QED
        BY <2>1 DEF Abstract!Init, Left, Bins
<1>2. ASSUME IInv, [Next]_vars
      PROVE  [Abstract!Next]_(Abstract!vars)
    <2>1. CASE Refuse
        BY <1>2, <2>1, RefuseRefuses DEF Abstract!Next
    <2>2. CASE EndScatter
        BY <1>2, <2>2, EndScatterCompletes DEF Abstract!Next
    <2>3. ASSUME NEW t \in Thread, Combine(t) PROVE Abstract!Next
        BY <1>2, <2>3, CombineCounts DEF Abstract!Next, Left
    <2>4. CASE Emit \/ StartScatter \/ \E t \in Thread : Compute(t) \/ Fetch(t)
        BY <1>2, <2>4, OthersStutter
    <2>5. CASE UNCHANGED vars
        BY <2>5 DEF vars, Abstract!vars, Thread, Scattering
    <2> QED
        BY <1>2, <2>1, <2>2, <2>3, <2>4, <2>5 DEF Next
<1> QED
    BY <1>1, <1>2, HistInvariant, PTL DEF Spec, Abstract!Spec
=============================================================================
