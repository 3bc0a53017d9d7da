---------------------------- MODULE KernelProofs ----------------------------
(***************************************************************************)
(* The linalg.generic of LowerSegMap and LowerSegRed (compiler.hpp) for any *)
(* space, statements and arrays: hoisting reads out of the region changes   *)
(* nothing, and an operation that ends has run the kernel at every point.   *)
(***************************************************************************)
EXTENDS Kernel, WellFoundedInduction, TLAPS

-----------------------------------------------------------------------------
(* Numbers.  The well-foundedness of the naturals stands in for induction: a *)
(* statement that fails, fails first at some number.                         *)

\* There is a least number in a set of numbers.
LEMMA LeastNumber ==
    ASSUME NEW T, T \subseteq Nat, T # {}
    PROVE  \E n \in T : \A m \in T : n <= m
<1> DEFINE Less == OpToRel(<, Nat)
<1>1. IsWellFoundedOn(Less, Nat)
    BY NatLessThanWellFounded
<1>2. \A m, n \in Nat : <<m, n>> \in Less <=> m < n
    BY DEF OpToRel
<1> HIDE DEF Less
<1>3. PICK n \in T : \A m \in T : ~ (<<m, n>> \in Less)
    BY <1>1, WFMin
<1>4. ASSUME NEW m \in T
      PROVE  n <= m
  <2>1. m \in Nat /\ n \in Nat
      OBVIOUS
  <2>2. ~ (m < n)
      BY <1>2, <1>3, <2>1
  <2> QED
      BY <2>1, <2>2
<1> QED
    BY <1>4

\* A set of pairs of numbers has a first one, in the order of dictionaries.
LEMMA FirstPair ==
    ASSUME NEW P, P # {}, P \subseteq Nat \X Nat
    PROVE  \E p \in P : \A q \in P : p[1] < q[1] \/ (p[1] = q[1] /\ p[2] <= q[2])
<1> DEFINE A == {p[1] : p \in P}
<1>1. PICK a \in A : \A b \in A : a <= b
  <2>1. A \subseteq Nat /\ A # {}
      OBVIOUS
  <2> HIDE DEF A
  <2> QED
      BY <2>1, LeastNumber
<1> DEFINE B == {p[2] : p \in {q \in P : q[1] = a}}
<1>2. PICK b \in B : \A c \in B : b <= c
  <2>1. B \subseteq Nat /\ B # {}
      OBVIOUS
  <2> HIDE DEF B
  <2> QED
      BY <2>1, LeastNumber
<1>3. PICK p \in P : p[1] = a /\ p[2] = b
    OBVIOUS
<1>4. ASSUME NEW q \in P
      PROVE  p[1] < q[1] \/ (p[1] = q[1] /\ p[2] <= q[2])
  <2>1. q[1] \in Nat /\ p[1] \in Nat /\ p[1] <= q[1]
      BY <1>1, <1>3
  <2>2. CASE q[1] = p[1]
    <3>1. q[2] \in B
        BY <1>3, <2>2
    <3> QED
        BY <1>2, <1>3, <2>2, <3>1
  <2>3. CASE q[1] # p[1]
      BY <2>1, <2>3
  <2> QED
      BY <2>2, <2>3
<1> QED
    BY <1>3, <1>4

-----------------------------------------------------------------------------
(* The inductive invariant.                                                  *)

\* What stays: the kernel.
GoodKernel ==
    /\ op \in {"map", "red"}
    /\ Rank \in 1..Len(Gtids)
    /\ extent \in [Dim -> Extent]
    /\ stms \in Seq(Statement) /\ Len(stms) <= Len(Binders)
    /\ WellFormed(stms, extent, shape)
    /\ \E k \in DOMAIN stms : yield = stms[k].name
    /\ \A a \in Array : shape[a] \in [1..ArrayRank[a] -> Extents]

\* The reads found so far are those of the affine statements so far.
ReadOf(s) == [result |-> s.name, array |-> s.array, dims |-> UsedDims(s)]
Found ==
    /\ next \in 1..Len(stms) + 1
    /\ reads \in Seq(Read)
    /\ \A r \in DOMAIN reads : \E k \in 1..next - 1 :
          IsAffine(stms[k]) /\ reads[r] = ReadOf(stms[k])
    /\ \A k \in 1..next - 1 : IsAffine(stms[k]) =>
          \E r \in DOMAIN reads : reads[r] = ReadOf(stms[k])

\* The loops cover the space, by more than that only where arrays are longer.
CoversSpace(ls) ==
    /\ ls \in [Dim -> Extents]
    /\ \A d \in Dim : ls[d] \in extent[d]..extent[d] + MaxExcess
Covered == next = Len(stms) + 1 /\ CoversSpace(loops)

\* A point of the operation that has been entered knows where it is, and what
\* has been hoisted or executed has the value the statement gives it.
Computed(t) ==
    /\ InBounds(t)
    /\ \A d \in Dim : env[t][Gtids[d]] = t[d]
    /\ \A c \in Outer : env[t][c] = Scalar[c]
    /\ \A k \in DOMAIN stms : k < pc[t] \/ IsAffine(stms[k]) =>
          /\ env[t][stms[k].name] = Meaning(stms[k], env[t])
          /\ env[t][stms[k].name] \in Val

Entered ==
    /\ pc \in [Points(loops) -> 0..End]
    /\ env \in [Points(loops) -> [Names -> Scalars]]
    /\ \A t \in Points(loops) : pc[t] # 0 => Computed(t)
    /\ \A t, u \in Points(loops) : {pc[t], pc[u]} \cap {0, End} = {} => t = u

\* A map has stored the results of the points that are through.
Stored ==
    op = "map" => \A t \in Points(extent) : pc[t] = End => out[t] = env[t][yield]

\* A reduction has gone through the first points of each row, in order, and the
\* output has the last accumulator.
Through(c, n, acc) ==
    /\ \A i \in 0..n - 1 : /\ pc[Row(c, i)] = End
                           /\ acc[i + 1] = Operator[acc[i]][env[Row(c, i)][yield]]
    /\ \A i \in n..loops[Rank] - 1 : pc[Row(c, i)] # End
    /\ out[c] = acc[n]

Reduced ==
    op = "red" =>
        /\ \A t \in Points(loops) : pc[t] # 0 => Turn(t)
        /\ \A c \in Points(OutShape) : out[c] \in Val
        /\ \A c \in Points(OutShape) : \E n \in 0..loops[Rank], acc \in [0..loops[Rank] -> Val] :
              acc[0] = Neutral /\ Through(c, n, acc)

IInv ==
    /\ GoodKernel /\ Found
    /\ status \in {"find", "run", "done", "rejected", "undefined"}
    /\ status \in {"run", "done", "undefined"} =>
          /\ Covered /\ Entered /\ Stored /\ Reduced
          /\ out \in [Points(OutShape) -> Scalars]
    /\ status = "done" => \A t \in Points(loops) : pc[t] = End
    /\ status = "undefined" => loops # extent

-----------------------------------------------------------------------------
(* Spaces and statements.                                                    *)

LEMMA PointsOf ==
    ASSUME NEW m \in Nat, NEW e \in [1..m -> Nat]
    PROVE  \A t : t \in Points(e) <=> t \in [1..m -> Nat] /\ \A d \in 1..m : t[d] < e[d]
<1> DEFINE U == UNION {0..e[d] - 1 : d \in DOMAIN e}
<1>1. DOMAIN e = 1..m
    OBVIOUS
<1>2. ASSUME NEW t, t \in Points(e)
      PROVE  t \in [1..m -> Nat] /\ \A d \in 1..m : t[d] < e[d]
  <2>1. U \subseteq Nat
      OBVIOUS
  <2>2. t \in [1..m -> U] /\ \A d \in 1..m : t[d] < e[d]
      BY <1>1, <1>2 DEF Points
  <2> HIDE DEF U
  <2> QED
      BY <2>1, <2>2
<1>3. ASSUME NEW t \in [1..m -> Nat], \A d \in 1..m : t[d] < e[d]
      PROVE  t \in Points(e)
  <2>1. \A d \in 1..m : t[d] \in 0..e[d] - 1
      BY <1>3
  <2>2. \A d \in 1..m : t[d] \in U
      BY <1>1, <2>1
  <2> HIDE DEF U
  <2>3. t \in [1..m -> U]
      BY <2>2
  <2> QED
      BY <1>1, <1>3, <2>3 DEF Points, U
<1> QED
    BY <1>2, <1>3

LEMMA SpaceFacts ==
    ASSUME GoodKernel
    PROVE  /\ Rank \in Nat /\ Rank >= 1 /\ Dim = 1..Rank /\ DOMAIN extent = Dim
           /\ \A d \in Dim : /\ extent[d] \in Nat /\ extent[d] \in Extents
                             /\ Gtids[d] \in Ids /\ Gtids[d] \in Names
           /\ \A d, e \in Dim : Gtids[d] = Gtids[e] => d = e
           /\ SpaceIds \subseteq Ids
           /\ OutRank \in 0..Rank
           /\ OutShape \in [1..OutRank -> Nat]
           /\ Len(stms) \in Nat /\ DOMAIN stms = 1..Len(stms)
<1>1. Len(Gtids) \in Nat /\ Extent \subseteq Nat /\ MaxExcess \in Nat
    BY KernelAssumption
<1>2. Rank \in 1..Len(Gtids) /\ extent \in [Dim -> Extent]
    BY DEF GoodKernel
<1>3. Rank \in Nat /\ Rank >= 1 /\ Dim = 1..Rank /\ DOMAIN extent = Dim
    BY <1>1, <1>2 DEF Dim
<1>4. ASSUME NEW d \in Dim
      PROVE  /\ extent[d] \in Nat /\ extent[d] \in Extents
             /\ d \in 1..Len(Gtids) /\ Gtids[d] \in Ids /\ Gtids[d] \in Names
  <2>1. extent[d] \in Extent /\ extent[d] \in Nat
      BY <1>1, <1>2
  <2>2. extent[d] \in extent[d]..extent[d] + MaxExcess
      BY <1>1, <2>1
  <2>3. d \in 1..Len(Gtids)
      BY <1>1, <1>2, <1>3
  <2> QED
      BY <2>1, <2>2, <2>3 DEF Extents, Ids, Names
<1>5. \A d, e \in Dim : Gtids[d] = Gtids[e] => d = e
    BY <1>4, KernelAssumption
<1>6. SpaceIds \subseteq Ids
    BY <1>4 DEF SpaceIds
<1>7. OutRank \in 0..Rank
    BY <1>3 DEF OutRank
<1>8. OutShape \in [1..OutRank -> Nat]
    BY <1>3, <1>4, <1>7 DEF OutShape
<1>9. Len(stms) \in Nat /\ DOMAIN stms = 1..Len(stms)
    BY DEF GoodKernel
<1> QED
    BY <1>3, <1>4, <1>5, <1>6, <1>7, <1>8, <1>9

\* A statement binds a name of its own and uses ids, names from outside, and
\* names bound before it.
LEMMA StatementFacts ==
    ASSUME GoodKernel, NEW k \in DOMAIN stms
    PROVE  /\ stms[k].name \in Bound
           /\ \A l \in DOMAIN stms : stms[l].name = stms[k].name => l = k
           /\ \/ stms[k].kind = "apply" /\ stms[k].args \in [1..2 -> Names]
              \/ /\ stms[k].kind = "index" /\ stms[k].array \in Array
                 /\ stms[k].args \in [1..ArrayRank[stms[k].array] -> Ids \cup Outer]
           /\ \A x \in Args(stms[k]) :
                 x \in SpaceIds \/ x \in Outer \/ \E l \in 1..k - 1 : x = stms[l].name
<1> DEFINE s == stms[k]
<1>1. /\ stms \in Seq(Statement) /\ Len(stms) <= Len(Binders)
      /\ Len(Binders) \in Nat /\ Len(stms) \in Nat /\ DOMAIN stms = 1..Len(stms)
    BY KernelAssumption DEF GoodKernel
<1>2. s \in Statement
    BY <1>1
<1>3. /\ s.name \in Bound
      /\ \/ s.kind = "apply" /\ s.args \in [1..2 -> Names]
         \/ /\ s.kind = "index" /\ s.array \in Array
            /\ s.args \in [1..ArrayRank[s.array] -> Ids \cup Outer]
  <2>1. CASE s \in [name : Bound, kind : {"apply"}, array : {NoVal}, args : [1..2 -> Names]]
      BY <2>1
  <2>2. ASSUME NEW a \in Array,
               s \in [name : Bound, kind : {"index"}, array : {a},
                      args : [1..ArrayRank[a] -> Ids \cup Outer]]
        PROVE  /\ s.name \in Bound /\ s.kind = "index" /\ s.array \in Array
               /\ s.args \in [1..ArrayRank[s.array] -> Ids \cup Outer]
      BY <2>2
  <2> QED
      BY <1>2, <2>1, <2>2 DEF Statement
<1>4. \A l \in DOMAIN stms : stms[l].name = Binders[l] /\ l \in 1..Len(Binders)
    BY <1>1 DEF GoodKernel, WellFormed
<1>5. \A l \in DOMAIN stms : stms[l].name = s.name => l = k
    BY <1>4, KernelAssumption
<1>6. /\ Args(s) \cap Ids \subseteq SpaceIds
      /\ Args(s) \cap Bound \subseteq {Binders[l] : l \in 1..k - 1}
    BY SpaceFacts DEF GoodKernel, WellFormed, SpaceIds
<1>7. Args(s) \subseteq Names
  <2>1. \A j \in DOMAIN s.args : s.args[j] \in Names
    <3>1. CASE s.kind = "apply"
        BY <1>3, <3>1
    <3>2. CASE s.kind = "index"
        BY <1>3, <3>2 DEF Names
    <3> QED
        BY <1>3, <3>1, <3>2
  <2> QED
      BY <2>1 DEF Args
<1>8. ASSUME NEW x \in Args(s), x \in Bound
      PROVE  \E l \in 1..k - 1 : x = stms[l].name
  <2>1. PICK l \in 1..k - 1 : x = Binders[l]
      BY <1>6, <1>8
  <2>2. l \in DOMAIN stms
      BY <1>1
  <2> QED
      BY <1>4, <2>1, <2>2
<1>9. \A x \in Args(s) :
          x \in SpaceIds \/ x \in Outer \/ \E l \in 1..k - 1 : x = stms[l].name
    BY <1>6, <1>7, <1>8 DEF Names
<1> QED
    BY <1>3, <1>5, <1>9

\* An affine read uses the dimensions of the ids it reads at; each of them is as
\* long as the space there, or longer by the excess.
LEMMA AffineFacts ==
    ASSUME GoodKernel, NEW k \in DOMAIN stms, IsAffine(stms[k])
    PROVE  LET s == stms[k] IN
           /\ s.kind = "index" /\ s.array \in Array
           /\ UsedDims(s) \in [1..ArrayRank[s.array] -> Dim]
           /\ DOMAIN s.args = 1..ArrayRank[s.array]
           /\ \A j \in 1..ArrayRank[s.array] :
                 /\ s.args[j] = Gtids[UsedDims(s)[j]]
                 /\ shape[s.array][j] \in Extents
                 /\ shape[s.array][j] \in
                       extent[UsedDims(s)[j]]..extent[UsedDims(s)[j]] + MaxExcess
           /\ ReadOf(s) \in Read
<1> DEFINE s == stms[k]
<1>1. /\ s.kind = "index" /\ s.array \in Array /\ s.name \in Bound
      /\ s.args \in [1..ArrayRank[s.array] -> Ids \cup Outer]
      /\ Args(s) \subseteq SpaceIds
    BY StatementFacts DEF IsAffine
<1>2. DOMAIN s.args = 1..ArrayRank[s.array]
    BY <1>1
<1>3. ASSUME NEW j \in 1..ArrayRank[s.array]
      PROVE  /\ UsedDims(s)[j] \in Dim
             /\ s.args[j] = Gtids[UsedDims(s)[j]]
  <2>1. s.args[j] \in SpaceIds
      BY <1>1, <1>2 DEF Args
  <2>2. \E d \in Dim : Gtids[d] = s.args[j]
      BY <2>1 DEF SpaceIds
  <2>3. UsedDims(s)[j] = CHOOSE d \in Dim : Gtids[d] = s.args[j]
      BY <1>2 DEF UsedDims
  <2> QED
      BY <2>2, <2>3
<1>4. UsedDims(s) \in [1..ArrayRank[s.array] -> Dim]
    BY <1>2, <1>3 DEF UsedDims
<1>5. ASSUME NEW j \in 1..ArrayRank[s.array]
      PROVE  /\ shape[s.array][j] \in Extents
             /\ shape[s.array][j] \in
                   extent[UsedDims(s)[j]]..extent[UsedDims(s)[j]] + MaxExcess
  <2>1. shape[s.array][j] \in Extents
      BY <1>1 DEF GoodKernel
  <2>2. \A d \in DOMAIN extent : s.args[j] = Gtids[d] =>
            shape[s.array][j] \in extent[d]..extent[d] + MaxExcess
      BY <1>1, <1>2 DEF GoodKernel, WellFormed
  <2> QED
      BY <1>3, <2>1, <2>2, SpaceFacts
<1>6. ReadOf(s) \in Read
  <2>1. UsedDims(s) \in UNION {[1..ArrayRank[a] -> Dim] : a \in Array}
      BY <1>1, <1>4
  <2> HIDE DEF s
  <2> QED
      BY <1>1, <2>1 DEF ReadOf, Read
<1> HIDE DEF s
<1>7. QED
    BY <1>1, <1>2, <1>3, <1>4, <1>5, <1>6 DEF s

-----------------------------------------------------------------------------
(* Operands and loops.                                                       *)

LEMMA OperandFacts ==
    ASSUME GoodKernel, Found
    PROVE  /\ Len(reads) \in Nat /\ DOMAIN reads = 1..Len(reads)
           /\ DOMAIN Operands = 1..Len(reads) + 1
           /\ \A k \in 1..Len(reads) : /\ Operands[k].shape = shape[reads[k].array]
                                     /\ Operands[k].dims = reads[k].dims
           /\ Operands[Len(reads) + 1].shape = OutShape
           /\ Operands[Len(reads) + 1].dims = [d \in 1..OutRank |-> d]
<1> DEFINE ins == [k \in 1..Len(reads) |-> [shape |-> shape[reads[k].array], dims |-> reads[k].dims]]
           res == [shape |-> OutShape, dims |-> [d \in 1..OutRank |-> d]]
           V == {ins[k] : k \in 1..Len(reads)} \cup {res}
<1>1. Len(reads) \in Nat /\ DOMAIN reads = 1..Len(reads)
    BY DEF Found
<1>2. ins \in Seq(V) /\ Len(ins) = Len(reads)
  <2>1. ins \in [1..Len(reads) -> V]
      OBVIOUS
  <2> HIDE DEF V
  <2> QED
      BY <1>1, <2>1
<1>3. <<res>> \in Seq(V) /\ Len(<<res>>) = 1 /\ <<res>>[1] = res
  <2>1. res \in V
      OBVIOUS
  <2> HIDE DEF V, res
  <2> QED
      BY <2>1
<1>4. Operands = ins \o <<res>>
    BY DEF Operands
<1>5. /\ \A k \in 1..Len(reads) : /\ ins[k].shape = shape[reads[k].array]
                                  /\ ins[k].dims = reads[k].dims
      /\ res.shape = OutShape /\ res.dims = [d \in 1..OutRank |-> d]
    OBVIOUS
<1> HIDE DEF ins, res, V
<1>6. /\ DOMAIN Operands = 1..Len(reads) + 1
      /\ \A k \in 1..Len(reads) : Operands[k] = ins[k]
      /\ Operands[Len(reads) + 1] = res
    BY <1>1, <1>2, <1>3, <1>4
<1> QED
    BY <1>1, <1>5, <1>6

LEMMA OperandDims ==
    ASSUME GoodKernel, Found, NEW k \in DOMAIN Operands
    PROVE  \E m \in Nat :
              /\ Operands[k].dims \in [1..m -> Dim]
              /\ \A j \in 1..m :
                    /\ Operands[k].shape[j] \in Extents
                    /\ Operands[k].shape[j] \in
                          extent[Operands[k].dims[j]]..extent[Operands[k].dims[j]] + MaxExcess
<1>1. k \in 1..Len(reads) \/ k = Len(reads) + 1
    BY OperandFacts
<1>2. CASE k \in 1..Len(reads)
  <2>1. PICK l \in 1..next - 1 : IsAffine(stms[l]) /\ reads[k] = ReadOf(stms[l])
      BY <1>2, OperandFacts DEF Found
  <2>2. l \in DOMAIN stms
      BY <2>1, SpaceFacts DEF Found
  <2> DEFINE s == stms[l]
  <2>3. Operands[k].dims = UsedDims(s) /\ Operands[k].shape = shape[s.array]
      BY <1>2, <2>1, OperandFacts DEF ReadOf
  <2>4. /\ s.array \in Array
        /\ UsedDims(s) \in [1..ArrayRank[s.array] -> Dim]
        /\ \A j \in 1..ArrayRank[s.array] :
              /\ shape[s.array][j] \in Extents
              /\ shape[s.array][j] \in
                    extent[UsedDims(s)[j]]..extent[UsedDims(s)[j]] + MaxExcess
      BY <2>1, <2>2, AffineFacts
  <2>5. ArrayRank[s.array] \in Nat
      BY <2>4, KernelAssumption
  <2> HIDE DEF s
  <2> QED
      BY <2>3, <2>4, <2>5
<1>3. CASE k = Len(reads) + 1
  <2>1. Operands[k].dims = [d \in 1..OutRank |-> d] /\ Operands[k].shape = OutShape
      BY <1>3, OperandFacts
  <2>2. OutRank \in Nat /\ 1..OutRank \subseteq Dim
      BY SpaceFacts
  <2>3. Operands[k].dims \in [1..OutRank -> Dim]
      BY <2>1, <2>2
  <2>4. ASSUME NEW j \in 1..OutRank
        PROVE  /\ Operands[k].shape[j] \in Extents
               /\ Operands[k].shape[j] \in
                     extent[Operands[k].dims[j]]..extent[Operands[k].dims[j]] + MaxExcess
    <3>1. Operands[k].dims[j] = j /\ Operands[k].shape[j] = extent[j]
        BY <2>1 DEF OutShape
    <3>2. extent[j] \in Nat /\ extent[j] \in Extents /\ MaxExcess \in Nat
        BY <2>2, SpaceFacts, KernelAssumption
    <3> QED
        BY <3>1, <3>2
  <2> QED
      BY <2>2, <2>3, <2>4
<1> QED
    BY <1>1, <1>2, <1>3

\* A loop gets its extent from some operand it indexes.
LEMMA LoopFacts ==
    ASSUME GoodKernel, Found, NEW d \in Dim, Indexed(d) # {}
    PROVE  LoopExtent(d) \in Extents /\ LoopExtent(d) \in extent[d]..extent[d] + MaxExcess
<1>1. ASSUME NEW p \in Indexed(d)
      PROVE  /\ p \in Nat \X Nat
             /\ Operands[p[1]].shape[p[2]] \in Extents
             /\ Operands[p[1]].shape[p[2]] \in extent[d]..extent[d] + MaxExcess
  <2>1. PICK k \in DOMAIN Operands :
            p \in {<<k, j>> : j \in {l \in DOMAIN Operands[k].dims : Operands[k].dims[l] = d}}
      BY DEF Indexed
  <2>2. PICK j \in DOMAIN Operands[k].dims : p = <<k, j>> /\ Operands[k].dims[j] = d
      BY <2>1
  <2>3. PICK m \in Nat :
            /\ Operands[k].dims \in [1..m -> Dim]
            /\ \A i \in 1..m :
                  /\ Operands[k].shape[i] \in Extents
                  /\ Operands[k].shape[i] \in
                        extent[Operands[k].dims[i]]..extent[Operands[k].dims[i]] + MaxExcess
      BY OperandDims
  <2>4. k \in Nat /\ j \in 1..m
      BY <2>2, <2>3, OperandFacts
  <2> QED
      BY <2>2, <2>3, <2>4
<1> DEFINE first == CHOOSE p \in Indexed(d) : \A q \in Indexed(d) :
                        p[1] < q[1] \/ (p[1] = q[1] /\ p[2] <= q[2])
<1>2. first \in Indexed(d)
  <2>1. Indexed(d) \subseteq Nat \X Nat
      BY <1>1
  <2>2. \E p \in Indexed(d) : \A q \in Indexed(d) :
            p[1] < q[1] \/ (p[1] = q[1] /\ p[2] <= q[2])
      BY <2>1, FirstPair
  <2> QED
      BY <2>2
<1>3. LoopExtent(d) = Operands[first[1]].shape[first[2]]
    BY DEF LoopExtent
<1> HIDE DEF first
<1> QED
    BY <1>1, <1>2, <1>3

\* No operand is read outside its bounds at a point of the space.
LEMMA SpaceInBounds ==
    ASSUME GoodKernel, Found, NEW t \in Points(extent)
    PROVE  InBounds(t)
<1>1. \A d \in Dim : t[d] \in Nat /\ t[d] < extent[d]
  <2>1. Rank \in Nat /\ Dim = 1..Rank /\ extent \in [1..Rank -> Nat]
      BY SpaceFacts DEF GoodKernel
  <2>2. t \in [1..Rank -> Nat] /\ \A d \in 1..Rank : t[d] < extent[d]
      BY <2>1, PointsOf
  <2> QED
      BY <2>1, <2>2
<1>2. ASSUME NEW k \in DOMAIN Operands, NEW j \in DOMAIN Operands[k].dims
      PROVE  t[Operands[k].dims[j]] < Operands[k].shape[j]
  <2>1. PICK m \in Nat :
            /\ Operands[k].dims \in [1..m -> Dim]
            /\ \A i \in 1..m :
                  /\ Operands[k].shape[i] \in Extents
                  /\ Operands[k].shape[i] \in
                        extent[Operands[k].dims[i]]..extent[Operands[k].dims[i]] + MaxExcess
      BY OperandDims
  <2> DEFINE d == Operands[k].dims[j]
             x == Operands[k].shape[j]
  <2>2. d \in Dim /\ x \in extent[d]..extent[d] + MaxExcess
      BY <2>1
  <2> HIDE DEF d, x
  <2>3. t[d] < x
      BY <1>1, <2>2, SpaceFacts
  <2> QED
      BY <2>3 DEF d, x
<1> QED
    BY <1>2 DEF InBounds

-----------------------------------------------------------------------------
(* Points, cells and rows.                                                   *)

LEMMA LoopPoints ==
    ASSUME GoodKernel, NEW ls, CoversSpace(ls)
    PROVE  /\ \A d \in Dim : ls[d] \in Nat /\ ls[d] >= extent[d]
           /\ \A t : t \in Points(ls) <=> t \in [Dim -> Nat] /\ \A d \in Dim : t[d] < ls[d]
           /\ \A t : t \in Points(extent) <=> t \in [Dim -> Nat] /\ \A d \in Dim : t[d] < extent[d]
           /\ Points(extent) \subseteq Points(ls)
           /\ \A t \in Points(ls) : \A d \in Dim : t[d] \in Index
<1>1. /\ Rank \in Nat /\ Dim = 1..Rank /\ DOMAIN extent = Dim
      /\ \A d \in Dim : extent[d] \in Nat
    BY SpaceFacts
<1>2. \A d \in Dim : ls[d] \in Nat /\ ls[d] >= extent[d] /\ ls[d] \in Extents
    BY <1>1, KernelAssumption DEF CoversSpace
<1>3. ls \in [1..Rank -> Nat] /\ extent \in [1..Rank -> Nat]
    BY <1>1, <1>2 DEF CoversSpace, GoodKernel
<1>4. \A t : t \in Points(ls) <=> t \in [Dim -> Nat] /\ \A d \in Dim : t[d] < ls[d]
    BY <1>1, <1>3, PointsOf
<1>5. \A t : t \in Points(extent) <=> t \in [Dim -> Nat] /\ \A d \in Dim : t[d] < extent[d]
    BY <1>1, <1>3, PointsOf
<1>6. ASSUME NEW t \in Points(extent)
      PROVE  t \in Points(ls)
  <2>1. t \in [Dim -> Nat] /\ \A d \in Dim : t[d] < extent[d]
      BY <1>5
  <2>2. \A d \in Dim : t[d] \in Nat /\ t[d] < ls[d]
      BY <1>1, <1>2, <2>1
  <2> QED
      BY <1>4, <2>1, <2>2
<1>7. ASSUME NEW t \in Points(ls), NEW d \in Dim
      PROVE  t[d] \in Index
  <2>1. t[d] \in 0..ls[d] - 1 /\ ls[d] \in Extents
      BY <1>2, <1>4
  <2> QED
      BY <2>1 DEF Index
<1> QED
    BY <1>2, <1>4, <1>5, <1>6, <1>7

LEMMA CellPoints ==
    ASSUME GoodKernel
    PROVE  /\ \A c : c \in Points(OutShape) <=>
                 c \in [1..OutRank -> Nat] /\ \A d \in 1..OutRank : c[d] < extent[d]
           /\ OutRank \in Nat /\ 1..OutRank \subseteq Dim
           /\ op = "map" => OutRank = Rank /\ OutShape = extent
           /\ op = "red" => OutRank = Rank - 1 /\ Rank \notin 1..OutRank /\ Rank \in Dim
<1>1. /\ Rank \in Nat /\ Rank >= 1 /\ Dim = 1..Rank /\ OutRank \in 0..Rank
      /\ OutShape \in [1..OutRank -> Nat]
    BY SpaceFacts
<1>2. OutRank \in Nat /\ 1..OutRank \subseteq Dim
    BY <1>1
<1>3. \A d \in 1..OutRank : OutShape[d] = extent[d]
    BY DEF OutShape
<1>4. \A c : c \in Points(OutShape) <=>
          c \in [1..OutRank -> Nat] /\ \A d \in 1..OutRank : c[d] < extent[d]
    BY <1>1, <1>2, <1>3, PointsOf
<1>5. ASSUME op = "map" PROVE OutRank = Rank /\ OutShape = extent
  <2>1. OutRank = Rank
      BY <1>5 DEF OutRank
  <2> QED
      BY <1>1, <2>1 DEF OutShape, GoodKernel
<1>6. ASSUME op = "red" PROVE OutRank = Rank - 1 /\ Rank \notin 1..OutRank /\ Rank \in Dim
    BY <1>1, <1>6 DEF OutRank
<1> QED
    BY <1>2, <1>4, <1>5, <1>6

\* The points of a row are its cell's, one for each step along the last loop.
LEMMA RowOf ==
    ASSUME GoodKernel, op = "red", NEW ls, CoversSpace(ls),
           NEW c \in Points(OutShape), NEW i \in 0..ls[Rank] - 1
    PROVE  Row(c, i) \in Points(ls) /\ Cell(Row(c, i)) = c /\ Row(c, i)[Rank] = i
<1>1. /\ Dim = 1..Rank /\ Rank \in Dim /\ OutRank = Rank - 1 /\ 1..OutRank \subseteq Dim
      /\ c \in [1..OutRank -> Nat] /\ \A d \in 1..OutRank : c[d] < extent[d]
      /\ Rank \notin 1..OutRank /\ Rank \in Nat
    BY SpaceFacts, CellPoints
<1>2. \A d \in Dim : Row(c, i)[d] = IF d = Rank THEN i ELSE c[d]
    BY DEF Row
<1>3. \A d \in Dim : d # Rank => d \in 1..OutRank
    BY <1>1
<1>4. \A d \in Dim : ls[d] \in Nat /\ ls[d] >= extent[d] /\ extent[d] \in Nat
    BY LoopPoints, SpaceFacts
<1>5. ASSUME NEW d \in Dim
      PROVE  Row(c, i)[d] \in Nat /\ Row(c, i)[d] < ls[d]
  <2>1. CASE d = Rank
      BY <1>2, <1>4, <2>1
  <2>2. CASE d # Rank
    <3>1. Row(c, i)[d] = c[d] /\ c[d] \in Nat /\ c[d] < extent[d]
        BY <1>1, <1>2, <1>3, <2>2
    <3> QED
        BY <1>4, <3>1
  <2> QED
      BY <2>1, <2>2
<1>6. Row(c, i) \in [Dim -> Nat]
    BY <1>5 DEF Row
<1>7. Row(c, i) \in Points(ls)
    BY <1>5, <1>6, LoopPoints
<1>8. \A d \in 1..OutRank : Row(c, i)[d] = c[d]
    BY <1>1, <1>2
<1>9. Cell(Row(c, i)) = c
    BY <1>1, <1>8 DEF Cell
<1> QED
    BY <1>1, <1>2, <1>7, <1>9

\* A point in bounds has its place in the output.
LEMMA CellOf ==
    ASSUME GoodKernel, Found, NEW ls, CoversSpace(ls), NEW t \in Points(ls), InBounds(t)
    PROVE  /\ Cell(t) \in Points(OutShape)
           /\ op = "map" => Cell(t) = t
           /\ op = "red" => t = Row(Cell(t), t[Rank]) /\ t[Rank] \in 0..ls[Rank] - 1
<1>1. t \in [Dim -> Nat] /\ \A d \in Dim : t[d] < ls[d] /\ ls[d] \in Nat
    BY LoopPoints
<1>2. /\ Dim = 1..Rank /\ OutRank \in Nat /\ 1..OutRank \subseteq Dim
      /\ op = "map" => OutRank = Rank
      /\ op = "red" => OutRank = Rank - 1 /\ Rank \in Dim
      /\ Rank \in Nat
    BY SpaceFacts, CellPoints
<1>3. \A d \in 1..OutRank : t[d] < extent[d]
  <2> DEFINE k == Len(reads) + 1
  <2>1. /\ k \in DOMAIN Operands /\ Operands[k].shape = OutShape
        /\ Operands[k].dims = [d \in 1..OutRank |-> d]
      BY OperandFacts
  <2> HIDE DEF k
  <2>2. ASSUME NEW d \in 1..OutRank
        PROVE  t[d] < extent[d]
    <3>1. d \in DOMAIN Operands[k].dims /\ Operands[k].dims[d] = d
        BY <2>1
    <3>2. t[d] < Operands[k].shape[d]
        BY <2>1, <3>1 DEF InBounds
    <3> QED
        BY <2>1, <3>2 DEF OutShape
  <2> QED
      BY <2>2
<1>4. Cell(t) \in [1..OutRank -> Nat] /\ \A d \in 1..OutRank : Cell(t)[d] = t[d]
    BY <1>1, <1>2 DEF Cell
<1>5. Cell(t) \in Points(OutShape)
    BY <1>3, <1>4, CellPoints
<1>6. op = "map" => Cell(t) = t
    BY <1>1, <1>2 DEF Cell
<1>7. ASSUME op = "red"
      PROVE  t = Row(Cell(t), t[Rank]) /\ t[Rank] \in 0..ls[Rank] - 1
  <2>1. \A d \in Dim : Row(Cell(t), t[Rank])[d] = t[d]
    <3>1. \A d \in Dim : d # Rank => d \in 1..OutRank
        BY <1>2, <1>7
    <3> QED
        BY <1>4, <3>1 DEF Row
  <2>2. Row(Cell(t), t[Rank]) = [d \in Dim |-> t[d]]
      BY <2>1 DEF Row
  <2>3. t = [d \in Dim |-> t[d]]
      BY <1>1
  <2> QED
      BY <1>1, <1>2, <1>7, <2>2, <2>3
<1> QED
    BY <1>5, <1>6, <1>7

-----------------------------------------------------------------------------
(* What statements compute.                                                  *)

LEMMA MeaningSame ==
    ASSUME GoodKernel, NEW k \in DOMAIN stms, NEW e, NEW f,
           \A x \in Args(stms[k]) : e[x] = f[x]
    PROVE  Meaning(stms[k], e) = Meaning(stms[k], f)
<1> DEFINE s == stms[k]
<1>1. \A j \in DOMAIN s.args : e[s.args[j]] = f[s.args[j]]
    BY DEF Args
<1>2. CASE s.kind = "index"
  <2>1. [j \in DOMAIN s.args |-> e[s.args[j]]] = [j \in DOMAIN s.args |-> f[s.args[j]]]
      BY <1>1
  <2> QED
      BY <1>2, <2>1 DEF Meaning
<1>3. CASE s.kind # "index"
  <2>1. s.args \in [1..2 -> Names]
      BY <1>3, StatementFacts
  <2>2. e[s.args[1]] = f[s.args[1]] /\ e[s.args[2]] = f[s.args[2]]
      BY <1>1, <2>1
  <2> QED
      BY <1>3, <2>2 DEF Meaning
<1> QED
    BY <1>2, <1>3

LEMMA MeaningInVal ==
    ASSUME GoodKernel, NEW k \in DOMAIN stms, NEW e,
           \A x \in Args(stms[k]) : e[x] \in Val,
           \A x \in Args(stms[k]) : x \in SpaceIds => e[x] \in Index,
           \A x \in Outer : e[x] = Scalar[x]
    PROVE  Meaning(stms[k], e) \in Val
<1> DEFINE s == stms[k]
<1>1. CASE s.kind = "index"
  <2>1. /\ s.array \in Array
        /\ s.args \in [1..ArrayRank[s.array] -> Ids \cup Outer]
      BY <1>1, StatementFacts
  <2>2. ASSUME NEW j \in 1..ArrayRank[s.array]
        PROVE  e[s.args[j]] \in Index
    <3>1. s.args[j] \in Args(s) /\ s.args[j] \in Ids \cup Outer
        BY <2>1 DEF Args
    <3>2. CASE s.args[j] \in Ids
      <4>1. s.args[j] \in SpaceIds
          BY <3>1, <3>2, SpaceFacts DEF GoodKernel, WellFormed, SpaceIds
      <4> QED
          BY <3>1, <4>1
    <3>3. CASE s.args[j] \in Outer
      <4> DEFINE x == Scalar[s.args[j]]
                 m == shape[s.array][j]
      <4>1. m > x
          BY <1>1, <2>1, <3>3 DEF GoodKernel, WellFormed
      <4>2. m \in Extents
          BY <2>1 DEF GoodKernel
      <4>3. m \in Int
          BY <4>2, KernelAssumption DEF Extents
      <4>4. x \in Nat
          BY <3>3, KernelAssumption
      <4> HIDE DEF m, x
      <4>5. x \in 0..m - 1
          BY <4>1, <4>3, <4>4
      <4>6. x \in Index
          BY <4>2, <4>5 DEF Index
      <4> QED
          BY <3>3, <4>6 DEF x
    <3> QED
        BY <3>1, <3>2, <3>3
  <2> DEFINE ix == [j \in DOMAIN s.args |-> e[s.args[j]]]
  <2>3. ix \in [1..ArrayRank[s.array] -> Index]
      BY <2>1, <2>2
  <2>4. Meaning(s, e) = Content[s.array][ix]
      BY <1>1 DEF Meaning
  <2>5. \A a \in Array : \A i \in [1..ArrayRank[a] -> Index] : Content[a][i] \in Val
      BY KernelAssumption
  <2> HIDE DEF ix
  <2> QED
      BY <2>1, <2>3, <2>4, <2>5
<1>2. CASE s.kind # "index"
  <2>1. s.args \in [1..2 -> Names]
      BY <1>2, StatementFacts
  <2>2. e[s.args[1]] \in Val /\ e[s.args[2]] \in Val
      BY <2>1 DEF Args
  <2> QED
      BY <1>2, <2>2, KernelAssumption DEF Meaning
<1> QED
    BY <1>1, <1>2

\* What is hoisted is what is affine.
LEMMA HoistedIsAffine ==
    ASSUME GoodKernel, Found, next = Len(stms) + 1, NEW k \in DOMAIN stms
    PROVE  /\ stms[k].name \in Hoisted <=> IsAffine(stms[k])
           /\ \A r \in DOMAIN reads : reads[r].result = stms[k].name =>
                 reads[r] = ReadOf(stms[k])
<1>1. k \in 1..next - 1 /\ 1..next - 1 = DOMAIN stms
    BY SpaceFacts
<1>2. ASSUME NEW r \in DOMAIN reads, reads[r].result = stms[k].name
      PROVE  IsAffine(stms[k]) /\ reads[r] = ReadOf(stms[k])
  <2>1. PICK l \in DOMAIN stms : IsAffine(stms[l]) /\ reads[r] = ReadOf(stms[l])
      BY <1>1 DEF Found
  <2>2. stms[l].name = stms[k].name
      BY <1>2, <2>1 DEF ReadOf
  <2>3. l = k
      BY <2>2, StatementFacts
  <2> QED
      BY <2>1, <2>3
<1>3. ASSUME IsAffine(stms[k])
      PROVE  stms[k].name \in Hoisted
  <2>1. PICK r \in DOMAIN reads : reads[r] = ReadOf(stms[k])
      BY <1>1, <1>3 DEF Found
  <2> QED
      BY <2>1 DEF Hoisted, ReadOf
<1> QED
    BY <1>2, <1>3 DEF Hoisted

\* The region begins with the ids of its point, what is around it, and the
\* elements that the hoisted statements read there.
LEMMA EntryFacts ==
    ASSUME GoodKernel, Found, next = Len(stms) + 1, NEW ls, CoversSpace(ls), NEW t \in Points(ls)
    PROVE  /\ Entry(t) \in [Names -> Scalars]
           /\ \A d \in Dim : Entry(t)[Gtids[d]] = t[d]
           /\ \A c \in Outer : Entry(t)[c] = Scalar[c]
           /\ \A k \in DOMAIN stms : IsAffine(stms[k]) =>
                 /\ Entry(t)[stms[k].name] = Meaning(stms[k], Entry(t))
                 /\ Entry(t)[stms[k].name] \in Val
<1> DEFINE e == Entry(t)
<1>1. \A x \in Names :
         e[x] = IF x \in Hoisted THEN Argument(CHOOSE r \in DOMAIN reads : reads[r].result = x, t)
                ELSE IF x \in SpaceIds THEN t[CHOOSE d \in Dim : Gtids[d] = x]
                ELSE IF x \in Outer THEN Scalar[x] ELSE NoVal
    BY DEF Entry
<1>2. \A x \in Hoisted : \E k \in DOMAIN stms : x = stms[k].name /\ IsAffine(stms[k])
  <2>1. 1..next - 1 = DOMAIN stms
      BY SpaceFacts
  <2> QED
      BY <2>1 DEF Hoisted, Found, ReadOf
<1>3. Hoisted \subseteq Bound
    BY <1>2, StatementFacts
<1>4. \A d \in Dim : t[d] \in Index /\ Index \subseteq Val
    BY LoopPoints, KernelAssumption
<1>5. ASSUME NEW d \in Dim
      PROVE  e[Gtids[d]] = t[d]
  <2>1. Gtids[d] \in Names /\ Gtids[d] \notin Hoisted /\ Gtids[d] \in SpaceIds
      BY <1>3, SpaceFacts, KernelAssumption DEF SpaceIds
  <2>2. (CHOOSE f \in Dim : Gtids[f] = Gtids[d]) = d
      BY SpaceFacts
  <2> QED
      BY <1>1, <2>1, <2>2
<1>6. ASSUME NEW c \in Outer
      PROVE  e[c] = Scalar[c] /\ e[c] \in Val
  <2>1. c \in Names /\ c \notin Hoisted /\ c \notin SpaceIds
      BY <1>3, SpaceFacts, KernelAssumption DEF Names
  <2> QED
      BY <1>1, <2>1, KernelAssumption
<1>7. ASSUME NEW k \in DOMAIN stms, IsAffine(stms[k])
      PROVE  e[stms[k].name] = Meaning(stms[k], e) /\ e[stms[k].name] \in Val
  <2> DEFINE s == stms[k]
             r == CHOOSE q \in DOMAIN reads : reads[q].result = s.name
  <2>1. s.name \in Hoisted /\ s.name \in Names
      BY <1>7, HoistedIsAffine, StatementFacts DEF Names
  <2>2. r \in DOMAIN reads /\ reads[r].result = s.name
      BY <2>1 DEF Hoisted
  <2>3. reads[r] = ReadOf(s)
      BY <2>2, HoistedIsAffine
  <2>4. e[s.name] = Argument(r, t)
      BY <1>1, <2>1
  <2> HIDE DEF r, s
  <2>5. Argument(r, t) = Content[s.array][[j \in DOMAIN UsedDims(s) |-> t[UsedDims(s)[j]]]]
      BY <2>3 DEF Argument, ReadOf
  <2>6. /\ s.kind = "index" /\ s.array \in Array
        /\ DOMAIN UsedDims(s) = 1..ArrayRank[s.array]
        /\ DOMAIN s.args = 1..ArrayRank[s.array]
        /\ \A j \in 1..ArrayRank[s.array] : UsedDims(s)[j] \in Dim /\ s.args[j] = Gtids[UsedDims(s)[j]]
      BY <1>7, AffineFacts DEF s
  <2>7. [j \in DOMAIN UsedDims(s) |-> t[UsedDims(s)[j]]] = [j \in DOMAIN s.args |-> e[s.args[j]]]
      BY <1>5, <2>6
  <2>8. e[s.name] = Meaning(s, e)
      BY <2>4, <2>5, <2>6, <2>7 DEF Meaning
  <2>9. Meaning(s, e) \in Val
    <3>1. \A x \in Args(s) : x \in SpaceIds
        BY <1>7 DEF IsAffine, s
    <3>2. \A x \in Args(s) : e[x] \in Index /\ e[x] \in Val
        BY <1>4, <1>5, <3>1 DEF SpaceIds
    <3> QED
        BY <1>6, <3>2, MeaningInVal DEF s
  <2> QED
      BY <2>8, <2>9 DEF s
<1>8. ASSUME NEW x \in Names
      PROVE  e[x] \in Scalars
  <2>1. CASE x \in Hoisted
      BY <1>2, <1>7, <2>1 DEF Scalars
  <2>2. CASE x \notin Hoisted /\ x \in SpaceIds
      BY <1>4, <1>5, <2>2 DEF SpaceIds, Scalars
  <2>3. CASE x \notin Hoisted /\ x \notin SpaceIds
      BY <1>1, <1>6, <2>3 DEF Scalars
  <2> QED
      BY <2>1, <2>2, <2>3
<1>9. e \in [Names -> Scalars]
    BY <1>8 DEF Entry
<1> QED
    BY <1>5, <1>6, <1>7, <1>9

-----------------------------------------------------------------------------
(* Init and the steps of the lowering.                                       *)

LEMMA InitInv == Init => IInv
<1> SUFFICES ASSUME Init PROVE IInv
    OBVIOUS
<1>1. Len(Gtids) \in Nat /\ Len(Binders) \in Nat
    BY KernelAssumption
<1>2. PICK r \in 1..Len(Gtids) : extent \in [1..r -> Extent]
    BY DEF Init
<1>3. Rank = r /\ Dim = 1..r
    BY <1>1, <1>2 DEF Rank, Dim
<1>4. PICK m \in 1..Len(Binders) : stms \in [1..m -> Statement]
    BY DEF Init
<1>5. stms \in Seq(Statement) /\ Len(stms) = m /\ DOMAIN stms = 1..m
    BY <1>1, <1>4
<1>6. ASSUME NEW a \in Array
      PROVE  shape[a] \in [1..ArrayRank[a] -> Extents]
  <2> DEFINE F == UNION {[1..ArrayRank[b] -> Extents] : b \in Array}
  <2>1. shape \in {sh \in [Array -> F] : \A b \in Array : DOMAIN sh[b] = 1..ArrayRank[b]}
      BY DEF Init
  <2>2. shape[a] \in F /\ DOMAIN shape[a] = 1..ArrayRank[a]
    <3> HIDE DEF F
    <3> QED
        BY <2>1
  <2>3. PICK b \in Array : shape[a] \in [1..ArrayRank[b] -> Extents]
      BY <2>2
  <2> QED
      BY <2>2, <2>3
<1>7. GoodKernel
  <2>1. \E k \in DOMAIN stms : yield = stms[k].name
      BY DEF Init
  <2>2. op \in {"map", "red"} /\ WellFormed(stms, extent, shape)
      BY DEF Init
  <2>3. Rank \in 1..Len(Gtids) /\ extent \in [Dim -> Extent] /\ Len(stms) <= Len(Binders)
      BY <1>1, <1>2, <1>3, <1>5
  <2> QED
      BY <1>5, <1>6, <2>1, <2>2, <2>3 DEF GoodKernel
<1>8. /\ next = 1 /\ reads = <<>> /\ status = "find"
    BY DEF Init
<1>9. Found
  <2>1. reads \in Seq(Read) /\ DOMAIN reads = {} /\ next \in 1..Len(stms) + 1 /\ 1..next - 1 = {}
      BY <1>5, <1>8
  <2> QED
      BY <2>1 DEF Found
<1> QED
    BY <1>7, <1>8, <1>9 DEF IInv

LEMMA SameKernel ==
    ASSUME UNCHANGED program
    PROVE  /\ GoodKernel => GoodKernel'
           /\ Rank' = Rank /\ Dim' = Dim /\ OutRank' = OutRank /\ OutShape' = OutShape
           /\ End' = End /\ SpaceIds' = SpaceIds /\ Read' = Read
           /\ \A s : IsAffine(s)' <=> IsAffine(s)
           /\ \A s : ReadOf(s)' = ReadOf(s)
           /\ \A ls : CoversSpace(ls)' <=> CoversSpace(ls)
           /\ \A t : Cell(t)' = Cell(t)
           /\ \A c, i : Row(c, i)' = Row(c, i)
<1>1. /\ op' = op /\ extent' = extent /\ static' = static /\ stms' = stms
      /\ yield' = yield /\ shape' = shape
    BY DEF program
<1>2. Rank' = Rank /\ Dim' = Dim /\ End' = End
    BY <1>1 DEF Rank, Dim, End
<1>3. OutRank' = OutRank
    BY <1>1, <1>2 DEF OutRank
<1>4. OutShape' = OutShape /\ SpaceIds' = SpaceIds /\ Read' = Read
    BY <1>1, <1>2, <1>3 DEF OutShape, SpaceIds, Read
<1>5. \A s : IsAffine(s)' <=> IsAffine(s)
    BY <1>4 DEF IsAffine
<1>6. \A s : ReadOf(s)' = ReadOf(s)
    BY <1>2 DEF ReadOf, UsedDims
<1>7. \A ls : CoversSpace(ls)' <=> CoversSpace(ls)
    BY <1>1, <1>2 DEF CoversSpace
<1>8. \A t : Cell(t)' = Cell(t)
    BY <1>3 DEF Cell
<1>9. \A c, i : Row(c, i)' = Row(c, i)
    BY <1>2 DEF Row
<1>10. GoodKernel => GoodKernel'
    BY <1>1, <1>2 DEF GoodKernel
<1> QED
    BY <1>2, <1>3, <1>4, <1>5, <1>6, <1>7, <1>8, <1>9, <1>10

LEMMA SameReads ==
    ASSUME UNCHANGED <<program, next, reads>>
    PROVE  /\ Found => Found'
           /\ Operands' = Operands
           /\ \A t : InBounds(t)' <=> InBounds(t)
<1>1. stms' = stms /\ shape' = shape
    BY DEF program
<1>2. Operands' = Operands
    BY <1>1, SameKernel DEF Operands
<1>3. \A t : InBounds(t)' <=> InBounds(t)
    BY <1>2 DEF InBounds
<1>4. Found => Found'
    BY <1>1, SameKernel DEF Found
<1> QED
    BY <1>2, <1>3, <1>4

LEMMA FindInv ==
    ASSUME IInv, Find
    PROVE  IInv'
<1> DEFINE s == stms[next]
<1>1. /\ status = "find" /\ status' = "find" /\ next <= Len(stms) /\ next' = next + 1
      /\ reads' = IF IsAffine(s) THEN Append(reads, ReadOf(s)) ELSE reads
      /\ UNCHANGED program
      /\ GoodKernel /\ Found
    BY DEF IInv, Find, ReadOf
<1>2. Len(stms) \in Nat /\ next \in 1..Len(stms) /\ next \in DOMAIN stms /\ stms' = stms
    BY <1>1, SpaceFacts DEF Found, program
<1>3. GoodKernel'
    BY <1>1, SameKernel
<1>4. reads \in Seq(Read) /\ (IsAffine(s) => ReadOf(s) \in Read)
    BY <1>1, <1>2, AffineFacts DEF Found
<1>5. reads' \in Seq(Read)
    BY <1>1, <1>4
<1>6. ASSUME NEW r \in DOMAIN reads'
      PROVE  \E k \in 1..next : IsAffine(stms[k]) /\ reads'[r] = ReadOf(stms[k])
  <2>1. CASE IsAffine(s) /\ r = Len(reads) + 1
    <3>1. reads'[r] = ReadOf(s)
        BY <1>1, <1>4, <2>1
    <3> QED
        BY <1>2, <2>1, <3>1
  <2>2. CASE ~IsAffine(s) \/ r # Len(reads) + 1
    <3>1. r \in DOMAIN reads /\ reads'[r] = reads[r]
        BY <1>1, <1>4, <2>2
    <3>2. PICK k \in 1..next - 1 : IsAffine(stms[k]) /\ reads[r] = ReadOf(stms[k])
        BY <1>1, <3>1 DEF Found
    <3>3. k \in 1..next
        BY <1>2
    <3> QED
        BY <3>1, <3>2, <3>3
  <2> QED
      BY <2>1, <2>2
<1>7. ASSUME NEW k \in 1..next, IsAffine(stms[k])
      PROVE  \E r \in DOMAIN reads' : reads'[r] = ReadOf(stms[k])
  <2>1. CASE k = next
    <3>1. Len(reads) + 1 \in DOMAIN reads' /\ reads'[Len(reads) + 1] = ReadOf(s)
        BY <1>1, <1>4, <1>7, <2>1
    <3> QED
        BY <2>1, <3>1
  <2>2. CASE k # next
    <3>1. k \in 1..next - 1
        BY <1>2, <2>2
    <3>2. PICK r \in DOMAIN reads : reads[r] = ReadOf(stms[k])
        BY <1>1, <1>7, <3>1 DEF Found
    <3>3. r \in DOMAIN reads' /\ reads'[r] = reads[r]
        BY <1>1, <1>4
    <3> QED
        BY <3>2, <3>3
  <2> QED
      BY <2>1, <2>2
<1>8. Found'
  <2>1. next' \in 1..Len(stms) + 1 /\ 1..next' - 1 = 1..next
      BY <1>1, <1>2
  <2>2. \A k \in 1..next : /\ IsAffine(stms[k])' <=> IsAffine(stms[k])
                          /\ ReadOf(stms[k])' = ReadOf(stms[k])
      BY <1>1, <1>2, SameKernel
  <2>3. \A r \in DOMAIN reads' : \E k \in 1..next' - 1 :
            IsAffine(stms[k])' /\ reads'[r] = ReadOf(stms[k])'
      BY <1>6, <2>1, <2>2
  <2>4. \A k \in 1..next' - 1 : IsAffine(stms[k])' =>
            \E r \in DOMAIN reads' : reads'[r] = ReadOf(stms[k])'
      BY <1>7, <2>1, <2>2
  <2>5. next' \in 1..Len(stms') + 1
      BY <1>2, <2>1
  <2>6. reads' \in Seq(Read')
      BY <1>1, <1>5, SameKernel
  <2> QED
      BY <2>3, <2>4, <2>5, <2>6 DEF Found
<1> QED
    BY <1>1, <1>3, <1>8 DEF IInv

LEMMA RejectInv ==
    ASSUME IInv, Reject
    PROVE  IInv'
<1>1. /\ status' = "rejected" /\ UNCHANGED <<program, next, reads>>
      /\ GoodKernel /\ Found
    BY DEF IInv, Reject
<1> QED
    BY <1>1, SameKernel, SameReads DEF IInv

LEMMA LowerGenericInv ==
    ASSUME IInv, LowerGeneric
    PROVE  IInv'
<1>1. /\ status' = "run" /\ next > Len(stms) /\ Accepted
      /\ UNCHANGED <<program, next, reads>>
      /\ loops' = [d \in Dim |-> LoopExtent(d)]
      /\ env' = [t \in Points(loops') |-> Unbound]
      /\ pc' = [t \in Points(loops') |-> 0]
      /\ out' = [c \in Points(OutShape) |-> IF op = "map" THEN NoVal ELSE Neutral]
      /\ GoodKernel /\ Found
    BY DEF IInv, LowerGeneric
<1>2. /\ GoodKernel' /\ Found'
      /\ extent' = extent /\ op' = op /\ stms' = stms
      /\ Dim' = Dim /\ OutShape' = OutShape /\ Rank' = Rank /\ End' = End
    BY <1>1, SameKernel, SameReads DEF program
<1>3. next = Len(stms) + 1
    BY <1>1, SpaceFacts DEF Found
<1>4. CoversSpace(loops')
    BY <1>1, LoopFacts DEF CoversSpace, Accepted
<1>5. Covered'
    BY <1>1, <1>2, <1>3, <1>4, SameKernel DEF Covered, CoversSpace
<1>6. Len(stms) \in Nat /\ End \in Nat /\ End > 0 /\ Rank \in Dim
    BY SpaceFacts, <1>1 DEF End
<1>7. Unbound \in [Names -> Scalars]
    BY DEF Unbound, Scalars
<1>8. Entered'
  <2>1. pc' \in [Points(loops') -> 0..End] /\ env' \in [Points(loops') -> [Names -> Scalars]]
      BY <1>1, <1>6, <1>7
  <2>2. \A t \in Points(loops') : pc'[t] = 0
      BY <1>1
  <2> QED
      BY <1>2, <2>1, <2>2 DEF Entered
<1>9. \A t \in Points(loops') : pc'[t] = 0 /\ pc'[t] # End
    BY <1>1, <1>6
<1>10. Stored'
  <2>1. \A t \in Points(extent) : t \in Points(loops')
      BY <1>1, <1>4, LoopPoints
  <2> QED
      BY <1>2, <1>9, <2>1 DEF Stored
<1>11. Reduced'
  <2> SUFFICES ASSUME op = "red" PROVE Reduced'
      BY <1>2 DEF Reduced
  <2>1. loops'[Rank] \in Nat
      BY <1>1, <1>4, <1>6, LoopPoints
  <2>2. Neutral \in Val
      BY KernelAssumption
  <2>3. PICK acc \in [0..loops'[Rank] -> Val] : acc[0] = Neutral
    <3>1. [i \in 0..loops'[Rank] |-> Neutral] \in [0..loops'[Rank] -> Val]
        BY <2>2
    <3>2. [i \in 0..loops'[Rank] |-> Neutral][0] = Neutral
        BY <2>1
    <3> QED
        BY <3>1, <3>2
  <2>4. ASSUME NEW c \in Points(OutShape)
        PROVE  out'[c] = Neutral /\ Through(c, 0, acc)'
    <3>1. out'[c] = Neutral
        BY <1>1
    <3>2. \A i \in 0..loops'[Rank] - 1 : Row(c, i) \in Points(loops')
        BY <1>1, <1>4, RowOf
    <3>3. \A i \in 0..loops'[Rank] - 1 : pc'[Row(c, i)] # End
        BY <1>9, <3>2
    <3>4. \A i \in 0..loops'[Rank'] - 1 : pc'[Row(c, i)'] # End'
        BY <1>1, <1>2, <3>3, SameKernel
    <3>5. 0..0 - 1 = {}
        OBVIOUS
    <3>6. out'[c] = acc[0]
        BY <2>3, <3>1
    <3>7. Through(c, 0, acc)'
        BY <3>4, <3>5, <3>6 DEF Through
    <3> QED
        BY <3>1, <3>7
  <2>5. 0 \in 0..loops'[Rank]
      BY <2>1
  <2>6. \A t \in Points(loops') : pc'[t] # 0 => Turn(t)'
      BY <1>9
  <2>7. \A c \in Points(OutShape) : out'[c] \in Val
      BY <2>2, <2>4
  <2>8. \A c \in Points(OutShape) :
            \E n \in 0..loops'[Rank], a \in [0..loops'[Rank] -> Val] :
               a[0] = Neutral /\ Through(c, n, a)'
      BY <2>3, <2>4, <2>5
  <2> QED
      BY <1>2, <2>6, <2>7, <2>8 DEF Reduced
<1>12. out' \in [Points(OutShape) -> Scalars]
    BY <1>1, KernelAssumption DEF Scalars
<1> QED
    BY <1>1, <1>2, <1>5, <1>8, <1>10, <1>11, <1>12 DEF IInv

-----------------------------------------------------------------------------
(* The steps of the execution.                                               *)

\* What the invariant says while the operation runs.
LEMMA RunFacts ==
    ASSUME IInv, status \in {"run", "done", "undefined"}
    PROVE  /\ GoodKernel /\ Found /\ next = Len(stms) + 1 /\ CoversSpace(loops)
           /\ Entered /\ Stored /\ Reduced /\ out \in [Points(OutShape) -> Scalars]
           /\ DOMAIN pc = Points(loops) /\ DOMAIN env = Points(loops)
           /\ \A t \in Points(loops) : pc[t] \in 0..End
           /\ End = Len(stms) + 2 /\ Len(stms) \in Nat
           /\ Points(extent) \subseteq Points(loops)
<1>1. /\ GoodKernel /\ Found /\ next = Len(stms) + 1 /\ CoversSpace(loops)
      /\ Entered /\ Stored /\ Reduced /\ out \in [Points(OutShape) -> Scalars]
    BY DEF IInv, Covered
<1>2. pc \in [Points(loops) -> 0..End] /\ env \in [Points(loops) -> [Names -> Scalars]]
    BY <1>1 DEF Entered
<1> QED
    BY <1>1, <1>2, SpaceFacts, LoopPoints DEF End

LEMMA KeepKernel ==
    ASSUME IInv, status \in {"run", "done", "undefined"},
           UNCHANGED <<program, next, reads, loops>>
    PROVE  /\ GoodKernel' /\ Found' /\ Covered'
           /\ Points(loops)' = Points(loops) /\ Points(extent)' = Points(extent)
           /\ Points(OutShape)' = Points(OutShape)
           /\ op' = op /\ yield' = yield /\ Rank' = Rank /\ stms' = stms /\ extent' = extent
<1>1. UNCHANGED program /\ next' = next /\ loops' = loops
    OBVIOUS
<1>2. GoodKernel' /\ Found'
    BY <1>1, RunFacts, SameKernel, SameReads
<1>3. stms' = stms /\ op' = op /\ yield' = yield /\ extent' = extent
    BY DEF program
<1>4. CoversSpace(loops)'
    BY <1>1, <1>3, SameKernel, RunFacts DEF CoversSpace
<1>5. Covered'
    BY <1>1, <1>3, <1>4, RunFacts DEF Covered
<1>6. Points(loops)' = Points(loops) /\ Points(extent)' = Points(extent)
    BY <1>1, <1>3 DEF Points
<1>7. Points(OutShape)' = Points(OutShape)
    BY <1>1, SameKernel DEF Points
<1> QED
    BY <1>1, <1>2, <1>3, <1>5, <1>6, <1>7, SameKernel

\* A point keeps what has been computed there.
LEMMA KeepComputed ==
    ASSUME GoodKernel, UNCHANGED <<program, next, reads>>, NEW t, Computed(t),
           env'[t] = env[t], pc'[t] = pc[t]
    PROVE  Computed(t)'
<1>1. stms' = stms /\ Dim' = Dim /\ InBounds(t)'
    BY SameKernel, SameReads DEF Computed, program
<1>2. ASSUME NEW k \in DOMAIN stms, k < pc[t] \/ IsAffine(stms[k])
      PROVE  /\ env'[t][stms[k].name] = Meaning(stms[k], env'[t])
             /\ env'[t][stms[k].name] \in Val
  <2>1. env[t][stms[k].name] = Meaning(stms[k], env[t]) /\ env[t][stms[k].name] \in Val
      BY <1>2 DEF Computed
  <2> QED
      BY <2>1
<1>3. \A k \in DOMAIN stms : IsAffine(stms[k])' <=> IsAffine(stms[k])
    BY <1>1, SameKernel DEF IsAffine
<1>4. \A k \in DOMAIN stms : Meaning(stms[k], env[t])' = Meaning(stms[k], env'[t])
    BY <1>1 DEF Meaning
<1>5. ASSUME NEW k \in DOMAIN stms, k < pc'[t] \/ IsAffine(stms[k])'
      PROVE  /\ env'[t][stms[k].name] = Meaning(stms[k], env[t])'
             /\ env'[t][stms[k].name] \in Val
    BY <1>2, <1>3, <1>4, <1>5
<1>6. /\ \A d \in Dim : env'[t][Gtids[d]] = t[d]
      /\ \A c \in Outer : env'[t][c] = Scalar[c]
    BY DEF Computed
<1> QED
    BY <1>1, <1>5, <1>6 DEF Computed

\* It is still a point's turn when others have gone on.
LEMMA KeepTurn ==
    ASSUME UNCHANGED program, DOMAIN pc' = DOMAIN pc,
           \A w \in DOMAIN pc : pc[w] = End => pc'[w] = End,
           NEW u, Turn(u)
    PROVE  Turn(u)'
<1>1. op' = op /\ Rank' = Rank /\ End' = End /\ \A t : Cell(t)' = Cell(t)
    BY SameKernel DEF program
<1> SUFFICES ASSUME op = "red", NEW w \in DOMAIN pc, Cell(w) = Cell(u), w[Rank] < u[Rank]
             PROVE  pc'[w] = End
    BY <1>1 DEF Turn
<1> QED
    BY DEF Turn

\* A point that is entered, or goes on in the region, disturbs no other.
LEMMA BusyStep ==
    ASSUME IInv, status = "run", UNCHANGED <<program, next, reads, loops, out>>,
           NEW t \in Points(loops), pc[t] # End, Turn(t),
           NEW v \in 1..End - 1, pc' = [pc EXCEPT ![t] = v],
           env' \in [Points(loops) -> [Names -> Scalars]],
           \A u \in Points(loops) : u # t => env'[u] = env[u] /\ pc[u] \in {0, End},
           Computed(t)'
    PROVE  Entered' /\ Stored' /\ Reduced'
<1>1. /\ GoodKernel /\ Entered /\ Stored /\ Reduced /\ CoversSpace(loops)
      /\ DOMAIN pc = Points(loops) /\ \A u \in Points(loops) : pc[u] \in 0..End
      /\ Points(extent) \subseteq Points(loops)
      /\ End \in Nat /\ UNCHANGED program /\ loops' = loops /\ out' = out
    BY RunFacts
<1>2. /\ Points(loops)' = Points(loops) /\ Points(extent)' = Points(extent)
      /\ Points(OutShape)' = Points(OutShape)
      /\ op' = op /\ yield' = yield /\ Rank' = Rank /\ End' = End
    BY KeepKernel, SameKernel
<1>3. /\ pc' \in [Points(loops) -> 0..End] /\ pc'[t] = v /\ v # 0 /\ v # End
      /\ \A u \in Points(loops) : u # t => pc'[u] = pc[u]
    BY <1>1 DEF Entered
<1>4. Entered'
  <2>1. ASSUME NEW u \in Points(loops), pc'[u] # 0
        PROVE  Computed(u)'
    <3>1. CASE u = t
        BY <3>1
    <3>2. CASE u # t
      <4>1. Computed(u) /\ env'[u] = env[u] /\ pc'[u] = pc[u]
          BY <1>1, <1>3, <2>1, <3>2 DEF Entered
      <4> QED
          BY <1>1, <4>1, KeepComputed
    <3> QED
        BY <3>1, <3>2
  <2>2. \A u, w \in Points(loops) : {pc'[u], pc'[w]} \cap {0, End} = {} => u = w
    <3>1. \A u \in Points(loops) : u # t => pc'[u] \in {0, End}
        BY <1>3
    <3> QED
        BY <3>1
  <2> QED
      BY <1>2, <1>3, <2>1, <2>2 DEF Entered
<1>5. Stored'
  <2>1. ASSUME op = "map", NEW u \in Points(extent), pc'[u] = End
        PROVE  out'[u] = env'[u][yield]
    <3>1. u \in Points(loops) /\ u # t
        BY <1>1, <1>3, <2>1
    <3>2. pc[u] = End /\ env'[u] = env[u]
        BY <1>3, <2>1, <3>1
    <3> QED
        BY <1>1, <2>1, <3>2 DEF Stored
  <2> QED
      BY <1>2, <2>1 DEF Stored
<1>6. Reduced'
  <2> SUFFICES ASSUME op = "red" PROVE Reduced'
      BY <1>2 DEF Reduced
  <2>1. \A w \in Points(loops) : pc[w] = End <=> pc'[w] = End
      BY <1>3
  <2>2. ASSUME NEW u \in Points(loops), pc'[u] # 0
        PROVE  Turn(u)'
    <3>1. Turn(u)
        BY <1>1, <1>3, <2>2 DEF Reduced
    <3> QED
        BY <1>1, <1>3, <2>1, <3>1, KeepTurn
  <2>3. ASSUME NEW c \in Points(OutShape), NEW n \in 0..loops[Rank],
               NEW acc \in [0..loops[Rank] -> Val], Through(c, n, acc)
        PROVE  Through(c, n, acc)'
    <3>1. loops[Rank] \in Nat
        BY <1>1, LoopPoints, CellPoints
    <3>2. \A i \in 0..loops[Rank] - 1 : Row(c, i) \in Points(loops)
        BY <1>1, RowOf
    <3>3. \A i, w : Row(i, w)' = Row(i, w)
        BY <1>1, SameKernel
    <3>4. ASSUME NEW i \in 0..n - 1
          PROVE  /\ pc'[Row(c, i)] = End
                 /\ acc[i + 1] = Operator[acc[i]][env'[Row(c, i)][yield]]
      <4>1. pc[Row(c, i)] = End /\ acc[i + 1] = Operator[acc[i]][env[Row(c, i)][yield]]
          BY <2>3 DEF Through
      <4>2. Row(c, i) \in Points(loops) /\ Row(c, i) # t
          BY <3>1, <3>2, <4>1
      <4> QED
          BY <1>3, <4>1, <4>2
    <3>5. ASSUME NEW i \in n..loops[Rank] - 1
          PROVE  pc'[Row(c, i)] # End
      <4>1. pc[Row(c, i)] # End /\ Row(c, i) \in Points(loops)
          BY <2>3, <3>1, <3>2 DEF Through
      <4> QED
          BY <2>1, <4>1
    <3>6. out'[c] = acc[n]
        BY <1>1, <2>3 DEF Through
    <3> QED
        BY <1>1, <1>2, <3>3, <3>4, <3>5, <3>6 DEF Through
  <2>4. ASSUME NEW c \in Points(OutShape)
        PROVE  \E n \in 0..loops[Rank], acc \in [0..loops[Rank] -> Val] :
                  acc[0] = Neutral /\ Through(c, n, acc)'
    <3>1. PICK n \in 0..loops[Rank], acc \in [0..loops[Rank] -> Val] :
              acc[0] = Neutral /\ Through(c, n, acc)
        BY <1>1 DEF Reduced
    <3> QED
        BY <2>3, <3>1
  <2>5. \A c \in Points(OutShape) : out'[c] \in Val
      BY <1>1 DEF Reduced
  <2> QED
      BY <1>1, <1>2, <2>2, <2>4, <2>5 DEF Reduced
<1> QED
    BY <1>4, <1>5, <1>6

\* Nothing but the status changes.
LEMMA KeepRun ==
    ASSUME IInv, status \in {"run", "done", "undefined"},
           UNCHANGED <<program, next, reads, loops, env, pc, out>>
    PROVE  Entered' /\ Stored' /\ Reduced' /\ out' \in [Points(OutShape)' -> Scalars]
<1>1. /\ GoodKernel /\ Entered /\ Stored /\ Reduced /\ CoversSpace(loops)
      /\ UNCHANGED program /\ loops' = loops /\ env' = env /\ pc' = pc /\ out' = out
      /\ UNCHANGED <<program, next, reads>> /\ DOMAIN pc = Points(loops)
      /\ out \in [Points(OutShape) -> Scalars]
    BY RunFacts
<1>2. /\ Points(loops)' = Points(loops) /\ Points(extent)' = Points(extent)
      /\ Points(OutShape)' = Points(OutShape)
      /\ op' = op /\ yield' = yield /\ Rank' = Rank /\ End' = End
    BY KeepKernel, SameKernel
<1>3. \A u \in Points(loops) : pc[u] # 0 => Computed(u)'
    BY <1>1, KeepComputed DEF Entered
<1>4. Entered'
    BY <1>1, <1>2, <1>3 DEF Entered
<1>5. Stored'
    BY <1>1, <1>2 DEF Stored
<1>6. Reduced'
  <2>1. \A u \in Points(loops) : op = "red" /\ pc[u] # 0 => Turn(u)'
      BY <1>1, KeepTurn DEF Reduced
  <2>2. \A i, w : Row(i, w)' = Row(i, w)
      BY <1>1, SameKernel
  <2>3. ASSUME NEW c \in Points(OutShape), NEW n \in 0..loops[Rank],
               NEW acc \in [0..loops[Rank] -> Val], Through(c, n, acc)
        PROVE  Through(c, n, acc)'
      BY <1>1, <1>2, <2>2, <2>3 DEF Through
  <2> QED
      BY <1>1, <1>2, <2>1, <2>3 DEF Reduced
<1> QED
    BY <1>1, <1>2, <1>4, <1>5, <1>6

LEMMA EnterInv ==
    ASSUME IInv, Enter
    PROVE  IInv'
<1>1. status = "run" /\ AtRest /\ UNCHANGED <<program, next, reads, loops, out>>
    BY DEF Enter
<1>2. PICK t \in DOMAIN pc :
          /\ pc[t] = 0 /\ Turn(t)
          /\ IF InBounds(t)
             THEN /\ env' = [env EXCEPT ![t] = Entry(t)]
                  /\ pc' = [pc EXCEPT ![t] = 1]
                  /\ UNCHANGED status
             ELSE status' = "undefined" /\ UNCHANGED <<env, pc>>
    BY DEF Enter
<1>3. /\ GoodKernel /\ Found /\ next = Len(stms) + 1 /\ CoversSpace(loops)
      /\ Entered /\ t \in Points(loops) /\ DOMAIN pc = Points(loops)
      /\ DOMAIN env = Points(loops)
      /\ End = Len(stms) + 2 /\ Len(stms) \in Nat
      /\ out \in [Points(OutShape) -> Scalars]
    BY <1>1, <1>2, RunFacts
<1>4. /\ GoodKernel' /\ Found' /\ Covered' /\ Points(OutShape)' = Points(OutShape)
      /\ extent' = extent /\ loops' = loops /\ out' = out
    BY <1>1, KeepKernel
<1>5. CASE InBounds(t)
  <2>1. /\ env' = [env EXCEPT ![t] = Entry(t)] /\ pc' = [pc EXCEPT ![t] = 1]
        /\ status' = status
      BY <1>2, <1>5
  <2>2. /\ Entry(t) \in [Names -> Scalars]
        /\ \A d \in Dim : Entry(t)[Gtids[d]] = t[d]
        /\ \A c \in Outer : Entry(t)[c] = Scalar[c]
        /\ \A k \in DOMAIN stms : IsAffine(stms[k]) =>
              /\ Entry(t)[stms[k].name] = Meaning(stms[k], Entry(t))
              /\ Entry(t)[stms[k].name] \in Val
      BY <1>3, EntryFacts
  <2>3. /\ env' \in [Points(loops) -> [Names -> Scalars]] /\ env'[t] = Entry(t) /\ pc'[t] = 1
        /\ \A u \in Points(loops) : u # t => env'[u] = env[u]
      BY <1>3, <2>1, <2>2 DEF Entered
  <2>4. Computed(t)'
    <3>1. stms' = stms /\ Dim' = Dim /\ InBounds(t)' /\ \A s : IsAffine(s)' <=> IsAffine(s)
        BY <1>1, <1>5, SameKernel, SameReads DEF program
    <3>2. \A k \in DOMAIN stms : Meaning(stms[k], env[t])' = Meaning(stms[k], env'[t])
        BY <3>1 DEF Meaning
    <3>3. \A k \in DOMAIN stms : IsAffine(stms[k])' <=> IsAffine(stms[k])
        BY <3>1 DEF IsAffine
    <3>4. ASSUME NEW k \in DOMAIN stms, k < pc'[t] \/ IsAffine(stms[k])'
          PROVE  /\ env'[t][stms[k].name] = Meaning(stms[k], env[t])'
                 /\ env'[t][stms[k].name] \in Val
      <4>1. IsAffine(stms[k])
          BY <1>3, <2>3, <3>3, <3>4, SpaceFacts
      <4> QED
          BY <2>2, <2>3, <3>2, <4>1
    <3> QED
        BY <2>2, <2>3, <3>1, <3>4 DEF Computed
  <2>5. 1 \in 1..End - 1 /\ pc[t] # End
      BY <1>2, <1>3
  <2>6. \A u \in Points(loops) : pc[u] \in {0, End}
      BY <1>1, <1>3 DEF AtRest
  <2>7. Entered' /\ Stored' /\ Reduced'
      BY <1>1, <1>2, <1>3, <2>1, <2>3, <2>4, <2>5, <2>6, BusyStep
  <2> QED
      BY <1>1, <1>3, <1>4, <2>1, <2>7 DEF IInv
<1>6. CASE ~InBounds(t)
  <2>1. status' = "undefined" /\ UNCHANGED <<env, pc>>
      BY <1>2, <1>6
  <2>2. Entered' /\ Stored' /\ Reduced' /\ out' \in [Points(OutShape)' -> Scalars]
      BY <1>1, <2>1, KeepRun
  <2>3. loops # extent
      BY <1>3, <1>6, SpaceInBounds
  <2> QED
      BY <1>4, <2>1, <2>2, <2>3 DEF IInv
<1> QED
    BY <1>5, <1>6

\* A statement that is executed in the region has its meaning there, and
\* disturbs that of no statement before it nor of a hoisted one.
LEMMA ExecuteComputed ==
    ASSUME GoodKernel, Found, next = Len(stms) + 1, CoversSpace(loops),
           NEW t \in Points(loops), Computed(t), NEW m \in DOMAIN stms, pc[t] = m,
           ~IsAffine(stms[m]), NEW e, e[stms[m].name] = Meaning(stms[m], env[t]),
           \A y \in Names : y # stms[m].name => e[y] = env[t][y]
    PROVE  /\ Meaning(stms[m], env[t]) \in Val
           /\ \A d \in Dim : e[Gtids[d]] = t[d]
           /\ \A c \in Outer : e[c] = Scalar[c]
           /\ \A k \in DOMAIN stms : k < m + 1 \/ IsAffine(stms[k]) =>
                 /\ e[stms[k].name] = Meaning(stms[k], e)
                 /\ e[stms[k].name] \in Val
<1> DEFINE x == stms[m].name
<1>1. /\ x \in Bound /\ x \in Names
      /\ \A k \in DOMAIN stms : stms[k].name = x => k = m
    BY StatementFacts DEF Names
<1>2. /\ \A d \in Dim : env[t][Gtids[d]] = t[d] /\ t[d] \in Index /\ t[d] \in Val
      /\ \A c \in Outer : env[t][c] = Scalar[c] /\ Scalar[c] \in Val
      /\ \A k \in DOMAIN stms : k < m \/ IsAffine(stms[k]) =>
            /\ env[t][stms[k].name] = Meaning(stms[k], env[t])
            /\ env[t][stms[k].name] \in Val
    BY LoopPoints, KernelAssumption DEF Computed
<1>3. Len(stms) \in Nat /\ DOMAIN stms = 1..Len(stms) /\ m \in 1..Len(stms)
    BY SpaceFacts
<1>4. Meaning(stms[m], env[t]) \in Val
  <2>1. ASSUME NEW y \in Args(stms[m])
        PROVE  env[t][y] \in Val /\ (y \in SpaceIds => env[t][y] \in Index)
    <3>1. y \in SpaceIds \/ y \in Outer \/ \E l \in 1..m - 1 : y = stms[l].name
        BY StatementFacts
    <3>2. CASE y \in SpaceIds
        BY <1>2, <3>2 DEF SpaceIds
    <3>3. CASE y \in Outer
      <4>1. y \notin SpaceIds
          BY <3>3, SpaceFacts, KernelAssumption
      <4> QED
          BY <1>2, <3>3, <4>1
    <3>4. ASSUME NEW l \in 1..m - 1, y = stms[l].name
          PROVE  env[t][y] \in Val /\ (y \in SpaceIds => env[t][y] \in Index)
      <4>1. l \in DOMAIN stms /\ l < m
          BY <1>3
      <4> QED
          BY <1>2, <3>2, <3>4, <4>1
    <3> QED
        BY <3>1, <3>2, <3>3, <3>4
  <2> QED
      BY <1>2, <2>1, MeaningInVal
<1>5. e[x] = Meaning(stms[m], env[t]) /\ \A y \in Names : y # x => e[y] = env[t][y]
    OBVIOUS
<1>6. \A d \in Dim : Gtids[d] \in Names /\ Gtids[d] # x
    BY <1>1, SpaceFacts, KernelAssumption
<1>7. \A c \in Outer : c \in Names /\ c # x
    BY <1>1, KernelAssumption DEF Names
<1>8. ASSUME NEW k \in DOMAIN stms, k < m + 1 \/ IsAffine(stms[k])
      PROVE  Meaning(stms[k], e) = Meaning(stms[k], env[t])
  <2>1. ASSUME NEW y \in Args(stms[k])
        PROVE  e[y] = env[t][y]
    <3>1. y \in SpaceIds \/ y \in Outer \/ \E l \in 1..k - 1 : y = stms[l].name
        BY StatementFacts
    <3>2. CASE y \in SpaceIds
        BY <1>5, <1>6, <3>2 DEF SpaceIds
    <3>3. CASE y \in Outer
        BY <1>5, <1>7, <3>3
    <3>4. ASSUME NEW l \in 1..k - 1, y = stms[l].name
          PROVE  e[y] = env[t][y]
      <4>1. l \in DOMAIN stms /\ y \in Bound /\ y \in Names
          BY <1>3, <3>4, StatementFacts DEF Names
      <4>2. CASE IsAffine(stms[k])
        <5>1. y \in Ids
            BY <4>2, SpaceFacts DEF IsAffine
        <5> QED
            BY <4>1, <5>1, KernelAssumption
      <4>3. CASE k < m + 1
        <5>1. l # m
            BY <1>3, <4>3
        <5>2. y # x
            BY <1>1, <3>4, <4>1, <5>1
        <5> QED
            BY <1>5, <4>1, <5>2
      <4> QED
          BY <1>8, <4>2, <4>3
    <3> QED
        BY <3>1, <3>2, <3>3, <3>4
  <2> QED
      BY <2>1, MeaningSame
<1>9. ASSUME NEW k \in DOMAIN stms, k < m + 1 \/ IsAffine(stms[k])
      PROVE  e[stms[k].name] = Meaning(stms[k], e) /\ e[stms[k].name] \in Val
  <2>1. CASE k = m
      BY <1>4, <1>5, <1>8, <1>9, <2>1
  <2>2. CASE k # m
    <3>1. k < m \/ IsAffine(stms[k])
        BY <1>3, <1>9, <2>2
    <3>2. stms[k].name # x /\ stms[k].name \in Names
        BY <1>1, <2>2, StatementFacts DEF Names
    <3> QED
        BY <1>2, <1>5, <1>8, <1>9, <3>1, <3>2
  <2> QED
      BY <2>1, <2>2
<1> QED
    BY <1>2, <1>4, <1>5, <1>6, <1>7, <1>9

LEMMA ExecuteInv ==
    ASSUME IInv, Execute
    PROVE  IInv'
<1>1. status = "run" /\ status' = status /\ UNCHANGED <<program, next, reads, loops, out>>
    BY DEF Execute
<1>2. PICK t \in DOMAIN pc :
          /\ pc[t] \in 1..Len(stms)
          /\ env' = IF stms[pc[t]].name \in Hoisted THEN env
                    ELSE [env EXCEPT ![t][stms[pc[t]].name] = Meaning(stms[pc[t]], env[t])]
          /\ pc' = [pc EXCEPT ![t] = @ + 1]
    BY DEF Execute
<1>3. /\ GoodKernel /\ Found /\ next = Len(stms) + 1 /\ CoversSpace(loops)
      /\ Entered /\ Reduced /\ t \in Points(loops) /\ DOMAIN pc = Points(loops)
      /\ DOMAIN env = Points(loops)
      /\ End = Len(stms) + 2 /\ Len(stms) \in Nat
      /\ out \in [Points(OutShape) -> Scalars]
    BY <1>1, <1>2, RunFacts
<1>4. /\ GoodKernel' /\ Found' /\ Covered' /\ Points(OutShape)' = Points(OutShape)
      /\ out' = out
    BY <1>1, KeepKernel
<1> DEFINE m == pc[t]
<1>5. /\ m \in 1..Len(stms) /\ m \in DOMAIN stms /\ m # 0 /\ m # End /\ m + 1 \in 1..End - 1
      /\ m + 1 # 0
    BY <1>2, <1>3, SpaceFacts
<1>6. pc' = [pc EXCEPT ![t] = m + 1] /\ pc'[t] = m + 1
    BY <1>2, <1>3
<1>7. /\ Computed(t) /\ env[t] \in [Names -> Scalars]
      /\ \A u \in Points(loops) : u # t => pc[u] \in {0, End}
    BY <1>3, <1>5 DEF Entered
<1> HIDE DEF m
<1>8. /\ env'[t] \in [Names -> Scalars]
      /\ \A d \in Dim : env'[t][Gtids[d]] = t[d]
      /\ \A c \in Outer : env'[t][c] = Scalar[c]
      /\ \A k \in DOMAIN stms : k < m + 1 \/ IsAffine(stms[k]) =>
            /\ env'[t][stms[k].name] = Meaning(stms[k], env'[t])
            /\ env'[t][stms[k].name] \in Val
      /\ \A u \in Points(loops) : u # t => env'[u] = env[u]
      /\ env' \in [Points(loops) -> [Names -> Scalars]]
  <2>1. CASE IsAffine(stms[m])
    <3>1. env' = env
        BY <1>2, <1>3, <1>5, <2>1, HoistedIsAffine DEF m
    <3>2. ASSUME NEW k \in DOMAIN stms, k < m + 1 \/ IsAffine(stms[k])
          PROVE  k < m \/ IsAffine(stms[k])
        BY <1>3, <1>5, <2>1, <3>2, SpaceFacts
    <3>3. \A k \in DOMAIN stms : k < m \/ IsAffine(stms[k]) =>
            /\ env[t][stms[k].name] = Meaning(stms[k], env[t])
            /\ env[t][stms[k].name] \in Val
        BY <1>7 DEF Computed, m
    <3> QED
        BY <1>3, <1>7, <3>1, <3>2, <3>3 DEF Computed, Entered
  <2>2. CASE ~IsAffine(stms[m])
    <3> DEFINE e == [env[t] EXCEPT ![stms[m].name] = Meaning(stms[m], env[t])]
    <3>1. env' = [env EXCEPT ![t] = e]
        BY <1>2, <1>3, <1>5, <2>2, HoistedIsAffine DEF m
    <3>2. /\ e[stms[m].name] = Meaning(stms[m], env[t])
          /\ \A y \in Names : y # stms[m].name => e[y] = env[t][y]
      <4>1. stms[m].name \in Names
          BY <1>3, <1>5, StatementFacts DEF Names
      <4> QED
          BY <1>7, <4>1
    <3>3. /\ Meaning(stms[m], env[t]) \in Val
          /\ \A d \in Dim : e[Gtids[d]] = t[d]
          /\ \A c \in Outer : e[c] = Scalar[c]
          /\ \A k \in DOMAIN stms : k < m + 1 \/ IsAffine(stms[k]) =>
                /\ e[stms[k].name] = Meaning(stms[k], e)
                /\ e[stms[k].name] \in Val
      <4> HIDE DEF e
      <4> QED
          BY <1>3, <1>5, <1>7, <2>2, <3>2, ExecuteComputed DEF m
    <3>4. e \in [Names -> Scalars]
        BY <1>7, <3>3 DEF Scalars
    <3> HIDE DEF e
    <3>5. env'[t] = e /\ \A u \in Points(loops) : u # t => env'[u] = env[u]
        BY <1>3, <3>1
    <3>6. env' \in [Points(loops) -> [Names -> Scalars]]
        BY <1>3, <3>1, <3>4 DEF Entered
    <3> QED
        BY <3>3, <3>4, <3>5, <3>6
  <2> QED
      BY <2>1, <2>2
<1>9. Computed(t)'
  <2>1. stms' = stms /\ Dim' = Dim /\ InBounds(t)' /\ \A s : IsAffine(s)' <=> IsAffine(s)
      BY <1>1, <1>7, SameKernel, SameReads DEF program, Computed
  <2>2. \A k \in DOMAIN stms : Meaning(stms[k], env[t])' = Meaning(stms[k], env'[t])
      BY <2>1 DEF Meaning
  <2>3. \A k \in DOMAIN stms : IsAffine(stms[k])' <=> IsAffine(stms[k])
      BY <2>1 DEF IsAffine
  <2>4. ASSUME NEW k \in DOMAIN stms, k < pc'[t] \/ IsAffine(stms[k])'
        PROVE  /\ env'[t][stms[k].name] = Meaning(stms[k], env[t])'
               /\ env'[t][stms[k].name] \in Val
    <3>1. k < m + 1 \/ IsAffine(stms[k])
        BY <1>6, <2>3, <2>4
    <3> QED
        BY <1>8, <2>2, <3>1
  <2> QED
      BY <1>8, <2>1, <2>4 DEF Computed
<1>10. Turn(t) /\ pc[t] # End
  <2>1. CASE op = "red"
      BY <1>3, <1>5, <2>1 DEF Reduced, m
  <2>2. CASE op # "red"
      BY <1>5, <2>2 DEF Turn, m
  <2> QED
      BY <2>1, <2>2
<1>11. Entered' /\ Stored' /\ Reduced'
    BY <1>1, <1>3, <1>5, <1>6, <1>7, <1>8, <1>9, <1>10, BusyStep
<1> QED
    BY <1>1, <1>3, <1>4, <1>11 DEF IInv

\* The point that yields in a reduction is the next one of its row.
LEMMA NextOfRow ==
    ASSUME GoodKernel, op = "red", CoversSpace(loops), DOMAIN pc = Points(loops),
           NEW t \in Points(loops), pc[t] # End, Turn(t),
           NEW c \in Points(OutShape), c = Cell(t),
           t = Row(c, t[Rank]), t[Rank] \in 0..loops[Rank] - 1,
           NEW n \in 0..loops[Rank], NEW acc, Through(c, n, acc)
    PROVE  n = t[Rank]
<1>1. loops[Rank] \in Nat
    BY LoopPoints, CellPoints
<1>2. ASSUME t[Rank] < n PROVE FALSE
  <2>1. t[Rank] \in 0..n - 1
      BY <1>1, <1>2
  <2>2. pc[Row(c, t[Rank])] = End
      BY <2>1 DEF Through
  <2> QED
      BY <2>2
<1>3. ASSUME n < t[Rank] PROVE FALSE
  <2>1. n \in n..loops[Rank] - 1 /\ n \in 0..loops[Rank] - 1
      BY <1>1, <1>3
  <2>2. pc[Row(c, n)] # End
      BY <2>1 DEF Through
  <2>3. Row(c, n) \in Points(loops) /\ Cell(Row(c, n)) = c /\ Row(c, n)[Rank] = n
      BY <2>1, RowOf
  <2> QED
      BY <1>3, <2>2, <2>3 DEF Turn
<1> QED
    BY <1>1, <1>2, <1>3

LEMMA YieldReduced ==
    ASSUME GoodKernel, Found, op = "red", CoversSpace(loops), DOMAIN pc = Points(loops), Reduced,
           DOMAIN out = Points(OutShape), End # 0,
           UNCHANGED <<program, loops, env>>,
           NEW t \in Points(loops), pc[t] # End, pc[t] # 0, InBounds(t), env[t][yield] \in Val,
           out' = [out EXCEPT ![Cell(t)] = Operator[out[Cell(t)]][env[t][yield]]],
           pc' = [pc EXCEPT ![t] = End]
    PROVE  Reduced'
<1> DEFINE c == Cell(t)
           x == env[t][yield]
<1>1. /\ op' = op /\ Rank' = Rank /\ End' = End /\ yield' = yield /\ loops' = loops /\ env' = env
      /\ \A i, w : Row(i, w)' = Row(i, w)
    BY SameKernel DEF program
<1>2. Points(loops)' = Points(loops) /\ Points(OutShape)' = Points(OutShape)
    BY SameKernel DEF Points
<1>3. /\ c \in Points(OutShape) /\ t = Row(c, t[Rank]) /\ t[Rank] \in 0..loops[Rank] - 1
    BY CellOf
<1>4. loops[Rank] \in Nat /\ Operator \in [Val -> [Val -> Val]]
    BY LoopPoints, CellPoints, KernelAssumption
<1>5. /\ DOMAIN pc' = DOMAIN pc /\ pc'[t] = End
      /\ \A u \in Points(loops) : u # t => pc'[u] = pc[u]
    OBVIOUS
<1>6. out[c] \in Val /\ Turn(t)
    BY <1>3 DEF Reduced
<1>7. Operator[out[c]][x] \in Val
    BY <1>4, <1>6
<1>8. /\ out'[c] = Operator[out[c]][x]
      /\ \A b \in Points(OutShape) : b # c => out'[b] = out[b]
    BY <1>3
<1> HIDE DEF c, x
<1>9. \A u \in Points(loops) : pc'[u] # 0 => Turn(u)'
  <2>1. \A w \in DOMAIN pc : pc[w] = End => pc'[w] = End
      BY <1>5
  <2>2. \A u \in Points(loops) : pc'[u] # 0 => Turn(u)
      BY <1>5, <1>6 DEF Reduced
  <2> QED
      BY <1>5, <2>1, <2>2, KeepTurn
<1>10. \A b \in Points(OutShape) : out'[b] \in Val
    BY <1>7, <1>8 DEF Reduced
<1>11. \A b \in Points(OutShape) : \A i \in 0..loops[Rank] - 1 :
          Row(b, i) \in Points(loops) /\ Cell(Row(b, i)) = b /\ Row(b, i)[Rank] = i
    BY RowOf
<1>12. ASSUME NEW b \in Points(OutShape)
       PROVE  \E n \in 0..loops[Rank], a \in [0..loops[Rank] -> Val] :
                 a[0] = Neutral /\ Through(b, n, a)'
  <2>1. PICK n \in 0..loops[Rank], acc \in [0..loops[Rank] -> Val] :
            acc[0] = Neutral /\ Through(b, n, acc)
      BY DEF Reduced
  <2>2. /\ \A i \in 0..n - 1 : /\ pc[Row(b, i)] = End
                               /\ acc[i + 1] = Operator[acc[i]][env[Row(b, i)][yield]]
        /\ \A i \in n..loops[Rank] - 1 : pc[Row(b, i)] # End
        /\ out[b] = acc[n]
      BY <2>1 DEF Through
  <2>3. CASE b # c
    <3>1. \A i \in 0..loops[Rank] - 1 : pc'[Row(b, i)] = pc[Row(b, i)]
        BY <1>5, <1>11, <2>3 DEF c
    <3>2. /\ \A i \in 0..n - 1 : /\ pc'[Row(b, i)] = End
                                 /\ acc[i + 1] = Operator[acc[i]][env[Row(b, i)][yield]]
          /\ \A i \in n..loops[Rank] - 1 : pc'[Row(b, i)] # End
      <4>1. \A i \in 0..n - 1 : i \in 0..loops[Rank] - 1
          BY <1>4
      <4>2. \A i \in n..loops[Rank] - 1 : i \in 0..loops[Rank] - 1
          BY <1>4
      <4> QED
          BY <2>2, <3>1, <4>1, <4>2
    <3>3. out'[b] = acc[n]
        BY <1>8, <2>2, <2>3
    <3>4. Through(b, n, acc)'
        BY <1>1, <3>2, <3>3 DEF Through
    <3> QED
        BY <2>1, <3>4
  <2>4. CASE b = c
    <3>1. n = t[Rank]
        BY <1>3, <1>6, <2>1, <2>4, NextOfRow DEF c
    <3>2. n + 1 \in 0..loops[Rank] /\ n \in 0..loops[Rank] - 1 /\ n \in Nat
        BY <1>3, <1>4, <3>1
    <3>3. out[c] = acc[n]
        BY <2>2, <2>4
    <3>4. PICK a \in [0..loops[Rank] -> Val], p \in 0..loops[Rank] :
              /\ p = n + 1 /\ a[p] = Operator[acc[n]][x]
              /\ \A i \in 0..n : a[i] = acc[i]
      <4> DEFINE f == [acc EXCEPT ![n + 1] = Operator[acc[n]][x]]
      <4>1. /\ f \in [0..loops[Rank] -> Val] /\ f[n + 1] = Operator[acc[n]][x]
            /\ \A i \in 0..n : f[i] = acc[i]
          BY <1>4, <1>7, <3>2, <3>3
      <4> HIDE DEF f
      <4> QED
          BY <3>2, <4>1
    <3>5. a[0] = Neutral
        BY <2>1, <3>2, <3>4
    <3>6. ASSUME NEW i \in 0..p - 1
          PROVE  pc'[Row(b, i)] = End /\ a[i + 1] = Operator[a[i]][env[Row(b, i)][yield]]
      <4>1. CASE i = n
        <5>1. Row(b, i) = t
            BY <1>3, <2>4, <3>1, <4>1
        <5> QED
            BY <1>5, <3>2, <3>4, <4>1, <5>1 DEF x
      <4>2. CASE i # n
        <5>1. i \in 0..n - 1 /\ i \in 0..n /\ i + 1 \in 0..n /\ i \in 0..loops[Rank] - 1
            BY <1>4, <3>2, <3>4, <4>2
        <5>2. pc[Row(b, i)] = End /\ acc[i + 1] = Operator[acc[i]][env[Row(b, i)][yield]]
            BY <2>2, <5>1
        <5>3. pc'[Row(b, i)] = End
            BY <1>5, <1>11, <5>1, <5>2
        <5> QED
            BY <3>4, <5>1, <5>2, <5>3
      <4> QED
          BY <4>1, <4>2
    <3>7. ASSUME NEW i \in p..loops[Rank] - 1
          PROVE  pc'[Row(b, i)] # End
      <4>1. i \in n..loops[Rank] - 1 /\ i \in 0..loops[Rank] - 1 /\ i # n
          BY <1>4, <3>2, <3>4
      <4>2. Row(b, i) \in Points(loops) /\ Row(b, i) # t
          BY <1>11, <3>1, <4>1
      <4> QED
          BY <1>5, <2>2, <4>1, <4>2
    <3>8. out'[b] = a[p]
        BY <1>8, <2>4, <3>3, <3>4
    <3>9. Through(b, p, a)'
        BY <1>1, <3>6, <3>7, <3>8 DEF Through
    <3> QED
        BY <3>4, <3>5, <3>9
  <2> QED
      BY <2>3, <2>4
<1> QED
    BY <1>1, <1>2, <1>9, <1>10, <1>12 DEF Reduced

LEMMA YieldInv ==
    ASSUME IInv, Yield
    PROVE  IInv'
<1>1. status = "run" /\ status' = status /\ UNCHANGED <<program, next, reads, loops, env>>
    BY DEF Yield
<1>2. PICK t \in DOMAIN pc :
          /\ pc[t] = Len(stms) + 1
          /\ out' = [out EXCEPT ![Cell(t)] = IF op = "map" THEN env[t][yield]
                                             ELSE Operator[out[Cell(t)]][env[t][yield]]]
          /\ pc' = [pc EXCEPT ![t] = End]
    BY DEF Yield
<1>3. /\ GoodKernel /\ Found /\ next = Len(stms) + 1 /\ CoversSpace(loops)
      /\ Entered /\ Stored /\ Reduced /\ t \in Points(loops) /\ DOMAIN pc = Points(loops)
      /\ DOMAIN env = Points(loops) /\ Points(extent) \subseteq Points(loops)
      /\ End = Len(stms) + 2 /\ Len(stms) \in Nat
      /\ out \in [Points(OutShape) -> Scalars]
    BY <1>1, <1>2, RunFacts
<1>4. /\ GoodKernel' /\ Found' /\ Covered'
      /\ Points(OutShape)' = Points(OutShape)
      /\ Points(extent)' = Points(extent) /\ Points(loops)' = Points(loops)
      /\ op' = op /\ yield' = yield /\ End' = End
    BY <1>1, KeepKernel, SameKernel
<1>5. pc[t] # 0 /\ pc[t] # End /\ End # 0 /\ End \in 0..End
    BY <1>2, <1>3
<1>6. Computed(t)
    BY <1>3, <1>5 DEF Entered
<1>7. env[t][yield] \in Val /\ InBounds(t)
  <2>1. PICK k \in DOMAIN stms : yield = stms[k].name
      BY <1>3 DEF GoodKernel
  <2>2. k < pc[t]
      BY <1>2, <1>3, <2>1, SpaceFacts
  <2> QED
      BY <1>6, <2>1, <2>2 DEF Computed
<1>8. /\ Cell(t) \in Points(OutShape)
      /\ op = "map" => Cell(t) = t
      /\ op = "red" => out[Cell(t)] \in Val
    BY <1>3, <1>7, CellOf DEF Reduced
<1>9. op = "map" \/ op = "red"
    BY <1>3 DEF GoodKernel
<1>10. out' \in [Points(OutShape) -> Scalars]
  <2>1. CASE op = "map"
      BY <1>2, <1>3, <1>7, <2>1 DEF Scalars
  <2>2. CASE op = "red"
    <3>1. Operator[out[Cell(t)]][env[t][yield]] \in Val
        BY <1>7, <1>8, <2>2, KernelAssumption
    <3> QED
        BY <1>2, <1>3, <2>2, <3>1 DEF Scalars
  <2> QED
      BY <1>9, <2>1, <2>2
<1>11. Entered'
  <2>1. /\ pc' \in [Points(loops) -> 0..End] /\ pc'[t] = End
        /\ \A u \in Points(loops) : u # t => pc'[u] = pc[u]
      BY <1>2, <1>3, <1>5 DEF Entered
  <2>2. ASSUME NEW u \in Points(loops), pc'[u] # 0
        PROVE  Computed(u)'
    <3>1. CASE u # t
      <4>1. Computed(u) /\ env'[u] = env[u] /\ pc'[u] = pc[u]
          BY <1>1, <1>3, <2>1, <2>2, <3>1 DEF Entered
      <4> QED
          BY <1>1, <1>3, <4>1, KeepComputed
    <3>2. CASE u = t
      <4>1. stms' = stms /\ Dim' = Dim /\ InBounds(t)' /\ env'[t] = env[t]
          BY <1>1, <1>7, SameKernel, SameReads DEF program
      <4>2. \A k \in DOMAIN stms : Meaning(stms[k], env[t])' = Meaning(stms[k], env'[t])
          BY <4>1 DEF Meaning
      <4>3. ASSUME NEW k \in DOMAIN stms
            PROVE  /\ env[t][stms[k].name] = Meaning(stms[k], env[t])
                   /\ env[t][stms[k].name] \in Val
        <5>1. k < pc[t]
            BY <1>2, <1>3, SpaceFacts
        <5> QED
            BY <1>6, <5>1 DEF Computed
      <4>4. ASSUME NEW k \in DOMAIN stms
            PROVE  /\ env'[t][stms[k].name] = Meaning(stms[k], env[t])'
                   /\ env'[t][stms[k].name] \in Val
        <5>1. Meaning(stms[k], env'[t]) = Meaning(stms[k], env[t])
            BY <4>1
        <5> QED
            BY <4>1, <4>2, <4>3, <5>1
      <4>5. Computed(t)'
          BY <1>6, <4>1, <4>4 DEF Computed
      <4> QED
          BY <3>2, <4>5
    <3> QED
        BY <3>1, <3>2
  <2>3. \A u, w \in Points(loops) : {pc'[u], pc'[w]} \cap {0, End} = {} => u = w
    <3>1. \A u \in Points(loops) : u # t => pc[u] \in {0, End}
        BY <1>3, <1>5 DEF Entered
    <3>2. \A u \in Points(loops) : pc'[u] \in {0, End}
        BY <2>1, <3>1
    <3> QED
        BY <3>2
  <2>4. env' \in [Points(loops) -> [Names -> Scalars]]
      BY <1>1, <1>3 DEF Entered
  <2> QED
      BY <1>4, <2>1, <2>2, <2>3, <2>4 DEF Entered
<1>12. Stored'
  <2>1. ASSUME op = "map", NEW u \in Points(extent), pc'[u] = End
        PROVE  out'[u] = env'[u][yield]
    <3>1. /\ t \in Points(OutShape) /\ out'[t] = env[t][yield]
          /\ \A w \in Points(OutShape) : w # t => out'[w] = out[w]
      <4>1. out' = [out EXCEPT ![Cell(t)] = IF op = "map" THEN env[t][yield]
                                            ELSE Operator[out[Cell(t)]][env[t][yield]]]
          BY <1>2
      <4>2. Cell(t) = t
          BY <1>8, <2>1
      <4>3. t \in Points(OutShape) /\ DOMAIN out = Points(OutShape)
          BY <1>3, <1>8, <4>2
      <4> QED
          BY <2>1, <4>1, <4>2, <4>3
    <3>2. u \in Points(OutShape) /\ u \in Points(loops)
        BY <1>3, <2>1, CellPoints
    <3>3. CASE u = t
        BY <1>1, <1>3, <3>1, <3>3
    <3>4. CASE u # t
      <4>1. pc[u] = End /\ out'[u] = out[u] /\ env'[u] = env[u]
          BY <1>1, <1>2, <1>3, <2>1, <3>1, <3>2, <3>4
      <4> QED
          BY <1>3, <2>1, <4>1 DEF Stored
    <3> QED
        BY <3>3, <3>4
  <2> QED
      BY <1>4, <2>1 DEF Stored
<1>13. Reduced'
  <2>1. CASE op = "red"
    <3>1. out' = [out EXCEPT ![Cell(t)] = Operator[out[Cell(t)]][env[t][yield]]]
        BY <1>2, <2>1
    <3> QED
        BY <1>1, <1>2, <1>3, <1>5, <1>7, <2>1, <3>1, YieldReduced
  <2>2. CASE op = "map"
      BY <1>4, <2>2 DEF Reduced
  <2> QED
      BY <1>9, <2>1, <2>2
<1> QED
    BY <1>1, <1>4, <1>10, <1>11, <1>12, <1>13 DEF IInv

LEMMA FinishInv ==
    ASSUME IInv, Finish
    PROVE  IInv'
<1>1. /\ status = "run" /\ status' = "done" /\ \A t \in DOMAIN pc : pc[t] = End
      /\ UNCHANGED <<program, next, reads, loops, env, pc, out>>
    BY DEF Finish
<1>2. /\ GoodKernel' /\ Found' /\ Covered'
      /\ Points(OutShape)' = Points(OutShape) /\ Points(loops)' = Points(loops)
      /\ End' = End /\ pc' = pc
    BY <1>1, KeepKernel, SameKernel
<1>3. Entered' /\ Stored' /\ Reduced' /\ out' \in [Points(OutShape)' -> Scalars]
    BY <1>1, KeepRun
<1>4. \A t \in Points(loops) : pc[t] = End
    BY <1>1, RunFacts
<1> QED
    BY <1>1, <1>2, <1>3, <1>4 DEF IInv

LEMMA StutterInv ==
    ASSUME IInv, UNCHANGED vars
    PROVE  IInv'
<1>1. UNCHANGED <<program, next, reads, loops, env, pc, out>> /\ status' = status
    BY DEF vars
<1>2. GoodKernel' /\ Found' /\ End' = End
    BY <1>1, SameKernel, SameReads DEF IInv
<1>3. CASE status \in {"run", "done", "undefined"}
  <2>1. /\ Covered' /\ Points(OutShape)' = Points(OutShape) /\ Points(loops)' = Points(loops)
        /\ extent' = extent /\ loops' = loops /\ pc' = pc
      BY <1>1, <1>3, KeepKernel
  <2>2. Entered' /\ Stored' /\ Reduced' /\ out' \in [Points(OutShape)' -> Scalars]
      BY <1>1, <1>3, KeepRun
  <2> QED
      BY <1>1, <1>2, <2>1, <2>2 DEF IInv
<1>4. CASE status \notin {"run", "done", "undefined"}
    BY <1>1, <1>2, <1>4 DEF IInv
<1> QED
    BY <1>3, <1>4

LEMMA NextInv == IInv /\ [Next]_vars => IInv'
<1> SUFFICES ASSUME IInv, [Next]_vars PROVE IInv'
    OBVIOUS
<1>1. CASE Find
    BY <1>1, FindInv
<1>2. CASE LowerGeneric
    BY <1>2, LowerGenericInv
<1>3. CASE Reject
    BY <1>3, RejectInv
<1>4. CASE Enter
    BY <1>4, EnterInv
<1>5. CASE Execute
    BY <1>5, ExecuteInv
<1>6. CASE Yield
    BY <1>6, YieldInv
<1>7. CASE Finish
    BY <1>7, FinishInv
<1>8. CASE UNCHANGED vars
    BY <1>8, StutterInv
<1> QED
    BY <1>1, <1>2, <1>3, <1>4, <1>5, <1>6, <1>7, <1>8 DEF Next

-----------------------------------------------------------------------------
(* Theorems.                                                                 *)

\* The emitted region knows, at every point that is entered, the value of each
\* statement executed or hoisted so far, for any kernel that LowerSegMap and
\* LowerSegRed are given.
THEOREM KernelInvariant == Spec => []IInv
<1> QED
    BY InitInv, NextInv, PTL DEF Spec

\* When the operation has ended every point has the value of every statement.
LEMMA AllComputed ==
    ASSUME IInv, status = "done", NEW t \in Points(loops)
    PROVE  /\ pc[t] = End /\ t \in DOMAIN env /\ Solves(env[t], t) /\ env[t][yield] \in Val
<1>1. /\ GoodKernel /\ Entered /\ DOMAIN env = Points(loops)
      /\ End = Len(stms) + 2 /\ Len(stms) \in Nat /\ pc[t] = End
    BY RunFacts DEF IInv
<1>2. Computed(t)
    BY <1>1 DEF Entered
<1>3. \A k \in DOMAIN stms : k < pc[t]
    BY <1>1, SpaceFacts
<1>4. \A k \in DOMAIN stms : env[t][stms[k].name] = Meaning(stms[k], env[t])
                             /\ env[t][stms[k].name] \in Val
    BY <1>2, <1>3 DEF Computed
<1>5. Solves(env[t], t)
    BY <1>2, <1>4 DEF Solves, Computed
<1>6. env[t][yield] \in Val
    BY <1>1, <1>4 DEF GoodKernel
<1> QED
    BY <1>1, <1>5, <1>6

\* The reads, loops, values and outputs are of the kinds the lowering gives
\* them, and an operation that ends leaves no element of its output unset.
THEOREM KernelTypeOK == Spec => []TypeOK
<1>1. IInv => TypeOK
  <2> SUFFICES ASSUME IInv PROVE TypeOK
      OBVIOUS
  <2>1. /\ next \in 1..Len(stms) + 1 /\ reads \in Seq(Read)
        /\ status \in {"find", "run", "done", "rejected", "undefined"}
      BY DEF IInv, Found
  <2>2. ASSUME status \in {"run", "done"}
        PROVE  /\ loops \in [Dim -> Extents]
               /\ env \in [Points(loops) -> [Names -> Scalars]]
               /\ pc \in [Points(loops) -> 0..End]
               /\ out \in [Points(OutShape) -> Scalars]
      BY <2>2, RunFacts DEF Entered, CoversSpace
  <2>3. ASSUME status = "done", NEW c \in Points(OutShape)
        PROVE  out[c] \in Val
    <3>1. /\ GoodKernel /\ Stored /\ Reduced /\ Points(extent) \subseteq Points(loops)
        BY <2>3, RunFacts
    <3>2. CASE op = "map"
      <4>1. c \in Points(extent) /\ c \in Points(loops)
          BY <3>1, <3>2, CellPoints
      <4>2. pc[c] = End /\ env[c][yield] \in Val
          BY <2>3, <4>1, AllComputed
      <4> QED
          BY <3>1, <3>2, <4>1, <4>2 DEF Stored
    <3>3. CASE op = "red"
        BY <3>1, <3>3 DEF Reduced
    <3> QED
        BY <3>1, <3>2, <3>3 DEF GoodKernel
  <2>4. ASSUME status = "done"
        PROVE  out \in [Points(OutShape) -> Val]
    <3>1. out \in [Points(OutShape) -> Scalars]
        BY <2>2, <2>4
    <3> QED
        BY <2>3, <2>4, <3>1
  <2>5. ASSUME status \in {"run", "done"}
        PROVE  out \in [Points(OutShape) -> IF status = "done" THEN Val ELSE Scalars]
      BY <2>2, <2>4, <2>5
  <2> QED
      BY <2>1, <2>2, <2>5 DEF TypeOK
<1> QED
    BY <1>1, KernelInvariant, PTL

\* Where no array is longer than the space it is indexed by, the loops that the
\* linalg.generic takes from its operands are the SegSpace (the comment at the
\* head of LowerSegMap), and no point is out of the bounds of an operand.
THEOREM IterationSpace ==
    ASSUME MaxExcess = 0
    PROVE  Spec => [](IterationSpaceIsSegSpace /\ status # "undefined")
<1>1. IInv => IterationSpaceIsSegSpace /\ status # "undefined"
  <2> SUFFICES ASSUME IInv, status \in {"run", "done", "undefined"}
               PROVE  loops = extent
      BY DEF IterationSpaceIsSegSpace, IInv
  <2>1. GoodKernel /\ CoversSpace(loops)
      BY RunFacts
  <2>2. extent \in [Dim -> Extent] /\ loops \in [Dim -> Extents]
      BY <2>1 DEF GoodKernel, CoversSpace
  <2>3. \A d \in Dim : loops[d] \in extent[d]..extent[d] + MaxExcess /\ extent[d] \in Nat
      BY <2>1, SpaceFacts DEF CoversSpace
  <2>4. \A d \in Dim : loops[d] = extent[d]
      BY <2>3
  <2> QED
      BY <2>2, <2>4
<1> QED
    BY <1>1, KernelInvariant, PTL

LEMMA DoneMeaning ==
    ASSUME IInv, op = "map" \/ loops = extent
    PROVE  KernelMeaning
<1> SUFFICES ASSUME status = "done" PROVE KernelMeaning
    BY DEF KernelMeaning
<1>1. /\ GoodKernel /\ Stored /\ Reduced /\ CoversSpace(loops)
      /\ Points(extent) \subseteq Points(loops)
    BY RunFacts
<1>2. \A t \in Points(extent) : t \in DOMAIN env /\ Solves(env[t], t)
    BY <1>1, AllComputed
<1>3. op = "map" => \A t \in Points(extent) : out[t] = env[t][yield]
    BY <1>1, AllComputed DEF Stored
<1>4. ASSUME op = "red", NEW c \in Points(OutShape)
      PROVE  \E acc \in [0..extent[Rank] -> Val] : Reduces(acc, c) /\ out[c] = acc[extent[Rank]]
  <2>1. loops = extent
      BY <1>4
  <2>2. PICK n \in 0..loops[Rank], acc \in [0..loops[Rank] -> Val] :
            acc[0] = Neutral /\ Through(c, n, acc)
      BY <1>1, <1>4 DEF Reduced
  <2>3. loops[Rank] \in Nat
      BY <1>1, <1>4, LoopPoints, CellPoints
  <2>4. n = loops[Rank]
    <3> SUFFICES ASSUME n # loops[Rank] PROVE FALSE
        OBVIOUS
    <3>1. n \in n..loops[Rank] - 1 /\ n \in 0..loops[Rank] - 1
        BY <2>2, <2>3
    <3>2. pc[Row(c, n)] # End
        BY <2>2, <3>1 DEF Through
    <3>3. Row(c, n) \in Points(loops)
        BY <1>1, <1>4, <3>1, RowOf
    <3> QED
        BY <3>2, <3>3, AllComputed
  <2>5. Reduces(acc, c) /\ out[c] = acc[extent[Rank]]
      BY <2>1, <2>2, <2>4 DEF Reduces, Through
  <2> QED
      BY <2>1, <2>2, <2>5
<1> QED
    BY <1>2, <1>3, <1>4 DEF KernelMeaning

\* A map that ends has computed the kernel at every point of the space, however
\* long the arrays it reads are, and so has a reduction whose loops are its
\* space: hoisting the affine reads of LowerSegOpKernelBody changes no result.
THEOREM MeaningWhereLoopsFit ==
    Spec => []((op = "map" \/ loops = extent) => KernelMeaning)
<1>1. IInv => ((op = "map" \/ loops = extent) => KernelMeaning)
    BY DoneMeaning
<1> QED
    BY <1>1, KernelInvariant, PTL

\* Where no array is longer than the space, every map and reduction that ends
\* has its meaning: elements by point, rows folded from the left.
THEOREM MeaningOfKernels ==
    ASSUME MaxExcess = 0
    PROVE  Spec => []KernelMeaning
<1>1. IterationSpaceIsSegSpace /\ ((op = "map" \/ loops = extent) => KernelMeaning)
          => KernelMeaning
    BY DEF IterationSpaceIsSegSpace, KernelMeaning
<1>2. Spec => [](IterationSpaceIsSegSpace /\ status # "undefined")
    BY IterationSpace
<1> QED
    BY <1>1, <1>2, MeaningWhereLoopsFit, PTL
=============================================================================
