---------------------------- MODULE ArraysProofs ----------------------------
(***************************************************************************)
(* Types, shapes and casts of arrays (LowerBasicOp, LowerIndex, castToType  *)
(* and the rest, compiler.hpp) for any sizes, constants or not: the types   *)
(* describe the tensors, and the tensors are the arrays Futhark means.      *)
(***************************************************************************)
EXTENDS Arrays, FiniteSetTheorems, SequenceTheorems, TLAPS

-----------------------------------------------------------------------------
(* Positions, and arithmetic that is cut off.                                *)

\* A multiple of the modulus does not change what is left over.
LEMMA SameRemainder ==
    ASSUME NEW M \in Nat \ {0}, NEW a \in Int, NEW q \in Int
    PROVE  (a + M * q) % M = a % M
<1> DEFINE d == a \div M
           r == a % M
<1>1. a = M * d + r /\ r \in 0..M - 1 /\ d \in Int
    OBVIOUS
<1> HIDE DEF d, r
<1>2. a + M * q = M * (d + q) + r
    BY <1>1
<1>3. \A b \in Int, k \in Int : b = M * k + r => b % M = r
    BY <1>1
<1>4. (a + M * q) % M = r
    BY <1>1, <1>2, <1>3
<1> QED
    BY <1>4 DEF r

\* Arithmetic that is cut off after every step is arithmetic cut off at the end.
LEMMA RemainderOfSteps ==
    ASSUME NEW M \in Nat \ {0}, NEW x \in Int, NEW i \in Int, NEW s \in Int
    PROVE  (x + (((i % M) * s) % M)) % M = (x + i * s) % M
<1> DEFINE q == i \div M
           j == i % M
<1>1. i = M * q + j /\ q \in Int /\ j \in Int
    OBVIOUS
<1> HIDE DEF q, j
<1> DEFINE b == j * s
           p == b \div M
           r == b % M
<1>2. b \in Int
    BY <1>1
<1> HIDE DEF b
<1>3. b = M * p + r /\ p \in Int /\ r \in Int
    BY <1>2
<1> HIDE DEF p, r
<1>4. x + i * s = (x + r) + M * (q * s + p)
  <2> DEFINE n == q * s
  <2>1. i * s = M * n + j * s /\ n \in Int
      BY <1>1
  <2> HIDE DEF n
  <2>2. i * s = M * n + (M * p + r)
      BY <1>3, <2>1 DEF b
  <2>3. M * (n + p) = M * n + M * p
      BY <1>3, <2>1
  <2>4. M * n \in Int /\ M * p \in Int
      BY <1>3, <2>1
  <2>5. x + i * s = (x + r) + M * (n + p)
      BY <1>3, <2>2, <2>3, <2>4
  <2> QED
      BY <2>5 DEF n
<1>5. q * s + p \in Int /\ x + r \in Int
    BY <1>1, <1>3
<1>6. (x + i * s) % M = (x + r) % M
    BY <1>4, <1>5, SameRemainder
<1> QED
    BY <1>6 DEF j, b, r

\* A position in row-major order is that of one index only.
LEMMA RowMajor ==
    ASSUME NEW s \in Nat, NEW i1 \in Nat, NEW j1 \in Nat, NEW i2 \in Nat, NEW j2 \in Nat,
           i2 < s, j2 < s, i1 * s + i2 = j1 * s + j2
    PROVE  i1 = j1 /\ i2 = j2
<1>1. ASSUME NEW x1 \in Nat, NEW y1 \in Nat, NEW x2 \in Nat, NEW y2 \in Nat,
             x2 < s, y2 < s, x1 * s + x2 = y1 * s + y2
      PROVE  ~(x1 < y1)
  <2>1. SUFFICES ASSUME x1 < y1 PROVE FALSE
      OBVIOUS
  <2>2. PICK d \in Nat : y1 = x1 + 1 + d
    <3>1. y1 - x1 - 1 \in Nat /\ y1 = x1 + 1 + (y1 - x1 - 1)
        BY <2>1
    <3> QED
        BY <3>1
  <2>3. y1 * s = x1 * s + s + d * s
      BY <2>2
  <2>4. d * s \in Nat /\ x1 * s \in Nat
      OBVIOUS
  <2>5. PICK p \in Nat, q \in Nat : p = x1 * s /\ q = d * s
      BY <2>4
  <2>6. p + x2 = p + s + q + y2
      BY <1>1, <2>3, <2>5
  <2> QED
      BY <1>1, <2>6
<1>2. ~(i1 < j1) /\ ~(j1 < i1)
    BY <1>1
<1>3. i1 = j1
    BY <1>2
<1>4. PICK p \in Nat : p = i1 * s
    OBVIOUS
<1>5. p + i2 = p + j2
    BY <1>3, <1>4
<1> QED
    BY <1>3, <1>5

-----------------------------------------------------------------------------
(* The inductive invariant.                                                  *)

Dims == [n : 0..MaxSize, const : BOOLEAN]

\* An array is its shape and a function of the indices the shape has.
Whole(a) == a = Of(a.shape, [ix \in Indices(a.shape) |-> a.at[ix]])

\* Types have a size per dimension; one that Futhark knows to be constant is
\* known to the compiler.
Typed(v) ==
    /\ v.type \in Seq(Dims) /\ Len(v.type) \in 0..2
    /\ v.static \in [DOMAIN v.type -> Nat \cup {Dyn}]
    /\ \A k \in DOMAIN v.type : v.type[k].const => v.static[k] # Dyn
    /\ Whole(v.means) /\ v.means.shape = Sizes(v.type)

\* What is known is right.
Described(v) == \A k \in DOMAIN v.type : v.static[k] \in {Dyn, v.type[k].n}
Computed(v) == v.tensor = v.means
Constant(dims) == \A k \in DOMAIN dims : dims[k].const

IInv ==
    /\ phase \in {"lower", "verify", "accepted", "refused", "undefined"}
    /\ verifies \in BOOLEAN
    /\ env \in Seq(Bound) /\ Len(env) > 0
    /\ \A v \in Bound : Typed(v)
    /\ verifies => \A v \in Bound : Described(v) /\ (~Respliced => Computed(v))
    /\ (\A v \in Bound : Constant(v.type)) /\ Constant(declared) => verifies
    /\ phase = "lower" => declared = <<>>
    /\ phase = "refused" => ~verifies

-----------------------------------------------------------------------------
(* Sequences of dimensions.                                                  *)

LEMMA SmallSets ==
    /\ Cardinality({}) = 0
    /\ \A x : Cardinality({x}) = 1
    /\ Cardinality({1, 2}) = 2
<1>1. Cardinality({}) = 0
    BY FS_EmptySet
<1>2. \A x : IsFiniteSet({x}) /\ Cardinality({x}) = 1
    BY FS_Singleton
<1>3. Cardinality({1} \cup {2}) = 2
  <2>1. IsFiniteSet({1}) /\ Cardinality({1}) = 1 /\ 2 \notin {1}
      BY <1>2
  <2>2. Cardinality({1} \cup {2}) = Cardinality({1}) + 1
      BY <2>1, FS_AddElement, Zenon
  <2> QED
      BY <2>1, <2>2
<1>4. {1, 2} = {1} \cup {2}
    OBVIOUS
<1> QED
    BY <1>1, <1>2, <1>3, <1>4

\* The elements of a short sequence at some of its places, in order.
LEMMA PickFacts ==
    ASSUME NEW seq
    PROVE  /\ Pick(seq, {}) = <<>>
           /\ Pick(seq, {1}) = <<seq[1]>>
           /\ Pick(seq, {2}) = <<seq[2]>>
           /\ Pick(seq, {1, 2}) = <<seq[1], seq[2]>>
<1>1. Pick(seq, {}) = <<>>
    BY SmallSets DEF Pick
<1>2. ASSUME NEW x \in {1, 2}
      PROVE  Pick(seq, {x}) = <<seq[x]>>
  <2>1. {i \in {x} : i <= x} = {x}
      OBVIOUS
  <2>2. (CHOOSE k \in {x} : Cardinality({i \in {x} : i <= k}) = 1) = x
      BY <2>1, SmallSets
  <2>3. Cardinality({x}) = 1
      BY SmallSets
  <2> QED
      BY <2>2, <2>3 DEF Pick
<1>3. Pick(seq, {1, 2}) = <<seq[1], seq[2]>>
  <2>1. {i \in {1, 2} : i <= 1} = {1} /\ {i \in {1, 2} : i <= 2} = {1, 2}
      OBVIOUS
  <2> DEFINE Place(j) == CHOOSE k \in {1, 2} : Cardinality({i \in {1, 2} : i <= k}) = j
  <2>2. Place(1) = 1 /\ Place(2) = 2
      BY <2>1, SmallSets
  <2>3. Pick(seq, {1, 2}) = [j \in 1..2 |-> seq[Place(j)]]
      BY SmallSets DEF Pick
  <2> HIDE DEF Place
  <2> QED
      BY <2>2, <2>3
<1> QED
    BY <1>1, <1>2, <1>3

LEMMA SubsetsOfTwo ==
    ASSUME NEW r \in 0..2, NEW ks \in SUBSET (1..r)
    PROVE  \/ ks = {}
           \/ ks = {1} /\ r >= 1
           \/ ks = {2} /\ r = 2
           \/ ks = {1, 2} /\ r = 2
<1>1. \A x \in ks : x \in 1..2 /\ x <= r
    OBVIOUS
<1>2. \A x \in ks : x = 1 \/ x = 2
    BY <1>1
<1>3. (1 \in ks => r >= 1) /\ (2 \in ks => r = 2)
    BY <1>1
<1>4. ks = {} \/ ks = {1} \/ ks = {2} \/ ks = {1, 2}
    BY <1>2
<1>5. QED
  <2>1. 1 \in {1} /\ 2 \in {2} /\ 2 \in {1, 2}
      OBVIOUS
  <2> QED
      BY <1>3, <1>4, <2>1

Unknown(static) == {k \in DOMAIN static : static[k] = Dyn}

\* A tensor.empty that is given the unknown sizes has the shape it should have.
LEMMA EmptyShapeIs ==
    ASSUME NEW r \in 0..2, NEW static \in [1..r -> Nat \cup {Dyn}], NEW sizes \in [1..r -> Nat],
           \A k \in 1..r : static[k] \in {Dyn, sizes[k]}
    PROVE  EmptyShape(static, Pick(sizes, Unknown(static))) = sizes
<1> DEFINE D == Unknown(static)
           ops == Pick(sizes, D)
           Count(k) == Cardinality({i \in 1..k : static[i] = Dyn})
<1>1. ASSUME NEW k \in 1..r, static[k] = Dyn
      PROVE  Count(k) \in DOMAIN ops /\ ops[Count(k)] = sizes[k]
  <2>1. D \in SUBSET (1..r) /\ \A i \in 1..r : i \in D <=> static[i] = Dyn
      BY DEF Unknown
  <2>2. k \in D /\ (k = 1 \/ k = 2)
      BY <1>1 DEF Unknown
  <2> DEFINE S == {i \in 1..k : static[i] = Dyn}
  <2>3. \A i : i \in S <=> i \in D /\ i <= k
      BY <2>1
  <2>4. \/ D = {} \/ D = {1} \/ D = {2} \/ D = {1, 2}
      BY <2>1, SubsetsOfTwo
  <2> HIDE DEF D, S
  <2>5. CASE D = {1}
    <3>1. k = 1 /\ S = {1}
        BY <2>2, <2>3, <2>5
    <3>2. ops = <<sizes[1]>> /\ Cardinality(S) = 1
        BY <2>5, <3>1, PickFacts, SmallSets
    <3> QED
        BY <3>1, <3>2 DEF S
  <2>6. CASE D = {2}
    <3>1. k = 2 /\ S = {2}
        BY <2>2, <2>3, <2>6
    <3>2. ops = <<sizes[2]>> /\ Cardinality(S) = 1
        BY <2>6, <3>1, PickFacts, SmallSets
    <3> QED
        BY <3>1, <3>2 DEF S
  <2>7. CASE D = {1, 2}
    <3>1. ops = <<sizes[1], sizes[2]>>
        BY <2>7, PickFacts
    <3>2. CASE k = 1
      <4>1. S = {1}
          BY <2>3, <2>7, <3>2
      <4>2. Cardinality(S) = 1
          BY <4>1, SmallSets
      <4> QED
          BY <3>1, <3>2, <4>2 DEF S
    <3>3. CASE k = 2
      <4>1. S = {1, 2}
          BY <2>3, <2>7, <3>3
      <4>2. Cardinality(S) = 2
          BY <4>1, SmallSets
      <4> QED
          BY <3>1, <3>3, <4>2 DEF S
    <3> QED
        BY <2>2, <3>2, <3>3
  <2> QED
      BY <2>2, <2>4, <2>5, <2>6, <2>7
<1> HIDE DEF D, ops, Count
<1>2. EmptyShape(static, ops) =
          [k \in 1..r |-> IF static[k] # Dyn THEN static[k]
                          ELSE IF Count(k) \in DOMAIN ops THEN ops[Count(k)] ELSE 0]
    BY DEF EmptyShape, Count
<1>3. \A k \in 1..r : EmptyShape(static, ops)[k] = sizes[k]
    BY <1>1, <1>2
<1> QED
    BY <1>2, <1>3 DEF ops, D

LEMMA SameFunction ==
    ASSUME NEW S, NEW T, NEW f \in [S -> T], NEW g \in [S -> T], \A x \in S : f[x] = g[x]
    PROVE  f = g
<1>1. f = [x \in S |-> f[x]] /\ g = [x \in S |-> g[x]]
    OBVIOUS
<1>2. [x \in S |-> f[x]] = [x \in S |-> g[x]]
    OBVIOUS
<1> QED
    BY <1>1, <1>2

LEMMA DimsFacts ==
    ASSUME NEW dims \in Seq(Dims)
    PROVE  /\ Len(dims) \in Nat /\ DOMAIN dims = 1..Len(dims)
           /\ Sizes(dims) \in [1..Len(dims) -> 0..MaxSize]
           /\ Sizes(dims) \in [1..Len(dims) -> Nat]
           /\ toShapeType(dims) \in [1..Len(dims) -> Nat \cup {Dyn}]
           /\ \A k \in 1..Len(dims) :
                 /\ Sizes(dims)[k] = dims[k].n
                 /\ dims[k].n \in Nat /\ dims[k].const \in BOOLEAN
                 /\ toShapeType(dims)[k] = IF dims[k].const THEN dims[k].n ELSE Dyn
                 /\ toShapeType(dims)[k] # Dyn <=> dims[k].const
                 /\ toShapeType(dims)[k] \in {Dyn, Sizes(dims)[k]}
<1>1. Len(dims) \in Nat /\ DOMAIN dims = 1..Len(dims)
    OBVIOUS
<1>2. \A k \in 1..Len(dims) : /\ dims[k].n \in 0..MaxSize /\ dims[k].n \in Nat
                              /\ dims[k].const \in BOOLEAN
  <2>1. \A k \in 1..Len(dims) : dims[k] \in Dims
      OBVIOUS
  <2>2. 0..MaxSize \subseteq Nat
      BY ArraysAssumption
  <2> QED
      BY <2>1, <2>2 DEF Dims
<1>3. Dyn = -1
    BY DEF Dyn
<1> QED
    BY <1>1, <1>2, <1>3 DEF Sizes, toShapeType

\* The sizes in a statement.
LEMMA SizeFacts ==
    /\ Size \subseteq Dims
    /\ \A r \in Nat : \A dims \in DimsOf(r) : dims \in Seq(Dims) /\ Len(dims) = r
<1>1. Size \subseteq Dims
    BY ArraysAssumption DEF Size, Dims
<1>2. ASSUME NEW r \in Nat, NEW dims \in DimsOf(r)
      PROVE  dims \in Seq(Dims) /\ Len(dims) = r
    BY <1>1, <1>2 DEF DimsOf
<1> QED
    BY <1>1, <1>2

-----------------------------------------------------------------------------
(* Values.                                                                   *)

LEMMA ValueFacts ==
    ASSUME NEW type, NEW static, NEW tensor, NEW means
    PROVE  LET v == Value(type, static, tensor, means) IN
           v.type = type /\ v.static = static /\ v.tensor = tensor /\ v.means = means
BY DEF Value

LEMMA OfWhole ==
    ASSUME NEW S, NEW f, f = [ix \in Indices(S) |-> f[ix]]
    PROVE  Whole(Of(S, f)) /\ Of(S, f).shape = S /\ Of(S, f).at = f
BY DEF Whole, Of

\* A value that has the type its sizes give it.
LEMMA OfDims ==
    ASSUME NEW dims \in Seq(Dims), Len(dims) \in 0..2, NEW tensor, NEW means,
           Whole(means), means.shape = Sizes(dims)
    PROVE  LET v == Value(dims, toShapeType(dims), tensor, means) IN Typed(v) /\ Described(v)
<1> DEFINE v == Value(dims, toShapeType(dims), tensor, means)
<1>1. v.type = dims /\ v.static = toShapeType(dims) /\ v.means = means
    BY ValueFacts
<1> HIDE DEF v
<1>2. Typed(v)
  <2>1. v.type \in Seq(Dims) /\ Len(v.type) \in 0..2
      BY <1>1
  <2>2. /\ v.static \in [DOMAIN v.type -> Nat \cup {Dyn}]
        /\ \A k \in DOMAIN v.type : v.type[k].const => v.static[k] # Dyn
    <3>1. /\ toShapeType(dims) \in [DOMAIN dims -> Nat \cup {Dyn}]
          /\ \A k \in DOMAIN dims : dims[k].const => toShapeType(dims)[k] # Dyn
        BY DimsFacts
    <3> QED
        BY <1>1, <3>1
  <2>3. Whole(v.means) /\ v.means.shape = Sizes(v.type)
      BY <1>1
  <2> QED
      BY <2>1, <2>2, <2>3 DEF Typed
<1>3. Described(v)
    BY <1>1, DimsFacts DEF Described
<1> QED
    BY <1>2, <1>3 DEF v

LEMMA BoundAfter ==
    ASSUME env \in Seq(Bound), NEW v, env' = Append(env, v)
    PROVE  Bound' = Bound \cup {v} /\ env' \in Seq(Bound') /\ Len(env') = Len(env) + 1
<1>1. Len(env) \in Nat /\ DOMAIN env = 1..Len(env)
    OBVIOUS
<1> DEFINE B == Bound \cup {v}
<1>2. env \in Seq(B)
    OBVIOUS
<1>3. v \in B
    OBVIOUS
<1> HIDE DEF B
<1>4. /\ env' \in Seq(B) /\ Len(env') = Len(env) + 1 /\ DOMAIN env' = 1..Len(env) + 1
      /\ env'[Len(env) + 1] = v /\ \A k \in 1..Len(env) : env'[k] = env[k]
    BY <1>1, <1>2, <1>3
<1>5. Bound' = {env'[k] : k \in 1..Len(env) + 1}
    BY <1>4 DEF Bound
<1>6. Bound = {env[k] : k \in 1..Len(env)}
    BY <1>1 DEF Bound
<1>7. Bound' = Bound \cup {v}
  <2>1. ASSUME NEW w \in Bound' PROVE w \in Bound \cup {v}
    <3>1. PICK k \in 1..Len(env) + 1 : w = env'[k]
        BY <1>5
    <3>2. k = Len(env) + 1 \/ k \in 1..Len(env)
        BY <1>1
    <3> QED
        BY <1>4, <1>6, <3>1, <3>2
  <2>2. ASSUME NEW w \in Bound PROVE w \in Bound'
    <3>1. PICK k \in 1..Len(env) : w = env[k]
        BY <1>6
    <3>2. k \in 1..Len(env) + 1
        BY <1>1
    <3> QED
        BY <1>4, <1>5, <3>1, <3>2
  <2>3. v \in Bound'
      BY <1>1, <1>4, <1>5
  <2> QED
      BY <2>1, <2>2, <2>3
<1> QED
    BY <1>4, <1>7 DEF B

\* A statement that binds a value keeps the invariant when the value is of its
\* type, and described and computed where everything verifies.
LEMMA BindInv ==
    ASSUME IInv, phase = "lower", NEW v, NEW ok \in BOOLEAN, Bind(v, ok),
           Typed(v),
           verifies /\ ok => Described(v) /\ (~Respliced => Computed(v)),
           verifies /\ (\A w \in Bound : Constant(w.type)) /\ Constant(v.type) => ok
    PROVE  IInv'
<1>1. /\ env' = Append(env, v) /\ verifies' = (verifies /\ ok)
      /\ declared' = declared /\ phase' = phase
    BY DEF Bind
<1>2. /\ env \in Seq(Bound) /\ Len(env) > 0 /\ verifies \in BOOLEAN /\ declared = <<>>
      /\ \A w \in Bound : Typed(w)
      /\ verifies => \A w \in Bound : Described(w) /\ (~Respliced => Computed(w))
      /\ (\A w \in Bound : Constant(w.type)) /\ Constant(declared) => verifies
    BY DEF IInv
<1>3. Bound' = Bound \cup {v} /\ env' \in Seq(Bound') /\ Len(env') = Len(env) + 1
    BY <1>1, <1>2, BoundAfter
<1>4. env' \in Seq(Bound)' /\ Len(env') > 0
  <2>1. Len(env) \in Nat
      BY <1>2
  <2> QED
      BY <1>2, <1>3, <2>1
<1>5. \A w \in Bound' : Typed(w)
    BY <1>2, <1>3
<1>6. verifies' => \A w \in Bound' : Described(w) /\ (~Respliced => Computed(w))
    BY <1>1, <1>2, <1>3
<1>7. Constant(declared)
    BY <1>2 DEF Constant
<1>8. (\A w \in Bound' : Constant(w.type)) => verifies'
    BY <1>1, <1>2, <1>3, <1>7
<1>9. verifies' \in BOOLEAN
    BY <1>1
<1> QED
    BY <1>1, <1>2, <1>4, <1>5, <1>6, <1>8, <1>9 DEF IInv

-----------------------------------------------------------------------------
(* The operations.                                                           *)

LEMMA TypedFacts ==
    ASSUME NEW a, Typed(a)
    PROVE  /\ a.type \in Seq(Dims) /\ Rank(a) \in 0..2 /\ DOMAIN a.type = 1..Rank(a)
           /\ a.static \in [1..Rank(a) -> Nat \cup {Dyn}] /\ DOMAIN a.static = 1..Rank(a)
           /\ a.means.shape = Sizes(a.type) /\ Whole(a.means)
           /\ a.means.shape \in [1..Rank(a) -> 0..MaxSize]
           /\ a.means.shape \in [1..Rank(a) -> Nat]
           /\ \A k \in 1..Rank(a) : /\ a.type[k] \in Dims /\ a.type[k].n = a.means.shape[k]
                                    /\ a.type[k].const => a.static[k] # Dyn
<1>1. /\ a.type \in Seq(Dims) /\ Len(a.type) \in 0..2
      /\ a.static \in [DOMAIN a.type -> Nat \cup {Dyn}]
      /\ \A k \in DOMAIN a.type : a.type[k].const => a.static[k] # Dyn
      /\ Whole(a.means) /\ a.means.shape = Sizes(a.type)
    BY DEF Typed
<1>2. Len(a.type) \in Nat /\ DOMAIN a.type = 1..Len(a.type)
    BY <1>1
<1>3. \A k \in 1..Len(a.type) : a.type[k] \in Dims
    BY <1>1
<1>4. Rank(a) = Len(a.type) /\ Rank(a) \in 0..2
    BY <1>1 DEF Rank
<1>5. a.static \in [1..Rank(a) -> Nat \cup {Dyn}] /\ DOMAIN a.static = 1..Rank(a)
    BY <1>1, <1>2, <1>4
<1>6. /\ Sizes(a.type) \in [1..Rank(a) -> 0..MaxSize]
      /\ Sizes(a.type) \in [1..Rank(a) -> Nat]
      /\ \A k \in 1..Rank(a) : Sizes(a.type)[k] = a.type[k].n
    BY <1>1, <1>4, DimsFacts
<1> QED
    BY <1>1, <1>2, <1>3, <1>4, <1>5, <1>6

\* The value an operation uses is one that is bound.
LEMMA NewArrayFacts ==
    ASSUME IInv
    PROVE  /\ Newest \subseteq Bound /\ NewArray \subseteq Bound
           /\ \A a \in NewArray : Rank(a) \in 1..2
           /\ \A p \in Pairs : p[1] \in Bound /\ p[2] \in Bound
           /\ \A a \in Array : a \in Bound /\ Rank(a) \in 1..2
<1>1. env \in Seq(Bound) /\ Len(env) > 0 /\ \A v \in Bound : Typed(v)
    BY DEF IInv
<1>2. env[Len(env)] \in Bound
    BY <1>1
<1>3. Newest \subseteq Bound /\ Array \subseteq Bound
    BY <1>2 DEF Newest, Array
<1>4. ASSUME NEW a \in Array
      PROVE  Rank(a) \in 1..2
  <2>1. a.type # <<>> /\ a.type \in Seq(Dims) /\ Rank(a) \in 0..2 /\ Rank(a) = Len(a.type)
      BY <1>1, <1>3, TypedFacts DEF Array, Scalar, Rank
  <2>2. Len(a.type) # 0
      BY <2>1
  <2> QED
      BY <2>1, <2>2
<1>5. \A p \in Pairs : p[1] \in Bound /\ p[2] \in Bound
    BY <1>3 DEF Pairs
<1> QED
    BY <1>3, <1>4, <1>5 DEF NewArray

\* Nothing is unknown of constant sizes.
LEMMA NoUnknown ==
    ASSUME NEW static, \A k \in DOMAIN static : static[k] # Dyn
    PROVE  Unknown(static) = {} /\ EmptyVerifies(static, <<>>)
<1>1. Unknown(static) = {}
    BY DEF Unknown
<1>2. Cardinality({k \in DOMAIN static : static[k] = Dyn}) = 0
    BY <1>1, SmallSets DEF Unknown
<1>3. Len(<<>>) = 0
    OBVIOUS
<1> QED
    BY <1>1, <1>2, <1>3 DEF EmptyVerifies

LEMMA IotaInv ==
    ASSUME IInv, Iota
    PROVE  IInv'
<1>1. PICK n \in Size, x \in Int, s \in Int : LowerIota(n, x, s)
    BY ArraysAssumption DEF Iota
<1> DEFINE dims == <<n>>
           static == toShapeType(dims)
           tensor == Generic(EmptyShape(static, IotaSizes(n)), x, s)
           means == Of(<<n.n>>, [ix \in Indices(<<n.n>>) |-> (x + ix[1] * s) % Modulus])
           ok == EmptyVerifies(static, IotaSizes(n))
           v == Value(dims, static, tensor, means)
<1>2. Bind(v, ok) /\ phase = "lower"
    BY <1>1 DEF LowerIota, Iota, Open
<1>3. ok \in BOOLEAN
    BY DEF EmptyVerifies
<1>4. /\ dims \in Seq(Dims) /\ Len(dims) = 1 /\ dims[1] = n /\ n \in Size /\ 1 \in 0..2
      /\ Sizes(dims) = <<n.n>>
    BY SizeFacts DEF Sizes
<1>5. Whole(means) /\ means.shape = Sizes(dims)
    BY <1>4, OfWhole
<1>6. v.tensor = tensor /\ v.means = means /\ v.type = dims
    BY ValueFacts
<1> HIDE DEF dims
<1>7. /\ static \in [1..1 -> Nat \cup {Dyn}] /\ DOMAIN static = 1..1
      /\ Sizes(dims) \in [1..1 -> Nat] /\ n.n \in Nat
      /\ static[1] # Dyn <=> n.const
      /\ static[1] \in {Dyn, Sizes(dims)[1]}
    BY <1>4, DimsFacts
<1>8. Typed(v) /\ Described(v)
  <2> HIDE DEF means, tensor
  <2> QED
      BY <1>4, <1>5, OfDims
<1> HIDE DEF v, static
<1>9. EmptyShape(static, IotaSizes(n)) = <<n.n>>
  <2>1. IotaSizes(n) = Pick(Sizes(dims), Unknown(static))
    <3>1. CASE n.const
      <4>1. Unknown(static) = {}
          BY <1>7, <3>1 DEF Unknown
      <4> QED
          BY <3>1, <4>1, PickFacts DEF IotaSizes
    <3>2. CASE ~n.const
      <4>1. Unknown(static) = {1}
          BY <1>7, <3>2 DEF Unknown
      <4>2. Pick(Sizes(dims), {1}) = <<Sizes(dims)[1]>>
          BY PickFacts
      <4>3. Sizes(dims)[1] = n.n
          BY <1>4
      <4> QED
          BY <3>2, <4>1, <4>2, <4>3 DEF IotaSizes
    <3> QED
        BY <3>1, <3>2
  <2>2. 1 \in 0..2 /\ \A k \in 1..1 : static[k] \in {Dyn, Sizes(dims)[k]}
      BY <1>7
  <2> QED
      BY <1>4, <1>7, <2>1, <2>2, EmptyShapeIs
<1>10. tensor = means
  <2>1. ASSUME NEW ix \in Indices(<<n.n>>)
        PROVE  (x + (((ix[1] % Modulus) * s) % Modulus)) % Modulus = (x + ix[1] * s) % Modulus
    <3> DEFINE i == ix[1]
    <3>1. i \in Int
      <4>1. ix \in [1..1 -> 0..MaxSize - 1]
          BY DEF Indices
      <4> QED
          BY <4>1
    <3>2. Modulus \in Nat \ {0}
        BY ArraysAssumption
    <3> HIDE DEF i
    <3>3. (x + (((i % Modulus) * s) % Modulus)) % Modulus = (x + i * s) % Modulus
        BY <3>1, <3>2, RemainderOfSteps
    <3> QED
        BY <3>3 DEF i
  <2>2. tensor = Generic(<<n.n>>, x, s)
      BY <1>9
  <2> HIDE DEF tensor
  <2> QED
      BY <2>1, <2>2 DEF Generic, means
<1>11. Constant(dims) => ok
  <2>1. SUFFICES ASSUME n.const PROVE ok
      BY <1>4 DEF Constant
  <2>2. IotaSizes(n) = <<>> /\ \A k \in DOMAIN static : static[k] # Dyn
      BY <1>7, <2>1 DEF IotaSizes
  <2> QED
      BY <2>2, NoUnknown
<1> HIDE DEF ok, tensor, means
<1> QED
    BY <1>2, <1>3, <1>6, <1>8, <1>10, <1>11, BindInv DEF Computed

LEMMA UndefinedInv ==
    ASSUME IInv, Undefined
    PROVE  IInv'
<1>1. phase' = "undefined" /\ env' = env /\ verifies' = verifies /\ declared' = declared
    BY DEF Undefined
<1>2. Bound' = Bound
    BY <1>1 DEF Bound
<1> QED
    BY <1>1, <1>2 DEF IInv

\* A statement that binds a value of the type that its sizes give it.
LEMMA BindDims ==
    ASSUME IInv, phase = "lower", NEW dims \in Seq(Dims), Len(dims) \in 0..2,
           NEW tensor, NEW means, NEW ok \in BOOLEAN,
           Bind(Value(dims, toShapeType(dims), tensor, means), ok),
           Whole(means), means.shape = Sizes(dims),
           verifies /\ ok /\ ~Respliced => tensor = means,
           Constant(dims) => ok
    PROVE  IInv'
<1> DEFINE v == Value(dims, toShapeType(dims), tensor, means)
<1>1. Typed(v) /\ Described(v)
    BY OfDims
<1>2. v.type = dims /\ v.tensor = tensor /\ v.means = means
    BY ValueFacts
<1>3. Bind(v, ok)
    OBVIOUS
<1> HIDE DEF v
<1> QED
    BY <1>1, <1>2, <1>3, BindInv DEF Computed

LEMMA EmptyOfDims ==
    ASSUME NEW dims \in Seq(Dims), Len(dims) \in 0..2, NEW sizes
    PROVE  LET static == toShapeType(dims)
               operands == Pick(sizes, {k \in DOMAIN static : static[k] = Dyn})
           IN  /\ sizes = Sizes(dims) => EmptyShape(static, operands) = sizes
               /\ Constant(dims) => EmptyVerifies(static, operands)
               /\ EmptyVerifies(static, operands) \in BOOLEAN
<1> DEFINE static == toShapeType(dims)
           operands == Pick(sizes, Unknown(static))
<1>1. /\ static \in [1..Len(dims) -> Nat \cup {Dyn}] /\ DOMAIN static = 1..Len(dims)
      /\ DOMAIN dims = 1..Len(dims)
      /\ Sizes(dims) \in [1..Len(dims) -> Nat]
      /\ \A k \in 1..Len(dims) : /\ static[k] \in {Dyn, Sizes(dims)[k]}
                                 /\ static[k] # Dyn <=> dims[k].const
    BY DimsFacts
<1>2. operands = Pick(sizes, {k \in DOMAIN static : static[k] = Dyn})
    BY DEF Unknown
<1> HIDE DEF static
<1>3. sizes = Sizes(dims) => EmptyShape(static, operands) = sizes
    BY <1>1, EmptyShapeIs
<1>4. ASSUME Constant(dims) PROVE EmptyVerifies(static, operands)
  <2>1. \A k \in DOMAIN static : static[k] # Dyn
      BY <1>1, <1>4 DEF Constant
  <2>2. Unknown(static) = {} /\ EmptyVerifies(static, <<>>)
      BY <2>1, NoUnknown
  <2> QED
      BY <2>2, PickFacts
<1>5. EmptyVerifies(static, operands) \in BOOLEAN
    BY DEF EmptyVerifies
<1> QED
    BY <1>2, <1>3, <1>4, <1>5 DEF static

LEMMA ScratchInv ==
    ASSUME IInv, Scratch
    PROVE  IInv'
<1>1. PICK rank \in 1..2 : \E dims \in DimsOf(rank) : LowerScratch(dims)
    BY DEF Scratch
<1>2. PICK dims \in DimsOf(rank) : LowerScratch(dims)
    BY <1>1
<1>3. dims \in Seq(Dims) /\ Len(dims) \in 0..2
  <2>1. rank \in Nat /\ rank \in 0..2
      OBVIOUS
  <2> QED
      BY <1>2, <2>1, SizeFacts
<1> DEFINE static == toShapeType(dims)
           operands == Pick(Sizes(dims), {k \in DOMAIN static : static[k] = Dyn})
           empty(shape) == Of(shape, [ix \in Indices(shape) |-> Uninit])
           tensor == empty(EmptyShape(static, operands))
           means == empty(Sizes(dims))
           ok == EmptyVerifies(static, operands)
<1>4. Bind(Value(dims, static, tensor, means), ok) /\ phase = "lower"
    BY <1>2 DEF LowerScratch, Scratch, Open
<1>5. Whole(means) /\ means.shape = Sizes(dims)
    BY OfWhole
<1>6. /\ EmptyShape(static, operands) = Sizes(dims)
      /\ Constant(dims) => ok
      /\ ok \in BOOLEAN
    BY <1>3, EmptyOfDims
<1>7. tensor = means
    BY <1>6
<1> HIDE DEF tensor, means, ok
<1> QED
    BY <1>3, <1>4, <1>5, <1>6, <1>7, BindDims

LEMMA MatMulInv ==
    ASSUME IInv, MatMul
    PROVE  IInv'
<1>1. PICK p \in Pairs : \E ret \in DimsOf(2) :
          /\ Sizes(ret) = <<p[1].means.shape[1], p[2].means.shape[2]>>
          /\ LowerMatMul(p[1], p[2], ret)
    BY DEF MatMul
<1> DEFINE a == p[1]
           b == p[2]
<1>2. PICK ret \in DimsOf(2) :
          /\ Sizes(ret) = <<a.means.shape[1], b.means.shape[2]>>
          /\ LowerMatMul(a, b, ret)
    BY <1>1
<1>3. ret \in Seq(Dims) /\ Len(ret) \in 0..2
    BY <1>2, SizeFacts
<1>4. a \in Bound /\ b \in Bound
    BY NewArrayFacts
<1> HIDE DEF a, b
<1> DEFINE static == toShapeType(ret)
           sizes == <<a.tensor.shape[1], b.tensor.shape[2]>>
           operands == Pick(sizes, {k \in DOMAIN static : static[k] = Dyn})
           tensor == Opaque(EmptyShape(static, operands))
           means == Opaque(<<a.means.shape[1], b.means.shape[2]>>)
           ok == EmptyVerifies(static, operands)
<1>5. Bind(Value(ret, static, tensor, means), ok) /\ phase = "lower"
    BY <1>2 DEF LowerMatMul, MatMul, Open
<1>6. means = Opaque(Sizes(ret))
    BY <1>2
<1>7. Whole(means) /\ means.shape = Sizes(ret)
    BY <1>6, OfWhole DEF Opaque
<1>8. /\ sizes = Sizes(ret) => EmptyShape(static, operands) = sizes
      /\ Constant(ret) => ok
      /\ ok \in BOOLEAN
    BY <1>3, EmptyOfDims
<1>9. ASSUME verifies, ~Respliced PROVE tensor = means
  <2>1. a.tensor = a.means /\ b.tensor = b.means
      BY <1>4, <1>9 DEF IInv, Computed
  <2>2. sizes = Sizes(ret)
      BY <1>2, <2>1
  <2>3. EmptyShape(static, operands) = Sizes(ret)
      BY <1>8, <2>2
  <2> QED
      BY <1>6, <2>3
<1> HIDE DEF tensor, means, ok
<1> QED
    BY <1>3, <1>5, <1>7, <1>8, <1>9, BindDims

LEMMA CallInv ==
    ASSUME IInv, Call
    PROVE  IInv'
<1>0. PICK a \in NewArray : \E param, ret \in DimsOf(Rank(a)) :
          Instance(ret, a) /\ LowerCall(a, param, ret)
    BY DEF Call
<1>1. PICK param \in DimsOf(Rank(a)), ret \in DimsOf(Rank(a)) :
          Instance(ret, a) /\ LowerCall(a, param, ret)
    BY <1>0
<1>2. a \in Bound /\ Rank(a) \in 1..2 /\ Typed(a) /\ phase = "lower"
    BY <1>1, NewArrayFacts DEF IInv, Call, Open
<1>3. ret \in Seq(Dims) /\ Len(ret) \in 0..2
  <2>1. Rank(a) \in Nat /\ Rank(a) \in 0..2
      BY <1>2
  <2> QED
      BY <1>1, <2>1, SizeFacts
<1>4. Undefined \/ Bind(Value(ret, toShapeType(ret), a.tensor, a.means), TRUE)
  <2>1. \A static, to : castToType(static, to) \subseteq {to}
      BY DEF castToType
  <2> DEFINE casts == {r \in castToType(toShapeType(param), toShapeType(ret)) :
                          castToType(a.static, toShapeType(param)) # {}}
  <2>2. Undefined \/ \E static \in casts : Bind(Value(ret, static, a.tensor, a.means), TRUE)
      BY <1>1 DEF LowerCall
  <2>3. casts \subseteq {toShapeType(ret)}
      BY <2>1
  <2> QED
      BY <2>2, <2>3
<1>5. Whole(a.means) /\ a.means.shape = Sizes(ret)
    BY <1>1, <1>2 DEF Typed, Instance
<1>6. verifies /\ ~Respliced => a.tensor = a.means
    BY <1>2 DEF IInv, Computed
<1> QED
    BY <1>2, <1>3, <1>4, <1>5, <1>6, BindDims, UndefinedInv

LEMMA LoopInv ==
    ASSUME IInv, Loop
    PROVE  IInv'
<1>1. PICK p \in Pairs, times \in 0..1 : \E merge \in DimsOf(Rank(p[1])) :
          /\ Rank(p[2]) = Rank(p[1])
          /\ Sizes(merge) = (IF times = 0 THEN p[1] ELSE p[2]).means.shape
          /\ LowerLoop(p[1], p[2], merge, times)
    BY DEF Loop
<1> DEFINE last == IF times = 0 THEN p[1] ELSE p[2]
<1>2. PICK merge \in DimsOf(Rank(p[1])) :
          Sizes(merge) = last.means.shape /\ LowerLoop(p[1], p[2], merge, times)
    BY <1>1
<1>3. p[1] \in Bound /\ last \in Bound /\ phase = "lower"
    BY NewArrayFacts DEF Loop, Open
<1>4. Typed(p[1]) /\ Typed(last) /\ (verifies /\ ~Respliced => last.tensor = last.means)
    BY <1>3 DEF IInv, Computed
<1>5. Undefined \/ Bind(Value(merge, toShapeType(merge), last.tensor, last.means), TRUE)
    BY <1>2 DEF LowerLoop, MergeTypes
<1> HIDE DEF last
<1>6. merge \in Seq(Dims) /\ Len(merge) \in 0..2
  <2>1. Rank(p[1]) \in Nat /\ Rank(p[1]) \in 0..2
      BY <1>4, TypedFacts
  <2> QED
      BY <1>2, <2>1, SizeFacts
<1>7. Whole(last.means) /\ last.means.shape = Sizes(merge)
    BY <1>2, <1>4 DEF Typed
<1> QED
    BY <1>3, <1>4, <1>5, <1>6, <1>7, BindDims, UndefinedInv

LEMMA ArrayLitInv ==
    ASSUME IInv, ArrayLit
    PROVE  IInv'
<1>1. PICK x \in (Scalar \cap Newest) \cup {Literal(5)} : LowerArrayLit(<<Literal(6), x>>)
    BY DEF ArrayLit
<1> DEFINE elements == <<Literal(6), x>>
           dims == <<[n |-> Len(elements), const |-> TRUE]>>
           lit(of) == Of(<<Len(elements)>>,
                         [ix \in Indices(<<Len(elements)>>) |-> of[ix[1] + 1]])
           tensor == lit([k \in DOMAIN elements |-> elements[k].tensor.at[<<>>]])
           means == lit([k \in DOMAIN elements |-> elements[k].means.at[<<>>]])
<1>2. Bind(Value(dims, toShapeType(dims), tensor, means), TRUE) /\ phase = "lower"
    BY <1>1 DEF LowerArrayLit, ArrayLit, Open
<1>3. Len(elements) = 2 /\ DOMAIN elements = 1..2
    OBVIOUS
<1>4. dims \in Seq(Dims) /\ Len(dims) \in 0..2 /\ Sizes(dims) = <<Len(elements)>>
  <2>1. 2 \in 0..MaxSize
      BY ArraysAssumption
  <2>2. [n |-> Len(elements), const |-> TRUE] \in Dims
      BY <1>3, <2>1 DEF Dims
  <2>3. Len(dims) = 1 /\ 1 \in 0..2
      OBVIOUS
  <2>4. Sizes(dims) = <<Len(elements)>>
      BY DEF Sizes
  <2> QED
      BY <2>2, <2>3, <2>4
<1>5. Whole(means) /\ means.shape = Sizes(dims)
    BY <1>4, OfWhole
<1>6. ASSUME verifies, ~Respliced PROVE tensor = means
  <2>1. \A c : Literal(c).tensor = Literal(c).means
      BY DEF Literal, Value
  <2>2. x.tensor = x.means
    <3>1. CASE x = Literal(5)
        BY <2>1, <3>1
    <3>2. CASE x \in Newest
        BY <1>6, <3>2, NewArrayFacts DEF IInv, Computed
    <3> QED
        BY <1>1, <3>1, <3>2
  <2>3. \A k \in DOMAIN elements : elements[k].tensor = elements[k].means
      BY <1>3, <2>1, <2>2
  <2> DEFINE tensors == [k \in DOMAIN elements |-> elements[k].tensor.at[<<>>]]
             arrays == [k \in DOMAIN elements |-> elements[k].means.at[<<>>]]
  <2> HIDE DEF elements
  <2>4. tensors = arrays
      BY <2>3
  <2>5. tensor = lit(tensors) /\ means = lit(arrays)
      OBVIOUS
  <2> HIDE DEF tensors, arrays, lit, tensor, means
  <2> QED
      BY <2>4, <2>5
<1> HIDE DEF tensor, means, dims
<1> QED
    BY <1>2, <1>4, <1>5, <1>6, BindDims

\* What is picked from a sequence is a sequence.
LEMMA PickSeq ==
    ASSUME NEW S, NEW r \in 0..2, NEW seq \in [1..r -> S], NEW ks \in SUBSET (1..r)
    PROVE  Pick(seq, ks) \in Seq(S) /\ Len(Pick(seq, ks)) \in 0..2
<1>1. \A k \in ks : seq[k] \in S
    OBVIOUS
<1>2. CASE ks = {}
  <2>1. Pick(seq, ks) = <<>>
      BY <1>2, PickFacts
  <2> QED
      BY <2>1
<1>3. CASE ks = {1}
  <2>1. Pick(seq, ks) = <<seq[1]>> /\ seq[1] \in S
      BY <1>1, <1>3, PickFacts
  <2> QED
      BY <2>1
<1>4. CASE ks = {2}
  <2>1. Pick(seq, ks) = <<seq[2]>> /\ seq[2] \in S
      BY <1>1, <1>4, PickFacts
  <2> QED
      BY <2>1
<1>5. CASE ks = {1, 2}
  <2>1. Pick(seq, ks) = <<seq[1], seq[2]>> /\ seq[1] \in S /\ seq[2] \in S
      BY <1>1, <1>5, PickFacts
  <2> QED
      BY <2>1
<1> QED
    BY <1>2, <1>3, <1>4, <1>5, SubsetsOfTwo

LEMMA DotInv ==
    ASSUME IInv, Dot
    PROVE  IInv'
<1>1. PICK p \in Pairs : \E groups \in Array, n \in DotNumbers(Rank(p[1]), Rank(p[2])) :
          LET shape == DotShape(p[1].means.shape, p[2].means.shape, groups.means.shape[1], n)
          IN  /\ Len(shape) <= 2
              /\ \E ret \in DimsOf(Len(shape)) :
                     Sizes(ret) = shape /\ LowerDot(p[1], p[2], groups, n, ret)
    BY DEF Dot
<1>2. PICK a, b : a = p[1] /\ b = p[2]
    OBVIOUS
<1>3. PICK groups \in Array, n \in DotNumbers(Rank(a), Rank(b)) :
          LET shape == DotShape(a.means.shape, b.means.shape, groups.means.shape[1], n)
          IN  /\ Len(shape) <= 2
              /\ \E ret \in DimsOf(Len(shape)) :
                     Sizes(ret) = shape /\ LowerDot(a, b, groups, n, ret)
    BY <1>1, <1>2
<1>4. PICK shape : shape = DotShape(a.means.shape, b.means.shape, groups.means.shape[1], n)
    OBVIOUS
<1>5. PICK ret \in DimsOf(Len(shape)) :
          Sizes(ret) = shape /\ LowerDot(a, b, groups, n, ret)
    BY <1>3, <1>4
<1>6. Undefined \/ Bind(Value(ret, toShapeType(ret), Opaque(shape), Opaque(shape)), TRUE)
    BY <1>4, <1>5 DEF LowerDot
<1>7. shape \in Seq(Nat)
  <2>1. a \in Bound /\ b \in Bound /\ groups \in Bound /\ Rank(groups) \in 1..2
      BY <1>1, <1>2, <1>3, NewArrayFacts
  <2>2. Typed(a) /\ Typed(b) /\ Typed(groups)
      BY <2>1 DEF IInv
  <2>3. /\ Rank(a) \in 0..2 /\ a.means.shape \in [1..Rank(a) -> Nat]
        /\ Rank(b) \in 0..2 /\ b.means.shape \in [1..Rank(b) -> Nat]
        /\ groups.means.shape \in [1..Rank(groups) -> Nat]
      BY <2>2, TypedFacts
  <2>4. groups.means.shape[1] \in Nat
    <3>1. 1 \in 1..Rank(groups)
        BY <2>1
    <3> QED
        BY <2>3, <3>1
  <2>5. n.lb = <<>> \/ \E d \in 1..Rank(a) : n.lb = <<d>>
    <3>1. n.lb \in Lists(Rank(a))
        BY <1>3 DEF DotNumbers
    <3> QED
        BY <3>1 DEF Lists
  <2>6. [k \in DOMAIN n.lb |-> a.means.shape[n.lb[k]]] \in Seq(Nat)
    <3>1. CASE n.lb = <<>>
        BY <3>1
    <3>2. CASE \E d \in 1..Rank(a) : n.lb = <<d>>
      <4>1. PICK d \in 1..Rank(a) : n.lb = <<d>>
          BY <3>2
      <4>2. a.means.shape[d] \in Nat
          BY <2>3
      <4>3. [k \in DOMAIN n.lb |-> a.means.shape[n.lb[k]]] = <<a.means.shape[d]>>
          BY <4>1
      <4> QED
          BY <4>2, <4>3
    <3> QED
        BY <2>5, <3>1, <3>2
  <2> DEFINE left == DOMAIN a.means.shape \ Members(n.lb \o n.lc)
             right == DOMAIN b.means.shape \ Members(n.rb \o n.rc \o n.rg)
             mode == IF n.ragged = 0 THEN 0 ELSE IF n.ragged \in left THEN 1
                     ELSE IF n.ragged \in Members(n.lc) THEN 2 ELSE 3
             grown == IF mode = 2 THEN <<groups.means.shape[1]>> ELSE <<>>
             batch == [k \in DOMAIN n.lb |-> a.means.shape[n.lb[k]]]
  <2>7. shape = grown \o batch \o Pick(a.means.shape, left) \o Pick(b.means.shape, right)
      BY <1>4 DEF DotShape
  <2>8. left \in SUBSET (1..Rank(a)) /\ right \in SUBSET (1..Rank(b))
      BY <2>3
  <2>9. grown \in Seq(Nat)
      BY <2>4
  <2> HIDE DEF left, right, grown, batch
  <2>10. Pick(a.means.shape, left) \in Seq(Nat) /\ Pick(b.means.shape, right) \in Seq(Nat)
      BY <2>3, <2>8, PickSeq
  <2>11. batch \in Seq(Nat)
      BY <2>6 DEF batch
  <2>12. \A q1, q2, q3, q4 \in Seq(Nat) : q1 \o q2 \o q3 \o q4 \in Seq(Nat)
      OBVIOUS
  <2> QED
      BY <2>7, <2>9, <2>10, <2>11, <2>12
<1>8. Len(shape) \in 0..2 /\ Len(shape) \in Nat
  <2>1. PICK len : len = Len(shape)
      OBVIOUS
  <2>2. len <= 2
      BY <1>3, <1>4, <2>1
  <2>3. len \in Nat
      BY <1>7, <2>1
  <2>4. len \in 0..2
      BY <2>2, <2>3
  <2> QED
      BY <2>1, <2>3, <2>4
<1>9. ret \in Seq(Dims) /\ Len(ret) \in 0..2
    BY <1>5, <1>8, SizeFacts
<1>10. Whole(Opaque(shape)) /\ Opaque(shape).shape = Sizes(ret)
    BY <1>5, OfWhole DEF Opaque
<1>11. phase = "lower"
    BY DEF Dot, Open
<1> QED
    BY <1>6, <1>9, <1>10, <1>11, BindDims, UndefinedInv

LEMMA IfInv ==
    ASSUME IInv, If
    PROVE  IInv'
<1>1. PICK p \in Pairs, cond \in BOOLEAN : \E dims \in DimsOf(Rank(p[1])) :
          /\ Rank(p[1]) = Rank(p[2])
          /\ Sizes(dims) = (IF cond THEN p[1] ELSE p[2]).means.shape
          /\ \A k \in DOMAIN dims : dims[k].const =>
                /\ p[1].type[k].const /\ p[2].type[k].const
                /\ p[1].type[k].n = p[2].type[k].n
          /\ LowerIf(cond, p[1], p[2], dims)
    BY DEF If
<1>2. PICK then, else : then = p[1] /\ else = p[2]
    OBVIOUS
<1>3. PICK taken : taken = IF cond THEN then ELSE else
    OBVIOUS
<1>4. PICK dims \in DimsOf(Rank(then)) :
          /\ Sizes(dims) = taken.means.shape
          /\ \A k \in DOMAIN dims : dims[k].const =>
                /\ then.type[k].const /\ else.type[k].const
                /\ then.type[k].n = else.type[k].n
          /\ LowerIf(cond, then, else, dims)
    BY <1>1, <1>2, <1>3
<1>5. /\ then \in Bound /\ else \in Bound /\ taken \in Bound /\ phase = "lower"
      /\ Rank(then) = Rank(else) /\ Rank(taken) = Rank(then)
    BY <1>1, <1>2, <1>3, NewArrayFacts DEF If, Open
<1>6. Typed(then) /\ Typed(else) /\ Typed(taken)
    BY <1>5 DEF IInv
<1>7. Rank(then) \in Nat /\ Rank(then) \in 0..2
    BY <1>6, TypedFacts
<1>8. dims \in Seq(Dims) /\ Len(dims) = Rank(then) /\ DOMAIN dims = 1..Rank(then)
    BY <1>4, <1>7, SizeFacts
<1>9. /\ then.static \in [1..Rank(then) -> Nat \cup {Dyn}]
      /\ else.static \in [1..Rank(then) -> Nat \cup {Dyn}]
      /\ DOMAIN then.type = 1..Rank(then) /\ DOMAIN else.type = 1..Rank(then)
      /\ \A k \in 1..Rank(then) : /\ then.type[k].const => then.static[k] # Dyn
                                  /\ else.type[k].const => else.static[k] # Dyn
    BY <1>5, <1>6, TypedFacts
<1>10. \A k \in 1..Rank(then) : dims[k].n = taken.type[k].n
    BY <1>4, <1>5, <1>6, <1>8, TypedFacts, DimsFacts
<1> DEFINE v == Value(dims, then.static, taken.tensor, taken.means)
           ok == then.static = else.static
<1>11. Bind(v, ok)
    BY <1>3, <1>4 DEF LowerIf
<1>12. v.type = dims /\ v.static = then.static /\ v.tensor = taken.tensor /\ v.means = taken.means
    BY ValueFacts
<1> HIDE DEF v
<1>13. Typed(v)
  <2>1. Whole(taken.means) /\ taken.means.shape = Sizes(dims)
      BY <1>4, <1>6, TypedFacts
  <2>2. \A k \in DOMAIN v.type : v.type[k].const => v.static[k] # Dyn
      BY <1>4, <1>8, <1>9, <1>12
  <2> QED
      BY <1>7, <1>8, <1>9, <1>12, <2>1, <2>2 DEF Typed
<1>14. ASSUME verifies, ok
       PROVE  Described(v) /\ (~Respliced => Computed(v))
  <2>1. /\ Described(taken) /\ (~Respliced => Computed(taken))
        /\ taken.static = then.static
      BY <1>3, <1>5, <1>14 DEF IInv
  <2>2. Described(v)
      BY <1>3, <1>8, <1>9, <1>10, <1>12, <2>1 DEF Described
  <2> QED
      BY <1>12, <2>1, <2>2 DEF Computed
<1>15. ASSUME verifies, Constant(v.type)
       PROVE  ok
  <2>1. Described(then) /\ Described(else)
      BY <1>5, <1>15 DEF IInv
  <2>2. ASSUME NEW k \in 1..Rank(then)
        PROVE  then.static[k] = else.static[k]
    <3>1. dims[k].const
        BY <1>8, <1>12, <1>15 DEF Constant
    <3>2. then.type[k].const /\ else.type[k].const /\ then.type[k].n = else.type[k].n
        BY <1>4, <1>8, <3>1
    <3>3. then.static[k] = then.type[k].n /\ else.static[k] = else.type[k].n
        BY <1>9, <2>1, <3>2 DEF Described
    <3> QED
        BY <3>2, <3>3
  <2>3. PICK S : S = 1..Rank(then)
      OBVIOUS
  <2>4. PICK f, g : f = then.static /\ g = else.static
      OBVIOUS
  <2>5. f \in [S -> Nat \cup {Dyn}] /\ g \in [S -> Nat \cup {Dyn}] /\ \A k \in S : f[k] = g[k]
      BY <1>9, <2>2, <2>3, <2>4
  <2>6. f = g
      BY <2>5, SameFunction
  <2> QED
      BY <2>4, <2>6
<1>16. ok \in BOOLEAN
    OBVIOUS
<1> HIDE DEF ok
<1> QED
    BY <1>5, <1>11, <1>13, <1>14, <1>15, <1>16, BindInv

LEMMA ConcatInv ==
    ASSUME IInv, Concat
    PROVE  IInv'
<1>1. PICK p \in Pairs : \E dim \in DOMAIN p[1].type :
          /\ Rank(p[1]) = Rank(p[2])
          /\ \A k \in DOMAIN p[1].type \ {dim} : p[1].means.shape[k] = p[2].means.shape[k]
          /\ p[1].means.shape[dim] + p[2].means.shape[dim] <= MaxSize
          /\ LowerConcat(dim, p[1], p[2])
    BY DEF Concat
<1>2. PICK a, b : a = p[1] /\ b = p[2]
    OBVIOUS
<1>3. PICK dim \in DOMAIN a.type :
          /\ Rank(a) = Rank(b)
          /\ \A k \in DOMAIN a.type \ {dim} : a.means.shape[k] = b.means.shape[k]
          /\ a.means.shape[dim] + b.means.shape[dim] <= MaxSize
          /\ LowerConcat(dim, a, b)
    BY <1>1, <1>2
<1>4. a \in Bound /\ b \in Bound /\ phase = "lower"
    BY <1>1, <1>2, NewArrayFacts DEF Concat, Open
<1>5. Typed(a) /\ Typed(b)
    BY <1>4 DEF IInv
<1>6. PICK r \in 0..2 : r = Rank(a)
    BY <1>5, TypedFacts
<1>7. /\ a.type \in Seq(Dims) /\ Len(a.type) = r /\ DOMAIN a.type = 1..r
      /\ DOMAIN b.type = 1..r
      /\ a.static \in [1..r -> Nat \cup {Dyn}] /\ b.static \in [1..r -> Nat \cup {Dyn}]
      /\ a.means.shape \in [1..r -> Nat] /\ b.means.shape \in [1..r -> Nat]
      /\ a.means.shape = Sizes(a.type)
      /\ \A k \in 1..r : /\ a.type[k] \in Dims /\ a.type[k].n = a.means.shape[k]
                         /\ b.type[k].n = b.means.shape[k]
                         /\ a.type[k].const => a.static[k] # Dyn
                         /\ b.type[k].const => b.static[k] # Dyn
    BY <1>3, <1>5, <1>6, TypedFacts DEF Rank
<1>8. PICK const \in BOOLEAN :
          LET total == [n |-> a.means.shape[dim] + b.means.shape[dim], const |-> const] IN
          /\ const => a.type[dim].const /\ b.type[dim].const
          /\ Bind(Value([a.type EXCEPT ![dim] = total], ConcatStatic(dim, a, b),
                        Concatenated(dim, a.tensor, b.tensor),
                        Concatenated(dim, a.means, b.means)),
                  TRUE)
    BY <1>3 DEF LowerConcat
<1>9. PICK total : total = [n |-> a.means.shape[dim] + b.means.shape[dim], const |-> const]
    OBVIOUS
<1>10. total \in Dims /\ total.n = a.means.shape[dim] + b.means.shape[dim] /\ total.const = const
  <2>1. dim \in 1..r /\ a.means.shape[dim] \in Nat /\ b.means.shape[dim] \in Nat
      BY <1>3, <1>7
  <2>2. a.means.shape[dim] + b.means.shape[dim] \in 0..MaxSize
      BY <1>3, <2>1, ArraysAssumption
  <2> QED
      BY <1>9, <2>2 DEF Dims
<1>11. PICK type : type = [a.type EXCEPT ![dim] = total]
    OBVIOUS
<1>12. /\ type \in Seq(Dims) /\ Len(type) = r /\ DOMAIN type = 1..r
       /\ \A k \in 1..r : type[k] = IF k = dim THEN total ELSE a.type[k]
  <2>1. a.type \in [1..r -> Dims]
      BY <1>7
  <2>2. type \in [1..r -> Dims] /\ \A k \in 1..r : type[k] = IF k = dim THEN total ELSE a.type[k]
      BY <1>10, <1>11, <2>1
  <2>3. r \in Nat
      OBVIOUS
  <2> QED
      BY <2>2, <2>3
<1>13. PICK static : static = ConcatStatic(dim, a, b)
    OBVIOUS
<1>14. /\ static \in [1..r -> Nat \cup {Dyn}]
       /\ \A k \in 1..r : static[k] =
              IF k = dim
              THEN IF Dyn \in {a.static[k], b.static[k]} THEN Dyn ELSE a.static[k] + b.static[k]
              ELSE IF a.static[k] # Dyn THEN a.static[k] ELSE b.static[k]
  <2>1. DOMAIN a.static = 1..r
      BY <1>7
  <2>2. \A k \in 1..r : a.static[k] \in Nat \cup {Dyn} /\ b.static[k] \in Nat \cup {Dyn}
      BY <1>7
  <2>3. \A m, n \in Nat : m + n \in Nat
      OBVIOUS
  <2> QED
      BY <1>13, <2>1, <2>2, <2>3 DEF ConcatStatic
<1> DEFINE v == Value(type, static, Concatenated(dim, a.tensor, b.tensor),
                      Concatenated(dim, a.means, b.means))
<1>15. Bind(v, TRUE)
    BY <1>8, <1>9, <1>11, <1>13
<1>16. /\ v.type = type /\ v.static = static
       /\ v.tensor = Concatenated(dim, a.tensor, b.tensor)
       /\ v.means = Concatenated(dim, a.means, b.means)
    BY ValueFacts
<1> HIDE DEF v
<1>17. Whole(v.means) /\ v.means.shape = Sizes(type)
  <2>1. PICK sizes : sizes = [a.means.shape EXCEPT ![dim] = @ + b.means.shape[dim]]
      OBVIOUS
  <2>2. Whole(v.means) /\ v.means.shape = sizes
      BY <1>16, <2>1, OfWhole DEF Concatenated
  <2>3. sizes = Sizes(type)
    <3>1. DOMAIN sizes = 1..r /\ DOMAIN Sizes(type) = 1..r
        BY <1>7, <1>12, <2>1 DEF Sizes
    <3>2. ASSUME NEW k \in 1..r PROVE sizes[k] = Sizes(type)[k]
      <4>1. Sizes(type)[k] = type[k].n
          BY <1>12 DEF Sizes
      <4>2. sizes[k] = IF k = dim THEN a.means.shape[dim] + b.means.shape[dim]
                       ELSE a.means.shape[k]
          BY <1>7, <2>1
      <4> QED
          BY <1>7, <1>10, <1>12, <4>1, <4>2
    <3>3. sizes = [k \in 1..r |-> sizes[k]] /\ Sizes(type) = [k \in 1..r |-> Sizes(type)[k]]
        BY <1>7, <1>12, <2>1 DEF Sizes
    <3> QED
        BY <3>2, <3>3
  <2> QED
      BY <2>2, <2>3
<1>18. \A k \in 1..r : type[k].const => static[k] # Dyn
  <2>1. ASSUME NEW k \in 1..r, type[k].const PROVE static[k] # Dyn
    <3>1. CASE k = dim
      <4>1. a.static[k] # Dyn /\ b.static[k] # Dyn
          BY <1>7, <1>8, <1>10, <1>12, <2>1, <3>1
      <4>2. a.static[k] \in Nat /\ b.static[k] \in Nat
          BY <1>7, <4>1
      <4>3. a.static[k] + b.static[k] # Dyn
          BY <4>2 DEF Dyn
      <4> QED
          BY <1>14, <3>1, <4>1, <4>3
    <3>2. CASE k # dim
        BY <1>7, <1>12, <1>14, <2>1, <3>2
    <3> QED
        BY <3>1, <3>2
  <2> QED
      BY <2>1
<1>19. Typed(v)
    BY <1>12, <1>14, <1>16, <1>17, <1>18 DEF Typed
<1>20. ASSUME verifies
       PROVE  Described(v) /\ (~Respliced => Computed(v))
  <2>1. /\ Described(a) /\ Described(b)
        /\ ~Respliced => a.tensor = a.means /\ b.tensor = b.means
      BY <1>4, <1>20 DEF IInv, Computed
  <2>2. \A k \in 1..r : a.static[k] \in {Dyn, a.means.shape[k]} /\ b.static[k] \in {Dyn, b.means.shape[k]}
      BY <1>7, <2>1 DEF Described
  <2>3. ASSUME NEW k \in 1..r PROVE static[k] \in {Dyn, type[k].n}
    <3>1. CASE k = dim
        BY <1>10, <1>12, <1>14, <2>2, <3>1
    <3>2. CASE k # dim
      <4>1. a.means.shape[k] = b.means.shape[k] /\ type[k].n = a.means.shape[k]
          BY <1>3, <1>7, <1>12, <3>2
      <4> QED
          BY <1>14, <2>2, <3>2, <4>1
    <3> QED
        BY <3>1, <3>2
  <2> QED
      BY <1>12, <1>16, <2>1, <2>3 DEF Described, Computed
<1> QED
    BY <1>4, <1>15, <1>19, <1>20, BindInv

LEMMA ReturnInv ==
    ASSUME IInv, End
    PROVE  IInv'
<1>1. PICK a \in NewArray : \E dims \in DimsOf(Rank(a)) : Instance(dims, a) /\ Return(a, dims)
    BY DEF End
<1>2. PICK dims \in DimsOf(Rank(a)) : Instance(dims, a) /\ Return(a, dims)
    BY <1>1
<1>3. /\ phase = "lower" /\ phase' = "verify" /\ env' = env /\ declared' = dims
      /\ verifies' = (verifies /\ a.static = toShapeType(dims))
    BY <1>2 DEF Return
<1>4. a \in Bound /\ Typed(a)
    BY NewArrayFacts DEF IInv
<1>5. /\ Rank(a) \in Nat /\ DOMAIN a.type = 1..Rank(a)
      /\ a.static \in [1..Rank(a) -> Nat \cup {Dyn}]
      /\ \A k \in 1..Rank(a) : /\ a.type[k].n = a.means.shape[k]
                               /\ a.type[k].const => a.static[k] # Dyn
    BY <1>4, TypedFacts
<1>6. dims \in Seq(Dims) /\ Len(dims) = Rank(a)
    BY <1>2, <1>5, SizeFacts
<1>7. /\ DOMAIN dims = 1..Rank(a)
      /\ toShapeType(dims) \in [1..Rank(a) -> Nat \cup {Dyn}]
      /\ \A k \in 1..Rank(a) : /\ Sizes(dims)[k] = dims[k].n
                               /\ toShapeType(dims)[k] = IF dims[k].const THEN dims[k].n ELSE Dyn
    BY <1>6, DimsFacts
<1>8. Sizes(dims) = a.means.shape /\ \A k \in DOMAIN dims : dims[k].const => a.type[k].const
    BY <1>2 DEF Instance
<1>9. ASSUME \A v \in Bound : Constant(v.type), Constant(dims)
      PROVE  verifies /\ a.static = toShapeType(dims)
  <2>1. Constant(declared)
      BY <1>3 DEF IInv, Constant
  <2>2. verifies /\ Described(a)
      BY <1>4, <1>9, <2>1 DEF IInv
  <2>3. ASSUME NEW k \in 1..Rank(a)
        PROVE  a.static[k] = toShapeType(dims)[k]
    <3>1. dims[k].const /\ a.type[k].const
        BY <1>7, <1>8, <1>9 DEF Constant
    <3>2. a.static[k] = a.type[k].n
        BY <1>5, <2>2, <3>1 DEF Described
    <3>3. dims[k].n = a.type[k].n
        BY <1>5, <1>7, <1>8
    <3> QED
        BY <1>7, <3>1, <3>2, <3>3
  <2>4. PICK S : S = 1..Rank(a)
      OBVIOUS
  <2>5. PICK f, g : f = a.static /\ g = toShapeType(dims)
      OBVIOUS
  <2>6. f \in [S -> Nat \cup {Dyn}] /\ g \in [S -> Nat \cup {Dyn}] /\ \A k \in S : f[k] = g[k]
      BY <1>5, <1>7, <2>3, <2>4, <2>5
  <2>7. f = g
      BY <2>6, SameFunction
  <2> QED
      BY <2>2, <2>5, <2>7
<1>10. Bound' = Bound
    BY <1>3 DEF Bound
<1>11. (\A v \in Bound' : Constant(v.type)) /\ Constant(declared') => verifies'
    BY <1>3, <1>9, <1>10
<1>12. verifies' \in BOOLEAN /\ (verifies' => verifies)
    BY <1>3 DEF IInv
<1>13. env' \in Seq(Bound)' /\ Len(env') > 0
    BY <1>3, <1>10 DEF IInv
<1>14. \A v \in Bound' : Typed(v)
    BY <1>10 DEF IInv
<1>15. verifies' => \A v \in Bound' : Described(v) /\ (~Respliced => Computed(v))
    BY <1>10, <1>12 DEF IInv
<1> QED
    BY <1>3, <1>11, <1>12, <1>13, <1>14, <1>15 DEF IInv

LEMMA VerifyInv ==
    ASSUME IInv, Verify
    PROVE  IInv'
<1>1. /\ phase = "verify" /\ phase' = (IF verifies THEN "accepted" ELSE "refused")
      /\ env' = env /\ verifies' = verifies /\ declared' = declared
    BY DEF Verify
<1>2. Bound' = Bound
    BY <1>1 DEF Bound
<1> QED
    BY <1>1, <1>2 DEF IInv

LEMMA StutterInv ==
    ASSUME IInv, UNCHANGED vars
    PROVE  IInv'
<1>1. phase' = phase /\ env' = env /\ verifies' = verifies /\ declared' = declared
    BY DEF vars
<1>2. Bound' = Bound
    BY <1>1 DEF Bound
<1> QED
    BY <1>1, <1>2 DEF IInv

LEMMA InitInv ==
    ASSUME Init
    PROVE  IInv
<1>1. PICK rank \in 1..2 : \E dims \in [1..rank -> Size] :
          LET a == Of(Sizes(dims), [ix \in Indices(Sizes(dims)) |-> Flat(Sizes(dims), ix) + 1]) IN
          env = <<Value(dims, toShapeType(dims), a, a)>>
    BY DEF Init
<1>2. PICK dims \in [1..rank -> Size] :
          LET a == Of(Sizes(dims), [ix \in Indices(Sizes(dims)) |-> Flat(Sizes(dims), ix) + 1]) IN
          env = <<Value(dims, toShapeType(dims), a, a)>>
    BY <1>1
<1> DEFINE a == Of(Sizes(dims), [ix \in Indices(Sizes(dims)) |-> Flat(Sizes(dims), ix) + 1])
<1>3. dims \in Seq(Dims) /\ Len(dims) \in 0..2
  <2>1. rank \in Nat /\ rank \in 0..2
      OBVIOUS
  <2> QED
      BY <1>2, <2>1, SizeFacts DEF DimsOf
<1>4. Whole(a) /\ a.shape = Sizes(dims)
    BY OfWhole
<1> DEFINE v == Value(dims, toShapeType(dims), a, a)
<1>5. env = <<v>>
    BY <1>2
<1>6. v.tensor = a /\ v.means = a
    BY ValueFacts
<1> HIDE DEF a
<1>7. Typed(v) /\ Described(v)
    BY <1>3, <1>4, OfDims
<1> HIDE DEF v
<1>8. Bound = {v} /\ env \in Seq(Bound) /\ Len(env) > 0
  <2>1. DOMAIN env = {1} /\ env[1] = v /\ Len(env) = 1
      BY <1>5
  <2>2. Bound = {v}
      BY <2>1 DEF Bound
  <2>3. <<v>> \in Seq({v})
      OBVIOUS
  <2> QED
      BY <1>5, <2>1, <2>2, <2>3
<1>9. verifies = TRUE /\ declared = <<>> /\ phase = "lower"
    BY DEF Init
<1> QED
    BY <1>6, <1>7, <1>8, <1>9 DEF IInv, Computed

\* The dimensions of a replicate in front of those of the value.
LEMMA Joined ==
    ASSUME NEW S, NEW m \in Nat, NEW n \in Nat, NEW f \in [1..m -> S], NEW g \in [1..n -> S]
    PROVE  /\ f \o g \in [1..m + n -> S] /\ f \o g \in Seq(S) /\ Len(f \o g) = m + n
           /\ \A k \in 1..m + n : (f \o g)[k] = IF k <= m THEN f[k] ELSE g[k - m]
<1>1. f \in Seq(S) /\ g \in Seq(S) /\ Len(f) = m /\ Len(g) = n
    OBVIOUS
<1>2. /\ f \o g \in Seq(S) /\ Len(f \o g) = m + n
      /\ \A k \in 1..m + n : (f \o g)[k] = IF k <= m THEN f[k] ELSE g[k - m]
    BY <1>1
<1>3. PICK q : q = f \o g
    OBVIOUS
<1>7. PICK r \in Nat : r = m + n
    OBVIOUS
<1>4. q \in Seq(S) /\ Len(q) = r
    BY <1>2, <1>3, <1>7
<1>5. q \in [1..r -> S]
    BY <1>4
<1>6. f \o g \in [1..m + n -> S]
    BY <1>3, <1>5, <1>7
<1> QED
    BY <1>2, <1>6

LEMMA JoinedEmpty ==
    ASSUME NEW S, NEW n \in Nat, NEW f \in [1..n -> S], NEW g \in [1..0 -> S]
    PROVE  g = <<>> /\ f \o g = f
<1>1. g \in Seq(S) /\ Len(g) = 0 /\ f \in Seq(S)
    OBVIOUS
<1>2. g = <<>>
    BY <1>1
<1> QED
    BY <1>1, <1>2

LEMMA OnesAndTwos ==
    ASSUME NEW D, NEW x, NEW y,
           \A k : k \in D <=> (k = 1 /\ x = Dyn) \/ (k = 2 /\ y = Dyn)
    PROVE  /\ x = Dyn /\ y = Dyn => D = {1, 2}
           /\ x = Dyn /\ y # Dyn => D = {1}
           /\ x # Dyn /\ y = Dyn => D = {2}
           /\ x # Dyn /\ y # Dyn => D = {}
OBVIOUS

LEMMA PickJoined ==
    ASSUME NEW m \in 1..2, NEW n \in 0..1, m + n \in 1..2,
           NEW f \in [1..m -> Nat], NEW g \in [1..n -> Nat],
           NEW s \in [1..m -> Nat \cup {Dyn}], NEW t \in [1..n -> Nat \cup {Dyn}]
    PROVE  Pick(f, Unknown(s)) \o Pick(g, Unknown(t)) = Pick(f \o g, Unknown(s \o t))
<1> DEFINE S == Nat
<1>3. f \in [1..m -> S] /\ g \in [1..n -> S]
    OBVIOUS
<1> HIDE DEF S
<1>1. CASE n = 0
  <2>1. g \in [1..0 -> S] /\ t \in [1..0 -> Nat \cup {Dyn}] /\ m \in Nat
      BY <1>1, <1>3
  <2>2. g = <<>> /\ f \o g = f /\ t = <<>> /\ s \o t = s
      BY <2>1, JoinedEmpty
  <2>3. Unknown(t) = {}
      BY <2>2 DEF Unknown
  <2>4. Pick(g, Unknown(t)) = <<>>
      BY <2>3, PickFacts
  <2>5. Unknown(s) \in SUBSET (1..m) /\ m \in 0..2
      BY DEF Unknown
  <2>6. Pick(f, Unknown(s)) \in Seq(S)
      BY <1>3, <2>5, PickSeq
  <2>7. \A q \in Seq(S) : q \o <<>> = q
      OBVIOUS
  <2> QED
      BY <2>2, <2>4, <2>6, <2>7
<1>2. CASE n = 1 /\ m = 1
  <2>1. f \in [1..1 -> S] /\ g \in [1..1 -> S] /\ 1 + 1 = 2 /\ 1 \in Nat
      BY <1>2, <1>3
  <2>2. s \in [1..1 -> Nat \cup {Dyn}] /\ t \in [1..1 -> Nat \cup {Dyn}]
      BY <1>2
  <2>3. PICK one : one = 1
      OBVIOUS
  <2>4. /\ f \o g \in Seq(S) /\ Len(f \o g) = one + one
        /\ \A k \in 1..one + one : (f \o g)[k] = IF k <= one THEN f[k] ELSE g[k - one]
    <3>1. one \in Nat /\ f \in [1..one -> S] /\ g \in [1..one -> S]
        BY <2>1, <2>3
    <3> QED
        BY <3>1, Joined
  <2>5. /\ DOMAIN (s \o t) = 1..one + one
        /\ \A k \in 1..one + one : (s \o t)[k] = IF k <= one THEN s[k] ELSE t[k - one]
    <3>1. PICK T : T = Nat \cup {Dyn}
        OBVIOUS
    <3>2. one \in Nat /\ s \in [1..one -> T] /\ t \in [1..one -> T]
        BY <2>2, <2>3, <3>1
    <3>3. /\ s \o t \in Seq(T) /\ Len(s \o t) = one + one
          /\ \A k \in 1..one + one : (s \o t)[k] = IF k <= one THEN s[k] ELSE t[k - one]
        BY <3>2, Joined
    <3>4. PICK q : q = s \o t
        OBVIOUS
    <3>5. q \in Seq(T) /\ Len(q) = one + one
        BY <3>3, <3>4
    <3>6. DOMAIN q = 1..one + one
        BY <3>5
    <3> QED
        BY <3>3, <3>4, <3>6
  <2>15. (f \o g)[1] = f[1] /\ (f \o g)[2] = g[1] /\ (s \o t)[1] = s[1] /\ (s \o t)[2] = t[1]
      BY <2>3, <2>4, <2>5
  <2>6. DOMAIN (s \o t) = 1..2 /\ DOMAIN s = 1..1 /\ DOMAIN t = 1..1
      BY <2>2, <2>3, <2>5
  <2>7. Unknown(s) = IF s[1] = Dyn THEN {1} ELSE {}
      BY <2>6 DEF Unknown
  <2>8. Unknown(t) = IF t[1] = Dyn THEN {1} ELSE {}
      BY <2>6 DEF Unknown
  <2>9. \A k : k \in Unknown(s \o t) <=> (k = 1 /\ s[1] = Dyn) \/ (k = 2 /\ t[1] = Dyn)
    <3>1. Unknown(s \o t) = {k \in 1..2 : (s \o t)[k] = Dyn}
        BY <2>6 DEF Unknown
    <3>2. \A k \in 1..2 : k = 1 \/ k = 2
        OBVIOUS
    <3>3. PICK q, D : q = s \o t /\ D = Unknown(s \o t)
        OBVIOUS
    <3>4. D = {k \in 1..2 : q[k] = Dyn} /\ q[1] = s[1] /\ q[2] = t[1]
        BY <2>15, <3>1, <3>3
    <3>5. \A k : k \in D <=> (k = 1 /\ s[1] = Dyn) \/ (k = 2 /\ t[1] = Dyn)
        BY <3>2, <3>4
    <3> QED
        BY <3>3, <3>5
  <2>10. /\ s[1] = Dyn /\ t[1] = Dyn => Unknown(s \o t) = {1, 2}
         /\ s[1] = Dyn /\ t[1] # Dyn => Unknown(s \o t) = {1}
         /\ s[1] # Dyn /\ t[1] = Dyn => Unknown(s \o t) = {2}
         /\ s[1] # Dyn /\ t[1] # Dyn => Unknown(s \o t) = {}
    <3> QED
        BY <2>9, OnesAndTwos
  <2>11. f[1] \in S /\ g[1] \in S
      BY <2>1
  <2>12. /\ <<f[1]>> \o <<g[1]>> = <<f[1], g[1]>> /\ <<>> \o <<g[1]>> = <<g[1]>>
         /\ <<f[1]>> \o <<>> = <<f[1]>> /\ <<>> \o <<>> = <<>>
    <3>1. <<>> \in Seq(S) /\ <<f[1]>> \in Seq(S) /\ <<g[1]>> \in Seq(S)
        BY <2>11
    <3>2. \A q \in Seq(S) : q \o <<>> = q /\ <<>> \o q = q
        OBVIOUS
    <3>3. <<f[1]>> \o <<g[1]>> = <<f[1], g[1]>>
      <4>1. f = <<f[1]>> /\ g = <<g[1]>>
          BY <2>1
      <4>2. f \o g = <<(f \o g)[1], (f \o g)[2]>>
        <5>1. PICK q : q = f \o g
            OBVIOUS
        <5>2. q \in Seq(S) /\ Len(q) = 2
            BY <2>3, <2>4, <5>1
        <5>3. q = <<q[1], q[2]>>
            BY <5>2
        <5> QED
            BY <5>1, <5>3
      <4> QED
          BY <2>15, <4>1, <4>2
    <3> QED
        BY <3>1, <3>2, <3>3
  <2>13. /\ Pick(f, Unknown(s)) = IF s[1] = Dyn THEN <<f[1]>> ELSE <<>>
         /\ Pick(g, Unknown(t)) = IF t[1] = Dyn THEN <<g[1]>> ELSE <<>>
      BY <2>7, <2>8, PickFacts
  <2>14. /\ s[1] = Dyn /\ t[1] = Dyn => Pick(f \o g, Unknown(s \o t)) = <<f[1], g[1]>>
         /\ s[1] = Dyn /\ t[1] # Dyn => Pick(f \o g, Unknown(s \o t)) = <<f[1]>>
         /\ s[1] # Dyn /\ t[1] = Dyn => Pick(f \o g, Unknown(s \o t)) = <<g[1]>>
         /\ s[1] # Dyn /\ t[1] # Dyn => Pick(f \o g, Unknown(s \o t)) = <<>>
      BY <2>10, <2>15, PickFacts
  <2> QED
      BY <2>12, <2>13, <2>14
<1>4. n = 0 \/ (n = 1 /\ m = 1)
    OBVIOUS
<1> QED
    BY <1>1, <1>2, <1>4

\* What linalg.broadcast leaves of an index is its end.
LEMMA PickEnd ==
    ASSUME NEW r \in 1..2, NEW m \in 1..r, NEW ix \in [1..r -> Int]
    PROVE  Pick(ix, (1..r) \ (1..m)) = SubSeq(ix, m + 1, Len(ix))
<1>1. ix \in Seq(Int) /\ Len(ix) = r
    OBVIOUS
<1>2. CASE m = r
  <2>1. (1..r) \ (1..m) = {}
      BY <1>2
  <2>2. SubSeq(ix, m + 1, Len(ix)) = <<>>
      BY <1>1, <1>2
  <2> QED
      BY <2>1, <2>2, PickFacts
<1>3. CASE m = 1 /\ r = 2
  <2>1. (1..r) \ (1..m) = {2}
      BY <1>3
  <2>2. SubSeq(ix, 2, 2) = <<ix[2]>>
    <3>1. ix \in Seq(Int) /\ Len(ix) = 2
        BY <1>1, <1>3
    <3>2. PICK q : q = SubSeq(ix, 2, 2)
        OBVIOUS
    <3>3. q \in Seq(Int) /\ Len(q) = 1 /\ q[1] = ix[2]
      <4>1. /\ \A i \in 2..2 : ix[i] \in Int
            /\ 2 \in Int /\ 2 - 2 + 1 = 1
          BY <3>1
      <4>2. /\ SubSeq(ix, 2, 2) \in Seq(Int)
            /\ Len(SubSeq(ix, 2, 2)) = 2 - 2 + 1
            /\ \A i \in 1..2 - 2 + 1 : SubSeq(ix, 2, 2)[i] = ix[2 + i - 1]
          BY <4>1, SubSeqProperties
      <4> QED
          BY <3>2, <4>1, <4>2
    <3>4. q = <<q[1]>>
        BY <3>3
    <3> QED
        BY <3>2, <3>3, <3>4
  <2>3. m + 1 = 2 /\ Len(ix) = 2
      BY <1>1, <1>3
  <2>4. Pick(ix, (1..r) \ (1..m)) = <<ix[2]>>
      BY <2>1, PickFacts
  <2> QED
      BY <2>2, <2>3, <2>4
<1>4. m = r \/ (m = 1 /\ r = 2)
    OBVIOUS
<1> QED
    BY <1>2, <1>3, <1>4

LEMMA ReplicateInv ==
    ASSUME IInv, Replicate
    PROVE  IInv'
<1>1. PICK a \in Newest : \E rank \in 0..2 - Rank(a) : \E dims \in DimsOf(rank) : LowerReplicate(dims, a)
    BY DEF Replicate
<1>2. PICK rank \in 0..2 - Rank(a) : \E dims \in DimsOf(rank) : LowerReplicate(dims, a)
    BY <1>1
<1>3. PICK dims \in DimsOf(rank) : LowerReplicate(dims, a)
    BY <1>2
<1>4. a \in Bound /\ Typed(a) /\ phase = "lower"
    BY NewArrayFacts DEF IInv, Replicate, Open
<1>5. /\ a.type \in Seq(Dims) /\ Len(a.type) = Rank(a) /\ DOMAIN a.type = 1..Rank(a)
      /\ a.static \in [1..Rank(a) -> Nat \cup {Dyn}]
      /\ a.means.shape \in [1..Rank(a) -> Nat]
      /\ Rank(a) \in 0..2
      /\ \A k \in 1..Rank(a) : /\ a.type[k].n = a.means.shape[k]
                               /\ a.type[k].const => a.static[k] # Dyn
    BY <1>4, TypedFacts DEF Rank
<1>6. /\ rank \in Nat /\ rank \in 0..2 /\ rank + Rank(a) <= 2
      /\ Rank(a) \in Nat
  <2>1. PICK r \in 0..2 : r = Rank(a)
      BY <1>5
  <2>2. rank \in 0..2 - r
      BY <2>1
  <2>3. rank \in Nat /\ rank \in 0..2 /\ rank + r <= 2
      BY <2>2
  <2>4. rank + Rank(a) <= 2
      BY <2>1, <2>3
  <2>5. Rank(a) \in Nat
      BY <2>1
  <2> QED
      BY <2>3, <2>4, <2>5
<1>7. dims \in Seq(Dims) /\ Len(dims) = rank /\ DOMAIN dims = 1..rank
  <2>1. dims \in Seq(Dims) /\ Len(dims) = rank
      BY <1>3, <1>6, SizeFacts
  <2> QED
      BY <2>1
<1>8. CASE rank = 0
  <2>1. dims = <<>>
      BY <1>7, <1>8
  <2>2. Bind(a, TRUE)
      BY <1>3, <2>1 DEF LowerReplicate
  <2>3. verifies => Described(a) /\ (~Respliced => Computed(a))
      BY <1>4 DEF IInv
  <2> QED
      BY <1>4, <2>2, <2>3, BindInv
<1>9. CASE rank # 0
  <2>1. PICK m \in 1..2, n \in 0..1 : m = rank /\ n = Rank(a) /\ m + n <= 2
      BY <1>5, <1>6, <1>9
  <2>2. m \in Nat /\ n \in Nat /\ m + n \in 1..2 /\ m <= m + n
      BY <2>1
  <2>3. PICK outer, inner, d1, d2, f1, f2 :
            /\ outer = toShapeType(dims) /\ inner = a.static
            /\ d1 = dims /\ d2 = a.type
            /\ f1 = Sizes(dims) /\ f2 = a.means.shape
      OBVIOUS
  <2>4. PICK static : static = outer \o inner
      OBVIOUS
  <2>5. PICK type : type = d1 \o d2
      OBVIOUS
  <2>6. PICK all : all = f1 \o f2
      OBVIOUS
  <2>7. /\ outer \in [1..m -> Nat \cup {Dyn}]
        /\ f1 \in [1..m -> Nat]
        /\ d1 \in [1..m -> Dims]
        /\ \A k \in 1..m : f1[k] = d1[k].n
        /\ \A k \in 1..m : outer[k] # Dyn <=> d1[k].const
        /\ \A k \in 1..m : outer[k] \in {Dyn, f1[k]}
    <3>1. /\ toShapeType(dims) \in [1..rank -> Nat \cup {Dyn}]
          /\ Sizes(dims) \in [1..rank -> Nat]
        BY <1>7, DimsFacts
    <3>2. \A k \in 1..rank : /\ Sizes(dims)[k] = dims[k].n
                             /\ toShapeType(dims)[k] # Dyn <=> dims[k].const
                             /\ toShapeType(dims)[k] \in {Dyn, Sizes(dims)[k]}
        BY <1>7, DimsFacts
    <3>3. dims \in [1..rank -> Dims]
        BY <1>7
    <3> QED
        BY <2>1, <2>3, <3>1, <3>2, <3>3
  <2>26. /\ inner \in [1..n -> Nat \cup {Dyn}]
         /\ f2 \in [1..n -> Nat]
         /\ d2 \in [1..n -> Dims]
         /\ \A k \in 1..n : f2[k] = d2[k].n
         /\ \A k \in 1..n : d2[k].const => inner[k] # Dyn
    <3>1. a.type \in [1..Rank(a) -> Dims]
        BY <1>5
    <3>2. /\ inner \in [1..Rank(a) -> Nat \cup {Dyn}]
          /\ f2 \in [1..Rank(a) -> Nat]
          /\ d2 \in [1..Rank(a) -> Dims]
          /\ \A k \in 1..Rank(a) : f2[k] = d2[k].n
          /\ \A k \in 1..Rank(a) : d2[k].const => inner[k] # Dyn
        BY <1>5, <2>3, <3>1
    <3> QED
        BY <2>1, <3>2
  <2>27. \A k \in 1..m + n : k <= m => k \in 1..m
      BY <2>2
  <2>28. \A k \in 1..m + n : ~(k <= m) => k - m \in 1..n
      BY <2>2
  <2>8. /\ static \in [1..m + n -> Nat \cup {Dyn}]
        /\ DOMAIN static = 1..m + n
        /\ \A k \in 1..m + n : static[k] = IF k <= m THEN outer[k] ELSE inner[k - m]
    <3>1. PICK T : T = Nat \cup {Dyn}
        OBVIOUS
    <3>2. outer \in [1..m -> T] /\ inner \in [1..n -> T] /\ m \in Nat /\ n \in Nat
        BY <2>2, <2>7, <2>26, <3>1
    <3>3. outer \o inner \in [1..m + n -> T]
        BY <3>2, Joined
    <3>4. \A k \in 1..m + n : (outer \o inner)[k] = IF k <= m THEN outer[k] ELSE inner[k - m]
        BY <3>2, Joined
    <3>5. DOMAIN static = 1..m + n
        BY <2>4, <3>3
    <3> QED
        BY <2>4, <3>1, <3>3, <3>4, <3>5
  <2>9. /\ type \in Seq(Dims) /\ Len(type) = m + n /\ DOMAIN type = 1..m + n
        /\ \A k \in 1..m + n : type[k] = IF k <= m THEN d1[k] ELSE d2[k - m]
    <3>1. m \in Nat /\ n \in Nat /\ d1 \in [1..m -> Dims] /\ d2 \in [1..n -> Dims]
        BY <2>2, <2>7, <2>26
    <3>2. d1 \o d2 \in Seq(Dims) /\ Len(d1 \o d2) = m + n
        BY <3>1, Joined
    <3>3. \A k \in 1..m + n : (d1 \o d2)[k] = IF k <= m THEN d1[k] ELSE d2[k - m]
        BY <3>1, Joined
    <3>4. DOMAIN type = 1..m + n
        BY <2>5, <3>2
    <3> QED
        BY <2>5, <3>2, <3>3, <3>4
  <2>10. /\ all \in [1..m + n -> Nat] /\ DOMAIN all = 1..m + n
         /\ \A k \in 1..m + n : all[k] = IF k <= m THEN f1[k] ELSE f2[k - m]
    <3>1. m \in Nat /\ n \in Nat /\ f1 \in [1..m -> Nat] /\ f2 \in [1..n -> Nat]
        BY <2>2, <2>7, <2>26
    <3>2. f1 \o f2 \in [1..m + n -> Nat]
        BY <3>1, Joined
    <3>3. \A k \in 1..m + n : (f1 \o f2)[k] = IF k <= m THEN f1[k] ELSE f2[k - m]
        BY <3>1, Joined
    <3>4. DOMAIN all = 1..m + n
        BY <2>6, <3>2
    <3> QED
        BY <2>6, <3>2, <3>3, <3>4
  <2>11. all = Sizes(type)
    <3>1. ASSUME NEW k \in 1..m + n PROVE all[k] = type[k].n
      <4>1. CASE k <= m
        <5>1. k \in 1..m /\ all[k] = f1[k] /\ type[k] = d1[k]
            BY <2>9, <2>10, <2>27, <4>1
        <5> QED
            BY <2>7, <5>1
      <4>2. CASE ~(k <= m)
        <5>1. k - m \in 1..n /\ all[k] = f2[k - m] /\ type[k] = d2[k - m]
            BY <2>9, <2>10, <2>28, <4>2
        <5> QED
            BY <2>26, <5>1
      <4> QED
          BY <4>1, <4>2
    <3>2. Sizes(type) = [k \in 1..m + n |-> type[k].n]
        BY <2>9 DEF Sizes
    <3>3. all = [k \in 1..m + n |-> all[k]]
        BY <2>10
    <3> QED
        BY <3>1, <3>2, <3>3
  <2>12. ASSUME NEW k \in 1..m + n, type[k].const PROVE static[k] # Dyn
    <3>1. CASE k <= m
      <4>1. k \in 1..m /\ static[k] = outer[k] /\ type[k] = d1[k]
          BY <2>8, <2>9, <2>27, <3>1
      <4> QED
          BY <2>7, <2>12, <4>1
    <3>2. CASE ~(k <= m)
      <4>1. k - m \in 1..n /\ static[k] = inner[k - m] /\ type[k] = d2[k - m]
          BY <2>8, <2>9, <2>28, <3>2
      <4> QED
          BY <2>12, <2>26, <4>1
    <3> QED
        BY <3>1, <3>2
  <2>13. PICK operands : operands = DynamicSizes(dims, a)
      OBVIOUS
  <2>14. operands = Pick(f1, Unknown(outer)) \o Pick(a.tensor.shape, Unknown(inner))
      BY <2>3, <2>13 DEF DynamicSizes, Unknown
  <2>15. ASSUME Constant(type) PROVE EmptyVerifies(static, operands)
    <3>1. \A k \in DOMAIN static : static[k] # Dyn
        BY <2>8, <2>9, <2>12, <2>15 DEF Constant
    <3>2. \A k \in DOMAIN outer : outer[k] # Dyn
      <4>1. ASSUME NEW k \in 1..m PROVE outer[k] # Dyn
        <5>1. k \in 1..m + n /\ k <= m
            BY <2>2
        <5> QED
            BY <2>8, <3>1, <5>1
      <4> QED
          BY <2>7, <4>1
    <3>3. \A k \in DOMAIN inner : inner[k] # Dyn
      <4>1. ASSUME NEW k \in 1..n PROVE inner[k] # Dyn
        <5>1. k + m \in 1..m + n /\ ~(k + m <= m) /\ (k + m) - m = k
            BY <2>2
        <5>2. static[k + m] = inner[(k + m) - m] /\ static[k + m] # Dyn
            BY <2>8, <3>1, <5>1
        <5> QED
            BY <5>1, <5>2
      <4> QED
          BY <2>26, <4>1
    <3>4. Unknown(outer) = {} /\ Unknown(inner) = {} /\ EmptyVerifies(static, <<>>)
        BY <3>1, <3>2, <3>3, NoUnknown
    <3>5. <<>> \o <<>> = <<>>
      <4>1. <<>> \in Seq({}) /\ \A q \in Seq({}) : q \o <<>> = q
          OBVIOUS
      <4> QED
          BY <4>1
    <3>6. operands = <<>>
        BY <2>14, <3>4, <3>5, PickFacts
    <3> QED
        BY <3>4, <3>6
  <2>16. ASSUME verifies, ~Respliced
         PROVE  EmptyShape(static, operands) = all
    <3>1. Described(a) /\ a.tensor = a.means
        BY <1>4, <2>16 DEF IInv, Computed
    <3>2. operands = Pick(all, Unknown(static))
      <4>1. operands = Pick(f1, Unknown(outer)) \o Pick(f2, Unknown(inner))
          BY <2>3, <2>14, <3>1
      <4>2. /\ f1 \in [1..m -> Nat] /\ f2 \in [1..n -> Nat]
            /\ outer \in [1..m -> Nat \cup {Dyn}] /\ inner \in [1..n -> Nat \cup {Dyn}]
          BY <2>7, <2>26
      <4>3. Pick(f1, Unknown(outer)) \o Pick(f2, Unknown(inner))
                = Pick(f1 \o f2, Unknown(outer \o inner))
        <5>1. m \in 1..2 /\ n \in 0..1 /\ m + n \in 1..2
            BY <2>1, <2>2
        <5> QED
            BY <4>2, <5>1, PickJoined
      <4> QED
          BY <2>4, <2>6, <4>1, <4>3
    <3>3. ASSUME NEW k \in 1..m + n PROVE static[k] \in {Dyn, all[k]}
      <4>1. CASE k <= m
        <5>1. k \in 1..m /\ static[k] = outer[k] /\ all[k] = f1[k]
            BY <2>8, <2>10, <2>27, <4>1
        <5> QED
            BY <2>7, <5>1
      <4>2. CASE ~(k <= m)
        <5>1. k - m \in 1..n /\ static[k] = inner[k - m] /\ all[k] = f2[k - m]
            BY <2>8, <2>10, <2>28, <4>2
        <5>2. inner[k - m] \in {Dyn, d2[k - m].n}
            BY <1>5, <2>1, <2>3, <3>1, <5>1 DEF Described
        <5> QED
            BY <2>26, <5>1, <5>2
      <4> QED
          BY <4>1, <4>2
    <3>4. PICK r \in 0..2 : r = m + n
        BY <2>2
    <3>5. /\ static \in [1..r -> Nat \cup {Dyn}] /\ all \in [1..r -> Nat]
          /\ \A k \in 1..r : static[k] \in {Dyn, all[k]}
        BY <2>8, <2>10, <3>3, <3>4
    <3>6. EmptyShape(static, Pick(all, Unknown(static))) = all
        BY <3>5, EmptyShapeIs
    <3> QED
        BY <3>2, <3>6
  <2> DEFINE tensor == Broadcast(a.tensor, EmptyShape(static, operands), 1..Len(dims))
             means == Of(all, [ix \in Indices(all) |->
                          a.means.at[SubSeq(ix, Len(dims) + 1, Len(ix))]])
             ok == EmptyVerifies(static, operands)
             v == Value(type, static, tensor, means)
  <2>17. Bind(v, ok)
    <3>1. dims # <<>>
        BY <1>7, <1>9
    <3> QED
        BY <1>3, <2>3, <2>4, <2>5, <2>6, <2>13, <3>1 DEF LowerReplicate
  <2>18. v.type = type /\ v.static = static /\ v.tensor = tensor /\ v.means = means
      BY ValueFacts
  <2>19. Whole(means) /\ means.shape = all
      BY OfWhole
  <2>20. ASSUME verifies, ~Respliced
         PROVE  tensor = means
    <3>1. a.tensor = a.means
        BY <1>4, <2>20 DEF IInv, Computed
    <3>2. DOMAIN all = 1..m + n
        BY <2>10
    <3>3. ASSUME NEW ix \in Indices(all)
          PROVE  Pick(ix, DOMAIN all \ (1..Len(dims))) = SubSeq(ix, Len(dims) + 1, Len(ix))
      <4>1. ix \in [1..m + n -> 0..MaxSize - 1]
          BY <3>2 DEF Indices
      <4>2. PICK r \in 1..2 : r = m + n
          BY <2>2
      <4>3. Pick(ix, (1..r) \ (1..m)) = SubSeq(ix, m + 1, Len(ix))
        <5>1. m \in 1..r /\ ix \in [1..r -> 0..MaxSize - 1]
            BY <2>1, <2>2, <4>1, <4>2
        <5>2. 0..MaxSize - 1 \subseteq Int
            OBVIOUS
        <5>3. ix \in [1..r -> Int]
            BY <5>1, <5>2
        <5> QED
            BY <5>1, <5>3, PickEnd
      <4> QED
          BY <1>7, <2>1, <3>2, <4>2, <4>3
    <3>4. tensor = Broadcast(a.means, all, 1..Len(dims))
        BY <2>16, <2>20, <3>1
    <3>5. Broadcast(a.means, all, 1..Len(dims))
              = Of(all, [ix \in Indices(all) |-> a.means.at[Pick(ix, DOMAIN all \ (1..Len(dims)))]])
        BY DEF Broadcast
    <3> HIDE DEF tensor
    <3> QED
        BY <3>3, <3>4, <3>5
  <2>21. ok \in BOOLEAN
      BY DEF EmptyVerifies
  <2> HIDE DEF tensor, means, ok, v
  <2>22. Typed(v)
    <3>1. v.type \in Seq(Dims) /\ Len(v.type) \in 0..2 /\ DOMAIN v.type = 1..m + n
      <4>1. m + n \in 0..2
          BY <2>2
      <4> QED
          BY <2>9, <2>18, <4>1
    <3> QED
        BY <2>8, <2>11, <2>12, <2>18, <2>19, <3>1 DEF Typed
  <2>23. ASSUME verifies PROVE Described(v)
    <3>1. Described(a)
        BY <1>4, <2>23 DEF IInv
    <3>2. DOMAIN v.type = 1..m + n
        BY <2>9, <2>18
    <3>3. ASSUME NEW k \in 1..m + n PROVE static[k] \in {Dyn, type[k].n}
      <4>1. CASE k <= m
        <5>1. k \in 1..m /\ static[k] = outer[k] /\ type[k] = d1[k]
            BY <2>8, <2>9, <2>27, <4>1
        <5> QED
            BY <2>7, <5>1
      <4>2. CASE ~(k <= m)
        <5>1. k - m \in 1..n /\ static[k] = inner[k - m] /\ type[k] = d2[k - m]
            BY <2>8, <2>9, <2>28, <4>2
        <5>2. inner[k - m] \in {Dyn, d2[k - m].n}
            BY <1>5, <2>1, <2>3, <3>1, <5>1 DEF Described
        <5> QED
            BY <5>1, <5>2
      <4> QED
          BY <4>1, <4>2
    <3> QED
        BY <2>18, <3>2, <3>3 DEF Described
  <2>24. verifies /\ ok => Described(v) /\ (~Respliced => Computed(v))
      BY <2>18, <2>20, <2>23 DEF Computed
  <2>25. Constant(v.type) => ok
      BY <2>15, <2>18 DEF ok
  <2> QED
      BY <1>4, <2>17, <2>21, <2>22, <2>24, <2>25, BindInv
<1> QED
    BY <1>8, <1>9

LEMMA IndexFacts ==
    ASSUME NEW n \in Nat, NEW shape \in [1..n -> Nat]
    PROVE  \A ix : ix \in Indices(shape) <=>
                      /\ ix \in [1..n -> 0..MaxSize - 1]
                      /\ \A k \in 1..n : ix[k] < shape[k]
BY DEF Indices

\* The dimensions of a transpose change places: none is left out.
LEMMA Permutes ==
    ASSUME NEW r \in 1..2, NEW perm \in [1..r -> 1..r],
           \A i, j \in 1..r : perm[i] = perm[j] => i = j
    PROVE  \A d \in 1..r : \E k \in 1..r : perm[k] = d
<1>1. CASE r = 1
  <2>1. 1 \in 1..r /\ perm[1] \in 1..r
      BY <1>1
  <2> QED
      BY <1>1, <2>1
<1>2. CASE r = 2
  <2>1. 1 \in 1..r /\ 2 \in 1..r /\ perm[1] \in 1..2 /\ perm[2] \in 1..2
      BY <1>2
  <2>2. perm[1] # perm[2]
      BY <2>1
  <2> QED
      BY <1>2, <2>1, <2>2
<1> QED
    BY <1>1, <1>2

LEMMA RearrangeInv ==
    ASSUME IInv, Rearrange
    PROVE  IInv'
<1>1. PICK a \in NewArray : \E perm \in [1..Rank(a) -> 1..Rank(a)] :
          (\A i, j \in DOMAIN perm : perm[i] = perm[j] => i = j) /\ LowerRearrange(a, perm)
    BY DEF Rearrange
<1>2. PICK perm \in [1..Rank(a) -> 1..Rank(a)] :
          (\A i, j \in DOMAIN perm : perm[i] = perm[j] => i = j) /\ LowerRearrange(a, perm)
    BY <1>1
<1>3. a \in Bound /\ Rank(a) \in 1..2 /\ Typed(a) /\ phase = "lower"
    BY NewArrayFacts DEF IInv, Rearrange, Open
<1>4. PICK r \in 1..2 : r = Rank(a)
    BY <1>3
<1>5. /\ perm \in [1..r -> 1..r] /\ DOMAIN perm = 1..r
      /\ \A i, j \in 1..r : perm[i] = perm[j] => i = j
    BY <1>2, <1>4
<1>6. \A d \in 1..r : \E k \in 1..r : perm[k] = d
    BY <1>5, Permutes
<1>7. /\ a.type \in Seq(Dims) /\ DOMAIN a.type = 1..r
      /\ a.static \in [1..r -> Nat \cup {Dyn}]
      /\ a.means.shape \in [1..r -> Nat]
      /\ \A k \in 1..r : /\ a.type[k] \in Dims /\ a.type[k].n = a.means.shape[k]
                         /\ a.type[k].const => a.static[k] # Dyn
    BY <1>3, <1>4, TypedFacts
<1>8. PICK type : type = [k \in DOMAIN perm |-> a.type[perm[k]]]
    OBVIOUS
<1>9. PICK static : static = PermutedStatic(a, perm)
    OBVIOUS
<1>10. PICK shape : shape = [k \in DOMAIN perm |-> a.means.shape[perm[k]]]
    OBVIOUS
<1>11. \A k \in 1..r : perm[k] \in 1..r
    BY <1>5
<1>12. /\ type \in [1..r -> Dims] /\ type \in Seq(Dims) /\ Len(type) = r /\ DOMAIN type = 1..r
       /\ \A k \in 1..r : type[k] = a.type[perm[k]]
  <2>1. type \in [1..r -> Dims] /\ \A k \in 1..r : type[k] = a.type[perm[k]]
      BY <1>5, <1>7, <1>8, <1>11
  <2>2. r \in Nat
      OBVIOUS
  <2> QED
      BY <2>1, <2>2
<1>13. /\ static \in [1..r -> Nat \cup {Dyn}] /\ DOMAIN static = 1..r
       /\ \A k \in 1..r : static[k] = a.static[perm[k]]
  <2>1. static = [k \in 1..r |-> a.static[perm[k]]]
      BY <1>5, <1>9 DEF PermutedStatic
  <2>2. \A k \in 1..r : a.static[perm[k]] \in Nat \cup {Dyn}
      BY <1>7, <1>11
  <2> QED
      BY <2>1, <2>2
<1>14. /\ shape \in [1..r -> Nat] /\ shape = Sizes(type)
       /\ \A k \in 1..r : shape[k] = a.means.shape[perm[k]]
  <2>1. shape \in [1..r -> Nat] /\ \A k \in 1..r : shape[k] = a.means.shape[perm[k]]
      BY <1>5, <1>7, <1>10, <1>11
  <2>2. Sizes(type) = [k \in 1..r |-> type[k].n]
      BY <1>12 DEF Sizes
  <2>3. \A k \in 1..r : type[k].n = shape[k]
    <3>1. ASSUME NEW k \in 1..r PROVE type[k].n = shape[k]
      <4>1. PICK d \in 1..r : d = perm[k]
          BY <1>11
      <4>2. type[k] = a.type[d] /\ shape[k] = a.means.shape[d]
          BY <1>12, <2>1, <4>1
      <4>3. a.type[d].n = a.means.shape[d]
          BY <1>7
      <4> QED
          BY <4>2, <4>3
    <3> QED
        BY <3>1
  <2>4. shape = [k \in 1..r |-> shape[k]]
      BY <2>1
  <2> QED
      BY <2>1, <2>2, <2>3, <2>4
<1> DEFINE tensor == Transpose(a.tensor, perm)
           at == [ix \in Indices(shape) |->
                    a.means.at[CHOOSE jx \in Indices(a.means.shape) :
                                  \A k \in DOMAIN perm : jx[perm[k]] = ix[k]]]
           means == Of(shape, at)
           ok == /\ EmptyVerifies(static, <<>>)
                 /\ TransposeVerifies(a.static, static, perm)
           v == Value(type, static, tensor, means)
<1>15. Bind(v, ok)
    BY <1>2, <1>8, <1>9, <1>10 DEF LowerRearrange
<1>16. v.type = type /\ v.static = static /\ v.tensor = tensor /\ v.means = means
    BY ValueFacts
<1>17. Whole(means) /\ means.shape = shape
    BY OfWhole
<1>18. ASSUME verifies, ~Respliced
       PROVE  tensor = means
  <2>1. PICK m : m = a.means /\ a.tensor = m
      BY <1>3, <1>18 DEF IInv, Computed
  <2> DEFINE From(ix) == [d \in DOMAIN perm |-> ix[CHOOSE k \in DOMAIN perm : perm[k] = d]]
  <2>2. m.shape \in [1..r -> Nat] /\ shape = [k \in DOMAIN perm |-> m.shape[perm[k]]]
      BY <1>7, <1>10, <2>1
  <2>3. tensor = Of(shape, [ix \in Indices(shape) |-> m.at[From(ix)]])
      BY <2>1, <2>2 DEF Transpose
  <2>4. means = Of(shape, [ix \in Indices(shape) |->
                    m.at[CHOOSE jx \in Indices(m.shape) :
                            \A k \in DOMAIN perm : jx[perm[k]] = ix[k]]])
      BY <2>1
  <2>5. ASSUME NEW ix \in Indices(shape)
        PROVE  From(ix) = CHOOSE jx \in Indices(m.shape) :
                              \A k \in DOMAIN perm : jx[perm[k]] = ix[k]
    <3>1. ix \in [1..r -> 0..MaxSize - 1] /\ \A k \in 1..r : ix[k] < shape[k]
        BY <1>14, IndexFacts
    <3> DEFINE At(d) == CHOOSE k \in DOMAIN perm : perm[k] = d
    <3>2. \A d \in 1..r : At(d) \in 1..r /\ perm[At(d)] = d
        BY <1>5, <1>6
    <3>3. From(ix) = [d \in 1..r |-> ix[At(d)]]
        BY <1>5
    <3> HIDE DEF At, From
    <3>4. From(ix) \in [1..r -> 0..MaxSize - 1]
      <4>1. \A d \in 1..r : ix[At(d)] \in 0..MaxSize - 1
          BY <3>1, <3>2
      <4> QED
          BY <3>3, <4>1
    <3>5. \A d \in 1..r : From(ix)[d] < m.shape[d]
      <4>1. \A d \in 1..r : From(ix)[d] = ix[At(d)] /\ ix[At(d)] < shape[At(d)]
          BY <3>1, <3>2, <3>3
      <4>2. \A d \in 1..r : shape[At(d)] = m.shape[d]
          BY <1>14, <2>1, <3>2
      <4> QED
          BY <4>1, <4>2
    <3>6. From(ix) \in Indices(m.shape)
      <4>1. PICK ms, jx : ms = m.shape /\ jx = From(ix)
          OBVIOUS
      <4>2. /\ ms \in [1..r -> Nat] /\ r \in Nat
            /\ jx \in [1..r -> 0..MaxSize - 1]
            /\ \A k \in 1..r : jx[k] < ms[k]
          BY <2>2, <3>4, <3>5, <4>1
      <4>3. jx \in Indices(ms)
          BY <4>2, IndexFacts
      <4> QED
          BY <4>1, <4>3
    <3>7. \A k \in 1..r : From(ix)[perm[k]] = ix[k]
      <4>1. \A k \in 1..r : At(perm[k]) = k
          BY <1>5, <1>11, <3>2
      <4> QED
          BY <1>11, <3>3, <4>1
    <3>8. ASSUME NEW jx \in Indices(m.shape), \A k \in DOMAIN perm : jx[perm[k]] = ix[k]
          PROVE  jx = From(ix)
      <4>1. jx \in [1..r -> 0..MaxSize - 1]
        <5>1. PICK ms : ms = m.shape
            OBVIOUS
        <5>2. ms \in [1..r -> Nat] /\ r \in Nat /\ jx \in Indices(ms)
            BY <2>2, <5>1
        <5> QED
            BY <5>2, IndexFacts
      <4>2. \A d \in 1..r : jx[d] = From(ix)[d]
        <5>1. \A d \in 1..r : jx[perm[At(d)]] = ix[At(d)]
            BY <1>5, <3>2, <3>8
        <5> QED
            BY <3>2, <3>3, <5>1
      <4>3. jx = [d \in 1..r |-> jx[d]] /\ From(ix) = [d \in 1..r |-> From(ix)[d]]
          BY <3>4, <4>1
      <4> QED
          BY <4>2, <4>3
    <3> QED
        BY <1>5, <3>6, <3>7, <3>8
  <2> HIDE DEF From, tensor, means
  <2> QED
      BY <2>3, <2>4, <2>5
<1>19. \A w \in Bound : Constant(w.type) => TransposeVerifies(a.static, static, perm)
    BY <1>5, <1>13 DEF TransposeVerifies
<1>20. ASSUME Constant(a.type)
       PROVE  ok
  <2>1. \A k \in 1..r : a.static[k] # Dyn
      BY <1>7, <1>20 DEF Constant
  <2>2. \A k \in DOMAIN static : static[k] # Dyn
      BY <1>11, <1>13, <2>1
  <2>3. EmptyVerifies(static, <<>>)
      BY <2>2, NoUnknown
  <2> QED
      BY <1>3, <1>19, <1>20, <2>3
<1>21. ok \in BOOLEAN
    BY DEF EmptyVerifies, TransposeVerifies
<1> HIDE DEF tensor, means, ok, v, at
<1>22. Typed(v)
  <2>1. v.type \in Seq(Dims) /\ Len(v.type) \in 0..2 /\ DOMAIN v.type = 1..r
      BY <1>12, <1>16
  <2>2. \A k \in 1..r : v.type[k].const => v.static[k] # Dyn
      BY <1>7, <1>11, <1>12, <1>13, <1>16
  <2> QED
      BY <1>13, <1>14, <1>16, <1>17, <2>1, <2>2 DEF Typed
<1>23. ASSUME verifies PROVE Described(v)
  <2>1. \A k \in 1..r : a.static[k] \in {Dyn, a.type[k].n}
      BY <1>3, <1>7, <1>23 DEF IInv, Described
  <2> QED
      BY <1>11, <1>12, <1>13, <1>16, <2>1 DEF Described
<1>24. verifies /\ ok => Described(v) /\ (~Respliced => Computed(v))
    BY <1>16, <1>18, <1>23 DEF Computed
<1>25. (\A w \in Bound : Constant(w.type)) => ok
    BY <1>3, <1>20
<1> QED
    BY <1>3, <1>15, <1>21, <1>22, <1>24, <1>25, BindInv

\* Two elements do not share a place in row-major order.
LEMMA FlatInjective ==
    ASSUME NEW n \in 0..2, NEW shape \in [1..n -> Nat],
           NEW ix \in Indices(shape), NEW jx \in Indices(shape), Flat(shape, ix) = Flat(shape, jx)
    PROVE  ix = jx
<1>1. shape \in Seq(Nat) /\ Len(shape) = n /\ n \in Nat
    OBVIOUS
<1>2. /\ ix \in [1..n -> 0..MaxSize - 1] /\ \A k \in 1..n : ix[k] < shape[k]
      /\ jx \in [1..n -> 0..MaxSize - 1] /\ \A k \in 1..n : jx[k] < shape[k]
    BY <1>1, IndexFacts
<1>3. ASSUME NEW k \in 1..n PROVE ix[k] \in Nat /\ jx[k] \in Nat
  <2>1. ix[k] \in 0..MaxSize - 1 /\ jx[k] \in 0..MaxSize - 1
      BY <1>2
  <2> QED
      BY <2>1
<1>4. \A k \in 1..n : ix[k] = jx[k]
  <2>1. CASE n = 0
      BY <2>1
  <2>2. CASE n = 1
    <3>1. Flat(shape, ix) = ix[1] /\ Flat(shape, jx) = jx[1]
        BY <1>1, <2>2 DEF Flat
    <3>2. ix[1] = jx[1]
        BY <3>1
    <3> QED
        BY <2>2, <3>2
  <2>3. CASE n = 2
    <3>1. Flat(shape, ix) = ix[1] * shape[2] + ix[2] /\ Flat(shape, jx) = jx[1] * shape[2] + jx[2]
        BY <1>1, <2>3 DEF Flat
    <3>2. PICK s, i1, i2, j1, j2 : s = shape[2] /\ i1 = ix[1] /\ i2 = ix[2] /\ j1 = jx[1] /\ j2 = jx[2]
        OBVIOUS
    <3>3. 1 \in 1..n /\ 2 \in 1..n
        BY <2>3
    <3>4. /\ s \in Nat /\ i1 \in Nat /\ i2 \in Nat /\ j1 \in Nat /\ j2 \in Nat
          /\ i2 < s /\ j2 < s
        BY <1>2, <1>3, <3>2, <3>3
    <3>5. i1 * s + i2 = j1 * s + j2
        BY <3>1, <3>2
    <3>6. i1 = j1 /\ i2 = j2
        BY <3>4, <3>5, RowMajor
    <3>7. ix[1] = jx[1] /\ ix[2] = jx[2]
        BY <3>2, <3>6
    <3>8. \A k \in 1..n : k = 1 \/ k = 2
        BY <2>3
    <3> QED
        BY <3>7, <3>8
  <2> QED
      BY <2>1, <2>2, <2>3
<1>5. PICK S, T : S = 1..n /\ T = 0..MaxSize - 1
    OBVIOUS
<1>6. ix \in [S -> T] /\ jx \in [S -> T] /\ \A k \in S : ix[k] = jx[k]
    BY <1>2, <1>4, <1>5
<1> QED
    BY <1>6, SameFunction

LEMMA SameOrder ==
    ASSUME NEW n \in 0..2, NEW m, m.shape \in [1..n -> Nat], Whole(m)
    PROVE  InRowMajorOrder(m, m.shape) = m
<1>1. PICK shape : shape = m.shape
    OBVIOUS
<1>2. ASSUME NEW ix \in Indices(shape)
      PROVE  (CHOOSE jx \in Indices(shape) : Flat(shape, jx) = Flat(shape, ix)) = ix
  <2>1. shape \in [1..n -> Nat]
      BY <1>1
  <2>2. \A jx \in Indices(shape) : Flat(shape, jx) = Flat(shape, ix) => jx = ix
      BY <2>1, FlatInjective
  <2> QED
      BY <2>2
<1>3. InRowMajorOrder(m, shape) =
          Of(shape, [ix \in Indices(shape) |->
              m.at[CHOOSE jx \in Indices(shape) : Flat(shape, jx) = Flat(shape, ix)]])
    BY <1>1 DEF InRowMajorOrder
<1>4. InRowMajorOrder(m, shape) = Of(shape, [ix \in Indices(shape) |-> m.at[ix]])
    BY <1>2, <1>3
<1> QED
    BY <1>1, <1>4 DEF Whole

LEMMA ReshapeInv ==
    ASSUME IInv, Reshape
    PROVE  IInv'
<1>1. PICK a \in NewArray, rank \in 1..2 : \E dims \in DimsOf(rank) :
          /\ (Sizes(dims) # a.means.shape /\ rank = Rank(a)) => Respliced
          /\ LowerReshape(a, dims)
    BY DEF Reshape
<1>2. PICK dims \in DimsOf(rank) :
          /\ (Sizes(dims) # a.means.shape /\ rank = Rank(a)) => Respliced
          /\ LowerReshape(a, dims)
    BY <1>1
<1>3. a \in Bound /\ Typed(a) /\ phase = "lower"
    BY NewArrayFacts DEF IInv, Reshape, Open
<1>4. dims \in Seq(Dims) /\ Len(dims) \in 0..2 /\ Len(dims) = rank
  <2>1. rank \in Nat /\ rank \in 0..2
      OBVIOUS
  <2> QED
      BY <1>2, <2>1, SizeFacts
<1>5. verifies /\ ~Respliced => a.tensor = a.means
    BY <1>3 DEF IInv, Computed
<1> DEFINE means == InRowMajorOrder(a.means, Sizes(dims))
<1>6. Whole(means) /\ means.shape = Sizes(dims)
    BY OfWhole DEF InRowMajorOrder
<1>7. CASE a.static = toShapeType(dims)
  <2>1. Bind(Value(dims, toShapeType(dims), a.tensor, means), TRUE)
      BY <1>2, <1>7 DEF LowerReshape
  <2>2. ASSUME verifies, ~Respliced PROVE a.tensor = means
    <3>1. rank = Rank(a)
      <4>1. DOMAIN a.static = 1..Rank(a) /\ Rank(a) \in Nat
          BY <1>3, TypedFacts
      <4>2. toShapeType(dims) \in [1..rank -> Nat \cup {Dyn}]
          BY <1>4, DimsFacts
      <4>3. 1..Rank(a) = 1..rank
          BY <1>7, <4>1, <4>2
      <4>4. PICK n \in Nat : n = Rank(a)
          BY <4>1
      <4>5. 1..n = 1..rank
          BY <4>3, <4>4
      <4>6. n = rank
        <5>1. \A k \in Int : (1 <= k /\ k <= n) <=> (1 <= k /\ k <= rank)
          <6>1. \A k \in Int : k \in 1..n <=> k \in 1..rank
              BY <4>5
          <6> QED
              BY <6>1
        <5>2. rank <= n
            BY <5>1
        <5>3. n <= rank
            BY <5>1
        <5> QED
            BY <5>2, <5>3
      <4> QED
          BY <4>4, <4>6
    <3>2. Sizes(dims) = a.means.shape
        BY <1>2, <2>2, <3>1
    <3>3. Rank(a) \in 0..2 /\ a.means.shape \in [1..Rank(a) -> Nat] /\ Whole(a.means)
        BY <1>3, TypedFacts
    <3>4. InRowMajorOrder(a.means, a.means.shape) = a.means
        BY <3>3, SameOrder
    <3> QED
        BY <1>5, <2>2, <3>2, <3>4
  <2> HIDE DEF means
  <2> QED
      BY <1>3, <1>4, <1>6, <2>1, <2>2, BindDims
<1>8. CASE a.static # toShapeType(dims)
  <2>1. \/ Bind(Value(dims, toShapeType(dims), InRowMajorOrder(a.tensor, Sizes(dims)), means), TRUE)
        \/ Undefined
      BY <1>2, <1>8 DEF LowerReshape
  <2>2. verifies /\ ~Respliced => InRowMajorOrder(a.tensor, Sizes(dims)) = means
      BY <1>5
  <2> HIDE DEF means
  <2> QED
      BY <1>3, <1>4, <1>6, <2>1, <2>2, BindDims, UndefinedInv
<1> QED
    BY <1>7, <1>8

\* Where Pick puts what it picks.
LEMMA PickCount ==
    ASSUME NEW r \in 0..2, NEW ks \in SUBSET (1..r)
    PROVE  /\ \A seq : DOMAIN Pick(seq, ks) = 1..Cardinality(ks)
           /\ Cardinality(ks) \in 0..2
           /\ \A k \in ks : /\ Cardinality({j \in ks : j <= k}) \in 1..Cardinality(ks)
                            /\ \A seq : Pick(seq, ks)[Cardinality({j \in ks : j <= k})] = seq[k]
           /\ \A j \in 1..Cardinality(ks) : \E k \in ks : Cardinality({i \in ks : i <= k}) = j
<1>1. \A seq : DOMAIN Pick(seq, ks) = 1..Cardinality(ks)
    BY DEF Pick
<1> DEFINE Count(k) == Cardinality({j \in ks : j <= k})
           Goal(c) ==
              /\ c \in 0..2
              /\ \A k \in ks : Count(k) \in 1..c /\ \A seq : Pick(seq, ks)[Count(k)] = seq[k]
              /\ \A j \in 1..c : \E k \in ks : Count(k) = j
<1>2. CASE ks = {}
  <2>1. Cardinality(ks) = 0
      BY <1>2, SmallSets
  <2>2. Goal(0)
      BY <1>2
  <2> HIDE DEF Goal
  <2>3. Goal(Cardinality(ks))
      BY <2>1, <2>2
  <2> QED
      BY <1>1, <2>3 DEF Goal
<1>3. ASSUME NEW x \in 1..2, ks = {x}
      PROVE  Goal(Cardinality(ks))
  <2>1. Cardinality(ks) = 1
      BY <1>3, SmallSets
  <2>2. {j \in ks : j <= x} = {x}
      BY <1>3
  <2>3. Count(x) = 1
      BY <2>2, SmallSets
  <2> HIDE DEF Count
  <2>4. x = 1 \/ x = 2
      OBVIOUS
  <2>5. ASSUME NEW seq PROVE Pick(seq, ks) = <<seq[x]>>
      BY <1>3, <2>4, PickFacts
  <2>6. \A seq : Pick(seq, ks)[1] = seq[x]
      BY <2>5
  <2>7. Goal(1)
    <3>1. \A j \in 1..1 : j = 1
        OBVIOUS
    <3>2. \A k \in ks : k = x
        BY <1>3
    <3>3. x \in ks /\ 1 \in 1..1 /\ 1 \in 0..2
        BY <1>3
    <3> QED
        BY <2>3, <2>6, <3>1, <3>2, <3>3
  <2> HIDE DEF Goal
  <2> QED
      BY <2>1, <2>7
<1>4. ASSUME ks = {1, 2}
      PROVE  Goal(Cardinality(ks))
  <2>1. Cardinality(ks) = 2
      BY <1>4, SmallSets
  <2>2. {j \in ks : j <= 1} = {1} /\ {j \in ks : j <= 2} = {1, 2}
      BY <1>4
  <2>3. Count(1) = 1 /\ Count(2) = 2
      BY <2>2, SmallSets
  <2> HIDE DEF Count
  <2>4. ASSUME NEW seq PROVE Pick(seq, ks) = <<seq[1], seq[2]>>
      BY <1>4, PickFacts
  <2>5. \A seq : Pick(seq, ks)[1] = seq[1] /\ Pick(seq, ks)[2] = seq[2]
      BY <2>4
  <2>6. Goal(2)
    <3>1. \A j \in 1..2 : j = 1 \/ j = 2
        OBVIOUS
    <3>2. \A k \in ks : k = 1 \/ k = 2
        BY <1>4
    <3>3. 1 \in ks /\ 2 \in ks /\ 1 \in 1..2 /\ 2 \in 1..2 /\ 2 \in 0..2
        BY <1>4
    <3> QED
        BY <2>3, <2>5, <3>1, <3>2, <3>3
  <2> HIDE DEF Goal
  <2> QED
      BY <2>1, <2>6
<1>5. Goal(Cardinality(ks))
  <2>1. ks = {} \/ ks = {1} \/ ks = {2} \/ ks = {1, 2}
      BY SubsetsOfTwo
  <2>2. 1 \in 1..2 /\ 2 \in 1..2
      OBVIOUS
  <2>3. (Goal(0) /\ Cardinality(ks) = 0) \/ ks # {}
      BY <1>2, SmallSets
  <2> HIDE DEF Goal
  <2> QED
      BY <1>3, <1>4, <2>1, <2>2, <2>3
<1> QED
    BY <1>1, <1>5

\* An index of a slice comes from one index of the array: the dimensions that
\* are left out have one element.
Through(ks, k) == Cardinality({j \in ks : j <= k})
SourceIndex(full, ks, ix) == CHOOSE jx \in Indices(full) : Pick(jx, ks) = ix

CutTo(r, ks, full) ==
    /\ ks \in SUBSET (1..r) /\ full \in [1..r -> Nat]
    /\ \A k \in 1..r : k \in ks \/ full[k] = 1

LEMMA SliceSource ==
    ASSUME NEW r \in 0..2, NEW ks, NEW full, CutTo(r, ks, full), NEW ix \in Indices(Pick(full, ks))
    PROVE  \A k \in 1..r :
               SourceIndex(full, ks, ix)[k] = IF k \in ks THEN ix[Through(ks, k)] ELSE 0
<1>0. /\ ks \in SUBSET (1..r) /\ full \in [1..r -> Nat]
      /\ \A k \in 1..r : k \in ks \/ full[k] = 1
    BY DEF CutTo
<1>1. PICK c : c = Cardinality(ks)
    OBVIOUS
<1> DEFINE Count(k) == Cardinality({j \in ks : j <= k})
<1>2. /\ c \in 0..2 /\ c \in Nat
      /\ \A seq : DOMAIN Pick(seq, ks) = 1..c
      /\ \A k \in ks : Count(k) \in 1..c /\ \A seq : Pick(seq, ks)[Count(k)] = seq[k]
      /\ \A j \in 1..c : \E k \in ks : Count(k) = j
  <2>1. \A seq : DOMAIN Pick(seq, ks) = 1..c
      BY <1>0, <1>1, PickCount
  <2>2. c \in 0..2
      BY <1>0, <1>1, PickCount
  <2>3. \A k \in ks : Count(k) \in 1..c /\ \A seq : Pick(seq, ks)[Count(k)] = seq[k]
      BY <1>0, <1>1, PickCount
  <2>4. \A j \in 1..c : \E k \in ks : Count(k) = j
      BY <1>0, <1>1, PickCount
  <2>5. c \in Nat
      BY <2>2
  <2> HIDE DEF Count
  <2> QED
      BY <2>1, <2>2, <2>3, <2>4, <2>5
<1> HIDE DEF Count
<1>3. PICK shape : shape = Pick(full, ks)
    OBVIOUS
<1>4. shape \in [1..c -> Nat] /\ \A k \in ks : shape[Count(k)] = full[k]
  <2>1. \A seq : Pick(seq, ks) = [j \in 1..c |-> Pick(seq, ks)[j]]
      BY <1>1 DEF Pick
  <2>2. \A j \in 1..c : shape[j] \in Nat
    <3>1. ASSUME NEW j \in 1..c PROVE shape[j] \in Nat
      <4>1. PICK k \in ks : Count(k) = j
          BY <1>2
      <4>2. shape[j] = full[k] /\ k \in 1..r
          BY <1>0, <1>2, <1>3, <4>1
      <4> QED
          BY <1>0, <4>2
    <3> QED
        BY <3>1
  <2>3. shape = [j \in 1..c |-> shape[j]]
      BY <1>3, <2>1
  <2> QED
      BY <1>2, <1>3, <2>2, <2>3
<1>5. ix \in [1..c -> 0..MaxSize - 1] /\ \A j \in 1..c : ix[j] < shape[j]
  <2>1. ix \in Indices(shape)
      BY <1>3
  <2> QED
      BY <1>2, <1>4, <2>1, IndexFacts
<1>6. PICK source : source = [k \in 1..r |-> IF k \in ks THEN ix[Count(k)] ELSE 0]
    OBVIOUS
<1>7. source \in [1..r -> 0..MaxSize - 1] /\ \A k \in 1..r : source[k] < full[k]
  <2>1. 0 \in 0..MaxSize - 1
      BY ArraysAssumption
  <2>2. ASSUME NEW k \in 1..r
        PROVE  source[k] \in 0..MaxSize - 1 /\ source[k] < full[k]
    <3>1. CASE k \in ks
        BY <1>0, <1>2, <1>4, <1>5, <1>6, <3>1
    <3>2. CASE k \notin ks
        BY <1>0, <1>6, <2>1, <3>2
    <3> QED
        BY <3>1, <3>2
  <2> QED
      BY <1>6, <2>2
<1>8. r \in Nat
    OBVIOUS
<1>9. source \in Indices(full)
    BY <1>0, <1>7, <1>8, IndexFacts
<1>10. ASSUME NEW seq PROVE Pick(seq, ks) = ix <=> \A k \in ks : seq[k] = ix[Count(k)]
  <2>1. PICK q : q = Pick(seq, ks)
      OBVIOUS
  <2>2. q = [j \in 1..c |-> q[j]] /\ ix = [j \in 1..c |-> ix[j]]
      BY <1>1, <1>5, <2>1 DEF Pick
  <2>3. \A k \in ks : q[Count(k)] = seq[k] /\ Count(k) \in 1..c
      BY <1>2, <2>1
  <2>4. ASSUME \A k \in ks : seq[k] = ix[Count(k)]
        PROVE  q = ix
    <3>1. \A j \in 1..c : q[j] = ix[j]
        BY <1>2, <2>3, <2>4
    <3> QED
        BY <2>2, <3>1
  <2> QED
      BY <2>1, <2>3, <2>4
<1>11. Pick(source, ks) = ix
  <2>1. \A k \in ks : source[k] = ix[Count(k)]
      BY <1>0, <1>6
  <2> QED
      BY <1>10, <2>1
<1>12. ASSUME NEW jx \in Indices(full), Pick(jx, ks) = ix
       PROVE  jx = source
  <2>1. jx \in [1..r -> 0..MaxSize - 1] /\ \A k \in 1..r : jx[k] < full[k]
      BY <1>0, <1>8, IndexFacts
  <2>2. \A k \in ks : jx[k] = ix[Count(k)]
      BY <1>10, <1>12
  <2>3. ASSUME NEW k \in 1..r PROVE jx[k] = source[k]
    <3>1. CASE k \in ks
        BY <1>6, <2>2, <3>1
    <3>2. CASE k \notin ks
      <4>1. full[k] = 1 /\ jx[k] \in 0..MaxSize - 1 /\ jx[k] < 1
          BY <1>0, <2>1, <3>2
      <4>2. jx[k] = 0
          BY <4>1
      <4> QED
          BY <1>6, <3>2, <4>2
    <3> QED
        BY <3>1, <3>2
  <2>4. jx = [k \in 1..r |-> jx[k]] /\ source = [k \in 1..r |-> source[k]]
      BY <1>6, <2>1
  <2> QED
      BY <2>3, <2>4
<1>13. (CHOOSE jx \in Indices(full) : Pick(jx, ks) = ix) = source
    BY <1>9, <1>11, <1>12
<1>14. SourceIndex(full, ks, ix) = source
    BY <1>13 DEF SourceIndex
<1> QED
    BY <1>6, <1>14 DEF Count, Through

LEMMA DimIndexFacts ==
    ASSUME NEW d \in DimIndex
    PROVE  /\ d.fix \in BOOLEAN /\ d.start \in Nat /\ d.stride \in Nat
           /\ d.length \in Dims /\ d.length.n \in Nat
           /\ d.fix => d.length.n = 1
<1>1. CASE \E i \in 0..2 : d = Fix(i)
  <2>1. PICK i \in 0..2 : d = Fix(i)
      BY <1>1
  <2>2. /\ d.fix = TRUE /\ d.start = i /\ d.stride = 1
        /\ d.length = [n |-> 1, const |-> TRUE]
      BY <2>1 DEF Fix
  <2>3. d.length \in Dims /\ d.length.n = 1
      BY <2>2, ArraysAssumption DEF Dims
  <2>4. d.fix \in BOOLEAN
      BY <2>2
  <2>5. d.start \in Nat /\ d.stride \in Nat /\ d.length.n \in Nat
      BY <2>2
  <2> QED
      BY <2>3, <2>4, <2>5
<1>2. CASE \E i \in 0..1, n \in Size, s \in {1, 2, Unseen} : d = Slice(i, n, s)
  <2>1. PICK i \in 0..1, n \in Size, s \in {1, 2, Unseen} : d = Slice(i, n, s)
      BY <1>2
  <2>2. d.fix = FALSE /\ d.start = i /\ d.stride = s /\ d.length = n
      BY <2>1 DEF Slice
  <2>3. n \in Dims /\ n.n \in Nat
    <3>1. n \in Dims
        BY SizeFacts
    <3> QED
        BY <3>1, ArraysAssumption DEF Dims
  <2>4. s \in Nat
      BY DEF Unseen
  <2>5. d.fix \in BOOLEAN /\ ~d.fix
      BY <2>2
  <2>6. d.start \in Nat /\ d.stride \in Nat
      BY <2>2, <2>4
  <2>7. d.length \in Dims /\ d.length.n \in Nat
      BY <2>2, <2>3
  <2> QED
      BY <2>5, <2>6, <2>7
<1>3. d \in {Fix(i) : i \in 0..2} \/ d \in {Slice(i, n, s) : i \in 0..1, n \in Size, s \in {1, 2, Unseen}}
    BY DEF DimIndex
<1> QED
    BY <1>1, <1>2, <1>3

LEMMA IndexInv ==
    ASSUME IInv, Index
    PROVE  IInv'
<1>1. PICK a \in NewArray : \E dims \in [DOMAIN a.type -> DimIndex] : LowerIndex(a, dims)
    BY DEF Index
<1>2. PICK dims \in [DOMAIN a.type -> DimIndex] : LowerIndex(a, dims)
    BY <1>1
<1>3. a \in Bound /\ Rank(a) \in 1..2 /\ Typed(a) /\ phase = "lower"
    BY NewArrayFacts DEF IInv, Index, Open
<1>4. PICK r \in 0..2 : r = Rank(a) /\ DOMAIN a.type = 1..r
    BY <1>3, TypedFacts
<1>5. /\ dims \in [1..r -> DimIndex] /\ DOMAIN dims = 1..r
      /\ \A k \in 1..r : dims[k] \in DimIndex
    BY <1>2, <1>4
<1>6. /\ \A k \in 1..r : dims[k].fix \in BOOLEAN /\ dims[k].start \in Nat /\ dims[k].stride \in Nat
      /\ \A k \in 1..r : dims[k].length \in Dims /\ dims[k].length.n \in Nat
      /\ \A k \in 1..r : dims[k].fix => dims[k].length.n = 1
    BY <1>5, DimIndexFacts
<1>7. verifies /\ ~Respliced => a.tensor = a.means
    BY <1>3 DEF IInv, Computed
<1>8. PICK ks : ks = Sliced(dims)
    OBVIOUS
<1>9. ks \in SUBSET (1..r) /\ \A k \in 1..r : k \in ks <=> ~dims[k].fix
    BY <1>5, <1>8 DEF Sliced
<1>10. PICK lens, full : /\ lens = [k \in DOMAIN dims |-> dims[k].length]
                         /\ full = [k \in DOMAIN dims |-> dims[k].length.n]
    OBVIOUS
<1>11. /\ lens \in [1..r -> Dims] /\ full \in [1..r -> Nat]
       /\ \A k \in 1..r : lens[k].n = full[k]
       /\ \A k \in 1..r : k \in ks \/ full[k] = 1
    BY <1>5, <1>6, <1>9, <1>10
<1>12. PICK lengths : lengths = Pick(lens, ks)
    OBVIOUS
<1>13. lengths \in Seq(Dims) /\ Len(lengths) \in 0..2
    BY <1>9, <1>11, <1>12, PickSeq
<1>14. Sizes(lengths) = Pick(full, ks)
  <2>1. PICK c : c = Cardinality(ks)
      OBVIOUS
  <2>2. DOMAIN lengths = 1..c
      BY <1>12, <2>1 DEF Pick
  <2>3. ASSUME NEW j \in 1..c PROVE lengths[j].n = Pick(full, ks)[j]
    <3>1. PICK k \in ks : Cardinality({i \in ks : i <= k}) = j
        BY <1>9, <2>1, PickCount
    <3>2. \A seq : Pick(seq, ks)[Cardinality({i \in ks : i <= k})] = seq[k]
        BY <1>9, PickCount
    <3>3. lengths[j] = lens[k] /\ Pick(full, ks)[j] = full[k]
        BY <1>12, <3>1, <3>2
    <3> QED
        BY <1>9, <1>11, <3>3
  <2>4. Sizes(lengths) = [j \in 1..c |-> lengths[j].n]
      BY <2>2 DEF Sizes
  <2>5. Pick(full, ks) = [j \in 1..c |-> Pick(full, ks)[j]]
      BY <2>1 DEF Pick
  <2> QED
      BY <2>3, <2>4, <2>5
<1> DEFINE Place(ix, k) == IF dims[k].fix THEN dims[k].start
                           ELSE dims[k].start
                                + dims[k].stride * ix[Through(ks, k)]
           at == [ix \in Indices(Sizes(lengths)) |-> a.means.at[[k \in DOMAIN dims |-> Place(ix, k)]]]
           means == Of(Sizes(lengths), at)
           tensor == ExtractSlice(a.tensor, dims)
<1>15. Undefined \/ Bind(Value(lengths, toShapeType(lengths), tensor, means), TRUE)
    BY <1>2, <1>8, <1>10, <1>12 DEF LowerIndex, SliceStatic, Through
<1>16. Whole(means) /\ means.shape = Sizes(lengths)
    BY OfWhole
<1>17. ASSUME verifies, ~Respliced PROVE tensor = means
  <2>1. PICK m : m = a.means /\ a.tensor = m
      BY <1>7, <1>17
  <2> DEFINE Source(jx) == [k \in DOMAIN dims |-> dims[k].start + jx[k] * dims[k].stride]
             From(ix) == SourceIndex(full, ks, ix)
  <2>2. tensor = Of(Pick(full, ks), [ix \in Indices(Pick(full, ks)) |-> m.at[Source(From(ix))]])
      BY <1>8, <1>10, <2>1 DEF ExtractSlice, SourceIndex
  <2>3. means = Of(Pick(full, ks), [ix \in Indices(Pick(full, ks)) |->
                    m.at[[k \in DOMAIN dims |-> Place(ix, k)]]])
      BY <1>14, <2>1
  <2>4. ASSUME NEW ix \in Indices(Pick(full, ks))
        PROVE  Source(From(ix)) = [k \in DOMAIN dims |-> Place(ix, k)]
    <3>1. \A k \in 1..r : From(ix)[k] = IF k \in ks THEN ix[Through(ks, k)] ELSE 0
      <4>1. CutTo(r, ks, full)
          BY <1>9, <1>11 DEF CutTo
      <4> QED
          BY <4>1, SliceSource
    <3>2. PICK jx : jx = From(ix)
        OBVIOUS
    <3>3. ASSUME NEW k \in 1..r
          PROVE  dims[k].start + jx[k] * dims[k].stride = Place(ix, k)
      <4>1. PICK x, s, t : x = jx[k] /\ s = dims[k].start /\ t = dims[k].stride
          OBVIOUS
      <4>2. s \in Nat /\ t \in Nat
          BY <1>6, <4>1
      <4>3. CASE dims[k].fix
        <5>1. x = 0
            BY <1>9, <3>1, <3>2, <4>1, <4>3
        <5>2. s + x * t = s
            BY <4>2, <5>1
        <5> QED
            BY <4>1, <4>3, <5>2
      <4>4. CASE ~dims[k].fix
        <5>1. x = ix[Through(ks, k)] /\ k \in ks
            BY <1>9, <3>1, <3>2, <4>1, <4>4
        <5>2. x \in Int
          <6>1. PICK shape : shape = Pick(full, ks)
              OBVIOUS
          <6>2. DOMAIN shape = 1..Cardinality(ks)
              BY <6>1 DEF Pick
          <6>3. ix \in [1..Cardinality(ks) -> 0..MaxSize - 1]
              BY <6>1, <6>2 DEF Indices
          <6>4. Through(ks, k) \in 1..Cardinality(ks)
              BY <1>9, <5>1, PickCount DEF Through
          <6>5. ix[Through(ks, k)] \in 0..MaxSize - 1
              BY <6>3, <6>4
          <6> QED
              BY <5>1, <6>5
        <5>3. s + x * t = s + t * x
            BY <4>2, <5>2
        <5> QED
            BY <4>1, <4>4, <5>1, <5>3
      <4> QED
          BY <4>3, <4>4
    <3> HIDE DEF Place, From
    <3>4. Source(jx) = [k \in DOMAIN dims |-> Place(ix, k)]
        BY <1>5, <3>3
    <3> QED
        BY <3>2, <3>4
  <2> HIDE DEF Source, From, Place, tensor, means
  <2> QED
      BY <2>2, <2>3, <2>4
<1> HIDE DEF tensor, means, at, Place
<1> QED
    BY <1>3, <1>13, <1>15, <1>16, <1>17, BindDims, UndefinedInv

-----------------------------------------------------------------------------
(* The theorems.                                                             *)

LEMMA NextInv ==
    ASSUME IInv, [Next]_vars
    PROVE  IInv'
<1>1. CASE Iota \/ Replicate \/ Scratch \/ ArrayLit
    BY <1>1, IotaInv, ReplicateInv, ScratchInv, ArrayLitInv
<1>2. CASE Rearrange \/ Reshape \/ Concat \/ Index
    BY <1>2, RearrangeInv, ReshapeInv, ConcatInv, IndexInv
<1>3. CASE Call \/ Loop \/ If
    BY <1>3, CallInv, LoopInv, IfInv
<1>4. CASE MatMul \/ Dot
    BY <1>4, MatMulInv, DotInv
<1>5. CASE End \/ Verify \/ UNCHANGED vars
    BY <1>5, ReturnInv, VerifyInv, StutterInv
<1> QED
    BY <1>1, <1>2, <1>3, <1>4, <1>5 DEF Next

\* Every statement keeps the types, the tensors and the arrays meant together
\* (LowerBasicOp, LowerIndex, castToType and the rest, compiler.hpp), whatever
\* the sizes and however long the function.
THEOREM ArraysInvariant == Spec => []IInv
<1>1. Init => IInv
    BY InitInv
<1>2. IInv /\ [Next]_vars => IInv'
    BY NextInv
<1> QED
    BY <1>1, <1>2, PTL DEF Spec

\* The compiler's type of a value has a size for each of its dimensions.
THEOREM ArraysTypeOK == Spec => []TypeOK
<1>1. IInv => TypeOK
    BY DEF IInv, Typed, TypeOK
<1> QED
    BY <1>1, ArraysInvariant, PTL

\* No operation loses a size Futhark knows to be a constant: concat, slices and
\* loops (LowerBasicOp, LowerIndex, LowerLoop) may rely on the types they find.
THEOREM KnownSizesStay == Spec => []ConstantsStayKnown
<1>1. IInv => ConstantsStayKnown
    BY DEF IInv, Typed, ConstantsStayKnown
<1> QED
    BY <1>1, ArraysInvariant, PTL

\* mlir::verify refuses nothing that was lowered from constant sizes only,
\* reshapes of any kind included.
THEOREM ConstantSizesVerify == Spec => []ConstantShapesVerify
<1>1. IInv => ConstantShapesVerify
    BY DEF IInv, Constant, ConstantShapesVerify
<1> QED
    BY <1>1, ArraysInvariant, PTL

\* Where everything verifies a size in a type is the tensor's own, if no reshape
\* keeps the rank and changes the shape (the one BasicOpReshape takes for none).
THEOREM TypesDescribeTensors == ASSUME Respliced = FALSE PROVE Spec => []TypesDescribe
<1>1. IInv => TypesDescribe
  <2>1. ASSUME IInv, verifies, NEW v \in Bound, NEW k \in DOMAIN v.static
        PROVE  v.static[k] \in {Dyn, v.tensor.shape[k]}
    <3>1. Typed(v) /\ Described(v) /\ Computed(v)
        BY <2>1 DEF IInv
    <3>2. /\ DOMAIN v.static = 1..Rank(v) /\ DOMAIN v.type = 1..Rank(v)
          /\ \A i \in 1..Rank(v) : v.type[i].n = v.means.shape[i]
        BY <3>1, TypedFacts
    <3> QED
        BY <2>1, <3>1, <3>2 DEF Described, Computed
  <2> QED
      BY <2>1 DEF TypesDescribe
<1> QED
    BY <1>1, ArraysInvariant, PTL

\* Where everything verifies a value is the array Futhark means: shape, elements
\* and their order, through slices, transposes, reshapes, calls and loops.
THEOREM MeaningOfArrays == ASSUME Respliced = FALSE PROVE Spec => []ArrayMeaning
<1>1. IInv => ArrayMeaning
    BY DEF IInv, Computed, ArrayMeaning
<1> QED
    BY <1>1, ArraysInvariant, PTL
=============================================================================
