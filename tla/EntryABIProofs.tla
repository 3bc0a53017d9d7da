--------------------------- MODULE EntryABIProofs ---------------------------
(***************************************************************************)
(* For entry points of the front end with any number of sizes, parameters   *)
(* and dimensions, the annotations of LowerFunction (compiler.hpp) and the  *)
(* flags of _build_flags (run_tests.py) agree.                              *)
(***************************************************************************)
EXTENDS EntryABI, WellFoundedInduction, TLAPS

-----------------------------------------------------------------------------
(* Numbers.  The well-foundedness of the naturals stands in for induction: a *)
(* statement that fails, fails first at some number.                         *)

\* There is a least number in a set of numbers.
LEMMA LeastNumber ==
    ASSUME NEW T, T \subseteq Nat, T # {}
    PROVE  \E n \in T : \A m \in T : n <= m
<1> DEFINE Less == OpToRel(<, Nat)
<1>1. IsWellFoundedOn(Less, Nat)
    BY NatLessThanWellFounded
<1>2. \A m, n \in Nat : <<m, n>> \in Less <=> m < n
    BY DEF OpToRel
<1> HIDE DEF Less
<1>3. PICK n \in T : \A m \in T : ~ (<<m, n>> \in Less)
    BY <1>1, WFMin
<1>4. ASSUME NEW m \in T
      PROVE  n <= m
  <2>1. m \in Nat /\ n \in Nat
      OBVIOUS
  <2>2. ~ (m < n)
      BY <1>2, <1>3, <2>1
  <2> QED
      BY <2>1, <2>2
<1> QED
    BY <1>4

\* There is a greatest number in a set of numbers up to r.
LEMMA GreatestNumber ==
    ASSUME NEW r \in Nat, NEW S, S \subseteq 1..r, S # {}
    PROVE  \E d \in S : \A e \in S : e <= d
<1> DEFINE T == {n \in Nat : r - n \in S}
<1>1. PICK c \in S : TRUE
    OBVIOUS
<1>2. r - c \in T
    OBVIOUS
<1>3. T \subseteq Nat /\ T # {}
    BY <1>2
<1>4. PICK n \in T : \A m \in T : n <= m
  <2> HIDE DEF T
  <2> QED
      BY <1>3, LeastNumber
<1>5. ASSUME NEW e \in S
      PROVE  e <= r - n
  <2>1. r - e \in T
      OBVIOUS
  <2>2. n <= r - e
      BY <1>4, <2>1
  <2>3. e \in Nat /\ r - e \in Nat /\ n \in Nat
      OBVIOUS
  <2> HIDE DEF T
  <2> QED
      BY <2>2, <2>3
<1> QED
    BY <1>4, <1>5

USE ABIAssumption

-----------------------------------------------------------------------------
(* The inductive invariant.                                                  *)

Inferred == Len(params) - written

\* What stays: the entry point and the test.
Entry ==
    /\ params \in Seq(Param)
    /\ written \in 0..Len(params)
    /\ supplied \in 0..written
    /\ literal \in [Supplied -> {"numbers", "other", "empty"}]
    /\ \A i \in Supplied : literal[i] \in LiteralsOf(Parameter(i))
    /\ extent \in [SizeName -> Extent]
    /\ Distinct(params)
    /\ \A i \in DOMAIN params : \A x \in Names(params[i]) :
          \E j \in 1..i - 1 : params[j].name = x
    /\ \A j \in 1..Inferred :
          /\ params[j].name \in SizeName
          /\ \E i \in Inferred + 1..Len(params) : params[j].name \in Names(params[i])

\* No literal falls into pieces, and so every value is that of its parameter.
Aligned == \A i \in Supplied : literal[i] # "empty"

First == Len(params) - supplied
Single(i) ==
    [shape |-> Shape(Parameter(i)),
     text |-> IF literal[i] = "numbers" THEN Value(i) ELSE Unreadable]

Flag == ({"size"} \X (Extent \cup {1})) \cup ({"value"} \X Nat)
Parsable == [shape : Seq(Extent \cup {1}), text : Flag \cup {Unreadable}]

\* The values read so far are those of the literals read so far, or there is a
\* piece of an `empty(...)` among them.
Past == IF status = "parse" THEN next ELSE supplied
InOrder ==
    /\ \A i \in First..First + Past - 1 : literal[i] # "empty"
    /\ Len(values) = Past
    /\ \A k \in 1..Past : values[k] = Single(First + k - 1)
InPieces ==
    /\ ~Aligned
    /\ \E k \in DOMAIN values : values[k].text = Unreadable
ReadSoFar == values \in Seq(Parsable) /\ (InOrder \/ InPieces)

\* A name the compiler has met has the position of a parameter of that name.
Known ==
    /\ \A x \in DOMAIN argPosition :
          /\ x \in SizeName \cup {Anonymous}
          /\ argPosition[x] \in 0..Last
          /\ Parameter(argPosition[x]).name = x
    /\ status = "annotate" => \A i \in 0..next - 1 : Parameter(i).name \in DOMAIN argPosition

\* An annotation says which parameter a dimension is named after.
RefersTo(refs, p) ==
    /\ refs \in [DOMAIN p.dims -> -1..Last]
    /\ \A d \in DOMAIN p.dims :
          IF p.dims[d] \in SizeName THEN refs[d] >= 0 /\ Parameter(refs[d]).name = p.dims[d]
          ELSE refs[d] = -1

Refers ==
    /\ DOMAIN sizeArgs \subseteq 0..Last
    /\ \A i \in DOMAIN sizeArgs : RefersTo(sizeArgs[i], Parameter(i))

Annotated ==
    \A i \in 0..Last :
        /\ IsArray(Parameter(i))
        /\ status # "parse"
        /\ status = "annotate" => i < next
        => i \in DOMAIN sizeArgs

\* A size the runner has found is the right one, if the values are those of
\* their parameters, and it has found the sizes of all arrays it has been at.
SizesRight ==
    \A p \in DOMAIN sizeVal :
        /\ p \in 0..Last
        /\ sizeVal[p] \in Extent \cup {1}
        /\ Aligned => /\ Parameter(p).name \in SizeName
                      /\ sizeVal[p] = extent[Parameter(p).name]

Said ==
    status \in {"resolve", "bind"} =>
        \A i \in DOMAIN sizeArgs :
            NSizes <= i /\ (status = "resolve" => i < next) =>
                \A d \in DOMAIN sizeArgs[i] : sizeArgs[i][d] >= 0 => sizeArgs[i][d] \in DOMAIN sizeVal

\* The flags so far are the values of the first parameters.
Flagged ==
    /\ flags \in Seq(Flag)
    /\ Len(flags) <= Len(params)
    /\ Aligned => \A k \in DOMAIN flags : flags[k] = Value(k - 1)
    /\ status \in {"parse", "annotate", "resolve"} => Len(flags) = 0
    /\ status = "bind" => Len(flags) = next
    /\ status = "built" => Len(flags) = Len(params)

\* Each value behind the last loop was one that _payload can take.
Passed ==
    status \in {"bind", "built"} =>
        \A i \in NSizes..Last :
            (status = "bind" => i < next) =>
                ~Shapeless(BoundTo(i)) /\ BoundTo(i).text # Unreadable

Positioned ==
    /\ next \in 0..Last + 1
    /\ status = "parse" => next <= supplied
    /\ status \in {"parse", "annotate", "resolve", "bind", "built", "unsupported",
                   "out_of_range", "raised"}
    /\ status \in {"resolve", "bind", "built"} => Len(values) <= Len(params)

IInv ==
    /\ Entry /\ Positioned /\ ReadSoFar /\ Known /\ Refers /\ Annotated
    /\ SizesRight /\ Said /\ Flagged /\ Passed /\ EntryHandled

-----------------------------------------------------------------------------
(* Initially.                                                                *)

LEMMA EmptyIsShape ==
    /\ <<>> \in Dims
    /\ \A p : p.dims = <<>> => Names(p) = {}
<1>1. <<>> \in [1..0 -> SizeName \cup Extent]
    OBVIOUS
<1>2. <<>> \in Dims
    BY <1>1 DEF Dims
<1>3. ASSUME NEW p, p.dims = <<>>
      PROVE  Names(p) = {}
    BY <1>3 DEF Names
<1> QED
    BY <1>2, <1>3

LEMMA Concatenation ==
    ASSUME NEW S, NEW s \in Seq(S), NEW t \in Seq(S)
    PROVE  /\ s \o t \in Seq(S)
           /\ Len(s \o t) = Len(s) + Len(t)
           /\ \A i \in 1..Len(s) : (s \o t)[i] = s[i]
           /\ \A i \in 1..Len(t) : (s \o t)[Len(s) + i] = t[i]
OBVIOUS

LEMMA FunctionIsSequence ==
    ASSUME NEW S, NEW r \in Nat, NEW f \in [1..r -> S]
    PROVE  f \in Seq(S) /\ Len(f) = r
OBVIOUS

LEMMA FrontStays ==
    ASSUME NEW S, NEW s \in Seq(S), NEW t \in Seq(S), Len(s) >= 1
    PROVE  s \o t \in Seq(S) /\ Len(s \o t) >= 1 /\ (s \o t)[1] = s[1]
OBVIOUS

LEMMA FrontEnd ==
    ASSUME NEW m \in Nat, NEW n \in Nat,
           NEW sizes \in [1..m -> [name : SizeName, dims : {<<>>}]],
           NEW ps \in [1..n -> Param],
           params = sizes \o ps, written = Len(ps), WellScoped(sizes, ps)
    PROVE  /\ params \in Seq(Param)
           /\ written \in 0..Len(params)
           /\ \A i \in DOMAIN params : \A x \in Names(params[i]) :
                 \E j \in 1..i - 1 : params[j].name = x
           /\ \A j \in 1..Inferred :
                 /\ params[j].name \in SizeName
                 /\ \E i \in Inferred + 1..Len(params) : params[j].name \in Names(params[i])
<1>1. [name : SizeName, dims : {<<>>}] \subseteq Param
    BY EmptyIsShape DEF Param
<1>2. sizes \in [1..m -> Param]
    BY <1>1
<1>3. sizes \in Seq(Param) /\ Len(sizes) = m
    BY <1>2
<1>4. ps \in Seq(Param) /\ Len(ps) = n
    OBVIOUS
<1>5. /\ params \in Seq(Param)
      /\ Len(params) = m + n
      /\ \A i \in 1..m : params[i] = sizes[i]
      /\ \A i \in 1..n : params[m + i] = ps[i]
  <2>1. params \in Seq(Param) /\ Len(params) = Len(sizes) + Len(ps)
      BY <1>3, <1>4, Concatenation
  <2>2. ASSUME NEW i \in 1..m
        PROVE  params[i] = sizes[i]
      BY <1>3, <1>4
  <2>3. ASSUME NEW i \in 1..n
        PROVE  params[m + i] = ps[i]
    <3>1. m + i \in 1..m + n /\ ~(m + i <= m) /\ (m + i) - m = i
        OBVIOUS
    <3>2. params[m + i] = ps[(m + i) - Len(sizes)]
        BY <1>3, <1>4, <3>1
    <3> QED
        BY <1>3, <3>1, <3>2
  <2> QED
      BY <1>3, <1>4, <2>1, <2>2, <2>3
<1>6. Inferred = m /\ written = n
    BY <1>4, <1>5 DEF Inferred
<1>7. DOMAIN params = 1..m + n
    BY <1>5
<1>8. ASSUME NEW i \in 1..m
      PROVE  params[i].name \in SizeName /\ Names(params[i]) = {}
  <2>1. params[i] \in [name : SizeName, dims : {<<>>}]
      BY <1>5
  <2> QED
      BY <2>1, EmptyIsShape
<1>9. ASSUME NEW i \in DOMAIN params, NEW x \in Names(params[i])
      PROVE  \E j \in 1..i - 1 : params[j].name = x
  <2>1. i \in Int /\ ~(i \in 1..m)
    <3>1. i \in 1..m + n
        BY <1>7
    <3>2. CASE i \in 1..m
        BY <1>8, <3>2
    <3> QED
        BY <3>1, <3>2
  <2> DEFINE k == i - m
  <2>2. k \in 1..n /\ i = m + k
      BY <1>7, <2>1
  <2> HIDE DEF k
  <2>3. params[i] = ps[k]
      BY <1>5, <2>2
  <2>4. IsArray(ps[k])
      BY <2>3, EmptyIsShape DEF IsArray
  <2>5. Names(ps[k]) \subseteq {sizes[j].name : j \in DOMAIN sizes} \cup {ps[j].name : j \in 1..k - 1}
      BY <2>2, <2>4 DEF WellScoped
  <2>6. \/ \E j \in 1..m : sizes[j].name = x
        \/ \E j \in 1..k - 1 : ps[j].name = x
      BY <2>3, <2>5
  <2>7. CASE \E j \in 1..m : sizes[j].name = x
    <3>1. PICK j \in 1..m : sizes[j].name = x
        BY <2>7
    <3>2. j \in 1..i - 1 /\ params[j].name = x
        BY <1>5, <2>2, <3>1
    <3> QED
        BY <3>2
  <2>8. CASE \E j \in 1..k - 1 : ps[j].name = x
    <3>1. PICK j \in 1..k - 1 : ps[j].name = x
        BY <2>8
    <3>2. j \in 1..n /\ m + j \in 1..i - 1
        BY <2>2
    <3>3. params[m + j].name = x
        BY <1>5, <3>1, <3>2
    <3> QED
        BY <3>2, <3>3
  <2> QED
      BY <2>6, <2>7, <2>8
<1>10. ASSUME NEW j \in 1..Inferred
       PROVE  /\ params[j].name \in SizeName
              /\ \E i \in Inferred + 1..Len(params) : params[j].name \in Names(params[i])
  <2>1. j \in 1..m /\ params[j] = sizes[j] /\ params[j].name \in SizeName
      BY <1>5, <1>6, <1>8
  <2>2. PICK k \in DOMAIN ps : sizes[j].name \in Names(ps[k])
      BY <2>1 DEF WellScoped
  <2>3. k \in 1..n /\ m + k \in m + 1..m + n
      OBVIOUS
  <2>4. params[m + k] = ps[k]
      BY <1>5, <2>3
  <2> QED
      BY <1>5, <1>6, <2>1, <2>2, <2>3, <2>4
<1>11. written \in 0..Len(params)
    BY <1>5, <1>6
<1> QED
    BY <1>5, <1>9, <1>10, <1>11

LEMMA InitEntry == Init => Entry
<1> SUFFICES ASSUME Init PROVE Entry
    OBVIOUS
<1>1. PICK e \in Entries : params = e[1] \o e[2] /\ written = Len(e[2])
    BY DEF Init
<1>2. /\ \E m \in 0..MaxInferred : e[1] \in [1..m -> [name : SizeName, dims : {<<>>}]]
      /\ \E n \in 0..MaxExplicit : e[2] \in [1..n -> Param]
      /\ Distinct(params) /\ WellScoped(e[1], e[2])
    BY <1>1 DEF Entries
<1>3. /\ params \in Seq(Param)
      /\ written \in 0..Len(params)
      /\ \A i \in DOMAIN params : \A x \in Names(params[i]) :
            \E j \in 1..i - 1 : params[j].name = x
      /\ \A j \in 1..Inferred :
            /\ params[j].name \in SizeName
            /\ \E i \in Inferred + 1..Len(params) : params[j].name \in Names(params[i])
  <2>1. PICK m \in 0..MaxInferred : e[1] \in [1..m -> [name : SizeName, dims : {<<>>}]]
      BY <1>2
  <2>2. PICK n \in 0..MaxExplicit : e[2] \in [1..n -> Param]
      BY <1>2
  <2>3. m \in Nat /\ n \in Nat
      OBVIOUS
  <2>4. WellScoped(e[1], e[2])
      BY <1>2
  <2> DEFINE sizes == e[1]
             ps == e[2]
  <2>5. /\ sizes \in [1..m -> [name : SizeName, dims : {<<>>}]]
        /\ ps \in [1..n -> Param]
        /\ params = sizes \o ps /\ written = Len(ps) /\ WellScoped(sizes, ps)
      BY <1>1, <2>1, <2>2, <2>4
  <2> HIDE DEF sizes, ps
  <2> QED
      BY <2>3, <2>5, FrontEnd
<1>4. /\ supplied \in 0..written
      /\ literal \in [Supplied -> {"numbers", "other", "empty"}]
      /\ \A i \in Supplied : literal[i] \in LiteralsOf(Parameter(i))
      /\ extent \in [SizeName -> Extent]
    BY DEF Init
<1> QED
    BY <1>2, <1>3, <1>4 DEF Entry

LEMMA InitInv == Init => IInv
<1> SUFFICES ASSUME Init PROVE IInv
    OBVIOUS
<1>1. Entry
    BY InitEntry
<1>2. Len(params) \in Nat /\ supplied \in Nat /\ First \in Nat
    BY <1>1 DEF Entry, First
<1>3. /\ next = 0 /\ status = "parse" /\ values = <<>>
      /\ argPosition = <<>> /\ sizeArgs = <<>> /\ sizeVal = <<>> /\ flags = <<>>
    BY DEF Init
<1>4. Positioned
    BY <1>2, <1>3 DEF Positioned, Last
<1>5. ReadSoFar
  <2>1. values \in Seq(Parsable) /\ Len(values) = 0 /\ Past = 0
      BY <1>3 DEF Past
  <2>2. InOrder
      BY <1>2, <2>1 DEF InOrder
  <2> QED
      BY <2>1, <2>2 DEF ReadSoFar
<1>6. Known /\ Refers
    BY <1>3 DEF Known, Refers
<1>7. Annotated /\ SizesRight /\ Said /\ Passed
    BY <1>3 DEF Annotated, SizesRight, Said, Passed
<1>8. Flagged
  <2>1. flags \in Seq(Flag) /\ Len(flags) = 0 /\ DOMAIN flags = {}
      BY <1>3
  <2> QED
      BY <1>2, <1>3, <2>1 DEF Flagged
<1>9. EntryHandled
    BY <1>3 DEF EntryHandled
<1> QED
    BY <1>1, <1>4, <1>5, <1>6, <1>7, <1>8, <1>9 DEF IInv

-----------------------------------------------------------------------------
(* What the steps share.                                                     *)

LEMMA Numbered ==
    ASSUME Entry
    PROVE  /\ Len(params) \in Nat /\ Last \in Int /\ Last + 1 = Len(params)
           /\ DOMAIN params = 1..Len(params)
           /\ \A i \in 0..Last : Parameter(i) \in Param /\ i + 1 \in DOMAIN params
           /\ First \in 0..Len(params) /\ supplied \in Nat /\ First + supplied = Len(params)
           /\ Supplied = First..Last
<1>1. /\ Len(params) \in Nat
      /\ DOMAIN params = 1..Len(params)
      /\ \A j \in 1..Len(params) : params[j] \in Param
    BY DEF Entry
<1>2. ASSUME NEW i \in 0..Last
      PROVE  Parameter(i) \in Param /\ i + 1 \in DOMAIN params
  <2>1. i + 1 \in 1..Len(params)
      BY <1>1 DEF Last
  <2> QED
      BY <1>1, <2>1 DEF Parameter
<1>3. First \in 0..Len(params) /\ supplied \in Nat /\ First + supplied = Len(params)
    BY <1>1 DEF Entry, First
<1> QED
    BY <1>1, <1>2, <1>3 DEF Last, First, Supplied

LEMMA SameTest ==
    ASSUME UNCHANGED test
    PROVE  /\ Entry => Entry'
           /\ Last' = Last /\ First' = First /\ Supplied' = Supplied
           /\ Aligned' <=> Aligned
           /\ \A p : NoElements(p)' <=> NoElements(p)
           /\ \A i : /\ Parameter(i)' = Parameter(i) /\ Value(i)' = Value(i)
                     /\ Single(i)' = Single(i)
           /\ \A refs, p : RefersTo(refs, p)' <=> RefersTo(refs, p)
<1>1. /\ params' = params /\ written' = written
      /\ extent' = extent /\ supplied' = supplied /\ literal' = literal
    BY DEF test
<1>2. Last' = Last /\ First' = First
    BY <1>1 DEF Last, First
<1>3. Supplied' = Supplied
    BY <1>1, <1>2 DEF Supplied
<1>4. \A i : Parameter(i)' = Parameter(i)
    BY <1>1 DEF Parameter
<1>5. \A i : Value(i)' = Value(i)
    BY <1>1, <1>4 DEF Value
<1>6. \A p : Shape(p)' = Shape(p)
    BY <1>1 DEF Shape
<1>7. \A p : NoElements(p)' <=> NoElements(p)
    BY <1>6 DEF NoElements
<1>8. \A i : Single(i)' = Single(i)
    BY <1>1, <1>4, <1>5, <1>6 DEF Single, Shape
<1>9. Aligned' <=> Aligned
    BY <1>1, <1>3 DEF Aligned
<1>10. Entry => Entry'
  <2>1. \A p : LiteralsOf(p)' = LiteralsOf(p)
      BY <1>7 DEF LiteralsOf
  <2>2. \A i : LiteralsOf(Parameter(i))' = LiteralsOf(Parameter(i))
      BY <1>1, <2>1 DEF LiteralsOf, NoElements, Shape, Parameter
  <2>3. ASSUME \A i \in Supplied : literal[i] \in LiteralsOf(Parameter(i))
        PROVE  (\A i \in Supplied : literal[i] \in LiteralsOf(Parameter(i)))'
      BY <1>1, <1>3, <2>2, <2>3, Zenon
  <2> QED
      BY <1>1, <1>3, <2>3 DEF Entry, Inferred
<1>11. \A refs, p : RefersTo(refs, p)' <=> RefersTo(refs, p)
    BY <1>2, <1>4 DEF RefersTo
<1> QED
    BY <1>2, <1>3, <1>4, <1>5, <1>7, <1>8, <1>9, <1>10, <1>11

LEMMA SameValues ==
    ASSUME UNCHANGED test, UNCHANGED values
    PROVE  /\ NSizes' = NSizes /\ Bound' = Bound
           /\ \A i : BoundTo(i)' = BoundTo(i)
<1>1. params' = params /\ values' = values
    BY DEF test
<1>2. NSizes' = NSizes
    BY <1>1 DEF NSizes
<1> QED
    BY <1>1, <1>2 DEF Bound, BoundTo, NSizes, Last

\* What has been read of the test is not touched once it has been read.
LEMMA SameReading ==
    ASSUME ReadSoFar, UNCHANGED test, UNCHANGED values, Past' = Past
    PROVE  ReadSoFar'
<1>1. First' = First /\ (Aligned' <=> Aligned) /\ literal' = literal
    BY SameTest DEF test
<1>2. InPieces => InPieces'
    BY <1>1 DEF InPieces
<1>3. InOrder => InOrder'
    BY <1>1, SameTest DEF InOrder
<1> QED
    BY <1>2, <1>3 DEF ReadSoFar

\* The conjuncts that speak of nothing but what the compiler has written.
LEMMA SameAnnotations ==
    ASSUME IInv, UNCHANGED test, UNCHANGED <<argPosition, sizeArgs>>,
           status # "parse",
           status = "annotate" => next > Last, status' # "annotate"
    PROVE  Known' /\ Refers' /\ Annotated'
<1> USE SameTest DEF IInv
<1>1. Known'
    BY DEF Known
<1>2. Refers'
    BY DEF Refers
<1>3. Annotated'
  <2>1. \A i \in 0..Last : status = "annotate" => i < next
      BY Numbered DEF Positioned
  <2> QED
      BY <2>1 DEF Annotated, IsArray
<1> QED
    BY <1>1, <1>2, <1>3

\* A literal in pieces is one of an array without elements, and none the runner
\* reads.
LEMMA InPiecesIsEmpty ==
    ASSUME Entry, ~Aligned
    PROVE  /\ \E i \in Supplied : ~Usual(i)
           /\ \E i \in Supplied : NoElements(Parameter(i))
<1>1. PICK i \in Supplied : literal[i] = "empty"
    BY DEF Aligned
<1>2. "empty" \in LiteralsOf(Parameter(i))
    BY <1>1 DEF Entry
<1>3. CASE NoElements(Parameter(i))
  <2>1. ~Usual(i)
      BY <1>3 DEF Usual
  <2> QED
      BY <1>3, <2>1
<1>4. CASE ~NoElements(Parameter(i))
  <2>1. LiteralsOf(Parameter(i)) = {"numbers", "other"}
      BY <1>4 DEF LiteralsOf
  <2> QED
      BY <1>2, <2>1
<1> QED
    BY <1>3, <1>4

\* The three ways to be handled, of a state with the same entry point and test.
LEMMA StillHandled ==
    ASSUME UNCHANGED test, status' # "out_of_range",
           status' = "built" => \A i \in Supplied : Usual(i),
           status' = "unsupported" => supplied # written \/ \E i \in Supplied : ~Usual(i),
           status' = "raised" => \E i \in Supplied : NoElements(Parameter(i))
    PROVE  EntryHandled'
<1>1. supplied' = supplied /\ written' = written /\ Supplied' = Supplied /\ literal' = literal
    BY SameTest DEF test
<1>2. \A i : NoElements(Parameter(i))' <=> NoElements(Parameter(i))
  <2> TAKE i
  <2>1. params' = params /\ extent' = extent
      BY DEF test
  <2> QED
      BY <2>1 DEF NoElements, Shape, Parameter
<1>3. \A i : Usual(i)' <=> Usual(i)
    BY <1>1, <1>2 DEF Usual
<1> QED
    BY <1>1, <1>2, <1>3 DEF EntryHandled

-----------------------------------------------------------------------------
(* Reading the test.                                                         *)

LEMMA ShapeIsExtents ==
    ASSUME Entry, NEW p \in Param
    PROVE  Shape(p) \in Seq(Extent \cup {1}) /\ DOMAIN Shape(p) = DOMAIN p.dims
<1>1. p.dims \in Dims
    BY DEF Param
<1>2. PICK r \in 0..MaxRank : p.dims \in [1..r -> SizeName \cup Extent]
    BY <1>1 DEF Dims
<1>3. Shape(p) \in [1..r -> Extent]
  <2>1. \A d \in 1..r : Shape(p)[d] \in Extent
      BY <1>2 DEF Shape, Entry
  <2> QED
      BY <1>2, <2>1 DEF Shape
<1>4. r \in Nat
    OBVIOUS
<1>5. Shape(p) \in [1..r -> Extent \cup {1}]
    BY <1>3
<1> QED
    BY <1>2, <1>4, <1>5 DEF Shape

LEMMA ValueIsFlag ==
    ASSUME Entry, NEW i \in 0..Last
    PROVE  Value(i) \in Flag /\ Value(i) # Unreadable
<1>1. CASE Parameter(i).name \in SizeName
  <2>1. extent[Parameter(i).name] \in Extent
      BY <1>1 DEF Entry
  <2>2. Value(i) = <<"size", extent[Parameter(i).name]>>
      BY <1>1 DEF Value
  <2> QED
      BY <2>1, <2>2 DEF Flag, Unreadable
<1>2. CASE Parameter(i).name \notin SizeName
  <2>1. Value(i) = <<"value", i>> /\ i \in Nat
      BY <1>2 DEF Value
  <2> QED
      BY <2>1 DEF Flag, Unreadable
<1> QED
    BY <1>1, <1>2

\* A literal is one value, that of its parameter, or pieces.
LEMMA ParsedFacts ==
    ASSUME Entry, NEW i \in Supplied
    PROVE  /\ Parsed(i) \in Seq(Parsable)
           /\ literal[i] # "empty" => Parsed(i) = <<Single(i)>>
           /\ literal[i] = "empty" => \E k \in DOMAIN Parsed(i) : Parsed(i)[k].text = Unreadable
<1> DEFINE p == Parameter(i)
<1>1. i \in 0..Last /\ p \in Param /\ literal[i] \in {"numbers", "other", "empty"}
    BY Numbered DEF Entry
<1>2. /\ Shape(p) \in Seq(Extent \cup {1})
      /\ Value(i) \in Flag
    BY <1>1, ShapeIsExtents, ValueIsFlag
<1>3. CASE literal[i] # "empty"
  <2>1. Parsed(i) = <<Single(i)>>
      BY <1>1, <1>3 DEF Parsed, Single
  <2>2. Single(i) \in Parsable
      BY <1>2 DEF Single, Parsable
  <2> QED
      BY <1>3, <2>1, <2>2
<1>4. CASE literal[i] = "empty"
  <2> DEFINE lists == [d \in DOMAIN p.dims |-> [shape |-> <<1>>, text |-> Unreadable]]
             word == <<Word>>
  <2>1. Parsed(i) = (word \o lists) \o word
      BY <1>4 DEF Parsed
  <2>2. word \in Seq(Parsable) /\ Len(word) = 1 /\ word[1] = Word /\ Word.text = Unreadable
    <3>1. <<>> \in Seq(Extent \cup {1})
        OBVIOUS
    <3>2. Word \in Parsable /\ Word.text = Unreadable
        BY <3>1 DEF Word, Parsable
    <3> QED
        BY <3>2
  <2>3. lists \in Seq(Parsable)
    <3>1. DOMAIN p.dims = DOMAIN Shape(p)
        BY <1>1, ShapeIsExtents
    <3>2. PICK r \in Nat : DOMAIN p.dims = 1..r
        BY <1>2, <3>1
    <3>3. <<1>> \in Seq(Extent \cup {1})
        OBVIOUS
    <3>4. [shape |-> <<1>>, text |-> Unreadable] \in Parsable
        BY <3>3 DEF Parsable
    <3>5. lists \in [1..r -> Parsable]
        BY <3>2, <3>4
    <3> HIDE DEF lists
    <3> QED
        BY <3>5, FunctionIsSequence
  <2>4. PICK l \in Seq(Parsable) : l = lists
      BY <2>3
  <2>5. PICK w \in Seq(Parsable) : w = word /\ Len(w) = 1 /\ w[1] = Word
      BY <2>2
  <2>6. Parsed(i) = (w \o l) \o w
      BY <2>1, <2>4, <2>5
  <2> HIDE DEF lists, word
  <2>7. w \o l \in Seq(Parsable) /\ Len(w \o l) >= 1 /\ (w \o l)[1] = w[1]
      BY <2>5, FrontStays
  <2>8. /\ (w \o l) \o w \in Seq(Parsable)
        /\ Len((w \o l) \o w) >= 1
        /\ ((w \o l) \o w)[1] = (w \o l)[1]
      BY <2>7, FrontStays
  <2>9. Parsed(i) \in Seq(Parsable) /\ 1 \in DOMAIN Parsed(i) /\ Parsed(i)[1] = Word
      BY <2>5, <2>6, <2>7, <2>8
  <2> QED
      BY <1>4, <2>2, <2>9
<1> QED
    BY <1>3, <1>4

LEMMA ParseReads ==
    ASSUME IInv, Parse
    PROVE  ReadSoFar'
<1> DEFINE i == First + next
           new == Parsed(i)
<1>1. /\ UNCHANGED test
      /\ status = "parse" /\ status' = "parse" /\ next < supplied
      /\ next' = next + 1
      /\ values' = values \o new
      /\ Entry /\ ReadSoFar
    BY DEF IInv, Parse, First
<1>2. next \in Nat /\ i \in Supplied /\ First \in Nat /\ supplied \in Nat
    BY <1>1, Numbered DEF IInv, Positioned
<1>3. /\ new \in Seq(Parsable)
      /\ literal[i] # "empty" => new = <<Single(i)>>
      /\ literal[i] = "empty" => \E k \in DOMAIN new : new[k].text = Unreadable
    BY <1>1, <1>2, ParsedFacts
<1> HIDE DEF new
<1>4. values \in Seq(Parsable) /\ Len(values) \in Nat /\ Len(new) \in Nat
    BY <1>1, <1>3 DEF ReadSoFar
<1>5. /\ values' \in Seq(Parsable)
      /\ Len(values') = Len(values) + Len(new)
      /\ \A k \in 1..Len(values) : values'[k] = values[k]
      /\ \A k \in 1..Len(new) : values'[Len(values) + k] = new[k]
    BY <1>1, <1>3, <1>4, Concatenation
<1>6. /\ \A k \in DOMAIN values : k \in DOMAIN values' /\ values'[k] = values[k]
      /\ \A k \in DOMAIN new : Len(values) + k \in DOMAIN values'
  <2>1. /\ DOMAIN values = 1..Len(values) /\ DOMAIN new = 1..Len(new)
        /\ DOMAIN values' = 1..Len(values')
      BY <1>3, <1>4, <1>5
  <2> QED
      BY <1>4, <1>5, <2>1
<1>7. Past = next /\ Past' = next + 1
    BY <1>1 DEF Past
<1>8. First' = First /\ (Aligned' <=> Aligned) /\ literal' = literal
    BY <1>1, SameTest DEF test
<1>9. CASE InPieces
  <2>1. PICK k \in DOMAIN values : values[k].text = Unreadable
      BY <1>9 DEF InPieces
  <2>2. k \in DOMAIN values' /\ values'[k].text = Unreadable
      BY <1>6, <2>1
  <2>3. ~Aligned'
      BY <1>8, <1>9 DEF InPieces
  <2>4. InPieces'
      BY <2>2, <2>3 DEF InPieces
  <2> QED
      BY <1>5, <2>4 DEF ReadSoFar
<1>10. CASE literal[i] = "empty"
  <2>1. PICK k \in DOMAIN new : new[k].text = Unreadable
      BY <1>3, <1>10
  <2>2. k \in 1..Len(new)
      BY <1>3
  <2>3. values'[Len(values) + k].text = Unreadable /\ Len(values) + k \in DOMAIN values'
      BY <1>5, <1>6, <2>1, <2>2
  <2>4. ~Aligned
      BY <1>2, <1>10 DEF Aligned
  <2>5. InPieces'
      BY <1>8, <2>3, <2>4 DEF InPieces
  <2> QED
      BY <1>5, <2>5 DEF ReadSoFar
<1>11. CASE InOrder /\ literal[i] # "empty"
  <2>1. /\ \A q \in First..First + next - 1 : literal[q] # "empty"
        /\ Len(values) = next
        /\ \A k \in 1..next : values[k] = Single(First + k - 1)
      BY <1>7, <1>11 DEF InOrder
  <2>2. new = <<Single(i)>>
      BY <1>3, <1>11
  <2>3. Len(new) = 1 /\ new[1] = Single(i)
      BY <2>2
  <2>4. Len(values') = next + 1
      BY <1>5, <2>1, <2>3
  <2>5. ASSUME NEW k \in 1..next + 1
        PROVE  values'[k] = Single(First + k - 1)
    <3>1. CASE k \in 1..next
      <4>1. values'[k] = values[k]
          BY <1>5, <2>1, <3>1
      <4> QED
          BY <2>1, <3>1, <4>1
    <3>2. CASE k = next + 1
      <4>1. First + k - 1 = i
          BY <1>2, <3>2
      <4>2. 1 \in 1..Len(new) /\ values'[Len(values) + 1] = new[1]
          BY <1>5, <2>3
      <4> QED
          BY <2>1, <2>3, <3>2, <4>1, <4>2
    <3> QED
        BY <1>2, <3>1, <3>2
  <2>6. ASSUME NEW q \in First..First + next
        PROVE  literal[q] # "empty"
    <3>1. q = i \/ q \in First..First + next - 1
        BY <1>2
    <3> QED
        BY <1>11, <2>1, <3>1
  <2>7. First + (next + 1) - 1 = First + next
      BY <1>2
  <2>8. InOrder'
    <3>1. \A q \in First..First + (next + 1) - 1 : literal'[q] # "empty"
        BY <1>8, <2>6, <2>7
    <3>2. \A k \in 1..next + 1 : values'[k] = Single(First + k - 1)'
        BY <1>1, <1>8, <2>5, SameTest
    <3> QED
        BY <1>7, <1>8, <2>4, <3>1, <3>2 DEF InOrder
  <2> QED
      BY <1>5, <2>8 DEF ReadSoFar
<1> QED
    BY <1>1, <1>9, <1>10, <1>11 DEF ReadSoFar

LEMMA ParseInv ==
    ASSUME IInv, Parse
    PROVE  IInv'
<1>1. /\ UNCHANGED test /\ UNCHANGED <<argPosition, sizeArgs, sizeVal, flags>>
      /\ status = "parse" /\ status' = "parse" /\ next < supplied
      /\ next' = next + 1
      /\ Entry
    BY DEF IInv, Parse
<1>2. Entry' /\ ReadSoFar'
    BY <1>1, SameTest, ParseReads
<1>3. Positioned'
  <2>1. next + 1 \in 0..Last + 1 /\ next + 1 <= supplied
      BY <1>1, Numbered DEF IInv, Positioned
  <2>2. supplied' = supplied
      BY <1>1 DEF test
  <2> QED
      BY <1>1, <2>1, <2>2, SameTest DEF Positioned
<1>4. Known' /\ Refers'
    BY <1>1, SameTest DEF IInv, Known, Refers
<1>5. Annotated' /\ Said' /\ Passed'
    BY <1>1 DEF Annotated, Said, Passed
<1>6. SizesRight'
    BY <1>1, SameTest DEF IInv, SizesRight, test
<1>7. Flagged'
    BY <1>1, SameTest DEF IInv, Flagged, test
<1>8. EntryHandled'
    BY <1>1, StillHandled
<1> QED
    BY <1>2, <1>3, <1>4, <1>5, <1>6, <1>7, <1>8 DEF IInv

LEMMA StartCompilerInv ==
    ASSUME IInv, StartCompiler
    PROVE  IInv'
<1>1. /\ UNCHANGED test /\ UNCHANGED values
      /\ UNCHANGED <<argPosition, sizeArgs, sizeVal, flags>>
      /\ status = "parse" /\ status' = "annotate" /\ next = supplied /\ next' = 0
      /\ Entry
    BY DEF IInv, StartCompiler
<1>2. Entry'
    BY <1>1, SameTest
<1>3. ReadSoFar'
  <2>1. Past' = Past
      BY <1>1 DEF Past, test
  <2> QED
      BY <1>1, <2>1, SameReading DEF IInv
<1>4. Positioned'
    BY <1>1, SameTest, Numbered DEF Positioned
<1>5. Known'
  <2>1. \A i \in 0..next' - 1 : FALSE
      BY <1>1
  <2> QED
      BY <1>1, <2>1, SameTest DEF IInv, Known
<1>6. Refers'
    BY <1>1, SameTest DEF IInv, Refers
<1>7. Annotated'
  <2>1. \A i \in 0..Last' : ~(i < next')
      BY <1>1
  <2> QED
      BY <1>1, <2>1 DEF Annotated
<1>8. Said' /\ Passed'
    BY <1>1 DEF Said, Passed
<1>9. SizesRight'
    BY <1>1, SameTest DEF IInv, SizesRight, test
<1>10. Flagged'
    BY <1>1, SameTest DEF IInv, Flagged, test
<1>11. EntryHandled'
    BY <1>1, StillHandled
<1> QED
    BY <1>2, <1>3, <1>4, <1>5, <1>6, <1>7, <1>8, <1>9, <1>10, <1>11 DEF IInv

-----------------------------------------------------------------------------
(* The compiler.                                                             *)

\* A parameter's sizes are among the names met when it is its turn, its own
\* name included, and the positions say which parameters they are.
LEMMA SizesKnown ==
    ASSUME Entry, Known, status = "annotate", next \in 0..Last,
           NEW known, known = Bind(argPosition, Parameter(next).name, next)
    PROVE  /\ \A x \in DOMAIN known :
                 /\ x \in SizeName \cup {Anonymous}
                 /\ known[x] \in 0..Last
                 /\ Parameter(known[x]).name = x
           /\ \A i \in 0..next : Parameter(i).name \in DOMAIN known
           /\ Names(Parameter(next)) \subseteq DOMAIN known
           /\ RefersTo(Positions(known, Parameter(next)), Parameter(next))
<1> DEFINE p == Parameter(next)
<1>1. p \in Param /\ next + 1 \in DOMAIN params /\ p = params[next + 1]
    BY Numbered DEF Parameter
<1>2. p.name \in SizeName \cup {Anonymous}
    BY <1>1 DEF Param
<1>3. DOMAIN known = DOMAIN argPosition \cup {p.name}
    BY DEF Bind
<1>4. \A x \in DOMAIN known : known[x] = IF x = p.name THEN next ELSE argPosition[x]
    BY DEF Bind
<1>5. \A x \in DOMAIN known :
         /\ x \in SizeName \cup {Anonymous}
         /\ known[x] \in 0..Last
         /\ Parameter(known[x]).name = x
    BY <1>2, <1>3, <1>4 DEF Known
<1>6. ASSUME NEW i \in 0..next
      PROVE  Parameter(i).name \in DOMAIN known
  <2>1. i = next \/ i \in 0..next - 1
      BY Numbered
  <2> QED
      BY <1>3, <2>1 DEF Known
<1>7. ASSUME NEW x \in Names(p)
      PROVE  x \in DOMAIN known
  <2>1. PICK j \in 1..(next + 1) - 1 : params[j].name = x
      BY <1>1 DEF Entry
  <2>2. j - 1 \in 0..next /\ (j - 1) + 1 = j
      BY <2>1, Numbered
  <2> QED
      BY <1>6, <2>1, <2>2 DEF Parameter
<1>8. ASSUME NEW d \in DOMAIN p.dims
      PROVE  /\ Positions(known, p)[d] \in -1..Last
             /\ IF p.dims[d] \in SizeName
                THEN /\ Positions(known, p)[d] >= 0
                     /\ Parameter(Positions(known, p)[d]).name = p.dims[d]
                ELSE Positions(known, p)[d] = -1
  <2>1. Positions(known, p)[d] = IF p.dims[d] \in SizeName THEN known[p.dims[d]] ELSE -1
      BY DEF Positions
  <2>2. CASE p.dims[d] \in SizeName
    <3>1. p.dims[d] \in DOMAIN known
        BY <1>7, <2>2 DEF Names
    <3> QED
        BY <1>5, <2>1, <2>2, <3>1, Numbered
  <2>3. CASE p.dims[d] \notin SizeName
      BY <2>1, <2>3, Numbered
  <2> QED
      BY <2>2, <2>3
<1>9. RefersTo(Positions(known, p), p)
    BY <1>8 DEF RefersTo, Positions
<1> QED
    BY <1>5, <1>6, <1>7, <1>9

LEMMA AnnotateInv ==
    ASSUME IInv, Annotate
    PROVE  IInv'
<1> DEFINE p == Parameter(next)
           known == Bind(argPosition, p.name, next)
<1>1. /\ UNCHANGED test /\ UNCHANGED values /\ UNCHANGED <<sizeVal, flags>>
      /\ status = "annotate" /\ next \in 0..Last
      /\ Entry /\ Known /\ Refers /\ Annotated
    BY Numbered DEF IInv, Annotate, Positioned
<1>2. /\ \A x \in DOMAIN known :
            /\ x \in SizeName \cup {Anonymous}
            /\ known[x] \in 0..Last
            /\ Parameter(known[x]).name = x
      /\ \A i \in 0..next : Parameter(i).name \in DOMAIN known
      /\ Names(p) \subseteq DOMAIN known
      /\ RefersTo(Positions(known, p), p)
    BY <1>1, SizesKnown
<1>3. /\ argPosition' = known
      /\ sizeArgs' = IF IsArray(p) THEN Bind(sizeArgs, next, Positions(known, p)) ELSE sizeArgs
      /\ next' = next + 1 /\ status' = status
    BY <1>2 DEF Annotate
<1> HIDE DEF known
<1>4. Entry' /\ ReadSoFar'
  <2>1. Past' = Past
      BY <1>1, <1>3 DEF Past, test
  <2> QED
      BY <1>1, <2>1, SameTest, SameReading DEF IInv
<1>5. Positioned'
    BY <1>1, <1>3, SameTest, Numbered DEF Positioned
<1>6. Known'
  <2>1. ASSUME NEW x \in DOMAIN argPosition'
        PROVE  /\ x \in SizeName \cup {Anonymous}
               /\ argPosition'[x] \in 0..Last'
               /\ params'[argPosition'[x] + 1].name = x
    <3>1. params' = params
        BY <1>1 DEF test
    <3> QED
        BY <1>1, <1>2, <1>3, <3>1, SameTest DEF Parameter
  <2>2. ASSUME NEW i \in 0..next' - 1
        PROVE  Parameter(i)'.name \in DOMAIN argPosition'
    <3>1. i \in 0..next
        BY <1>1, <1>3, Numbered
    <3> QED
        BY <1>1, <1>2, <1>3, <3>1, SameTest
  <2> QED
      BY <2>1, <2>2 DEF Known, Parameter
<1>7. /\ DOMAIN sizeArgs' = IF IsArray(p) THEN DOMAIN sizeArgs \cup {next} ELSE DOMAIN sizeArgs
      /\ \A i \in DOMAIN sizeArgs' : RefersTo(sizeArgs'[i], Parameter(i))
    BY <1>1, <1>2, <1>3 DEF Bind, Refers
<1>8. Refers'
    BY <1>1, <1>7, SameTest DEF Refers
<1>9. Annotated'
  <2>1. ASSUME NEW i \in 0..Last', IsArray(Parameter(i)'), i < next'
        PROVE  i \in DOMAIN sizeArgs'
    <3>1. i = next \/ i < next
        BY <1>1, <1>3, <2>1, SameTest, Numbered
    <3> QED
        BY <1>1, <1>7, <2>1, <3>1, SameTest DEF Annotated
  <2> QED
      BY <1>1, <1>3, <2>1 DEF Annotated, IsArray
<1>10. SizesRight'
    BY <1>1, SameTest DEF IInv, SizesRight, test
<1>11. Said' /\ Passed'
    BY <1>1, <1>3 DEF Said, Passed
<1>12. Flagged'
    BY <1>1, <1>3, SameTest DEF IInv, Flagged, test
<1>13. EntryHandled'
    BY <1>1, <1>3, StillHandled
<1> QED
    BY <1>4, <1>5, <1>6, <1>8, <1>9, <1>10, <1>11, <1>12, <1>13 DEF IInv

-----------------------------------------------------------------------------
(* The runner.                                                               *)

\* The facts that all steps of the runner but the last two keep.
LEMMA RunnerKeeps ==
    ASSUME IInv, UNCHANGED test, UNCHANGED values, UNCHANGED <<argPosition, sizeArgs>>,
           status # "parse", status' \notin {"parse", "annotate"},
           status = "annotate" => next > Last
    PROVE  Entry' /\ ReadSoFar' /\ Known' /\ Refers' /\ Annotated'
<1>1. Past' = Past
    BY DEF Past, test
<1>2. ReadSoFar'
    BY <1>1, SameReading DEF IInv
<1>3. Known' /\ Refers' /\ Annotated'
    BY SameAnnotations
<1>4. Entry'
    BY SameTest DEF IInv
<1> QED
    BY <1>2, <1>3, <1>4

\* The parameters that are bound are those behind the derived sizes.
LEMMA BoundIsSupplied ==
    ASSUME Entry, ReadSoFar, Len(values) <= Len(params)
    PROVE  /\ NSizes \in 0..Len(params)
           /\ \A i \in 0..Last : i \in Bound <=> NSizes <= i
           /\ \A i \in Bound : i - NSizes + 1 \in DOMAIN values /\ BoundTo(i) \in Parsable
<1>1. /\ values \in Seq(Parsable) /\ Len(values) \in Nat /\ DOMAIN values = 1..Len(values)
    BY DEF ReadSoFar
<1>2. NSizes \in 0..Len(params) /\ NSizes + Len(values) = Last + 1
    BY <1>1, Numbered DEF NSizes
<1>3. \A i \in 0..Last : i \in Bound <=> NSizes <= i
    BY <1>1, <1>2, Numbered DEF Bound
<1>4. ASSUME NEW i \in Bound
      PROVE  i - NSizes + 1 \in DOMAIN values /\ BoundTo(i) \in Parsable
  <2>1. i - NSizes + 1 \in DOMAIN values
      BY <1>1, <1>2, Numbered DEF Bound
  <2> QED
      BY <1>1, <2>1 DEF BoundTo
<1> QED
    BY <1>2, <1>3, <1>4

\* If no literal falls into pieces, a value is bound to the parameter it is for.
LEMMA AlignedIsBound ==
    ASSUME Entry, ReadSoFar, Aligned, status # "parse"
    PROVE  /\ Len(values) = supplied /\ NSizes = First
           /\ \A i \in First..Last : BoundTo(i) = Single(i)
<1>1. /\ Len(values) = supplied
      /\ \A k \in 1..supplied : values[k] = Single(First + k - 1)
    BY DEF ReadSoFar, InOrder, InPieces, Past
<1>2. NSizes = First
    BY <1>1 DEF NSizes, First
<1>3. ASSUME NEW i \in First..Last
      PROVE  BoundTo(i) = Single(i)
  <2>1. i - First + 1 \in 1..supplied /\ First + (i - First + 1) - 1 = i
      BY Numbered
  <2> QED
      BY <1>1, <1>2, <2>1 DEF BoundTo
<1> QED
    BY <1>1, <1>2, <1>3

\* If every value is one that _payload takes, so is every literal.
LEMMA AllPassed ==
    ASSUME Entry, ReadSoFar, status # "parse", Len(values) <= Len(params),
           \A i \in NSizes..Last : ~Shapeless(BoundTo(i)) /\ BoundTo(i).text # Unreadable
    PROVE  Aligned /\ \A i \in Supplied : Usual(i)
<1>1. ASSUME NEW k \in DOMAIN values
      PROVE  values[k].text # Unreadable
  <2> DEFINE i == k + NSizes - 1
  <2>1. k \in 1..Len(values) /\ Len(values) \in Nat
      BY DEF ReadSoFar
  <2>2. NSizes \in Nat /\ NSizes + Len(values) = Last + 1
      BY <2>1, BoundIsSupplied, Numbered DEF NSizes
  <2>3. i \in NSizes..Last /\ i - NSizes + 1 = k
      BY <2>1, <2>2, Numbered
  <2> HIDE DEF i
  <2> QED
      BY <2>3 DEF BoundTo
<1>2. InOrder
    BY <1>1 DEF ReadSoFar, InPieces
<1>3. Aligned
  <2>1. \A i \in First..First + supplied - 1 : literal[i] # "empty"
      BY <1>2 DEF InOrder, Past
  <2>2. First + supplied - 1 = Last
      BY Numbered
  <2> QED
      BY <2>1, <2>2, Numbered DEF Aligned
<1>4. ASSUME NEW i \in Supplied
      PROVE  Usual(i)
  <2>1. i \in First..Last /\ BoundTo(i) = Single(i) /\ i \in NSizes..Last
      BY <1>3, Numbered, AlignedIsBound
  <2>2. Single(i).text # Unreadable /\ ~Shapeless(Single(i))
      BY <2>1
  <2>3. literal[i] = "numbers"
      BY <2>2 DEF Single
  <2>4. Single(i).shape = Shape(Parameter(i))
      BY DEF Single
  <2>5. ~NoElements(Parameter(i))
      BY <2>2, <2>4, ShapeIsExtents, Numbered DEF Shapeless, NoElements, Shape
  <2> QED
      BY <2>3, <2>5 DEF Usual
<1> QED
    BY <1>3, <1>4

LEMMA TooManyValuesInv ==
    ASSUME IInv, TooManyValues
    PROVE  IInv'
<1>1. /\ UNCHANGED test /\ UNCHANGED values
      /\ UNCHANGED <<next, argPosition, sizeArgs, sizeVal, flags>>
      /\ status = "annotate" /\ next > Last /\ Len(values) > Len(params)
      /\ status' = "unsupported"
      /\ Entry /\ ReadSoFar
    BY DEF IInv, TooManyValues
<1>2. Entry' /\ ReadSoFar' /\ Known' /\ Refers' /\ Annotated'
    BY <1>1, RunnerKeeps
<1>3. Positioned'
    BY <1>1, SameTest DEF IInv, Positioned
<1>4. SizesRight' /\ Said' /\ Passed'
    BY <1>1, SameTest DEF IInv, SizesRight, Said, Passed, test
<1>5. Flagged'
    BY <1>1, SameTest DEF IInv, Flagged, test
<1>6. EntryHandled'
  <2>1. ~Aligned
      BY <1>1, AlignedIsBound, Numbered
  <2>2. \E i \in Supplied : ~Usual(i)
      BY <1>1, <2>1, InPiecesIsEmpty
  <2> QED
      BY <1>1, <2>2, StillHandled
<1> QED
    BY <1>2, <1>3, <1>4, <1>5, <1>6 DEF IInv

LEMMA StartRunnerInv ==
    ASSUME IInv, StartRunner
    PROVE  IInv'
<1>1. /\ UNCHANGED test /\ UNCHANGED values
      /\ UNCHANGED <<argPosition, sizeArgs, sizeVal, flags>>
      /\ status = "annotate" /\ next > Last /\ Len(values) <= Len(params)
      /\ status' = "resolve" /\ next' = 0
      /\ Entry
    BY DEF IInv, StartRunner
<1>2. Entry' /\ ReadSoFar' /\ Known' /\ Refers' /\ Annotated'
    BY <1>1, RunnerKeeps
<1>3. Positioned'
    BY <1>1, SameTest, Numbered DEF IInv, Positioned, test
<1>4. SizesRight' /\ Passed'
    BY <1>1, SameTest DEF IInv, SizesRight, Passed, test
<1>5. Said'
  <2>1. \A i \in DOMAIN sizeArgs : ~(i < 0)
      BY Numbered DEF IInv, Refers
  <2> QED
      BY <1>1, <2>1 DEF Said
<1>6. Flagged'
    BY <1>1, SameTest DEF IInv, Flagged, test
<1>7. EntryHandled'
    BY <1>1, StillHandled
<1> QED
    BY <1>2, <1>3, <1>4, <1>5, <1>6, <1>7 DEF IInv

LEMMA SkipScalarInv ==
    ASSUME IInv, SkipScalar
    PROVE  IInv'
<1>1. /\ UNCHANGED test /\ UNCHANGED values
      /\ UNCHANGED <<argPosition, sizeArgs, sizeVal, flags, status>>
      /\ status = "resolve" /\ next \in 0..Last
      /\ next \notin DOMAIN sizeArgs \cap Bound
      /\ next' = next + 1
      /\ Entry /\ ReadSoFar /\ Len(values) <= Len(params)
    BY Numbered DEF IInv, SkipScalar, Positioned
<1>2. Entry' /\ ReadSoFar' /\ Known' /\ Refers' /\ Annotated'
    BY <1>1, RunnerKeeps
<1>3. Positioned'
    BY <1>1, SameTest, Numbered DEF IInv, Positioned, test
<1>4. SizesRight' /\ Passed'
    BY <1>1, SameTest DEF IInv, SizesRight, Passed, test
<1>5. Said'
  <2>1. ASSUME NEW i \in DOMAIN sizeArgs, NSizes <= i, i < next + 1
        PROVE  i < next
    <3>1. i \in 0..Last /\ (i \in Bound <=> NSizes <= i)
        BY <1>1, BoundIsSupplied DEF IInv, Refers
    <3> QED
        BY <1>1, <2>1, <3>1, Numbered
  <2> QED
      BY <1>1, <2>1, SameTest, SameValues DEF IInv, Said
<1>6. Flagged'
    BY <1>1, SameTest DEF IInv, Flagged, test
<1>7. EntryHandled'
    BY <1>1, StillHandled
<1> QED
    BY <1>2, <1>3, <1>4, <1>5, <1>6, <1>7 DEF IInv

LEMMA StartBindingInv ==
    ASSUME IInv, StartBinding
    PROVE  IInv'
<1>1. /\ UNCHANGED test /\ UNCHANGED values
      /\ UNCHANGED <<argPosition, sizeArgs, sizeVal, flags>>
      /\ status = "resolve" /\ next > Last
      /\ status' = "bind" /\ next' = 0
      /\ Entry /\ ReadSoFar /\ Len(values) <= Len(params)
    BY DEF IInv, StartBinding, Positioned
<1>2. Entry' /\ ReadSoFar' /\ Known' /\ Refers' /\ Annotated'
    BY <1>1, RunnerKeeps
<1>3. Positioned'
    BY <1>1, SameTest, Numbered DEF IInv, Positioned, test
<1>4. SizesRight'
    BY <1>1, SameTest DEF IInv, SizesRight, test
<1>5. Said'
  <2>1. \A i \in DOMAIN sizeArgs : i < next
      BY <1>1, Numbered DEF IInv, Refers, Positioned
  <2> QED
      BY <1>1, <2>1, SameTest, SameValues DEF IInv, Said
<1>6. Passed'
  <2>1. \A i \in NSizes..Last : ~(i < 0)
      BY <1>1, BoundIsSupplied, Numbered
  <2> QED
      BY <1>1, <2>1, SameTest, SameValues DEF Passed
<1>7. Flagged'
    BY <1>1, SameTest DEF IInv, Flagged, test
<1>8. EntryHandled'
    BY <1>1, StillHandled
<1> QED
    BY <1>2, <1>3, <1>4, <1>5, <1>6, <1>7, <1>8 DEF IInv

LEMMA EndBindingInv ==
    ASSUME IInv, EndBinding
    PROVE  IInv'
<1>1. /\ UNCHANGED test /\ UNCHANGED values
      /\ UNCHANGED <<next, argPosition, sizeArgs, sizeVal, flags>>
      /\ status = "bind" /\ next > Last
      /\ status' = "built"
      /\ Entry /\ ReadSoFar /\ Len(values) <= Len(params)
    BY DEF IInv, EndBinding, Positioned
<1>2. Entry' /\ ReadSoFar' /\ Known' /\ Refers' /\ Annotated'
    BY <1>1, RunnerKeeps
<1>3. Positioned'
    BY <1>1, SameTest DEF IInv, Positioned, test
<1>4. SizesRight' /\ Said'
    BY <1>1, SameTest DEF IInv, SizesRight, Said, test
<1>5. \A i \in NSizes..Last : ~Shapeless(BoundTo(i)) /\ BoundTo(i).text # Unreadable
  <2>1. \A i \in NSizes..Last : i < next
      BY <1>1, BoundIsSupplied, Numbered DEF IInv, Positioned
  <2> QED
      BY <1>1, <2>1 DEF IInv, Passed
<1>6. Passed'
  <2>1. \A i : Shapeless(BoundTo(i))' <=> Shapeless(BoundTo(i))
      BY <1>1, SameValues DEF Shapeless
  <2> QED
      BY <1>1, <1>5, <2>1, SameTest, SameValues DEF Passed
<1>7. Flagged'
  <2>1. Len(flags) = Len(params)
      BY <1>1, Numbered DEF IInv, Flagged, Positioned
  <2> QED
      BY <1>1, <2>1, SameTest DEF IInv, Flagged, test
<1>8. EntryHandled'
    BY <1>1, <1>5, AllPassed, StillHandled
<1> QED
    BY <1>2, <1>3, <1>4, <1>6, <1>7, <1>8 DEF IInv

\* What a list says of sizes are extents, and the right ones if it is the value
\* of the array that the annotations are of.
LEMMA ResolvedIsRight ==
    ASSUME Entry, SizesRight, NEW p, p \in Param, NEW refs, RefersTo(refs, p),
           NEW shape \in Seq(Extent \cup {1}),
           \A d \in DOMAIN refs : refs[d] >= 0 => d \in DOMAIN shape
    PROVE  LET res == Resolved(refs, shape)
           IN  /\ \A q \in DOMAIN res :
                     /\ q \in 0..Last
                     /\ res[q] \in Extent \cup {1}
                     /\ Aligned /\ shape = Shape(p) =>
                           /\ Parameter(q).name \in SizeName
                           /\ res[q] = extent[Parameter(q).name]
               /\ DOMAIN sizeVal \subseteq DOMAIN res
               /\ \A d \in DOMAIN refs : refs[d] >= 0 => refs[d] \in DOMAIN res
<1> DEFINE res == Resolved(refs, shape)
           said == {d \in DOMAIN refs : refs[d] >= 0}
           Speak(q) == {d \in said : refs[d] = q}
           last == [q \in {refs[d] : d \in said} |->
                       CHOOSE d \in said : /\ refs[d] = q
                                           /\ \A e \in said : refs[e] = q => e <= d]
<1>1. PICK r \in Nat : p.dims \in [1..r -> SizeName \cup Extent]
  <2>1. p.dims \in Dims
      BY DEF Param
  <2>2. PICK r \in 0..MaxRank : p.dims \in [1..r -> SizeName \cup Extent]
      BY <2>1 DEF Dims
  <2> QED
      BY <2>2
<1>2. /\ refs \in [1..r -> -1..Last]
      /\ \A d \in 1..r : IF p.dims[d] \in SizeName
                         THEN refs[d] >= 0 /\ Parameter(refs[d]).name = p.dims[d]
                         ELSE refs[d] = -1
    BY <1>1 DEF RefersTo
<1>3. said \subseteq 1..r /\ \A d \in said : refs[d] \in 0..Last
    BY <1>2, Numbered
<1>4. ASSUME NEW q \in {refs[d] : d \in said}
      PROVE  last[q] \in said /\ refs[last[q]] = q
  <2>1. PICK d \in Speak(q) : \A e \in Speak(q) : e <= d
    <3>1. Speak(q) \subseteq 1..r /\ Speak(q) # {}
        BY <1>3
    <3> HIDE DEF Speak
    <3> QED
        BY <3>1, GreatestNumber
  <2>2. \E f \in said : refs[f] = q /\ \A e \in said : refs[e] = q => e <= f
      BY <2>1
  <2> HIDE DEF said
  <2> QED
      BY <2>2
<1>5. /\ DOMAIN res = DOMAIN sizeVal \cup {refs[d] : d \in said}
      /\ \A q \in DOMAIN res : res[q] = IF q \in {refs[d] : d \in said}
                                        THEN shape[last[q]] ELSE sizeVal[q]
    BY DEF Resolved
<1>6. ASSUME NEW q \in {refs[d] : d \in said}
      PROVE  /\ q \in 0..Last
             /\ shape[last[q]] \in Extent \cup {1}
             /\ Aligned /\ shape = Shape(p) =>
                   /\ Parameter(q).name \in SizeName
                   /\ shape[last[q]] = extent[Parameter(q).name]
  <2> DEFINE d == last[q]
  <2>1. d \in said /\ refs[d] = q
      BY <1>4
  <2> HIDE DEF d, last
  <2>2. d \in 1..r /\ refs[d] >= 0 /\ q \in 0..Last
      BY <1>3, <2>1
  <2>3. p.dims[d] \in SizeName /\ Parameter(q).name = p.dims[d]
      BY <1>2, <2>1, <2>2
  <2>4. shape[d] \in Extent \cup {1}
      BY <1>2, <2>2
  <2>5. Shape(p)[d] = extent[p.dims[d]]
      BY <1>1, <2>2, <2>3 DEF Shape
  <2> QED
      BY <2>2, <2>3, <2>4, <2>5 DEF d
<1> HIDE DEF res, last
<1>7. \A q \in DOMAIN res :
         /\ q \in 0..Last
         /\ res[q] \in Extent \cup {1}
         /\ Aligned /\ shape = Shape(p) =>
               /\ Parameter(q).name \in SizeName
               /\ res[q] = extent[Parameter(q).name]
    BY <1>5, <1>6 DEF SizesRight
<1> QED
    BY <1>5, <1>7 DEF res

LEMMA ResolveInv ==
    ASSUME IInv, Resolve
    PROVE  IInv'
<1> DEFINE refs == sizeArgs[next]
           v == BoundTo(next)
           p == Parameter(next)
           res == Resolved(refs, v.shape)
           Fits == \A d \in DOMAIN refs : refs[d] >= 0 => ~Shapeless(v) /\ d \in DOMAIN v.shape
<1>1. /\ UNCHANGED test /\ UNCHANGED values
      /\ UNCHANGED <<argPosition, sizeArgs, flags>>
      /\ status = "resolve" /\ next \in DOMAIN sizeArgs /\ next \in Bound
      /\ Entry /\ ReadSoFar /\ Refers /\ SizesRight /\ Said /\ Len(values) <= Len(params)
    BY DEF IInv, Resolve, Positioned
<1>2. IF Fits THEN sizeVal' = res /\ next' = next + 1 /\ status' = status
      ELSE status' = "raised" /\ sizeVal' = sizeVal /\ next' = next
    BY DEF Resolve
<1>3. /\ next \in 0..Last /\ NSizes <= next /\ p \in Param
      /\ RefersTo(refs, p) /\ v \in Parsable
  <2>1. next \in 0..Last /\ RefersTo(refs, p)
      BY <1>1 DEF Refers
  <2> QED
      BY <1>1, <2>1, Numbered, BoundIsSupplied
<1>4. DOMAIN refs = DOMAIN p.dims /\ DOMAIN refs = DOMAIN Shape(p)
    BY <1>1, <1>3, ShapeIsExtents DEF RefersTo
<1>5. Aligned => next \in Supplied /\ v.shape = Shape(p)
  <2> SUFFICES ASSUME Aligned PROVE next \in Supplied /\ v.shape = Shape(p)
      OBVIOUS
  <2>1. NSizes = First /\ \A i \in First..Last : BoundTo(i) = Single(i)
      BY <1>1, AlignedIsBound
  <2>2. next \in First..Last
      BY <1>3, <2>1, Numbered
  <2> QED
      BY <1>1, <2>1, <2>2, Numbered DEF Single
<1> HIDE DEF v
<1>6. CASE Fits
  <2>1. sizeVal' = res /\ next' = next + 1 /\ status' = status
      BY <1>2, <1>6
  <2>2. v.shape \in Seq(Extent \cup {1})
      BY <1>3 DEF Parsable
  <2>3. /\ \A q \in DOMAIN res :
              /\ q \in 0..Last
              /\ res[q] \in Extent \cup {1}
              /\ Aligned => /\ Parameter(q).name \in SizeName
                            /\ res[q] = extent[Parameter(q).name]
        /\ DOMAIN sizeVal \subseteq DOMAIN res
        /\ \A d \in DOMAIN refs : refs[d] >= 0 => refs[d] \in DOMAIN res
    <3>1. \A d \in DOMAIN refs : refs[d] >= 0 => d \in DOMAIN v.shape
        BY <1>6
    <3> HIDE DEF refs, p
    <3> QED
        BY <1>1, <1>3, <1>5, <2>2, <3>1, ResolvedIsRight
  <2> HIDE DEF res
  <2>4. Entry' /\ ReadSoFar' /\ Known' /\ Refers' /\ Annotated'
      BY <1>1, <2>1, RunnerKeeps
  <2>5. Positioned'
      BY <1>1, <1>3, <2>1, SameTest, Numbered DEF IInv, Positioned, test
  <2>6. SizesRight'
      BY <1>1, <2>1, <2>3, SameTest DEF SizesRight, test
  <2>7. Said'
    <3>1. ASSUME NEW i \in DOMAIN sizeArgs, NSizes <= i, i < next + 1,
                 NEW d \in DOMAIN sizeArgs[i], sizeArgs[i][d] >= 0
          PROVE  sizeArgs[i][d] \in DOMAIN res
      <4>1. i = next \/ i < next
          BY <1>1, <1>3, <3>1, Numbered DEF Refers
      <4>2. CASE i = next
          BY <2>3, <3>1, <4>2
      <4>3. CASE i < next
          BY <1>1, <2>3, <3>1, <4>3 DEF Said
      <4> QED
          BY <4>1, <4>2, <4>3
    <3> QED
        BY <1>1, <2>1, <3>1, SameTest, SameValues DEF Said
  <2>8. Flagged'
      BY <1>1, <2>1, SameTest DEF IInv, Flagged, test
  <2>9. EntryHandled' /\ Passed'
      BY <1>1, <2>1, StillHandled DEF Passed
  <2> QED
      BY <2>4, <2>5, <2>6, <2>7, <2>8, <2>9 DEF IInv
<1>7. CASE ~Fits
  <2>1. status' = "raised" /\ sizeVal' = sizeVal /\ next' = next
      BY <1>2, <1>7
  <2>2. Entry' /\ ReadSoFar' /\ Known' /\ Refers' /\ Annotated'
      BY <1>1, <2>1, RunnerKeeps
  <2>3. Positioned'
      BY <1>1, <2>1, SameTest DEF IInv, Positioned
  <2>4. SizesRight' /\ Said' /\ Passed'
      BY <1>1, <2>1, SameTest DEF SizesRight, Said, Passed, test
  <2>5. Flagged'
      BY <1>1, <2>1, SameTest DEF IInv, Flagged, test
  <2>6. \E i \in Supplied : NoElements(Parameter(i))
    <3>1. CASE ~Aligned
        BY <1>1, <3>1, InPiecesIsEmpty
    <3>2. CASE Aligned
      <4>1. next \in Supplied /\ v.shape = Shape(p)
          BY <1>5, <3>2
      <4>2. Shapeless(v)
          BY <1>4, <1>7, <4>1
      <4>3. NoElements(p)
          BY <1>4, <4>1, <4>2 DEF Shapeless, NoElements
      <4> QED
          BY <4>1, <4>3
    <3> QED
        BY <3>1, <3>2
  <2>7. EntryHandled'
      BY <1>1, <2>1, <2>6, StillHandled
  <2> QED
      BY <2>2, <2>3, <2>4, <2>5, <2>7 DEF IInv
<1> QED
    BY <1>6, <1>7

\* Appending the next parameter's value to the flags.
LEMMA NextFlag ==
    ASSUME Entry, Flagged, status = "bind", next \in 0..Last,
           NEW x \in Flag, Aligned => x = Value(next),
           NEW f, f = Append(flags, x)
    PROVE  /\ f \in Seq(Flag)
           /\ Len(f) = next + 1
           /\ Len(f) <= Len(params)
           /\ Aligned => \A k \in DOMAIN f : f[k] = Value(k - 1)
<1>1. flags \in Seq(Flag) /\ Len(flags) = next /\ next \in Nat /\ next + 1 <= Len(params)
    BY Numbered DEF Flagged
<1>2. f \in Seq(Flag) /\ Len(f) = next + 1 /\ DOMAIN f = 1..next + 1
    BY <1>1
<1>3. ASSUME Aligned, NEW k \in 1..next + 1
      PROVE  f[k] = Value(k - 1)
  <2>1. CASE k = next + 1
    <3>1. f[k] = Value(next) /\ k - 1 = next
        BY <1>1, <1>3, <2>1
    <3> QED
        BY <3>1
  <2>2. CASE k # next + 1
    <3>1. k \in 1..next /\ k \in DOMAIN flags
        BY <1>1, <2>2
    <3>2. f[k] = flags[k]
        BY <1>1, <3>1
    <3> QED
        BY <1>3, <3>1, <3>2 DEF Flagged
  <2> QED
      BY <2>1, <2>2
<1> QED
    BY <1>1, <1>2, <1>3

\* A test of exactly what the programmer wrote supplies an array that is named
\* after every inferred size, and the runner has read it.
LEMMA InferredIsFound ==
    ASSUME IInv, Aligned, status = "bind", supplied = written,
           next \in 0..Last, next < NSizes
    PROVE  next \in DOMAIN sizeVal
<1>1. Entry /\ Refers /\ Annotated /\ Said /\ ReadSoFar
    BY DEF IInv
<1> DEFINE j == next + 1
           name == params[j].name
<1>2. Inferred = NSizes /\ NSizes \in Nat /\ j \in 1..Inferred
    BY <1>1, Numbered, AlignedIsBound DEF Entry, Inferred, First
<1>3. name \in SizeName
    BY <1>1, <1>2 DEF Entry
<1>4. PICK k \in Inferred + 1..Len(params) : name \in Names(params[k])
    BY <1>1, <1>2 DEF Entry
<1> DEFINE i == k - 1
<1>5. i \in 0..Last /\ NSizes <= i /\ Parameter(i) = params[k]
    BY <1>1, <1>2, <1>4, Numbered DEF Parameter
<1> HIDE DEF i
<1>6. PICK d \in DOMAIN Parameter(i).dims : Parameter(i).dims[d] = name
    BY <1>4, <1>5 DEF Names
<1>7. IsArray(Parameter(i))
    BY <1>6 DEF IsArray
<1>8. i \in DOMAIN sizeArgs
    BY <1>1, <1>5, <1>7 DEF Annotated
<1> DEFINE q == sizeArgs[i][d]
<1>9. RefersTo(sizeArgs[i], Parameter(i))
    BY <1>1, <1>8 DEF Refers
<1>10. /\ d \in DOMAIN sizeArgs[i] /\ q \in -1..Last /\ q >= 0
       /\ Parameter(q).name = name
    BY <1>3, <1>6, <1>9 DEF RefersTo
<1>11. q \in DOMAIN sizeVal
    BY <1>1, <1>5, <1>8, <1>10 DEF Said
<1> HIDE DEF q
<1>12. q = next
  <2>1. q \in 0..Last
      BY <1>1, <1>10, Numbered
  <2>2. q + 1 \in DOMAIN params /\ j \in DOMAIN params
      BY <1>1, <2>1, Numbered
  <2>3. params[q + 1].name = params[j].name
      BY <1>10 DEF Parameter
  <2>4. params[j].name # Anonymous
      BY <1>3
  <2>5. q + 1 = j
      BY <1>1, <2>2, <2>3, <2>4 DEF Entry, Distinct
  <2> QED
      BY <2>1, <2>5
<1> QED
    BY <1>11, <1>12

LEMMA BindSizeInv ==
    ASSUME IInv, BindSize
    PROVE  IInv'
<1>1. /\ UNCHANGED test /\ UNCHANGED values
      /\ UNCHANGED <<argPosition, sizeArgs, sizeVal>>
      /\ status = "bind" /\ next \in 0..Last /\ next < NSizes
      /\ next' = next + 1 /\ status' \in {"bind", "unsupported"}
      /\ Entry /\ ReadSoFar /\ Positioned /\ Flagged /\ SizesRight /\ Len(values) <= Len(params)
    BY Numbered DEF IInv, BindSize, Positioned
<1>2. Entry' /\ ReadSoFar' /\ Known' /\ Refers' /\ Annotated'
    BY <1>1, RunnerKeeps
<1>3. Positioned'
    BY <1>1, SameTest, Numbered DEF Positioned, test
<1>4. SizesRight'
    BY <1>1, SameTest DEF SizesRight, test
<1>5. Said'
    BY <1>1, SameTest, SameValues DEF IInv, Said
<1>6. Passed'
  <2>1. \A i \in NSizes..Last : ~(i < next + 1)
      BY <1>1, BoundIsSupplied, Numbered
  <2>2. status' # "built"
      BY <1>1
  <2> QED
      BY <1>1, <2>1, <2>2, SameTest, SameValues DEF Passed
<1>7. CASE next \in DOMAIN sizeVal
  <2>1. flags' = Append(flags, <<"size", sizeVal[next]>>) /\ status' = "bind"
      BY <1>1, <1>7 DEF BindSize
  <2>2. /\ <<"size", sizeVal[next]>> \in Flag
        /\ Aligned => <<"size", sizeVal[next]>> = Value(next)
      BY <1>1, <1>7 DEF SizesRight, Value, Flag
  <2>3. /\ flags' \in Seq(Flag)
        /\ Len(flags') = next + 1
        /\ Len(flags') <= Len(params)
        /\ Aligned => \A k \in DOMAIN flags' : flags'[k] = Value(k - 1)
      BY <1>1, <2>1, <2>2, NextFlag
  <2>4. Flagged'
      BY <1>1, <2>1, <2>3, SameTest DEF Flagged, test
  <2>5. EntryHandled'
      BY <1>1, <2>1, StillHandled
  <2> QED
      BY <1>2, <1>3, <1>4, <1>5, <1>6, <2>4, <2>5 DEF IInv
<1>8. CASE next \notin DOMAIN sizeVal
  <2>1. flags' = flags /\ status' = "unsupported"
      BY <1>1, <1>8 DEF BindSize
  <2>2. Flagged'
      BY <1>1, <2>1, SameTest DEF Flagged, test
  <2>3. supplied # written \/ \E i \in Supplied : ~Usual(i)
    <3>1. supplied = written => ~Aligned
        BY <1>1, <1>8, InferredIsFound
    <3> QED
        BY <1>1, <3>1, InPiecesIsEmpty
  <2>4. EntryHandled'
      BY <1>1, <2>1, <2>3, StillHandled
  <2> QED
      BY <1>2, <1>3, <1>4, <1>5, <1>6, <2>2, <2>4 DEF IInv
<1> QED
    BY <1>7, <1>8

\* What becomes of a value is what its literal and its parameter make of it.
LEMMA BoundValue ==
    ASSUME Entry, ReadSoFar, Aligned, status # "parse",
           NEW i \in 0..Last, NSizes <= i
    PROVE  /\ i \in Supplied
           /\ Shapeless(BoundTo(i)) => NoElements(Parameter(i))
           /\ BoundTo(i).text = Unreadable => ~Usual(i)
           /\ BoundTo(i).text # Unreadable => BoundTo(i).text = Value(i)
<1>1. i \in First..Last /\ i \in Supplied /\ BoundTo(i) = Single(i)
    BY Numbered, AlignedIsBound
<1>2. /\ Single(i).shape = Shape(Parameter(i))
      /\ Single(i).text = IF literal[i] = "numbers" THEN Value(i) ELSE Unreadable
    BY DEF Single
<1>3. DOMAIN Shape(Parameter(i)) = DOMAIN Parameter(i).dims
    BY Numbered, ShapeIsExtents
<1>4. Shapeless(BoundTo(i)) => NoElements(Parameter(i))
    BY <1>1, <1>2, <1>3 DEF Shapeless, NoElements
<1>5. BoundTo(i).text = Unreadable => ~Usual(i)
    BY <1>1, <1>2, ValueIsFlag DEF Usual
<1>6. BoundTo(i).text # Unreadable => BoundTo(i).text = Value(i)
    BY <1>1, <1>2
<1> QED
    BY <1>1, <1>4, <1>5, <1>6

LEMMA BindValueInv ==
    ASSUME IInv, BindValue
    PROVE  IInv'
<1> DEFINE v == BoundTo(next)
<1>1. /\ UNCHANGED test /\ UNCHANGED values
      /\ UNCHANGED <<argPosition, sizeArgs, sizeVal>>
      /\ status = "bind" /\ next \in 0..Last /\ NSizes <= next
      /\ next' = next + 1
      /\ Entry /\ ReadSoFar /\ Positioned /\ Flagged /\ SizesRight /\ Passed
      /\ Len(values) <= Len(params)
  <2>1. Entry /\ ReadSoFar /\ Len(values) <= Len(params)
      BY DEF IInv, BindValue, Positioned
  <2>2. next \in 0..Last
      BY <2>1, Numbered DEF IInv, BindValue, Positioned
  <2> QED
      BY <2>1, <2>2, BoundIsSupplied DEF IInv, BindValue
<1>2. next \in Bound /\ v \in Parsable
    BY <1>1, BoundIsSupplied
<1>3. \/ ~Shapeless(v) /\ v.text = Unreadable /\ status' = "unsupported" /\ flags' = flags
      \/ ~Shapeless(v) /\ v.text # Unreadable /\ status' = "bind"
            /\ flags' = Append(flags, v.text)
      \/ Shapeless(v) /\ status' = "raised" /\ flags' = flags
    BY <1>1, <1>2 DEF BindValue
<1>4. Aligned => /\ next \in Supplied
                 /\ Shapeless(v) => NoElements(Parameter(next))
                 /\ v.text = Unreadable => ~Usual(next)
                 /\ v.text # Unreadable => v.text = Value(next)
    BY <1>1, BoundValue
<1>5. Entry' /\ ReadSoFar' /\ Known' /\ Refers' /\ Annotated'
    BY <1>1, <1>3, RunnerKeeps
<1>6. Positioned'
    BY <1>1, <1>3, SameTest, Numbered DEF Positioned, test
<1>7. SizesRight'
    BY <1>1, SameTest DEF SizesRight, test
<1>8. Said'
    BY <1>1, <1>3, SameTest, SameValues DEF IInv, Said
<1>9. Passed'
  <2> SUFFICES ASSUME status' = "bind" PROVE Passed'
      BY <1>3 DEF Passed
  <2>1. ASSUME NEW i \in NSizes..Last, i < next + 1
        PROVE  ~Shapeless(BoundTo(i)) /\ BoundTo(i).text # Unreadable
    <3>1. i = next \/ i < next
        BY <1>1, <2>1, BoundIsSupplied
    <3>2. CASE i = next
        BY <1>3, <3>2
    <3>3. CASE i < next
        BY <1>1, <3>3 DEF Passed
    <3> QED
        BY <3>1, <3>2, <3>3
  <2>2. \A i : Shapeless(BoundTo(i))' <=> Shapeless(BoundTo(i))
      BY <1>1, SameValues DEF Shapeless
  <2> QED
      BY <1>1, <2>1, <2>2, SameTest, SameValues DEF Passed
<1>10. Flagged'
  <2>1. CASE status' # "bind"
      BY <1>1, <1>3, <2>1, SameTest DEF Flagged, test
  <2>2. CASE status' = "bind"
    <3>1. flags' = Append(flags, v.text) /\ v.text # Unreadable
        BY <1>3, <2>2
    <3>2. v.text \in Flag /\ (Aligned => v.text = Value(next))
        BY <1>2, <1>4, <3>1 DEF Parsable
    <3>3. /\ flags' \in Seq(Flag)
          /\ Len(flags') = next + 1
          /\ Len(flags') <= Len(params)
          /\ Aligned => \A k \in DOMAIN flags' : flags'[k] = Value(k - 1)
        BY <1>1, <3>1, <3>2, NextFlag
    <3> QED
        BY <1>1, <2>2, <3>3, SameTest DEF Flagged, test
  <2> QED
      BY <2>1, <2>2
<1>11. EntryHandled'
  <2>1. status' = "unsupported" => \E i \in Supplied : ~Usual(i)
      BY <1>1, <1>3, <1>4, InPiecesIsEmpty
  <2>2. status' = "raised" => \E i \in Supplied : NoElements(Parameter(i))
      BY <1>1, <1>3, <1>4, InPiecesIsEmpty
  <2>3. status' # "out_of_range" /\ status' # "built"
      BY <1>3
  <2> QED
      BY <1>1, <2>1, <2>2, <2>3, StillHandled
<1> QED
    BY <1>5, <1>6, <1>7, <1>8, <1>9, <1>10, <1>11 DEF IInv

LEMMA StutterInv ==
    ASSUME IInv, UNCHANGED vars
    PROVE  IInv'
<1>1. /\ UNCHANGED test /\ UNCHANGED values
      /\ UNCHANGED <<next, argPosition, sizeArgs, sizeVal, flags, status>>
    BY DEF vars, test
<1>2. Entry' /\ ReadSoFar'
  <2>1. Past' = Past
      BY <1>1 DEF Past, test
  <2> QED
      BY <1>1, <2>1, SameTest, SameReading DEF IInv
<1>3. Positioned'
    BY <1>1, SameTest DEF IInv, Positioned, test
<1>4. Known' /\ Refers' /\ Annotated'
    BY <1>1, SameTest DEF IInv, Known, Refers, Annotated, IsArray
<1>5. SizesRight' /\ Said'
    BY <1>1, SameTest, SameValues DEF IInv, SizesRight, Said, test
<1>6. Passed'
  <2>1. \A i : Shapeless(BoundTo(i))' <=> Shapeless(BoundTo(i))
      BY <1>1, SameValues DEF Shapeless
  <2> QED
      BY <1>1, <2>1, SameTest, SameValues DEF IInv, Passed
<1>7. Flagged'
    BY <1>1, SameTest DEF IInv, Flagged, test
<1>8. EntryHandled'
    BY <1>1, StillHandled DEF IInv, EntryHandled
<1> QED
    BY <1>2, <1>3, <1>4, <1>5, <1>6, <1>7, <1>8 DEF IInv

-----------------------------------------------------------------------------
(* What holds of every behaviour.                                            *)

LEMMA NextInv == IInv /\ [Next]_vars => IInv'
<1> SUFFICES ASSUME IInv, [Next]_vars PROVE IInv'
    OBVIOUS
<1>1. CASE Parse
    BY <1>1, ParseInv
<1>2. CASE StartCompiler
    BY <1>2, StartCompilerInv
<1>3. CASE Annotate
    BY <1>3, AnnotateInv
<1>4. CASE TooManyValues
    BY <1>4, TooManyValuesInv
<1>5. CASE StartRunner
    BY <1>5, StartRunnerInv
<1>6. CASE SkipScalar
    BY <1>6, SkipScalarInv
<1>7. CASE Resolve
    BY <1>7, ResolveInv
<1>8. CASE StartBinding
    BY <1>8, StartBindingInv
<1>9. CASE BindSize
    BY <1>9, BindSizeInv
<1>10. CASE BindValue
    BY <1>10, BindValueInv
<1>11. CASE EndBinding
    BY <1>11, EndBindingInv
<1>12. CASE UNCHANGED vars
    BY <1>12, StutterInv
<1> QED
    BY <1>1, <1>2, <1>3, <1>4, <1>5, <1>6, <1>7, <1>8, <1>9, <1>10, <1>11, <1>12 DEF Next

\* Throughout the reading of a test, LowerFunction's loop over the parameters and
\* _build_flags' three loops: the values read are those of the literals or hold a
\* piece no flag is built of, the positions and annotations so far name the right
\* parameters, and the sizes and flags so far are the test's if no literal fell
\* into pieces.
THEOREM Agreement == Spec => []IInv
    BY InitInv, NextInv, PTL DEF Spec

\* Every annotation of LowerFunction has one entry per dimension, -1 or the
\* position of a parameter, and what _build_flags learns of it is an extent.
THEOREM ABITypes == Spec => []TypeOK
<1>1. IInv => TypeOK
  <2> SUFFICES ASSUME IInv PROVE TypeOK
      OBVIOUS
  <2>1. Entry /\ Positioned /\ ReadSoFar /\ Known /\ Refers /\ SizesRight /\ Flagged
      BY DEF IInv
  <2>2. \A i \in DOMAIN sizeArgs :
           i \in 0..Last /\ sizeArgs[i] \in [DOMAIN Parameter(i).dims -> -1..Last]
      BY <2>1 DEF Refers, RefersTo
  <2>3. \A p \in DOMAIN sizeVal : p \in 0..Last /\ sizeVal[p] \in Extent \cup {1}
      BY <2>1 DEF SizesRight
  <2>4. \A f \in Flag : f[1] \in {"size", "value"}
      BY DEF Flag
  <2>5. \A i \in DOMAIN flags : flags[i][1] \in {"size", "value"}
    <3>1. \A i \in DOMAIN flags : flags[i] \in Flag
        BY <2>1 DEF Flagged
    <3> QED
        BY <2>4, <3>1
  <2>6. ASSUME NEW k \in DOMAIN values
        PROVE  /\ \A d \in DOMAIN values[k].shape : values[k].shape[d] \in Extent \cup {1}
               /\ values[k].text[1] \in {"size", "value", "unreadable"}
    <3>1. values[k] \in Parsable
        BY <2>1 DEF ReadSoFar
    <3>2. /\ values[k].shape \in Seq(Extent \cup {1})
          /\ values[k].text \in Flag \cup {Unreadable}
        BY <3>1 DEF Parsable
    <3>3. Unreadable[1] = "unreadable"
        BY DEF Unreadable
    <3> QED
        BY <2>4, <3>2, <3>3
  <2>7. \A x \in DOMAIN argPosition :
           x \in SizeName \cup {Anonymous} /\ argPosition[x] \in 0..Last
      BY <2>1 DEF Known
  <2>8. /\ next \in 0..Last + 1
        /\ status \in {"parse", "annotate", "resolve", "bind", "built", "unsupported",
                       "out_of_range", "raised"}
      BY <2>1 DEF Positioned
  <2> QED
      BY <2>2, <2>3, <2>5, <2>6, <2>7, <2>8 DEF TypeOK
<1> QED
    BY <1>1, Agreement, PTL

\* For an entry point of any length and arrays of any rank, whichever of its
\* trailing values a test supplies and however it writes them: if _build_flags
\* returns, its flags give every parameter of LowerFunction's signature the value
\* that the test means.
THEOREM FlagsAreMeant == Spec => []FlagsMeanTheTest
<1>1. IInv => FlagsMeanTheTest
  <2> SUFFICES ASSUME IInv, status = "built"
               PROVE  flags = [i \in 1..Len(params) |-> Value(i - 1)]
      BY DEF FlagsMeanTheTest
  <2>1. Aligned
    <3>1. \A i \in NSizes..Last : ~Shapeless(BoundTo(i)) /\ BoundTo(i).text # Unreadable
        BY DEF IInv, Passed
    <3> QED
        BY <3>1, AllPassed DEF IInv, Positioned
  <2>2. /\ flags \in Seq(Flag) /\ Len(flags) = Len(params)
        /\ \A k \in DOMAIN flags : flags[k] = Value(k - 1)
      BY <2>1 DEF IInv, Flagged
  <2>3. DOMAIN flags = 1..Len(params)
      BY <2>2
  <2>4. flags = [k \in DOMAIN flags |-> flags[k]]
      BY <2>2
  <2> QED
      BY <2>2, <2>3, <2>4
<1> QED
    BY <1>1, Agreement, PTL

\* argPosition.at in LowerFunction never throws on an entry point of the front
\* end.  _build_flags returns flags only of literals _payload reads, even where
\* the brackets of `empty(...)` make values for other parameters; it is Unsupported
\* only if the test leaves out a parameter or has a literal of another kind; and it
\* raises anything else only if an array of the test has no elements.
THEOREM EntriesHandled == Spec => []EntryHandled
<1>1. IInv => EntryHandled
    BY DEF IInv
<1> QED
    BY <1>1, Agreement, PTL

=============================================================================
